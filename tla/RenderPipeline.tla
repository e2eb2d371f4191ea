---------------------------- MODULE RenderPipeline ----------------------------
(***************************************************************************)
(* The frames of one GTK3 canvas on their way to the screen: the queue of  *)
(* backbuffers (render_queue.c), the thread pool of one thread that draws  *)
(* them (render_thread.c), and the OpenGL renderer that both threads and   *)
(* the UI share (opengl_renderer.c).                                       *)
(*                                                                         *)
(* The VICE thread takes an unused backbuffer, fills it without a lock,    *)
(* queues it and pushes a render job.  The render thread takes the jobs in *)
(* order.  The UI thread pushes redraws while the machine is paused,       *)
(* resizes the native view, and at exit stops the pool, destroys the       *)
(* windows, joins the VICE thread and frees the canvas, in this order.     *)
(***************************************************************************)
EXTENDS Integers, Sequences, FiniteSets

CONSTANTS
  Buffers,          \* the backbuffers render_queue_create allocates
  NoBuffer,         \* NULL
  MaxFrames,        \* bound: frames the machine draws
  MaxJobs           \* bound: jobs waiting when the frame clock adds a redraw

Max == Cardinality(Buffers)             \* RENDER_QUEUE_MAX_BACKBUFFERS

ASSUME PipelineAssumption ==
  /\ IsFiniteSet(Buffers) /\ Buffers # {} /\ NoBuffer \notin Buffers
  /\ MaxFrames \in Nat /\ MaxJobs \in Nat

VARIABLES
  stack,            \* backbuffer_stack[0 .. backbuffer_stack_size - 1]
  ring,             \* render_queue, slots 0 .. Max - 1
  ringNext,         \* render_queue_next
  ringLength,       \* render_queue_length
  frame,            \* the frame each backbuffer holds
  sized,            \* the backbuffers whose width and height are not 0
  canvasLock,       \* owner of canvas->lock
  renderLock,       \* owner of context->render_lock
  jobs,             \* the jobs waiting in the thread pool
  pool,             \* the pool: "open", "closing" (no new jobs), "freed"
  vice,             \* the VICE thread in vice_opengl_refresh_rect
  viceBuffer,       \* the backbuffer it holds
  drawn,            \* frames it has drawn so far
  sizeKnown,        \* vice_opengl_update_context has been called
  render,           \* the render thread in render()
  renderBuffer,     \* the backbuffer it holds
  rendered,         \* a frame has been laid out: the last rendered size is set
  shown,            \* the frame on the screen
  ui,               \* the UI thread: in a resize, or progress of main_exit
  view,             \* the native child view exists
  failed            \* an assert of render_queue.c failed

queue == <<stack, ring, ringNext, ringLength, frame, sized, failed>>
locks == <<canvasLock, renderLock>>
threadPool == <<jobs, pool>>
viceVars == <<vice, viceBuffer, drawn, sizeKnown>>
renderVars == <<render, renderBuffer, rendered, shown>>
uiVars == <<ui, view>>
vars == <<queue, locks, threadPool, viceVars, renderVars, uiVars>>

Free == "free"

Init ==
  /\ \E s \in [1..Max -> Buffers] :
       /\ \A i, j \in 1..Max : s[i] = s[j] => i = j
       /\ stack = s
  /\ ring = [i \in 0..Max - 1 |-> NoBuffer]
  /\ ringNext = 0 /\ ringLength = 0
  /\ frame = [b \in Buffers |-> 0]
  /\ sized = {}
  /\ canvasLock = Free /\ renderLock = Free
  /\ jobs = <<"init">> /\ pool = "open"
  /\ vice = "emulating" /\ viceBuffer = NoBuffer /\ drawn = 0 /\ sizeKnown = FALSE
  /\ render = "idle" /\ renderBuffer = NoBuffer /\ rendered = FALSE /\ shown = 0
  /\ ui = "gtk" /\ view = TRUE
  /\ failed = FALSE

-----------------------------------------------------------------------------
(* render_queue.c, each call under the queue's own lock *)

\* render_queue_return_to_pool: an assert guards the stack.
ReturnToPool(b) ==
  IF Len(stack) < Max
    THEN stack' = Append(stack, b) /\ UNCHANGED failed
    ELSE failed' = TRUE /\ UNCHANGED stack

\* Mutant: the new frame replaces the next one to be shown.
EnqueueForDisplayAtNext(b) ==
  /\ ring' = [ring EXCEPT ![ringNext] = b]
  /\ ringLength' = ringLength + 1
  /\ UNCHANGED failed

\* render_queue_enqueue_for_display: an assert guards the ring.
EnqueueForDisplay(b) ==
  IF ringLength < Max
    THEN /\ ring' = [ring EXCEPT ![(ringNext + ringLength) % Max] = b]
         /\ ringLength' = ringLength + 1
         /\ UNCHANGED failed
    ELSE failed' = TRUE /\ UNCHANGED <<ring, ringLength>>

\* Mutant: the most recent frame is taken.
DequeueNewest ==
  IF ringLength = 0
    THEN renderBuffer' = NoBuffer /\ UNCHANGED <<ring, ringNext, ringLength>>
    ELSE /\ renderBuffer' = ring[(ringNext + ringLength - 1) % Max]
         /\ ringLength' = ringLength - 1
         /\ UNCHANGED <<ring, ringNext>>

\* render_queue_dequeue_for_display; NULL when no frame is queued.
DequeueForDisplay ==
  IF ringLength = 0
    THEN renderBuffer' = NoBuffer /\ UNCHANGED <<ring, ringNext, ringLength>>
    ELSE /\ renderBuffer' = ring[ringNext]
         /\ ringNext' = (ringNext + 1) % Max
         /\ ringLength' = ringLength - 1
         /\ UNCHANGED ring

\* render_thread_push_job: refused once the shutdown is initiated.
PushRenderJob ==
  /\ jobs' = IF pool = "open" THEN Append(jobs, "render") ELSE jobs
  /\ UNCHANGED pool

-----------------------------------------------------------------------------
(* The VICE thread: vice_opengl_refresh_rect *)

\* vice_opengl_update_context
UpdateContext ==
  /\ vice = "emulating" /\ canvasLock = Free
  /\ ~sizeKnown
  /\ sizeKnown' = TRUE
  /\ UNCHANGED <<queue, locks, threadPool, vice, viceBuffer, drawn, renderVars, uiVars>>

\* The first locked section: take an unused backbuffer; without one the frame
\* is skipped and nothing changes.
TakeBackbuffer ==
  /\ vice = "emulating" /\ canvasLock = Free
  /\ drawn < MaxFrames
  /\ stack # <<>>
  /\ viceBuffer' = stack[Len(stack)]
  /\ stack' = SubSeq(stack, 1, Len(stack) - 1)
  /\ sized' = IF sizeKnown THEN sized \cup {viceBuffer'} ELSE sized \ {viceBuffer'}
  /\ vice' = "drawing"
  /\ UNCHANGED <<ring, ringNext, ringLength, frame, failed, locks, threadPool, drawn,
                 sizeKnown, renderVars, uiVars>>

\* video_canvas_render fills it without a lock; then the second locked section
\* queues it for display ...
QueueFrame ==
  /\ vice = "drawing" /\ canvasLock = Free
  /\ canvasLock' = "vice"
  /\ drawn' = drawn + 1
  /\ frame' = [frame EXCEPT ![viceBuffer] = drawn']
  /\ EnqueueForDisplay(viceBuffer)
  /\ viceBuffer' = NoBuffer
  /\ vice' = "pushing"
  /\ UNCHANGED <<stack, ringNext, sized, renderLock, threadPool, sizeKnown,
                 renderVars, uiVars>>

\* Mutant: the render job is not pushed.
PushFrameJobDropped ==
  /\ vice = "pushing"
  /\ canvasLock' = Free
  /\ vice' = "emulating"
  /\ UNCHANGED <<queue, renderLock, threadPool, viceBuffer, drawn, sizeKnown, renderVars, uiVars>>

\* ... and pushes its render job, still under the canvas lock.
PushFrameJob ==
  /\ vice = "pushing"
  /\ PushRenderJob
  /\ canvasLock' = Free
  /\ vice' = "emulating"
  /\ UNCHANGED <<queue, renderLock, viceBuffer, drawn, sizeKnown, renderVars, uiVars>>

-----------------------------------------------------------------------------
(* The render thread: render() *)

\* The pool's thread takes the next job; init and shutdown jobs only touch
\* thread-local state.
TakeJob ==
  /\ render = "idle" /\ pool \in {"open", "initiated"}
  /\ jobs # <<>>
  /\ render' = IF Head(jobs) = "render" THEN "starting" ELSE "idle"
  /\ jobs' = Tail(jobs)
  /\ UNCHANGED <<queue, locks, pool, viceVars, renderBuffer, rendered, shown, uiVars>>

\* The frame is dequeued before the canvas lock is taken.
DequeueFrame ==
  /\ render = "starting"
  /\ DequeueForDisplay
  /\ render' = "layout"
  /\ UNCHANGED <<stack, frame, sized, failed, locks, threadPool, viceVars, rendered,
                 shown, uiVars>>

\* The layout is computed under the canvas lock; with no size yet the job ends.
LayOut ==
  /\ render = "layout" /\ canvasLock = Free
  /\ IF renderBuffer \in sized \/ (renderBuffer = NoBuffer /\ rendered)
       THEN /\ canvasLock' = "render"
            /\ render' = "locking"
       ELSE /\ render' = "returning"
            /\ UNCHANGED canvasLock
  /\ rendered' = IF renderBuffer = NoBuffer THEN rendered ELSE renderBuffer \in sized
  /\ UNCHANGED <<queue, renderLock, threadPool, viceVars, renderBuffer, shown, uiVars>>

\* Mutant: the canvas lock is kept until the frame is drawn, and released by
\* nobody.
LockRenderKeepingCanvas ==
  /\ render = "locking" /\ renderLock = Free
  /\ renderLock' = "render"
  /\ render' = "drawing"
  /\ UNCHANGED <<queue, canvasLock, threadPool, viceVars, renderBuffer, rendered, shown, uiVars>>

\* Hand over from the canvas lock to the render lock.
LockRender ==
  /\ render = "locking" /\ renderLock = Free
  /\ renderLock' = "render"
  /\ canvasLock' = Free
  /\ render' = "drawing"
  /\ UNCHANGED <<queue, threadPool, viceVars, renderBuffer, rendered, shown, uiVars>>

\* Draw and present; without a new frame the last one is drawn again.
Present ==
  /\ render = "drawing"
  /\ shown' = IF renderBuffer = NoBuffer THEN shown ELSE frame[renderBuffer]
  /\ renderLock' = Free
  /\ render' = "returning"
  /\ UNCHANGED <<queue, canvasLock, threadPool, viceVars, renderBuffer, rendered, uiVars>>

\* The backbuffer goes back to the stack of unused ones.
ReturnBackbuffer ==
  /\ render = "returning"
  /\ IF renderBuffer = NoBuffer
       THEN UNCHANGED <<stack, failed>>
       ELSE ReturnToPool(renderBuffer)
  /\ renderBuffer' = NoBuffer
  /\ render' = "idle"
  /\ UNCHANGED <<ring, ringNext, ringLength, frame, sized, locks, threadPool, viceVars,
                 rendered, shown, uiVars>>

-----------------------------------------------------------------------------
(* The UI thread *)

\* vice_opengl_on_ui_frame_clock while the machine is paused, in the monitor
\* or jammed.
FrameClock ==
  /\ ui = "gtk" /\ canvasLock = Free
  /\ Len(jobs) < MaxJobs
  /\ PushRenderJob
  /\ UNCHANGED <<queue, locks, viceVars, renderVars, uiVars>>

\* on_widget_resized takes the canvas lock ...
Resize ==
  /\ ui = "gtk" /\ canvasLock = Free
  /\ canvasLock' = "ui"
  /\ ui' = "resizing"
  /\ UNCHANGED <<queue, renderLock, threadPool, viceVars, renderVars, view>>

\* ... and resize_child_view the render lock inside it.
ResizeChildView ==
  /\ ui = "resizing" /\ renderLock = Free
  /\ canvasLock' = Free
  /\ ui' = "gtk"
  /\ UNCHANGED <<queue, renderLock, threadPool, viceVars, renderVars, view>>

\* main_exit: render_thread_initiate_shutdown ...
InitiateShutdown ==
  /\ ui = "gtk" /\ pool = "open"
  /\ pool' = "initiated"
  /\ jobs' = Append(jobs, "shutdown")
  /\ ui' = "joining"
  /\ UNCHANGED <<queue, locks, viceVars, renderVars, view>>

\* ... render_thread_join: g_thread_pool_free drops the jobs that wait ...
FreePool ==
  /\ ui = "joining" /\ pool = "initiated"
  /\ pool' = "closing"
  /\ jobs' = <<>>
  /\ UNCHANGED <<queue, locks, viceVars, renderVars, uiVars>>

\* ... and waits for the one that runs.
Joined ==
  /\ ui = "joining" /\ pool = "closing"
  /\ render = "idle"
  /\ pool' = "freed"
  /\ ui' = "joined"
  /\ UNCHANGED <<queue, locks, jobs, viceVars, renderVars, view>>

\* ui_exit destroys the windows, and the canvas' child view with them, while it
\* holds the mainlock, that is, while the VICE thread is between two frames.
DestroyWindows ==
  /\ ui = "joined" /\ vice = "emulating" /\ canvasLock = Free
  /\ view' = FALSE
  /\ ui' = "windows_gone"
  /\ UNCHANGED <<queue, locks, threadPool, viceVars, renderVars>>

\* Mutant: the VICE thread is not joined.
JoinViceThreadAtOnce ==
  /\ ui = "windows_gone"
  /\ ui' = "vice_joined"
  /\ UNCHANGED <<queue, locks, threadPool, viceVars, renderVars, view>>
\* vice_thread_shutdown: the VICE thread exits in mainlock_yield, between frames.
JoinViceThread ==
  /\ ui = "windows_gone" /\ vice = "emulating"
  /\ vice' = "exited"
  /\ ui' = "vice_joined"
  /\ UNCHANGED <<queue, locks, threadPool, viceBuffer, drawn, sizeKnown, renderVars, view>>

\* machine_shutdown: vice_opengl_destroy_context frees the stack and the ring.
DestroyContext ==
  /\ ui = "vice_joined" /\ canvasLock = Free
  /\ ui' = "destroyed"
  /\ UNCHANGED <<queue, locks, threadPool, viceVars, renderVars, view>>

Done == ui = "destroyed" /\ UNCHANGED vars

-----------------------------------------------------------------------------
Next ==
  \/ UpdateContext \/ TakeBackbuffer \/ QueueFrame \/ PushFrameJob
  \/ TakeJob \/ DequeueFrame \/ LayOut \/ LockRender \/ Present \/ ReturnBackbuffer
  \/ FrameClock \/ Resize \/ ResizeChildView
  \/ InitiateShutdown \/ FreePool \/ Joined \/ DestroyWindows \/ JoinViceThread
  \/ DestroyContext
  \/ Done

\* Every thread goes on with what it has begun.  The mutexes serve a thread
\* that waits: their holders keep them for a moment, once per frame.
Fairness ==
  /\ SF_vars(QueueFrame) /\ WF_vars(PushFrameJob)
  /\ WF_vars(TakeJob) /\ WF_vars(DequeueFrame) /\ SF_vars(LayOut)
  /\ SF_vars(LockRender) /\ WF_vars(Present) /\ WF_vars(ReturnBackbuffer)
  /\ WF_vars(ResizeChildView)
  /\ WF_vars(FreePool) /\ WF_vars(Joined) /\ SF_vars(DestroyWindows)
  /\ SF_vars(JoinViceThread) /\ SF_vars(DestroyContext)

Spec == Init /\ [][Next]_vars /\ Fairness

-----------------------------------------------------------------------------
\* The types of the state.
TypeOK ==
  /\ stack \in Seq(Buffers) /\ Len(stack) <= Max
  /\ ring \in [0..Max - 1 -> Buffers \cup {NoBuffer}]
  /\ ringNext \in 0..Max - 1 /\ ringLength \in 0..Max
  /\ frame \in [Buffers -> 0..MaxFrames] /\ sized \subseteq Buffers
  /\ canvasLock \in {Free, "vice", "render", "ui"}
  /\ renderLock \in {Free, "render"}
  /\ jobs \in Seq({"init", "render", "shutdown"})
  /\ pool \in {"open", "initiated", "closing", "freed"}
  /\ vice \in {"emulating", "drawing", "pushing", "exited"}
  /\ viceBuffer \in Buffers \cup {NoBuffer} /\ drawn \in 0..MaxFrames
  /\ sizeKnown \in BOOLEAN
  /\ render \in {"idle", "starting", "layout", "locking", "drawing", "returning"}
  /\ renderBuffer \in Buffers \cup {NoBuffer}
  /\ rendered \in BOOLEAN /\ shown \in 0..MaxFrames
  /\ ui \in {"gtk", "resizing", "joining", "joined", "windows_gone", "vice_joined",
             "destroyed"}
  /\ view \in BOOLEAN /\ failed \in BOOLEAN

Queued == {ring[(ringNext + i) % Max] : i \in 0..ringLength - 1}
Unused == {stack[i] : i \in 1..Len(stack)}
Held == {viceBuffer, renderBuffer} \ {NoBuffer}

\* Every backbuffer is in exactly one place, so that the machine never draws
\* into a frame that is queued or on its way to the texture, none is lost, and the
\* asserts of render_queue.c against an overflow of stack and ring never fail.
OneOwner ==
  /\ Unused \cup Queued \cup Held = Buffers
  /\ Len(stack) + ringLength + Cardinality({viceBuffer} \ {NoBuffer})
       + Cardinality({renderBuffer} \ {NoBuffer}) = Max
  /\ ~failed

\* When the context is freed no thread is inside the renderer: both locks are
\* free and every backbuffer is in the stack or in the ring that is freed.
NothingInUseAtDestroy ==
  ui = "destroyed" => /\ vice = "exited" /\ render = "idle"
                      /\ canvasLock = Free /\ renderLock = Free
                      /\ Unused \cup Queued = Buffers

\* Frames reach the screen in the order the machine drew them.
FramesInOrder == [][shown' >= shown]_vars

\* A frame that is queued leaves the queue, unless the renderer shuts down.
FrameLeavesQueue ==
  \A b \in Buffers : b \in Queued ~> (b \notin Queued \/ pool # "open")

\* The exit, once it has begun, is never stuck on a lock or on a thread.
ExitCompletes == ui = "joining" ~> ui = "destroyed"
===============================================================================
