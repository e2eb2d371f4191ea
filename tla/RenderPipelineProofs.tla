------------------------- MODULE RenderPipelineProofs -------------------------
(***************************************************************************)
(* Proofs about RenderPipeline for any number of backbuffers, frames and   *)
(* waiting jobs.  The inductive invariant says who holds which lock, how   *)
(* far the exit has come, that no two places hold the same backbuffer, and *)
(* that the frames on their way to the screen are in the order in which    *)
(* they were drawn.                                                        *)
(***************************************************************************)
EXTENDS RenderPipeline, FiniteSetTheorems, SequenceTheorems, TLAPS

\* The i-th frame that waits for display, counted from 0.
Slot(n, i) == (n + i) % Max
Waiting(i) == ring[Slot(ringNext, i)]

\* A lock has an owner exactly while the owner is in its locked section.
LockHolders ==
  /\ canvasLock = "vice" <=> vice = "pushing"
  /\ canvasLock = "render" <=> render = "locking"
  /\ canvasLock = "ui" <=> ui = "resizing"
  /\ renderLock = "render" <=> render = "drawing"

\* What each stage of main_exit has behind it.
ExitStages ==
  /\ pool = "open" <=> ui \in {"gtk", "resizing"}
  /\ pool = "freed" <=> ui \in {"joined", "windows_gone", "vice_joined", "destroyed"}
  /\ pool = "freed" => render = "idle"
  /\ vice = "exited" <=> ui \in {"vice_joined", "destroyed"}

\* Where a thread holds a backbuffer.
Holders ==
  /\ viceBuffer # NoBuffer <=> vice = "drawing"
  /\ render \in {"idle", "starting"} => renderBuffer = NoBuffer
  /\ vice = "drawing" => drawn < MaxFrames

\* No two places hold the same backbuffer.
NoneShared ==
  /\ \A i, j \in 1..Len(stack) : stack[i] = stack[j] => i = j
  /\ \A i, j \in 0..ringLength - 1 : Waiting(i) = Waiting(j) => i = j
  /\ Unused \cap Queued = {}
  /\ (Unused \cup Queued) \cap Held = {}
  /\ viceBuffer = renderBuffer => viceBuffer = NoBuffer

\* Screen, render thread, ring and VICE thread: from the oldest frame to the newest.
FramesOrdered ==
  /\ shown <= drawn
  /\ \A i, j \in 0..ringLength - 1 : i < j => frame[Waiting(i)] <= frame[Waiting(j)]
  /\ \A b \in Queued : shown <= frame[b] /\ frame[b] <= drawn
  /\ renderBuffer # NoBuffer =>
       /\ shown <= frame[renderBuffer] /\ frame[renderBuffer] <= drawn
       /\ \A b \in Queued : frame[renderBuffer] <= frame[b]

\* The type invariant in parts, as the provers take them.
BufferTypes ==
  /\ stack \in Seq(Buffers) /\ Len(stack) <= Max
  /\ ring \in [0..Max - 1 -> Buffers \cup {NoBuffer}]
  /\ ringNext \in 0..Max - 1 /\ ringLength \in 0..Max
  /\ frame \in [Buffers -> 0..MaxFrames]
  /\ viceBuffer \in Buffers \cup {NoBuffer} /\ renderBuffer \in Buffers \cup {NoBuffer}
  /\ drawn \in 0..MaxFrames /\ shown \in 0..MaxFrames
ControlTypes ==
  /\ canvasLock \in {Free, "vice", "render", "ui"}
  /\ renderLock \in {Free, "render"}
  /\ pool \in {"open", "initiated", "closing", "freed"}
  /\ vice \in {"emulating", "drawing", "pushing", "exited"}
  /\ render \in {"idle", "starting", "layout", "locking", "drawing", "returning"}
  /\ ui \in {"gtk", "resizing", "joining", "joined", "windows_gone", "vice_joined",
             "destroyed"}
Flags ==
  /\ sizeKnown \in BOOLEAN /\ rendered \in BOOLEAN
  /\ view \in BOOLEAN /\ failed \in BOOLEAN
OtherTypes == sized \subseteq Buffers /\ jobs \in Seq({"init", "render", "shutdown"})

Control == ControlTypes /\ LockHolders /\ ExitStages
Data == BufferTypes /\ OneOwner /\ NoneShared /\ FramesOrdered

IInv == Control /\ Flags /\ OtherTypes /\ Holders /\ Data

dataVars == <<stack, ring, ringNext, ringLength, frame, failed, viceBuffer, renderBuffer,
              drawn, shown>>

LEMMA Parts == IInv => TypeOK /\ OneOwner /\ NothingInUseAtDestroy
<1> SUFFICES ASSUME IInv PROVE TypeOK /\ OneOwner /\ NothingInUseAtDestroy
  OBVIOUS
<1>1. TypeOK
  BY Zenon DEF IInv, TypeOK, Control, ControlTypes, Flags, OtherTypes, Data, BufferTypes
<1>2. OneOwner
  BY DEF IInv, Data
<1>3. NothingInUseAtDestroy
  <2> SUFFICES ASSUME ui = "destroyed" PROVE NothingInUseAtDestroy
    BY DEF NothingInUseAtDestroy
  <2>1. /\ vice = "exited" /\ render = "idle"
        /\ canvasLock = Free /\ renderLock = Free
    BY DEF IInv, Control, ControlTypes, LockHolders, ExitStages
  <2>2. Held = {}
    BY <2>1 DEF IInv, Holders, Held
  <2> QED BY <1>2, <2>1, <2>2 DEF NothingInUseAtDestroy, OneOwner
<1> QED BY <1>1, <1>2, <1>3

-----------------------------------------------------------------------------
(* The ring *)

LEMMA MaxType == Max \in Nat \ {0}
BY PipelineAssumption, FS_CardinalityType, FS_EmptySet DEF Max

\* Slots count around the ring.
LEMMA Around ==
  \A n \in 0..Max - 1 : \A i \in 0..Max :
     Slot(n, i) = IF n + i < Max THEN n + i ELSE n + i - Max
<1> SUFFICES ASSUME NEW n \in 0..Max - 1, NEW i \in 0..Max
             PROVE  Slot(n, i) = IF n + i < Max THEN n + i ELSE n + i - Max
  OBVIOUS
<1>1. CASE n + i < Max
  BY <1>1, MaxType, SMT DEF Slot
<1>2. CASE ~ (n + i < Max)
  BY <1>2, MaxType, SMT DEF Slot
<1> QED BY <1>1, <1>2

LEMMA Slots ==
  ASSUME NEW n \in 0..Max - 1
  PROVE  /\ Slot(n, 0) = n
         /\ \A i \in 0..Max : Slot(n, i) \in 0..Max - 1
         /\ \A i, j \in 0..Max - 1 : Slot(n, i) = Slot(n, j) => i = j
         /\ \A i \in 0..Max - 1 : Slot(Slot(n, 1), i) = Slot(n, i + 1)
<1>1. Slot(n, 0) = n /\ \A i \in 0..Max : Slot(n, i) \in 0..Max - 1
  BY Around, MaxType
<1>2. \A i, j \in 0..Max - 1 : Slot(n, i) = Slot(n, j) => i = j
  BY Around, MaxType
<1>3. ASSUME NEW i \in 0..Max - 1 PROVE Slot(Slot(n, 1), i) = Slot(n, i + 1)
  <2>1. Slot(n, 1) = IF n + 1 < Max THEN n + 1 ELSE n + 1 - Max
    BY Around, MaxType
  <2>2. Slot(Slot(n, 1), i)
          = IF Slot(n, 1) + i < Max THEN Slot(n, 1) + i ELSE Slot(n, 1) + i - Max
    BY <1>1, Around, MaxType
  <2>3. Slot(n, i + 1) = IF n + (i + 1) < Max THEN n + (i + 1) ELSE n + (i + 1) - Max
    BY Around, MaxType
  <2> QED BY <2>1, <2>2, <2>3, MaxType
<1> QED BY <1>1, <1>2, <1>3

LEMMA Positions ==
  /\ \A b : b \in Queued <=> \E i \in 0..ringLength - 1 : b = Waiting(i)
  /\ (\A b : b \in Queued <=> \E i \in 0..ringLength - 1 : b = Waiting(i))'
<1>1. \A b : b \in Queued <=> \E i \in 0..ringLength - 1 : b = Waiting(i)
  BY Zenon DEF Queued, Waiting, Slot
<1>2. (\A b : b \in Queued <=> \E i \in 0..ringLength - 1 : b = Waiting(i))'
  BY Zenon DEF Queued, Waiting, Slot
<1> QED BY <1>1, <1>2

\* A thread holds one backbuffer or none.
LEMMA Holding ==
  ASSUME NEW b \in Buffers \cup {NoBuffer}
  PROVE  Cardinality({b} \ {NoBuffer}) = IF b = NoBuffer THEN 0 ELSE 1
<1>1. CASE b = NoBuffer
  BY <1>1, FS_EmptySet, {b} \ {NoBuffer} = {}
<1>2. CASE b # NoBuffer
  BY <1>2, FS_Singleton, {b} \ {NoBuffer} = {b}
<1> QED BY <1>1, <1>2

\* A frame enqueued comes after all that wait.
LEMMA Enqueued ==
  ASSUME BufferTypes, NEW b \in Buffers, ringLength < Max, EnqueueForDisplay(b),
         UNCHANGED ringNext
  PROVE  /\ ring' \in [0..Max - 1 -> Buffers \cup {NoBuffer}]
         /\ ringLength' = ringLength + 1 /\ failed' = failed
         /\ \A i \in 0..ringLength :
              Waiting(i)' = IF i = ringLength THEN b ELSE Waiting(i)
         /\ \A c : c \in Queued' <=> c = b \/ c \in Queued
<1> USE DEF BufferTypes
<1>1. /\ ring' = [ring EXCEPT ![Slot(ringNext, ringLength)] = b]
      /\ ringLength' = ringLength + 1 /\ failed' = failed
  BY DEF EnqueueForDisplay, Slot
<1>2. Slot(ringNext, ringLength) \in 0..Max - 1
  BY Slots
<1>3. \A i \in 0..ringLength - 1 : Slot(ringNext, i) \in 0..Max - 1
  <2>1. \A i \in 0..ringLength - 1 : i \in 0..Max
    BY MaxType
  <2> QED BY <2>1, Slots
<1>4. ring' \in [0..Max - 1 -> Buffers \cup {NoBuffer}]
  BY <1>1, <1>2
<1>5. ASSUME NEW i \in 0..ringLength
      PROVE  Waiting(i)' = IF i = ringLength THEN b ELSE Waiting(i)
  <2>1. Waiting(i)' = ring'[Slot(ringNext, i)]
    BY DEF Waiting, Slot
  <2>2. CASE i = ringLength
    BY <1>1, <1>2, <2>1, <2>2
  <2>3. CASE i # ringLength
    <3>1. i \in 0..Max - 1 /\ ringLength \in 0..Max - 1
      BY <2>3, MaxType
    <3>2. Slot(ringNext, i) # Slot(ringNext, ringLength)
      BY <2>3, <3>1, Slots
    <3> QED BY <1>1, <1>2, <1>3, <2>1, <2>3, <3>2 DEF Waiting
  <2> QED BY <2>2, <2>3
<1>7. ASSUME NEW c PROVE c \in Queued' <=> c = b \/ c \in Queued
  <2>1. c \in Queued' <=> \E i \in 0..ringLength : c = Waiting(i)'
    BY <1>1, Positions
  <2>2. c \in Queued <=> \E i \in 0..ringLength - 1 : c = Waiting(i)
    BY Positions
  <2>3. \A i : i \in 0..ringLength <=> i = ringLength \/ i \in 0..ringLength - 1
    OBVIOUS
  <2>4. ringLength \notin 0..ringLength - 1
    OBVIOUS
  <2> QED BY <1>5, <2>1, <2>2, <2>3, <2>4, Zenon
<1> QED BY <1>1, <1>4, <1>5, <1>7

\* The frame dequeued is the one that has waited longest.
LEMMA Dequeued ==
  ASSUME BufferTypes, ringLength # 0, DequeueForDisplay
  PROVE  /\ ringNext' \in 0..Max - 1 /\ ringLength' = ringLength - 1
         /\ ring' = ring
         /\ renderBuffer' = Waiting(0)
         /\ \A i \in 0..ringLength - 2 : Waiting(i)' = Waiting(i + 1)
         /\ \A b : b \in Queued <=> b = renderBuffer' \/ b \in Queued'
<1> USE DEF BufferTypes
<1>1. /\ renderBuffer' = ring[ringNext] /\ ringNext' = Slot(ringNext, 1)
      /\ ringLength' = ringLength - 1 /\ ring' = ring
  BY DEF DequeueForDisplay, Slot
<1>2. ringNext' \in 0..Max - 1 /\ Slot(ringNext, 0) = ringNext
  BY <1>1, Slots, MaxType
<1>3. \A i \in 0..ringLength - 2 : Slot(ringNext', i) = Slot(ringNext, i + 1)
  BY <1>1, Slots, MaxType
<1>4. \A i \in 0..ringLength - 2 : Waiting(i)' = Waiting(i + 1)
  BY <1>1, <1>3 DEF Waiting
<1>5. renderBuffer' = Waiting(0)
  BY <1>1, <1>2 DEF Waiting
<1>6. ASSUME NEW b PROVE b \in Queued <=> b = renderBuffer' \/ b \in Queued'
  <2>0. b \in Queued <=> \E i \in 0..ringLength - 1 : b = Waiting(i)
    BY Positions
  <2>1. b \in Queued' <=> \E i \in 0..ringLength - 2 : b = Waiting(i)'
    BY <1>1, Positions
  <2>2. \A i \in 0..ringLength - 1 : i = 0 \/ (i - 1 \in 0..ringLength - 2 /\ i = (i - 1) + 1)
    OBVIOUS
  <2>3. 0 \in 0..ringLength - 1 /\ \A i \in 0..ringLength - 2 : i + 1 \in 0..ringLength - 1
    OBVIOUS
  <2> QED BY <1>4, <1>5, <2>0, <2>1, <2>2, <2>3
<1> QED BY <1>1, <1>2, <1>4, <1>5, <1>6

\* A step that leaves buffers and frames alone.
LEMMA DataKept == ASSUME Data, UNCHANGED dataVars PROVE Data'
<1> USE DEF Data, dataVars
<1>1. BufferTypes'
  BY DEF BufferTypes
<1>2. Queued' = Queued /\ Unused' = Unused /\ Held' = Held
  BY DEF Queued, Unused, Held
<1>3. OneOwner'
  BY <1>2 DEF OneOwner
<1>4. \A i : Waiting(i)' = Waiting(i)
  BY DEF Waiting, Slot
<1>5. NoneShared'
  BY <1>2, <1>4, Zenon DEF NoneShared
<1>6. FramesOrdered'
  BY <1>2, <1>4, Zenon DEF FramesOrdered
<1> QED BY <1>1, <1>3, <1>5, <1>6

-----------------------------------------------------------------------------
(* The stack of unused backbuffers *)

\* The backbuffer taken is the one on top.
LEMMA Popped ==
  ASSUME BufferTypes, stack # <<>>, stack' = SubSeq(stack, 1, Len(stack) - 1)
  PROVE  /\ stack' \in Seq(Buffers) /\ Len(stack') = Len(stack) - 1
         /\ \A i \in 1..Len(stack') : stack'[i] = stack[i]
         /\ stack[Len(stack)] \in Buffers
         /\ \A b : b \in Unused <=> b = stack[Len(stack)] \/ b \in Unused'
<1> USE DEF BufferTypes
<1>1. Len(stack) \in Nat \ {0}
  BY EmptySeq, LenProperties
<1>2. /\ stack' \in Seq(Buffers) /\ Len(stack') = Len(stack) - 1
      /\ \A i \in 1..Len(stack') : stack'[i] = stack[i]
  <2>1. \A i \in 1..Len(stack) - 1 : stack[i] \in Buffers
    BY <1>1, ElementOfSeq
  <2>2. /\ stack' \in Seq(Buffers)
        /\ Len(stack') = IF 1 <= Len(stack) - 1 THEN Len(stack) - 1 - 1 + 1 ELSE 0
        /\ \A i \in 1..Len(stack) - 1 - 1 + 1 : stack'[i] = stack[1 + i - 1]
    BY <1>1, <2>1, SubSeqProperties
  <2>3. Len(stack') = Len(stack) - 1
    <3>1. \A n \in Nat \ {0} : n - 1 = IF 1 <= n - 1 THEN n - 1 - 1 + 1 ELSE 0
      OBVIOUS
    <3>2. Len(stack') = IF 1 <= Len(stack) - 1 THEN Len(stack) - 1 - 1 + 1 ELSE 0
      BY <2>2
    <3> QED BY <1>1, <3>1, <3>2, Zenon
  <2>4. ASSUME NEW i \in 1..Len(stack') PROVE stack'[i] = stack[i]
    <3>1. i \in 1..Len(stack) - 1 - 1 + 1 /\ 1 + i - 1 = i
      BY <1>1, <2>3
    <3> QED BY <2>2, <3>1
  <2> QED BY <2>2, <2>3, <2>4
<1>3. stack[Len(stack)] \in Buffers
  BY <1>1, ElementOfSeq
<1>4. ASSUME NEW b PROVE b \in Unused <=> b = stack[Len(stack)] \/ b \in Unused'
  <2>1. b \in Unused <=> \E i \in 1..Len(stack) : b = stack[i]
    BY DEF Unused
  <2>2. b \in Unused' <=> \E i \in 1..Len(stack') : b = stack'[i]
    BY DEF Unused
  <2>3. \A i : i \in 1..Len(stack) <=> i = Len(stack) \/ i \in 1..Len(stack')
    BY <1>1, <1>2
  <2> QED BY <1>2, <2>1, <2>2, <2>3
<1> QED BY <1>2, <1>3, <1>4

\* The backbuffer returned is on top.
LEMMA Pushed ==
  ASSUME BufferTypes, NEW b \in Buffers, Len(stack) < Max, ReturnToPool(b)
  PROVE  /\ stack' \in Seq(Buffers) /\ Len(stack') = Len(stack) + 1
         /\ failed' = failed
         /\ \A i \in 1..Len(stack) : stack'[i] = stack[i]
         /\ stack'[Len(stack) + 1] = b
         /\ \A c : c \in Unused' <=> c = b \/ c \in Unused
<1> USE DEF BufferTypes
<1>1. stack' = Append(stack, b) /\ failed' = failed
  BY DEF ReturnToPool
<1>2. /\ stack' \in Seq(Buffers) /\ Len(stack') = Len(stack) + 1
      /\ \A i \in 1..Len(stack) : stack'[i] = stack[i]
      /\ stack'[Len(stack) + 1] = b
  BY <1>1, AppendProperties
<1>3. ASSUME NEW c PROVE c \in Unused' <=> c = b \/ c \in Unused
  <2>1. c \in Unused <=> \E i \in 1..Len(stack) : c = stack[i]
    BY DEF Unused
  <2>2. c \in Unused' <=> \E i \in 1..Len(stack') : c = stack'[i]
    BY DEF Unused
  <2>3. \A i : i \in 1..Len(stack') <=> i = Len(stack) + 1 \/ i \in 1..Len(stack)
    BY <1>2, LenProperties
  <2> QED BY <1>2, <2>1, <2>2, <2>3
<1> QED BY <1>1, <1>2, <1>3

-----------------------------------------------------------------------------
(* Locks, stages and types: each action of each thread *)

\* Locks are taken and given back in pairs, and main_exit takes its steps in order.
LEMMA ControlSafe == ASSUME Control, [Next]_vars PROVE Control'
<1> USE DEF Control, ControlTypes, LockHolders, ExitStages, Free
<1>1. CASE UpdateContext
  BY <1>1 DEF UpdateContext, locks, threadPool, viceVars, renderVars, uiVars
<1>2. CASE TakeBackbuffer
  BY <1>2 DEF TakeBackbuffer, locks, threadPool, viceVars, renderVars, uiVars
<1>3. CASE QueueFrame
  BY <1>3 DEF QueueFrame, locks, threadPool, viceVars, renderVars, uiVars
<1>4. CASE PushFrameJob
  BY <1>4 DEF PushFrameJob, PushRenderJob, locks, threadPool, viceVars, renderVars, uiVars
<1>5. CASE TakeJob
  BY <1>5 DEF TakeJob, locks, threadPool, viceVars, renderVars, uiVars
<1>6. CASE DequeueFrame
  BY <1>6 DEF DequeueFrame, locks, threadPool, viceVars, renderVars, uiVars
<1>7. CASE LayOut
  BY <1>7 DEF LayOut, locks, threadPool, viceVars, renderVars, uiVars
<1>8. CASE LockRender
  BY <1>8 DEF LockRender, locks, threadPool, viceVars, renderVars, uiVars
<1>9. CASE Present
  BY <1>9 DEF Present, locks, threadPool, viceVars, renderVars, uiVars
<1>10. CASE ReturnBackbuffer
  BY <1>10 DEF ReturnBackbuffer, locks, threadPool, viceVars, renderVars, uiVars
<1>11. CASE FrameClock
  BY <1>11 DEF FrameClock, PushRenderJob, locks, threadPool, viceVars, renderVars, uiVars
<1>12. CASE Resize
  BY <1>12 DEF Resize, locks, threadPool, viceVars, renderVars, uiVars
<1>13. CASE ResizeChildView
  BY <1>13 DEF ResizeChildView, locks, threadPool, viceVars, renderVars, uiVars
<1>14. CASE InitiateShutdown
  BY <1>14 DEF InitiateShutdown, locks, threadPool, viceVars, renderVars, uiVars
<1>15. CASE FreePool
  BY <1>15 DEF FreePool, locks, threadPool, viceVars, renderVars, uiVars
<1>16. CASE Joined
  BY <1>16 DEF Joined, locks, threadPool, viceVars, renderVars, uiVars
<1>17. CASE DestroyWindows
  BY <1>17 DEF DestroyWindows, locks, threadPool, viceVars, renderVars, uiVars
<1>18. CASE JoinViceThread
  BY <1>18 DEF JoinViceThread, locks, threadPool, viceVars, renderVars, uiVars
<1>19. CASE DestroyContext
  BY <1>19 DEF DestroyContext, locks, threadPool, viceVars, renderVars, uiVars
<1>20. CASE UNCHANGED vars
  BY <1>20 DEF vars, locks, threadPool, viceVars, renderVars, uiVars
<1> QED
  BY <1>1, <1>2, <1>3, <1>4, <1>5, <1>6, <1>7, <1>8, <1>9, <1>10, <1>11, <1>12, <1>13, <1>14, <1>15, <1>16, <1>17, <1>18, <1>19, <1>20 DEF Next, Done

\* Flags stay flags.
LEMMA FlagsSafe ==
  ASSUME Flags, [Next]_vars PROVE Flags'
<1> USE DEF Flags
<1>1. CASE UpdateContext
  BY <1>1, Zenon DEF UpdateContext, queue, locks, threadPool, viceVars, renderVars, uiVars
<1>2. CASE TakeBackbuffer
  BY <1>2, Zenon DEF TakeBackbuffer, queue, locks, threadPool, viceVars, renderVars, uiVars
<1>3. CASE QueueFrame
  BY <1>3, Zenon DEF QueueFrame, EnqueueForDisplay, queue, locks, threadPool, viceVars, renderVars, uiVars
<1>4. CASE PushFrameJob
  BY <1>4, Zenon DEF PushFrameJob, PushRenderJob, queue, locks, threadPool, viceVars, renderVars, uiVars
<1>5. CASE TakeJob
  BY <1>5, Zenon DEF TakeJob, queue, locks, threadPool, viceVars, renderVars, uiVars
<1>6. CASE DequeueFrame
  BY <1>6, Zenon DEF DequeueFrame, queue, locks, threadPool, viceVars, renderVars, uiVars
<1>7. CASE LayOut
  <2>1. rendered' \in BOOLEAN
    <3>1. (renderBuffer \in sized) \in BOOLEAN
      OBVIOUS
    <3>2. rendered' = rendered \/ rendered' = (renderBuffer \in sized)
      BY <1>7, Zenon DEF LayOut
    <3> QED BY <3>1, <3>2, Zenon
  <2>2. UNCHANGED <<sizeKnown, view, failed>>
    BY <1>7 DEF LayOut, queue, viceVars, uiVars
  <2> QED BY <2>1, <2>2, Zenon
<1>8. CASE LockRender
  BY <1>8, Zenon DEF LockRender, queue, locks, threadPool, viceVars, renderVars, uiVars
<1>9. CASE Present
  BY <1>9, Zenon DEF Present, queue, locks, threadPool, viceVars, renderVars, uiVars
<1>10. CASE ReturnBackbuffer
  BY <1>10, Zenon DEF ReturnBackbuffer, ReturnToPool, queue, locks, threadPool, viceVars, renderVars, uiVars
<1>11. CASE FrameClock
  BY <1>11, Zenon DEF FrameClock, PushRenderJob, queue, locks, threadPool, viceVars, renderVars, uiVars
<1>12. CASE Resize
  BY <1>12, Zenon DEF Resize, queue, locks, threadPool, viceVars, renderVars, uiVars
<1>13. CASE ResizeChildView
  BY <1>13, Zenon DEF ResizeChildView, queue, locks, threadPool, viceVars, renderVars, uiVars
<1>14. CASE InitiateShutdown
  BY <1>14, Zenon DEF InitiateShutdown, queue, locks, threadPool, viceVars, renderVars, uiVars
<1>15. CASE FreePool
  BY <1>15, Zenon DEF FreePool, queue, locks, threadPool, viceVars, renderVars, uiVars
<1>16. CASE Joined
  BY <1>16, Zenon DEF Joined, queue, locks, threadPool, viceVars, renderVars, uiVars
<1>17. CASE DestroyWindows
  BY <1>17, Zenon DEF DestroyWindows, queue, locks, threadPool, viceVars, renderVars, uiVars
<1>18. CASE JoinViceThread
  BY <1>18, Zenon DEF JoinViceThread, queue, locks, threadPool, viceVars, renderVars, uiVars
<1>19. CASE DestroyContext
  BY <1>19, Zenon DEF DestroyContext, queue, locks, threadPool, viceVars, renderVars, uiVars
<1>20. CASE UNCHANGED vars
  BY <1>20, Zenon DEF vars, queue, locks, threadPool, viceVars, renderVars, uiVars
<1> QED
  BY <1>1, <1>2, <1>3, <1>4, <1>5, <1>6, <1>7, <1>8, <1>9, <1>10, <1>11, <1>12, <1>13, <1>14, <1>15, <1>16, <1>17, <1>18, <1>19, <1>20 DEF Next, Done

\* The job queue holds jobs, and only backbuffers have a size.
LEMMA OtherTypesSafe ==
  ASSUME OtherTypes, BufferTypes, [Next]_vars PROVE OtherTypes'
<1> USE DEF OtherTypes
<1> DEFINE Jobs == {"init", "render", "shutdown"}
<1>0. \A j \in Jobs : Append(jobs, j) \in Seq(Jobs)
  BY AppendProperties
<1>1. CASE UpdateContext
  BY <1>1 DEF UpdateContext, queue, threadPool
<1>2. CASE TakeBackbuffer
  BY <1>2, Popped DEF TakeBackbuffer, queue, threadPool
<1>3. CASE QueueFrame
  BY <1>3 DEF QueueFrame, queue, threadPool
<1>4. CASE PushFrameJob
  BY <1>4, <1>0 DEF PushFrameJob, PushRenderJob, queue, threadPool
<1>5. CASE TakeJob
  BY <1>5, HeadTailProperties DEF TakeJob, queue, threadPool
<1>6. CASE DequeueFrame
  BY <1>6 DEF DequeueFrame, queue, threadPool
<1>7. CASE LayOut
  BY <1>7 DEF LayOut, queue, threadPool
<1>8. CASE LockRender
  BY <1>8 DEF LockRender, queue, threadPool
<1>9. CASE Present
  BY <1>9 DEF Present, queue, threadPool
<1>10. CASE ReturnBackbuffer
  BY <1>10 DEF ReturnBackbuffer, queue, threadPool
<1>11. CASE FrameClock
  BY <1>11, <1>0 DEF FrameClock, PushRenderJob, queue, threadPool
<1>12. CASE Resize
  BY <1>12 DEF Resize, queue, threadPool
<1>13. CASE ResizeChildView
  BY <1>13 DEF ResizeChildView, queue, threadPool
<1>14. CASE InitiateShutdown
  BY <1>14, <1>0 DEF InitiateShutdown, queue, threadPool
<1>15. CASE FreePool
  BY <1>15, EmptySeq DEF FreePool, queue, threadPool
<1>16. CASE Joined
  BY <1>16 DEF Joined, queue, threadPool
<1>17. CASE DestroyWindows
  BY <1>17 DEF DestroyWindows, queue, threadPool
<1>18. CASE JoinViceThread
  BY <1>18 DEF JoinViceThread, queue, threadPool
<1>19. CASE DestroyContext
  BY <1>19 DEF DestroyContext, queue, threadPool
<1>20. CASE UNCHANGED vars
  BY <1>20 DEF vars, queue, threadPool
<1> QED
  BY <1>1, <1>2, <1>3, <1>4, <1>5, <1>6, <1>7, <1>8, <1>9, <1>10, <1>11, <1>12, <1>13, <1>14, <1>15, <1>16, <1>17, <1>18, <1>19, <1>20 DEF Next, Done

\* A backbuffer is held in the sections that use it, and only there.
LEMMA HoldersSafe ==
  ASSUME Holders, BufferTypes, [Next]_vars PROVE Holders'
<1> USE DEF Holders
<1>1. CASE UpdateContext
  BY <1>1 DEF UpdateContext, queue, viceVars, renderVars
<1>2. CASE TakeBackbuffer
  BY <1>2, Popped, PipelineAssumption DEF TakeBackbuffer, queue, viceVars, renderVars
<1>3. CASE QueueFrame
  BY <1>3 DEF QueueFrame, BufferTypes, queue, viceVars, renderVars
<1>4. CASE PushFrameJob
  BY <1>4 DEF PushFrameJob, queue, viceVars, renderVars
<1>5. CASE TakeJob
  BY <1>5 DEF TakeJob, queue, viceVars, renderVars
<1>6. CASE DequeueFrame
  BY <1>6 DEF DequeueFrame, queue, viceVars, renderVars
<1>7. CASE LayOut
  BY <1>7 DEF LayOut, queue, viceVars, renderVars
<1>8. CASE LockRender
  BY <1>8 DEF LockRender, queue, viceVars, renderVars
<1>9. CASE Present
  BY <1>9 DEF Present, queue, viceVars, renderVars
<1>10. CASE ReturnBackbuffer
  BY <1>10 DEF ReturnBackbuffer, queue, viceVars, renderVars
<1>11. CASE FrameClock
  BY <1>11 DEF FrameClock, queue, viceVars, renderVars
<1>12. CASE Resize
  BY <1>12 DEF Resize, queue, viceVars, renderVars
<1>13. CASE ResizeChildView
  BY <1>13 DEF ResizeChildView, queue, viceVars, renderVars
<1>14. CASE InitiateShutdown
  BY <1>14 DEF InitiateShutdown, queue, viceVars, renderVars
<1>15. CASE FreePool
  BY <1>15 DEF FreePool, queue, viceVars, renderVars
<1>16. CASE Joined
  BY <1>16 DEF Joined, queue, viceVars, renderVars
<1>17. CASE DestroyWindows
  BY <1>17 DEF DestroyWindows, queue, viceVars, renderVars
<1>18. CASE JoinViceThread
  BY <1>18 DEF JoinViceThread, queue, viceVars, renderVars
<1>19. CASE DestroyContext
  BY <1>19 DEF DestroyContext, queue, viceVars, renderVars
<1>20. CASE UNCHANGED vars
  BY <1>20 DEF vars, queue, viceVars, renderVars
<1> QED
  BY <1>1, <1>2, <1>3, <1>4, <1>5, <1>6, <1>7, <1>8, <1>9, <1>10, <1>11, <1>12, <1>13, <1>14, <1>15, <1>16, <1>17, <1>18, <1>19, <1>20 DEF Next, Done

-----------------------------------------------------------------------------
(* Backbuffers and frames: the five steps that move them *)

LEMMA HeldBy ==
  /\ \A b : b \in Held <=> b # NoBuffer /\ (b = viceBuffer \/ b = renderBuffer)
  /\ (\A b : b \in Held <=> b # NoBuffer /\ (b = viceBuffer \/ b = renderBuffer))'
BY DEF Held

LEMMA RingKept ==
  ASSUME UNCHANGED <<ring, ringNext, ringLength>>
  PROVE  Queued' = Queued /\ \A i : Waiting(i)' = Waiting(i)
BY DEF Queued, Waiting, Slot

LEMMA TakeBackbufferData ==
  ASSUME Data, Holders, TakeBackbuffer PROVE Data'
<1> USE DEF Data
<1>1. /\ UNCHANGED <<ring, ringNext, ringLength, frame, failed, drawn, renderBuffer, shown>>
      /\ stack # <<>> /\ viceBuffer' = stack[Len(stack)]
      /\ stack' = SubSeq(stack, 1, Len(stack) - 1)
      /\ viceBuffer = NoBuffer
  BY DEF TakeBackbuffer, Holders, renderVars
<1>2. /\ stack' \in Seq(Buffers) /\ Len(stack') = Len(stack) - 1
      /\ \A i \in 1..Len(stack') : stack'[i] = stack[i]
      /\ viceBuffer' \in Buffers /\ viceBuffer' # NoBuffer
      /\ \A b : b \in Unused <=> b = viceBuffer' \/ b \in Unused'
  BY <1>1, Popped, PipelineAssumption
<1>3. Len(stack) \in Nat /\ Len(stack') \in Nat
  BY <1>2, LenProperties DEF BufferTypes
<1>4. Queued' = Queued /\ \A i : Waiting(i)' = Waiting(i)
  BY <1>1, RingKept
<1>5. BufferTypes'
  BY <1>1, <1>2, <1>3, MaxType DEF BufferTypes
<1>6. OneOwner'
  <2>1. (Unused \cup Queued \cup Held)' = Buffers
    BY <1>1, <1>2, <1>4, HeldBy DEF OneOwner
  <2>2. /\ Cardinality({viceBuffer} \ {NoBuffer}) = 0
        /\ Cardinality({viceBuffer'} \ {NoBuffer}) = 1
    BY <1>1, <1>2, Holding
  <2>3. Cardinality({renderBuffer} \ {NoBuffer}) \in Nat
    BY Holding DEF BufferTypes
  <2> QED BY <1>1, <1>2, <1>3, <2>1, <2>2, <2>3 DEF OneOwner, BufferTypes
<1>7. NoneShared'
  <2>1. \A i, j \in 1..Len(stack') : stack'[i] = stack'[j] => i = j
    BY <1>2, <1>3 DEF NoneShared
  <2>2. viceBuffer' \notin Unused'
    <3>1. \A i \in 1..Len(stack') : stack[i] # stack[Len(stack)]
      BY <1>2, <1>3 DEF NoneShared
    <3> QED BY <1>1, <1>2, <3>1 DEF Unused
  <2>3. (Unused \cap Queued)' = {} /\ ((Unused \cup Queued) \cap Held)' = {}
    BY <1>1, <1>2, <1>4, <2>2, HeldBy DEF NoneShared
  <2>4. viceBuffer' # renderBuffer'
    BY <1>1, <1>2, HeldBy DEF NoneShared
  <2> QED BY <1>1, <1>4, <2>1, <2>3, <2>4 DEF NoneShared
<1>8. FramesOrdered'
  BY <1>1, <1>4, Zenon DEF FramesOrdered
<1> QED BY <1>5, <1>6, <1>7, <1>8

LEMMA QueueFrameData ==
  ASSUME Data, Holders, QueueFrame PROVE Data'
<1> USE DEF Data
<1>1. /\ UNCHANGED <<stack, ringNext, renderBuffer, shown>>
      /\ drawn' = drawn + 1 /\ drawn < MaxFrames
      /\ frame' = [frame EXCEPT ![viceBuffer] = drawn']
      /\ EnqueueForDisplay(viceBuffer)
      /\ viceBuffer' = NoBuffer /\ viceBuffer # NoBuffer
  BY DEF QueueFrame, Holders, renderVars
<1>2. viceBuffer \in Buffers /\ drawn \in 0..MaxFrames /\ shown \in 0..MaxFrames
  BY <1>1 DEF BufferTypes
<1>3. /\ Cardinality({viceBuffer} \ {NoBuffer}) = 1
      /\ Cardinality({viceBuffer'} \ {NoBuffer}) = 0
      /\ Cardinality({renderBuffer} \ {NoBuffer}) \in Nat
  <2>1. viceBuffer' \in Buffers \cup {NoBuffer} /\ renderBuffer \in Buffers \cup {NoBuffer}
    BY <1>1 DEF BufferTypes
  <2>2. Cardinality({viceBuffer} \ {NoBuffer}) = 1
    BY <1>1, <1>2, Holding
  <2>3. Cardinality({viceBuffer'} \ {NoBuffer}) = 0
    BY <1>1, <2>1, Holding
  <2>4. Cardinality({renderBuffer} \ {NoBuffer}) \in Nat
    BY <2>1, Holding
  <2> QED BY <2>2, <2>3, <2>4
<1>4. Len(stack) \in Nat /\ ringLength < Max
  <2>1. Len(stack) \in Nat
    BY LenProperties DEF BufferTypes
  <2> QED BY <1>3, <2>1, MaxType DEF OneOwner, BufferTypes
<1>5. /\ ring' \in [0..Max - 1 -> Buffers \cup {NoBuffer}]
      /\ ringLength' = ringLength + 1 /\ failed' = failed
      /\ \A i \in 0..ringLength :
           Waiting(i)' = IF i = ringLength THEN viceBuffer ELSE Waiting(i)
      /\ \A c : c \in Queued' <=> c = viceBuffer \/ c \in Queued
  BY <1>1, <1>2, <1>4, Enqueued
<1>6. Unused' = Unused
  BY <1>1 DEF Unused
<1>7. BufferTypes'
  <2>1. drawn' \in 0..MaxFrames
    BY <1>1, <1>2, PipelineAssumption
  <2>2. frame' \in [Buffers -> 0..MaxFrames]
    BY <1>1, <1>2, <2>1 DEF BufferTypes
  <2>3. ringLength' \in 0..Max
    BY <1>4, <1>5, MaxType DEF BufferTypes
  <2> QED BY <1>1, <1>5, <2>1, <2>2, <2>3 DEF BufferTypes
<1>8. OneOwner'
  <2>1. (Unused \cup Queued \cup Held)' = Buffers
    BY <1>1, <1>2, <1>5, <1>6, HeldBy DEF OneOwner
  <2> QED BY <1>1, <1>3, <1>4, <1>5, <2>1 DEF OneOwner, BufferTypes
<1>9. viceBuffer \notin Unused /\ viceBuffer \notin Queued /\ viceBuffer # renderBuffer
  BY <1>1, HeldBy DEF NoneShared
<1>10. NoneShared'
  <2>1. \A i \in 0..ringLength - 1 : Waiting(i) # viceBuffer
    BY <1>9, Positions
  <2>2. ASSUME NEW i \in 0..ringLength, NEW j \in 0..ringLength, Waiting(i)' = Waiting(j)'
        PROVE  i = j
    <3>1. CASE i = ringLength \/ j = ringLength
      BY <1>5, <2>1, <2>2, <3>1 DEF BufferTypes
    <3>2. CASE i # ringLength /\ j # ringLength
      BY <1>5, <2>2, <3>2 DEF BufferTypes, NoneShared
    <3> QED BY <3>1, <3>2
  <2>3. (Unused \cap Queued)' = {} /\ ((Unused \cup Queued) \cap Held)' = {}
    BY <1>1, <1>5, <1>6, <1>9, HeldBy DEF NoneShared
  <2>4. \A i : i \in 0..ringLength' - 1 => i \in 0..ringLength
    BY <1>5 DEF BufferTypes
  <2> QED BY <1>1, <2>2, <2>3, <2>4 DEF NoneShared
<1>11. FramesOrdered'
  <2>1. \A b \in Buffers : frame'[b] = IF b = viceBuffer THEN drawn + 1 ELSE frame[b]
    BY <1>1, <1>2 DEF BufferTypes
  <2>2. \A b \in Queued : b \in Buffers /\ b # viceBuffer /\ frame'[b] = frame[b]
    BY <1>9, <2>1 DEF OneOwner
  <2>3. frame \in [Buffers -> 0..MaxFrames]
    BY DEF BufferTypes
  <2>4. \A b \in Queued' : shown' <= frame'[b] /\ frame'[b] <= drawn'
    BY <1>1, <1>2, <1>5, <2>1, <2>2, <2>3, PipelineAssumption DEF FramesOrdered
  <2>5. ASSUME NEW i \in 0..ringLength, NEW j \in 0..ringLength, i < j
        PROVE  frame'[Waiting(i)'] <= frame'[Waiting(j)']
    <3>1. i \in 0..ringLength - 1 /\ Waiting(i) \in Queued /\ Waiting(i)' = Waiting(i)
      BY <1>5, <2>5, Positions DEF BufferTypes
    <3>2. CASE j = ringLength
      BY <1>1, <1>2, <1>5, <2>1, <2>2, <2>3, <3>1, <3>2, PipelineAssumption DEF FramesOrdered
    <3>3. CASE j # ringLength
      <4>1. j \in 0..ringLength - 1 /\ Waiting(j) \in Queued /\ Waiting(j)' = Waiting(j)
        BY <1>5, <3>3, Positions DEF BufferTypes
      <4> QED BY <2>2, <2>5, <3>1, <4>1 DEF FramesOrdered
    <3> QED BY <3>2, <3>3
  <2>6. renderBuffer' # NoBuffer =>
          /\ shown' <= frame'[renderBuffer'] /\ frame'[renderBuffer'] <= drawn'
          /\ \A b \in Queued' : frame'[renderBuffer'] <= frame'[b]
    <3> SUFFICES ASSUME renderBuffer # NoBuffer
                 PROVE  /\ shown' <= frame'[renderBuffer] /\ frame'[renderBuffer] <= drawn'
                        /\ \A b \in Queued' : frame'[renderBuffer] <= frame'[b]
      BY <1>1
    <3>1. frame'[renderBuffer] = frame[renderBuffer] /\ frame[renderBuffer] \in 0..MaxFrames
      BY <1>9, <2>1, <2>3 DEF BufferTypes
    <3> QED BY <1>1, <1>2, <1>5, <2>1, <2>2, <3>1, PipelineAssumption DEF FramesOrdered
  <2>7. \A i : i \in 0..ringLength' - 1 => i \in 0..ringLength
    BY <1>5 DEF BufferTypes
  <2>8. shown' <= drawn'
    BY <1>1, <1>2, PipelineAssumption DEF FramesOrdered
  <2> QED BY <2>4, <2>5, <2>6, <2>7, <2>8 DEF FramesOrdered
<1> QED BY <1>7, <1>8, <1>10, <1>11

LEMMA DequeueFrameData ==
  ASSUME Data, Holders, DequeueFrame PROVE Data'
<1> USE DEF Data
<1>1. /\ UNCHANGED <<stack, frame, failed, viceBuffer, drawn, shown>>
      /\ DequeueForDisplay /\ renderBuffer = NoBuffer
  BY DEF DequeueFrame, Holders, viceVars
<1>2. CASE ringLength = 0
  BY <1>1, <1>2, DataKept DEF DequeueForDisplay, dataVars
<1>3. CASE ringLength # 0
  <2>1. /\ ringNext' \in 0..Max - 1 /\ ringLength' = ringLength - 1
        /\ ring' = ring
        /\ renderBuffer' = Waiting(0)
        /\ \A i \in 0..ringLength - 2 : Waiting(i)' = Waiting(i + 1)
        /\ \A b : b \in Queued <=> b = renderBuffer' \/ b \in Queued'
    BY <1>1, <1>3, Dequeued
  <2>2. renderBuffer' \in Buffers /\ renderBuffer' # NoBuffer /\ renderBuffer' \in Queued
    BY <2>1, PipelineAssumption DEF OneOwner
  <2>3. Unused' = Unused
    BY <1>1 DEF Unused
  <2>4. BufferTypes'
    BY <1>1, <1>3, <2>1, <2>2, MaxType DEF BufferTypes
  <2>5. OneOwner'
    <3>1. (Unused \cup Queued \cup Held)' = Buffers
      BY <1>1, <2>1, <2>2, <2>3, HeldBy DEF OneOwner
    <3>2. Cardinality({renderBuffer} \ {NoBuffer}) = 0
      BY <1>1, Holding
    <3>3. Cardinality({renderBuffer'} \ {NoBuffer}) = 1
      BY <2>2, Holding
    <3>4. Cardinality({viceBuffer} \ {NoBuffer}) \in Nat
      BY Holding DEF BufferTypes
    <3>5. Len(stack) \in Nat
      BY LenProperties DEF BufferTypes
    <3> QED BY <1>1, <2>1, <3>1, <3>2, <3>3, <3>4, <3>5 DEF OneOwner, BufferTypes
  <2>6. \A i \in 0..ringLength' - 1 :
          i + 1 \in 0..ringLength - 1 /\ Waiting(i)' = Waiting(i + 1)
    BY <1>3, <2>1 DEF BufferTypes
  <2>7. NoneShared'
    <3>1. \A i, j \in 0..ringLength' - 1 : Waiting(i)' = Waiting(j)' => i = j
      BY <2>6 DEF NoneShared
    <3>2. renderBuffer' \notin Queued'
      <4>1. \A i \in 0..ringLength' - 1 : Waiting(i)' # Waiting(0)
        BY <1>3, <2>6 DEF NoneShared, BufferTypes
      <4> QED BY <2>1, <4>1, Positions
    <3>3. (Unused \cap Queued)' = {} /\ ((Unused \cup Queued) \cap Held)' = {}
      BY <1>1, <2>1, <2>2, <2>3, <3>2, HeldBy DEF NoneShared
    <3>4. viceBuffer' # renderBuffer'
      BY <1>1, <2>2, HeldBy DEF NoneShared
    <3> QED BY <1>1, <3>1, <3>3, <3>4 DEF NoneShared
  <2>8. FramesOrdered'
    <3>1. \A i, j \in 0..ringLength' - 1 : i < j => frame[Waiting(i)'] <= frame[Waiting(j)']
      BY <2>6 DEF FramesOrdered
    <3>2. \A b \in Queued : frame[renderBuffer'] <= frame[b]
      <4> SUFFICES ASSUME NEW b \in Queued PROVE frame[renderBuffer'] <= frame[b]
        OBVIOUS
      <4>1. PICK i \in 0..ringLength - 1 : b = Waiting(i)
        BY Positions
      <4>2. 0 \in 0..ringLength - 1
        BY <1>3 DEF BufferTypes
      <4>3. CASE i = 0
        BY <2>1, <2>2, <4>1, <4>3 DEF BufferTypes
      <4>4. CASE i # 0
        BY <2>1, <4>1, <4>2, <4>4 DEF FramesOrdered
      <4> QED BY <4>3, <4>4
    <3> QED BY <1>1, <2>1, <2>2, <3>1, <3>2 DEF FramesOrdered
  <2> QED BY <2>4, <2>5, <2>7, <2>8
<1> QED BY <1>2, <1>3

LEMMA PresentData ==
  ASSUME Data, Holders, Present PROVE Data' /\ shown' >= shown
<1> USE DEF Data
<1>1. /\ UNCHANGED <<stack, ring, ringNext, ringLength, frame, failed, viceBuffer,
                     renderBuffer, drawn>>
      /\ shown' = IF renderBuffer = NoBuffer THEN shown ELSE frame[renderBuffer]
  BY DEF Present, queue, viceVars
<1>2. shown' \in 0..MaxFrames
  BY <1>1 DEF BufferTypes
<1>3. BufferTypes'
  BY <1>1, <1>2 DEF BufferTypes
<1>4. Queued' = Queued /\ Unused' = Unused /\ Held' = Held /\ \A i : Waiting(i)' = Waiting(i)
  BY <1>1, RingKept DEF Unused, Held
<1>5. OneOwner'
  BY <1>1, <1>4 DEF OneOwner
<1>6. NoneShared'
  BY <1>1, <1>4, Zenon DEF NoneShared
<1>7. shown' >= shown /\ shown' <= drawn /\ \A b \in Queued : shown' <= frame[b]
  BY <1>1 DEF FramesOrdered, BufferTypes
<1>8. renderBuffer # NoBuffer => shown' <= frame[renderBuffer]
  BY <1>1 DEF BufferTypes
<1>9. FramesOrdered'
  BY <1>1, <1>4, <1>7, <1>8, Zenon DEF FramesOrdered
<1> QED BY <1>3, <1>5, <1>6, <1>7, <1>9

LEMMA ReturnBackbufferData ==
  ASSUME Data, Holders, ReturnBackbuffer PROVE Data'
<1> USE DEF Data
<1>1. /\ UNCHANGED <<ring, ringNext, ringLength, frame, viceBuffer, drawn, shown>>
      /\ renderBuffer' = NoBuffer
  BY DEF ReturnBackbuffer, viceVars
<1>2. CASE renderBuffer = NoBuffer
  BY <1>1, <1>2, DataKept DEF ReturnBackbuffer, dataVars
<1>3. CASE renderBuffer # NoBuffer
  <2>1. renderBuffer \in Buffers /\ ReturnToPool(renderBuffer)
    BY <1>3 DEF ReturnBackbuffer, BufferTypes
  <2>2. Len(stack) \in Nat /\ Len(stack) < Max
    <3>1. Cardinality({renderBuffer} \ {NoBuffer}) = 1
      BY <1>3, <2>1, Holding
    <3>2. Cardinality({viceBuffer} \ {NoBuffer}) \in Nat
      BY Holding DEF BufferTypes
    <3>3. Len(stack) \in Nat
      BY LenProperties DEF BufferTypes
    <3> QED BY <3>1, <3>2, <3>3, MaxType DEF OneOwner, BufferTypes
  <2>3. /\ stack' \in Seq(Buffers) /\ Len(stack') = Len(stack) + 1
        /\ failed' = failed
        /\ \A i \in 1..Len(stack) : stack'[i] = stack[i]
        /\ stack'[Len(stack) + 1] = renderBuffer
        /\ \A c : c \in Unused' <=> c = renderBuffer \/ c \in Unused
    BY <2>1, <2>2, Pushed
  <2>4. Queued' = Queued /\ \A i : Waiting(i)' = Waiting(i)
    BY <1>1, RingKept
  <2>5. BufferTypes'
    BY <1>1, <2>2, <2>3, MaxType DEF BufferTypes
  <2>6. OneOwner'
    <3>1. (Unused \cup Queued \cup Held)' = Buffers
      BY <1>1, <2>1, <2>3, <2>4, HeldBy DEF OneOwner
    <3>2. Cardinality({renderBuffer} \ {NoBuffer}) = 1
      BY <1>3, <2>1, Holding
    <3>3. Cardinality({renderBuffer'} \ {NoBuffer}) = 0
      BY <1>1, Holding
    <3>4. Cardinality({viceBuffer} \ {NoBuffer}) \in Nat
      BY Holding DEF BufferTypes
    <3> QED BY <1>1, <2>2, <2>3, <3>1, <3>2, <3>3, <3>4 DEF OneOwner, BufferTypes
  <2>7. NoneShared'
    <3>1. renderBuffer \notin Unused /\ renderBuffer \notin Queued /\ renderBuffer # viceBuffer
      BY <1>3, HeldBy DEF NoneShared
    <3>2. ASSUME NEW i \in 1..Len(stack'), NEW j \in 1..Len(stack'), stack'[i] = stack'[j]
          PROVE  i = j
      <4>1. \A k \in 1..Len(stack) : stack[k] # renderBuffer
        BY <3>1 DEF Unused
      <4>2. CASE i = Len(stack) + 1 \/ j = Len(stack) + 1
        BY <2>2, <2>3, <3>2, <4>1, <4>2
      <4>3. CASE i # Len(stack) + 1 /\ j # Len(stack) + 1
        BY <2>2, <2>3, <3>2, <4>3 DEF NoneShared
      <4> QED BY <4>2, <4>3
    <3>3. (Unused \cap Queued)' = {} /\ ((Unused \cup Queued) \cap Held)' = {}
      BY <1>1, <2>3, <2>4, <3>1, HeldBy DEF NoneShared
    <3>4. viceBuffer' = renderBuffer' => viceBuffer' = NoBuffer
      BY <1>1
    <3> QED BY <1>1, <2>4, <3>2, <3>3, <3>4 DEF NoneShared
  <2>8. FramesOrdered'
    BY <1>1, <2>4, Zenon DEF FramesOrdered
  <2> QED BY <2>5, <2>6, <2>7, <2>8
<1> QED BY <1>2, <1>3

LEMMA DataSafe ==
  ASSUME Data, Holders, [Next]_vars PROVE Data' /\ shown' >= shown
<1> USE DEF dataVars, queue, viceVars, renderVars
<1>0. shown \in Nat
  BY DEF Data, BufferTypes
<1>1. CASE TakeBackbuffer
  BY <1>0, <1>1, TakeBackbufferData DEF TakeBackbuffer
<1>2. CASE QueueFrame
  BY <1>0, <1>2, QueueFrameData DEF QueueFrame
<1>3. CASE DequeueFrame
  BY <1>0, <1>3, DequeueFrameData DEF DequeueFrame
<1>4. CASE Present
  BY <1>4, PresentData
<1>5. CASE ReturnBackbuffer
  BY <1>0, <1>5, ReturnBackbufferData DEF ReturnBackbuffer
<1>6. CASE UpdateContext \/ PushFrameJob
  BY <1>0, <1>6, DataKept DEF UpdateContext, PushFrameJob
<1>7. CASE TakeJob \/ LayOut \/ LockRender
  BY <1>0, <1>7, DataKept DEF TakeJob, LayOut, LockRender
<1>8. CASE FrameClock \/ Resize \/ ResizeChildView \/ InitiateShutdown \/ FreePool
  BY <1>0, <1>8, DataKept
     DEF FrameClock, Resize, ResizeChildView, InitiateShutdown, FreePool
<1>9. CASE Joined \/ DestroyWindows \/ JoinViceThread \/ DestroyContext
  BY <1>0, <1>9, DataKept DEF Joined, DestroyWindows, JoinViceThread, DestroyContext
<1>10. CASE UNCHANGED vars
  BY <1>0, <1>10, DataKept DEF vars
<1> QED
  BY <1>1, <1>2, <1>3, <1>4, <1>5, <1>6, <1>7, <1>8, <1>9, <1>10 DEF Next, Done

-----------------------------------------------------------------------------
(* The theorems *)

\* At the start the stack holds every backbuffer once.
LEMMA InitSafe == Init => IInv
<1> SUFFICES ASSUME Init PROVE IInv
  OBVIOUS
<1> USE DEF Init
<1>1. Control /\ OtherTypes /\ Holders
  <2>1. jobs \in Seq({"init", "render", "shutdown"})
    BY DEF Init
  <2> QED BY <2>1 DEF Control, ControlTypes, LockHolders, ExitStages, OtherTypes, Holders, Free
<1>2. Flags
  BY Zenon DEF Flags
<1>3. PICK s \in [1..Max -> Buffers] :
        (\A i, j \in 1..Max : s[i] = s[j] => i = j) /\ stack = s
  OBVIOUS
<1>4. stack \in Seq(Buffers) /\ Len(stack) = Max
  BY <1>3, MaxType
<1>5. \A b \in Buffers : \E i \in 1..Max : stack[i] = b
  <2>1. stack \in Injection(1..Max, Buffers)
    BY <1>3, Zenon DEF Injection, IsInjective
  <2>2. Cardinality(1..Max) = Cardinality(Buffers)
    BY MaxType, FS_Interval DEF Max
  <2>3. stack \in Surjection(1..Max, Buffers)
    BY <2>1, <2>2, PipelineAssumption, FS_Injection
  <2> QED BY <2>3 DEF Surjection
<1>6. BufferTypes
  BY <1>4, MaxType, PipelineAssumption DEF BufferTypes
<1>7. Queued = {} /\ Held = {} /\ Unused = Buffers
  <2>1. 0..ringLength - 1 = {}
    OBVIOUS
  <2>2. Queued = {} /\ Held = {}
    BY <2>1 DEF Queued, Held
  <2>3. Unused = Buffers
    BY <1>3, <1>4, <1>5 DEF Unused
  <2> QED BY <2>2, <2>3
<1>8. OneOwner
  <2>1. Cardinality({NoBuffer} \ {NoBuffer}) = 0
    BY Holding
  <2>2. (Unused \cup Queued \cup Held) = Buffers /\ ~failed
    BY <1>7
  <2>3. viceBuffer = NoBuffer /\ renderBuffer = NoBuffer /\ ringLength = 0
    OBVIOUS
  <2> QED BY <1>4, <2>1, <2>2, <2>3, MaxType DEF OneOwner
<1>9. NoneShared
  BY <1>3, <1>4, <1>7 DEF NoneShared
<1>10. FramesOrdered
  BY <1>7 DEF FramesOrdered
<1> QED BY <1>1, <1>2, <1>6, <1>8, <1>9, <1>10 DEF IInv, Data

LEMMA NextSafe == IInv /\ [Next]_vars => IInv'
BY ControlSafe, FlagsSafe, OtherTypesSafe, HoldersSafe, DataSafe DEF IInv, Data

\* The inductive invariant: who holds which lock and which backbuffer, how far the
\* exit has come, and that the frames on their way to the screen are in order.
THEOREM PipelineInvariant == Spec => []IInv
BY InitSafe, NextSafe, PTL DEF Spec

\* The state has the types of TypeOK.
THEOREM TypeCorrect == Spec => []TypeOK
BY PipelineInvariant, Parts, PTL

\* Between render_queue_get_from_pool and render_queue_return_to_pool every
\* backbuffer is in one place, and the asserts of render_queue.c hold, whatever
\* the three threads do.
THEOREM BackbuffersHaveOneOwner == Spec => []OneOwner
BY PipelineInvariant, Parts, PTL

\* No backbuffer is in two places: what video_canvas_render fills without a lock
\* is neither queued nor on its way to the texture.
THEOREM NoBackbufferShared == Spec => []NoneShared
<1>1. IInv => NoneShared
  BY DEF IInv, Data
<1> QED BY <1>1, PipelineInvariant, PTL

\* vice_opengl_destroy_context runs when both other threads have left the renderer.
THEOREM DestroyIsLast == Spec => []NothingInUseAtDestroy
BY PipelineInvariant, Parts, PTL

\* The screen never goes back to a frame older than the one it shows.
THEOREM ScreenGoesForward == Spec => FramesInOrder
<1>1. IInv /\ [Next]_vars => [shown' >= shown]_vars
  BY DataSafe DEF IInv
<1> QED BY <1>1, PipelineInvariant, PTL DEF Spec, FramesInOrder
=============================================================================
