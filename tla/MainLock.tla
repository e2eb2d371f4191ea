------------------------------- MODULE MainLock -------------------------------
(***************************************************************************)
(* The mainlock of the threaded (GTK3) build: mainlock.c, with the two     *)
(* threads that call it.  The VICE thread runs the emulated machine and    *)
(* offers the lock once per emulated scan line batch (mainlock_yield_once);*)
(* the UI thread wraps every GTK signal handler in mainlock_obtain and     *)
(* mainlock_release, handlers may nest, and main_exit shuts the VICE       *)
(* thread down and joins it.                                               *)
(*                                                                         *)
(* Every critical section of the pthread mutex is one action, except where *)
(* the code touches shared state without the mutex: consider_exit, called  *)
(* from mainlock_initiate_shutdown on the VICE thread, runs unlocked, so   *)
(* the path through mainlock_obtain that it can overtake is split too.     *)
(***************************************************************************)
EXTENDS Integers

CONSTANTS
  MaxDepth,         \* bound: deepest nesting of UI handlers holding the lock
  MaxExitDepth,     \* deepest nesting from which main_exit is entered
  EarlyUI           \* TRUE: the UI may run before the VICE thread's mainlock_init

ASSUME MainLockAssumption ==
  /\ MaxDepth \in Nat \ {0}
  /\ MaxExitDepth \in Nat
  /\ EarlyUI \in BOOLEAN

VARIABLES
  lock,             \* owner of the pthread mutex
  keepalive,        \* vice_thread_keepalive
  waiting,          \* ui_thread_waiting
  count,            \* ui_thread_lock_count
  running,          \* vice_thread_is_running
  vice,             \* where the VICE thread is
  ui,               \* where the UI thread is in mainlock_obtain, or "gtk"
  depth,            \* obtains the UI thread has made and not yet released
  exit,             \* progress of main_exit on the UI thread
  exitPosted        \* exit_on_main_thread queued by gdk_threads_add_timeout

vars == <<lock, keepalive, waiting, count, running, vice, ui, depth, exit,
          exitPosted>>

NoOne == "no_one"

ViceStates == {"created", "emulating", "parked", "resumed", "quitting",
               "dying", "signalling", "exited", "aborted"}
UIStates == {"gtk", "obtaining", "waiting", "woken"}
ExitStages == {"no", "release_if_locked", "ui_exit_obtain", "ui_exit_release",
               "shutdown_obtain", "shutdown_initiate", "shutdown_release",
               "join", "done"}

Init ==
  /\ lock = NoOne
  /\ keepalive = TRUE
  /\ waiting = FALSE
  /\ count = 0
  /\ running = FALSE
  /\ vice = "created"
  /\ ui = "gtk"
  /\ depth = 0
  /\ exit = "no"
  /\ exitPosted = FALSE

(* pthread_cond_signal: wakes the one thread that can wait on each condition. *)
\* Mutant: the signal to the UI is forgotten.
SignalYieldDropped == UNCHANGED ui
SignalYield == ui' = IF ui = "waiting" THEN "woken" ELSE ui
SignalReturn == vice' = IF vice = "parked" THEN "resumed" ELSE vice

-----------------------------------------------------------------------------
(* The VICE thread *)

\* mainlock_init, first thing on the new thread.
MainlockInit ==
  /\ vice = "created" /\ lock = NoOne
  /\ running' = TRUE
  /\ vice' = "emulating"
  /\ UNCHANGED <<lock, keepalive, waiting, count, ui, depth, exit, exitPosted>>

\* Mutant: the VICE thread signals the UI but does not wait for its return.
YieldOnceWithoutParking ==
  /\ vice = "emulating" /\ lock = NoOne
  /\ waiting
  /\ SignalYield
  /\ UNCHANGED <<lock, keepalive, waiting, count, running, vice, depth, exit,
                 exitPosted>>

\* mainlock_yield_once; it changes nothing when the UI is not waiting.
YieldOnce ==
  /\ vice = "emulating" /\ lock = NoOne
  /\ waiting
  /\ SignalYield
  /\ vice' = "parked"
  /\ UNCHANGED <<lock, keepalive, waiting, count, running, depth, exit,
                 exitPosted>>

\* Mutant: consider_exit is not called after the wait.
YieldReturnWithoutExit ==
  /\ vice = "resumed" /\ lock = NoOne
  /\ vice' = "emulating"
  /\ UNCHANGED <<lock, keepalive, waiting, count, running, ui, depth, exit,
                 exitPosted>>

\* The rest of mainlock_yield_once, once signalled: consider_exit under the lock.
YieldReturn ==
  /\ vice = "resumed" /\ lock = NoOne
  /\ \/ /\ keepalive
        /\ vice' = "emulating"
        /\ UNCHANGED <<running, ui>>
     \/ /\ ~keepalive
        /\ running' = FALSE
        /\ SignalYield
        /\ vice' = "exited"
  /\ UNCHANGED <<lock, keepalive, waiting, count, depth, exit, exitPosted>>

\* archdep_vice_exit on the VICE thread queues the exit for the main thread ...
ViceExit ==
  /\ vice = "emulating"
  /\ exitPosted' = TRUE
  /\ vice' = "quitting"
  /\ UNCHANGED <<lock, keepalive, waiting, count, running, ui, depth, exit>>

\* ... and calls mainlock_initiate_shutdown, which must not return: an
\* assert(false) follows the call.
ViceInitiateShutdown ==
  /\ vice = "quitting" /\ lock = NoOne
  /\ vice' = IF keepalive THEN "dying" ELSE "aborted"
  /\ keepalive' = FALSE
  /\ UNCHANGED <<lock, waiting, count, running, ui, depth, exit, exitPosted>>

\* consider_exit without the mutex: the flag first ...
ViceClearsRunning ==
  /\ vice = "dying"
  /\ running' = FALSE
  /\ vice' = "signalling"
  /\ UNCHANGED <<lock, keepalive, waiting, count, ui, depth, exit, exitPosted>>

\* ... then the signal and the unlock of a mutex this thread does not own
\* (the default mutex of the build is simply released).
ViceSignalsAndExits ==
  /\ vice = "signalling"
  /\ SignalYield
  /\ lock' = NoOne
  /\ vice' = "exited"
  /\ UNCHANGED <<keepalive, waiting, count, running, depth, exit, exitPosted>>

-----------------------------------------------------------------------------
(* The UI thread *)

\* A failed assert on the VICE thread ends the process.
UICanRun == ui = "gtk" /\ vice # "aborted" /\ (EarlyUI \/ vice # "created")

\* A GTK handler begins, or main_exit reaches a call of mainlock_obtain.
CallsObtain ==
  /\ UICanRun
  /\ \/ exit = "no" /\ depth < MaxDepth
     \/ exit \in {"ui_exit_obtain", "shutdown_obtain"}

AfterObtain ==
  exit' = CASE exit = "ui_exit_obtain"  -> "ui_exit_release"
            [] exit = "shutdown_obtain" -> "shutdown_initiate"
            [] OTHER -> exit

Obtained ==
  /\ count' = count + 1
  /\ depth' = depth + 1
  /\ AfterObtain

\* Mutant: mainlock_obtain does not wait when the lock is free.
ObtainAtOnceAlways ==
  /\ CallsObtain /\ lock = NoOne
  /\ Obtained
  /\ UNCHANGED <<lock, keepalive, waiting, running, vice, ui, exitPosted>>

\* mainlock_obtain when the lock is already held, or no VICE thread runs.
ObtainAtOnce ==
  /\ CallsObtain /\ lock = NoOne
  /\ count # 0 \/ ~running
  /\ Obtained
  /\ UNCHANGED <<lock, keepalive, waiting, running, vice, ui, exitPosted>>

\* mainlock_obtain up to the cond_wait: the mutex stays held.
ObtainAsks ==
  /\ CallsObtain /\ lock = NoOne
  /\ count = 0 /\ running
  /\ waiting' = TRUE
  /\ lock' = "ui"
  /\ ui' = "obtaining"
  /\ UNCHANGED <<keepalive, count, running, vice, depth, exit, exitPosted>>

ObtainWaits ==
  /\ ui = "obtaining"
  /\ lock' = NoOne
  /\ ui' = "waiting"
  /\ UNCHANGED <<keepalive, waiting, count, running, vice, depth, exit,
                 exitPosted>>

\* Signalled and the mutex is ours again: the UI has control of VICE.
ObtainReturns ==
  /\ ui = "woken" /\ lock = NoOne
  /\ waiting' = FALSE
  /\ ui' = "gtk"
  /\ Obtained
  /\ UNCHANGED <<lock, keepalive, running, vice, exitPosted>>

AfterRelease ==
  exit' = CASE exit = "ui_exit_release"  -> "shutdown_obtain"
            [] exit = "shutdown_release" -> "join"
            [] OTHER -> exit

\* The body mainlock_release and mainlock_release_if_locked share.
GiveUpOneLevel ==
  /\ count' = count - 1
  /\ depth' = depth - 1
  /\ IF count' = 0 THEN SignalReturn ELSE UNCHANGED vice

\* mainlock_release, at the end of a handler or in main_exit.
Release ==
  /\ UICanRun /\ lock = NoOne
  /\ \/ exit = "no" /\ depth > 0
     \/ exit \in {"ui_exit_release", "shutdown_release"}
  /\ GiveUpOneLevel
  /\ AfterRelease
  /\ UNCHANGED <<lock, keepalive, waiting, running, ui, exitPosted>>

\* archdep_vice_exit on the main thread, by the user or by the queued timeout.
EnterExit ==
  /\ UICanRun
  /\ exit = "no" /\ depth <= MaxExitDepth
  /\ exit' = "release_if_locked"
  /\ UNCHANGED <<lock, keepalive, waiting, count, running, vice, ui, depth,
                 exitPosted>>

\* Mutant: main_exit does not call mainlock_release_if_locked.
ReleaseIfLockedDropped ==
  /\ UICanRun /\ lock = NoOne
  /\ exit = "release_if_locked"
  /\ exit' = "ui_exit_obtain"
  /\ UNCHANGED <<lock, keepalive, waiting, count, running, vice, ui, depth,
                 exitPosted>>

\* main_exit first calls mainlock_release_if_locked.
ReleaseIfLocked ==
  /\ UICanRun /\ lock = NoOne
  /\ exit = "release_if_locked"
  /\ exit' = "ui_exit_obtain"
  /\ \/ count = 0 /\ UNCHANGED <<count, depth, vice>>
     \/ count # 0 /\ GiveUpOneLevel
  /\ UNCHANGED <<lock, keepalive, waiting, running, ui, exitPosted>>

\* vice_thread_shutdown: mainlock_initiate_shutdown between obtain and release.
UIInitiateShutdown ==
  /\ UICanRun /\ lock = NoOne
  /\ exit = "shutdown_initiate"
  /\ keepalive' = FALSE
  /\ exit' = "shutdown_release"
  /\ UNCHANGED <<lock, waiting, count, running, vice, ui, depth, exitPosted>>

\* pthread_join, after which machine_shutdown frees the machine.
Join ==
  /\ exit = "join" /\ vice = "exited"
  /\ exit' = "done"
  /\ UNCHANGED <<lock, keepalive, waiting, count, running, vice, ui, depth,
                 exitPosted>>

-----------------------------------------------------------------------------
ViceThread ==
  \/ MainlockInit \/ YieldOnce \/ YieldReturn
  \/ ViceExit \/ ViceInitiateShutdown \/ ViceClearsRunning \/ ViceSignalsAndExits

UIThread ==
  \/ ObtainAtOnce \/ ObtainAsks \/ ObtainWaits \/ ObtainReturns
  \/ Release \/ EnterExit \/ ReleaseIfLocked \/ UIInitiateShutdown \/ Join

\* The process has exited.
Terminated == exit = "done" /\ UNCHANGED vars

Next == ViceThread \/ UIThread \/ Terminated

(***************************************************************************)
(* Fairness: the VICE thread reaches mainlock_yield_once every emulated    *)
(* frame (vsync_do_end_of_line, sound_flush, tick_sleep), paused or not,   *)
(* and its other steps are straight-line code; on the UI thread main_exit  *)
(* runs to its end and GTK dispatches a queued timeout.  Nothing obliges   *)
(* the user to start a handler, to close a dialog that runs inside one, or *)
(* to exit, nor the VICE thread to call archdep_vice_exit.                 *)
(***************************************************************************)
Fairness ==
  /\ WF_vars(MainlockInit) /\ WF_vars(YieldOnce) /\ WF_vars(YieldReturn)
  /\ WF_vars(ViceInitiateShutdown)
  /\ WF_vars(ViceClearsRunning) /\ WF_vars(ViceSignalsAndExits)
  /\ WF_vars(ObtainWaits) /\ WF_vars(ObtainReturns)
  /\ WF_vars(exit # "no" /\ (ObtainAtOnce \/ ObtainAsks \/ Release))
  /\ WF_vars(ReleaseIfLocked) /\ WF_vars(UIInitiateShutdown) /\ WF_vars(Join)
  /\ WF_vars(exitPosted /\ EnterExit)

Spec == Init /\ [][Next]_vars
FairSpec == Spec /\ Fairness

-----------------------------------------------------------------------------
(* Properties *)

\* Every variable stays in its type; the lock count never goes negative.
TypeOK ==
  /\ lock \in {NoOne, "ui"}
  /\ keepalive \in BOOLEAN
  /\ waiting \in BOOLEAN
  /\ count \in Nat
  /\ running \in BOOLEAN
  /\ vice \in ViceStates
  /\ ui \in UIStates
  /\ depth \in Nat
  /\ exit \in ExitStages
  /\ exitPosted \in BOOLEAN

\* The UI thread is inside a section between mainlock_obtain and
\* mainlock_release: it may call into the machine.
UIInControl == depth > 0 /\ ui = "gtk"

\* The VICE thread runs emulation code.
ViceInControl == vice \in {"emulating", "quitting"}

\* While the UI thread is between mainlock_obtain and mainlock_release, however
\* deeply its handlers nest, the VICE thread does not run the machine: "the UI
\* thread has control of VICE until it signals the return condition".
UIHasControl == ~(UIInControl /\ ViceInControl)

\* archdep_vice_exit on the VICE thread never reaches the assert(false) behind
\* mainlock_initiate_shutdown, whoever else starts a shutdown meanwhile.
NoAbort == vice # "aborted"

\* Why the UI thread has control: it can come by a lock count only by a signal
\* from a VICE thread that parks itself, or from one that has stopped running;
\* and a parked VICE thread is always owed a wake-up by the UI thread, which
\* holds a count it has still to release or was signalled and will take one.
Ownership ==
  /\ count = depth
  /\ waiting <=> ui # "gtk"
  /\ waiting => count = 0
  /\ lock = "ui" => ui = "obtaining"
  /\ ui = "obtaining" => lock = "ui" \/ vice = "exited"
  /\ vice = "parked" => count > 0 \/ ui = "woken"
  /\ ui = "woken" => vice \in {"parked", "exited"}
  /\ count > 0 => vice \in {"parked", "signalling", "exited"}
  /\ running <=> vice \notin {"created", "signalling", "exited"}
  /\ vice = "created" => keepalive /\ ~waiting /\ exit = "no"
  /\ vice \in {"emulating", "quitting"} => keepalive
  /\ exit \in {"ui_exit_release", "shutdown_initiate", "shutdown_release"}
       => count > 0

\* Once a shutdown is ordered the VICE thread never goes back to emulation code
\* from its yield point.
NoEmulationAfterShutdown == [][~keepalive => ~(vice' = "emulating")]_vars

\* Every mainlock_obtain returns ...
ObtainCompletes == (ui = "obtaining") ~> (ui = "gtk")

\* ... as long as the VICE thread, which keeps yielding or exits at its yield
\* point, does not leave by archdep_vice_exit.
ObtainCompletesWhileViceYields ==
  (ui = "obtaining") ~> (ui = "gtk" \/ exitPosted)

\* main_exit comes to its end, the VICE thread having seen the order and been
\* joined, unless that thread leaves by archdep_vice_exit at the same time.
ShutdownCompletesWhileViceYields ==
  (exit # "no") ~> (exit = "done" \/ exitPosted)

=============================================================================
