---------------------------- MODULE MainLockProofs ----------------------------
(***************************************************************************)
(* For every nesting bound: once mainlock_init has run before the UI       *)
(* thread's first handler, the UI thread and the VICE thread never run the *)
(* machine at the same time, and the mainlock implements MachineControl.   *)
(***************************************************************************)
EXTENDS MainLockControl, TLAPS

IInv == TypeOK /\ Ownership

USE DEF NoOne, ViceStates, UIStates, ExitStages

\* The initial state is typed and nobody owns anything.
LEMMA InitIInv == Init => IInv
<1> SUFFICES ASSUME Init PROVE IInv OBVIOUS
<1>1. TypeOK BY DEF Init, TypeOK
<1>2. Ownership BY DEF Init, Ownership
<1> QED BY <1>1, <1>2 DEF IInv

\* Every step of either thread, and a stutter, preserves the invariant.
LEMMA NextIInv ==
  ASSUME ~EarlyUI, IInv, [Next]_vars
  PROVE  IInv'
<1> USE DEF IInv, TypeOK, Ownership
<1>1. CASE MainlockInit BY <1>1 DEF MainlockInit
<1>2. CASE YieldOnce BY <1>2 DEF YieldOnce, SignalYield
<1>3. CASE YieldReturn BY <1>3 DEF YieldReturn, SignalYield
<1>4. CASE ViceExit BY <1>4 DEF ViceExit
<1>5. CASE ViceInitiateShutdown BY <1>5 DEF ViceInitiateShutdown
<1>6. CASE ViceClearsRunning BY <1>6 DEF ViceClearsRunning
<1>7. CASE ViceSignalsAndExits BY <1>7 DEF ViceSignalsAndExits, SignalYield
<1>8. CASE ObtainAtOnce
  BY <1>8 DEF ObtainAtOnce, CallsObtain, UICanRun, Obtained, AfterObtain
<1>9. CASE ObtainAsks BY <1>9 DEF ObtainAsks, CallsObtain, UICanRun
<1>10. CASE ObtainWaits BY <1>10 DEF ObtainWaits
<1>11. CASE ObtainReturns
  <2>1. exit' \in ExitStages
    BY <1>11 DEF ObtainReturns, Obtained, AfterObtain
  <2>2. count' \in Nat /\ count' > 0 /\ count' = depth'
    BY <1>11 DEF ObtainReturns, Obtained
  <2>3. ui' = "gtk" /\ ~waiting' /\ waiting' \in BOOLEAN
    BY <1>11 DEF ObtainReturns
  <2>4. vice \in {"parked", "exited"} /\ lock # "ui"
    BY <1>11 DEF ObtainReturns
  <2>5. UNCHANGED <<lock, keepalive, running, vice, exitPosted>>
    BY <1>11 DEF ObtainReturns
  <2> QED BY <2>1, <2>2, <2>3, <2>4, <2>5
<1>12. CASE Release
  BY <1>12 DEF Release, UICanRun, GiveUpOneLevel, AfterRelease, SignalReturn
<1>13. CASE EnterExit BY <1>13 DEF EnterExit, UICanRun
<1>14. CASE ReleaseIfLocked
  BY <1>14 DEF ReleaseIfLocked, UICanRun, GiveUpOneLevel, SignalReturn
<1>15. CASE UIInitiateShutdown BY <1>15 DEF UIInitiateShutdown, UICanRun
<1>16. CASE Join BY <1>16 DEF Join
<1>17. CASE UNCHANGED vars BY <1>17 DEF vars
<1> QED
  BY <1>1, <1>2, <1>3, <1>4, <1>5, <1>6, <1>7, <1>8, <1>9, <1>10, <1>11,
     <1>12, <1>13, <1>14, <1>15, <1>16, <1>17
  DEF Next, ViceThread, UIThread, Terminated

\* The invariant holds always, when the VICE thread has passed mainlock_init
\* before the UI thread's first handler.
LEMMA Invariance == ASSUME ~EarlyUI PROVE Spec => []IInv
<1>1. Init => IInv BY InitIInv
<1>2. IInv /\ [Next]_vars => IInv' BY NextIInv
<1> QED BY <1>1, <1>2, PTL DEF Spec

\* Every variable stays in its type.
THEOREM TypeCorrect == ASSUME ~EarlyUI PROVE Spec => []TypeOK
<1>1. IInv => TypeOK BY DEF IInv
<1> QED BY <1>1, Invariance, PTL

\* Parked threads are owed a wake-up and the lock count is the nesting depth.
THEOREM OwnershipHolds == ASSUME ~EarlyUI PROVE Spec => []Ownership
<1>1. IInv => Ownership BY DEF IInv
<1> QED BY <1>1, Invariance, PTL

\* While a UI handler is between mainlock_obtain and mainlock_release, at any
\* nesting depth, the VICE thread does not run the machine.
THEOREM UIControlSafe == ASSUME ~EarlyUI PROVE Spec => []UIHasControl
<1>1. IInv => UIHasControl
  BY DEF IInv, TypeOK, Ownership, UIHasControl, UIInControl, ViceInControl
<1> QED BY <1>1, Invariance, PTL

\* Every action of either thread, for proofs that look at a few of them only.
LEMMA Actions ==
  ASSUME [Next]_vars
  PROVE  \/ MainlockInit \/ YieldOnce \/ YieldReturn \/ ViceExit
         \/ ViceInitiateShutdown \/ ViceClearsRunning \/ ViceSignalsAndExits
         \/ ObtainAtOnce \/ ObtainAsks \/ ObtainWaits \/ ObtainReturns
         \/ Release \/ EnterExit \/ ReleaseIfLocked \/ UIInitiateShutdown
         \/ Join \/ UNCHANGED vars
BY DEF Next, ViceThread, UIThread, Terminated

\* How a step can move the VICE thread.
LEMMA ViceSteps ==
  ASSUME IInv, [Next]_vars
  PROVE  /\ vice' = "aborted" => vice = "aborted"
         /\ vice' = "emulating" /\ vice # "emulating" => keepalive
<1> USE DEF IInv, Ownership
<1>1. CASE MainlockInit \/ YieldOnce \/ YieldReturn
  BY <1>1 DEF MainlockInit, YieldOnce, YieldReturn
<1>2. CASE ViceExit \/ ViceInitiateShutdown
  BY <1>2 DEF ViceExit, ViceInitiateShutdown
<1>3. CASE ViceClearsRunning \/ ViceSignalsAndExits
  BY <1>3 DEF ViceClearsRunning, ViceSignalsAndExits
<1>4. CASE ObtainAtOnce \/ ObtainAsks \/ ObtainWaits \/ ObtainReturns
  BY <1>4 DEF ObtainAtOnce, ObtainAsks, ObtainWaits, ObtainReturns
<1>5. CASE Release \/ ReleaseIfLocked
  BY <1>5 DEF Release, ReleaseIfLocked, GiveUpOneLevel, SignalReturn
<1>6. CASE EnterExit \/ UIInitiateShutdown \/ Join
  BY <1>6 DEF EnterExit, UIInitiateShutdown, Join
<1>7. CASE UNCHANGED vars BY <1>7 DEF vars
<1> QED BY Actions, <1>1, <1>2, <1>3, <1>4, <1>5, <1>6, <1>7

\* The assert(false) behind mainlock_initiate_shutdown in archdep_vice_exit is
\* never reached.
THEOREM NoAbortSafe == ASSUME ~EarlyUI PROVE Spec => []NoAbort
<1>1. Init => NoAbort BY DEF Init, NoAbort
<1>2. IInv /\ NoAbort /\ [Next]_vars => NoAbort'
  BY ViceSteps DEF NoAbort
<1> QED BY <1>1, <1>2, Invariance, PTL DEF Spec

\* Once a shutdown is ordered the VICE thread does not return to emulation.
THEOREM ShutdownIsFinal == ASSUME ~EarlyUI PROVE Spec => NoEmulationAfterShutdown
<1>1. IInv /\ [Next]_vars => [~keepalive => ~(vice' = "emulating")]_vars
  <2> SUFFICES ASSUME IInv, [Next]_vars, ~keepalive, vice' = "emulating"
               PROVE  FALSE
    OBVIOUS
  <2>1. vice # "emulating" BY DEF IInv, Ownership
  <2> QED BY <2>1, ViceSteps
<1> QED BY <1>1, Invariance, PTL DEF Spec, NoEmulationAfterShutdown

-----------------------------------------------------------------------------
(* Refinement *)

\* Every step of the two threads is a step of MachineControl or a stutter.
LEMMA StepSimulates ==
  ASSUME ~EarlyUI, IInv, [Next]_vars
  PROVE  [Control!Next]_(Control!vars)
<1> USE DEF IInv, TypeOK, Ownership, machineBar, controlBar, Control!vars
<1>1. CASE MainlockInit
  BY <1>1 DEF MainlockInit, Control!Next, Control!Start
<1>2. CASE YieldOnce
  BY <1>2 DEF YieldOnce, SignalYield, Control!Next, Control!Give
<1>3. CASE YieldReturn
  <2>1. vice = "resumed" /\ lock = NoOne /\ UNCHANGED count /\ count = 0
    BY <1>3 DEF YieldReturn
  <2>2. ui \in {"gtk", "waiting"} BY <2>1
  <2>3. CASE vice' = "emulating"
    <3>1. UNCHANGED <<running, ui>> BY <1>3, <2>3 DEF YieldReturn
    <3> QED BY <2>1, <2>3, <3>1
  <2>4. CASE vice' # "emulating"
    <3>1. vice' = "exited" /\ ~running' /\ running /\ SignalYield
      BY <1>3, <2>4 DEF YieldReturn
    <3>2. machineBar = "running" /\ machineBar' = "ended" /\ controlBar = "vice"
      BY <2>1, <2>2, <3>1
    <3>3. CASE ui = "gtk"
      <4>1. ui' = "gtk" /\ controlBar' = "nobody"
        BY <2>1, <3>1, <3>3 DEF SignalYield
      <4> QED BY <3>2, <3>3, <4>1 DEF Control!Next, Control!End
    <3>4. CASE ui = "waiting"
      <4>1. ui' = "woken" /\ controlBar' = "ui" BY <3>1, <3>4 DEF SignalYield
      <4> QED BY <3>2, <3>4, <4>1 DEF Control!Next, Control!End
    <3> QED BY <2>2, <3>3, <3>4
  <2> QED BY <2>3, <2>4
<1>4. CASE ViceExit \/ ViceInitiateShutdown
  <2>1. UNCHANGED <<running, count, ui>> /\ vice # "created" /\ vice' # "created"
    BY <1>4 DEF ViceExit, ViceInitiateShutdown
  <2> QED BY <2>1
<1>5. CASE ViceClearsRunning
  <2>1. running' = FALSE /\ running = TRUE /\ count = 0 /\ ui # "woken"
    BY <1>5 DEF ViceClearsRunning
  <2>2. UNCHANGED <<count, ui>> /\ vice # "created" /\ vice' # "created"
    BY <1>5 DEF ViceClearsRunning
  <2>3. machineBar = "running" /\ machineBar' = "ended" BY <2>1, <2>2
  <2>4. controlBar = "vice" /\ controlBar' = "nobody" BY <2>1, <2>2
  <2> QED BY <2>2, <2>3, <2>4 DEF Control!Next, Control!End
<1>6. CASE ViceSignalsAndExits
  BY <1>6 DEF ViceSignalsAndExits, SignalYield, Control!Next, Control!Give
<1>7. CASE ObtainAtOnce
  BY <1>7 DEF ObtainAtOnce, CallsObtain, UICanRun, Obtained, Control!Next,
              Control!Take
<1>8. CASE ObtainAsks
  BY <1>8 DEF ObtainAsks, CallsObtain, UICanRun, Control!Next, Control!Ask
<1>9. CASE ObtainWaits BY <1>9 DEF ObtainWaits
<1>10. CASE ObtainReturns BY <1>10 DEF ObtainReturns, Obtained
<1>11. CASE Release
  BY <1>11 DEF Release, UICanRun, GiveUpOneLevel, SignalReturn, Control!Next,
               Control!HandBack
<1>12. CASE ReleaseIfLocked
  BY <1>12 DEF ReleaseIfLocked, UICanRun, GiveUpOneLevel, SignalReturn,
               Control!Next, Control!HandBack
<1>13. CASE EnterExit \/ UIInitiateShutdown \/ Join
  BY <1>13 DEF EnterExit, UIInitiateShutdown, Join
<1>14. CASE UNCHANGED vars BY <1>14 DEF vars
<1> QED
  BY Actions, <1>1, <1>2, <1>3, <1>4, <1>5, <1>6, <1>7, <1>8, <1>9, <1>10,
     <1>11, <1>12, <1>13, <1>14

\* The mainlock implements MachineControl.
THEOREM Refinement == ASSUME ~EarlyUI PROVE Spec => ImplementsControl
<1>1. Init => Control!Init
  BY DEF Init, Control!Init, machineBar, controlBar
<1>2. IInv /\ [Next]_vars => [Control!Next]_(Control!vars) BY StepSimulates
<1> QED
  BY <1>1, <1>2, Invariance, PTL DEF Spec, ImplementsControl, Control!Spec

=============================================================================
