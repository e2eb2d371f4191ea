--------------------------- MODULE MainLockControl ---------------------------
(* The mainlock implements the promise of MachineControl: the refinement      *)
(* mapping.                                                                   *)
EXTENDS MainLock

\* The machine ends, for the UI, when vice_thread_is_running is cleared.
machineBar ==
  IF vice = "created" THEN "new" ELSE IF running THEN "running" ELSE "ended"

\* Control passes to the UI at the signal that wakes it, and back at the
\* release of the outermost level.
controlBar ==
  IF count > 0 \/ ui = "woken" THEN "ui"
  ELSE IF running THEN "vice" ELSE "nobody"

Control == INSTANCE MachineControl WITH
  machine <- machineBar,
  control <- controlBar,
  asked   <- ui \in {"obtaining", "waiting"}

\* The mainlock implements MachineControl: control of the machine passes only by
\* asking and being given it, and by handing it back.
ImplementsControl == Control!Spec

=============================================================================
