---------------------------- MODULE MachineControl ----------------------------
(***************************************************************************)
(* What the mainlock promises: one thread at a time controls the emulated  *)
(* machine.  The VICE thread has control while it runs; the UI thread asks *)
(* and is given control, keeps it as long as it likes, and hands it back.  *)
(* Once the machine has ended the UI thread has no one to ask.             *)
(***************************************************************************)

VARIABLES
  machine,   \* "new", "running" or "ended"
  control,   \* who may touch the machine
  asked      \* the UI thread has asked for control

vars == <<machine, control, asked>>

Controllers == {"vice", "ui", "nobody"}

TypeOK ==
  /\ machine \in {"new", "running", "ended"}
  /\ control \in Controllers
  /\ asked \in BOOLEAN

Init == machine = "new" /\ control = "nobody" /\ asked = FALSE

Start ==
  /\ machine = "new" /\ control = "nobody"
  /\ machine' = "running"
  /\ control' = "vice"
  /\ UNCHANGED asked

Ask ==
  /\ machine = "running" /\ control = "vice" /\ ~asked
  /\ asked' = TRUE
  /\ UNCHANGED <<machine, control>>

Give ==
  /\ asked /\ control # "ui"
  /\ control' = "ui"
  /\ asked' = FALSE
  /\ UNCHANGED machine

HandBack ==
  /\ control = "ui"
  /\ control' = IF machine = "running" THEN "vice" ELSE "nobody"
  /\ UNCHANGED <<machine, asked>>

\* The machine ends; a UI that has asked may be given control with it.
End ==
  /\ machine = "running" /\ control = "vice"
  /\ machine' = "ended"
  /\ \/ control' = "nobody" /\ UNCHANGED asked
     \/ asked /\ control' = "ui" /\ asked' = FALSE

Take ==
  /\ machine = "ended" /\ control = "nobody"
  /\ control' = "ui"
  /\ asked' = FALSE
  /\ UNCHANGED machine

Next == Start \/ Ask \/ Give \/ HandBack \/ End \/ Take

Spec == Init /\ [][Next]_vars

=============================================================================
