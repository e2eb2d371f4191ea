---------------------------- MODULE MCAlarmClock ----------------------------
(* Symmetry for TLC: the alarms other than the standing one are alike. *)
EXTENDS MachineAlarms, TLC

Interchangeable == Permutations(Alarms \ {Standing})
=============================================================================
