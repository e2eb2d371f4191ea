---------------------------- MODULE MachineAlarms -----------------------------
(***************************************************************************)
(* The alarm context of a CPU that is never without an alarm: the CIA's    *)
(* TOD alarm and the VIC-II's raster alarm are armed at reset, and their   *)
(* callbacks arm them again.                                               *)
(***************************************************************************)
EXTENDS AlarmClock

ASSUME StandingAlarm == Standing # Idle
===============================================================================
