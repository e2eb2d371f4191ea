----------------------------- MODULE DriveClock -----------------------------
(***************************************************************************)
(* The disk drives' CPUs beside the main CPU: drivecpu.c (drivecpu65c02.c  *)
(* is the same code for the newer drives), drivesync.c, drive-overflow.c   *)
(* and the parts of drive.c that call them.  A drive is emulated only when *)
(* somebody looks at it: an access to the bus or the end of a frame gives  *)
(* it the main CPU's cycles since it was last looked at (last_clk), turned *)
(* into drive cycles by a fixed-point factor.  Both clocks are counters    *)
(* that wrap, and each is warped back on its own at the end of a frame.    *)
(*                                                                         *)
(* The state of one drive is a record.  What an instruction does is left   *)
(* out: the drive's loop goes on until its clock has reached stop_clk and  *)
(* overruns it by a part of an instruction.                                *)
(***************************************************************************)
EXTENDS Integers, Sequences, SequencesExt

CONSTANTS
  NumUnits,         \* NUM_DISK_UNITS
  Width,            \* number of CLOCK values; also of unsigned int
  SubMin,           \* CLKGUARD_SUB_MIN
  Frac,             \* 65536, the unit of sync_factor
  Chunk,            \* 10000, the cycles converted in one go
  Factors,          \* the values of sync_factor
  SkipAfter,        \* 0xffffff, see drivecpu_wake_up
  WarmUp,           \* 934639, see drivecpu_wake_up
  ResetClk,         \* 6, the clock after a reset of either CPU
  MaxStep,          \* bound: cycles of one turn of the drive's CPU loop
  Frame,            \* bound: main cycles between two ends of a frame
  MaxOff,           \* bound: main cycles a drive stays switched off
  Inputs            \* what the user does in this instance

AllInputs == {"skip", "power", "reset", "drive reset", "speed", "forget"}

Units == 1..NumUnits
ClockMax == Width - 1
GuardMax == ClockMax - SubMin    \* clk_max_value of both guards
Sub == GuardMax - SubMin         \* what a warp subtracts
Clocks == 0..ClockMax
MaxFactor == CHOOSE f \in Factors : \A g \in Factors : f >= g

ASSUME DriveClockAssumption ==
  /\ {NumUnits, Width, SubMin, Frac, Chunk, MaxStep, Frame, MaxOff}
       \subseteq Nat \ {0}
  /\ {SkipAfter, WarmUp, ResetClk} \subseteq Nat
  /\ Factors \subseteq Nat \ {0} /\ Factors # {}
  /\ Inputs \subseteq AllInputs
  /\ GuardMax >= 3 * SubMin                       \* clk_guard_init refuses less
  /\ Frac - 1 + MaxFactor * Chunk < Width         \* a chunk does not overflow
  /\ (Frame * MaxFactor) \div Frac + 1 + MaxStep <= SubMin
  /\ SkipAfter > Width - Sub + Frame              \* 0xffffff > 2 * 0xfffff + 1
  /\ 2 * (((SkipAfter + 1) * MaxFactor) \div Frac + 1) < Width

VARIABLES
  clk,              \* maincpu_clk
  frame,            \* main cycles since the end of the last frame
  drive             \* the drives

vars == <<clk, frame, drive>>

\* A drive: its *clk_ptr, stop_clk, last_clk, cycle_accum, sync_factor, enable,
\* whether idling_method is DRIVE_IDLE_SKIP_CYCLES, whether IK_RESET is pending,
\* and the cycles it was emulated for in the last step.
Drives ==
  [clk : Clocks, stop : Clocks, last : Clocks, accum : 0..Frac - 1,
   factor : Factors, enable : BOOLEAN, skip : BOOLEAN, reset : BOOLEAN,
   ran : Nat]

Minus(a, b) == (a - b) % Width
Plus(a, b) == (a + b) % Width
Before(a, b) == Minus(a, b) >= Width \div 2     \* (int)(a - b) < 0

Rest(d) == [d EXCEPT !.ran = 0]
AtRest == [u \in Units |-> Rest(drive[u])]

Init ==
  /\ clk = 0
  /\ frame = 0
  /\ \E f \in Factors :
       drive = [u \in Units |->
                  [clk |-> 0, stop |-> 0, last |-> 0, accum |-> 0, factor |-> f,
                   enable |-> TRUE, skip |-> FALSE, reset |-> TRUE, ran |-> 0]]

-----------------------------------------------------------------------------
(* drivecpu_execute *)

\* drivecpu_wake_up, with maincpu_clk = now
WakeUp(d, now) ==
  IF Minus(now, d.last) > SkipAfter /\ d.clk > WarmUp
  THEN [d EXCEPT !.last = now] ELSE d

\* Mutant: the whole of a long time is converted in one multiplication.
ConvertAtOnce(d, cycles) ==
  LET accum == (d.accum + d.factor * cycles) % Width
  IN [d EXCEPT !.stop = Plus(d.stop, accum \div Frac), !.accum = accum % Frac]

\* The main cycles are turned into drive cycles in chunks, so that the product
\* does not overflow; the fraction is kept.
Convert(d, cycles) ==
  LET chunks == (cycles + Chunk - 1) \div Chunk
      OneChunk(e, k) ==
        LET tcycles == IF k < chunks THEN Chunk ELSE cycles - (chunks - 1) * Chunk
            accum == (e.accum + e.factor * tcycles) % Width
        IN [e EXCEPT !.stop = Plus(e.stop, accum \div Frac), !.accum = accum % Frac]
  IN FoldLeft(OneChunk, d, [k \in 1..chunks |-> k])

\* The CPU loop.  A pending reset is served by its first turn and sets the clock
\* (cpu_reset); the last turn overruns stop_clk by over cycles.
Emulate(d, over) ==
  IF ~Before(d.clk, d.stop) THEN d
  ELSE LET from == IF d.reset THEN ResetClk ELSE d.clk
           to == Plus(IF Before(from, d.stop) THEN d.stop ELSE from, over)
       IN [d EXCEPT !.clk = to, !.reset = FALSE,
                    !.ran = @ + Minus(to, from) + IF d.reset THEN ResetClk ELSE 0]

\* drivecpu_execute up to the main clock value; now is maincpu_clk.
Execute(d, value, now, over) ==
  LET awake == WakeUp(d, now)
      cycles == IF value > awake.last THEN value - awake.last ELSE 0
  IN [Emulate(Convert(awake, cycles), over) EXCEPT !.last = value]

\* drive_cpu_execute_all
ExecuteAll(ds, value, now, over) ==
  [u \in Units |-> IF ds[u].enable THEN Execute(ds[u], value, now, over[u])
                                   ELSE ds[u]]

Overruns == [Units -> 0..MaxStep - 1]

-----------------------------------------------------------------------------
(* The main CPU *)

\* An instance without "forget" leaves a drive that skips cycles alone for longer
\* than a frame only while neither clock is about to be warped.
Attended(d, now) ==
  LET late == Minus(now, d.last)
      due == (late * MaxFactor) \div Frac + 1
  IN "forget" \notin Inputs /\ d.enable /\ late > Frame =>
       /\ \/ late > SkipAfter /\ d.clk > WarmUp
          \/ 2 * due < Width /\ d.clk + due + MaxStep <= GuardMax
       /\ now >= GuardMax => late <= SkipAfter - (Width - Sub)

MainRuns(n) ==
  /\ frame + n <= Frame
  /\ \A u \in Units : Attended(drive[u], clk + n)
  /\ \A u \in Units : drive[u].enable \/ Minus(clk, drive[u].last) < MaxOff
  /\ clk' = clk + n
  /\ frame' = frame + n
  /\ drive' = AtRest

\* A read of the bus looks at all drives.
ReadBus(over) ==
  /\ drive' = ExecuteAll(AtRest, clk, clk, over)
  /\ UNCHANGED <<clk, frame>>

\* A write to the bus with only one drive on it looks at that one.
WriteBus(u, over) ==
  /\ drive[u].enable
  /\ drive' = [AtRest EXCEPT ![u] = Execute(@, clk, clk, over[u])]
  /\ UNCHANGED <<clk, frame>>

\* drive_vsync_hook
Looked(over) ==
  [u \in Units |->
     IF drive[u].enable /\ ~drive[u].skip
     THEN Execute(Rest(drive[u]), clk, clk, over[u]) ELSE Rest(drive[u])]

\* The first half of drivecpu_prevent_clk_overflow.  maincpu_clk is now, sub less
\* than before; a drive that was not looked at since that long ago catches up
\* first, and all others with it.
FollowMain(ds, u, now, sub, over) ==
  IF sub = 0 THEN ds
  ELSE IF ~ds[u].enable THEN [ds EXCEPT ![u].last = now]
  ELSE [(IF ds[u].last < sub THEN ExecuteAll(ds, now + sub, now, over) ELSE ds)
          EXCEPT ![u].last = Minus(@, sub)]

\* Mutant: the guard acts when the clock has reached its last value.
WarpOwnLate(d) ==
  IF d.clk < ClockMax THEN d
  ELSE [d EXCEPT !.clk = @ - Sub, !.stop = Minus(@, Sub)]

\* The second half: clk_guard_prevent_overflow and drive_clk_overflow_callback.
WarpOwn(d) ==
  IF d.clk < GuardMax THEN d
  ELSE [d EXCEPT !.clk = @ - Sub, !.stop = Minus(@, Sub)]

\* machine_vsync_hook: drive_vsync_hook, the main clock's guard, and
\* drive_cpu_prevent_clk_overflow_all, one drive after the other.
EndOfFrame(over) ==
  LET sub == IF clk < GuardMax THEN 0 ELSE Sub
      Prevent(ds, u) ==
        LET followed == FollowMain(ds, u, clk - sub, sub, over)
        IN [followed EXCEPT ![u] = WarpOwn(@)]
  IN /\ clk' = clk - sub
     /\ frame' = 0
     /\ drive' = FoldLeft(Prevent, Looked(over), [u \in Units |-> u])

-----------------------------------------------------------------------------
(* The user and the drives' programs *)

\* The idle method of a drive.
SetIdling(u, skip) ==
  /\ "skip" \in Inputs
  /\ drive[u].skip # skip
  /\ drive' = [AtRest EXCEPT ![u].skip = skip]
  /\ UNCHANGED <<clk, frame>>

\* DriveTrueEmulation on: drivecpu_reset_clk, and the resync of drive_enable.
SwitchOn ==
  /\ "power" \in Inputs
  /\ drive' = [u \in Units |-> [Rest(drive[u]) EXCEPT !.enable = TRUE,
                                                      !.last = clk,
                                                      !.stop = drive[u].clk]]
  /\ UNCHANGED <<clk, frame>>

\* DriveTrueEmulation off.
SwitchOff ==
  /\ "power" \in Inputs
  /\ drive' = [u \in Units |-> [Rest(drive[u]) EXCEPT !.enable = FALSE]]
  /\ UNCHANGED <<clk, frame>>

\* Mutant: the drives' resets leave last_clk as it is.
ResetMachineNotLast ==
  /\ "reset" \in Inputs
  /\ clk' = ResetClk
  /\ frame' = 0
  /\ drive' = [u \in Units |-> [Rest(drive[u]) EXCEPT !.clk = 0, !.stop = 0,
                                                      !.reset = TRUE]]

\* The reset of the machine: the main CPU's clock begins again, with a new frame,
\* and drive_reset calls drivecpu_reset of every drive.
ResetMachine ==
  /\ "reset" \in Inputs
  /\ clk' = ResetClk
  /\ frame' = 0
  /\ drive' = [u \in Units |-> [Rest(drive[u]) EXCEPT !.clk = 0, !.last = ResetClk,
                                                      !.stop = 0, !.reset = TRUE]]

\* drivecpu_trigger_reset: "reset drive" of the menu, autostart and the monitor; in
\* an instance without "drive reset" only while a reset of the machine is pending.
TriggerReset(u) ==
  /\ "drive reset" \notin Inputs => drive[u].reset
  /\ drive' = [AtRest EXCEPT ![u].reset = TRUE]
  /\ UNCHANGED <<clk, frame>>

\* drivesync_set_1571 and drive_set_machine_parameter
SetFactor(u, f) ==
  /\ "speed" \in Inputs
  /\ drive[u].factor # f
  /\ drive' = [AtRest EXCEPT ![u].factor = f]
  /\ UNCHANGED <<clk, frame>>

-----------------------------------------------------------------------------
Looks == \E over \in Overruns : ReadBus(over) \/ \E u \in Units : WriteBus(u, over)
FrameEnds == \E over \in Overruns : EndOfFrame(over)
UserActs ==
  \/ SwitchOn \/ SwitchOff \/ ResetMachine
  \/ \E u \in Units :
       \/ \E s \in BOOLEAN : SetIdling(u, s)
       \/ \E f \in Factors : SetFactor(u, f)
       \/ TriggerReset(u)

Next ==
  \/ \E n \in 1..Frame : MainRuns(n)
  \/ Looks
  \/ FrameEnds
  \/ UserActs

Spec == Init /\ [][Next]_vars

-----------------------------------------------------------------------------
(* Properties *)

\* The clocks stay in their types; the fraction stays below one drive cycle.
TypeOK ==
  /\ clk \in Clocks
  /\ frame \in 0..Frame
  /\ drive \in [Units -> Drives]

\* "First, get in sync with what the main CPU has done": no drive has seen main
\* cycles that are still to come, also right after the main clock was taken back.
InSync == \A u \in Units : drive[u].enable => drive[u].last <= clk

\* "Make sure the drive clock counters never overflow": a drive's clock advances by
\* what the drive ran, less a warp at the end of a frame; it goes back otherwise
\* only to 0, by a reset.  The drive's alarms are armed on that clock.
DriveClockNeverWraps ==
  [][\A u \in Units :
       LET reached == drive[u].clk + drive'[u].ran
       IN \/ drive'[u].clk = reached
          \/ drive'[u].clk = reached - Sub /\ frame' = 0
          \/ drive'[u].clk = 0 /\ drive'[u].stop = 0]_vars

\* drivecpu.c: "Execute up to the current main CPU clock value.  This automatically
\* calculates the corresponding number of clock ticks in the drive": a drive is not
\* emulated for more cycles than correspond to the time it was not looked at.
RunsUpToNow ==
  [][\A u \in Units :
       drive'[u].ran * Frac <=
         2 * Frac * (ResetClk + MaxStep) + MaxFactor * Minus(clk, drive[u].last)]_vars

\* The wrap-around of both clocks, their warps, the chunks of the conversion and
\* the order in which drives are looked at do not show: each drive runs for the
\* cycles its ratio makes of the main CPU's time, no fraction of a cycle is lost,
\* and only what may be skipped is skipped.
Time == INSTANCE DriveTime WITH
  MaxAhead <- ResetClk + MaxStep - 1,
  on <- {u \in Units : drive[u].enable},
  factor <- [u \in Units |-> drive[u].factor],
  lag <- [u \in Units |-> IF drive[u].enable THEN Minus(clk, drive[u].last) ELSE 0],
  frac <- [u \in Units |-> drive[u].accum],
  ahead <- [u \in Units |-> Minus(drive[u].clk, drive[u].stop)],
  ran <- [u \in Units |-> drive[u].ran]
ImplementsDriveTime == Time!Spec
=============================================================================
