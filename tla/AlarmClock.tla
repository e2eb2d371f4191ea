------------------------------ MODULE AlarmClock ------------------------------
(***************************************************************************)
(* An alarm context and the clock guard that keeps its CPU's clock from    *)
(* overflowing: alarm.c, the inline functions of alarm.h, clkguard.c and   *)
(* the loop of 6510core.c that dispatches alarms.  Devices arm and disarm  *)
(* alarms from the CPU's loads and stores and from alarm callbacks; the    *)
(* end-of-frame hook asks the guard to subtract a large amount from the    *)
(* clock and to warp every pending alarm by it.                            *)
(*                                                                         *)
(* Slots are numbered from 0 and -1 is "not pending", as in the code.      *)
(***************************************************************************)
EXTENDS Integers

CONSTANTS
  Alarms,           \* the alarms a context may hold
  Standing,         \* an alarm armed from reset on and never unset, or Idle
  Idle,             \* no callback is running
  Wild,             \* the callback of a slot that holds no alarm
  MaxPending,       \* ALARM_CONTEXT_MAX_PENDING_ALARMS
  Width,            \* number of CLOCK values, CLOCK_MAX + 1
  SubMin,           \* CLKGUARD_SUB_MIN
  ClkBase,          \* clk_base, cycles per refresh: the warp is a multiple of it
  Frame,            \* bound: clock cycles between GuardMax and the next hook
  MaxStep,          \* bound: cycles of one instruction
  MaxLate,          \* bound: how late an alarm can be dispatched or armed
  Reach,            \* how far ahead the devices that count on the clock arm
  Horizon,          \* bound: how far ahead any alarm is armed
  MaxWarps          \* bound: number of warps explored

ClockMax == Width - 1
GuardMax == ClockMax - SubMin   \* clk_max_value: the guard acts from here on

ASSUME AlarmAssumption ==
  /\ Standing \in Alarms \cup {Idle}
  /\ Idle \notin Alarms /\ Wild \notin Alarms /\ Idle # Wild
  /\ {MaxPending, Width, SubMin, ClkBase, MaxStep} \subseteq Nat \ {0}
  /\ {Frame, MaxLate, Reach, Horizon, MaxWarps} \subseteq Nat
  /\ GuardMax >= 3 * SubMin               \* clk_guard_init refuses less
  /\ MaxStep <= MaxLate /\ MaxLate < SubMin
  /\ ClkBase <= SubMin /\ Frame + ClkBase <= SubMin
  /\ Frame + Reach < SubMin               \* within the guard's cushion
  /\ Reach <= Horizon /\ Horizon <= ClockMax

VARIABLES
  clk,              \* *clk_ptr
  offset,           \* clk_absolute_offset
  num,              \* num_pending_alarms
  slotAlarm,        \* pending_alarms[0 .. num - 1].alarm
  slotClk,          \* pending_alarms[0 .. num - 1].clk
  idx,              \* pending_idx of every alarm
  nextClk,          \* next_pending_alarm_clk
  nextIdx,          \* next_pending_alarm_idx
  firing,           \* the alarm whose callback runs, Idle or Wild
  due               \* history: the absolute time each alarm was asked for, or 0

context == <<num, slotAlarm, slotClk, idx, nextClk, nextIdx>>
vars == <<clk, offset, context, firing, due>>

NotPending == -1
Slots == 0..num - 1

\* CLOCK arithmetic wraps.
Plus(a, b) == (a + b) % Width
Minus(a, b) == (a - b) % Width

Init ==
  /\ clk = 0
  /\ offset = 0
  /\ firing = Idle
  /\ \/ /\ Standing = Idle
        /\ num = 0
        /\ due = [a \in Alarms |-> 0]
        /\ slotAlarm = [i \in 0..-1 |-> Idle]
        /\ slotClk = [i \in 0..-1 |-> 0]
        /\ idx = [a \in Alarms |-> NotPending]
        /\ nextClk = ClockMax
        /\ nextIdx \in NotPending..MaxPending - 1  \* alarm_context_init leaves it
     \/ /\ Standing # Idle
        /\ num = 1
        /\ slotAlarm = [i \in 0..0 |-> Standing]
        /\ slotClk \in [0..0 -> 0..Horizon]
        /\ idx = [a \in Alarms |-> IF a = Standing THEN 0 ELSE NotPending]
        /\ due = [a \in Alarms |-> IF a = Standing THEN slotClk[0] ELSE 0]
        /\ nextClk = slotClk[0]
        /\ nextIdx = 0

-----------------------------------------------------------------------------
(* The alarm context *)

\* alarm_context_update_next_pending: the last of the earliest slots.
RefreshNext(n, clks) ==
  \E i \in 0..n - 1 :
    /\ \A j \in 0..n - 1 : clks[i] < clks[j] \/ (clks[i] = clks[j] /\ j <= i)
    /\ nextClk' = clks[i]
    /\ nextIdx' = i

\* alarm_set of an alarm that is not pending; with every slot taken the call
\* logs an error and changes nothing.
AddPending(a, t) ==
  /\ idx[a] = NotPending
  /\ num < MaxPending
  /\ num' = num + 1
  /\ slotAlarm' = [i \in 0..num |-> IF i = num THEN a ELSE slotAlarm[i]]
  /\ slotClk' = [i \in 0..num |-> IF i = num THEN t ELSE slotClk[i]]
  /\ idx' = [idx EXCEPT ![a] = num]
  /\ IF t < nextClk
       THEN nextClk' = t /\ nextIdx' = num
       ELSE UNCHANGED <<nextClk, nextIdx>>

\* Mutant: only an earlier time makes the cache be recomputed.
ChangePendingLazily(a, t) ==
  /\ idx[a] # NotPending
  /\ slotClk' = [slotClk EXCEPT ![idx[a]] = t]
  /\ IF nextClk > t
       THEN RefreshNext(num, slotClk')
       ELSE UNCHANGED <<nextClk, nextIdx>>
  /\ UNCHANGED <<num, slotAlarm, idx>>

\* alarm_set of a pending alarm.
ChangePending(a, t) ==
  /\ idx[a] # NotPending
  /\ slotClk' = [slotClk EXCEPT ![idx[a]] = t]
  /\ IF nextClk > t \/ idx[a] = nextIdx
       THEN RefreshNext(num, slotClk')
       ELSE UNCHANGED <<nextClk, nextIdx>>
  /\ UNCHANGED <<num, slotAlarm, idx>>

\* A device arms an alarm d cycles from now: ahead of the clock, or a little
\* behind it when its callback counts from the time it was due.  The sum is a
\* CLOCK: close to the guard one that reaches beyond the cushion wraps, as the
\* 2,000,000 cycles of a flash sector's erase do.
Set(a, d) ==
  /\ firing # Wild
  /\ clk + d >= 0
  /\ AddPending(a, Plus(clk, d)) \/ ChangePending(a, Plus(clk, d))
  /\ due' = [due EXCEPT ![a] = clk + offset + d]
  /\ UNCHANGED <<clk, offset, firing>>

\* Mutant: the alarm moved into the hole keeps its old index.
FillHoleStale(hole, last) == UNCHANGED idx
\* The last pending alarm moves into the freed slot.
FillHole(hole, last) ==
  idx' = [idx EXCEPT ![slotAlarm[last]] = hole, ![slotAlarm[hole]] = NotPending]

\* Mutant: the cached slot number is not corrected when that slot moved.
UnsetNextStale(hole, last) ==
  IF nextIdx = hole
    THEN RefreshNext(last, slotClk')
    ELSE UNCHANGED <<nextClk, nextIdx>>

\* The cached next alarm after the removal of a slot.
UnsetNext(hole, last) ==
  IF nextIdx = hole
    THEN RefreshNext(last, slotClk')
    ELSE /\ nextIdx' = IF nextIdx = last THEN hole ELSE nextIdx
         /\ UNCHANGED nextClk

\* alarm_unset of a pending alarm; it returns at once for any other.
UnsetPending(a) ==
  LET hole == idx[a]
      last == num - 1
  IN /\ hole # NotPending
     /\ num' = last
     /\ slotAlarm' = [i \in 0..last - 1 |->
                        slotAlarm[IF i = hole THEN last ELSE i]]
     /\ slotClk' = [i \in 0..last - 1 |-> slotClk[IF i = hole THEN last ELSE i]]
     /\ FillHole(hole, last)
     /\ IF num > 1
          THEN UnsetNext(hole, last)
          ELSE nextClk' = ClockMax /\ nextIdx' = NotPending

\* alarm_unset or alarm_destroy called by the device.
Unset(a) ==
  /\ firing # Wild
  /\ a # Standing
  /\ UnsetPending(a)
  /\ due' = [due EXCEPT ![a] = 0]
  /\ UNCHANGED <<clk, offset, firing>>

\* alarm_context_dispatch, called while CLK >= next_pending_alarm_clk.
Dispatch ==
  /\ firing = Idle
  /\ clk >= nextClk
  /\ firing' = IF nextIdx \in Slots THEN slotAlarm[nextIdx] ELSE Wild
  /\ UNCHANGED <<clk, offset, context, due>>

\* The callback returns; its alarm is unset by then, armed again, or left and
\* dispatched once more.
CallbackReturns ==
  /\ firing \in Alarms
  /\ firing' = Idle
  /\ UNCHANGED <<clk, offset, context, due>>

-----------------------------------------------------------------------------
(* The clock *)

\* The CPU executes an instruction; the hook keeps the clock in its frame.
Execute(n) ==
  /\ firing = Idle
  /\ clk < nextClk
  /\ clk + n <= GuardMax + Frame
  /\ clk' = clk + n
  /\ UNCHANGED <<offset, context, firing, due>>

\* A callback that steals CPU cycles (the VIC-II's fetches in x64).
StealCycles(n) ==
  /\ firing \in Alarms
  /\ \A i \in Slots : clk + offset + n - due[slotAlarm[i]] <= MaxLate
  /\ clk + n <= GuardMax + Frame
  /\ clk' = clk + n
  /\ UNCHANGED <<offset, context, firing, due>>

\* Mutant: no room is left below the clock.
ClockSubAll == (GuardMax \div ClkBase) * ClkBase
\* clk_guard_clock_sub
ClockSub == ((GuardMax - SubMin) \div ClkBase) * ClkBase

\* Mutant: the cached clock is forgotten.
TimeWarpSlotsOnly(sub) ==
  /\ slotClk' = [i \in Slots |-> Minus(slotClk[i], sub)]
  /\ UNCHANGED <<num, slotAlarm, idx, nextClk, nextIdx>>

\* alarm_context_time_warp, always with direction -1.
TimeWarp(sub) ==
  /\ slotClk' = [i \in Slots |-> Minus(slotClk[i], sub)]
  /\ nextClk' = Minus(nextClk, sub)
  /\ UNCHANGED <<num, slotAlarm, idx, nextIdx>>

\* clk_guard_prevent_overflow with the overflow callback of the CPU: from the
\* end-of-frame hook, inside an alarm callback or between two instructions.
\* The CPU has dispatched by then what was due before (a wrapped alarm too):
\* no pending slot is further behind than an instruction or a callback lasts.
PreventOverflow ==
  /\ firing # Wild
  /\ clk >= GuardMax
  /\ \A i \in Slots : clk - slotClk[i] <= MaxLate
  /\ offset < MaxWarps * ClockSub
  /\ clk' = Minus(clk, ClockSub)
  /\ offset' = offset + ClockSub
  /\ TimeWarp(ClockSub)
  /\ UNCHANGED <<firing, due>>

-----------------------------------------------------------------------------
ArmAlarm == \E a \in Alarms, d \in -MaxLate..Horizon : Set(a, d)
DisarmAlarm == \E a \in Alarms : Unset(a)
Run == \E n \in 1..MaxStep : Execute(n)
Steal == \E n \in 1..MaxStep : StealCycles(n)

Next ==
  \/ ArmAlarm
  \/ DisarmAlarm
  \/ Dispatch
  \/ CallbackReturns
  \/ Run
  \/ Steal
  \/ PreventOverflow

Spec == Init /\ [][Next]_vars

-----------------------------------------------------------------------------
Clocks == 0..ClockMax

\* The types of the state: every pending alarm has a slot of the array.
TypeOK ==
  /\ clk \in Clocks /\ offset \in Nat
  /\ num \in 0..MaxPending
  /\ slotAlarm \in [Slots -> Alarms]
  /\ slotClk \in [Slots -> Clocks]
  /\ idx \in [Alarms -> NotPending..MaxPending - 1]
  /\ nextClk \in Clocks
  /\ nextIdx \in NotPending..MaxPending - 1
  /\ firing \in Alarms \cup {Idle, Wild}
  /\ due \in [Alarms -> Nat]

\* An alarm's pending_idx and the slot that holds it name each other, through
\* every removal that moves the last slot into a hole.
SlotsConsistent ==
  /\ \A i \in Slots : idx[slotAlarm[i]] = i
  /\ \A a \in Alarms : idx[a] # NotPending => idx[a] \in Slots /\ slotAlarm[idx[a]] = a

\* The cached next alarm is the earliest pending one: alarm_set, alarm_unset
\* and the time warp keep the cache exact without a search on every cycle.
NextIsEarliest ==
  num > 0 => /\ nextIdx \in Slots
             /\ nextClk = slotClk[nextIdx]
             /\ \A i \in Slots : nextClk <= slotClk[i]

\* No alarm is dispatched from a slot that holds none.
DispatchSafe == firing # Wild

\* An alarm within reach is pending at exactly the time it was asked for, and
\* no alarm is left behind by more than MaxLate, warps included: the wrap of
\* the clock shows only in alarms that are still further away than Reach.
DueTimesKept ==
  /\ clk <= GuardMax + Frame
  /\ \A i \in Slots :
       LET asked == due[slotAlarm[i]] - offset
       IN /\ clk - MaxLate <= asked
          /\ slotClk[i] \in {asked, asked - Width}
          /\ asked <= clk + Reach => slotClk[i] = asked

\* No alarm is called before the time it was asked for.  It holds of devices
\* that stay within the cushion (Horizon = Reach) and of no others.
NeverEarly == [][Dispatch => due[firing'] <= clk + offset]_vars

\* A warp leaves the clock with SubMin cycles behind it, below the guard, and
\* on the same cycle of the frame.
WarpMakesRoom ==
  [][offset' # offset => /\ SubMin <= clk' /\ clk' < GuardMax
                         /\ clk' % ClkBase = clk % ClkBase]_vars

-----------------------------------------------------------------------------
\* The refinement mapping: absolute times undo the warps.
Absolute ==
  INSTANCE AlarmService WITH
    now <- clk + offset,
    armed <- {slotAlarm[i] : i \in Slots}

\* The context with its slots, cache and warps is an alarm service on a clock
\* that never wraps: alarms within reach fire in order and never early, time
\* passes none of them, and warps are silent.
ImplementsAlarmService == Absolute!Spec
===============================================================================
