--------------------------- MODULE AlarmClockProofs ---------------------------
(***************************************************************************)
(* Proofs about AlarmClock for a context with an alarm that is always      *)
(* pending (see MachineAlarms), for any number of alarms and slots and any*)
(* clock width.                                                            *)
(***************************************************************************)
EXTENDS MachineAlarms, TLAPS

-----------------------------------------------------------------------------
(* Arithmetic of the guard *)

\* The multiple of b that the guard subtracts lies within b below n.
LEMMA DivBounds ==
  ASSUME NEW n \in Nat, NEW b \in Nat \ {0}
  PROVE  /\ (n \div b) * b \in Nat
         /\ (n \div b) * b <= n
         /\ n < (n \div b) * b + b
  OBVIOUS

\* A clock in range is its own remainder.
LEMMA SmallMod ==
  ASSUME NEW w \in Nat \ {0}, NEW x \in 0..w - 1
  PROVE  x % w = x
  OBVIOUS

\* A multiple of b less than b away from 0 is 0.
LEMMA NoSmallMultiple ==
  ASSUME NEW b \in Nat \ {0}, NEW d \in Int, NEW e \in Int,
         b * d = e, -b < e, e < b
  PROVE  d = 0
  <1>1. CASE d > 0
    <2>1. b * d >= b BY <1>1
    <2> QED BY <2>1
  <1>2. CASE d < 0
    <2>1. b * d <= -b BY <1>2
    <2> QED BY <2>1
  <1> QED BY <1>1, <1>2

\* Quotient and remainder are unique.
LEMMA RemainderUnique ==
  ASSUME NEW b \in Nat \ {0}, NEW k \in Int, NEW r \in 0..b - 1, NEW y \in Int,
         y = b * k + r
  PROVE  y % b = r
  <1> DEFINE j == y \div b  s == y % b
  <1>1. j \in Int /\ s \in 0..b - 1 /\ y = b * j + s OBVIOUS
  <1> HIDE DEF j, s
  <1>2. b * (j - k) = r - s BY <1>1
  <1>3. j - k = 0 BY <1>1, <1>2, NoSmallMultiple
  <1>4. j = k BY <1>1, <1>3
  <1>5. s = r BY <1>1, <1>4
  <1> QED BY <1>5 DEF s

\* Subtracting a multiple of the frame length keeps the cycle of the frame.
LEMMA ModShift ==
  ASSUME NEW b \in Nat \ {0}, NEW q \in Int, NEW x \in Int
  PROVE  (x - q * b) % b = x % b
  <1> DEFINE k == x \div b  r == x % b
  <1>1. k \in Int /\ r \in 0..b - 1 /\ x = b * k + r OBVIOUS
  <1> HIDE DEF k, r
  <1>2. x - q * b = b * (k - q) + r BY <1>1
  <1>3. (x - q * b) % b = r BY <1>1, <1>2, RemainderUnique
  <1> QED BY <1>3 DEF r

-----------------------------------------------------------------------------
(* Constants, in the form the steps use them. *)

LEMMA Constants ==
  /\ Standing \in Alarms /\ Idle \notin Alarms /\ Wild \notin Alarms /\ Idle # Wild
  /\ MaxPending \in Nat \ {0} /\ Width \in Nat \ {0} /\ SubMin \in Nat \ {0}
  /\ ClkBase \in Nat \ {0} /\ MaxStep \in Nat \ {0}
  /\ Frame \in Nat /\ MaxLate \in Nat /\ Reach \in Nat /\ Horizon \in Nat
  /\ ClockMax \in Int /\ GuardMax \in Int
  /\ ClockMax = Width - 1 /\ GuardMax = ClockMax - SubMin
  /\ GuardMax >= 3 * SubMin /\ MaxStep <= MaxLate /\ MaxLate < SubMin
  /\ ClkBase <= SubMin /\ Frame + ClkBase <= SubMin /\ Frame + Reach < SubMin
  /\ Reach <= Horizon /\ Horizon <= ClockMax
  BY AlarmAssumption, StandingAlarm DEF ClockMax, GuardMax

\* The amount of a warp: it leaves SubMin cycles below the guard.
LEMMA ClockSubBounds ==
  /\ ClockSub \in Nat
  /\ ClockSub <= GuardMax - SubMin
  /\ GuardMax - SubMin < ClockSub + ClkBase
  BY Constants, DivBounds DEF ClockSub

-----------------------------------------------------------------------------
(* The inductive invariant *)

\* The standing alarm keeps the context from running empty.
StandingPending == idx[Standing] # NotPending

Context == /\ SlotsConsistent
           /\ NextIsEarliest
           /\ StandingPending

IInv == TypeOK /\ Context /\ DueTimesKept /\ DispatchSafe

LEMMA InitIInv == Init => IInv
  <1> SUFFICES ASSUME Init PROVE IInv
    OBVIOUS
  <1> USE Constants DEF Init
  <1>0. Standing # Idle /\ num = 1 /\ Slots = {0} /\ nextIdx = 0 /\ 0..num - 1 = {0}
    BY DEF Slots
  <1>1. /\ slotClk[0] \in 0..Horizon /\ slotClk \in [{0} -> 0..Horizon]
        /\ due = [a \in Alarms |-> IF a = Standing THEN slotClk[0] ELSE 0]
    BY <1>0
  <1>2. slotAlarm \in [{0} -> Alarms] /\ slotAlarm[0] = Standing
    BY <1>0
  <1>3. TypeOK
    <2>1. idx \in [Alarms -> NotPending..MaxPending - 1] /\ due \in [Alarms -> Nat]
      BY <1>0, <1>1 DEF NotPending
    <2> QED BY <1>0, <1>1, <1>2, <2>1 DEF TypeOK, Clocks, Slots, NotPending
  <1>4. Context
    BY <1>0, <1>1, <1>2 DEF Context, SlotsConsistent, NextIsEarliest, StandingPending, NotPending
  <1>5. DueTimesKept
    BY <1>0, <1>1, <1>2 DEF DueTimesKept
  <1>6. DispatchSafe
    BY DEF DispatchSafe
  <1> QED BY <1>3, <1>4, <1>5, <1>6 DEF IInv

\* Alarm a is asked for in absolute time; t is the CLOCK that stands for it.
AskedFor(a, t) ==
  LET asked == due'[a] - offset
  IN /\ due' \in [Alarms -> Nat]
     /\ \A b \in Alarms \ {a} : due'[b] = due[b]
     /\ clk - MaxLate <= asked
     /\ t \in {asked, asked - Width}
     /\ asked <= clk + Reach => t = asked

\* What alarm_set computes: the sum wraps at most once, and only beyond Reach.
LEMMA SetAsks ==
  ASSUME TypeOK, clk <= GuardMax + Frame, NEW a \in Alarms, NEW d \in -MaxLate..Horizon, Set(a, d)
  PROVE  Plus(clk, d) \in Clocks /\ AskedFor(a, Plus(clk, d))
  <1> USE Constants
  <1> DEFINE s == clk + d
  <1>1. clk \in Nat /\ offset \in Nat /\ due \in [Alarms -> Nat] /\ d \in Int
    BY DEF TypeOK, Clocks
  <1>2. s \in Int /\ 0 <= s /\ clk - MaxLate <= s /\ s < 2 * Width
    BY <1>1 DEF Set
  <1>3. due' = [due EXCEPT ![a] = clk + offset + d]
    BY DEF Set
  <1>4. s + offset \in Nat /\ clk + offset + d = s + offset
    BY <1>1, <1>2
  <1>5. /\ due' \in [Alarms -> Nat] /\ due'[a] = s + offset
        /\ \A b \in Alarms \ {a} : due'[b] = due[b]
    <2> HIDE DEF s
    <2> QED BY <1>1, <1>3, <1>4
  <1>6. s \in 0..Width - 1 => s % Width = s
    BY SmallMod
  <1>7. s >= Width => s % Width = s - Width
    <2> SUFFICES ASSUME s >= Width PROVE s % Width = s - Width
      OBVIOUS
    <2> HIDE DEF s
    <2>1. s - Width \in 0..Width - 1 /\ s = Width * 1 + (s - Width)
      BY <1>2
    <2> QED BY <1>2, <2>1, RemainderUnique
  <1>8. Plus(clk, d) = s % Width
    BY DEF Plus
  <1>9. s <= clk + Reach => s < Width
    BY <1>1, <1>2
  <1> HIDE DEF s
  <1>10. /\ Plus(clk, d) \in Clocks
         /\ Plus(clk, d) \in {s, s - Width}
         /\ s <= clk + Reach => Plus(clk, d) = s
    BY <1>1, <1>2, <1>6, <1>7, <1>8, <1>9 DEF Clocks
  <1>11. due'[a] - offset = s
    BY <1>1, <1>2, <1>5
  <1> QED BY <1>2, <1>5, <1>10, <1>11 DEF AskedFor

\* alarm_set keeps the invariant: it can only bring the minimum forward, or
\* moves the cached alarm and searches again.
LEMMA AddKeeps ==
  ASSUME IInv, NEW a \in Alarms, NEW t \in Clocks, AskedFor(a, t),
         AddPending(a, t), UNCHANGED <<clk, offset, firing>>
  PROVE  IInv'
  <1> USE Constants DEF IInv, NotPending
  <1>1. TypeOK /\ Context /\ DueTimesKept OBVIOUS
  <1>2. num \in Nat /\ num' = num + 1 /\ num' <= MaxPending /\ idx[a] = -1
    BY <1>1 DEF TypeOK, AddPending
  <1>3. Slots' = Slots \cup {num} /\ num \notin Slots /\ Slots' = 0..num
    BY <1>2 DEF Slots
  <1>4. /\ slotAlarm' = [i \in 0..num |-> IF i = num THEN a ELSE slotAlarm[i]]
        /\ slotClk' = [i \in 0..num |-> IF i = num THEN t ELSE slotClk[i]]
        /\ idx' = [idx EXCEPT ![a] = num]
    BY DEF AddPending
  <1>5. t \in Clocks /\ due' \in [Alarms -> Nat]
    BY DEF AskedFor
  <1>6. nextClk' \in Clocks /\ nextIdx' \in -1..MaxPending - 1
    BY <1>1, <1>2, <1>5 DEF TypeOK, AddPending
  <1>7. /\ slotAlarm' \in [Slots' -> Alarms] /\ slotClk' \in [Slots' -> Clocks]
        /\ idx' \in [Alarms -> -1..MaxPending - 1]
    BY <1>1, <1>2, <1>3, <1>4, <1>5 DEF TypeOK
  <1>8. TypeOK'
    BY <1>1, <1>2, <1>5, <1>6, <1>7 DEF TypeOK, Clocks
  <1>9. \A i \in Slots : slotAlarm[i] # a
    BY <1>1, <1>2 DEF Context, SlotsConsistent, Slots
  <1>10. SlotsConsistent'
    BY <1>1, <1>2, <1>3, <1>4, <1>9 DEF Context, SlotsConsistent, TypeOK
  <1>11. NextIsEarliest'
    <2>1. num > 0
      BY <1>1, <1>2 DEF Context, SlotsConsistent, StandingPending, Slots
    <2>0. /\ nextIdx \in Slots /\ nextClk = slotClk[nextIdx] /\ \A i \in Slots : nextClk <= slotClk[i]
          /\ nextClk \in Clocks /\ \A i \in Slots : slotClk[i] \in Clocks
      BY <1>1, <2>1 DEF Context, NextIsEarliest, TypeOK
    <2>a. num \in Slots' /\ slotClk'[num] = t /\ \A i \in Slots : i \in Slots' /\ slotClk'[i] = slotClk[i]
      BY <1>2, <1>3, <1>4
    <2>b. \A i \in Slots' : i = num \/ i \in Slots
      BY <1>3
    <2>2. CASE t < nextClk
      <3>1. nextClk' = t /\ nextIdx' = num
        BY <2>2 DEF AddPending
      <3>2. \A i \in Slots' : t <= slotClk'[i]
        BY <1>5, <2>0, <2>a, <2>b, <2>2 DEF Clocks
      <3> QED BY <2>a, <3>1, <3>2 DEF NextIsEarliest
    <2>3. CASE ~(t < nextClk)
      <3>1. nextClk' = nextClk /\ nextIdx' = nextIdx
        BY <2>3 DEF AddPending
      <3>2. \A i \in Slots' : nextClk <= slotClk'[i]
        BY <1>5, <2>0, <2>a, <2>b, <2>3 DEF Clocks
      <3> QED BY <2>0, <2>a, <3>1, <3>2 DEF NextIsEarliest
    <2> QED BY <2>2, <2>3
  <1>12. StandingPending'
    BY <1>1, <1>2, <1>4 DEF Context, StandingPending, TypeOK
  <1>13. DueTimesKept'
    <2>1. \A i \in Slots' : /\ slotAlarm'[i] = IF i = num THEN a ELSE slotAlarm[i]
                            /\ slotClk'[i] = IF i = num THEN t ELSE slotClk[i]
      BY <1>3, <1>4
    <2>2. \A i \in Slots : slotAlarm[i] \in Alarms \ {a}
      BY <1>1, <1>9 DEF TypeOK
    <2> QED BY <1>1, <1>3, <2>1, <2>2 DEF DueTimesKept, AskedFor
  <1>14. DispatchSafe'
    BY DEF DispatchSafe
  <1> QED BY <1>8, <1>10, <1>11, <1>12, <1>13, <1>14 DEF Context

LEMMA ChangeKeeps ==
  ASSUME IInv, NEW a \in Alarms, NEW t \in Clocks, AskedFor(a, t),
         ChangePending(a, t), UNCHANGED <<clk, offset, firing>>
  PROVE  IInv'
  <1> USE Constants DEF IInv, NotPending
  <1>1. TypeOK /\ Context /\ DueTimesKept OBVIOUS
  <1>2. /\ num' = num /\ slotAlarm' = slotAlarm /\ idx' = idx
        /\ idx[a] # -1 /\ slotClk' = [slotClk EXCEPT ![idx[a]] = t]
    BY DEF ChangePending
  <1>3. Slots' = Slots /\ idx[a] \in Slots /\ slotAlarm[idx[a]] = a
    BY <1>1, <1>2 DEF Slots, Context, SlotsConsistent
  <1>4. t \in Clocks /\ due' \in [Alarms -> Nat]
    BY DEF AskedFor
  <1>5. slotClk' \in [Slots -> Clocks]
    BY <1>1, <1>2, <1>3, <1>4 DEF TypeOK
  <1>6. NextIsEarliest' /\ nextClk' \in Clocks /\ nextIdx' \in -1..MaxPending - 1
    <2>1. num \in 0..MaxPending /\ num > 0
      BY <1>1, <1>3 DEF TypeOK, Slots
    <2>2. CASE nextClk > t \/ idx[a] = nextIdx
      <3>1. PICK i \in 0..num - 1 :
              /\ \A j \in 0..num - 1 : slotClk'[i] < slotClk'[j]
                                       \/ (slotClk'[i] = slotClk'[j] /\ j <= i)
              /\ nextClk' = slotClk'[i]
              /\ nextIdx' = i
        BY <2>2 DEF ChangePending, RefreshNext
      <3> QED BY <1>2, <1>3, <1>5, <2>1, <3>1 DEF NextIsEarliest, Slots, Clocks
    <2>3. CASE ~(nextClk > t \/ idx[a] = nextIdx)
      <3>1. UNCHANGED <<nextClk, nextIdx>>
        BY <2>3 DEF ChangePending
      <3>2. nextIdx \in Slots /\ nextClk = slotClk[nextIdx] /\ \A i \in Slots : nextClk <= slotClk[i]
        BY <1>1, <2>1 DEF Context, NextIsEarliest
      <3>3. nextClk <= t
        BY <1>1, <2>3 DEF TypeOK, Clocks
      <3> QED BY <1>1, <1>2, <1>3, <2>3, <3>1, <3>2, <3>3 DEF NextIsEarliest, TypeOK
    <2> QED BY <2>2, <2>3
  <1>7. TypeOK'
    BY <1>1, <1>2, <1>3, <1>4, <1>5, <1>6 DEF TypeOK, Clocks
  <1>8. SlotsConsistent' /\ StandingPending'
    BY <1>1, <1>2, <1>3 DEF Context, SlotsConsistent, StandingPending
  <1>9. DueTimesKept'
    <2>1. \A i \in Slots : slotClk'[i] = IF i = idx[a] THEN t ELSE slotClk[i]
      BY <1>1, <1>2, <1>3 DEF TypeOK
    <2>2. \A i \in Slots : i # idx[a] => slotAlarm[i] \in Alarms \ {a}
      BY <1>1 DEF TypeOK, Context, SlotsConsistent
    <2> QED BY <1>1, <1>2, <1>3, <2>1, <2>2 DEF DueTimesKept, AskedFor
  <1>10. DispatchSafe'
    BY DEF DispatchSafe
  <1> QED BY <1>6, <1>7, <1>8, <1>9, <1>10 DEF Context

\* What DueTimesKept says of a slot with clock c whose alarm was asked for at t.
Kept(c, t) ==
  LET asked == t - offset
  IN /\ clk - MaxLate <= asked
     /\ c \in {asked, asked - Width}
     /\ asked <= clk + Reach => c = asked

\* alarm_unset keeps the invariant: the hole is filled by the last alarm, and
\* the cache follows the slot that moved.
LEMMA UnsetKeeps ==
  ASSUME IInv, NEW a \in Alarms, a # Standing,
         UnsetPending(a), due' = [due EXCEPT ![a] = 0], UNCHANGED <<clk, offset, firing>>
  PROVE  IInv'
  <1> USE Constants DEF IInv, NotPending
  <1> DEFINE hole == idx[a]
             last == num - 1
  <1>1. TypeOK /\ Context /\ DueTimesKept OBVIOUS
  <1>2. num \in Nat /\ hole \in 0..last /\ slotAlarm[hole] = a
    BY <1>1 DEF TypeOK, UnsetPending, Context, SlotsConsistent, Slots
  <1>3. idx[Standing] \in 0..last /\ slotAlarm[idx[Standing]] = Standing
    BY <1>1 DEF Context, SlotsConsistent, StandingPending, Slots
  <1>4. num > 1
    BY <1>2, <1>3
  <1>5. /\ num' = last
        /\ slotAlarm' = [i \in 0..last - 1 |-> slotAlarm[IF i = hole THEN last ELSE i]]
        /\ slotClk' = [i \in 0..last - 1 |-> slotClk[IF i = hole THEN last ELSE i]]
        /\ idx' = [idx EXCEPT ![slotAlarm[last]] = hole, ![slotAlarm[hole]] = -1]
        /\ UnsetNext(hole, last)
    BY <1>4 DEF UnsetPending, FillHole
  <1>6. /\ last \in Nat /\ last > 0 /\ last < MaxPending /\ num' = last /\ num > 0
        /\ Slots = 0..last /\ Slots' = 0..last - 1
    BY <1>1, <1>4, <1>5 DEF TypeOK, Slots
  <1> HIDE DEF hole, last
  <1>7. /\ slotAlarm \in [0..last -> Alarms] /\ slotClk \in [0..last -> Clocks]
        /\ idx \in [Alarms -> -1..MaxPending - 1]
        /\ \A i \in 0..last : idx[slotAlarm[i]] = i
        /\ \A b \in Alarms : idx[b] # -1 => idx[b] \in 0..last /\ slotAlarm[idx[b]] = b
    BY <1>1, <1>6 DEF TypeOK, Context, SlotsConsistent
  <1>8. slotAlarm' \in [Slots' -> Alarms] /\ slotClk' \in [Slots' -> Clocks]
    BY <1>2, <1>5, <1>6, <1>7
  <1>9. idx' \in [Alarms -> -1..MaxPending - 1]
    BY <1>2, <1>5, <1>6, <1>7
  <1>10. SlotsConsistent'
    <2>1. CASE hole = last
      <3>1. \A b \in Alarms : idx'[b] = IF b = a THEN -1 ELSE idx[b]
        BY <1>2, <1>5, <1>7, <2>1
      <3>2. \A i \in 0..last - 1 : slotAlarm'[i] = slotAlarm[i] /\ slotAlarm[i] # a
        BY <1>2, <1>5, <1>6, <1>7, <2>1
      <3>3. \A b \in Alarms : b # a /\ idx[b] # -1 => idx[b] \in 0..last - 1
        BY <1>2, <1>6, <1>7, <2>1
      <3>4. \A i \in 0..last - 1 : idx'[slotAlarm'[i]] = i
        BY <1>6, <1>7, <3>1, <3>2
      <3>5. \A b \in Alarms : idx'[b] # -1 => idx'[b] \in 0..last - 1 /\ slotAlarm'[idx'[b]] = b
        BY <1>7, <3>1, <3>2, <3>3
      <3> QED BY <1>6, <3>4, <3>5 DEF SlotsConsistent
    <2>2. CASE hole # last
      <3> DEFINE z == slotAlarm[last]
      <3>0. z \in Alarms /\ z # a /\ idx[z] = last
        BY <1>2, <1>6, <1>7, <2>2
      <3>1. \A b \in Alarms : idx'[b] = IF b = a THEN -1 ELSE IF b = z THEN hole ELSE idx[b]
        BY <1>2, <1>5, <1>7, <3>0
      <3>2. \A i \in 0..last - 1 : slotAlarm'[i] = IF i = hole THEN z ELSE slotAlarm[i]
        BY <1>5
      <3>3. \A i \in 0..last - 1 : i # hole => slotAlarm[i] # a /\ slotAlarm[i] # z
        BY <1>2, <1>6, <1>7, <3>0
      <3>4. \A b \in Alarms : b # a /\ b # z /\ idx[b] # -1 => idx[b] \in 0..last - 1 /\ idx[b] # hole
        BY <1>2, <1>6, <1>7
      <3>5. hole \in 0..last - 1
        BY <1>2, <1>6, <2>2
      <3> HIDE DEF z
      <3>6. ASSUME NEW i \in 0..last - 1
            PROVE  idx'[slotAlarm'[i]] = i
        <4>1. CASE i = hole
          <5>1. slotAlarm'[i] = z
            BY <3>2, <4>1
          <5> QED BY <3>0, <3>1, <4>1, <5>1
        <4>2. CASE i # hole
          <5>1. slotAlarm'[i] = slotAlarm[i] /\ slotAlarm[i] \in Alarms /\ idx[slotAlarm[i]] = i
            BY <1>6, <1>7, <3>2, <4>2
          <5>2. slotAlarm[i] # a /\ slotAlarm[i] # z
            BY <3>3, <4>2
          <5> QED BY <3>1, <5>1, <5>2
        <4> QED BY <4>1, <4>2
      <3>7. \A b \in Alarms : idx'[b] # -1 => idx'[b] \in 0..last - 1 /\ slotAlarm'[idx'[b]] = b
        BY <1>6, <1>7, <3>0, <3>1, <3>2, <3>4, <3>5
      <3> QED BY <1>6, <3>6, <3>7 DEF SlotsConsistent
    <2> QED BY <2>1, <2>2
  <1>11. NextIsEarliest' /\ nextClk' \in Clocks /\ nextIdx' \in -1..MaxPending - 1
    <2>1. nextIdx \in 0..last /\ nextClk = slotClk[nextIdx] /\ \A i \in 0..last : nextClk <= slotClk[i]
      BY <1>1, <1>6 DEF Context, NextIsEarliest
    <2>2. CASE nextIdx = hole
      <3>1. PICK i \in 0..last - 1 :
              /\ \A j \in 0..last - 1 : slotClk'[i] < slotClk'[j]
                                        \/ (slotClk'[i] = slotClk'[j] /\ j <= i)
              /\ nextClk' = slotClk'[i]
              /\ nextIdx' = i
        BY <1>5, <2>2 DEF UnsetNext, RefreshNext
      <3>2. \A j \in 0..last - 1 : slotClk'[j] \in Nat
        BY <1>6, <1>8 DEF Clocks
      <3>3. \A j \in 0..last - 1 : nextClk' <= slotClk'[j]
        BY <3>1, <3>2
      <3>4. nextClk' \in Clocks /\ nextIdx' \in -1..MaxPending - 1
        BY <1>6, <1>8, <3>1
      <3>5. NextIsEarliest'
        BY <1>6, <3>1, <3>3 DEF NextIsEarliest
      <3> QED BY <3>4, <3>5
    <2>3. CASE nextIdx # hole
      <3>1. nextClk' = nextClk /\ nextIdx' = IF nextIdx = last THEN hole ELSE nextIdx
        BY <1>5, <2>3 DEF UnsetNext
      <3>2. nextIdx' \in 0..last - 1 /\ slotClk'[nextIdx'] = nextClk
        BY <1>2, <1>5, <1>6, <2>1, <2>3, <3>1
      <3>3. \A i \in 0..last - 1 : nextClk <= slotClk'[i]
        BY <1>2, <1>5, <1>6, <2>1
      <3>4. nextClk' \in Clocks /\ nextIdx' \in -1..MaxPending - 1
        BY <1>6, <1>7, <2>1, <3>1, <3>2
      <3>5. NextIsEarliest'
        BY <1>6, <3>1, <3>2, <3>3 DEF NextIsEarliest
      <3> QED BY <3>4, <3>5
    <2> QED BY <2>2, <2>3
  <1>12. TypeOK'
    <2>1. clk' \in Clocks /\ offset' \in Nat /\ firing' \in Alarms \cup {Idle, Wild}
          /\ due' \in [Alarms -> Nat]
      BY <1>1 DEF TypeOK, Clocks
    <2>2. num' \in 0..MaxPending
      BY <1>6
    <2> QED BY <1>8, <1>9, <1>11, <2>1, <2>2 DEF TypeOK, Clocks
  <1>13. StandingPending'
    <2>1. \A b \in Alarms : b # a /\ idx[b] # -1 => idx'[b] # -1
      <3> SUFFICES ASSUME NEW b \in Alarms, b # a, idx[b] # -1 PROVE idx'[b] # -1
        OBVIOUS
      <3>1. idx'[b] = idx[b] \/ idx'[b] = hole
        BY <1>2, <1>5, <1>7
      <3> QED BY <1>2, <1>6, <3>1
    <2> QED BY <1>1, <1>3, <2>1 DEF Context, StandingPending
  <1>14. DueTimesKept'
    <2>1. \A i \in 0..last - 1 : \E j \in 0..last :
             /\ j # hole /\ slotClk'[i] = slotClk[j] /\ slotAlarm'[i] = slotAlarm[j]
      <3> SUFFICES ASSUME NEW i \in 0..last - 1
                   PROVE  \E j \in 0..last : /\ j # hole /\ slotClk'[i] = slotClk[j]
                                             /\ slotAlarm'[i] = slotAlarm[j]
        OBVIOUS
      <3>1. CASE i = hole
        <4>1. last \in 0..last /\ last # hole
          BY <1>2, <1>6, <3>1
        <4> QED BY <1>5, <3>1, <4>1
      <3>2. CASE i # hole
        <4>1. i \in 0..last
          BY <1>6
        <4> QED BY <1>5, <3>2, <4>1
      <3> QED BY <3>1, <3>2
    <2>2. \A j \in 0..last : j # hole => due'[slotAlarm[j]] = due[slotAlarm[j]]
      <3> SUFFICES ASSUME NEW j \in 0..last, j # hole
                   PROVE  due'[slotAlarm[j]] = due[slotAlarm[j]]
        OBVIOUS
      <3>1. slotAlarm[j] \in Alarms /\ slotAlarm[j] # a
        BY <1>2, <1>7
      <3>2. due \in [Alarms -> Nat]
        BY <1>1 DEF TypeOK
      <3> QED BY <3>1, <3>2
    <2>3. clk <= GuardMax + Frame /\ \A j \in 0..last : Kept(slotClk[j], due[slotAlarm[j]])
      BY <1>1, <1>6 DEF DueTimesKept, Kept
    <2>4. \A i \in 0..last - 1 : Kept(slotClk'[i], due'[slotAlarm'[i]])
      BY <2>1, <2>2, <2>3
    <2> QED BY <1>6, <2>3, <2>4 DEF DueTimesKept, Kept
  <1>15. DispatchSafe'
    BY DEF DispatchSafe
  <1> QED BY <1>10, <1>11, <1>12, <1>13, <1>14, <1>15 DEF Context

\* A warp moves the clock and every pending slot alike: none is as far behind
\* the clock as the warp leaves room for.
LEMMA WarpExact ==
  ASSUME IInv, PreventOverflow
  PROVE  /\ clk' = clk - ClockSub
         /\ SubMin <= clk'
         /\ slotClk' = [i \in Slots |-> slotClk[i] - ClockSub]
         /\ \A i \in Slots : slotClk'[i] \in Clocks
         /\ nextClk' = nextClk - ClockSub
         /\ nextClk' \in Clocks
  <1> USE Constants, ClockSubBounds DEF IInv, NotPending
  <1>1. TypeOK /\ Context /\ DueTimesKept OBVIOUS
  <1>2. clk - ClockSub \in Clocks /\ SubMin <= clk - ClockSub
    BY <1>1 DEF TypeOK, PreventOverflow, Clocks
  <1>3. \A i \in Slots : slotClk[i] - ClockSub \in Clocks
    BY <1>1 DEF TypeOK, PreventOverflow, Clocks
  <1>4. nextClk - ClockSub \in Clocks
    <2>1. num > 0
      BY <1>1 DEF Context, SlotsConsistent, StandingPending, Slots, TypeOK
    <2> QED BY <1>1, <1>3, <2>1 DEF Context, NextIsEarliest
  <1>5. \A x \in Clocks : x % Width = x
    BY SmallMod DEF Clocks
  <1>6. clk' = clk - ClockSub
    BY <1>2, <1>5 DEF PreventOverflow, Minus
  <1>7. slotClk' = [i \in Slots |-> slotClk[i] - ClockSub]
    BY <1>3, <1>5 DEF PreventOverflow, TimeWarp, Minus
  <1>8. nextClk' = nextClk - ClockSub
    BY <1>4, <1>5 DEF PreventOverflow, TimeWarp, Minus
  <1> QED BY <1>2, <1>3, <1>4, <1>6, <1>7, <1>8

LEMMA WarpKeeps == IInv /\ PreventOverflow => IInv'
  <1> SUFFICES ASSUME IInv, PreventOverflow PROVE IInv'
    OBVIOUS
  <1> USE Constants, ClockSubBounds DEF NotPending
  <1>1. TypeOK /\ Context /\ DueTimesKept /\ DispatchSafe
    BY DEF IInv
  <1>2. /\ num' = num /\ slotAlarm' = slotAlarm /\ idx' = idx /\ nextIdx' = nextIdx
        /\ firing' = firing /\ due' = due /\ offset' = offset + ClockSub
        /\ Slots' = Slots
    BY DEF PreventOverflow, TimeWarp, Slots
  <1>3. /\ clk' = clk - ClockSub
        /\ SubMin <= clk'
        /\ slotClk' = [i \in Slots |-> slotClk[i] - ClockSub]
        /\ \A i \in Slots : slotClk'[i] \in Clocks
        /\ nextClk' = nextClk - ClockSub
        /\ nextClk' \in Clocks
    BY WarpExact
  <1>4. clk' \in Clocks
    BY <1>1, <1>3 DEF TypeOK, Clocks
  <1>5. slotClk' \in [Slots -> Clocks]
    BY <1>3
  <1>6. TypeOK'
    BY <1>1, <1>2, <1>3, <1>4, <1>5 DEF TypeOK, Clocks
  <1>7. SlotsConsistent' /\ StandingPending'
    BY <1>1, <1>2 DEF Context, SlotsConsistent, StandingPending
  <1>8. NextIsEarliest'
    BY <1>1, <1>2, <1>3 DEF Context, NextIsEarliest, TypeOK, Clocks
  <1>9. DueTimesKept'
    <2>1. clk' <= GuardMax + Frame
      BY <1>1, <1>3 DEF DueTimesKept, TypeOK, Clocks
    <2> SUFFICES ASSUME NEW i \in Slots
                 PROVE  LET asked == due[slotAlarm[i]] - (offset + ClockSub)
                        IN /\ clk - ClockSub - MaxLate <= asked
                           /\ slotClk[i] - ClockSub \in {asked, asked - Width}
                           /\ asked <= clk - ClockSub + Reach => slotClk[i] - ClockSub = asked
      BY <1>2, <1>3, <2>1 DEF DueTimesKept
    <2> DEFINE z == due[slotAlarm[i]] - offset
    <2>2. z \in Int /\ due[slotAlarm[i]] - (offset + ClockSub) = z - ClockSub
      BY <1>1 DEF TypeOK
    <2>3. /\ clk - MaxLate <= z /\ slotClk[i] \in {z, z - Width}
          /\ z <= clk + Reach => slotClk[i] = z
      BY <1>1 DEF DueTimesKept
    <2>4. clk \in Int /\ slotClk[i] \in Int
      BY <1>1 DEF TypeOK, Clocks
    <2> HIDE DEF z
    <2> QED BY <2>2, <2>3, <2>4
  <1>10. DispatchSafe'
    BY <1>1, <1>2 DEF DispatchSafe
  <1> QED BY <1>6, <1>7, <1>8, <1>9, <1>10 DEF IInv, Context

LEMMA ClockKeeps ==
  ASSUME IInv, NEW n \in 1..MaxStep, Execute(n) \/ StealCycles(n)
  PROVE  IInv'
  <1> USE Constants DEF NotPending
  <1>1. TypeOK /\ Context /\ DueTimesKept /\ DispatchSafe
    BY DEF IInv
  <1>2. UNCHANGED <<offset, context, firing, due>> /\ clk' = clk + n /\ clk' <= GuardMax + Frame
    BY DEF Execute, StealCycles
  <1>3. Slots' = Slots /\ num > 0
    BY <1>1, <1>2 DEF Slots, context, Context, SlotsConsistent, StandingPending, TypeOK
  <1>4. TypeOK'
    BY <1>1, <1>2, <1>3 DEF TypeOK, context, Clocks
  <1>5. Context'
    BY <1>1, <1>2, <1>3 DEF Context, SlotsConsistent, NextIsEarliest, StandingPending, context
  <1>6. DueTimesKept'
    <2>1. ASSUME NEW i \in Slots
          PROVE  LET asked == due[slotAlarm[i]] - offset
                 IN /\ clk + n - MaxLate <= asked
                    /\ slotClk[i] \in {asked, asked - Width}
                    /\ asked <= clk + n + Reach => slotClk[i] = asked
      <3> DEFINE z == due[slotAlarm[i]] - offset
      <3>1. clk \in Int /\ offset \in Int /\ slotClk[i] \in Clocks /\ due[slotAlarm[i]] \in Nat
        BY <1>1 DEF TypeOK, Clocks
      <3>2. z \in Int
        BY <3>1
      <3>3. slotClk[i] \in {z, z - Width}
        BY <1>1 DEF DueTimesKept
      <3>4. clk + n - MaxLate <= z
        <4>1. CASE Execute(n)
          <5>1. clk < nextClk /\ nextClk <= slotClk[i]
            BY <1>1, <1>3, <4>1 DEF Execute, Context, NextIsEarliest
          <5> QED BY <1>1, <3>1, <3>2, <3>3, <5>1 DEF TypeOK, Clocks
        <4>2. CASE StealCycles(n)
          BY <3>1, <4>2 DEF StealCycles
        <4> QED BY <4>1, <4>2
      <3>5. z <= clk + n + Reach => slotClk[i] = z
        <4>1. clk + n <= GuardMax + Frame
          BY <1>2
        <4>2. slotClk[i] = z - Width => z >= Width
          BY <3>1, <3>2 DEF Clocks
        <4> HIDE DEF z
        <4> QED BY <3>1, <3>2, <3>3, <4>1, <4>2
      <3> QED BY <3>3, <3>4, <3>5
    <2>2. UNCHANGED <<offset, slotAlarm, slotClk, due>> /\ clk' = clk + n
      BY <1>2 DEF context
    <2>3. clk' <= GuardMax + Frame
      BY <1>2
    <2>4. ASSUME NEW i \in Slots'
          PROVE  LET asked == due'[slotAlarm'[i]] - offset'
                 IN /\ clk' - MaxLate <= asked
                    /\ slotClk'[i] \in {asked, asked - Width}
                    /\ asked <= clk' + Reach => slotClk'[i] = asked
      <3>1. i \in Slots
        BY <1>3
      <3>2. due'[slotAlarm'[i]] - offset' = due[slotAlarm[i]] - offset
        BY <2>2
      <3>3. slotClk'[i] = slotClk[i] /\ clk' = clk + n
        BY <2>2
      <3> DEFINE z == due[slotAlarm[i]] - offset
      <3>4. /\ clk + n - MaxLate <= z
            /\ slotClk[i] \in {z, z - Width}
            /\ z <= clk + n + Reach => slotClk[i] = z
        BY <2>1, <3>1
      <3>6. clk \in Int /\ z \in Int /\ slotClk[i] \in Int
        BY <1>1, <3>1 DEF TypeOK, Clocks
      <3> HIDE DEF z
      <3>5. /\ clk' - MaxLate <= z
            /\ slotClk'[i] \in {z, z - Width}
            /\ z <= clk' + Reach => slotClk'[i] = z
        BY <3>3, <3>4, <3>6
      <3> QED BY <3>2, <3>5 DEF z
    <2> QED BY <2>3, <2>4 DEF DueTimesKept
  <1>7. DispatchSafe'
    BY <1>1, <1>2 DEF DispatchSafe
  <1> QED BY <1>4, <1>5, <1>6, <1>7 DEF IInv

LEMMA CallbackKeeps == IInv /\ (Dispatch \/ CallbackReturns) => IInv'
  <1> SUFFICES ASSUME IInv, Dispatch \/ CallbackReturns PROVE IInv'
    OBVIOUS
  <1> USE Constants DEF NotPending
  <1>1. TypeOK /\ Context /\ DueTimesKept /\ DispatchSafe
    BY DEF IInv
  <1>2. UNCHANGED <<clk, offset, context, due>> /\ Slots' = Slots
    BY DEF Dispatch, CallbackReturns, context, Slots
  <1>3. num > 0
    BY <1>1 DEF Context, SlotsConsistent, StandingPending, Slots, TypeOK
  <1>4. firing' \in Alarms \cup {Idle}
    <2>1. CASE Dispatch
      <3>1. nextIdx \in Slots
        BY <1>1, <1>3 DEF Context, NextIsEarliest
      <3>2. slotAlarm[nextIdx] \in Alarms
        BY <1>1, <3>1 DEF TypeOK
      <3> QED BY <2>1, <3>1, <3>2 DEF Dispatch
    <2>2. CASE CallbackReturns
      BY <2>2 DEF CallbackReturns
    <2> QED BY <2>1, <2>2
  <1>5. TypeOK'
    BY <1>1, <1>2, <1>4 DEF TypeOK, context, Clocks
  <1>6. Context' /\ DueTimesKept'
    BY <1>1, <1>2 DEF Context, SlotsConsistent, NextIsEarliest, StandingPending, DueTimesKept, context
  <1>7. DispatchSafe'
    BY <1>4 DEF DispatchSafe
  <1> QED BY <1>5, <1>6, <1>7 DEF IInv

LEMMA NextIInv == IInv /\ [Next]_vars => IInv'
  <1> SUFFICES ASSUME IInv, [Next]_vars PROVE IInv'
    OBVIOUS
  <1>1. CASE ArmAlarm
    <2>1. PICK a \in Alarms, d \in -MaxLate..Horizon : Set(a, d)
      BY <1>1 DEF ArmAlarm
    <2>2. Plus(clk, d) \in Clocks /\ AskedFor(a, Plus(clk, d))
      BY <2>1, SetAsks DEF IInv, DueTimesKept
    <2>3. AddPending(a, Plus(clk, d)) \/ ChangePending(a, Plus(clk, d))
      BY <2>1 DEF Set
    <2>4. UNCHANGED <<clk, offset, firing>>
      BY <2>1 DEF Set
    <2> QED BY <2>2, <2>3, <2>4, AddKeeps, ChangeKeeps
  <1>2. CASE DisarmAlarm
    BY <1>2, UnsetKeeps DEF DisarmAlarm, Unset
  <1>3. CASE Dispatch \/ CallbackReturns
    BY <1>3, CallbackKeeps
  <1>4. CASE Run
    BY <1>4, ClockKeeps DEF Run
  <1>5. CASE Steal
    BY <1>5, ClockKeeps DEF Steal
  <1>6. CASE PreventOverflow
    BY <1>6, WarpKeeps
  <1>7. CASE UNCHANGED vars
    BY <1>7 DEF vars, context, IInv, TypeOK, Context, SlotsConsistent, NextIsEarliest,
                StandingPending, DueTimesKept, DispatchSafe, Slots, NotPending
  <1> QED BY <1>1, <1>2, <1>3, <1>4, <1>5, <1>6, <1>7 DEF Next

LEMMA Invariance == Spec => []IInv
  BY InitIInv, NextIInv, PTL DEF Spec

\* The state keeps its types; no slot beyond the array is ever used.
THEOREM TypeCorrect == Spec => []TypeOK
  <1>1. IInv => TypeOK BY DEF IInv
  <1> QED BY <1>1, Invariance, PTL

\* pending_idx and the slots name each other after every removal.
THEOREM SlotsStayConsistent == Spec => []SlotsConsistent
  <1>1. IInv => SlotsConsistent BY DEF IInv, Context
  <1> QED BY <1>1, Invariance, PTL

\* The cached next alarm is the earliest one.
THEOREM CacheIsExact == Spec => []NextIsEarliest
  <1>1. IInv => NextIsEarliest BY DEF IInv, Context
  <1> QED BY <1>1, Invariance, PTL

\* No callback of an unused slot is ever called.
THEOREM NeverWild == Spec => []DispatchSafe
  <1>1. IInv => DispatchSafe BY DEF IInv
  <1> QED BY <1>1, Invariance, PTL

\* Within reach, an alarm is pending at exactly the time it was asked for, and
\* none is left behind; only alarms still beyond Reach can have wrapped.
THEOREM DueTimesAreKept == Spec => []DueTimesKept
  <1>1. IInv => DueTimesKept BY DEF IInv
  <1> QED BY <1>1, Invariance, PTL

\* A warp leaves room behind and before the clock, on the same frame cycle.
THEOREM WarpsMakeRoom == Spec => WarpMakesRoom
  <1> DEFINE Room == offset' # offset => /\ SubMin <= clk' /\ clk' < GuardMax
                                         /\ clk' % ClkBase = clk % ClkBase
  <1>1. IInv /\ [Next]_vars => [Room]_vars
    <2> SUFFICES ASSUME IInv, [Next]_vars, offset' # offset
                 PROVE  /\ SubMin <= clk' /\ clk' < GuardMax
                        /\ clk' % ClkBase = clk % ClkBase
      OBVIOUS
    <2>1. PreventOverflow
      BY DEF Next, vars, ArmAlarm, Set, DisarmAlarm, Unset, Dispatch, CallbackReturns,
             Run, Execute, Steal, StealCycles
    <2>2. clk' = clk - ClockSub /\ SubMin <= clk'
      BY <2>1, WarpExact
    <2>3. clk' < GuardMax
      BY <2>2, Constants, ClockSubBounds DEF IInv, TypeOK, DueTimesKept, Clocks
    <2>4. clk' % ClkBase = clk % ClkBase
      <3> DEFINE q == (GuardMax - SubMin) \div ClkBase
      <3>1. q \in Int /\ ClockSub = q * ClkBase /\ clk \in Int
        BY Constants DEF ClockSub, IInv, TypeOK, Clocks
      <3> HIDE DEF q
      <3> QED BY <2>2, <3>1, ModShift, Constants
    <2> QED BY <2>2, <2>3, <2>4
  <1> QED BY <1>1, Invariance, PTL DEF Spec, WarpMakesRoom

-----------------------------------------------------------------------------
(* The refinement *)

ArmedNow == {slotAlarm[i] : i \in Slots}
PendingNow == {a \in Alarms : idx[a] # NotPending}
AbsoluteVars == <<clk + offset, ArmedNow, due, firing>>

\* The armed alarms are those whose pending_idx names a slot.
LEMMA ArmedAlarms ==
  IInv => ArmedNow = PendingNow /\ ArmedNow \subseteq Alarms
  <1> SUFFICES ASSUME IInv
               PROVE  ArmedNow = PendingNow /\ ArmedNow \subseteq Alarms
    OBVIOUS
  <1> USE Constants DEF NotPending, PendingNow
  <1>1. TypeOK /\ SlotsConsistent
    BY DEF IInv, Context
  <1>2. ArmedNow \subseteq {a \in Alarms : idx[a] # -1}
    BY <1>1 DEF ArmedNow, TypeOK, SlotsConsistent, Slots
  <1>3. ASSUME NEW a \in Alarms, idx[a] # -1
        PROVE  a \in ArmedNow
    BY <1>1, <1>3 DEF ArmedNow, SlotsConsistent
  <1> QED BY <1>2, <1>3

LEMMA InitSimulates == Init => Absolute!Init
  <1> SUFFICES ASSUME Init PROVE Absolute!Init
    OBVIOUS
  <1>1. IInv
    BY InitIInv
  <1>2. ArmedNow \subseteq Alarms /\ due \in [Alarms -> Nat]
    BY <1>1, ArmedAlarms DEF IInv, TypeOK
  <1> QED BY <1>2 DEF Absolute!Init, Init, ArmedNow

LEMMA ArmSimulates ==
  ASSUME IInv, IInv', NEW a \in Alarms, NEW d \in -MaxLate..Horizon, Set(a, d)
  PROVE  Absolute!Arm
  <1> USE Constants DEF NotPending
  <1>1. TypeOK /\ TypeOK' /\ SlotsConsistent
    BY DEF IInv, Context
  <1>2. UNCHANGED <<clk, offset, firing>> /\ due' = [due EXCEPT ![a] = clk + offset + d]
    BY DEF Set
  <1>3. idx'[a] # -1 /\ \A b \in Alarms \ {a} : idx'[b] = idx[b]
    <2>1. CASE AddPending(a, Plus(clk, d))
      BY <1>1, <2>1 DEF AddPending, TypeOK, Slots
    <2>2. CASE ChangePending(a, Plus(clk, d))
      BY <1>1, <2>2 DEF ChangePending, TypeOK, SlotsConsistent
    <2> QED BY <2>1, <2>2 DEF Set
  <1>4. ArmedNow' = ArmedNow \cup {a}
    <2>1. ArmedNow = {b \in Alarms : idx[b] # -1}
      BY ArmedAlarms DEF PendingNow
    <2>2. (ArmedNow = PendingNow)'
      BY ArmedAlarms, PTL
    <2>3. ArmedNow' = {b \in Alarms : idx'[b] # -1}
      BY <2>2 DEF PendingNow
    <2> QED BY <1>3, <2>1, <2>3
  <1>5. due' \in [Alarms -> Nat] /\ \A b \in Alarms \ {a} : due'[b] = due[b]
    BY <1>1, <1>2 DEF TypeOK
  <1>6. /\ \E c \in Alarms : /\ ArmedNow' = ArmedNow \cup {c}
                             /\ due' \in [Alarms -> Nat]
                             /\ \A b \in Alarms \ {c} : due'[b] = due[b]
        /\ UNCHANGED <<clk + offset, firing>>
    BY <1>2, <1>4, <1>5
  <1> QED BY <1>6 DEF Absolute!Arm, ArmedNow

LEMMA DisarmSimulates ==
  ASSUME IInv, IInv', NEW a \in Alarms, Unset(a)
  PROVE  Absolute!Disarm
  <1> USE Constants DEF NotPending
  <1>1. TypeOK /\ SlotsConsistent
    BY DEF IInv, Context
  <1>2. UNCHANGED <<clk, offset, firing>> /\ due' = [due EXCEPT ![a] = 0] /\ UnsetPending(a)
    BY DEF Unset
  <1> DEFINE hole == idx[a]
             last == num - 1
  <1>3. hole \in 0..last /\ slotAlarm[hole] = a /\ last \in Nat /\ Slots = 0..last
    BY <1>1, <1>2 DEF UnsetPending, TypeOK, SlotsConsistent, Slots
  <1>4. idx' = [idx EXCEPT ![slotAlarm[last]] = hole, ![a] = -1]
    BY <1>2, <1>3 DEF UnsetPending, FillHole
  <1> HIDE DEF hole, last
  <1>5. /\ slotAlarm \in [0..last -> Alarms]
        /\ idx \in [Alarms -> -1..MaxPending - 1]
        /\ \A i \in 0..last : idx[slotAlarm[i]] = i
    BY <1>1, <1>3 DEF TypeOK, SlotsConsistent
  <1>6. idx'[a] = -1
    BY <1>4, <1>5
  <1>7. ASSUME NEW b \in Alarms \ {a}
        PROVE  idx'[b] = -1 <=> idx[b] = -1
    <2>1. CASE b = slotAlarm[last]
      <3>1. idx[b] = last /\ idx'[b] = hole
        BY <1>3, <1>4, <1>5, <2>1
      <3> QED BY <1>3, <3>1
    <2>2. CASE b # slotAlarm[last]
      BY <1>4, <1>5, <2>2
    <2> QED BY <2>1, <2>2
  <1>8. ArmedNow' = ArmedNow \ {a} /\ a \in ArmedNow
    <2>1. ArmedNow = {b \in Alarms : idx[b] # -1}
      BY ArmedAlarms DEF PendingNow
    <2>2. (ArmedNow = PendingNow)'
      BY ArmedAlarms, PTL
    <2>3. ArmedNow' = {b \in Alarms : idx'[b] # -1}
      BY <2>2 DEF PendingNow
    <2>4. idx[a] # -1
      BY <1>2 DEF UnsetPending
    <2> QED BY <1>6, <1>7, <2>1, <2>3, <2>4
  <1>9. /\ \E c \in ArmedNow : /\ ArmedNow' = ArmedNow \ {c}
                               /\ due' = [due EXCEPT ![c] = 0]
        /\ UNCHANGED <<clk + offset, firing>>
    BY <1>2, <1>8
  <1> QED BY <1>9 DEF Absolute!Disarm, ArmedNow

\* The slot that is dispatched is at most the clock: its alarm is due, and then
\* the earliest of all, or it has wrapped and is still beyond Reach.
LEMMA DispatchSimulates == IInv /\ Dispatch => Absolute!Fire
  <1> SUFFICES ASSUME IInv, Dispatch PROVE Absolute!Fire
    OBVIOUS
  <1> USE Constants
  <1>1. TypeOK /\ Context /\ DueTimesKept
    BY DEF IInv
  <1>2. num > 0
    BY <1>1 DEF Context, SlotsConsistent, StandingPending, Slots, TypeOK, NotPending
  <1>3. nextIdx \in Slots /\ nextClk = slotClk[nextIdx] /\ \A i \in Slots : nextClk <= slotClk[i]
    BY <1>1, <1>2 DEF Context, NextIsEarliest
  <1>4. firing = Idle /\ nextClk <= clk /\ firing' = slotAlarm[nextIdx]
    BY <1>1, <1>3 DEF Dispatch, TypeOK, Clocks
  <1>5. UNCHANGED <<clk, offset, num, slotAlarm, due>>
    BY DEF Dispatch, context
  <1> DEFINE z(i) == due[slotAlarm[i]] - offset
  <1>6. \A i \in Slots : /\ z(i) \in Int /\ slotClk[i] \in Clocks
                         /\ slotClk[i] \in {z(i), z(i) - Width}
                         /\ z(i) <= clk + Reach => slotClk[i] = z(i)
    BY <1>1 DEF TypeOK, DueTimesKept
  <1>7. clk \in Int /\ offset \in Int /\ \A i \in Slots : due[slotAlarm[i]] = z(i) + offset
    BY <1>1 DEF TypeOK, Clocks
  <1> HIDE DEF z
  <1>8. CASE z(nextIdx) <= clk + Reach
    <2>1. z(nextIdx) = slotClk[nextIdx]
      BY <1>3, <1>6, <1>8
    <2>2. \A i \in Slots : z(nextIdx) <= z(i)
      BY <1>3, <1>6, <2>1 DEF Clocks
    <2>3. due[slotAlarm[nextIdx]] <= clk + offset
      BY <1>3, <1>4, <1>6, <1>7, <2>1 DEF Clocks
    <2>4. \A b \in ArmedNow : due[slotAlarm[nextIdx]] <= due[b]
      BY <1>3, <1>6, <1>7, <2>2 DEF ArmedNow
    <2>5. slotAlarm[nextIdx] \in ArmedNow /\ UNCHANGED <<clk + offset, ArmedNow>>
      BY <1>3, <1>5 DEF ArmedNow, Slots
    <2> QED BY <1>4, <1>5, <2>3, <2>4, <2>5 DEF Absolute!Fire, ArmedNow
  <1>9. CASE ~(z(nextIdx) <= clk + Reach)
    <2>1. due[slotAlarm[nextIdx]] > clk + offset + Reach
      BY <1>3, <1>6, <1>7, <1>9
    <2>2. slotAlarm[nextIdx] \in ArmedNow /\ UNCHANGED <<clk + offset, ArmedNow>>
      BY <1>3, <1>5 DEF ArmedNow, Slots
    <2> QED BY <1>4, <1>5, <2>1, <2>2 DEF Absolute!Fire, ArmedNow
  <1> QED BY <1>8, <1>9

LEMMA ClockSimulates ==
  ASSUME IInv, NEW n \in 1..MaxStep
  PROVE  /\ Execute(n) => Absolute!Tick
         /\ StealCycles(n) => Absolute!Steal
  <1> USE Constants
  <1>1. TypeOK /\ Context /\ DueTimesKept
    BY DEF IInv
  <1>2. SUFFICES ASSUME Execute(n) \/ StealCycles(n)
                 PROVE  /\ Execute(n) => Absolute!Tick
                        /\ StealCycles(n) => Absolute!Steal
    OBVIOUS
  <1>3. UNCHANGED <<offset, num, slotAlarm, due, firing>> /\ clk' = clk + n
    BY <1>2 DEF Execute, StealCycles, context
  <1>4. clk' + offset' > clk + offset
    BY <1>1, <1>3 DEF TypeOK, Clocks
  <1>5. UNCHANGED <<ArmedNow, due, firing>>
    BY <1>3 DEF ArmedNow, Slots
  <1>6. Execute(n) => \A a \in ArmedNow : clk + offset < due[a]
    <2> SUFFICES ASSUME Execute(n), NEW i \in Slots
                 PROVE  clk + offset < due[slotAlarm[i]]
      BY DEF ArmedNow
    <2>1. num > 0
      BY <1>1 DEF TypeOK, Slots
    <2>2. clk < nextClk /\ nextClk <= slotClk[i]
      BY <1>1, <2>1 DEF Execute, Context, NextIsEarliest
    <2> DEFINE z == due[slotAlarm[i]] - offset
    <2>3. z \in Int /\ slotClk[i] \in {z, z - Width}
      BY <1>1 DEF TypeOK, DueTimesKept
    <2>4. clk < z
      <3> HIDE DEF z
      <3> QED BY <1>1, <2>2, <2>3 DEF TypeOK, Clocks
    <2> QED BY <1>1, <2>4 DEF TypeOK, Clocks
  <1>7. Execute(n) => Absolute!Tick
    BY <1>4, <1>5, <1>6 DEF Absolute!Tick, Execute, ArmedNow
  <1>8. StealCycles(n) => Absolute!Steal
    BY <1>4, <1>5 DEF Absolute!Steal, StealCycles, ArmedNow
  <1> QED BY <1>7, <1>8

LEMMA WarpSilent == IInv /\ PreventOverflow => UNCHANGED AbsoluteVars
  <1> SUFFICES ASSUME IInv, PreventOverflow PROVE UNCHANGED AbsoluteVars
    OBVIOUS
  <1> USE Constants, ClockSubBounds
  <1>1. TypeOK
    BY DEF IInv
  <1>2. UNCHANGED <<num, slotAlarm, firing, due>> /\ offset' = offset + ClockSub
    BY DEF PreventOverflow, TimeWarp
  <1>3. clk' = clk - ClockSub
    BY WarpExact
  <1>4. clk' + offset' = clk + offset
    BY <1>1, <1>2, <1>3 DEF TypeOK, Clocks
  <1>5. ArmedNow' = ArmedNow
    BY <1>2 DEF ArmedNow, Slots
  <1> QED BY <1>2, <1>4, <1>5 DEF AbsoluteVars

LEMMA StepSimulates == IInv /\ IInv' /\ [Next]_vars => Absolute!Next \/ UNCHANGED AbsoluteVars
  <1> SUFFICES ASSUME IInv, IInv', [Next]_vars
               PROVE  Absolute!Next \/ UNCHANGED AbsoluteVars
    OBVIOUS
  <1>1. CASE ArmAlarm
    BY <1>1, ArmSimulates DEF ArmAlarm, Absolute!Next
  <1>2. CASE DisarmAlarm
    BY <1>2, DisarmSimulates DEF DisarmAlarm, Absolute!Next
  <1>3. CASE Dispatch
    BY <1>3, DispatchSimulates DEF Absolute!Next
  <1>4. CASE CallbackReturns
    <2>1. firing # Idle /\ firing' = Idle
      BY <1>4, Constants DEF CallbackReturns
    <2>2. UNCHANGED <<clk + offset, ArmedNow, due>>
      BY <1>4 DEF CallbackReturns, context, ArmedNow, Slots
    <2> QED BY <2>1, <2>2 DEF Absolute!Return, Absolute!Next, ArmedNow
  <1>5. CASE Run
    BY <1>5, ClockSimulates DEF Run, Absolute!Next
  <1>6. CASE Steal
    BY <1>6, ClockSimulates DEF Steal, Absolute!Next
  <1>7. CASE PreventOverflow
    BY <1>7, WarpSilent
  <1>8. CASE UNCHANGED vars
    BY <1>8 DEF vars, context, AbsoluteVars, ArmedNow, Slots
  <1> QED BY <1>1, <1>2, <1>3, <1>4, <1>5, <1>6, <1>7, <1>8 DEF Next

\* The context with its slots, its cache and its warps implements the alarm
\* service of an unbounded clock.
THEOREM Refinement == Spec => ImplementsAlarmService
  <1>1. IInv /\ IInv' /\ [Next]_vars => [Absolute!Next]_AbsoluteVars
    BY StepSimulates
  <1> QED BY <1>1, InitSimulates, Invariance, PTL
          DEF Spec, ImplementsAlarmService, Absolute!Spec, AbsoluteVars, ArmedNow
===============================================================================
