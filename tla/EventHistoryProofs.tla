------------------------- MODULE EventHistoryProofs -------------------------
(***************************************************************************)
(* Proofs about EventHistory for any clock, guard, lines and bounds, and a *)
(* careful user (Careful): one who gives one command at a time, whose keys *)
(* the window does not let go, and so on.  Of others the code does lose    *)
(* inputs, so that the theorems do not hold of them.                       *)
(*                                                                         *)
(* The invariant follows the list through its life: what the machine has   *)
(* got is in the list while it is recorded, in the snapshots that are      *)
(* written without its timestamps, in what is read from them with new      *)
(* ones, and up to the current node while it is played.                    *)
(***************************************************************************)
EXTENDS EventHistory, SequenceTheorems, WellFoundedInduction, TLAPS

-----------------------------------------------------------------------------
(* The invariant *)

\* What the user of these theorems takes care of: all that the instance of the module's run
\* does but three things.  An input may come before a recording's first reset, several in
\* the cycle of a warp, and a milestone be asked for that was never set.
Careful == Inputs \subseteq {"first reset", "crowded", "no milestone"}

\* A node of a list; a reset is never recorded at the clock 0.
Nd == {n \in [type : NodeTypes, clk : Int, data : SUBSET Lines] : n.type = "reset" => n.clk > 0}

\* The first k nodes of a list, of which the last one is its first end.
EndsAt(s, k) ==
  k \in DOMAIN s /\ s[k].type = "end" /\ \A j \in 1 .. k - 1 : s[j].type # "end"
Acts(s, k) == Actions(SubSeq(s, 1, k))
Got(entries) == [i \in DOMAIN entries |-> Action(entries[i])]
IsSeq(s) == s \in Seq(Range(s))

\* A session begins with the one node that says how.
Starts == {"initial save", "initial reset"}
Begins(s) ==
  Len(s) >= 2 /\ s[1].type \in Starts /\ \A i \in 2 .. Len(s) : s[i].type \notin Starts

\* The list holds what the machine has got.
Holds(s, entries) ==
  /\ s \in Seq(Nd) /\ Begins(s) /\ IsSeq(entries)
  /\ \E k \in DOMAIN s : EndsAt(s, k) /\ Acts(s, k) = Got(entries)

\* The clock runs from 0; a raster line is drawn after a cycle.
ClockGood ==
  /\ clk \in Nat
  /\ raster => phase = "alarms" /\ clk > 0
  /\ phase = "line" => clk > 0

\* An input on its way to the machine is not late.
LatchesGood ==
  /\ DOMAIN due = Latched
  /\ \A d \in Latched :
       due[d] # Off => due[d] \in Nat /\ due[d] >= clk /\ (phase = "interrupts" => due[d] > clk)

\* Between a command and its trap nothing reaches the machine.
Unsettling == {"record load", "record reset", "playback start", "reset milestone"}
TrapGood ==
  trap # "none" =>
    /\ ~reset /\ ~playback_active /\ lines \cap Joys = {}
    /\ \A d \in Latched : due[d] # Off => due[d] > clk
    /\ trap \in Unsettling => \A d \in Latched : due[d] = Off
    /\ record_active <=> trap \in {"record stop", "set milestone", "reset milestone"}

\* A reset finds no input on its way, and is that of a playback if it is to start one.
ResetGood ==
  /\ reset => \A d \in Latched : due[d] = Off
  /\ playback_reset_ack => reset /\ playback_active

\* What is recorded is in the list, whose last node is the current one.
RecordGood ==
  record_active =>
    /\ ~playback_active /\ Holds(list, seen)
    /\ current = Len(list) /\ current \in DOMAIN list /\ list[current].type = "end"
    /\ trap # "record stop" => EndsAt(list, current)

\* What was played is what is in the list before the current node; a reset is played
\* before it is current no more.
AtReset == reset /\ list[current].type = "reset"
Played == IF AtReset THEN current ELSE current - 1
PlayGood ==
  playback_active \/ trap = "record playback" =>
    /\ ~record_active /\ list \in Seq(Nd) /\ Begins(list) /\ IsSeq(seen)
    /\ EndsAt(list, Len(list)) /\ current \in 2 .. Len(list)
    /\ Acts(list, Played) = Got(seen)
    /\ Acts(list, Len(list)) = Got(end_file.seen)
    /\ \A d \in Latched : due[d] = Off
    /\ reset => event_alarm = Off \/ phase = "interrupts"

\* Nothing is played without a playback, and no reset then goes on with one.
IdleGood ==
  ~record_active /\ ~playback_active =>
    /\ event_alarm # Off => current # 0 /\ list[current].type = "end"
    /\ reset => current = 0 \/ list[current].type # "reset"

\* The snapshots.
StartGood(file) == file.clk \in Nat /\ file.lines \cap Joys = {} /\ file.seen = <<>>
EndGood(file) ==
  /\ file.clk \in Nat /\ file.lines \cap Joys = {}
  /\ Holds(file.list, file.seen)
  /\ file.list[1].type = "initial save" => StartGood(start_file)
FilesGood ==
  /\ end_file # NoFile => EndGood(end_file)
  /\ (record_active \/ playback_active \/ trap = "record playback")
       /\ list[1].type = "initial save" => StartGood(start_file)

IInv ==
  /\ ClockGood /\ LatchesGood /\ TrapGood /\ ResetGood /\ RecordGood /\ PlayGood
  /\ IdleGood /\ FilesGood
-----------------------------------------------------------------------------
(* The actions of a list *)

\* What holds of 0 and goes from each number to the next holds of all.
LEMMA Induction ==
  ASSUME NEW T, 0 \in T, \A n \in Nat : n \in T => n + 1 \in T
  PROVE  Nat \subseteq T
<1> DEFINE R == OpToRel(<, Nat)
<1>1. IsWellFoundedOn(R, Nat)
  BY NatLessThanWellFounded
<1>2. \A x, y \in Nat : <<x, y>> \in R <=> x < y
  BY DEF OpToRel
<1> HIDE DEF R
<1> SUFFICES ASSUME Nat \ T # {} PROVE FALSE
  OBVIOUS
<1>3. PICK x \in Nat \ T : \A y \in Nat \ T : ~ (<<y, x>> \in R)
  BY <1>1, WFMin
<1>4. x # 0 /\ x - 1 \in Nat /\ x - 1 < x /\ (x - 1) + 1 = x
  OBVIOUS
<1>5. x - 1 \in T
  BY <1>2, <1>3, <1>4
<1> QED BY <1>3, <1>4, <1>5

\* What an append does to a sequence over any set.
LEMMA Appended ==
  ASSUME NEW s, IsSeq(s), NEW e
  PROVE  /\ IsSeq(Append(s, e)) /\ Len(s) \in Nat /\ Len(Append(s, e)) = Len(s) + 1
         /\ DOMAIN s = 1 .. Len(s) /\ DOMAIN Append(s, e) = 1 .. Len(s) + 1
         /\ \A i \in 1 .. Len(s) : Append(s, e)[i] = s[i]
         /\ Append(s, e)[Len(s) + 1] = e
<1> DEFINE S == Range(s) \cup {e}
<1>1. s \in Seq(S) /\ e \in S
  BY SeqMonotonic DEF IsSeq
<1>2. /\ Append(s, e) \in Seq(S) /\ Len(Append(s, e)) = Len(s) + 1
      /\ \A i \in 1 .. Len(s) : Append(s, e)[i] = s[i]
      /\ Append(s, e)[Len(s) + 1] = e
  BY <1>1, AppendProperties
<1>3. IsSeq(Append(s, e))
  BY <1>2, SeqOfRange DEF IsSeq
<1> QED BY <1>1, <1>2, <1>3, LenProperties

\* What the machine has got, with one thing more.
LEMMA GotMore ==
  ASSUME NEW s, IsSeq(s), NEW e
  PROVE  Got(Append(s, e)) = Append(Got(s), Action(e))
<1> DEFINE t == Append(s, e)
           n == Len(s)
<1>1. /\ n \in Nat /\ DOMAIN s = 1 .. n /\ DOMAIN t = 1 .. n + 1
      /\ \A i \in 1 .. n : t[i] = s[i]
      /\ t[n + 1] = e
  BY Appended
<1> HIDE DEF t, n
<1> DEFINE a == [i \in 1 .. n |-> Action(s[i])]
           b == [i \in 1 .. n + 1 |-> Action(t[i])]
           S == {Action(s[i]) : i \in 1 .. n} \cup {Action(e)}
<1>2. a \in Seq(S) /\ Len(a) = n
  BY <1>1
<1>3. /\ Len(Append(a, Action(e))) = n + 1 /\ Append(a, Action(e)) \in Seq(S)
      /\ \A i \in 1 .. n : Append(a, Action(e))[i] = a[i]
      /\ Append(a, Action(e))[n + 1] = Action(e)
  <2> HIDE DEF a
  <2>1. Action(e) \in S
    OBVIOUS
  <2> HIDE DEF S
  <2> QED BY <1>2, <2>1, AppendProperties
<1>4. b \in Seq(S) /\ Len(b) = n + 1
  <2>1. \A i \in 1 .. n + 1 : b[i] \in S
    <3>1. \A i \in 1 .. n + 1 : i \in 1 .. n \/ i = n + 1
      BY <1>1
    <3> QED BY <1>1, <3>1
  <2>2. n + 1 \in Nat
    BY <1>1
  <2> HIDE DEF S
  <2> QED BY <2>1, <2>2
<1>5. \A i \in 1 .. n + 1 : b[i] = Append(a, Action(e))[i]
  <2>1. \A i \in 1 .. n + 1 : i \in 1 .. n \/ i = n + 1
    BY <1>1
  <2>2. \A i \in 1 .. n : b[i] = a[i]
    BY <1>1
  <2>3. b[n + 1] = Action(e)
    BY <1>1
  <2> HIDE DEF a, b
  <2> QED BY <1>3, <2>1, <2>2, <2>3
<1>6. b = Append(a, Action(e))
  <2> HIDE DEF a, b, S
  <2> QED BY <1>3, <1>4, <1>5, SeqEqual
<1> QED BY <1>1, <1>6 DEF Got, t

\* The function that Actions chooses: the actions of the first i nodes.
ActsUpTo(s, m, f) ==
  f = [i \in 0 .. m |->
         IF i = 0 THEN <<>>
         ELSE IF s[i].type \in InputTypes THEN Append(f[i - 1], Action(s[i])) ELSE f[i - 1]]
ActsOne(n, x) == IF n.type \in InputTypes THEN Append(x, Action(n)) ELSE x

\* Node by node.
LEMMA ActsUpToIs ==
  ASSUME NEW s, NEW m \in Nat, NEW f, ActsUpTo(s, m, f)
  PROVE  f[0] = <<>> /\ \A i \in 1 .. m : f[i] = ActsOne(s[i], f[i - 1])
<1> DEFINE F == [i \in 0 .. m |->
         IF i = 0 THEN <<>>
         ELSE IF s[i].type \in InputTypes THEN Append(f[i - 1], Action(s[i])) ELSE f[i - 1]]
<1>1. f = F
  BY DEF ActsUpTo
<1>2. F[0] = <<>> /\ \A i \in 1 .. m : F[i] = ActsOne(s[i], f[i - 1])
  BY DEF ActsOne
<1> HIDE DEF F
<1> QED BY <1>1, <1>2

\* There is one.
LEMMA ActsUpToExists ==
  ASSUME NEW s, NEW m \in Nat
  PROVE  \E f : ActsUpTo(s, m, f)
<1> DEFINE T == {n \in Nat : \E f : ActsUpTo(s, n, f)}
<1>1. 0 \in T
  <2>1. ActsUpTo(s, 0, [i \in 0 .. 0 |-> <<>>])
    BY DEF ActsUpTo
  <2> QED BY <2>1
<1>2. ASSUME NEW n \in Nat, n \in T PROVE n + 1 \in T
  <2>1. PICK f : ActsUpTo(s, n, f)
    BY <1>2
  <2> DEFINE g == [i \in 0 .. n + 1 |-> IF i = n + 1 THEN ActsOne(s[i], f[n]) ELSE f[i]]
  <2>2. f[0] = <<>> /\ \A i \in 1 .. n : f[i] = ActsOne(s[i], f[i - 1])
    BY <2>1, ActsUpToIs
  <2>3. \A i \in 0 .. n + 1 : i = 0 \/ i \in 1 .. n \/ i = n + 1
    OBVIOUS
  <2>4. \A i \in 1 .. n : i - 1 \in 0 .. n /\ i - 1 # n + 1 /\ i # 0 /\ i # n + 1
    OBVIOUS
  <2>5. (n + 1) - 1 = n /\ n # n + 1 /\ n \in 0 .. n + 1 /\ 0 # n + 1
    OBVIOUS
  <2>6. \A i \in 0 .. n + 1 : g[i] = IF i = 0 THEN <<>> ELSE ActsOne(s[i], g[i - 1])
    BY <2>2, <2>3, <2>4, <2>5
  <2>7. g = [i \in 0 .. n + 1 |-> IF i = 0 THEN <<>> ELSE ActsOne(s[i], g[i - 1])]
    <3>1. g = [i \in 0 .. n + 1 |-> g[i]]
      OBVIOUS
    <3> HIDE DEF g
    <3> QED BY <2>6, <3>1
  <2> HIDE DEF g
  <2>8. ActsUpTo(s, n + 1, g)
    BY <2>7 DEF ActsUpTo, ActsOne
  <2> QED BY <2>8
<1> HIDE DEF T
<1>3. m \in T
  BY <1>1, <1>2, Induction
<1> QED BY <1>3 DEF T

\* Actions takes its last value.
LEMMA ActionsIs ==
  ASSUME NEW s, Len(s) \in Nat
  PROVE  \E f : ActsUpTo(s, Len(s), f) /\ Actions(s) = f[Len(s)]
<1> DEFINE H == CHOOSE f : ActsUpTo(s, Len(s), f)
<1>1. ActsUpTo(s, Len(s), H)
  BY ActsUpToExists, Zenon
<1>2. Actions(s) = H[Len(s)]
  BY DEF Actions, ActsUpTo
<1> HIDE DEF H
<1> QED BY <1>1, <1>2

\* Two lists with the same nodes before the last one of the longer have the same actions,
\* but for that one's.
LEMMA ActionsMore ==
  ASSUME NEW s, NEW t, NEW n \in Nat, Len(s) = n, Len(t) = n + 1,
         \A i \in 1 .. n : t[i] = s[i]
  PROVE  Actions(t) = ActsOne(t[n + 1], Actions(s))
<1>1. n + 1 \in Nat
  OBVIOUS
<1>2. PICK f : ActsUpTo(s, n, f) /\ Actions(s) = f[n]
  BY ActionsIs
<1>3. PICK g : ActsUpTo(t, n + 1, g) /\ Actions(t) = g[n + 1]
  BY <1>1, ActionsIs
<1>4. f[0] = <<>> /\ \A i \in 1 .. n : f[i] = ActsOne(s[i], f[i - 1])
  BY <1>2, ActsUpToIs
<1>5. g[0] = <<>> /\ \A i \in 1 .. n + 1 : g[i] = ActsOne(t[i], g[i - 1])
  BY <1>1, <1>3, ActsUpToIs
<1> DEFINE T == {i \in Nat : i <= n => g[i] = f[i]}
<1>6. 0 \in T
  BY <1>4, <1>5
<1>7. ASSUME NEW i \in Nat, i \in T PROVE i + 1 \in T
  <2> SUFFICES ASSUME i + 1 <= n PROVE g[i + 1] = f[i + 1]
    OBVIOUS
  <2>1. i + 1 \in 1 .. n /\ i + 1 \in 1 .. n + 1 /\ (i + 1) - 1 = i /\ i <= n
    OBVIOUS
  <2> QED BY <1>4, <1>5, <1>7, <2>1
<1>8. g[n] = f[n]
  <2> HIDE DEF T
  <2>1. n \in T
    BY <1>6, <1>7, Induction
  <2> QED BY <2>1 DEF T
<1>9. n + 1 \in 1 .. n + 1 /\ (n + 1) - 1 = n
  OBVIOUS
<1> QED BY <1>2, <1>3, <1>5, <1>8, <1>9

\* The beginning of a list.
LEMMA SubIsList ==
  ASSUME NEW s \in Seq(Nd), NEW k \in 0 .. Len(s)
  PROVE  /\ Len(SubSeq(s, 1, k)) = k /\ SubSeq(s, 1, k) \in Seq(Nd)
         /\ \A i \in 1 .. k : SubSeq(s, 1, k)[i] = s[i]
<1>1. \A i \in 1 .. k : s[i] \in Nd
  BY ElementOfSeq
<1>2. k \in Int /\ 1 \in Int /\ Len(s) \in Nat
  OBVIOUS
<1> QED BY <1>1, <1>2, SubSeqProperties

\* The actions of the first nodes: of none, of one more, of those of another list.
LEMMA ActsNone == ASSUME NEW s PROVE Acts(s, 0) = <<>>
<1> PICK t : t = SubSeq(s, 1, 0)
  OBVIOUS
<1>1. t = <<>> /\ Len(t) = 0
  BY SubSeqEmpty
<1>2. PICK f : ActsUpTo(t, 0, f) /\ Actions(t) = f[0]
  BY <1>1, ActionsIs
<1> QED BY <1>2, ActsUpToIs DEF Acts

LEMMA ActsStep ==
  ASSUME NEW s \in Seq(Nd), NEW k \in 1 .. Len(s)
  PROVE  Acts(s, k) = ActsOne(s[k], Acts(s, k - 1))
<1> PICK t, u, n : t = SubSeq(s, 1, k) /\ n = k - 1 /\ u = SubSeq(s, 1, n)
  OBVIOUS
<1>1. n \in Nat /\ n + 1 = k /\ n \in 0 .. Len(s) /\ k \in 0 .. Len(s)
  OBVIOUS
<1>2. Len(t) = k /\ \A i \in 1 .. k : t[i] = s[i]
  BY <1>1, SubIsList
<1>3. Len(u) = n /\ \A i \in 1 .. n : u[i] = s[i]
  BY <1>1, SubIsList
<1>4. \A i \in 1 .. n : t[i] = u[i]
  BY <1>1, <1>2, <1>3
<1>5. Actions(t) = ActsOne(t[n + 1], Actions(u))
  BY <1>1, <1>2, <1>3, <1>4, ActionsMore
<1> QED BY <1>1, <1>2, <1>5 DEF Acts

LEMMA ActsSame ==
  ASSUME NEW s \in Seq(Nd), NEW t \in Seq(Nd), NEW k \in Nat, k <= Len(s), k <= Len(t),
         \A i \in 1 .. k : s[i] = t[i]
  PROVE  Acts(s, k) = Acts(t, k)
<1> PICK x, y : x = SubSeq(s, 1, k) /\ y = SubSeq(t, 1, k)
  OBVIOUS
<1>1. Len(x) = k /\ x \in Seq(Nd) /\ \A i \in 1 .. k : x[i] = s[i]
  BY SubIsList
<1>2. Len(y) = k /\ y \in Seq(Nd) /\ \A i \in 1 .. k : y[i] = t[i]
  BY SubIsList
<1>3. x = y
  BY <1>1, <1>2, SeqEqual
<1> QED BY <1>3 DEF Acts

\* and of nodes that are no inputs.
LEMMA ActsQuiet ==
  ASSUME NEW s \in Seq(Nd), NEW a \in Nat, NEW b \in Nat, a <= b, b <= Len(s),
         \A j \in a + 1 .. b : s[j].type \notin InputTypes
  PROVE  Acts(s, b) = Acts(s, a)
<1> DEFINE T == {i \in Nat : a + i <= b => Acts(s, a + i) = Acts(s, a)}
<1>1. 0 \in T
  OBVIOUS
<1>2. ASSUME NEW i \in Nat, i \in T PROVE i + 1 \in T
  <2> SUFFICES ASSUME a + (i + 1) <= b PROVE Acts(s, a + (i + 1)) = Acts(s, a)
    OBVIOUS
  <2> PICK k : k = a + (i + 1)
    OBVIOUS
  <2>1. k \in 1 .. Len(s) /\ k \in a + 1 .. b /\ k - 1 = a + i /\ a + i <= b
    OBVIOUS
  <2>2. Acts(s, k) = ActsOne(s[k], Acts(s, k - 1))
    BY <2>1, ActsStep
  <2> QED BY <1>2, <2>1, <2>2 DEF ActsOne
<1> HIDE DEF T
<1>3. b - a \in T
  BY <1>1, <1>2, Induction
<1>4. a + (b - a) = b /\ b - a \in Nat
  OBVIOUS
<1> QED BY <1>3, <1>4 DEF T


\* A list with one node more.
LEMMA OneNode ==
  ASSUME NEW s \in Seq(Nd), NEW n \in Nd
  PROVE  LET t == Append(s, n)
         IN /\ t \in Seq(Nd) /\ Len(s) \in Nat /\ Len(t) = Len(s) + 1
            /\ \A i \in 1 .. Len(s) : t[i] = s[i]
            /\ t[Len(s) + 1] = n
            /\ \A k \in 0 .. Len(s) : Acts(t, k) = Acts(s, k)
            /\ Acts(t, Len(s) + 1) = ActsOne(n, Acts(s, Len(s)))
<1> PICK t, m : t = Append(s, n) /\ m = Len(s)
  OBVIOUS
<1>1. m \in Nat /\ m + 1 \in Nat /\ m + 1 \in 1 .. m + 1 /\ (m + 1) - 1 = m /\ m \in 0 .. m
  OBVIOUS
<1>2. /\ t \in Seq(Nd) /\ Len(t) = m + 1
      /\ \A i \in 1 .. m : t[i] = s[i]
      /\ t[m + 1] = n
  BY AppendProperties
<1>3. ASSUME NEW k \in 0 .. m PROVE Acts(t, k) = Acts(s, k)
  <2>1. k \in Nat /\ k <= Len(s) /\ k <= Len(t) /\ \A i \in 1 .. k : i \in 1 .. m
    BY <1>1, <1>2
  <2>2. \A i \in 1 .. k : t[i] = s[i]
    BY <1>2, <2>1
  <2> QED BY <1>2, <2>1, <2>2, ActsSame
<1>4. Acts(t, m + 1) = ActsOne(n, Acts(s, m))
  <2>1. m + 1 \in 1 .. Len(t)
    BY <1>1, <1>2
  <2>2. Acts(t, m + 1) = ActsOne(t[m + 1], Acts(t, (m + 1) - 1))
    BY <1>2, <2>1, ActsStep
  <2>3. Acts(t, m) = Acts(s, m)
    BY <1>1, <1>3
  <2> QED BY <1>1, <1>2, <2>2, <2>3
<1> QED BY <1>1, <1>2, <1>3, <1>4

-----------------------------------------------------------------------------
(* What is written of a list *)

\* The function that Written chooses.
WrittenUpTo(s, m, f) ==
  f = [i \in 0 .. m |->
         IF i = 0 THEN <<>>
         ELSE IF s[i].type = "timestamp" THEN f[i - 1] ELSE Append(f[i - 1], s[i])]
WrittenOne(n, w) == IF n.type = "timestamp" THEN w ELSE Append(w, n)

LEMMA WrittenUpToIs ==
  ASSUME NEW s, NEW m \in Nat, NEW f, WrittenUpTo(s, m, f)
  PROVE  f[0] = <<>> /\ \A i \in 1 .. m : f[i] = WrittenOne(s[i], f[i - 1])
<1> DEFINE F == [i \in 0 .. m |->
         IF i = 0 THEN <<>>
         ELSE IF s[i].type = "timestamp" THEN f[i - 1] ELSE Append(f[i - 1], s[i])]
<1>1. f = F
  BY DEF WrittenUpTo
<1>2. F[0] = <<>> /\ \A i \in 1 .. m : F[i] = WrittenOne(s[i], f[i - 1])
  BY DEF WrittenOne
<1> HIDE DEF F
<1> QED BY <1>1, <1>2

LEMMA WrittenUpToExists ==
  ASSUME NEW s, NEW m \in Nat
  PROVE  \E f : WrittenUpTo(s, m, f)
<1> DEFINE T == {n \in Nat : \E f : WrittenUpTo(s, n, f)}
<1>1. 0 \in T
  <2>1. WrittenUpTo(s, 0, [i \in 0 .. 0 |-> <<>>])
    BY DEF WrittenUpTo
  <2> QED BY <2>1
<1>2. ASSUME NEW n \in Nat, n \in T PROVE n + 1 \in T
  <2>1. PICK f : WrittenUpTo(s, n, f)
    BY <1>2
  <2> DEFINE g == [i \in 0 .. n + 1 |-> IF i = n + 1 THEN WrittenOne(s[i], f[n]) ELSE f[i]]
  <2>2. f[0] = <<>> /\ \A i \in 1 .. n : f[i] = WrittenOne(s[i], f[i - 1])
    BY <2>1, WrittenUpToIs
  <2>3. \A i \in 0 .. n + 1 : i = 0 \/ i \in 1 .. n \/ i = n + 1
    OBVIOUS
  <2>4. \A i \in 1 .. n : i - 1 \in 0 .. n /\ i - 1 # n + 1 /\ i # 0 /\ i # n + 1
    OBVIOUS
  <2>5. (n + 1) - 1 = n /\ n # n + 1 /\ n \in 0 .. n + 1 /\ 0 # n + 1
    OBVIOUS
  <2>6. \A i \in 0 .. n + 1 : g[i] = IF i = 0 THEN <<>> ELSE WrittenOne(s[i], g[i - 1])
    BY <2>2, <2>3, <2>4, <2>5
  <2>7. g = [i \in 0 .. n + 1 |-> IF i = 0 THEN <<>> ELSE WrittenOne(s[i], g[i - 1])]
    <3>1. g = [i \in 0 .. n + 1 |-> g[i]]
      OBVIOUS
    <3> HIDE DEF g
    <3> QED BY <2>6, <3>1
  <2> HIDE DEF g
  <2>8. WrittenUpTo(s, n + 1, g)
    BY <2>7 DEF WrittenUpTo, WrittenOne
  <2> QED BY <2>8
<1> HIDE DEF T
<1>3. m \in T
  BY <1>1, <1>2, Induction
<1> QED BY <1>3 DEF T

LEMMA WrittenIs ==
  ASSUME NEW s, Len(s) \in Nat
  PROVE  \E f : WrittenUpTo(s, Len(s), f) /\ Written(s) = f[Len(s)]
<1> DEFINE H == CHOOSE f : WrittenUpTo(s, Len(s), f)
<1>1. WrittenUpTo(s, Len(s), H)
  BY WrittenUpToExists, Zenon
<1>2. Written(s) = H[Len(s)]
  BY DEF Written, WrittenUpTo
<1> HIDE DEF H
<1> QED BY <1>1, <1>2

\* What is written of the first i nodes of a list that ends at k.
WrittenGood(s, k, i, w) ==
  /\ w \in Seq(Nd) /\ Len(w) >= 1 /\ w[1] = s[1]
  /\ \A j \in 2 .. Len(w) : w[j].type \notin Starts
  /\ i < k => (\A j \in 1 .. Len(w) : w[j].type # "end") /\ Acts(w, Len(w)) = Acts(s, i)
  /\ i >= k => \E m \in 1 .. Len(w) : EndsAt(w, m) /\ Acts(w, m) = Acts(s, k)

LEMMA WrittenNext ==
  ASSUME NEW s \in Seq(Nd), Begins(s), NEW k \in 1 .. Len(s), EndsAt(s, k),
         NEW i \in 2 .. Len(s), NEW w, WrittenGood(s, k, i - 1, w)
  PROVE  WrittenGood(s, k, i, WrittenOne(s[i], w))
<1> PICK n, h, l : n = s[i] /\ h = i - 1 /\ l = Len(w)
  OBVIOUS
<1>1. /\ w \in Seq(Nd) /\ l >= 1 /\ w[1] = s[1] /\ \A j \in 2 .. l : w[j].type \notin Starts
      /\ h < k => (\A j \in 1 .. l : w[j].type # "end") /\ Acts(w, l) = Acts(s, h)
      /\ h >= k => \E m \in 1 .. l : EndsAt(w, m) /\ Acts(w, m) = Acts(s, k)
  BY DEF WrittenGood
<1>2. n \in Nd /\ n.type \notin Starts
  <2>1. i \in 1 .. Len(s)
    OBVIOUS
  <2> QED BY <2>1, ElementOfSeq DEF Begins
<1>3. /\ h \in Nat /\ l \in Nat /\ k \in Nat /\ i \in Nat /\ i = h + 1 /\ i \in 1 .. Len(s)
      /\ h \in 0 .. Len(s)
  BY <1>1
<1>4. Acts(s, i) = ActsOne(n, Acts(s, h))
  BY <1>3, ActsStep
<1>5. h < k => (i < k <=> n.type # "end") /\ (i >= k <=> i = k)
  <2> SUFFICES ASSUME h < k PROVE (i < k <=> n.type # "end") /\ (i >= k <=> i = k)
    OBVIOUS
  <2>1. i < k \/ i = k
    BY <1>3
  <2>2. i < k => i \in 1 .. k - 1
    BY <1>3
  <2> QED BY <1>3, <2>1, <2>2 DEF EndsAt
<1>6. CASE n.type = "timestamp"
  <2>1. WrittenOne(n, w) = w /\ n.type \notin InputTypes /\ n.type # "end"
    BY <1>6 DEF WrittenOne, InputTypes
  <2>2. Acts(s, i) = Acts(s, h)
    BY <1>4, <2>1 DEF ActsOne
  <2>3. h >= k <=> i >= k
    BY <1>3, <1>5, <2>1
  <2>4. i < k => h < k
    BY <1>3
  <2> QED BY <1>1, <2>1, <2>2, <2>3, <2>4 DEF WrittenGood
<1>7. CASE n.type # "timestamp"
  <2> PICK v : v = Append(w, n)
    OBVIOUS
  <2>1. WrittenOne(n, w) = v
    BY <1>7 DEF WrittenOne
  <2>2. /\ v \in Seq(Nd) /\ Len(v) = l + 1 /\ \A j \in 1 .. l : v[j] = w[j]
        /\ v[l + 1] = n
        /\ \A j \in 0 .. l : Acts(v, j) = Acts(w, j)
        /\ Acts(v, l + 1) = ActsOne(n, Acts(w, l))
    BY <1>1, <1>2, OneNode
  <2>3. Len(v) >= 1 /\ v[1] = s[1]
    BY <1>1, <1>3, <2>2
  <2>4. ASSUME NEW j \in 2 .. Len(v) PROVE v[j].type \notin Starts
    <3>1. (j \in 2 .. l /\ j \in 1 .. l) \/ j = l + 1
      BY <1>3, <2>2
    <3> QED BY <1>1, <1>2, <2>2, <3>1
  <2>5. ASSUME i < k
        PROVE  (\A j \in 1 .. Len(v) : v[j].type # "end") /\ Acts(v, Len(v)) = Acts(s, i)
    <3>1. h < k /\ n.type # "end"
      BY <1>3, <1>5, <2>5
    <3>2. \A j \in 1 .. Len(v) : j \in 1 .. l \/ j = l + 1
      BY <1>3, <2>2
    <3> QED BY <1>1, <1>4, <2>2, <3>1, <3>2
  <2>6. ASSUME i >= k PROVE \E m \in 1 .. Len(v) : EndsAt(v, m) /\ Acts(v, m) = Acts(s, k)
    <3>1. CASE h < k
      <4>1. i = k /\ n.type = "end"
        BY <1>5, <2>6, <3>1, <1>3
      <4>2. Acts(v, l + 1) = Acts(s, k)
        BY <1>1, <1>4, <2>2, <3>1, <4>1
      <4>3. l + 1 \in DOMAIN v /\ l + 1 \in 1 .. Len(v)
        BY <1>3, <2>2
      <4>4. \A j \in 1 .. (l + 1) - 1 : j \in 1 .. l
        BY <1>3
      <4>5. EndsAt(v, l + 1)
        BY <1>1, <2>2, <3>1, <4>1, <4>3, <4>4 DEF EndsAt
      <4> QED BY <4>2, <4>3, <4>5
    <3>2. CASE h >= k
      <4>1. PICK m \in 1 .. l : EndsAt(w, m) /\ Acts(w, m) = Acts(s, k)
        BY <1>1, <3>2
      <4>2. /\ m \in 1 .. Len(v) /\ m \in DOMAIN v /\ m \in 0 .. l
            /\ \A j \in 1 .. m - 1 : j \in 1 .. l
        BY <1>3, <2>2
      <4>3. EndsAt(v, m)
        BY <2>2, <4>1, <4>2 DEF EndsAt
      <4> QED BY <2>2, <4>1, <4>2, <4>3
    <3> QED BY <1>3, <3>1, <3>2
  <2> QED BY <2>1, <2>2, <2>3, <2>4, <2>5, <2>6 DEF WrittenGood
<1> QED BY <1>6, <1>7

\* A snapshot holds what the list held.
LEMMA WrittenHolds ==
  ASSUME NEW s, NEW e, Holds(s, e)
  PROVE  Holds(Written(s), e) /\ Written(s)[1] = s[1]
<1>1. s \in Seq(Nd) /\ Begins(s) /\ IsSeq(e)
  BY DEF Holds
<1>2. PICK k \in DOMAIN s : EndsAt(s, k) /\ Acts(s, k) = Got(e)
  BY DEF Holds
<1> PICK n : n = Len(s)
  OBVIOUS
<1>3. n \in Nat /\ DOMAIN s = 1 .. n /\ k \in 1 .. n /\ n >= 2
  BY <1>1 DEF Begins
<1>4. PICK f : WrittenUpTo(s, n, f) /\ Written(s) = f[n]
  BY <1>3, WrittenIs
<1>5. f[0] = <<>> /\ \A i \in 1 .. n : f[i] = WrittenOne(s[i], f[i - 1])
  BY <1>3, <1>4, WrittenUpToIs
<1>6. s[1].type # "end" /\ s[1].type # "timestamp" /\ s[1].type \notin InputTypes
      /\ s[1] \in Nd
  <2>1. 1 \in 1 .. n /\ s[1].type \in Starts
    BY <1>1, <1>3 DEF Begins
  <2>2. s[1] \in Nd
    BY <1>1, <2>1, ElementOfSeq
  <2>3. s[1].type # "end" /\ s[1].type # "timestamp" /\ s[1].type \notin InputTypes
    BY <2>1 DEF Starts, InputTypes
  <2> QED BY <2>2, <2>3
<1>7. k # 1
  BY <1>2, <1>6 DEF EndsAt
<1>8. WrittenGood(s, k, 1, f[1])
  <2> PICK z : z = <<>>
    OBVIOUS
  <2> PICK v : v = Append(z, s[1])
    OBVIOUS
  <2>1. 1 \in 1 .. n /\ 1 - 1 = 0 /\ 0 \in 0 .. 0 /\ 1 < k /\ ~ (1 >= k)
    BY <1>3, <1>7
  <2>2. f[1] = v
    BY <1>5, <1>6, <2>1 DEF WrittenOne
  <2>3. z \in Seq(Nd) /\ Len(z) = 0
    BY EmptySeq
  <2>4. /\ v \in Seq(Nd) /\ Len(v) = Len(z) + 1
        /\ v[Len(z) + 1] = s[1]
        /\ Acts(v, Len(z) + 1) = ActsOne(s[1], Acts(z, Len(z)))
    <3>1. z \in Seq(Nd) /\ s[1] \in Nd
      BY <1>6, <2>3
    <3>2. LET y == Append(z, s[1])
          IN /\ y \in Seq(Nd) /\ Len(z) \in Nat /\ Len(y) = Len(z) + 1
             /\ \A i \in 1 .. Len(z) : y[i] = z[i]
             /\ y[Len(z) + 1] = s[1]
             /\ \A j \in 0 .. Len(z) : Acts(y, j) = Acts(z, j)
             /\ Acts(y, Len(z) + 1) = ActsOne(s[1], Acts(z, Len(z)))
      BY <3>1, OneNode
    <3> QED BY <3>2
  <2>5. Acts(s, 1) = ActsOne(s[1], Acts(s, 0))
    BY <1>1, <1>3, <2>1, ActsStep
  <2>6. 0 + 1 = 1 /\ 1 .. 1 = {1} /\ 2 .. 1 = {} /\ 1 >= 1
    OBVIOUS
  <2>7. Acts(v, 1) = Acts(s, 1)
    BY <2>3, <2>4, <2>5, <2>6, ActsNone
  <2>8. WrittenGood(s, k, 1, v)
    BY <1>6, <2>1, <2>3, <2>4, <2>6, <2>7 DEF WrittenGood
  <2> QED BY <2>2, <2>8
<1> DEFINE T == {i \in Nat : i + 1 <= n => WrittenGood(s, k, i + 1, f[i + 1])}
<1>9. 0 \in T
  BY <1>8
<1>10. ASSUME NEW i \in Nat, i \in T PROVE i + 1 \in T
  <2> SUFFICES ASSUME (i + 1) + 1 <= n PROVE WrittenGood(s, k, (i + 1) + 1, f[(i + 1) + 1])
    OBVIOUS
  <2> PICK j : j = (i + 1) + 1
    OBVIOUS
  <2>1. j \in 2 .. n /\ j \in 1 .. n /\ j - 1 = i + 1 /\ i + 1 <= n
    BY <1>3
  <2>2. WrittenGood(s, k, j - 1, f[j - 1]) /\ f[j] = WrittenOne(s[j], f[j - 1])
    BY <1>5, <1>10, <2>1
  <2>3. WrittenGood(s, k, j, f[j])
    BY <1>1, <1>2, <1>3, <2>1, <2>2, WrittenNext
  <2> QED BY <2>3
<1>11. WrittenGood(s, k, n, f[n])
  <2> HIDE DEF T
  <2>1. n - 1 \in T
    BY <1>3, <1>9, <1>10, Induction
  <2>2. (n - 1) + 1 = n
    BY <1>3
  <2> QED BY <1>3, <2>1, <2>2 DEF T
<1> PICK w : w = f[n]
  OBVIOUS
<1>12. w \in Seq(Nd) /\ Len(w) >= 1 /\ w[1] = s[1] /\ \A j \in 2 .. Len(w) : w[j].type \notin Starts
  BY <1>11 DEF WrittenGood
<1>13. PICK m \in 1 .. Len(w) : EndsAt(w, m) /\ Acts(w, m) = Acts(s, k)
  <2>1. n >= k
    BY <1>3
  <2> QED BY <1>11, <2>1 DEF WrittenGood
<1>14. Len(w) >= 2
  <2>1. m # 1 /\ Len(w) \in Nat
    BY <1>6, <1>12, <1>13 DEF EndsAt
  <2> QED BY <2>1
<1>15. Begins(w)
  BY <1>1, <1>12, <1>14 DEF Begins
<1>16. m \in DOMAIN w
  BY <1>13 DEF EndsAt
<1> QED BY <1>1, <1>2, <1>4, <1>12, <1>13, <1>15, <1>16 DEF Holds

-----------------------------------------------------------------------------
(* What is read from a snapshot *)

\* What a division leaves.
LEMMA Division ==
  ASSUME NEW a \in Nat, NEW b \in Nat, b > 0
  PROVE  /\ a \div b \in Nat /\ (a \div b) * b \in Nat /\ (a \div b) * b <= a
         /\ a >= b => a \div b >= 1
<1> PICK q \in Int, r \in 0 .. b - 1 : q = a \div b /\ a = b * q + r
  OBVIOUS
<1>1. q >= 0
  OBVIOUS
<1>2. q * b = b * q /\ q * b >= 0
  BY <1>1
<1>3. a >= b => q >= 1
  OBVIOUS
<1> QED BY <1>1, <1>2, <1>3

LEMMA SubIs == Sub \in Nat /\ Sub <= GuardMax
<1> PICK g \in Nat, b \in Nat, f \in Nat : g = GuardMax /\ b = SubMin /\ f = Frame
  BY EventHistoryAssumption
<1>1. f > 0 /\ g >= b
  BY EventHistoryAssumption
<1>2. g - b \in Nat /\ g - b <= g
  BY <1>1
<1>3. ((g - b) \div f) * f \in Nat /\ ((g - b) \div f) * f <= g - b
  BY <1>1, <1>2, Division
<1>4. Sub = ((g - b) \div f) * f
  BY DEF Sub
<1> PICK x : x = ((g - b) \div f) * f
  OBVIOUS
<1> QED BY <1>2, <1>3, <1>4

LEMMA MissingIs ==
  ASSUME NEW next \in Int, NEW until \in Int
  PROVE  Missing(next, until) \in Nat /\ (next < until => Missing(next, until) >= 1)
<1> PICK s \in Nat : s = Second /\ s > 0
  BY EventHistoryAssumption
<1>1. CASE next < until
  <2>1. until - next + s - 1 \in Nat /\ until - next + s - 1 >= s
    BY <1>1
  <2> PICK a : a = until - next + s - 1
    OBVIOUS
  <2>2. a \div s \in Nat /\ a \div s >= 1
    BY <2>1, Division
  <2>3. Missing(next, until) = a \div s
    BY <1>1 DEF Missing
  <2> QED BY <2>2, <2>3
<1>2. CASE ~ (next < until)
  BY <1>2 DEF Missing
<1> QED BY <1>1, <1>2

\* The first end of a list that ends.
LEMMA FirstEndIs ==
  ASSUME NEW s \in Seq(Nd), NEW k, EndsAt(s, k)
  PROVE  FirstEnd(s) = k /\ k \in 1 .. Len(s)
<1> DEFINE P(i) == s[i].type = "end" /\ \A j \in 1 .. i - 1 : s[j].type # "end"
<1>1. DOMAIN s = 1 .. Len(s) /\ Len(s) \in Nat /\ k \in 1 .. Len(s) /\ P(k)
  BY DEF EndsAt
<1>2. \A i \in DOMAIN s : P(i) => i = k
  <2> SUFFICES ASSUME NEW i \in 1 .. Len(s), P(i), i # k PROVE FALSE
    BY <1>1
  <2>1. i \in 1 .. k - 1 \/ k \in 1 .. i - 1
    BY <1>1
  <2> QED BY <1>1, <2>1
<1>3. (CHOOSE i \in DOMAIN s : P(i)) = k
  <2> HIDE DEF P
  <2> QED BY <1>1, <1>2
<1> QED BY <1>1, <1>3 DEF FirstEnd

\* The timestamps that are put in before a node.
Stamped(next, missing) ==
  [i \in 1 .. missing |-> Node("timestamp", next + (i - 1) * Second, {})]
Until(n) == IF n.type = "overflow" /\ n.clk < GuardMax THEN GuardMax ELSE n.clk
Back(n) == CASE n.type = "overflow" -> Sub [] n.type = "reset" -> n.clk [] OTHER -> 0

LEMMA StampedIs ==
  ASSUME NEW next \in Int, NEW m \in Nat
  PROVE  /\ Stamped(next, m) \in Seq(Nd) /\ Len(Stamped(next, m)) = m
         /\ \A i \in 1 .. m : Stamped(next, m)[i].type = "timestamp"
<1> DEFINE F(i) == Node("timestamp", next + (i - 1) * Second, {})
<1>1. ASSUME NEW i \in 1 .. m PROVE F(i) \in Nd /\ F(i).type = "timestamp"
  <2> PICK t : t = next + (i - 1) * Second
    OBVIOUS
  <2>1. t \in Int
    BY EventHistoryAssumption
  <2>2. Node("timestamp", t, {}) \in Nd /\ Node("timestamp", t, {}).type = "timestamp"
    BY <2>1 DEF Node, Nd, NodeTypes
  <2> QED BY <2>2
<1> HIDE DEF F
<1> DEFINE s == [i \in 1 .. m |-> F(i)]
<1>2. s \in Seq(Nd) /\ Len(s) = m /\ \A i \in 1 .. m : s[i] = F(i)
  BY <1>1
<1>3. Stamped(next, m) = s
  BY DEF Stamped, F
<1> HIDE DEF s
<1> QED BY <1>1, <1>2, <1>3

\* What is read up to a node has the same actions; an ordinary node is the last one then.
ReadGood(out, next, n, t) ==
  /\ t \in Seq(Nd) /\ Len(t) > Len(out)
  /\ \A i \in 1 .. Len(out) : t[i] = out[i]
  /\ \A i \in Len(out) + 1 .. Len(t) - 1 : t[i].type = "timestamp"
  /\ t[Len(t)] = n
  /\ Acts(t, Len(t)) = ActsOne(n, Acts(out, Len(out)))
  /\ next < n.clk => Len(t) >= Len(out) + 2

LEMMA ReadStamped ==
  ASSUME NEW out \in Seq(Nd), NEW st \in Seq(Nd), NEW n \in Nd, NEW next \in Int,
         \A i \in 1 .. Len(st) : st[i].type = "timestamp", next < n.clk => Len(st) >= 1
  PROVE  ReadGood(out, next, n, out \o st \o <<n>>)
<1> PICK l \in Nat, m \in Nat, h \in Nat : l = Len(out) /\ m = Len(st) /\ h = l + m
  OBVIOUS
<1> PICK x : x = out \o st
  OBVIOUS
<1> PICK y : y = Append(x, n)
  OBVIOUS
<1>1. /\ x \in Seq(Nd) /\ Len(x) = Len(out) + Len(st)
      /\ \A i \in 1 .. Len(out) + Len(st) : x[i] = IF i <= Len(out) THEN out[i] ELSE st[i - Len(out)]
  BY ConcatProperties
<1>2. /\ Len(x) = h
      /\ \A i \in 1 .. h : x[i] = IF i <= l THEN out[i] ELSE st[i - l]
  BY <1>1
<1>3. out \o st \o <<n>> = y
  BY <1>1, AppendIsConcat
<1>4. /\ y \in Seq(Nd) /\ Len(y) = h + 1
      /\ \A i \in 1 .. h : y[i] = x[i]
      /\ y[h + 1] = n
      /\ Acts(y, h + 1) = ActsOne(n, Acts(x, h))
  <2>1. /\ y \in Seq(Nd) /\ Len(y) = Len(x) + 1
        /\ \A i \in 1 .. Len(x) : y[i] = x[i]
        /\ y[Len(x) + 1] = n
        /\ Acts(y, Len(x) + 1) = ActsOne(n, Acts(x, Len(x)))
    BY <1>1, OneNode
  <2>2. Len(x) = h
    BY <1>2
  <2> QED BY <2>1, <2>2
<1>5. \A i \in 1 .. l : i \in 1 .. h /\ i <= l
  OBVIOUS
<1>6. \A i \in l + 1 .. h : i \in 1 .. h /\ ~ (i <= l) /\ i - l \in 1 .. m
  OBVIOUS
<1>7. \A i \in 1 .. l : x[i] = out[i]
  BY <1>2, <1>5
<1>8. \A i \in l + 1 .. h : x[i].type = "timestamp"
  BY <1>2, <1>6
<1>9. Acts(x, h) = Acts(out, l)
  <2>1. l <= h /\ h <= Len(x) /\ l <= Len(x) /\ l <= Len(out)
    BY <1>2
  <2>2. \A i \in l + 1 .. h : x[i].type \notin InputTypes
    BY <1>8 DEF InputTypes
  <2>3. Acts(x, h) = Acts(x, l)
    BY <1>1, <2>1, <2>2, ActsQuiet
  <2>4. Acts(x, l) = Acts(out, l)
    BY <1>1, <1>7, <2>1, ActsSame
  <2> QED BY <2>3, <2>4
<1>10. h + 1 > l /\ h + 1 \in Nat /\ (h + 1) - 1 = h
  OBVIOUS
<1>11. next < n.clk => h + 1 >= l + 2
  <2> SUFFICES ASSUME next < n.clk PROVE h + 1 >= l + 2
    OBVIOUS
  <2>1. m >= 1
    OBVIOUS
  <2> QED BY <2>1
<1>12. \A i \in 1 .. l : y[i] = out[i]
  BY <1>4, <1>5, <1>7
<1>13. \A i \in l + 1 .. h : y[i].type = "timestamp"
  BY <1>4, <1>6, <1>8
<1>14. ReadGood(out, next, n, y)
  BY <1>4, <1>9, <1>10, <1>11, <1>12, <1>13 DEF ReadGood
<1> QED BY <1>3, <1>14

LEMMA ReadNodeIs ==
  ASSUME NEW out \in Seq(Nd), NEW next \in Int, NEW n \in Nd, n.type \notin Starts
  PROVE  \E t : \E z \in Int :
           /\ ReadNode([out |-> out, next |-> next], n) = [out |-> t, next |-> z]
           /\ ReadGood(out, next, n, t)
<1> PICK s \in Nat : s = Second
  BY EventHistoryAssumption
<1> PICK u \in Int : u = Until(n)
  BY EventHistoryAssumption DEF Until, Nd
<1>1. next < n.clk => next < u
  BY EventHistoryAssumption DEF Until, Nd
<1> PICK m \in Nat : m = Missing(next, u) /\ (next < u => m >= 1)
  BY MissingIs
<1> PICK st : st = Stamped(next, m)
  OBVIOUS
<1>2. st \in Seq(Nd) /\ Len(st) = m /\ \A i \in 1 .. m : st[i].type = "timestamp"
  BY StampedIs
<1> PICK b \in Int : b = Back(n)
  BY SubIs DEF Back, Nd
<1> PICK z \in Int : z = next + m * s - b
  OBVIOUS
<1> PICK y : y = out \o st \o <<n>>
  OBVIOUS
<1>3. ReadNode([out |-> out, next |-> next], n) = [out |-> y, next |-> z]
  BY DEF ReadNode, Starts, Stamped, Until, Back
<1>4. next < n.clk => Len(st) >= 1
  BY <1>1, <1>2
<1>5. ReadGood(out, next, n, y)
  BY <1>2, <1>4, ReadStamped
<1> QED BY <1>3, <1>5

\* The function that WithTimestamps chooses.
ReadUpTo(s, m, f) ==
  f = [i \in 0 .. m |->
         IF i = 0 THEN [out |-> <<>>, next |-> 0] ELSE ReadNode(f[i - 1], s[i])]

LEMMA ReadUpToIs ==
  ASSUME NEW s, NEW m \in Nat, NEW f, ReadUpTo(s, m, f)
  PROVE  f[0] = [out |-> <<>>, next |-> 0] /\ \A i \in 1 .. m : f[i] = ReadNode(f[i - 1], s[i])
<1> DEFINE F == [i \in 0 .. m |->
         IF i = 0 THEN [out |-> <<>>, next |-> 0] ELSE ReadNode(f[i - 1], s[i])]
<1>1. f = F
  BY DEF ReadUpTo
<1>2. F[0] = [out |-> <<>>, next |-> 0] /\ \A i \in 1 .. m : F[i] = ReadNode(f[i - 1], s[i])
  OBVIOUS
<1> HIDE DEF F
<1> QED BY <1>1, <1>2

LEMMA ReadUpToExists ==
  ASSUME NEW s, NEW m \in Nat
  PROVE  \E f : ReadUpTo(s, m, f)
<1> DEFINE T == {n \in Nat : \E f : ReadUpTo(s, n, f)}
<1> PICK z : z = [out |-> <<>>, next |-> 0]
  OBVIOUS
<1>1. 0 \in T
  <2>1. ReadUpTo(s, 0, [i \in 0 .. 0 |-> z])
    BY DEF ReadUpTo
  <2> QED BY <2>1
<1>2. ASSUME NEW n \in Nat, n \in T PROVE n + 1 \in T
  <2>1. PICK f : ReadUpTo(s, n, f)
    BY <1>2
  <2> DEFINE g == [i \in 0 .. n + 1 |-> IF i = n + 1 THEN ReadNode(f[n], s[i]) ELSE f[i]]
  <2>2. f[0] = z /\ \A i \in 1 .. n : f[i] = ReadNode(f[i - 1], s[i])
    BY <2>1, ReadUpToIs
  <2>3. \A i \in 0 .. n + 1 : i = 0 \/ i \in 1 .. n \/ i = n + 1
    OBVIOUS
  <2>4. \A i \in 1 .. n : i - 1 \in 0 .. n /\ i - 1 # n + 1 /\ i # 0 /\ i # n + 1
    OBVIOUS
  <2>5. (n + 1) - 1 = n /\ n # n + 1 /\ n \in 0 .. n + 1 /\ 0 # n + 1
    OBVIOUS
  <2>6. \A i \in 0 .. n + 1 : g[i] = IF i = 0 THEN z ELSE ReadNode(g[i - 1], s[i])
    BY <2>2, <2>3, <2>4, <2>5
  <2>7. g = [i \in 0 .. n + 1 |-> IF i = 0 THEN z ELSE ReadNode(g[i - 1], s[i])]
    <3>1. g = [i \in 0 .. n + 1 |-> g[i]]
      OBVIOUS
    <3> HIDE DEF g
    <3> QED BY <2>6, <3>1
  <2> HIDE DEF g
  <2>8. ReadUpTo(s, n + 1, g)
    BY <2>7 DEF ReadUpTo
  <2> QED BY <2>8
<1> HIDE DEF T
<1>3. m \in T
  BY <1>1, <1>2, Induction
<1> QED BY <1>3 DEF T

LEMMA ReadIs ==
  ASSUME NEW s \in Seq(Nd), NEW k \in Nat, EndsAt(s, k)
  PROVE  \E f : ReadUpTo(s, k, f) /\ WithTimestamps(s) = f[k]
<1> DEFINE H == CHOOSE f : ReadUpTo(s, k, f)
<1>1. ReadUpTo(s, k, H)
  BY ReadUpToExists, Zenon
<1>2. FirstEnd(s) = k
  BY FirstEndIs
<1>3. WithTimestamps(s) = H[k]
  BY <1>2 DEF WithTimestamps, ReadUpTo
<1> HIDE DEF H
<1> QED BY <1>1, <1>3

\* What is read of the first i nodes of a list that ends at k: t, and the next timestamp z.
ReadSoFar(s, k, i, t, z) ==
  /\ t \in Seq(Nd) /\ z \in Int /\ Len(t) >= i /\ t[1] = s[1]
  /\ \A j \in 2 .. Len(t) : t[j].type \notin Starts
  /\ Acts(t, Len(t)) = Acts(s, i)
  /\ \A j \in 1 .. Len(t) - 1 : t[j].type # "end"
  /\ i = k <=> t[Len(t)].type = "end"
  /\ s[1].type = "initial reset" =>
       /\ i = 1 => z = 0 /\ Len(t) = 1
       /\ i > 1 => t[2].type # "reset"

LEMMA ReadNext ==
  ASSUME NEW s \in Seq(Nd), Begins(s), NEW k \in 1 .. Len(s), EndsAt(s, k),
         NEW i \in 2 .. k, NEW t, NEW z, ReadSoFar(s, k, i - 1, t, z)
  PROVE  \E u : \E y : /\ ReadNode([out |-> t, next |-> z], s[i]) = [out |-> u, next |-> y]
                       /\ ReadSoFar(s, k, i, u, y)
<1> PICK n : n = s[i]
  OBVIOUS
<1>a. i \in Nat /\ k \in Nat /\ Len(s) \in Nat /\ 2 <= i /\ i <= k /\ k <= Len(s)
  OBVIOUS
<1> PICK h \in Nat : h = i - 1
  BY <1>a
<1>b. t \in Seq(Nd)
  BY DEF ReadSoFar
<1> PICK l \in Nat : l = Len(t)
  BY <1>b
<1>1. /\ t \in Seq(Nd) /\ z \in Int /\ l >= h /\ t[1] = s[1]
      /\ \A j \in 2 .. l : t[j].type \notin Starts
      /\ Acts(t, l) = Acts(s, h)
      /\ \A j \in 1 .. l - 1 : t[j].type # "end"
      /\ h = k <=> t[l].type = "end"
      /\ s[1].type = "initial reset" =>
           /\ h = 1 => z = 0 /\ l = 1
           /\ h > 1 => t[2].type # "reset"
  BY DEF ReadSoFar
<1>2. /\ h \in Nat /\ l \in Nat /\ k \in Nat /\ i \in Nat /\ i = h + 1 /\ i \in 1 .. Len(s)
      /\ h >= 1 /\ h # k /\ i \in 2 .. Len(s) /\ l >= 1
  <2>1. l >= h
    BY <1>1
  <2> QED BY <1>a, <2>1
<1>3. n \in Nd /\ n.type \notin Starts
  BY <1>2, ElementOfSeq DEF Begins
<1>4. PICK u : \E y \in Int :
        /\ ReadNode([out |-> t, next |-> z], n) = [out |-> u, next |-> y]
        /\ ReadGood(t, z, n, u)
  BY <1>1, <1>3, ReadNodeIs
<1>5. PICK y \in Int : ReadNode([out |-> t, next |-> z], n) = [out |-> u, next |-> y]
                       /\ ReadGood(t, z, n, u)
  BY <1>4
<1>6. /\ u \in Seq(Nd) /\ Len(u) > l
      /\ \A j \in 1 .. l : u[j] = t[j]
      /\ \A j \in l + 1 .. Len(u) - 1 : u[j].type = "timestamp"
      /\ u[Len(u)] = n
      /\ Acts(u, Len(u)) = ActsOne(n, Acts(t, l))
      /\ z < n.clk => Len(u) >= l + 2
  BY <1>5 DEF ReadGood
<1> PICK m \in Nat : m = Len(u)
  BY <1>6
<1>7. Acts(u, m) = Acts(s, i)
  <2>1. Acts(s, i) = ActsOne(s[i], Acts(s, i - 1))
    BY <1>2, ActsStep
  <2> QED BY <1>1, <1>6, <2>1
<1>8. m >= i /\ u[1] = s[1]
  <2>1. m > l /\ l >= h
    BY <1>1, <1>6
  <2>2. m >= i /\ 1 \in 1 .. l
    BY <1>2, <2>1
  <2> QED BY <1>1, <1>6, <2>2
<1>9. ASSUME NEW j \in 1 .. m - 1 PROVE u[j].type # "end" /\ (j # 1 => u[j].type \notin Starts)
  <2>1. CASE j \in 1 .. l
    <3>1. j = l \/ j \in 1 .. l - 1
      BY <1>2, <2>1
    <3>2. j = 1 \/ j \in 2 .. l
      BY <1>2, <2>1
    <3> QED BY <1>1, <1>2, <1>6, <2>1, <3>1, <3>2
  <2>2. CASE j \in l + 1 .. m - 1
    BY <1>6, <2>2 DEF Starts
  <2> QED BY <1>2, <2>1, <2>2
<1>10. ASSUME NEW j \in 2 .. m PROVE u[j].type \notin Starts
  <2>1. (j \in 1 .. m - 1 /\ j # 1) \/ j = m
    OBVIOUS
  <2> QED BY <1>3, <1>6, <1>9, <2>1
<1>11. i = k <=> n.type = "end"
  <2>1. i # k => i \in 1 .. k - 1
    BY <1>2
  <2> QED BY <2>1 DEF EndsAt
<1>12. s[1].type = "initial reset" => u[2].type # "reset"
  <2>a. m > l /\ l >= h
    BY <1>1, <1>6
  <2>b. m >= 3 /\ l = 1 => 2 \in l + 1 .. m - 1
    OBVIOUS
  <2>c. m < 3 /\ l = 1 => m = 2 /\ ~ (m >= l + 2)
    BY <2>a
  <2>d. h > 1 => 2 \in 1 .. l
    BY <2>a
  <2>e. (h = 1 \/ h > 1) /\ (m < 3 \/ m >= 3)
    BY <1>2
  <2> SUFFICES ASSUME s[1].type = "initial reset" PROVE u[2].type # "reset"
    OBVIOUS
  <2>1. CASE h = 1
    <3>1. z = 0 /\ l = 1
      BY <1>1, <2>1
    <3>2. CASE m >= 3
      BY <1>6, <2>b, <3>1, <3>2
    <3>3. CASE m < 3
      <4>1. m = 2 /\ ~ (m >= l + 2)
        BY <2>c, <3>1, <3>3
      <4>2. u[2] = n /\ ~ (z < n.clk)
        BY <1>6, <4>1
      <4> QED BY <1>3, <3>1, <4>2 DEF Nd
    <3> QED BY <2>e, <3>2, <3>3
  <2>2. CASE h > 1
    BY <1>1, <1>6, <2>d, <2>2
  <2> QED BY <2>e, <2>1, <2>2
<1>13. i # 1 /\ i > 1
  BY <1>2
<1>14. ReadSoFar(s, k, i, u, y)
  BY <1>6, <1>7, <1>8, <1>9, <1>10, <1>11, <1>12, <1>13 DEF ReadSoFar
<1> QED BY <1>5, <1>14

\* The next timestamp after the node that a session begins with.
NextAfter(n) == IF n.type = "initial reset" THEN 0 ELSE n.clk

LEMMA ReadFirst ==
  ASSUME NEW s \in Seq(Nd), Begins(s), NEW k \in 2 .. Len(s)
  PROVE  \E t : \E z : /\ ReadNode([out |-> <<>>, next |-> 0], s[1]) = [out |-> t, next |-> z]
                       /\ ReadSoFar(s, k, 1, t, z)
<1> PICK n, e : n = s[1] /\ e = <<>>
  OBVIOUS
<1>1. 1 \in 1 .. Len(s) /\ 1 - 1 = 0 /\ k # 1 /\ 0 \in Int
  OBVIOUS
<1>2. n \in Nd /\ n.type \in Starts
  BY <1>1, ElementOfSeq DEF Begins
<1>3. n.type # "end" /\ n.type \notin InputTypes
  BY <1>2 DEF Starts, InputTypes
<1> PICK t : t = Append(e, n)
  OBVIOUS
<1>z. n.clk \in Int
  BY <1>2 DEF Nd
<1>y. NextAfter(n) \in Int
  BY <1>1, <1>z, Zenon DEF NextAfter
<1> PICK z \in Int : z = NextAfter(n)
  BY <1>y
<1>4. ReadNode([out |-> e, next |-> 0], n) = [out |-> t, next |-> z]
  BY <1>2 DEF ReadNode, Starts, NextAfter
<1>5. e \in Seq(Nd) /\ Len(e) = 0
  BY EmptySeq
<1>6. /\ t \in Seq(Nd) /\ Len(t) = Len(e) + 1
      /\ t[Len(e) + 1] = n
      /\ Acts(t, Len(e) + 1) = ActsOne(n, Acts(e, Len(e)))
  BY <1>2, <1>5, OneNode
<1>7. Len(t) = 1 /\ t[1] = n /\ Acts(t, 1) = ActsOne(n, Acts(e, 0))
  <2>1. 0 + 1 = 1
    OBVIOUS
  <2> QED BY <1>5, <1>6, <2>1
<1>8. Acts(s, 1) = ActsOne(s[1], Acts(s, 1 - 1))
  BY <1>1, ActsStep
<1>9. Acts(t, 1) = Acts(s, 1)
  BY <1>1, <1>7, <1>8, ActsNone
<1>10. Len(t) >= 1 /\ 2 .. Len(t) = {} /\ 1 .. Len(t) - 1 = {} /\ ~ (1 > 1)
  <2>1. 1 >= 1 /\ 2 .. 1 = {} /\ 1 .. 1 - 1 = {} /\ ~ (1 > 1)
    OBVIOUS
  <2> QED BY <1>7, <2>1
<1>11. n.type = "initial reset" => z = 0
  BY DEF NextAfter
<1>12. ReadSoFar(s, k, 1, t, z)
  BY <1>1, <1>3, <1>6, <1>7, <1>9, <1>10, <1>11 DEF ReadSoFar
<1> QED BY <1>4, <1>12

\* What is read holds what the snapshot held, and its last node is its first end; the first
\* timestamp comes before a reset.
ReadsAs(t, s, e) ==
  /\ t \in Seq(Nd) /\ Begins(t) /\ IsSeq(e) /\ EndsAt(t, Len(t))
  /\ Acts(t, Len(t)) = Got(e) /\ t[1] = s[1]
  /\ t[1].type = "initial reset" => t[2].type # "reset"

LEMMA ReadHolds ==
  ASSUME NEW s, NEW e, Holds(s, e)
  PROVE  ReadsAs(WithTimestamps(s).out, s, e)
<1>1. s \in Seq(Nd) /\ Begins(s) /\ IsSeq(e)
  BY DEF Holds
<1>2. PICK k \in DOMAIN s : EndsAt(s, k) /\ Acts(s, k) = Got(e)
  BY DEF Holds
<1> PICK n \in Nat : n = Len(s)
  BY <1>1
<1>3. n >= 2 /\ s[1].type \in Starts
  BY DEF Holds, Begins
<1>4. k \in 1 .. n /\ k # 1
  <2>1. s[1].type # "end"
    BY <1>3 DEF Starts
  <2> QED BY <1>1, <1>2, <2>1 DEF EndsAt
<1>5. k \in Nat /\ k >= 2 /\ k \in 2 .. n
  BY <1>4
<1>6. PICK f : ReadUpTo(s, k, f) /\ WithTimestamps(s) = f[k]
  BY <1>1, <1>2, <1>5, ReadIs
<1>7. f[0] = [out |-> <<>>, next |-> 0] /\ \A i \in 1 .. k : f[i] = ReadNode(f[i - 1], s[i])
  BY <1>5, <1>6, ReadUpToIs
<1> DEFINE G(i) == \E t : \E z : f[i] = [out |-> t, next |-> z] /\ ReadSoFar(s, k, i, t, z)
           T == {i \in Nat : i + 1 <= k => G(i + 1)}
<1>8. 0 \in T
  <2>1. 1 \in 1 .. k /\ 1 - 1 = 0 /\ 0 + 1 = 1
    BY <1>5
  <2>2. f[1] = ReadNode([out |-> <<>>, next |-> 0], s[1])
    BY <1>7, <2>1
  <2>3. G(1)
    BY <1>1, <1>5, <2>2, ReadFirst
  <2> QED BY <2>1, <2>3
<1>9. ASSUME NEW i \in Nat, i \in T PROVE i + 1 \in T
  <2>0. i + 1 \in Nat
    OBVIOUS
  <2> SUFFICES ASSUME (i + 1) + 1 <= k PROVE G((i + 1) + 1)
    <3> HIDE DEF G
    <3> QED BY <2>0
  <2> PICK j : j = (i + 1) + 1
    OBVIOUS
  <2>1. j \in 2 .. k /\ j \in 1 .. k /\ j - 1 = i + 1 /\ i + 1 <= k
    BY <1>5
  <2>2. PICK t, z : f[j - 1] = [out |-> t, next |-> z] /\ ReadSoFar(s, k, j - 1, t, z)
    BY <1>9, <2>1
  <2>3. f[j] = ReadNode([out |-> t, next |-> z], s[j])
    BY <1>7, <2>1, <2>2
  <2>4. \E u : \E y : /\ ReadNode([out |-> t, next |-> z], s[j]) = [out |-> u, next |-> y]
                      /\ ReadSoFar(s, k, j, u, y)
    BY <1>1, <1>2, <1>4, <2>1, <2>2, ReadNext
  <2>5. G(j)
    BY <2>3, <2>4
  <2> QED BY <2>5
<1>10. G(k)
  <2> HIDE DEF G
  <2>1. k - 1 \in Nat /\ (k - 1) + 1 = k
    BY <1>5
  <2>2. T \in SUBSET Nat
    OBVIOUS
  <2>3. k - 1 \in T
    <3> HIDE DEF T
    <3> QED BY <1>8, <1>9, <2>1, Induction
  <2> QED BY <1>5, <2>1, <2>3
<1>11. PICK t, z : f[k] = [out |-> t, next |-> z] /\ ReadSoFar(s, k, k, t, z)
  BY <1>10
<1>12. WithTimestamps(s).out = t
  <2>1. [out |-> t, next |-> z].out = t
    OBVIOUS
  <2> QED BY <1>6, <1>11, <2>1
<1>13. /\ t \in Seq(Nd) /\ Len(t) >= k /\ t[1] = s[1]
       /\ \A j \in 2 .. Len(t) : t[j].type \notin Starts
       /\ Acts(t, Len(t)) = Acts(s, k)
       /\ \A j \in 1 .. Len(t) - 1 : t[j].type # "end"
       /\ t[Len(t)].type = "end"
       /\ s[1].type = "initial reset" => (k > 1 => t[2].type # "reset")
  BY <1>11 DEF ReadSoFar
<1>14. Len(t) >= 2 /\ k > 1 /\ Len(t) \in DOMAIN t
  <2>0. t \in Seq(Nd)
    BY <1>13
  <2> PICK m \in Nat : m = Len(t)
    BY <2>0
  <2>1. m >= k
    BY <1>13
  <2>2. m >= 2 /\ k > 1 /\ m \in 1 .. m
    BY <1>5, <2>1
  <2> QED BY <2>0, <2>2
<1>15. Begins(t) /\ EndsAt(t, Len(t))
  BY <1>3, <1>13, <1>14 DEF Begins, EndsAt
<1>16. ReadsAs(t, s, e)
  BY <1>1, <1>2, <1>13, <1>14, <1>15 DEF ReadsAs
<1> QED BY <1>12, <1>16

-----------------------------------------------------------------------------
(* Recording, cutting and stopping *)

LEMMA NodeIs ==
  ASSUME NEW type \in NodeTypes, NEW at \in Int, NEW data \in SUBSET Lines,
         type = "reset" => at > 0
  PROVE  Node(type, at, data) \in Nd /\ Node(type, at, data).type = type
         /\ Node(type, at, data).data = data
BY DEF Node, Nd

LEMMA ReplacedAt ==
  ASSUME NEW s \in Seq(Nd), NEW i \in 1 .. Len(s), NEW n \in Nd
  PROVE  /\ ReplaceAt(s, i, n) \in Seq(Nd) /\ Len(ReplaceAt(s, i, n)) = Len(s)
         /\ ReplaceAt(s, i, n)[i] = n
         /\ \A j \in 1 .. Len(s) : j # i => ReplaceAt(s, i, n)[j] = s[j]
<1>1. ReplaceAt(s, i, n) = [s EXCEPT ![i] = n]
  BY DEF ReplaceAt
<1> QED BY <1>1, ExceptSeq

\* A node is recorded: t is s with the node in the place of its last one, an end, and
\* another end behind it.
Grown(s, n, t) ==
  /\ t \in Seq(Nd) /\ Len(s) \in Nat /\ Len(t) = Len(s) + 1
  /\ \A i \in 1 .. Len(s) - 1 : t[i] = s[i]
  /\ t[Len(s)] = n /\ t[Len(s) + 1].type = "end"
  /\ \A k \in 0 .. Len(s) - 1 : Acts(t, k) = Acts(s, k)
  /\ Acts(t, Len(s)) = ActsOne(n, Acts(s, Len(s)))
  /\ Acts(t, Len(s) + 1) = ActsOne(n, Acts(s, Len(s)))

LEMMA InListGrows ==
  ASSUME NEW s \in Seq(Nd), NEW n \in Nd, Len(s) >= 1, s[Len(s)].type = "end"
  PROVE  Grown(s, n, InList(s, Len(s), n))
<1> PICK m \in Nat : m = Len(s)
  OBVIOUS
<1>1. m \in 1 .. m /\ m >= 1 /\ m - 1 \in Nat /\ m \in Int
  OBVIOUS
<1> PICK r : r = ReplaceAt(s, m, n)
  OBVIOUS
<1>2. /\ r \in Seq(Nd) /\ Len(r) = m
      /\ \A i \in 1 .. m - 1 : r[i] = s[i]
      /\ r[m] = n
  <2>1. /\ r \in Seq(Nd) /\ Len(r) = m /\ r[m] = n
        /\ \A j \in 1 .. m : j # m => r[j] = s[j]
    BY <1>1, ReplacedAt
  <2>2. \A i \in 1 .. m - 1 : i \in 1 .. m /\ i # m
    OBVIOUS
  <2> QED BY <1>1, <2>1, <2>2
<1> PICK d : d = EndNode
  OBVIOUS
<1>3. d \in Nd /\ d.type = "end" /\ d.type \notin InputTypes
  <2>1. "end" \in NodeTypes /\ "end" # "reset" /\ "end" \notin InputTypes
    BY DEF NodeTypes, InputTypes
  <2>2. 0 \in Int /\ {} \in SUBSET Lines
    OBVIOUS
  <2>3. d = Node("end", 0, {})
    BY DEF EndNode
  <2> QED BY <2>1, <2>2, <2>3, NodeIs
<1> PICK t : t = Append(r, d)
  OBVIOUS
<1>4. InList(s, m, n) = t
  <2>1. r \o <<d>> = t
    BY <1>2, AppendIsConcat
  <2> QED BY <2>1 DEF InList
<1>5. /\ t \in Seq(Nd) /\ Len(t) = Len(r) + 1
      /\ \A i \in 1 .. Len(r) : t[i] = r[i]
      /\ t[Len(r) + 1] = d
      /\ \A k \in 0 .. Len(r) : Acts(t, k) = Acts(r, k)
      /\ Acts(t, Len(r) + 1) = ActsOne(d, Acts(r, Len(r)))
  <2>1. r \in Seq(Nd) /\ d \in Nd
    BY <1>2, <1>3
  <2> QED BY <2>1, OneNode
<1>6. \A k \in 0 .. m - 1 : Acts(r, k) = Acts(s, k)
  <2>1. \A k \in 0 .. m - 1 : k \in Nat /\ k <= m /\ \A i \in 1 .. k : i \in 1 .. m - 1
    OBVIOUS
  <2> SUFFICES ASSUME NEW k \in 0 .. m - 1 PROVE Acts(r, k) = Acts(s, k)
    OBVIOUS
  <2>2. k \in Nat /\ k <= Len(s) /\ k <= Len(r) /\ \A i \in 1 .. k : r[i] = s[i]
    BY <1>2, <2>1
  <2> QED BY <1>2, <2>2, ActsSame
<1>7. Acts(s, m) = Acts(s, m - 1)
  <2>1. Acts(s, m) = ActsOne(s[m], Acts(s, m - 1))
    BY <1>1, ActsStep
  <2> QED BY <2>1 DEF ActsOne, InputTypes
<1>8. Acts(r, m) = ActsOne(n, Acts(s, m))
  <2>1. Acts(r, m) = ActsOne(r[m], Acts(r, m - 1))
    BY <1>1, <1>2, ActsStep
  <2>2. m - 1 \in 0 .. m - 1
    BY <1>1
  <2> QED BY <1>2, <1>6, <1>7, <2>1, <2>2
<1>9. /\ \A i \in 1 .. m - 1 : i \in 1 .. m
      /\ \A k \in 0 .. m - 1 : k \in 0 .. m
      /\ m \in 0 .. m
  OBVIOUS
<1>10. Len(t) = m + 1 /\ (\A i \in 1 .. m - 1 : t[i] = s[i]) /\ t[m] = n /\ t[m + 1] = d
  BY <1>1, <1>2, <1>5, <1>9
<1>11. \A k \in 0 .. m - 1 : Acts(t, k) = Acts(s, k)
  BY <1>2, <1>5, <1>6, <1>9
<1>12. Acts(t, m) = ActsOne(n, Acts(s, m))
  BY <1>2, <1>5, <1>8, <1>9
<1>13. Acts(t, m + 1) = ActsOne(n, Acts(s, m))
  BY <1>2, <1>3, <1>5, <1>8 DEF ActsOne
<1>14. Grown(s, n, t)
  BY <1>3, <1>5, <1>10, <1>11, <1>12, <1>13 DEF Grown
<1> QED BY <1>4, <1>14

\* A list that begins, grows to one that does.
LEMMA GrownBegins ==
  ASSUME NEW s \in Seq(Nd), NEW n, NEW t, Grown(s, n, t), Begins(s), n.type \notin Starts
  PROVE  Begins(t) /\ t[1] = s[1]
<1> PICK m \in Nat : m = Len(s)
  OBVIOUS
<1>1. /\ t \in Seq(Nd) /\ Len(t) = m + 1
      /\ \A i \in 1 .. m - 1 : t[i] = s[i]
      /\ t[m] = n /\ t[m + 1].type = "end"
  BY DEF Grown
<1>2. m >= 2 /\ s[1].type \in Starts /\ \A i \in 2 .. m : s[i].type \notin Starts
  BY DEF Begins
<1>3. m + 1 >= 2 /\ 1 \in 1 .. m - 1
  BY <1>2
<1>4. \A i \in 2 .. m + 1 : (i \in 1 .. m - 1 /\ i \in 2 .. m) \/ i = m \/ i = m + 1
  BY <1>2
<1>5. \A i \in 2 .. m + 1 : t[i].type \notin Starts
  BY <1>1, <1>2, <1>4 DEF Starts
<1> QED BY <1>1, <1>2, <1>3, <1>5 DEF Begins

\* The first end of a list is where it is.
LEMMA EndIsOne ==
  ASSUME NEW s \in Seq(Nd), NEW j, NEW k, EndsAt(s, j), EndsAt(s, k)
  PROVE  j = k
BY FirstEndIs

\* An input, or a node that is none, is recorded at the end of a list that ends there.
LEMMA GrownHolds ==
  ASSUME NEW s, NEW e, Holds(s, e), EndsAt(s, Len(s)), NEW n, NEW t, Grown(s, n, t),
         n.type \notin Starts, n.type # "end"
  PROVE  /\ t[1] = s[1] /\ EndsAt(t, Len(t))
         /\ n.type \notin InputTypes => Holds(t, e)
         /\ n.type \in InputTypes => \A x : Action(x) = Action(n) => Holds(t, Append(e, x))
<1>1. s \in Seq(Nd) /\ Begins(s) /\ IsSeq(e)
  BY DEF Holds
<1>2. Acts(s, Len(s)) = Got(e)
  BY <1>1, EndIsOne DEF Holds
<1> PICK m \in Nat : m = Len(s)
  BY <1>1
<1>3. /\ t \in Seq(Nd) /\ Len(t) = m + 1
      /\ \A i \in 1 .. m - 1 : t[i] = s[i]
      /\ t[m] = n /\ t[m + 1].type = "end"
      /\ Acts(t, m + 1) = ActsOne(n, Acts(s, m))
  BY DEF Grown
<1>4. Begins(t) /\ t[1] = s[1]
  BY <1>1, GrownBegins
<1>5. /\ m + 1 \in 1 .. m + 1 /\ (m + 1) - 1 = m
      /\ \A j \in 1 .. m : j \in 1 .. m - 1 \/ j = m
  OBVIOUS
<1>6. EndsAt(t, Len(t))
  BY <1>3, <1>5 DEF EndsAt
<1>7. Len(t) \in DOMAIN t /\ Acts(t, Len(t)) = ActsOne(n, Got(e))
  BY <1>2, <1>3, <1>6 DEF EndsAt
<1>8. n.type \notin InputTypes => Holds(t, e)
  BY <1>1, <1>3, <1>4, <1>6, <1>7 DEF Holds, ActsOne
<1>9. ASSUME n.type \in InputTypes, NEW x, Action(x) = Action(n) PROVE Holds(t, Append(e, x))
  <2>1. Got(Append(e, x)) = Append(Got(e), Action(n)) /\ IsSeq(Append(e, x))
    BY <1>1, <1>9, GotMore, Appended
  <2>2. Acts(t, Len(t)) = Got(Append(e, x))
    BY <1>7, <1>9, <2>1 DEF ActsOne
  <2> QED BY <1>3, <1>4, <1>6, <1>7, <2>1, <2>2 DEF Holds
<1> QED BY <1>4, <1>6, <1>8, <1>9

\* An end, or a node that is no input, leaves what the list holds.
LEMMA GrownKeeps ==
  ASSUME NEW s, NEW e, Holds(s, e), NEW n, NEW t, Grown(s, n, t),
         n.type \notin Starts, n.type \notin InputTypes
  PROVE  Holds(t, e) /\ t[1] = s[1] /\ Len(t) \in DOMAIN t /\ t[Len(t)].type = "end"
<1>1. s \in Seq(Nd) /\ Begins(s) /\ IsSeq(e)
  BY DEF Holds
<1>2. PICK k \in DOMAIN s : EndsAt(s, k) /\ Acts(s, k) = Got(e)
  BY DEF Holds
<1> PICK m \in Nat : m = Len(s)
  BY <1>1
<1>3. /\ t \in Seq(Nd) /\ Len(t) = m + 1
      /\ \A i \in 1 .. m - 1 : t[i] = s[i]
      /\ t[m] = n /\ t[m + 1].type = "end"
      /\ \A i \in 0 .. m - 1 : Acts(t, i) = Acts(s, i)
      /\ Acts(t, m) = ActsOne(n, Acts(s, m))
      /\ Acts(t, m + 1) = ActsOne(n, Acts(s, m))
  BY DEF Grown
<1>4. Begins(t) /\ t[1] = s[1]
  BY <1>1, GrownBegins
<1>5. /\ m + 1 \in 1 .. m + 1 /\ (m + 1) - 1 = m
      /\ \A j \in 1 .. m : j \in 1 .. m - 1 \/ j = m
      /\ \A j \in 1 .. m - 1 : j \in 1 .. m
  OBVIOUS
<1>6. k \in 1 .. m /\ k \in Nat
  BY <1>1
<1>7. DOMAIN t = 1 .. m + 1
  BY <1>3
<1>8. CASE k < m
  <2>1. /\ k \in 1 .. m - 1 /\ k \in 0 .. m - 1 /\ k \in 1 .. m + 1
        /\ \A j \in 1 .. k - 1 : j \in 1 .. m - 1
    BY <1>6, <1>8
  <2>2. EndsAt(t, k) /\ Acts(t, k) = Got(e) /\ k \in DOMAIN t
    BY <1>2, <1>3, <1>7, <2>1 DEF EndsAt
  <2> QED BY <1>1, <1>3, <1>4, <1>5, <1>7, <2>2 DEF Holds
<1>9. CASE k = m
  <2>1. Acts(s, m) = Got(e) /\ s[m].type = "end" /\ \A j \in 1 .. m - 1 : s[j].type # "end"
    BY <1>2, <1>9 DEF EndsAt
  <2>2. Acts(t, m) = Got(e) /\ Acts(t, m + 1) = Got(e)
    BY <1>3, <2>1 DEF ActsOne
  <2>3. CASE n.type = "end"
    <3>1. m \in 1 .. m + 1
      BY <1>6, <1>9
    <3>2. EndsAt(t, m) /\ m \in DOMAIN t
      BY <1>3, <1>7, <2>1, <2>3, <3>1 DEF EndsAt
    <3> QED BY <1>1, <1>3, <1>4, <1>5, <1>7, <2>2, <3>2 DEF Holds
  <2>4. CASE n.type # "end"
    <3>1. EndsAt(t, m + 1) /\ m + 1 \in DOMAIN t
      BY <1>3, <1>5, <1>7, <2>1, <2>4 DEF EndsAt
    <3> QED BY <1>1, <1>3, <1>4, <1>5, <1>7, <2>2, <3>1 DEF Holds
  <2> QED BY <2>3, <2>4
<1>10. k < m \/ k = m
  BY <1>6
<1> QED BY <1>8, <1>9, <1>10

\* A list that is cut holds what was before the cut.
EndOf(n) == [n EXCEPT !.type = "end"]

CutAs(t, s, c, e) ==
  /\ Holds(t, e) /\ Len(t) = c /\ EndsAt(t, Len(t)) /\ Len(t) \in DOMAIN t /\ t[1] = s[1]

\* An end is put in the place of the node at c.
EndPut(t, u, c) ==
  /\ t \in Seq(Nd) /\ Len(t) = Len(u) /\ t[c] \in Nd /\ t[c].type = "end"
  /\ \A i \in 1 .. c - 1 : t[i] = u[i]

LEMMA EndIsPut ==
  ASSUME NEW u \in Seq(Nd), NEW c \in 1 .. Len(u)
  PROVE  EndPut(ReplaceAt(u, c, EndOf(u[c])), u, c)
<1> PICK m \in Nat : m = Len(u)
  OBVIOUS
<1> PICK n : n = EndOf(u[c])
  OBVIOUS
<1>1. n \in Nd /\ n.type = "end"
  <2>1. u[c] \in Nd
    BY ElementOfSeq
  <2> QED BY <2>1 DEF Nd, NodeTypes, EndOf
<1>2. /\ ReplaceAt(u, c, n) \in Seq(Nd) /\ Len(ReplaceAt(u, c, n)) = Len(u)
      /\ ReplaceAt(u, c, n)[c] = n
      /\ \A j \in 1 .. Len(u) : j # c => ReplaceAt(u, c, n)[j] = u[j]
  BY <1>1, ReplacedAt
<1>3. \A i \in 1 .. c - 1 : i \in 1 .. Len(u) /\ i # c
  OBVIOUS
<1>4. EndPut(ReplaceAt(u, c, n), u, c)
  BY <1>1, <1>2, <1>3 DEF EndPut
<1> QED BY <1>4

LEMMA CutFrom ==
  ASSUME NEW s \in Seq(Nd), Begins(s), EndsAt(s, Len(s)), NEW c \in 2 .. Len(s), NEW e,
         IsSeq(e), Acts(s, c - 1) = Got(e),
         NEW u \in Seq(Nd), Len(u) = c, \A i \in 1 .. c : u[i] = s[i]
  PROVE  CutAs(ReplaceAt(u, c, EndOf(u[c])), s, c, e)
<1> PICK m \in Nat : m = Len(s)
  OBVIOUS
<1>1. c \in Nat /\ c >= 2 /\ c <= m /\ c \in 1 .. m
  OBVIOUS
<1>2. Len(u) = c /\ u \in Seq(Nd) /\ \A i \in 1 .. c : u[i] = s[i]
  OBVIOUS
<1>3. EndPut(ReplaceAt(u, c, EndOf(u[c])), u, c)
  <2>1. c \in 1 .. Len(u)
    BY <1>1, <1>2
  <2> QED BY <2>1, EndIsPut
<1> PICK t : t = ReplaceAt(u, c, EndOf(u[c]))
  OBVIOUS
<1>4. EndPut(t, u, c)
  BY <1>3
<1>5. /\ t \in Seq(Nd) /\ Len(t) = c /\ t[c] \in Nd /\ t[c].type = "end"
      /\ \A i \in 1 .. c - 1 : t[i] = u[i]
  BY <1>2, <1>4 DEF EndPut
<1>6. /\ \A i \in 1 .. c - 1 : i \in 1 .. c /\ i \in 1 .. m - 1
      /\ 1 \in 1 .. c - 1 /\ c \in 1 .. c /\ c - 1 \in Nat /\ c - 1 <= c /\ c - 1 <= m
      /\ \A i \in 2 .. c : (i \in 2 .. m /\ i \in 1 .. c - 1) \/ i = c
  BY <1>1
<1>7. \A i \in 1 .. c - 1 : t[i] = s[i] /\ t[i].type # "end"
  BY <1>2, <1>5, <1>6 DEF EndsAt
<1>8. Acts(t, c - 1) = Acts(s, c - 1)
  <2> PICK b \in Nat : b = c - 1
    BY <1>6
  <2>1. b <= Len(t) /\ b <= Len(s) /\ \A i \in 1 .. b : t[i] = s[i]
    BY <1>5, <1>6, <1>7
  <2> QED BY <1>5, <2>1, ActsSame
<1>9. Acts(t, c) = Got(e)
  <2>1. Acts(t, c) = ActsOne(t[c], Acts(t, c - 1))
    BY <1>5, <1>6, ActsStep
  <2> QED BY <1>3, <1>5, <1>8, <2>1 DEF ActsOne, InputTypes
<1>10. EndsAt(t, c) /\ c \in DOMAIN t
  BY <1>3, <1>5, <1>6, <1>7 DEF EndsAt
<1>11. t[1] = s[1]
  BY <1>6, <1>7
<1>12. Begins(t)
  <2>1. \A i \in 2 .. c : t[i].type \notin Starts
    BY <1>3, <1>5, <1>6, <1>7 DEF Begins, Starts
  <2> QED BY <1>1, <1>5, <1>11, <2>1 DEF Begins
<1>13. Holds(t, e)
  BY <1>5, <1>9, <1>10, <1>12 DEF Holds
<1> QED BY <1>5, <1>10, <1>11, <1>13 DEF CutAs

LEMMA CutHolds ==
  ASSUME NEW s \in Seq(Nd), Begins(s), EndsAt(s, Len(s)), NEW c \in 2 .. Len(s), NEW e,
         IsSeq(e), Acts(s, c - 1) = Got(e)
  PROVE  CutAs([SubSeq(s, 1, c) EXCEPT ![c].type = "end"], s, c, e)
<1>1. c \in 0 .. Len(s)
  OBVIOUS
<1> PICK u : u = SubSeq(s, 1, c)
  OBVIOUS
<1>2. Len(u) = c /\ u \in Seq(Nd) /\ \A i \in 1 .. c : u[i] = s[i]
  BY <1>1, SubIsList
<1>3. CutAs(ReplaceAt(u, c, EndOf(u[c])), s, c, e)
  BY <1>2, CutFrom
<1>4. [u EXCEPT ![c].type = "end"] = ReplaceAt(u, c, EndOf(u[c]))
  BY DEF ReplaceAt, EndOf
<1> QED BY <1>3, <1>4

-----------------------------------------------------------------------------
(* The user *)

\* What a careful user does.
LEMMA CarefulUser ==
  ASSUME Careful
  PROVE  /\ Calm => trap = "none" /\ ~reset /\ \A d \in Latched : due[d] # clk
         /\ Settled => \A d \in Latched : due[d] = Off
         /\ \A mode : AtRest(mode) => lines \cap Joys = {}
         /\ "clear" \notin Inputs /\ "both" \notin Inputs /\ "revive" \notin Inputs
         /\ "disk full" \notin Inputs
<1>1. /\ "rush" \notin Inputs /\ "pending" \notin Inputs /\ "held" \notin Inputs
      /\ "clear" \notin Inputs /\ "both" \notin Inputs /\ "revive" \notin Inputs
      /\ "disk full" \notin Inputs
  BY DEF Careful
<1>2. Calm => trap = "none" /\ ~reset /\ \A d \in Latched : due[d] # clk
  BY <1>1 DEF Calm
<1>3. Settled => \A d \in Latched : due[d] = Off
  BY <1>1 DEF Settled
<1>4. \A mode : AtRest(mode) => lines \cap Joys = {}
  BY <1>1 DEF AtRest
<1> QED BY <1>1, <1>2, <1>3, <1>4

LEMMA HasLast ==
  ASSUME NEW s \in Seq(Nd), Len(s) \in DOMAIN s
  PROVE  Len(s) >= 1 /\ Len(s) \in Nat
OBVIOUS

LEMMA RecordedNode ==
  ASSUME NEW type \in InputTypes, NEW at \in Int, NEW data \in SUBSET Lines,
         type = "reset" => at > 0
  PROVE  /\ Node(type, at, data) \in Nd /\ Node(type, at, data).type = type
         /\ Action(Entry(type, data)) = Action(Node(type, at, data))
<1> PICK n, x : n = Node(type, at, data) /\ x = Entry(type, data)
  OBVIOUS
<1>1. type \in NodeTypes
  BY DEF NodeTypes
<1>2. /\ Node(type, at, data) \in Nd /\ Node(type, at, data).type = type
      /\ Node(type, at, data).data = data
  BY <1>1, NodeIs
<1>3. n \in Nd /\ n.type = type /\ n.data = data
  BY <1>2
<1>4. x.type = type /\ x.data = data
  BY DEF Entry
<1>5. n \in Nd /\ n.type = type /\ Action(x) = Action(n)
  BY <1>3, <1>4 DEF Action
<1> QED BY <1>5

\* Nothing of a recording changes but what the machine got, or the list with it.
LEMMA RecordMore ==
  ASSUME RecordGood, trap # "record stop", UNCHANGED <<record_active, playback_active, trap>>,
         NEW type \in InputTypes, NEW data \in SUBSET Lines, type = "reset" => clk > 0,
         clk \in Int, Record(type, data), Sees(type, data)
  PROVE  RecordGood' /\ (record_active => list'[1] = list[1])
<1> SUFFICES ASSUME record_active
             PROVE  RecordGood' /\ list'[1] = list[1]
  BY DEF RecordGood
<1>1. /\ ~playback_active /\ Holds(list, seen)
      /\ current = Len(list) /\ current \in DOMAIN list /\ list[current].type = "end"
      /\ EndsAt(list, current)
  BY DEF RecordGood
<1>0. /\ Node(type, clk, data) \in Nd /\ Node(type, clk, data).type = type
      /\ Action(Entry(type, data)) = Action(Node(type, clk, data))
  BY RecordedNode
<1> PICK n : n = Node(type, clk, data)
  OBVIOUS
<1> PICK x : x = Entry(type, data)
  OBVIOUS
<1> PICK s, t, c, e : s = list /\ t = list' /\ c = current /\ e = seen
  OBVIOUS
<1>2. type \in NodeTypes /\ type \notin Starts /\ type # "end"
  BY DEF InputTypes, NodeTypes, Starts
<1>3. n \in Nd /\ n.type = type /\ Action(x) = Action(n)
  BY <1>0
<1>4. s \in Seq(Nd) /\ c = Len(s) /\ Len(s) >= 1 /\ s[Len(s)].type = "end"
  <2>1. s \in Seq(Nd) /\ c = Len(s) /\ c \in DOMAIN s /\ s[c].type = "end"
    BY <1>1 DEF Holds
  <2>2. Len(s) >= 1
    BY <2>1, HasLast
  <2> QED BY <2>1, <2>2
<1>5. t = InList(s, Len(s), n) /\ current' = Len(s) + 1
  BY <1>1 DEF Record
<1>6. Grown(s, n, t)
  BY <1>3, <1>4, <1>5, InListGrows
<1>7. /\ t[1] = s[1] /\ EndsAt(t, Len(t)) /\ Holds(t, Append(e, x))
  BY <1>1, <1>2, <1>3, <1>6, GrownHolds
<1>8. seen' = Append(e, x) /\ current' = Len(t) /\ Len(t) \in DOMAIN t /\ t[Len(t)].type = "end"
  BY <1>5, <1>6, <1>7 DEF Sees, Grown, EndsAt
<1> QED BY <1>1, <1>7, <1>8 DEF RecordGood

\* Nothing is recorded.
LEMMA RecordSame ==
  ASSUME ~record_active, UNCHANGED record_active
  PROVE  RecordGood'
BY DEF RecordGood

LEMMA PressKeeps ==
  ASSUME Careful, IInv, NEW d \in Latched, NEW l, NEW delay \in 1 .. Frame, Press(d, l, delay)
  PROVE  IInv'
<1>1. /\ phase = "line" /\ trap = "none" /\ ~reset /\ ~playback_active
      /\ due' = [due EXCEPT ![d] = clk + delay]
  BY CarefulUser DEF Press, Acting
<1>2. UNCHANGED <<machine, flow, reset, trap, modes, history, event_alarm, stamps, files>>
  BY DEF Press
<1>3. ClockGood'
  BY <1>2 DEF IInv, ClockGood, machine, flow
<1>4. LatchesGood'
  <2>1. clk \in Nat /\ delay \in Nat /\ delay >= 1
    BY EventHistoryAssumption DEF IInv, ClockGood
  <2>2. clk + delay \in Nat /\ clk + delay > clk
    BY <2>1
  <2>0. DOMAIN due = Latched
    BY DEF IInv, LatchesGood
  <2>3. DOMAIN due' = Latched /\ \A x \in Latched : x # d => due[x] = due'[x]
    BY <1>1, <2>0
  <2>4. due'[d] = clk + delay
    BY <1>1, <2>0
  <2>5. UNCHANGED <<clk, phase>>
    BY <1>2 DEF machine, flow
  <2> QED BY <1>1, <2>1, <2>2, <2>3, <2>4, <2>5 DEF IInv, LatchesGood
<1>5. TrapGood' /\ ResetGood'
  BY <1>1, <1>2 DEF IInv, TrapGood, ResetGood, modes
<1>6. RecordGood'
  BY <1>2 DEF IInv, RecordGood, modes, history, machine
<1>7. PlayGood'
  BY <1>1, <1>2 DEF PlayGood, modes
<1>8. IdleGood'
  BY <1>2 DEF IInv, IdleGood, modes, history
<1>9. FilesGood'
  BY <1>2 DEF IInv, FilesGood, EndGood, StartGood, modes, history, files
<1> QED BY <1>3, <1>4, <1>5, <1>6, <1>7, <1>8, <1>9 DEF IInv

\* The snapshots stay, and the list keeps the node it begins with.
LEMMA FilesSame ==
  ASSUME FilesGood, UNCHANGED files,
         record_active' \/ playback_active' \/ trap' = "record playback"
           => /\ record_active \/ playback_active \/ trap = "record playback"
              /\ list'[1] = list[1]
  PROVE  FilesGood'
BY DEF FilesGood, EndGood, StartGood, files

LEMMA ControlKeeps ==
  ASSUME Careful, IInv, NEW l \in Tape, Control(l)
  PROVE  IInv'
<1>1. phase = "line" /\ trap = "none" /\ ~playback_active
  BY CarefulUser DEF Control, Acting
<1>2. UNCHANGED <<clk, age, inputs, flow, reset, trap, modes, event_alarm, stamps, files>>
  BY DEF Control
<1>3. PICK data \in SUBSET Lines : Record("datasette", data) /\ Sees("datasette", data)
  <2>1. \A x \in SUBSET Tape : x \in SUBSET Lines
    BY DEF Lines
  <2> PICK data : data = IF l \in lines \cap Tape THEN (lines \cap Tape) \ {l}
                                                 ELSE (lines \cap Tape) \cup {l}
    OBVIOUS
  <2>2. data \in SUBSET Tape /\ Record("datasette", data) /\ Sees("datasette", data)
    BY DEF Control
  <2> QED BY <2>1, <2>2
<1>4. ClockGood' /\ LatchesGood'
  BY <1>2 DEF IInv, ClockGood, LatchesGood, flow, inputs
<1>5. TrapGood' /\ ResetGood'
  BY <1>1, <1>2 DEF IInv, TrapGood, ResetGood, modes, inputs
<1>6. RecordGood' /\ (record_active => list'[1] = list[1])
  <2>1. "datasette" \in InputTypes /\ "datasette" # "reset" /\ clk \in Int
    BY DEF InputTypes, IInv, ClockGood
  <2> QED BY <1>1, <1>2, <1>3, <2>1, RecordMore DEF IInv, modes
<1>7. PlayGood'
  BY <1>1, <1>2 DEF PlayGood, modes
<1>8. IdleGood'
  BY <1>2, <1>3 DEF IInv, IdleGood, modes, history, Record
<1>9. FilesGood'
  BY <1>1, <1>2, <1>6, FilesSame DEF IInv, modes
<1> QED BY <1>4, <1>5, <1>6, <1>7, <1>8, <1>9 DEF IInv

LEMMA ClearKeysKeeps ==
  ASSUME Careful, IInv, ClearKeys
  PROVE  IInv'
<1>1. ~playback_active /\ lines' = lines \cap Tape /\ UNCHANGED seen
  BY CarefulUser DEF ClearKeys
<1>2. UNCHANGED <<clk, age, due, flow, reset, trap, modes, history, event_alarm, stamps, files>>
  BY DEF ClearKeys
<1>3. ClockGood' /\ LatchesGood'
  BY <1>2 DEF IInv, ClockGood, LatchesGood, flow
<1>4. TrapGood'
  <2>1. lines \cap Joys = {} => lines' \cap Joys = {}
    BY <1>1
  <2> QED BY <1>2, <2>1 DEF IInv, TrapGood, modes
<1>5. ResetGood'
  BY <1>2 DEF IInv, ResetGood, modes
<1>6. RecordGood'
  BY <1>1, <1>2 DEF IInv, RecordGood, modes, history
<1>7. PlayGood'
  BY <1>1, <1>2 DEF IInv, PlayGood, Played, AtReset, modes, history, files, flow
<1>8. IdleGood'
  BY <1>2 DEF IInv, IdleGood, modes, history
<1>9. FilesGood'
  BY <1>2, FilesSame DEF IInv, modes, history
<1> QED BY <1>3, <1>4, <1>5, <1>6, <1>7, <1>8, <1>9 DEF IInv

LEMMA TriggerResetKeeps ==
  ASSUME Careful, IInv, TriggerReset
  PROVE  IInv'
<1>1. /\ phase = "line" /\ trap = "none" /\ ~reset /\ ~playback_active /\ reset'
      /\ \A d \in Latched : due[d] = Off
      /\ ~Revives
  BY CarefulUser DEF TriggerReset, Acting
<1>2. UNCHANGED <<clk, age, lines, inputs, flow, trap, modes, event_alarm,
                  milestone_timestamp_alarm, files>>
  BY DEF TriggerReset
<1>3. ClockGood' /\ LatchesGood'
  BY <1>2 DEF IInv, ClockGood, LatchesGood, flow, inputs
<1>4. TrapGood' /\ ResetGood'
  BY <1>1, <1>2 DEF IInv, TrapGood, ResetGood, modes, inputs
<1>5. RecordGood' /\ (record_active => list'[1] = list[1])
  <2>1. "reset" \in InputTypes /\ clk \in Int /\ clk > 0 /\ {} \in SUBSET Lines
    BY <1>1 DEF InputTypes, IInv, ClockGood
  <2>2. Record("reset", {}) /\ Sees("reset", {})
    BY DEF TriggerReset
  <2> QED BY <1>1, <1>2, <2>1, <2>2, RecordMore DEF IInv, modes
<1>6. PlayGood'
  BY <1>1, <1>2 DEF PlayGood, modes
<1>7. IdleGood'
  <2>1. ~record_active => UNCHANGED <<list, current>>
    BY DEF TriggerReset, Record, history
  <2>2. ~record_active' /\ ~playback_active' => ~record_active /\ ~playback_active
    BY <1>2 DEF modes
  <2>3. ~record_active => current = 0 \/ list[current].type # "reset"
    BY <1>1 DEF Revives
  <2> QED BY <1>2, <2>1, <2>2, <2>3 DEF IInv, IdleGood
<1>8. FilesGood'
  BY <1>1, <1>2, <1>5, FilesSame DEF IInv, modes
<1> QED BY <1>3, <1>4, <1>5, <1>6, <1>7, <1>8 DEF IInv

\* An input on its way is not due yet when a command is given.
LEMMA NotDue ==
  ASSUME LatchesGood, ClockGood, \A d \in Latched : due[d] # clk
  PROVE  \A d \in Latched : due[d] # Off => due[d] > clk
<1> SUFFICES ASSUME NEW d \in Latched, due[d] # Off PROVE due[d] > clk
  OBVIOUS
<1>1. due[d] \in Nat /\ due[d] >= clk /\ clk \in Nat
  BY DEF LatchesGood, ClockGood
<1>2. due[d] # clk
  OBVIOUS
<1> QED BY <1>1, <1>2

\* When a trap may be posted.
MayPost(t) ==
  /\ ~reset /\ ~playback_active /\ lines \cap Joys = {}
  /\ \A d \in Latched : due[d] # clk
  /\ t \in Unsettling => \A d \in Latched : due[d] = Off
  /\ record_active <=> t \in {"record stop", "set milestone", "reset milestone"}

\* What the commands that only post a trap leave.
LEMMA Posted ==
  ASSUME IInv, trap = "none", NEW t, Post(t),
         UNCHANGED <<record_active, playback_active, history, event_alarm>>,
         t # "none" => MayPost(t), t # "record playback", t # "record stop"
  PROVE  IInv'
<1>1. /\ trap' = t
      /\ UNCHANGED <<machine, inputs, flow, reset, playback_reset_ack, stamps, files>>
  BY DEF Post
<1>2. ClockGood' /\ LatchesGood'
  BY <1>1 DEF IInv, ClockGood, LatchesGood, machine, inputs, flow
<1>3. TrapGood'
  <2>1. t # "none" => \A d \in Latched : due[d] # Off => due[d] > clk
    BY NotDue DEF IInv, MayPost
  <2> QED BY <1>1, <2>1 DEF TrapGood, MayPost, machine, inputs
<1>4. ResetGood'
  BY <1>1 DEF IInv, ResetGood, inputs
<1>5. RecordGood'
  BY <1>1 DEF IInv, RecordGood, history, machine
<1>6. PlayGood'
  BY <1>1 DEF IInv, PlayGood, Played, AtReset, history, machine, files, inputs, flow
<1>7. IdleGood'
  BY <1>1 DEF IInv, IdleGood, history
<1>8. FilesGood'
  BY <1>1, FilesSame DEF IInv, history
<1> QED BY <1>2, <1>3, <1>4, <1>5, <1>6, <1>7, <1>8 DEF IInv

LEMMA RecordTraps ==
  /\ RecordTrap["save"] = "record save" /\ RecordTrap["load"] = "record load"
  /\ RecordTrap["reset"] = "record reset" /\ RecordTrap["playback"] = "record playback"
BY DEF RecordTrap

LEMMA RecordStartKeeps ==
  ASSUME Careful, IInv, NEW mode \in AllModes, RecordStart(mode)
  PROVE  IInv'
<1> PICK t : t = IF record_active THEN trap ELSE RecordTrap[mode]
  OBVIOUS
<1>1. /\ trap = "none" /\ ~reset /\ (\A d \in Latched : due[d] # clk) /\ lines \cap Joys = {}
      /\ mode \in {"load", "reset"} => \A d \in Latched : due[d] = Off
  BY CarefulUser DEF RecordStart
<1>2. Post(t) /\ UNCHANGED <<record_active, history>>
  BY DEF RecordStart
<1>3. /\ mode = "save" => RecordTrap[mode] = "record save"
      /\ mode = "load" => RecordTrap[mode] = "record load"
      /\ mode = "reset" => RecordTrap[mode] = "record reset"
      /\ mode = "playback" => RecordTrap[mode] = "record playback"
  BY RecordTraps
<1>4. CASE mode # "playback"
  <2>1. ~playback_active /\ UNCHANGED <<playback_active, event_alarm>>
    BY <1>4, CarefulUser DEF RecordStart
  <2>2. t \in {"none", "record save", "record load", "record reset"}
    BY <1>1, <1>3, <1>4 DEF AllModes
  <2>3. t # "none" => MayPost(t)
    BY <1>1, <1>3, <1>4, <2>1, <2>2 DEF MayPost, Unsettling, AllModes
  <2> QED BY <1>1, <1>2, <2>1, <2>2, <2>3, Posted
<1>5. CASE mode = "playback"
  <2>1. playback_active /\ ~playback_active' /\ event_alarm' = Off
    BY <1>5 DEF RecordStart
  <2>2. ~record_active /\ t = "record playback"
    BY <1>3, <1>5, <2>1 DEF IInv, PlayGood
  <2>3. /\ trap' = t
        /\ UNCHANGED <<machine, inputs, flow, reset, playback_reset_ack, stamps, files>>
    BY <1>2 DEF Post
  <2>4. ClockGood' /\ LatchesGood'
    BY <2>3 DEF IInv, ClockGood, LatchesGood, machine, inputs, flow
  <2>5. TrapGood'
    <3>1. \A d \in Latched : due[d] # Off => due[d] > clk
      BY <1>1, NotDue DEF IInv
    <3> QED BY <1>1, <1>2, <2>1, <2>2, <2>3, <3>1 DEF TrapGood, Unsettling, machine, inputs
  <2>6. ResetGood'
    BY <1>1, <2>3 DEF IInv, ResetGood
  <2>7. RecordGood'
    BY <1>2, <2>2, RecordSame
  <2>8. PlayGood'
    BY <1>1, <1>2, <2>1, <2>2, <2>3
       DEF IInv, PlayGood, Played, AtReset, history, machine, files, inputs, flow
  <2>9. IdleGood'
    BY <1>1, <2>1, <2>3 DEF IdleGood
  <2>10. FilesGood'
    BY <1>2, <2>1, <2>3, FilesSame DEF IInv, history
  <2> QED BY <2>4, <2>5, <2>6, <2>7, <2>8, <2>9, <2>10 DEF IInv
<1> QED BY <1>4, <1>5

\* An end is recorded behind what the machine got.
LEMMA RecordStopKeeps ==
  ASSUME Careful, IInv, RecordStop
  PROVE  IInv'
<1>1. /\ trap = "none" /\ ~reset /\ (\A d \in Latched : due[d] # clk) /\ lines \cap Joys = {}
      /\ record_active /\ event_alarm' = Off /\ trap' = "record stop"
  BY CarefulUser DEF RecordStop, Post
<1>2. /\ Record("end", {}) /\ UNCHANGED <<record_active, playback_active>>
      /\ UNCHANGED <<machine, inputs, flow, reset, playback_reset_ack, stamps, files>>
  BY DEF RecordStop, Post
<1>3. /\ ~playback_active /\ Holds(list, seen)
      /\ current = Len(list) /\ current \in DOMAIN list /\ list[current].type = "end"
  BY <1>1 DEF IInv, RecordGood
<1> PICK n : n = Node("end", clk, {})
  OBVIOUS
<1>4. list' = InList(list, Len(list), n) /\ current' = Len(list) + 1
  BY <1>1, <1>2, <1>3 DEF Record
<1> PICK s, t, e : s = list /\ t = list' /\ e = seen
  OBVIOUS
<1>5. n \in Nd /\ n.type = "end"
  <2>1. "end" \in NodeTypes /\ "end" # "reset"
    BY DEF NodeTypes
  <2>2. clk \in Int /\ {} \in SUBSET Lines
    BY DEF IInv, ClockGood
  <2> QED BY <2>1, <2>2, NodeIs
<1>6. s \in Seq(Nd) /\ Len(s) >= 1 /\ s[Len(s)].type = "end"
  <2>1. s \in Seq(Nd) /\ Len(s) \in DOMAIN s /\ s[Len(s)].type = "end"
    BY <1>3 DEF Holds
  <2> QED BY <2>1, HasLast
<1>7. Grown(s, n, t)
  BY <1>4, <1>5, <1>6, InListGrows
<1>8. n.type \notin Starts /\ n.type \notin InputTypes
  BY <1>5 DEF Starts, InputTypes
<1>9. Holds(t, e) /\ t[1] = s[1] /\ Len(t) \in DOMAIN t /\ t[Len(t)].type = "end"
  BY <1>3, <1>7, <1>8, GrownKeeps
<1>10. ClockGood' /\ LatchesGood'
  BY <1>2 DEF IInv, ClockGood, LatchesGood, machine, inputs, flow
<1>11. TrapGood'
  <2>1. \A d \in Latched : due[d] # Off => due[d] > clk
    BY <1>1, NotDue DEF IInv
  <2> QED BY <1>1, <1>2, <1>3, <2>1 DEF TrapGood, Unsettling, machine, inputs
<1>12. ResetGood'
  BY <1>1, <1>2 DEF IInv, ResetGood
<1>13. RecordGood'
  <2>1. current' = Len(t)
    BY <1>4, <1>7 DEF Grown
  <2>2. seen' = e
    BY <1>2 DEF machine
  <2> QED BY <1>1, <1>2, <1>3, <1>9, <2>1, <2>2 DEF RecordGood
<1>14. PlayGood' /\ IdleGood'
  BY <1>1, <1>2, <1>3 DEF PlayGood, IdleGood
<1>15. FilesGood'
  BY <1>1, <1>2, <1>9, FilesSame DEF IInv
<1> QED BY <1>10, <1>11, <1>12, <1>13, <1>14, <1>15 DEF IInv

LEMMA PlaybackStopKeeps ==
  ASSUME Careful, IInv, PlaybackStop
  PROVE  IInv'
<1>1. playback_active /\ ~reset /\ ~playback_active' /\ event_alarm' = Off
  BY CarefulUser DEF PlaybackStop
<1>2. UNCHANGED <<machine, inputs, flow, reset, trap, record_active, playback_reset_ack,
                  history, stamps, files>>
  BY DEF PlaybackStop
<1>3. trap = "none"
  BY <1>1 DEF IInv, TrapGood
<1>4. ~record_active
  BY <1>1 DEF IInv, PlayGood
<1>5. ClockGood' /\ LatchesGood' /\ TrapGood'
  BY <1>2, <1>3 DEF IInv, ClockGood, LatchesGood, TrapGood, machine, inputs, flow
<1>6. ResetGood' /\ PlayGood' /\ IdleGood'
  BY <1>1, <1>2, <1>3 DEF IInv, ResetGood, PlayGood, IdleGood
<1>7. RecordGood'
  BY <1>2, <1>4, RecordSame
<1>8. FilesGood'
  BY <1>1, <1>2, FilesSame DEF IInv, history
<1> QED BY <1>5, <1>6, <1>7, <1>8 DEF IInv

LEMMA PostingKeeps ==
  ASSUME Careful, IInv, PlaybackStart \/ SetMilestone \/ ResetMilestone
  PROVE  IInv'
<1>1. /\ trap = "none" /\ ~reset /\ (\A d \in Latched : due[d] # clk) /\ lines \cap Joys = {}
      /\ UNCHANGED <<record_active, playback_active, history, event_alarm>>
  BY CarefulUser DEF PlaybackStart, SetMilestone, ResetMilestone
<1>2. record_active => ~playback_active
  BY DEF IInv, RecordGood
<1>3. CASE PlaybackStart
  <2>1. MayPost("playback start")
    BY <1>1, <1>3, CarefulUser DEF PlaybackStart, MayPost, Unsettling
  <2> QED BY <1>1, <1>3, <2>1, Posted DEF PlaybackStart
<1>4. CASE SetMilestone
  <2>1. MayPost("set milestone")
    BY <1>1, <1>2, <1>4 DEF SetMilestone, MayPost, Unsettling
  <2> QED BY <1>1, <1>4, <2>1, Posted DEF SetMilestone
<1>5. CASE ResetMilestone
  <2>1. MayPost("reset milestone")
    BY <1>1, <1>2, <1>5, CarefulUser DEF ResetMilestone, MayPost, Unsettling
  <2> QED BY <1>1, <1>5, <2>1, Posted DEF ResetMilestone
<1> QED BY <1>3, <1>4, <1>5

LEMMA UserKeeps ==
  ASSUME Careful, IInv, User
  PROVE  IInv'
<1>1. CASE \E d \in Latched : \E l \in LinesOf[d] \cap UserLines, delay \in 1 .. Frame :
             Press(d, l, delay)
  BY <1>1, PressKeeps
<1>2. CASE \E l \in Tape \cap UserLines : Control(l)
  BY <1>2, ControlKeeps
<1>3. CASE \E mode \in Modes : RecordStart(mode)
  BY <1>3, RecordStartKeeps, EventHistoryAssumption
<1> QED BY <1>1, <1>2, <1>3, ClearKeysKeeps, TriggerResetKeeps, RecordStopKeeps,
           PlaybackStopKeeps, PostingKeeps DEF User

-----------------------------------------------------------------------------
(* The traps *)

\* What every trap does: the invariants of the clock hold after it.
LEMMA Served ==
  ASSUME IInv, NEW t, t # "none", Serve(t), clk' \in Nat,
         UNCHANGED clk \/ t \in Unsettling
  PROVE  /\ ClockGood' /\ LatchesGood' /\ TrapGood'
         /\ trap = t /\ trap' = "none" /\ phase' = "interrupts" /\ due' = due
         /\ ~reset /\ ~playback_active /\ ~playback_reset_ack /\ lines \cap Joys = {}
         /\ t \in Unsettling => \A d \in Latched : due[d] = Off
         /\ record_active <=> t \in {"record stop", "set milestone", "reset milestone"}
<1>1. trap = t /\ trap' = "none" /\ phase' = "interrupts" /\ due' = due /\ UNCHANGED raster
  BY DEF Serve, inputs
<1>2. /\ ~reset /\ ~playback_active /\ lines \cap Joys = {}
      /\ \A d \in Latched : due[d] # Off => due[d] > clk
      /\ t \in Unsettling => \A d \in Latched : due[d] = Off
      /\ record_active <=> t \in {"record stop", "set milestone", "reset milestone"}
  BY <1>1 DEF IInv, TrapGood
<1>3. ~playback_reset_ack
  BY <1>2 DEF IInv, ResetGood
<1>4. ClockGood'
  <2>1. ~raster
    BY DEF Serve, Serving, IInv, ClockGood
  <2> QED BY <1>1, <2>1 DEF ClockGood
<1>5. LatchesGood'
  <2>1. DOMAIN due' = Latched
    BY <1>1 DEF IInv, LatchesGood
  <2>2. CASE UNCHANGED clk
    <3>1. \A d \in Latched : due[d] # Off => due[d] \in Nat /\ due[d] >= clk /\ due[d] > clk
      BY <1>2 DEF IInv, LatchesGood
    <3> QED BY <1>1, <2>1, <2>2, <3>1 DEF LatchesGood
  <2>3. CASE t \in Unsettling
    BY <1>1, <1>2, <2>1, <2>3 DEF LatchesGood
  <2> QED BY <2>2, <2>3
<1>6. TrapGood'
  BY <1>1 DEF TrapGood
<1> QED BY <1>1, <1>2, <1>3, <1>4, <1>5, <1>6

\* A new session holds that the machine got nothing.
LEMMA NewHolds ==
  ASSUME NEW initial \in Starts, NEW at \in Int
  PROVE  LET s == <<Node(initial, at, {}), EndNode>>
         IN /\ Holds(s, <<>>) /\ Len(s) = 2 /\ 2 \in DOMAIN s /\ s[2].type = "end"
            /\ EndsAt(s, 2) /\ s[1].type = initial
<1> PICK a, b : a = Node(initial, at, {}) /\ b = EndNode
  OBVIOUS
<1>1. a \in Nd /\ a.type = initial
  <2>1. initial \in NodeTypes /\ initial # "reset"
    BY DEF Starts, NodeTypes
  <2> QED BY <2>1, NodeIs
<1>2. b \in Nd /\ b.type = "end"
  <2>1. "end" \in NodeTypes /\ "end" # "reset" /\ 0 \in Int
    BY DEF NodeTypes
  <2> QED BY <2>1, NodeIs DEF EndNode
<1> PICK s : s = <<a, b>>
  OBVIOUS
<1>3. s \in Seq(Nd) /\ Len(s) = 2 /\ s[1] = a /\ s[2] = b /\ DOMAIN s = 1 .. 2
  BY <1>1, <1>2
<1>4. /\ 1 .. 2 - 1 = {1} /\ 2 .. 2 = {2} /\ 2 \in 1 .. 2 /\ 1 \in 1 .. 2 /\ 2 >= 2
      /\ 2 - 1 = 1 /\ 1 - 1 = 0
  OBVIOUS
<1>5. a.type # "end" /\ a.type \notin InputTypes /\ b.type \notin Starts /\ b.type \notin InputTypes
  BY <1>1, <1>2 DEF Starts, InputTypes
<1>6. EndsAt(s, 2) /\ Begins(s)
  BY <1>1, <1>2, <1>3, <1>4, <1>5 DEF EndsAt, Begins
<1>7. Acts(s, 2) = <<>>
  <2>1. Acts(s, 2) = ActsOne(s[2], Acts(s, 2 - 1)) /\ Acts(s, 1) = ActsOne(s[1], Acts(s, 1 - 1))
    BY <1>3, <1>4, ActsStep
  <2> QED BY <1>3, <1>4, <1>5, <2>1, ActsNone DEF ActsOne
<1>8. Got(<<>>) = <<>> /\ IsSeq(<<>>)
  <2>1. Got(<<>>) = <<>>
    BY DEF Got
  <2> QED BY <2>1, EmptySeq DEF IsSeq
<1>9. Holds(s, <<>>)
  BY <1>3, <1>4, <1>6, <1>7, <1>8 DEF Holds
<1> QED BY <1>1, <1>2, <1>3, <1>4, <1>6, <1>9

\* A recording that begins, or goes on, with a list that ends where it ends.
LEMMA Records ==
  ASSUME record_active', ~playback_active', Holds(list', seen'), EndsAt(list', Len(list')),
         current' = Len(list')
  PROVE  RecordGood'
<1>1. current' \in DOMAIN list' /\ list'[current'].type = "end"
  BY DEF EndsAt
<1> QED BY <1>1 DEF RecordGood

LEMMA RecordSaveKeeps ==
  ASSUME IInv, RecordSave
  PROVE  IInv'
<1>1. Serve("record save") /\ UNCHANGED <<clk, lines, reset, end_file>>
      /\ record_active' /\ UNCHANGED <<playback_active, playback_reset_ack>>
  BY DEF RecordSave, Recording
<1>2. clk \in Nat /\ clk \in Int
  BY DEF IInv, ClockGood
<1>3. /\ ClockGood' /\ LatchesGood' /\ TrapGood' /\ trap' = "none"
      /\ ~reset /\ ~playback_active /\ ~playback_reset_ack /\ lines \cap Joys = {}
  BY <1>1, <1>2, Served
<1>4. /\ Holds(list', <<>>) /\ Len(list') = 2 /\ EndsAt(list', 2)
      /\ seen' = <<>> /\ current' = 2
  <2>1. "initial save" \in Starts
    BY DEF Starts
  <2> QED BY <1>2, <2>1, NewHolds DEF RecordSave, NewSession
<1>5. RecordGood'
  BY <1>1, <1>3, <1>4, Records
<1>6. ResetGood' /\ PlayGood' /\ IdleGood'
  BY <1>1, <1>3 DEF ResetGood, PlayGood, IdleGood
<1>7. FilesGood'
  <2>1. start_file' = [Snapshot(<<>>) EXCEPT !.age = 0, !.seen = <<>>]
    BY DEF RecordSave
  <2>2. StartGood(start_file')
    BY <1>2, <1>3, <2>1 DEF StartGood, Snapshot
  <2> QED BY <1>1, <2>2 DEF IInv, FilesGood, EndGood, StartGood
<1> QED BY <1>3, <1>5, <1>6, <1>7 DEF IInv

LEMMA RecordResetKeeps ==
  ASSUME IInv, RecordReset
  PROVE  IInv'
<1>1. Serve("record reset") /\ UNCHANGED <<clk, lines, files>>
      /\ record_active' /\ UNCHANGED <<playback_active, playback_reset_ack>>
  BY DEF RecordReset, Recording
<1>2. clk \in Nat /\ clk \in Int
  BY DEF IInv, ClockGood
<1>3. /\ ClockGood' /\ LatchesGood' /\ TrapGood' /\ trap' = "none" /\ due' = due
      /\ ~reset /\ ~playback_active /\ ~playback_reset_ack /\ lines \cap Joys = {}
      /\ \A d \in Latched : due[d] = Off
  BY <1>1, <1>2, Served DEF Unsettling
<1>4. /\ Holds(list', <<>>) /\ Len(list') = 2 /\ EndsAt(list', 2)
      /\ seen' = <<>> /\ current' = 2 /\ list'[1].type = "initial reset"
  <2>1. "initial reset" \in Starts
    BY DEF Starts
  <2> QED BY <1>2, <2>1, NewHolds DEF RecordReset, NewSession
<1>5. RecordGood'
  BY <1>1, <1>3, <1>4, Records
<1>6. ResetGood' /\ PlayGood' /\ IdleGood'
  BY <1>1, <1>3 DEF ResetGood, PlayGood, IdleGood
<1>7. FilesGood'
  BY <1>1, <1>3, <1>4 DEF IInv, FilesGood, EndGood, StartGood, files
<1> QED BY <1>3, <1>5, <1>6, <1>7 DEF IInv

\* The machine goes on as it was when the snapshot was written.
LEMMA Loaded ==
  ASSUME NEW file, Load(file), lines \cap Joys = {}, file.lines \cap Joys = {}
  PROVE  clk' = file.clk /\ seen' = file.seen
<1>1. /\ file.lines \ Joys = file.lines
      /\ lines \cap {"port 1"} = {} /\ "port 1" \notin file.lines
  BY DEF Joys
<1>2. Restored(file.lines) = file.lines
  BY <1>1 DEF Restored
<1> QED BY <1>2 DEF Load

\* A recording goes on with what the snapshot holds.
LEMMA GoesOn ==
  ASSUME FilesGood, end_file # NoFile, Load(end_file), lines \cap Joys = {},
         list' = WithTimestamps(end_file.list).out, current' = Len(list'),
         record_active', ~playback_active', UNCHANGED files
  PROVE  RecordGood' /\ FilesGood' /\ clk' \in Nat
<1> PICK f : f = end_file
  OBVIOUS
<1>1. EndGood(f)
  BY DEF FilesGood
<1>2. f.clk \in Nat /\ f.lines \cap Joys = {} /\ Holds(f.list, f.seen)
  BY <1>1 DEF EndGood
<1>3. clk' = f.clk /\ seen' = f.seen
  BY <1>2, Loaded
<1> PICK t : t = list'
  OBVIOUS
<1>4. ReadsAs(t, f.list, f.seen)
  BY <1>2, ReadHolds
<1>5. Holds(t, f.seen) /\ EndsAt(t, Len(t)) /\ t[1] = f.list[1]
  BY <1>4 DEF ReadsAs, Holds, EndsAt
<1>6. RecordGood'
  BY <1>3, <1>5, Records
<1>7. FilesGood'
  <2>1. t[1].type = "initial save" => StartGood(start_file)
    BY <1>1, <1>5 DEF EndGood
  <2> QED BY <2>1 DEF FilesGood, EndGood, StartGood, files
<1> QED BY <1>2, <1>3, <1>6, <1>7

LEMMA RecordLoadKeeps ==
  ASSUME IInv, RecordLoad
  PROVE  IInv'
<1>1. /\ Serve("record load") /\ end_file # NoFile /\ Load(end_file)
      /\ list' = WithTimestamps(end_file.list).out /\ current' = Len(list')
      /\ record_active' /\ UNCHANGED <<playback_active, playback_reset_ack>>
      /\ UNCHANGED <<reset, files>>
  BY DEF RecordLoad, Recording
<1>2. trap = "record load"
  BY <1>1 DEF Serve
<1>3. ~playback_active /\ lines \cap Joys = {}
  BY <1>2 DEF IInv, TrapGood
<1>4. RecordGood' /\ FilesGood' /\ clk' \in Nat
  BY <1>1, <1>3, GoesOn DEF IInv
<1>5. /\ ClockGood' /\ LatchesGood' /\ TrapGood' /\ trap' = "none"
      /\ ~reset /\ ~playback_reset_ack
  BY <1>1, <1>4, Served DEF Unsettling
<1>6. ResetGood' /\ PlayGood' /\ IdleGood'
  BY <1>1, <1>3, <1>5 DEF ResetGood, PlayGood, IdleGood
<1> QED BY <1>4, <1>5, <1>6 DEF IInv

LEMMA MilestoneResetKeeps ==
  ASSUME IInv, MilestoneReset
  PROVE  IInv'
<1>1. /\ Serve("reset milestone") /\ end_file # NoFile /\ Load(end_file)
      /\ list' = WithTimestamps(end_file.list).out /\ current' = Len(list')
      /\ record_active' /\ UNCHANGED <<playback_active, playback_reset_ack>>
      /\ UNCHANGED <<reset, files>>
  BY DEF MilestoneReset
<1>2. trap = "reset milestone"
  BY <1>1 DEF Serve
<1>3. ~playback_active /\ lines \cap Joys = {}
  BY <1>2 DEF IInv, TrapGood
<1>4. RecordGood' /\ FilesGood' /\ clk' \in Nat
  BY <1>1, <1>3, GoesOn DEF IInv
<1>5. /\ ClockGood' /\ LatchesGood' /\ TrapGood' /\ trap' = "none"
      /\ ~reset /\ ~playback_reset_ack
  BY <1>1, <1>4, Served DEF Unsettling
<1>6. ResetGood' /\ PlayGood' /\ IdleGood'
  BY <1>1, <1>3, <1>5 DEF ResetGood, PlayGood, IdleGood
<1> QED BY <1>4, <1>5, <1>6 DEF IInv

\* What was played is recorded.
LEMMA RecordOverPlaybackKeeps ==
  ASSUME IInv, RecordOverPlayback
  PROVE  IInv'
<1>1. /\ Serve("record playback") /\ list' = CutList
      /\ record_active' /\ UNCHANGED <<playback_active, playback_reset_ack>>
      /\ UNCHANGED <<machine, reset, current, files>>
  BY DEF RecordOverPlayback, Recording
<1>2. UNCHANGED <<clk, seen>> /\ clk \in Nat
  BY <1>1 DEF machine, IInv, ClockGood
<1>3. /\ ClockGood' /\ LatchesGood' /\ TrapGood' /\ trap = "record playback" /\ trap' = "none"
      /\ ~reset /\ ~playback_active /\ ~playback_reset_ack
  BY <1>1, <1>2, Served
<1>4. /\ list \in Seq(Nd) /\ Begins(list) /\ IsSeq(seen) /\ EndsAt(list, Len(list))
      /\ current \in 2 .. Len(list) /\ Acts(list, current - 1) = Got(seen)
  BY <1>3 DEF IInv, PlayGood, Played, AtReset
<1> PICK s, t, c, e : s = list /\ t = list' /\ c = current /\ e = seen
  OBVIOUS
<1>5. t = [SubSeq(s, 1, c) EXCEPT ![c].type = "end"]
  BY <1>1 DEF CutList
<1>6. CutAs(t, s, c, e)
  <2>1. /\ s \in Seq(Nd) /\ Begins(s) /\ IsSeq(e) /\ EndsAt(s, Len(s))
        /\ c \in 2 .. Len(s) /\ Acts(s, c - 1) = Got(e)
    BY <1>4
  <2>2. CutAs([SubSeq(s, 1, c) EXCEPT ![c].type = "end"], s, c, e)
    BY <2>1, CutHolds
  <2> QED BY <1>5, <2>2
<1>7. Holds(t, e) /\ EndsAt(t, Len(t)) /\ Len(t) = c /\ t[1] = s[1]
  BY <1>6 DEF CutAs
<1>8. RecordGood'
  BY <1>1, <1>2, <1>3, <1>7, Records
<1>9. ResetGood' /\ PlayGood' /\ IdleGood'
  BY <1>1, <1>3 DEF ResetGood, PlayGood, IdleGood
<1>10. FilesGood'
  BY <1>1, <1>3, <1>7, FilesSame DEF IInv
<1> QED BY <1>3, <1>8, <1>9, <1>10 DEF IInv

\* The snapshot of a recording is good.
LEMMA SnapshotGood ==
  ASSUME IInv, record_active, lines \cap Joys = {}
  PROVE  EndGood(Snapshot(list))
<1>1. Holds(list, seen) /\ clk \in Nat
  BY DEF IInv, RecordGood, ClockGood
<1>2. Holds(Written(list), seen) /\ Written(list)[1] = list[1]
  BY <1>1, WrittenHolds
<1>3. list[1].type = "initial save" => StartGood(start_file)
  BY DEF IInv, FilesGood
<1> PICK f : f = Snapshot(list)
  OBVIOUS
<1>4. f.clk = clk /\ f.lines = lines /\ f.list = Written(list) /\ f.seen = seen
  BY DEF Snapshot
<1>5. EndGood(f)
  BY <1>1, <1>2, <1>3, <1>4 DEF EndGood
<1> QED BY <1>5

LEMMA RecordStoppedKeeps ==
  ASSUME IInv, RecordStopped
  PROVE  IInv'
<1>1. /\ Serve("record stop") /\ end_file' = Snapshot(list) /\ ~record_active'
      /\ UNCHANGED <<machine, reset, playback_active, playback_reset_ack, history,
                     event_alarm, stamps, start_file>>
  BY DEF RecordStopped
<1>2. UNCHANGED <<clk, seen, list, current>> /\ clk \in Nat
  BY <1>1 DEF machine, history, IInv, ClockGood
<1>3. /\ ClockGood' /\ LatchesGood' /\ TrapGood' /\ trap' = "none" /\ record_active
      /\ ~reset /\ ~playback_active /\ ~playback_reset_ack /\ lines \cap Joys = {}
  BY <1>1, <1>2, Served
<1>4. EndGood(Snapshot(list))
  BY <1>3, SnapshotGood
<1>5. current \in DOMAIN list /\ list[current].type = "end" /\ current # 0
  <2>1. /\ current \in DOMAIN list /\ list[current].type = "end" /\ list \in Seq(Nd)
        /\ current = Len(list)
    BY <1>3 DEF IInv, RecordGood, Holds
  <2>2. current >= 1
    BY <2>1, HasLast
  <2> QED BY <2>1, <2>2
<1>6. RecordGood' /\ ResetGood' /\ PlayGood'
  BY <1>1, <1>3 DEF RecordGood, ResetGood, PlayGood
<1>7. IdleGood'
  BY <1>1, <1>2, <1>3, <1>5 DEF IdleGood
<1>8. FilesGood'
  <2>1. EndGood(end_file)'
    BY <1>1, <1>4 DEF EndGood, StartGood
  <2> QED BY <1>1, <1>3, <2>1 DEF FilesGood
<1> QED BY <1>3, <1>6, <1>7, <1>8 DEF IInv

LEMMA MilestoneSetKeeps ==
  ASSUME IInv, MilestoneSet
  PROVE  IInv'
<1>1. /\ Serve("set milestone") /\ end_file' = Snapshot(list)
      /\ UNCHANGED <<machine, reset, modes, history, event_alarm, next_timestamp_clk,
                     start_file>>
  BY DEF MilestoneSet
<1>2. UNCHANGED <<clk, seen, list, current, record_active, playback_active, playback_reset_ack>>
      /\ clk \in Nat
  BY <1>1 DEF machine, modes, history, IInv, ClockGood
<1>3. /\ ClockGood' /\ LatchesGood' /\ TrapGood' /\ trap = "set milestone" /\ trap' = "none"
      /\ record_active /\ ~reset /\ ~playback_active /\ ~playback_reset_ack
      /\ lines \cap Joys = {}
  BY <1>1, <1>2, Served
<1>4. EndGood(Snapshot(list))
  BY <1>3, SnapshotGood
<1>5. RecordGood'
  BY <1>2, <1>3 DEF IInv, RecordGood
<1>6. ResetGood' /\ PlayGood' /\ IdleGood'
  BY <1>1, <1>2, <1>3 DEF ResetGood, PlayGood, IdleGood
<1>7. FilesGood'
  <2>1. EndGood(end_file)'
    BY <1>1, <1>4 DEF EndGood, StartGood
  <2> QED BY <1>1, <1>2, <1>3, <2>1 DEF IInv, FilesGood, StartGood
<1> QED BY <1>3, <1>5, <1>6, <1>7 DEF IInv

LEMMA HasTwo ==
  /\ 2 - 1 = 1
  /\ \A s \in Seq(Nd) : Begins(s) => /\ 1 \in 1 .. Len(s) /\ 2 \in 2 .. Len(s) /\ 1 - 1 = 0
BY DEF Begins

\* A playback begins before the first event.
LEMMA PlaybackStartsKeeps ==
  ASSUME IInv, PlaybackStarts
  PROVE  IInv'
<1>1. /\ Serve("playback start") /\ end_file # NoFile /\ current' = 2 /\ playback_active'
      /\ list' = WithTimestamps(end_file.list).out
      /\ UNCHANGED <<record_active, milestone_timestamp_alarm, files>>
  BY DEF PlaybackStarts
<1> PICK f, t : f = end_file /\ t = list'
  OBVIOUS
<1>2. EndGood(f) /\ Holds(f.list, f.seen)
  BY <1>1 DEF IInv, FilesGood, EndGood
<1>3. ReadsAs(t, f.list, f.seen)
  BY <1>1, <1>2, ReadHolds
<1>4. /\ t \in Seq(Nd) /\ Begins(t) /\ EndsAt(t, Len(t))
      /\ Acts(t, Len(t)) = Got(f.seen) /\ t[1] = f.list[1]
      /\ t[1].type = "initial reset" => t[2].type # "reset"
  BY <1>3 DEF ReadsAs
<1>5. trap = "playback start" /\ trap' = "none" /\ phase' = "interrupts"
  BY <1>1 DEF Serve
<1>6. ~reset /\ ~record_active /\ lines \cap Joys = {} /\ ~playback_reset_ack
      /\ \A d \in Latched : due[d] = Off
  BY <1>5 DEF IInv, TrapGood, ResetGood, Unsettling
<1>7. /\ seen' = <<>> /\ clk' \in Nat
      /\ (~reset' /\ ~playback_reset_ack') \/ (reset' /\ t[1].type = "initial reset")
  <2>1. CASE t[1].type = "initial save"
    <3>1. Load(start_file) /\ UNCHANGED <<reset, playback_reset_ack>>
      BY <2>1 DEF PlaybackStarts
    <3>2. StartGood(start_file)
      BY <1>2, <1>4, <2>1 DEF EndGood
    <3>3. clk' = start_file.clk /\ seen' = start_file.seen
      BY <1>6, <3>1, <3>2, Loaded DEF StartGood
    <3> QED BY <1>6, <3>1, <3>2, <3>3 DEF StartGood
  <2>2. CASE t[1].type # "initial save"
    <3>1. t[1].type = "initial reset"
      BY <1>4, <2>2 DEF Begins, Starts
    <3>2. seen' = <<>> /\ reset' /\ UNCHANGED clk
      BY <2>2 DEF PlaybackStarts
    <3> QED BY <3>1, <3>2 DEF IInv, ClockGood
  <2> QED BY <2>1, <2>2
<1>8. ClockGood' /\ LatchesGood' /\ TrapGood' /\ due' = due
  BY <1>1, <1>7, Served DEF Unsettling
<1>9. Acts(t, 1) = Got(<<>>) /\ IsSeq(<<>>) /\ 2 \in 2 .. Len(t)
  <2>1. t[1].type \in Starts
    BY <1>4 DEF Begins
  <2>2. 1 \in 1 .. Len(t) /\ 2 \in 2 .. Len(t) /\ 1 - 1 = 0
    BY <1>4, HasTwo
  <2>3. Acts(t, 1) = ActsOne(t[1], Acts(t, 1 - 1))
    BY <1>4, <2>2, ActsStep
  <2>4. t[1].type \notin InputTypes
    BY <2>1 DEF Starts, InputTypes
  <2>5. Acts(t, 1) = <<>>
    BY <2>2, <2>3, <2>4, ActsNone DEF ActsOne
  <2>6. Got(<<>>) = <<>> /\ IsSeq(<<>>)
    BY EmptySeq DEF Got, IsSeq
  <2> QED BY <2>2, <2>5, <2>6
<1>10. PlayGood'
  <2>1. Played' = 1
    <3>1. ~AtReset'
      BY <1>1, <1>4, <1>7 DEF AtReset
    <3>2. 2 - 1 = 1
      BY HasTwo
    <3> QED BY <1>1, <3>1, <3>2 DEF Played
  <2>2. UNCHANGED end_file
    BY <1>1 DEF files
  <2> QED BY <1>1, <1>4, <1>5, <1>6, <1>7, <1>8, <1>9, <2>1, <2>2 DEF PlayGood
<1>11. RecordGood'
  BY <1>1, <1>6, RecordSame
<1>12. ResetGood' /\ IdleGood'
  BY <1>1, <1>6, <1>7, <1>8 DEF ResetGood, IdleGood
<1>13. FilesGood'
  <2>1. list'[1].type = "initial save" => StartGood(start_file)
    BY <1>2, <1>4 DEF EndGood
  <2>2. UNCHANGED <<start_file, end_file>>
    BY <1>1 DEF files
  <2> QED BY <1>2, <2>1, <2>2 DEF FilesGood, EndGood, StartGood
<1> QED BY <1>8, <1>10, <1>11, <1>12, <1>13 DEF IInv

LEMMA SnapshotFailsKeeps ==
  ASSUME Careful, IInv, SnapshotFails
  PROVE  IInv'
<1>1. /\ Serve(trap) /\ record_active' = (record_active /\ trap # "reset milestone")
      /\ UNCHANGED <<machine, reset, playback_active, playback_reset_ack, history,
                     event_alarm, stamps, files>>
  BY DEF SnapshotFails
<1>2. trap \in {"record save", "set milestone", "record load", "playback start", "reset milestone"}
  BY CarefulUser DEF SnapshotFails
<1>3. UNCHANGED <<clk, seen, list, current>> /\ clk \in Nat
  BY <1>1 DEF machine, history, IInv, ClockGood
<1>4. /\ ClockGood' /\ LatchesGood' /\ TrapGood' /\ trap' = "none"
      /\ ~reset /\ ~playback_active /\ ~playback_reset_ack
      /\ record_active <=> trap \in {"record stop", "set milestone", "reset milestone"}
  <2>1. trap # "none"
    BY <1>2
  <2> QED BY <1>1, <1>3, <2>1, Served
<1>5. RecordGood'
  BY <1>1, <1>2, <1>3, <1>4 DEF IInv, RecordGood
<1>6. ResetGood' /\ PlayGood'
  BY <1>1, <1>4 DEF ResetGood, PlayGood
<1>7. IdleGood'
  <2>1. record_active => current # 0 /\ list[current].type = "end"
    <3> SUFFICES ASSUME record_active PROVE current # 0 /\ list[current].type = "end"
      OBVIOUS
    <3>1. /\ current \in DOMAIN list /\ list[current].type = "end" /\ list \in Seq(Nd)
          /\ current = Len(list)
      BY DEF IInv, RecordGood, Holds
    <3>2. current >= 1
      BY <3>1, HasLast
    <3> QED BY <3>1, <3>2
  <2> QED BY <1>1, <1>3, <1>4, <2>1 DEF IInv, IdleGood
<1>8. FilesGood'
  BY <1>1, <1>3, <1>4, FilesSame DEF IInv
<1> QED BY <1>4, <1>5, <1>6, <1>7, <1>8 DEF IInv

LEMMA ServeTrapKeeps ==
  ASSUME Careful, IInv, ServeTrap
  PROVE  IInv'
BY RecordSaveKeeps, RecordResetKeeps, RecordLoadKeeps, RecordOverPlaybackKeeps,
   RecordStoppedKeeps, MilestoneSetKeeps, MilestoneResetKeeps, PlaybackStartsKeeps,
   SnapshotFailsKeeps DEF ServeTrap

-----------------------------------------------------------------------------
(* The machine *)

LEMMA StartLineKeeps ==
  ASSUME IInv, StartLine
  PROVE  IInv'
<1>1. /\ phase = "alarms" /\ raster /\ phase' = "line" /\ ~raster'
      /\ UNCHANGED <<clk, lines, age, seen>> /\ UNCHANGED <<latch, due>>
      /\ UNCHANGED <<reset, trap, event_alarm>>
      /\ UNCHANGED <<record_active, playback_active, playback_reset_ack>>
      /\ UNCHANGED <<list, current>> /\ UNCHANGED files
  BY DEF StartLine, machine, inputs, modes, history
<1>2. ClockGood'
  BY <1>1 DEF IInv, ClockGood
<1>3. LatchesGood'
  BY <1>1 DEF IInv, LatchesGood
<1>4. TrapGood' /\ ResetGood' /\ IdleGood'
  BY <1>1 DEF IInv, TrapGood, ResetGood, IdleGood
<1>5. RecordGood'
  BY <1>1 DEF IInv, RecordGood
<1>6. PlayGood'
  BY <1>1 DEF IInv, PlayGood, Played, AtReset, files
<1>7. FilesGood'
  BY <1>1, FilesSame DEF IInv
<1> QED BY <1>2, <1>3, <1>4, <1>5, <1>6, <1>7 DEF IInv

LEMMA LatchHandlerKeeps ==
  ASSUME IInv, NEW d \in Latched, LatchHandler(d)
  PROVE  IInv'
<1>1. /\ phase = "alarms" /\ due[d] # Off /\ due[d] <= clk /\ due' = [due EXCEPT ![d] = Off]
      /\ UNCHANGED <<clk, phase, raster, reset, trap, event_alarm>>
      /\ UNCHANGED <<record_active, playback_active, playback_reset_ack>> /\ UNCHANGED files
  BY DEF LatchHandler, Due, flow, modes
<1>2. trap = "none" /\ ~reset /\ ~playback_active
  <2>1. due[d] \in Nat /\ clk \in Nat
    BY <1>1 DEF IInv, LatchesGood, ClockGood
  <2>2. ~ (due[d] > clk)
    BY <1>1, <2>1
  <2> QED BY <1>1, <2>2 DEF IInv, TrapGood, ResetGood, PlayGood
<1> PICK data : data = latch \cap LinesOf[d]
  OBVIOUS
<1>3. data \in SUBSET Lines /\ Record(d, data) /\ Sees(d, data)
  <2>1. LinesOf[d] \subseteq Lines
    BY DEF Latched, LinesOf, Lines
  <2> QED BY <2>1 DEF LatchHandler
<1>4. d \in InputTypes /\ d # "reset" /\ clk \in Int
  BY DEF Latched, InputTypes, IInv, ClockGood
<1>5. RecordGood' /\ (record_active => list'[1] = list[1])
  BY <1>1, <1>2, <1>3, <1>4, RecordMore DEF IInv
<1>6. ClockGood'
  BY <1>1 DEF IInv, ClockGood
<1>7. LatchesGood'
  <2>1. DOMAIN due = Latched
    BY DEF IInv, LatchesGood
  <2>2. DOMAIN due' = Latched /\ due'[d] = Off /\ \A x \in Latched : x # d => due'[x] = due[x]
    BY <1>1, <2>1
  <2> QED BY <1>1, <2>2 DEF IInv, LatchesGood
<1>8. TrapGood' /\ ResetGood' /\ PlayGood'
  BY <1>1, <1>2 DEF IInv, TrapGood, ResetGood, PlayGood
<1>9. IdleGood'
  <2>1. ~record_active => UNCHANGED <<list, current>>
    BY <1>3 DEF Record, history
  <2> QED BY <1>1, <2>1 DEF IInv, IdleGood
<1>10. FilesGood'
  BY <1>1, <1>2, <1>5, FilesSame DEF IInv
<1> QED BY <1>5, <1>6, <1>7, <1>8, <1>9, <1>10 DEF IInv

\* An event of a playback reaches the machine.
LEMMA EventPlays ==
  ASSUME NEW s \in Seq(Nd), NEW c \in 2 .. Len(s), NEW e, IsSeq(e), Acts(s, c - 1) = Got(e),
         NEW x, Action(x) = Action(s[c])
  PROVE  /\ s[c].type \in InputTypes => Acts(s, c) = Got(Append(e, x)) /\ IsSeq(Append(e, x))
         /\ s[c].type \notin InputTypes => Acts(s, c) = Got(e)
<1>1. c \in 1 .. Len(s)
  OBVIOUS
<1>2. Acts(s, c) = ActsOne(s[c], Got(e))
  BY <1>1, ActsStep
<1>3. Got(Append(e, x)) = Append(Got(e), Action(s[c])) /\ IsSeq(Append(e, x))
  <2>1. Got(Append(e, x)) = Append(Got(e), Action(x))
    BY GotMore
  <2>2. IsSeq(Append(e, x))
    BY Appended
  <2> QED BY <2>1, <2>2
<1> QED BY <1>2, <1>3 DEF ActsOne

\* The node after one that is not the end of its list.
LEMMA NotLast ==
  ASSUME NEW s \in Seq(Nd), NEW c \in 2 .. Len(s), EndsAt(s, Len(s)), s[c].type # "end"
  PROVE  c + 1 \in 2 .. Len(s) /\ (c + 1) - 1 = c
<1>1. c # Len(s)
  BY DEF EndsAt
<1> QED BY <1>1

LEMMA EventAlarmKeeps ==
  ASSUME IInv, EventAlarm
  PROVE  IInv'
<1>1. /\ phase = "alarms" /\ event_alarm # Off
      /\ UNCHANGED <<clk, due, phase, raster, trap, record_active, playback_reset_ack, list>>
      /\ UNCHANGED files
  BY DEF EventAlarm, Due, flow
<1>2. ClockGood' /\ LatchesGood'
  BY <1>1 DEF IInv, ClockGood, LatchesGood
<1>3. CASE record_active
  <2>1. UNCHANGED <<lines, seen, reset, playback_active, current>> /\ ~playback_active
    BY <1>3 DEF EventAlarm, IInv, RecordGood
  <2>2. trap # "record playback"
    BY <1>3 DEF IInv, TrapGood
  <2>3. TrapGood' /\ ResetGood' /\ PlayGood' /\ IdleGood'
    BY <1>1, <1>3, <2>1, <2>2 DEF IInv, TrapGood, ResetGood, PlayGood, IdleGood
  <2>4. RecordGood'
    BY <1>1, <2>1 DEF IInv, RecordGood
  <2>5. FilesGood'
    BY <1>1, <2>1, FilesSame DEF IInv
  <2> QED BY <1>2, <2>3, <2>4, <2>5 DEF IInv
<1>4. CASE ~record_active /\ ~playback_active
  <2>1. list[current].type = "end"
    BY <1>1, <1>4 DEF IInv, IdleGood
  <2>2. Apply(list[current]) /\ event_alarm' = Off /\ UNCHANGED current
    BY <1>4, <2>1 DEF EventAlarm
  <2>3. UNCHANGED <<lines, seen>> /\ (reset' <=> reset) /\ ~playback_active'
    BY <1>4, <2>1, <2>2 DEF Apply, InputTypes
  <2>4. TrapGood' /\ ResetGood'
    BY <1>1, <1>4, <2>3 DEF IInv, TrapGood, ResetGood
  <2>5. PlayGood'
    BY <1>1, <1>4, <2>2, <2>3 DEF IInv, PlayGood, Played, AtReset, files
  <2>6. IdleGood'
    BY <1>1, <1>4, <2>2, <2>3 DEF IInv, IdleGood
  <2>7. RecordGood'
    BY <1>1, <1>4, RecordSame
  <2>8. FilesGood'
    BY <1>1, <1>4, <2>3, FilesSame DEF IInv
  <2> QED BY <1>2, <2>4, <2>5, <2>6, <2>7, <2>8 DEF IInv
<1>5. CASE ~record_active /\ playback_active
  <2> PICK s, c, e : s = list /\ c = current /\ e = seen
    OBVIOUS
  <2>1. /\ s \in Seq(Nd) /\ Begins(s) /\ IsSeq(e) /\ EndsAt(s, Len(s)) /\ c \in 2 .. Len(s)
        /\ Acts(s, Len(s)) = Got(end_file.seen)
        /\ \A d \in Latched : due[d] = Off
        /\ ~reset /\ Acts(s, c - 1) = Got(e)
    BY <1>1, <1>5 DEF IInv, PlayGood, Played, AtReset
  <2>2. trap = "none"
    BY <1>5 DEF IInv, TrapGood
  <2> PICK n, x : n = s[c] /\ x = Entry(n.type, n.data)
    OBVIOUS
  <2>3. Apply(n)
    BY <1>5 DEF EventAlarm
  <2>4. /\ n.type \in InputTypes => seen' = Append(e, x)
        /\ n.type \notin InputTypes => seen' = e
        /\ reset' <=> n.type = "reset"
        /\ playback_active' <=> n.type # "end"
    BY <1>5, <2>1, <2>3 DEF Apply, Sees
  <2>5. Action(x) = Action(n)
    BY DEF Action, Entry
  <2>6. /\ n.type \in InputTypes => Acts(s, c) = Got(Append(e, x)) /\ IsSeq(Append(e, x))
        /\ n.type \notin InputTypes => Acts(s, c) = Got(e)
    BY <2>1, <2>5, EventPlays
  <2>7. Acts(s, c) = Got(seen') /\ IsSeq(seen')
    BY <2>1, <2>4, <2>6
  <2>8. TrapGood' /\ ResetGood'
    BY <1>1, <2>1, <2>2, <2>4 DEF IInv, TrapGood, ResetGood
  <2>9. RecordGood'
    BY <1>1, <1>5, RecordSame
  <2>10. FilesGood'
    BY <1>1, <1>5, FilesSame DEF IInv
  <2>11. list' = s /\ trap' = "none" /\ ~record_active' /\ UNCHANGED <<due, end_file>>
    BY <1>1, <1>5, <2>2 DEF files
  <2>12. PlayGood' /\ IdleGood'
    <3>1. CASE n.type = "end"
      <4>1. event_alarm' = Off /\ UNCHANGED current
        BY <1>5, <3>1 DEF EventAlarm
      <4> QED BY <2>4, <2>11, <3>1, <4>1 DEF PlayGood, IdleGood
    <3>2. CASE n.type = "reset"
      <4>1. event_alarm' = Off /\ current' = c /\ reset' /\ playback_active'
        BY <1>5, <2>4, <3>2 DEF EventAlarm
      <4>2. Played' = c
        BY <2>11, <3>2, <4>1 DEF Played, AtReset
      <4> QED BY <2>1, <2>7, <2>11, <4>1, <4>2 DEF PlayGood, IdleGood
    <3>3. CASE n.type # "end" /\ n.type # "reset"
      <4>1. current' = c + 1 /\ ~reset' /\ playback_active'
        BY <1>5, <2>4, <3>3 DEF EventAlarm
      <4>2. c + 1 \in 2 .. Len(s) /\ (c + 1) - 1 = c
        BY <2>1, <3>3, NotLast
      <4>3. Played' = c
        BY <4>1, <4>2 DEF Played, AtReset
      <4> QED BY <2>1, <2>7, <2>11, <4>1, <4>2, <4>3 DEF PlayGood, IdleGood
    <3> QED BY <3>1, <3>2, <3>3
  <2> QED BY <1>2, <2>8, <2>9, <2>10, <2>12 DEF IInv
<1> QED BY <1>3, <1>4, <1>5

LEMMA ServeResetKeeps ==
  ASSUME IInv, ServeReset
  PROVE  IInv'
<1>1. /\ trap = "none" /\ reset /\ ~reset' /\ clk' = ResetClk /\ phase' = "interrupts"
      /\ ~playback_reset_ack'
      /\ UNCHANGED <<raster, lines, age, seen, trap, record_active, playback_active, list>>
      /\ UNCHANGED due /\ UNCHANGED files
  BY DEF ServeReset, inputs
<1> PICK skips \in BOOLEAN : skips <=> current # 0 /\ list[current].type = "reset"
  OBVIOUS
<1>2. /\ skips => current' = current + 1
      /\ ~skips => current' = current
      /\ ~record_active /\ ~skips /\ ~playback_reset_ack => event_alarm' = event_alarm
  BY DEF ServeReset, ResetAlarm
<1>3. \A d \in Latched : due[d] = Off
  BY <1>1 DEF IInv, ResetGood
<1>4. ClockGood'
  <2>1. ~raster
    BY DEF ServeReset, Serving, IInv, ClockGood
  <2>2. ResetClk \in Nat
    BY EventHistoryAssumption
  <2> QED BY <1>1, <2>1, <2>2 DEF ClockGood
<1>5. LatchesGood' /\ TrapGood' /\ ResetGood'
  BY <1>1, <1>3 DEF IInv, LatchesGood, TrapGood, ResetGood
<1>6. FilesGood'
  BY <1>1, FilesSame DEF IInv
<1>7. CASE record_active
  <2>1. ~skips /\ ~playback_active
    BY <1>7 DEF IInv, RecordGood
  <2>2. RecordGood'
    BY <1>1, <1>2, <2>1 DEF IInv, RecordGood
  <2>3. PlayGood' /\ IdleGood'
    BY <1>1, <1>7, <2>1 DEF PlayGood, IdleGood
  <2> QED BY <1>4, <1>5, <1>6, <2>2, <2>3 DEF IInv
<1>8. CASE ~record_active /\ ~playback_active
  <2>1. ~skips /\ ~playback_reset_ack
    BY <1>1, <1>8 DEF IInv, IdleGood, ResetGood
  <2>2. RecordGood' /\ PlayGood'
    BY <1>1, <1>8 DEF RecordGood, PlayGood
  <2>3. IdleGood'
    BY <1>1, <1>2, <1>8, <2>1 DEF IInv, IdleGood
  <2> QED BY <1>4, <1>5, <1>6, <2>2, <2>3 DEF IInv
<1>9. CASE ~record_active /\ playback_active
  <2> PICK s, c : s = list /\ c = current
    OBVIOUS
  <2>1. /\ s \in Seq(Nd) /\ Begins(s) /\ IsSeq(seen) /\ EndsAt(s, Len(s)) /\ c \in 2 .. Len(s)
        /\ Acts(s, Played) = Got(seen)
        /\ Acts(s, Len(s)) = Got(end_file.seen)
    BY <1>9 DEF IInv, PlayGood
  <2>2. skips <=> s[c].type = "reset"
    <3>1. c # 0
      BY <2>1
    <3> QED BY <3>1
  <2>3. current' \in 2 .. Len(s) /\ current' - 1 = Played
    <3>1. CASE skips
      <4>1. Played = c
        BY <1>1, <2>2, <3>1 DEF Played, AtReset
      <4>2. c + 1 \in 2 .. Len(s) /\ (c + 1) - 1 = c
        BY <2>1, <2>2, <3>1, NotLast
      <4> QED BY <1>2, <3>1, <4>1, <4>2
    <3>2. CASE ~skips
      <4>1. Played = c - 1
        BY <2>2, <3>2 DEF Played, AtReset
      <4> QED BY <1>2, <2>1, <3>2, <4>1
    <3> QED BY <3>1, <3>2
  <2>4. Played' = Played
    BY <1>1, <2>3 DEF Played, AtReset
  <2>5. UNCHANGED end_file
    BY <1>1 DEF files
  <2>6. PlayGood'
    BY <1>1, <1>3, <1>9, <2>1, <2>3, <2>4, <2>5 DEF PlayGood
  <2>7. RecordGood' /\ IdleGood'
    BY <1>1, <1>9 DEF RecordGood, IdleGood
  <2> QED BY <1>4, <1>5, <1>6, <2>6, <2>7 DEF IInv
<1> QED BY <1>7, <1>8, <1>9

LEMMA TickKeeps ==
  ASSUME IInv, Tick
  PROVE  IInv'
<1>1. /\ trap = "none" /\ ~reset /\ clk' = clk + 1 /\ phase' = "alarms"
      /\ raster' = (clk' % Line = 0)
      /\ UNCHANGED <<lines, seen, latch, due, reset, trap, event_alarm>>
      /\ UNCHANGED <<record_active, playback_active, playback_reset_ack, list, current>>
      /\ UNCHANGED files
  BY DEF Tick, inputs, modes, history
<1>2. clk \in Nat /\ clk + 1 \in Nat /\ clk + 1 > 0
  BY DEF IInv, ClockGood
<1>3. ClockGood'
  BY <1>1, <1>2 DEF ClockGood
<1>4. LatchesGood'
  <2>1. DOMAIN due = Latched
    BY DEF IInv, LatchesGood
  <2>2. ASSUME NEW d \in Latched, due[d] # Off PROVE due[d] \in Nat /\ due[d] >= clk + 1
    <3>1. due[d] \in Nat /\ due[d] >= clk /\ (phase = "interrupts" => due[d] > clk)
      BY <2>2 DEF IInv, LatchesGood
    <3>2. phase = "interrupts" \/ ~ (due[d] <= clk)
      BY <2>2 DEF Tick, Serving, Due
    <3> QED BY <1>2, <3>1, <3>2
  <2> QED BY <1>1, <2>1, <2>2 DEF LatchesGood
<1>5. TrapGood' /\ ResetGood' /\ IdleGood'
  BY <1>1 DEF IInv, TrapGood, ResetGood, IdleGood
<1>6. RecordGood'
  BY <1>1 DEF IInv, RecordGood
<1>7. PlayGood'
  BY <1>1 DEF IInv, PlayGood, Played, AtReset, files
<1>8. FilesGood'
  BY <1>1, FilesSame DEF IInv
<1> QED BY <1>3, <1>4, <1>5, <1>6, <1>7, <1>8 DEF IInv

\* The guard of the clock moves the clock and the alarms alike, and records that it did.
LEMMA OverflowRecords ==
  ASSUME RecordGood, UNCHANGED <<record_active, playback_active, trap, seen>>, clk \in Int,
         IF record_active
         THEN /\ list' = InList(list, current, Node("overflow", clk - Sub, {}))
              /\ current' = current + 1
         ELSE UNCHANGED history
  PROVE  RecordGood' /\ (record_active => list'[1] = list[1])
<1> SUFFICES ASSUME record_active
             PROVE  RecordGood' /\ list'[1] = list[1]
  BY DEF RecordGood
<1>1. /\ ~playback_active /\ Holds(list, seen)
      /\ current = Len(list) /\ current \in DOMAIN list /\ list[current].type = "end"
      /\ trap # "record stop" => EndsAt(list, current)
  BY DEF RecordGood
<1> PICK b : b = clk - Sub
  OBVIOUS
<1>2. b \in Int
  BY SubIs
<1> PICK n : n = Node("overflow", b, {})
  OBVIOUS
<1> PICK s, t, e : s = list /\ t = list' /\ e = seen
  OBVIOUS
<1>3. n \in Nd /\ n.type = "overflow"
  <2>1. "overflow" \in NodeTypes /\ "overflow" # "reset" /\ {} \in SUBSET Lines
    BY DEF NodeTypes
  <2> QED BY <1>2, <2>1, NodeIs
<1>4. s \in Seq(Nd) /\ Len(s) >= 1 /\ s[Len(s)].type = "end"
  <2>1. s \in Seq(Nd) /\ Len(s) \in DOMAIN s /\ s[Len(s)].type = "end"
    BY <1>1 DEF Holds
  <2> QED BY <2>1, HasLast
<1>5. t = InList(s, Len(s), n) /\ current' = Len(s) + 1
  BY <1>1
<1>6. Grown(s, n, t)
  BY <1>3, <1>4, <1>5, InListGrows
<1>7. n.type \notin Starts /\ n.type \notin InputTypes /\ n.type # "end"
  BY <1>3 DEF Starts, InputTypes
<1>8. Holds(t, e) /\ t[1] = s[1] /\ Len(t) \in DOMAIN t /\ t[Len(t)].type = "end"
  <2>1. Holds(s, e)
    BY <1>1
  <2> QED BY <1>6, <1>7, <2>1, GrownKeeps
<1>9. trap # "record stop" => EndsAt(t, Len(t))
  BY <1>1, <1>6, <1>7, GrownHolds
<1>10. current' = Len(t) /\ seen' = e
  BY <1>5, <1>6 DEF Grown
<1> QED BY <1>1, <1>8, <1>9, <1>10 DEF RecordGood

LEMMA EndLineKeeps ==
  ASSUME IInv, EndLine
  PROVE  IInv'
<1>1. /\ phase = "line" /\ phase' = "alarms"
      /\ UNCHANGED <<raster, lines, age, seen, latch, reset, trap>>
      /\ UNCHANGED <<record_active, playback_active, playback_reset_ack>>
      /\ UNCHANGED files
  BY DEF EndLine, Acting, modes
<1>2. clk \in Nat /\ ~raster
  BY <1>1 DEF IInv, ClockGood
<1>3. CASE ~Warps(clk)
  <2>1. UNCHANGED <<clk, due, event_alarm, next_timestamp_clk, list, current>>
    BY <1>3 DEF EndLine, history
  <2>2. ClockGood' /\ LatchesGood'
    BY <1>1, <1>2, <2>1 DEF IInv, ClockGood, LatchesGood
  <2>3. TrapGood' /\ ResetGood' /\ IdleGood'
    BY <1>1, <2>1 DEF IInv, TrapGood, ResetGood, IdleGood
  <2>4. RecordGood'
    BY <1>1, <2>1 DEF IInv, RecordGood
  <2>5. PlayGood'
    BY <1>1, <2>1 DEF IInv, PlayGood, Played, AtReset, files
  <2>6. FilesGood'
    BY <1>1, <2>1, FilesSame DEF IInv
  <2> QED BY <2>2, <2>3, <2>4, <2>5, <2>6 DEF IInv
<1>4. CASE Warps(clk)
  <2>1. PreventOverflow
    BY <1>4 DEF EndLine
  <2> PICK sub \in Nat : sub = Sub /\ sub <= clk
    <3>1. GuardMax \in Nat /\ clk >= GuardMax
      BY <1>4, EventHistoryAssumption DEF Warps
    <3> QED BY <1>2, <3>1, SubIs
  <2>2. clk' = clk - sub /\ clk' \in Nat
    BY <1>2, <2>1 DEF PreventOverflow
  <2>3. DOMAIN due' = Latched /\ \A d \in Latched : due'[d] = Warped(due[d])
    BY <2>1 DEF PreventOverflow
  <2>4. \A d \in Latched : due[d] = Off => due'[d] = Off
    BY <2>3 DEF Warped
  <2>5. ASSUME NEW d \in Latched, due[d] # Off
        PROVE  /\ due[d] \in Nat /\ due'[d] \in Nat /\ due'[d] >= clk'
               /\ due[d] > clk => due'[d] > clk'
    <3>1. due[d] \in Nat /\ due[d] >= clk
      BY <2>5 DEF IInv, LatchesGood
    <3>2. due'[d] = due[d] - sub
      BY <2>3, <2>5 DEF Warped
    <3> QED BY <1>2, <2>2, <3>1, <3>2
  <2>6. ClockGood'
    BY <1>1, <1>2, <2>2 DEF ClockGood
  <2>7. LatchesGood'
    BY <1>1, <2>3, <2>4, <2>5 DEF LatchesGood
  <2>8. TrapGood' /\ ResetGood'
    BY <1>1, <2>4, <2>5 DEF IInv, TrapGood, ResetGood
  <2>9. RecordGood' /\ (record_active => list'[1] = list[1])
    <3>1. clk \in Int
      BY <1>2
    <3> QED BY <1>1, <2>1, <3>1, OverflowRecords DEF IInv, PreventOverflow
  <2>10. ~record_active => UNCHANGED <<list, current>>
    BY <2>1 DEF PreventOverflow, history
  <2>11. event_alarm = Off => event_alarm' = Off
    BY <2>1 DEF PreventOverflow, Warped
  <2>12. PlayGood'
    <3>1. record_active => ~playback_active /\ trap # "record playback"
      BY DEF IInv, RecordGood, TrapGood
    <3>2. UNCHANGED end_file
      BY <1>1 DEF files
    <3> QED BY <1>1, <2>4, <2>10, <2>11, <3>1, <3>2 DEF IInv, PlayGood, Played, AtReset
  <2>13. IdleGood'
    BY <1>1, <2>10, <2>11 DEF IInv, IdleGood
  <2>14. FilesGood'
    BY <1>1, <2>9, <2>10, FilesSame DEF IInv
  <2> QED BY <2>6, <2>7, <2>8, <2>9, <2>12, <2>13, <2>14 DEF IInv
<1> QED BY <1>3, <1>4

LEMMA RestartKeeps ==
  ASSUME IInv, Restart
  PROVE  IInv'
<1>1. /\ clk' \in StartClks /\ phase' = "interrupts" /\ ~raster'
      /\ due' = [d \in Latched |-> Off]
      /\ ~reset' /\ trap' = "none"
      /\ ~record_active' /\ ~playback_active' /\ ~playback_reset_ack'
      /\ current' = 0 /\ event_alarm' = Off /\ UNCHANGED files
  BY DEF Restart
<1>2. ClockGood'
  BY <1>1, EventHistoryAssumption DEF ClockGood
<1>3. LatchesGood' /\ TrapGood' /\ ResetGood'
  BY <1>1 DEF LatchesGood, TrapGood, ResetGood
<1>4. RecordGood' /\ PlayGood' /\ IdleGood'
  BY <1>1 DEF RecordGood, PlayGood, IdleGood
<1>5. FilesGood'
  BY <1>1 DEF IInv, FilesGood, EndGood, StartGood, files
<1> QED BY <1>2, <1>3, <1>4, <1>5 DEF IInv

-----------------------------------------------------------------------------
(* The theorems *)

LEMMA Starting ==
  ASSUME Init
  PROVE  IInv
<1>1. ClockGood /\ LatchesGood /\ TrapGood /\ ResetGood
  BY EventHistoryAssumption DEF Init, ClockGood, LatchesGood, TrapGood, ResetGood
<1>2. RecordGood /\ PlayGood /\ IdleGood /\ FilesGood
  BY DEF Init, RecordGood, PlayGood, IdleGood, FilesGood
<1> QED BY <1>1, <1>2 DEF IInv

LEMMA Stuttering ==
  ASSUME IInv, UNCHANGED vars
  PROVE  IInv'
<1>1. ClockGood' /\ LatchesGood' /\ TrapGood' /\ ResetGood'
  BY DEF vars, IInv, ClockGood, LatchesGood, TrapGood, ResetGood
<1>2. RecordGood' /\ IdleGood'
  BY DEF vars, IInv, RecordGood, IdleGood
<1>3. PlayGood'
  BY DEF vars, IInv, PlayGood, Played, AtReset
<1>4. FilesGood'
  BY DEF vars, IInv, FilesGood, EndGood, StartGood
<1> QED BY <1>1, <1>2, <1>3, <1>4 DEF IInv

LEMMA Stepping ==
  ASSUME Careful, IInv, [Next]_vars
  PROVE  IInv'
<1>1. CASE Emulator
  <2>1. CASE \E d \in Latched : LatchHandler(d)
    BY <2>1, LatchHandlerKeeps
  <2> QED BY <1>1, <2>1, StartLineKeeps, EndLineKeeps, EventAlarmKeeps, ServeTrapKeeps,
             ServeResetKeeps, TickKeeps DEF Emulator
<1> QED BY <1>1, UserKeeps, RestartKeeps, Stuttering DEF Next

\* The files, the list and the machine agree in every state that a careful user reaches.
THEOREM HistoryIsSound ==
  ASSUME Careful
  PROVE  Spec => []IInv
<1>1. Init => IInv
  BY Starting
<1>2. IInv /\ [Next]_vars => IInv'
  BY Stepping
<1> QED BY <1>1, <1>2, PTL DEF Spec

\* A careful user's actions are all recorded: the list of a recording holds what the machine
\* has got since the recording began (event_record, event_snapshot_read_module, cut_list).
\* Of others they are not: a key that the window lets go (keyboard_key_clear), a joystick
\* held at a snapshot, what follows a command whose trap another one has taken or a snapshot
\* that could not be written never gets into the list up to its end.
THEOREM CarefulSessionsAreRecorded ==
  ASSUME Careful
  PROVE  Spec => []AllActionsRecorded
<1>1. IInv => AllActionsRecorded
  <2> SUFFICES ASSUME IInv, record_active
               PROVE  Actions(UpToEnd(list)) = Got(seen)
    BY DEF AllActionsRecorded, Got
  <2>1. Holds(list, seen)
    BY DEF IInv, RecordGood
  <2>2. PICK k \in DOMAIN list : EndsAt(list, k) /\ Acts(list, k) = Got(seen)
    BY <2>1 DEF Holds
  <2>3. list \in Seq(Nd) /\ FirstEnd(list) = k
    BY <2>1, <2>2, FirstEndIs DEF Holds
  <2> QED BY <2>2, <2>3 DEF UpToEnd, Acts
<1>2. Spec => []IInv
  BY HistoryIsSound
<1> QED BY <1>1, <1>2, PTL

\* A sequence that begins with another.
GoesOnFrom(y, x) ==
  /\ IsSeq(x) /\ IsSeq(y) /\ DOMAIN x \subseteq DOMAIN y
  /\ \A i \in DOMAIN x : y[i] = x[i]

LEMMA ActsIsSeq ==
  ASSUME NEW s \in Seq(Nd), NEW k \in 0 .. Len(s)
  PROVE  IsSeq(Acts(s, k))
<1> DEFINE T == {i \in Nat : i <= Len(s) => IsSeq(Acts(s, i))}
<1>1. 0 \in T
  BY ActsNone, EmptySeq DEF IsSeq
<1>2. ASSUME NEW i \in Nat, i \in T PROVE i + 1 \in T
  <2> SUFFICES ASSUME i + 1 <= Len(s) PROVE IsSeq(Acts(s, i + 1))
    OBVIOUS
  <2>1. i + 1 \in 1 .. Len(s) /\ (i + 1) - 1 = i /\ i <= Len(s)
    OBVIOUS
  <2>2. Acts(s, i + 1) = ActsOne(s[i + 1], Acts(s, (i + 1) - 1))
    BY <2>1, ActsStep
  <2> QED BY <1>2, <2>1, <2>2, Appended DEF ActsOne
<1>3. k \in Nat /\ k <= Len(s)
  OBVIOUS
<1> HIDE DEF T
<1>4. k \in T
  BY <1>1, <1>2, <1>3, Induction
<1> QED BY <1>3, <1>4 DEF T

\* The actions of more nodes begin with those of fewer.
LEMMA ActsGoOn ==
  ASSUME NEW s \in Seq(Nd), NEW a \in 0 .. Len(s), NEW b \in 0 .. Len(s), a <= b
  PROVE  GoesOnFrom(Acts(s, b), Acts(s, a))
<1> DEFINE T == {i \in Nat : a + i <= Len(s) => GoesOnFrom(Acts(s, a + i), Acts(s, a))}
<1>0. a \in Nat /\ b \in Nat /\ Len(s) \in Nat /\ a + 0 = a /\ a <= Len(s)
  OBVIOUS
<1>1. 0 \in T
  BY <1>0, ActsIsSeq DEF GoesOnFrom
<1>2. ASSUME NEW i \in Nat, i \in T PROVE i + 1 \in T
  <2> SUFFICES ASSUME a + (i + 1) <= Len(s) PROVE GoesOnFrom(Acts(s, a + (i + 1)), Acts(s, a))
    OBVIOUS
  <2> PICK k : k = a + (i + 1)
    OBVIOUS
  <2>1. k \in 1 .. Len(s) /\ k - 1 = a + i /\ a + i <= Len(s)
    BY <1>0
  <2> PICK x, y : x = Acts(s, a) /\ y = Acts(s, k - 1)
    OBVIOUS
  <2>2. GoesOnFrom(y, x)
    BY <1>2, <2>1
  <2>3. Acts(s, k) = ActsOne(s[k], y)
    BY <2>1, ActsStep
  <2>4. GoesOnFrom(ActsOne(s[k], y), x)
    <3>1. IsSeq(x) /\ IsSeq(y) /\ DOMAIN x \subseteq DOMAIN y /\ \A j \in DOMAIN x : y[j] = x[j]
      BY <2>2 DEF GoesOnFrom
    <3>2. ASSUME NEW e PROVE GoesOnFrom(Append(y, e), x)
      <4>1. /\ IsSeq(Append(y, e)) /\ Len(y) \in Nat
            /\ DOMAIN y = 1 .. Len(y) /\ DOMAIN Append(y, e) = 1 .. Len(y) + 1
            /\ \A j \in 1 .. Len(y) : Append(y, e)[j] = y[j]
        BY <3>1, Appended
      <4>2. 1 .. Len(y) \subseteq 1 .. Len(y) + 1
        BY <4>1
      <4> QED BY <3>1, <4>1, <4>2 DEF GoesOnFrom
    <3> QED BY <2>2, <3>2 DEF ActsOne
  <2> QED BY <2>3, <2>4
<1>3. b - a \in Nat /\ a + (b - a) = b /\ b <= Len(s)
  BY <1>0
<1> HIDE DEF T
<1>4. b - a \in T
  BY <1>1, <1>2, <1>3, Induction
<1> QED BY <1>3, <1>4 DEF T

\* While a careful user's session is played the machine gets what it got at its recording, in
\* the same order and nothing else, and when the end is reached nothing is missing
\* (event_alarm_handler, event_reset_ack).  This is PlaysTheSession without its times.
PlaysInOrder ==
  playback_active =>
    /\ DOMAIN seen \subseteq DOMAIN end_file.seen
    /\ \A i \in DOMAIN seen : Action(seen[i]) = Action(end_file.seen[i])
    /\ list[current].type = "end" => DOMAIN seen = DOMAIN end_file.seen

THEOREM SessionsPlayInOrder ==
  ASSUME Careful
  PROVE  Spec => []PlaysInOrder
<1>1. IInv => PlaysInOrder
  <2> SUFFICES ASSUME IInv, playback_active
               PROVE  PlaysInOrder
    BY DEF PlaysInOrder
  <2> PICK s, c, p, e, f : s = list /\ c = current /\ p = Played /\ e = seen /\ f = end_file.seen
    OBVIOUS
  <2>1. /\ s \in Seq(Nd) /\ EndsAt(s, Len(s)) /\ c \in 2 .. Len(s)
        /\ Acts(s, p) = Got(e) /\ Acts(s, Len(s)) = Got(f)
    BY DEF IInv, PlayGood
  <2>2. p = c \/ p = c - 1
    BY DEF Played
  <2>3. p \in 0 .. Len(s) /\ Len(s) \in 0 .. Len(s) /\ p <= Len(s)
    BY <2>1, <2>2
  <2>4. GoesOnFrom(Got(f), Got(e))
    BY <2>1, <2>3, ActsGoOn
  <2>5. /\ DOMAIN Got(e) = DOMAIN e /\ DOMAIN Got(f) = DOMAIN f
        /\ \A i \in DOMAIN e : Got(e)[i] = Action(e[i])
        /\ \A i \in DOMAIN f : Got(f)[i] = Action(f[i])
    BY DEF Got
  <2>6. DOMAIN e \subseteq DOMAIN f /\ \A i \in DOMAIN e : Action(e[i]) = Action(f[i])
    BY <2>4, <2>5 DEF GoesOnFrom
  <2>7. ASSUME s[c].type = "end" PROVE DOMAIN e = DOMAIN f
    <3>1. c = Len(s)
      <4>1. c \in 1 .. Len(s) - 1 \/ c = Len(s)
        BY <2>1
      <4> QED BY <2>1, <2>7, <4>1 DEF EndsAt
    <3>2. p = c - 1
      BY <2>7 DEF Played, AtReset
    <3>3. c \in 1 .. Len(s)
      BY <2>1
    <3>4. Acts(s, c) = ActsOne(s[c], Acts(s, c - 1))
      BY <2>1, <3>3, ActsStep
    <3>5. Got(f) = Got(e)
      BY <2>1, <2>7, <3>1, <3>2, <3>4 DEF ActsOne, InputTypes
    <3> QED BY <2>5, <3>5
  <2> QED BY <2>6, <2>7 DEF PlaysInOrder
<1>2. Spec => []IInv
  BY HistoryIsSound
<1> QED BY <1>1, <1>2, PTL
=============================================================================
