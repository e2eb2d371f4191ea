--------------------------- MODULE FlashChipProofs ---------------------------
(***************************************************************************)
(* Proofs about FlashChip for any sectors, addresses and bytes: what a     *)
(* store makes of the command begun so far, how the program's orders and   *)
(* the chip's state go together, and what follows for the contents.  The   *)
(* chip is taken to be consistent in a snapshot, too, for a snapshot may   *)
(* be loaded at any later time.                                            *)
(***************************************************************************)
EXTENDS FlashChip, SequenceTheorems, TLAPS

-----------------------------------------------------------------------------
(* The command that has begun: the longest end of the stores that begins one *)

Unlock1 == "unlock 1"
Unlock2 == "unlock 2"
ProgramByte == "program"
Setup == "setup"

LEMMA Different ==
  /\ Unlock1 # Unlock2 /\ Unlock1 # ProgramByte /\ Unlock1 # Setup
  /\ Unlock2 # ProgramByte /\ Unlock2 # Setup /\ ProgramByte # Setup
BY DEF Unlock1, Unlock2, ProgramByte, Setup

\* The n stores after the first o ones of f begin a command.
Shape(f, o, n) ==
  /\ n <= 5
  /\ n >= 1 => f[o + 1] = Unlock1
  /\ n >= 2 => f[o + 2] = Unlock2
  /\ n >= 3 => f[o + 3] \in {ProgramByte, Setup}
  /\ n >= 4 => f[o + 3] = Setup /\ f[o + 4] = Unlock1
  /\ n >= 5 => f[o + 5] = Unlock2

\* n + 1 stores without the first k are the longest end that begins a command, where
\* the first n ones of f begin one, too.
LEMMA LongestShape ==
  ASSUME NEW f, NEW n \in Nat, Shape(f, 0, n),
         NEW a, \A i \in 1..n : a[i] = f[i],
         NEW t, t = a[n + 1], NEW k \in 0..n + 1, Shape(a, k, n + 1 - k),
         \A j \in 0..n + 1 : Shape(a, j, n + 1 - j) => k <= j,
         NEW m, m = n + 1 - k
  PROVE  /\ t = Unlock1 => m \in {1, 4}
         /\ t = Unlock1 /\ n = 3 /\ f[3] = Setup => m = 4
         /\ t = Unlock2 /\ n \in {1, 4} => m = n + 1
         /\ t \in {ProgramByte, Setup} /\ n \in {2, 5} => m = 3 /\ a[k + 3] = t
         /\ m > 0 => a[k + m] = t
<1> USE Different
<1>1. m > 0 => a[k + m] = t
  OBVIOUS
<1>2. n <= 5
  BY DEF Shape
<1>3. ASSUME t = Unlock1 PROVE m \in {1, 4}
  <2>1. Shape(a, n, n + 1 - n)
    BY <1>3 DEF Shape
  <2>2. m > 0
    BY <2>1
  <2>3. m \in 1..5
    BY <2>2 DEF Shape
  <2>4. a[k + m] = Unlock1
    BY <1>1, <1>3, <2>2
  <2> QED BY <2>3, <2>4 DEF Shape
<1>4. ASSUME t = Unlock1, n = 3, f[3] = Setup PROVE m = 4
  <2>0. n = 3
    BY <1>4
  <2>1. a[1] = f[1] /\ a[2] = f[2] /\ a[3] = f[3] /\ a[4] = t
    BY <2>0
  <2>2. Shape(a, 0, n + 1 - 0)
    BY <1>4, <2>1 DEF Shape
  <2> QED BY <1>4, <2>2
<1>5. ASSUME t = Unlock2, n \in {1, 4} PROVE m = n + 1
  <2>1. CASE n = 1
    <3>1. a[1] = f[1] /\ a[2] = t
      BY <2>1
    <3>2. Shape(a, 0, n + 1 - 0)
      BY <1>5, <2>1, <3>1 DEF Shape
    <3> QED BY <3>2
  <2>2. CASE n = 4
    <3>1. a[1] = f[1] /\ a[2] = f[2] /\ a[3] = f[3] /\ a[4] = f[4] /\ a[5] = t
      BY <2>2
    <3>2. Shape(a, 0, n + 1 - 0)
      BY <1>5, <2>2, <3>1 DEF Shape
    <3> QED BY <3>2
  <2> QED BY <1>5, <2>1, <2>2
<1>6. ASSUME t \in {ProgramByte, Setup}, n \in {2, 5} PROVE m = 3 /\ a[k + 3] = t
  <2>1. CASE n = 2
    <3>1. Shape(a, 0, n + 1 - 0)
      BY <1>6, <2>1 DEF Shape
    <3> QED BY <1>1, <2>1, <3>1
  <2>2. CASE n = 5
    <3>1. Shape(a, 3, n + 1 - 3)
      BY <1>6, <2>2 DEF Shape
    <3>2. m \in 3..5
      BY <2>2, <3>1 DEF Shape
    <3>3. a[k + m] = t
      BY <1>1, <3>2
    <3> QED BY <1>6, <3>2, <3>3 DEF Shape
  <2> QED BY <1>6, <2>1, <2>2
<1> QED BY <1>1, <1>3, <1>4, <1>5, <1>6

\* s is c, or the beginning of it.
Spells(s, c) == Len(s) <= Len(c) /\ \A i \in 1..Len(s) : s[i] = c[i]

LEMMA PrefixSpells ==
  ASSUME NEW s \in Seq(Tokens), NEW c \in Seq(Tokens)
  PROVE  IsPrefix(s, c) <=> Spells(s, c)
<1>1. Len(s) \in Nat /\ Len(c) \in Nat /\ SubSeq(s, 1, Len(s)) = s
  BY LenProperties, SubSeqFull
<1>2. ASSUME Len(s) <= Len(c)
      PROVE  /\ SubSeq(c, 1, Len(s)) \in Seq(Tokens)
             /\ Len(SubSeq(c, 1, Len(s))) = Len(s)
             /\ \A i \in 1..Len(s) : SubSeq(c, 1, Len(s))[i] = c[i]
  <2>1. \A i \in 1..Len(s) : c[i] \in Tokens
    BY <1>1, <1>2, ElementOfSeq
  <2>2. /\ SubSeq(c, 1, Len(s)) \in Seq(Tokens)
        /\ Len(SubSeq(c, 1, Len(s))) = IF 1 <= Len(s) THEN Len(s) - 1 + 1 ELSE 0
        /\ \A i \in 1..Len(s) - 1 + 1 : SubSeq(c, 1, Len(s))[i] = c[1 + i - 1]
    BY <1>1, <2>1, SubSeqProperties
  <2>3. Len(s) - 1 + 1 = Len(s) /\ (~(1 <= Len(s)) => Len(s) = 0)
    BY <1>1
  <2>4. \A i \in 1..Len(s) : 1 + i - 1 = i
    BY <1>1
  <2>5. Len(SubSeq(c, 1, Len(s))) = Len(s)
    BY <2>2, <2>3, Zenon
  <2>6. \A i \in 1..Len(s) : SubSeq(c, 1, Len(s))[i] = c[i]
    BY <2>2, <2>3, <2>4, Zenon
  <2> QED BY <2>2, <2>5, <2>6
<1>3. ASSUME IsPrefix(s, c) PROVE Spells(s, c)
  <2>1. Len(s) <= Len(c) /\ s = SubSeq(c, 1, Len(s))
    BY <1>1, <1>3, Zenon DEF IsPrefix
  <2> QED BY <1>2, <2>1, Zenon DEF Spells
<1>4. ASSUME Spells(s, c) PROVE IsPrefix(s, c)
  <2>1. Len(s) <= Len(c) /\ \A i \in 1..Len(s) : s[i] = c[i]
    BY <1>4 DEF Spells
  <2>2. s = SubSeq(c, 1, Len(s))
    BY <1>2, <2>1, SeqEqual
  <2> QED BY <1>1, <2>1, <2>2, Zenon DEF IsPrefix
<1> QED BY <1>3, <1>4

LEMMA CommandTypes ==
  /\ ProgramCommand \in Seq(Tokens) /\ Len(ProgramCommand) = 3
  /\ ProgramCommand[1] = "unlock 1" /\ ProgramCommand[2] = "unlock 2"
  /\ ProgramCommand[3] = "program"
  /\ EraseCommand \in Seq(Tokens) /\ Len(EraseCommand) = 5
  /\ EraseCommand[1] = "unlock 1" /\ EraseCommand[2] = "unlock 2"
  /\ EraseCommand[3] = "setup"
  /\ EraseCommand[4] = "unlock 1" /\ EraseCommand[5] = "unlock 2"
BY DEF ProgramCommand, EraseCommand, Tokens

LEMMA BeginsSpells ==
  ASSUME NEW s \in Seq(Tokens)
  PROVE  Begins(s) <=> Spells(s, ProgramCommand) \/ Spells(s, EraseCommand)
BY PrefixSpells, CommandTypes DEF Begins

\* The ends of a sequence.
LEMMA Ends ==
  ASSUME NEW s \in Seq(Tokens), NEW i \in 1..Len(s) + 1
  PROVE  /\ SubSeq(s, i, Len(s)) \in Seq(Tokens)
         /\ Len(SubSeq(s, i, Len(s))) = Len(s) - i + 1
         /\ \A k \in 1..Len(s) - i + 1 : SubSeq(s, i, Len(s))[k] = s[i + k - 1]
<1>1. Len(s) \in Nat
  BY LenProperties
<1>2. \A k \in i..Len(s) : s[k] \in Tokens
  BY <1>1, ElementOfSeq
<1>3. /\ SubSeq(s, i, Len(s)) \in Seq(Tokens)
      /\ Len(SubSeq(s, i, Len(s))) = IF i <= Len(s) THEN Len(s) - i + 1 ELSE 0
      /\ \A k \in 1..Len(s) - i + 1 : SubSeq(s, i, Len(s))[k] = s[i + k - 1]
  BY <1>1, <1>2, SubSeqProperties
<1>4. (IF i <= Len(s) THEN Len(s) - i + 1 ELSE 0) = Len(s) - i + 1
  BY <1>1
<1> QED BY <1>3, <1>4, Zenon

LEMMA ShapeOfCommands ==
  ASSUME NEW f, NEW n \in Nat, NEW p, NEW e,
         p[1] = Unlock1, p[2] = Unlock2, p[3] = ProgramByte,
         e[1] = Unlock1, e[2] = Unlock2, e[3] = Setup, e[4] = Unlock1, e[5] = Unlock2
  PROVE  Shape(f, 0, n) <=> \/ n <= 3 /\ \A i \in 1..n : f[i] = p[i]
                            \/ n <= 5 /\ \A i \in 1..n : f[i] = e[i]
<1> USE Different
<1>1. ASSUME n <= 3, \A i \in 1..n : f[i] = p[i] PROVE Shape(f, 0, n)
  BY <1>1 DEF Shape
<1>2. ASSUME n <= 5, \A i \in 1..n : f[i] = e[i] PROVE Shape(f, 0, n)
  BY <1>2 DEF Shape
<1>3. ASSUME Shape(f, 0, n)
      PROVE  \/ n <= 3 /\ \A i \in 1..n : f[i] = p[i]
             \/ n <= 5 /\ \A i \in 1..n : f[i] = e[i]
  <2>1. n \in 0..5
    BY <1>3 DEF Shape
  <2>2. CASE n = 3 /\ f[3] = ProgramByte
    BY <1>3, <2>2 DEF Shape
  <2>3. CASE n = 3 /\ f[3] = Setup
    BY <1>3, <2>3 DEF Shape
  <2>4. CASE n < 3
    BY <1>3, <2>4 DEF Shape
  <2>5. CASE n > 3
    BY <1>3, <2>5 DEF Shape
  <2>6. n = 3 => f[3] \in {ProgramByte, Setup}
    BY <1>3 DEF Shape
  <2> QED BY <2>1, <2>2, <2>3, <2>4, <2>5, <2>6
<1> QED BY <1>1, <1>2, <1>3

LEMMA BeginsShape ==
  ASSUME NEW s \in Seq(Tokens)
  PROVE  Begins(s) <=> Shape(s, 0, Len(s))
<1>1. Begins(s) <=> Spells(s, ProgramCommand) \/ Spells(s, EraseCommand)
  BY BeginsSpells
<1>2. Len(s) \in Nat
  BY LenProperties
<1>3. Shape(s, 0, Len(s)) <=>
        \/ Len(s) <= 3 /\ \A i \in 1..Len(s) : s[i] = ProgramCommand[i]
        \/ Len(s) <= 5 /\ \A i \in 1..Len(s) : s[i] = EraseCommand[i]
  <2>1. /\ ProgramCommand[1] = Unlock1 /\ ProgramCommand[2] = Unlock2
        /\ ProgramCommand[3] = ProgramByte
        /\ EraseCommand[1] = Unlock1 /\ EraseCommand[2] = Unlock2 /\ EraseCommand[3] = Setup
        /\ EraseCommand[4] = Unlock1 /\ EraseCommand[5] = Unlock2
    BY CommandTypes, Zenon DEF Unlock1, Unlock2, ProgramByte, Setup
  <2> QED BY <1>2, <2>1, ShapeOfCommands
<1> QED BY <1>1, <1>3, CommandTypes, Zenon DEF Spells

\* Begun is the longest end that begins a command.
LEMMA Longest ==
  ASSUME NEW s \in Seq(Tokens), Len(s) <= 6
  PROVE  \E i \in 1..Len(s) + 1 :
           /\ Begun(s) = SubSeq(s, i, Len(s)) /\ Begins(Begun(s))
           /\ \A j \in 1..i - 1 : ~Begins(SubSeq(s, j, Len(s)))
<1> DEFINE End(i) == SubSeq(s, i, Len(s))
           ends == {End(i) : i \in 1..Len(s) + 1}
           begins == {e \in ends : Begins(e)}
           P(i) == Begins(End(i))
<1>1. Len(s) \in 0..6
  <2>1. Len(s) \in Nat
    BY LenProperties
  <2>2. \A n \in Nat : n <= 6 => n \in 0..6
    OBVIOUS
  <2> QED BY <2>1, <2>2, Zenon
<1>2. \A i \in 1..Len(s) + 1 : End(i) \in Seq(Tokens) /\ Len(End(i)) = Len(s) - i + 1
  BY Ends
<1>3. P(Len(s) + 1)
  <2>1. Len(s) + 1 \in 1..Len(s) + 1 /\ Len(s) - (Len(s) + 1) + 1 = 0
    BY <1>1
  <2>2. End(Len(s) + 1) \in Seq(Tokens) /\ Len(End(Len(s) + 1)) = 0
    BY <1>2, <2>1
  <2>3. Spells(End(Len(s) + 1), ProgramCommand)
    <3>1. ASSUME NEW e \in Seq(Tokens), Len(e) = 0 PROVE Spells(e, ProgramCommand)
      <4>1. Len(e) <= 3 /\ 1..Len(e) = {}
        BY <3>1
      <4> QED BY <4>1, CommandTypes DEF Spells
    <3> QED BY <2>2, <3>1
  <2> QED BY <2>2, <2>3, BeginsSpells
<1>4. \E i \in 1..Len(s) + 1 : P(i) /\ \A j \in 1..i - 1 : ~P(j)
  <2> HIDE DEF P
  <2>1. CASE P(1)
    BY <1>1, <2>1
  <2>2. CASE ~P(1) /\ P(2) /\ Len(s) >= 1
    BY <1>1, <2>2
  <2>3. CASE ~P(1) /\ ~P(2) /\ P(3) /\ Len(s) >= 2
    BY <1>1, <2>3
  <2>4. CASE ~P(1) /\ ~P(2) /\ ~P(3) /\ P(4) /\ Len(s) >= 3
    BY <1>1, <2>4
  <2>5. CASE ~P(1) /\ ~P(2) /\ ~P(3) /\ ~P(4) /\ P(5) /\ Len(s) >= 4
    BY <1>1, <2>5
  <2>6. CASE ~P(1) /\ ~P(2) /\ ~P(3) /\ ~P(4) /\ ~P(5) /\ P(6) /\ Len(s) >= 5
    BY <1>1, <2>6
  <2>7. CASE ~P(1) /\ ~P(2) /\ ~P(3) /\ ~P(4) /\ ~P(5) /\ ~P(6) /\ P(7) /\ Len(s) >= 6
    BY <1>1, <2>7
  <2> QED BY <1>1, <1>3, <2>1, <2>2, <2>3, <2>4, <2>5, <2>6, <2>7
<1>5. PICK i \in 1..Len(s) + 1 : P(i) /\ \A j \in 1..i - 1 : ~P(j)
  BY <1>4
<1>6. End(i) \in begins /\ \A e \in begins : Len(e) <= Len(End(i))
  <2>1. End(i) \in begins
    BY <1>5
  <2>2. ASSUME NEW j \in 1..Len(s) + 1, P(j) PROVE Len(End(j)) <= Len(End(i))
    <3>1. ~(j \in 1..i - 1)
      BY <1>5, <2>2
    <3>2. Len(End(i)) = Len(s) - i + 1 /\ Len(End(j)) = Len(s) - j + 1
      BY <1>2
    <3> HIDE DEF End
    <3> QED BY <1>1, <3>1, <3>2
  <2> QED BY <2>1, <2>2
<1>7. Begun(s) = CHOOSE e \in begins : \A other \in begins : Len(other) <= Len(e)
  BY DEF Begun
<1> HIDE DEF begins
<1>8. Begun(s) \in begins /\ \A e \in begins : Len(e) <= Len(Begun(s))
  BY <1>6, <1>7
<1> USE DEF begins
<1>9. PICK k \in 1..Len(s) + 1 : Begun(s) = End(k)
  BY <1>8
<1>10. k = i
  <2>1. Len(End(i)) <= Len(End(k)) /\ Len(End(k)) <= Len(End(i))
    BY <1>6, <1>8, <1>9
  <2>2. Len(End(i)) = Len(s) - i + 1 /\ Len(End(k)) = Len(s) - k + 1
    BY <1>2
  <2> HIDE DEF End
  <2> QED BY <1>1, <2>1, <2>2
<1> QED BY <1>5, <1>8, <1>9, <1>10

LEMMA ShiftedShape ==
  ASSUME NEW e, NEW a, NEW j \in Nat, NEW n \in Nat, \A k \in 1..n : e[k] = a[j + k]
  PROVE  Shape(e, 0, n) <=> Shape(a, j, n)
<1>1. \A k \in 1..5 : k <= n => e[0 + k] = a[j + k]
  OBVIOUS
<1>2. /\ n >= 1 => e[0 + 1] = a[j + 1]
      /\ n >= 2 => e[0 + 2] = a[j + 2]
      /\ n >= 3 => e[0 + 3] = a[j + 3]
      /\ n >= 4 => e[0 + 4] = a[j + 4]
      /\ n >= 5 => e[0 + 5] = a[j + 5]
  BY <1>1
<1> QED BY <1>2 DEF Shape

LEMMA EndShape ==
  ASSUME NEW a \in Seq(Tokens), NEW j \in 0..Len(a)
  PROVE  Begins(SubSeq(a, j + 1, Len(a))) <=> Shape(a, j, Len(a) - j)
<1> DEFINE n == Len(a)
           e == SubSeq(a, j + 1, n)
<1>1. n \in Nat
  BY LenProperties
<1>2. j + 1 \in 1..n + 1 /\ n - (j + 1) + 1 = n - j /\ n - j \in Nat /\ j \in Nat
  BY <1>1
<1>3. /\ e \in Seq(Tokens) /\ Len(e) = n - j
      /\ \A k \in 1..n - j : e[k] = a[j + 1 + k - 1]
  BY <1>2, Ends, Zenon
<1>4. \A k \in 1..n - j : e[k] = a[j + k]
  <2>1. \A k \in 1..n - j : j + 1 + k - 1 = j + k
    BY <1>1
  <2> QED BY <1>3, <2>1, Zenon
<1> HIDE DEF e
<1>5. Shape(e, 0, n - j) <=> Shape(a, j, n - j)
  BY <1>2, <1>4, ShiftedShape
<1>6. Begins(e) <=> Shape(e, 0, n - j)
  BY <1>3, BeginsShape, Zenon
<1> QED BY <1>5, <1>6 DEF e

\* What a store makes of the command begun so far.
LEMMA NextToken ==
  ASSUME NEW s \in Seq(Tokens), Begins(s), NEW t \in Tokens,
         NEW d, d = Begun(Append(s, t))
  PROVE  /\ d \in Seq(Tokens) /\ Begins(d)
         /\ t = Unlock1 => Len(d) \in {1, 4}
         /\ t = Unlock1 /\ Len(s) = 3 /\ s[3] = Setup => Len(d) = 4
         /\ t = Unlock2 /\ Len(s) \in {1, 4} => Len(d) = Len(s) + 1
         /\ t \in {ProgramByte, Setup} /\ Len(s) \in {2, 5} => Len(d) = 3 /\ d[3] = t
<1> DEFINE n == Len(s)
           a == Append(s, t)
           N == Len(a)
<1>1. n \in Nat /\ Shape(s, 0, n)
  BY LenProperties, BeginsShape
<1>2. n <= 5
  BY <1>1 DEF Shape
<1>3. a \in Seq(Tokens) /\ N = n + 1 /\ (\A i \in 1..n : a[i] = s[i]) /\ a[n + 1] = t
  BY AppendProperties
<1> HIDE DEF n, a
<1>4. n \in Nat /\ N \in Nat /\ N <= 6
  <2>1. n \in Nat /\ N = n + 1
    BY <1>1, <1>3, Zenon
  <2> HIDE DEF N
  <2> QED BY <1>2, <2>1
<1>5. PICK i \in 1..N + 1 :
        /\ d = SubSeq(a, i, N) /\ Begins(d)
        /\ \A j \in 1..i - 1 : ~Begins(SubSeq(a, j, N))
  <2>1. d = Begun(a)
    BY DEF a
  <2> QED BY <1>3, <1>4, <2>1, Longest, Zenon
<1> DEFINE k == i - 1
           m == N - k
<1>6. \A j \in 0..N : Begins(SubSeq(a, j + 1, N)) <=> Shape(a, j, N - j)
  BY <1>3, EndShape, Zenon
<1>7. /\ d \in Seq(Tokens) /\ Len(d) = N - i + 1
      /\ \A j \in 1..N - i + 1 : d[j] = a[i + j - 1]
  BY <1>3, <1>5, Ends, Zenon
<1> HIDE DEF N
<1>8. k \in 0..N /\ k + 1 = i /\ N - i + 1 = m /\ m \in Nat /\ m = N - k
  BY <1>4
<1>9. Len(d) = m /\ \A j \in 1..m : d[j] = a[k + j]
  <2>1. \A j \in 1..m : i + j - 1 = k + j
    BY <1>4
  <2> QED BY <1>7, <1>8, <2>1, Zenon
<1>10. Shape(a, k, N - k)
  BY <1>5, <1>6, <1>8, Zenon
<1>11. ASSUME NEW j \in 0..N, Shape(a, j, N - j) PROVE k <= j
  <2>1. Begins(SubSeq(a, j + 1, N))
    BY <1>6, <1>11
  <2>2. j + 1 \notin 1..i - 1
    BY <1>5, <2>1
  <2> QED BY <1>4, <2>2
<1> HIDE DEF k, m
<1>12. /\ t = Unlock1 => m \in {1, 4}
       /\ t = Unlock1 /\ n = 3 /\ s[3] = Setup => m = 4
       /\ t = Unlock2 /\ n \in {1, 4} => m = n + 1
       /\ t \in {ProgramByte, Setup} /\ n \in {2, 5} => m = 3 /\ a[k + 3] = t
  <2>1. Shape(s, 0, n) /\ (\A j \in 1..n : a[j] = s[j]) /\ t = a[n + 1]
    BY <1>1, <1>3, Zenon
  <2>2. N = n + 1
    BY <1>3, Zenon
  <2>3. k \in 0..n + 1 /\ m = n + 1 - k
    BY <1>4, <1>8, <2>2
  <2>4. Shape(a, k, n + 1 - k)
    BY <1>4, <1>8, <1>10, <2>2
  <2>5. \A j \in 0..n + 1 : Shape(a, j, n + 1 - j) => k <= j
    BY <1>4, <1>11, <2>2
  <2> QED BY <1>4, <2>1, <2>3, <2>4, <2>5, LongestShape
<1>13. m = 3 => d[3] = a[k + 3]
  BY <1>8, <1>9
<1> QED BY <1>5, <1>7, <1>9, <1>12, <1>13, Zenon DEF n
-----------------------------------------------------------------------------
(* The program's orders and the chip *)

\* The command that has begun fits the chip's state, and what the chip has to erase
\* has been ordered.
Tracks(state, mask, h) ==
  /\ Begins(h.stores)
  /\ state = "MAGIC_1" => Len(h.stores) \in {1, 4}
  /\ state = "MAGIC_2" => Len(h.stores) \in {2, 5}
  /\ state = "BYTE_PROGRAM" => h.stores = ProgramCommand
  /\ state = "ERASE_MAGIC_1" => Len(h.stores) = 3 /\ h.stores[3] = Setup
  /\ state = "ERASE_MAGIC_2" => Len(h.stores) = 4
  /\ state = "ERASE_SELECT" => h.stores = EraseCommand
  /\ mask \subseteq h.ordered
  /\ state = "SECTOR_ERASE_TIMEOUT" => h.adding
  /\ state = "CHIP_ERASE" => Sectors \subseteq h.ordered

LEMMA TokenOf ==
  ASSUME NEW a, NEW b
  PROVE  /\ Token(a, b) \in Tokens
         /\ Is(a, b, Magic1, "xAA") => Token(a, b) = Unlock1
         /\ Is(a, b, Magic2, "x55") => Token(a, b) = Unlock2
         /\ Is(a, b, Magic1, "xA0") => Token(a, b) = ProgramByte
         /\ Is(a, b, Magic1, "x80") => Token(a, b) = Setup
<1>1. /\ Byte["xAA"] # Byte["x55"] /\ Byte["xAA"] # Byte["xA0"] /\ Byte["xAA"] # Byte["x80"]
      /\ Byte["x55"] # Byte["xA0"] /\ Byte["x55"] # Byte["x80"] /\ Byte["xA0"] # Byte["x80"]
  BY DEF Byte
<1> QED BY <1>1 DEF Token, Tokens, Is, Unlock1, Unlock2, ProgramByte, Setup

LEMMA WholeCommand ==
  ASSUME NEW d \in Seq(Tokens), Begins(d)
  PROVE  /\ Len(d) = 3 /\ d[3] = ProgramByte => d = ProgramCommand
         /\ Len(d) = 5 => d = EraseCommand
<1>1. Spells(d, ProgramCommand) \/ Spells(d, EraseCommand)
  BY BeginsSpells
<1>2. ASSUME Len(d) = 3, d[3] = ProgramByte PROVE d = ProgramCommand
  <2>1. ~Spells(d, EraseCommand)
    <3>1. 3 \in 1..Len(d)
      BY <1>2
    <3>2. EraseCommand[3] # ProgramByte
      BY CommandTypes, Zenon DEF ProgramByte
    <3> QED BY <1>2, <3>1, <3>2, Zenon DEF Spells
  <2>2. Len(d) = Len(ProgramCommand) /\ \A i \in 1..Len(d) : d[i] = ProgramCommand[i]
    BY <1>1, <1>2, <2>1, CommandTypes, Zenon DEF Spells
  <2> QED BY <2>2, CommandTypes, SeqEqual
<1>3. ASSUME Len(d) = 5 PROVE d = EraseCommand
  <2>1. ~Spells(d, ProgramCommand)
    <3>1. ~(5 <= 3)
      OBVIOUS
    <3> QED BY <1>3, <3>1, CommandTypes, Zenon DEF Spells
  <2>2. Len(d) = Len(EraseCommand) /\ \A i \in 1..Len(d) : d[i] = EraseCommand[i]
    BY <1>1, <1>3, <2>1, CommandTypes, Zenon DEF Spells
  <2> QED BY <2>2, CommandTypes, SeqEqual
<1> QED BY <1>2, <1>3

\* What a store makes of the history.
LEMMA NextOrders ==
  ASSUME NEW h \in Histories, Begins(h.stores), NEW a \in Addresses, NEW b,
         NEW g, g = Orders(h, a, b)
  PROVE  /\ g \in Histories /\ Begins(g.stores)
         /\ Is(a, b, Magic1, "xAA") => Len(g.stores) \in {1, 4}
         /\ Is(a, b, Magic1, "xAA") /\ Len(h.stores) = 3 /\ h.stores[3] = Setup
              => Len(g.stores) = 4
         /\ Is(a, b, Magic2, "x55") /\ Len(h.stores) \in {1, 4}
              => Len(g.stores) = Len(h.stores) + 1
         /\ Is(a, b, Magic2, "x55") /\ Len(h.stores) = 4 => g.stores = EraseCommand
         /\ Is(a, b, Magic1, "xA0") /\ Len(h.stores) \in {2, 5} => g.stores = ProgramCommand
         /\ Is(a, b, Magic1, "x80") /\ Len(h.stores) \in {2, 5}
              => Len(g.stores) = 3 /\ g.stores[3] = Setup
         /\ g.programs = (h.stores = ProgramCommand)
         /\ h.ordered \subseteq g.ordered
         /\ h.stores = EraseCommand /\ Is(a, b, Magic1, "x10") => Sectors \subseteq g.ordered
         /\ b = Byte["x30"] /\ (h.stores = EraseCommand \/ h.adding)
              => g.adding /\ SectorOf(a) \in g.ordered
<1> DEFINE s == h.stores
           t == Token(a, b)
<1>1. s \in Seq(Tokens) /\ h.adding \in BOOLEAN /\ h.ordered \in SUBSET Sectors
  BY DEF Histories
<1>2. g.stores = Begun(Append(s, t))
  BY Zenon DEF Orders
<1>3. /\ g.stores \in Seq(Tokens) /\ Begins(g.stores)
      /\ t = Unlock1 => Len(g.stores) \in {1, 4}
      /\ t = Unlock1 /\ Len(s) = 3 /\ s[3] = Setup => Len(g.stores) = 4
      /\ t = Unlock2 /\ Len(s) \in {1, 4} => Len(g.stores) = Len(s) + 1
      /\ t \in {ProgramByte, Setup} /\ Len(s) \in {2, 5}
           => Len(g.stores) = 3 /\ g.stores[3] = t
  <2>1. t \in Tokens
    BY TokenOf
  <2> HIDE DEF s, t
  <2> QED BY <1>1, <1>2, <2>1, NextToken, Zenon DEF s
<1>4. SectorOf(a) \in Sectors /\ Byte["x30"] # Byte["x10"]
  BY FlashChipAssumption DEF SectorOf, Byte
<1>5. /\ g.adding = (b = Byte["x30"] /\ (s = EraseCommand \/ h.adding))
      /\ g.programs = (s = ProgramCommand)
      /\ g.ordered = h.ordered \cup
           CASE s = EraseCommand /\ Is(a, b, Magic1, "x10") -> Sectors
             [] (s = EraseCommand \/ h.adding) /\ b = Byte["x30"] -> {SectorOf(a)}
             [] OTHER -> {}
  BY Zenon DEF Orders
<1>6. /\ g.ordered \in SUBSET Sectors /\ h.ordered \subseteq g.ordered
      /\ s = EraseCommand /\ Is(a, b, Magic1, "x10") => Sectors \subseteq g.ordered
      /\ b = Byte["x30"] /\ (s = EraseCommand \/ h.adding) => SectorOf(a) \in g.ordered
  <2>1. CASE s = EraseCommand /\ Is(a, b, Magic1, "x10")
    BY <1>1, <1>4, <1>5, <2>1 DEF Is
  <2>2. CASE ~(s = EraseCommand /\ Is(a, b, Magic1, "x10"))
    BY <1>1, <1>4, <1>5, <2>2
  <2> QED BY <2>1, <2>2
<1>7. g \in Histories
  <2>1. g = [stores |-> g.stores, adding |-> g.adding, programs |-> g.programs,
             ordered |-> g.ordered]
    BY Zenon DEF Orders
  <2>2. g.adding \in BOOLEAN /\ g.programs \in BOOLEAN
    BY <1>5, Zenon
  <2> QED BY <1>3, <1>6, <2>1, <2>2, Zenon DEF Histories
<1>8. Is(a, b, Magic2, "x55") /\ Len(s) = 4 => g.stores = EraseCommand
  <2> HAVE Is(a, b, Magic2, "x55") /\ Len(s) = 4
  <2>1. Len(g.stores) = 4 + 1
    BY <1>3, TokenOf, Zenon
  <2>2. Len(g.stores) = 5
    <3>1. 4 + 1 = 5
      OBVIOUS
    <3> QED BY <2>1, <3>1, Zenon
  <2> QED BY <1>3, <2>2, WholeCommand, Zenon
<1>9. Is(a, b, Magic1, "xA0") /\ Len(s) \in {2, 5} => g.stores = ProgramCommand
  BY <1>3, TokenOf, WholeCommand, Zenon
<1> QED BY <1>3, <1>5, <1>6, <1>7, <1>8, <1>9, TokenOf, Zenon

\* States that ask nothing of the program's stores.
Quiet == {"READ", "AUTOSELECT", "BYTE_PROGRAM_ERROR", "SECTOR_ERASE", "SECTOR_ERASE_SUSPEND"}

LEMMA QuietTracks ==
  ASSUME NEW s \in Quiet, NEW m, NEW h, Begins(h.stores), m \subseteq h.ordered
  PROVE  Tracks(s, m, h)
BY DEF Quiet, Tracks

\* Every store keeps the history and the chip's state together, and the contents
\* change only by the store after a command to program, which clears bits.
LEMMA StoredTracks ==
  ASSUME NEW c \in Chips, Consistent(c), NEW h \in Histories, Tracks(c.state, c.mask, h),
         NEW a \in Addresses, NEW b, NEW d \in Stored(c, a, b)
  PROVE  /\ Tracks(d.state, d.mask, Orders(h, a, b))
         /\ \A x \in Watched : d.data[x] \subseteq c.data[x]
         /\ d.data # c.data => Orders(h, a, b).programs
<1> DEFINE g == Orders(h, a, b)
<1>0. /\ g \in Histories /\ Begins(g.stores)
      /\ Is(a, b, Magic1, "xAA") => Len(g.stores) \in {1, 4}
      /\ Is(a, b, Magic1, "xAA") /\ Len(h.stores) = 3 /\ h.stores[3] = Setup
           => Len(g.stores) = 4
      /\ Is(a, b, Magic2, "x55") /\ Len(h.stores) \in {1, 4}
           => Len(g.stores) = Len(h.stores) + 1
      /\ Is(a, b, Magic2, "x55") /\ Len(h.stores) = 4 => g.stores = EraseCommand
      /\ Is(a, b, Magic1, "xA0") /\ Len(h.stores) \in {2, 5} => g.stores = ProgramCommand
      /\ Is(a, b, Magic1, "x80") /\ Len(h.stores) \in {2, 5}
           => Len(g.stores) = 3 /\ g.stores[3] = Setup
      /\ g.programs = (h.stores = ProgramCommand)
      /\ h.ordered \subseteq g.ordered
      /\ h.stores = EraseCommand /\ Is(a, b, Magic1, "x10") => Sectors \subseteq g.ordered
      /\ b = Byte["x30"] /\ (h.stores = EraseCommand \/ h.adding)
           => g.adding /\ SectorOf(a) \in g.ordered
  <2>1. Begins(h.stores)
    BY DEF Tracks
  <2> QED BY <2>1, NextOrders, Zenon
<1> HIDE DEF g
<1>1. c.base \in Quiet /\ c.mask \subseteq g.ordered
  BY <1>0 DEF Tracks, Chips, Quiet
\* A chip in another state with its contents.
<1>2. ASSUME NEW s \in Quiet, NEW m, m \subseteq g.ordered, d.state = s, d.mask = m,
             d.data = c.data
      PROVE  /\ Tracks(d.state, d.mask, g)
             /\ \A x \in Watched : d.data[x] \subseteq c.data[x]
             /\ d.data # c.data => g.programs
  BY <1>0, <1>2, QuietTracks
<1>3. c.state \in Quiet /\ d = c => Tracks(d.state, d.mask, g)
  BY <1>0, <1>1, QuietTracks
<1>4. CASE c.state = "READ"
  <2>1. \/ d = c
        \/ d = [c EXCEPT !.state = "MAGIC_1"] /\ Is(a, b, Magic1, "xAA")
    BY <1>4 DEF Stored
  <2>2. CASE d = c
    BY <1>3, <1>4, <2>2 DEF Quiet, g
  <2>3. CASE d = [c EXCEPT !.state = "MAGIC_1"] /\ Is(a, b, Magic1, "xAA")
    <3>1. d.state = "MAGIC_1" /\ d.mask = c.mask /\ d.data = c.data
      BY <2>3 DEF Chips
    <3> QED BY <1>0, <1>1, <2>3, <3>1 DEF Tracks, g
  <2> QED BY <2>1, <2>2, <2>3 DEF g
<1>5. CASE c.state = "MAGIC_1"
  <2>1. \/ d = [c EXCEPT !.state = c.base]
        \/ d = [c EXCEPT !.state = "MAGIC_2"] /\ Is(a, b, Magic2, "x55")
    BY <1>5 DEF Stored, Expect, Is
  <2>2. CASE d = [c EXCEPT !.state = c.base]
    BY <1>1, <1>2, <2>2 DEF Chips, g
  <2>3. CASE d = [c EXCEPT !.state = "MAGIC_2"] /\ Is(a, b, Magic2, "x55")
    <3>1. d.state = "MAGIC_2" /\ d.mask = c.mask /\ d.data = c.data
      BY <2>3 DEF Chips
    <3>2. Len(h.stores) \in {1, 4}
      BY <1>5 DEF Tracks
    <3>3. Len(g.stores) \in {2, 5}
      <4>1. \A n \in {1, 4} : n + 1 \in {2, 5}
        OBVIOUS
      <4>2. Len(g.stores) = Len(h.stores) + 1
        BY <1>0, <2>3, <3>2, Zenon
      <4> QED BY <3>2, <4>1, <4>2, Zenon
    <3> QED BY <1>0, <1>1, <3>1, <3>3 DEF Tracks, g
  <2> QED BY <2>1, <2>2, <2>3
<1>6. CASE c.state = "MAGIC_2"
  <2>0. Len(h.stores) \in {2, 5}
    BY <1>6 DEF Tracks
  <2>1. \/ \E s \in Quiet, r \in {"READ", "AUTOSELECT"} : d = [c EXCEPT !.state = s, !.base = r]
        \/ d = [c EXCEPT !.state = c.base]
        \/ d = [c EXCEPT !.state = "BYTE_PROGRAM"] /\ Is(a, b, Magic1, "xA0")
        \/ d = [c EXCEPT !.state = "ERASE_MAGIC_1"] /\ Is(a, b, Magic1, "x80")
    BY <1>6 DEF Stored, Select, Is, Quiet
  <2>2. CASE \E s \in Quiet, r \in {"READ", "AUTOSELECT"} : d = [c EXCEPT !.state = s, !.base = r]
    <3>1. d.state \in Quiet /\ d.mask = c.mask /\ d.data = c.data
      BY <2>2 DEF Chips
    <3> QED BY <1>1, <1>2, <3>1 DEF g
  <2>3. CASE d = [c EXCEPT !.state = c.base]
    BY <1>1, <1>2, <2>3 DEF Chips, g
  <2>4. CASE d = [c EXCEPT !.state = "BYTE_PROGRAM"] /\ Is(a, b, Magic1, "xA0")
    <3>1. d.state = "BYTE_PROGRAM" /\ d.mask = c.mask /\ d.data = c.data
      BY <2>4 DEF Chips
    <3> QED BY <1>0, <1>1, <2>0, <2>4, <3>1 DEF Tracks, g
  <2>5. CASE d = [c EXCEPT !.state = "ERASE_MAGIC_1"] /\ Is(a, b, Magic1, "x80")
    <3>1. d.state = "ERASE_MAGIC_1" /\ d.mask = c.mask /\ d.data = c.data
      BY <2>5 DEF Chips
    <3> QED BY <1>0, <1>1, <2>0, <2>5, <3>1 DEF Tracks, g
  <2> QED BY <2>1, <2>2, <2>3, <2>4, <2>5
<1>7. CASE c.state = "BYTE_PROGRAM"
  <2>0. g.programs /\ c.mask = {} /\ d \in Program(c, a, b)
    BY <1>0, <1>7 DEF Tracks, Consistent, Stored
  <2>1. d.state \in Quiet /\ d.mask = c.mask
    BY <1>1, <2>0 DEF Program, Chips, Quiet
  <2>2. \A x \in Watched : d.data[x] \subseteq c.data[x]
    <3>1. CASE a \notin Watched
      <4>1. d.data = c.data
        BY <2>0, <3>1 DEF Program, Chips
      <4> QED BY <4>1
    <3>2. CASE a \in Watched
      <4>1. d.data = [c.data EXCEPT ![a] = c.data[a] \cap b]
        BY <2>0, <3>2 DEF Program, Chips
      <4> QED BY <4>1 DEF Chips, Contents
    <3> QED BY <3>1, <3>2
  <2> QED BY <1>0, <1>1, <2>0, <2>1, <2>2, QuietTracks DEF g
<1>8. CASE c.state = "ERASE_MAGIC_1"
  <2>1. \/ d = [c EXCEPT !.state = c.base]
        \/ d = [c EXCEPT !.state = "ERASE_MAGIC_2"] /\ Is(a, b, Magic1, "xAA")
    BY <1>8 DEF Stored, Expect, Is
  <2>2. CASE d = [c EXCEPT !.state = c.base]
    BY <1>1, <1>2, <2>2 DEF Chips, g
  <2>3. CASE d = [c EXCEPT !.state = "ERASE_MAGIC_2"] /\ Is(a, b, Magic1, "xAA")
    <3>1. d.state = "ERASE_MAGIC_2" /\ d.mask = c.mask /\ d.data = c.data
      BY <2>3 DEF Chips
    <3>2. Len(h.stores) = 3 /\ h.stores[3] = Setup
      BY <1>8 DEF Tracks
    <3> QED BY <1>0, <1>1, <2>3, <3>1, <3>2 DEF Tracks, g
  <2> QED BY <2>1, <2>2, <2>3
<1>9. CASE c.state = "ERASE_MAGIC_2"
  <2>1. \/ d = [c EXCEPT !.state = c.base]
        \/ d = [c EXCEPT !.state = "ERASE_SELECT"] /\ Is(a, b, Magic2, "x55")
    BY <1>9 DEF Stored, Expect, Is
  <2>2. CASE d = [c EXCEPT !.state = c.base]
    BY <1>1, <1>2, <2>2 DEF Chips, g
  <2>3. CASE d = [c EXCEPT !.state = "ERASE_SELECT"] /\ Is(a, b, Magic2, "x55")
    <3>1. d.state = "ERASE_SELECT" /\ d.mask = c.mask /\ d.data = c.data
      BY <2>3 DEF Chips
    <3>2. Len(h.stores) = 4
      BY <1>9 DEF Tracks
    <3> QED BY <1>0, <1>1, <2>3, <3>1, <3>2 DEF Tracks, g
  <2> QED BY <2>1, <2>2, <2>3
<1>10. CASE c.state = "ERASE_SELECT"
  <2>0. h.stores = EraseCommand /\ d = SelectErase(c, a, b)
    BY <1>10 DEF Tracks, Stored
  <2>1. CASE Is(a, b, Magic1, "x10")
    <3>1. d.state = "CHIP_ERASE" /\ d.mask = c.mask /\ d.data = c.data
      BY <2>0, <2>1, b # Byte["x30"] DEF SelectErase, Is, Byte, Chips
    <3> QED BY <1>0, <1>1, <2>0, <2>1, <3>1 DEF Tracks, g
  <2>2. CASE ~Is(a, b, Magic1, "x10") /\ b = Byte["x30"]
    <3>1. /\ d.state = "SECTOR_ERASE_TIMEOUT" /\ d.mask = c.mask \cup {SectorOf(a)}
          /\ d.data = c.data
      BY <2>0, <2>2 DEF SelectErase, Chips
    <3> QED BY <1>0, <1>1, <2>0, <2>2, <3>1 DEF Tracks, g
  <2>3. CASE ~Is(a, b, Magic1, "x10") /\ b # Byte["x30"]
    <3>1. d = [c EXCEPT !.state = c.base]
      BY <2>0, <2>3 DEF SelectErase
    <3> QED BY <1>1, <1>2, <3>1 DEF Chips, g
  <2> QED BY <2>1, <2>2, <2>3
<1>11. CASE c.state = "SECTOR_ERASE_TIMEOUT"
  <2>0. h.adding /\ d = MoreSectors(c, a, b)
    BY <1>11 DEF Tracks, Stored
  <2>1. CASE b = Byte["x30"]
    <3>1. /\ d.state = "SECTOR_ERASE_TIMEOUT" /\ d.mask = c.mask \cup {SectorOf(a)}
          /\ d.data = c.data
      BY <1>11, <2>0, <2>1 DEF MoreSectors, Chips
    <3> QED BY <1>0, <1>1, <2>0, <2>1, <3>1 DEF Tracks, g
  <2>2. CASE b # Byte["x30"]
    <3>1. d.state = c.base /\ d.mask = {} /\ d.data = c.data
      BY <2>0, <2>2 DEF MoreSectors, Chips
    <3> QED BY <1>1, <1>2, <3>1 DEF g
  <2> QED BY <2>1, <2>2
<1>12. CASE c.state \in {"SECTOR_ERASE", "SECTOR_ERASE_SUSPEND"}
  <2>1. d.state \in Quiet /\ d.mask = c.mask /\ d.data = c.data
    BY <1>12 DEF Stored, Chips, Quiet
  <2> QED BY <1>1, <1>2, <2>1 DEF g
<1>13. CASE c.state \in {"BYTE_PROGRAM_ERROR", "AUTOSELECT"}
  <2>1. \/ d = c
        \/ d = [c EXCEPT !.state = "MAGIC_1"] /\ Is(a, b, Magic1, "xAA")
        \/ d = [c EXCEPT !.state = "READ", !.base = "READ"]
    BY <1>13 DEF Stored, Leave
  <2>2. CASE d = c
    BY <1>3, <1>13, <2>2 DEF Quiet, g
  <2>3. CASE d = [c EXCEPT !.state = "MAGIC_1"] /\ Is(a, b, Magic1, "xAA")
    <3>1. d.state = "MAGIC_1" /\ d.mask = c.mask /\ d.data = c.data
      BY <2>3 DEF Chips
    <3> QED BY <1>0, <1>1, <2>3, <3>1 DEF Tracks, g
  <2>4. CASE d = [c EXCEPT !.state = "READ", !.base = "READ"]
    <3>1. d.state = "READ" /\ d.mask = c.mask /\ d.data = c.data
      BY <2>4 DEF Chips
    <3> QED BY <1>1, <1>2, <3>1 DEF Quiet, g
  <2> QED BY <2>1, <2>2, <2>3, <2>4
<1>14. CASE c.state = "CHIP_ERASE"
  <2>1. d = c /\ Sectors \subseteq h.ordered
    BY <1>14 DEF Stored, Tracks
  <2> QED BY <1>0, <1>1, <1>14, <2>1 DEF Tracks, g
<1> QED BY <1>4, <1>5, <1>6, <1>7, <1>8, <1>9, <1>10, <1>11, <1>12, <1>13, <1>14
        DEF Chips, States, ErasingStates

-----------------------------------------------------------------------------
(* The inductive invariant *)

\* A snapshot may be loaded at any later time: what holds of the chip and of what the
\* program has ordered holds of a snapshot's, too.
IInv ==
  /\ TypeOK
  /\ Consistent(chip) /\ Tracks(chip.state, chip.mask, host)
  /\ snap # None => /\ Consistent(Restored(snap))
                    /\ Tracks(snap.state, snap.mask, snap.host)
  /\ ChangesAreDirty

\* What a store may do to a consistent chip: it stays one, and changed contents
\* make it dirty.
Follows(c, d) ==
  /\ d \in Chips /\ Consistent(d)
  /\ d.attached = c.attached
  /\ d.data = c.data \/ d.dirty
  /\ c.dirty => d.dirty

LEMMA ProgramFollows ==
  ASSUME NEW c \in Chips, Consistent(c), c.state = "BYTE_PROGRAM",
         NEW a \in Addresses, NEW b, NEW d \in Program(c, a, b)
  PROVE  Follows(c, d)
<1> DEFINE Changed(data, s) == [c EXCEPT !.data = data, !.dirty = TRUE, !.state = s]
<1>1. PICK data \in Contents, s \in {c.base, "BYTE_PROGRAM_ERROR"} :
        d = Changed(data, s)
  <2>1. CASE a \notin Watched
    <3>1. PICK s \in {c.base, "BYTE_PROGRAM_ERROR"} :
            d = [c EXCEPT !.dirty = TRUE, !.state = s]
      BY <2>1 DEF Program
    <3>2. c.data \in Contents /\ d = Changed(c.data, s)
      BY <3>1 DEF Chips
    <3> QED BY <3>2
  <2>2. CASE a \in Watched
    <3> DEFINE new == c.data[a] \cap b
               all == [c.data EXCEPT ![a] = new]
    <3>1. new \in SUBSET Erased /\ all \in Contents
      BY <2>2 DEF Chips, Contents
    <3>2. PICK s \in {c.base, "BYTE_PROGRAM_ERROR"} : d = Changed(all, s)
      BY <2>2 DEF Program, Chips
    <3> QED BY <3>1, <3>2
  <2> QED BY <2>1, <2>2
<1>2. c.base \in {"READ", "AUTOSELECT"} /\ s \in States
  BY DEF Chips, States
<1>3. /\ d.state = s /\ d.base = c.base /\ d.mask = c.mask /\ d.alarm = c.alarm
      /\ d.data = data /\ d.dirty /\ d.attached = c.attached /\ d \in Chips
  BY <1>1, <1>2 DEF Chips
<1>4. ~c.alarm /\ c.mask = {}
  BY DEF Consistent, ErasingStates, Chips
<1> QED BY <1>2, <1>3, <1>4 DEF Follows, Consistent, ErasingStates, Chips

\* The chip in another state, with its contents.
As(c, s, b, m, on) == [c EXCEPT !.state = s, !.base = b, !.mask = m, !.alarm = on]

LEMMA AsFollows ==
  ASSUME NEW c \in Chips, NEW s \in States, NEW b \in {"READ", "AUTOSELECT"},
         NEW m \in SUBSET Sectors, NEW on \in BOOLEAN,
         on <=> s \in ErasingStates,
         m # {} <=> s \in {"SECTOR_ERASE_TIMEOUT", "SECTOR_ERASE", "SECTOR_ERASE_SUSPEND"}
  PROVE  Follows(c, As(c, s, b, m, on))
<1> DEFINE d == As(c, s, b, m, on)
<1>1. /\ d.state = s /\ d.base = b /\ d.mask = m /\ d.alarm = on
      /\ d.data = c.data /\ d.dirty = c.dirty /\ d.attached = c.attached /\ d \in Chips
  BY DEF As, Chips
<1> QED BY <1>1 DEF Follows, Consistent

\* A chip at rest may go on to any state in which it is at rest, and stay as it is.
Resting == {"READ", "MAGIC_1", "MAGIC_2", "AUTOSELECT", "BYTE_PROGRAM",
            "BYTE_PROGRAM_ERROR", "ERASE_MAGIC_1", "ERASE_MAGIC_2", "ERASE_SELECT"}

LEMMA RestingFollows ==
  ASSUME NEW c \in Chips, Consistent(c), c.state \in Resting
  PROVE  /\ \A s \in Resting : Follows(c, [c EXCEPT !.state = s])
         /\ \A s \in Resting, b \in {"READ", "AUTOSELECT"} :
              Follows(c, [c EXCEPT !.state = s, !.base = b])
<1>1. ~c.alarm /\ c.mask = {} /\ c.base \in {"READ", "AUTOSELECT"}
  BY DEF Consistent, ErasingStates, Resting, Chips
<1>2. ASSUME NEW s \in Resting, NEW b \in {"READ", "AUTOSELECT"}
      PROVE  Follows(c, As(c, s, b, {}, FALSE))
  BY AsFollows, s \in States, s \notin ErasingStates DEF Resting, States, ErasingStates
<1>3. ASSUME NEW s \in Resting, NEW b \in {"READ", "AUTOSELECT"}
      PROVE  [c EXCEPT !.state = s, !.base = b] = As(c, s, b, {}, FALSE)
  BY <1>1 DEF As, Chips
<1>4. ASSUME NEW s \in Resting
      PROVE  [c EXCEPT !.state = s] = As(c, s, c.base, {}, FALSE)
  BY <1>1 DEF As, Chips
<1>5. ASSUME NEW s \in Resting, NEW b \in {"READ", "AUTOSELECT"}
      PROVE  Follows(c, [c EXCEPT !.state = s, !.base = b])
  BY <1>2, <1>3
<1>6. ASSUME NEW s \in Resting
      PROVE  Follows(c, [c EXCEPT !.state = s])
  BY <1>1, <1>2, <1>4
<1> QED BY <1>5, <1>6

LEMMA UnchangedFollows ==
  ASSUME NEW c \in Chips, Consistent(c)
  PROVE  Follows(c, c)
BY DEF Follows

\* flash040core_store keeps the chip consistent in every state.
LEMMA StoredFollows ==
  ASSUME NEW c \in Chips, Consistent(c), NEW a \in Addresses, NEW b, NEW d \in Stored(c, a, b)
  PROVE  Follows(c, d)
<1> USE UnchangedFollows
<1>0. c.base \in Resting /\ c.base \in States
  BY DEF Chips, Resting, States
<1>1. CASE c.state = "READ"
  <2>1. d \in {[c EXCEPT !.state = "MAGIC_1"], c}
    BY <1>1 DEF Stored
  <2> QED BY <1>1, <2>1, RestingFollows DEF Resting
<1>2. CASE c.state \in {"MAGIC_1", "ERASE_MAGIC_1", "ERASE_MAGIC_2"}
  <2>1. PICK s \in {"MAGIC_2", "ERASE_MAGIC_2", "ERASE_SELECT", c.base} :
          d = [c EXCEPT !.state = s]
    BY <1>2 DEF Stored, Expect
  <2> QED BY <1>0, <1>2, <2>1, RestingFollows DEF Resting
<1>3. CASE c.state = "MAGIC_2"
  <2>1. \/ d = [c EXCEPT !.state = "AUTOSELECT", !.base = "AUTOSELECT"]
        \/ d = [c EXCEPT !.state = "READ", !.base = "READ"]
        \/ \E s \in {"BYTE_PROGRAM", "ERASE_MAGIC_1", c.base} : d = [c EXCEPT !.state = s]
    BY <1>3 DEF Stored, Select
  <2> QED BY <1>0, <1>3, <2>1, RestingFollows DEF Resting
<1>4. CASE c.state = "BYTE_PROGRAM"
  <2>1. d \in Program(c, a, b)
    BY <1>4 DEF Stored
  <2> QED BY <1>4, <2>1, ProgramFollows
<1>5. CASE c.state = "ERASE_SELECT"
  <2>1. ~c.alarm /\ c.mask = {} /\ SectorOf(a) \in Sectors
    BY <1>5, FlashChipAssumption DEF Consistent, ErasingStates, Chips, SectorOf
  <2>2. \/ d = [c EXCEPT !.state = c.base]
        \/ d = As(c, "CHIP_ERASE", c.base, {}, TRUE)
        \/ d = As(c, "SECTOR_ERASE_TIMEOUT", c.base, {SectorOf(a)}, TRUE)
    <3>1. d = SelectErase(c, a, b)
      BY <1>5 DEF Stored
    <3>2. CASE Is(a, b, Magic1, "x10")
      <4>1. d = [c EXCEPT !.state = "CHIP_ERASE", !.alarm = TRUE]
        BY <3>1, <3>2, b # Byte["x30"] DEF SelectErase, Is, Byte
      <4>2. [c EXCEPT !.state = "CHIP_ERASE", !.alarm = TRUE]
              = As(c, "CHIP_ERASE", c.base, {}, TRUE)
        BY <2>1 DEF As, Chips
      <4> QED BY <4>1, <4>2
    <3>3. CASE ~Is(a, b, Magic1, "x10") /\ b = Byte["x30"]
      <4>1. d = [c EXCEPT !.state = "SECTOR_ERASE_TIMEOUT", !.alarm = TRUE,
                          !.mask = c.mask \cup {SectorOf(a)}]
        BY <3>1, <3>3 DEF SelectErase
      <4> QED BY <2>1, <4>1 DEF As, Chips
    <3>4. CASE ~Is(a, b, Magic1, "x10") /\ b # Byte["x30"]
      BY <3>1, <3>4 DEF SelectErase
    <3> QED BY <3>2, <3>3, <3>4
  <2>3. /\ Follows(c, As(c, "CHIP_ERASE", c.base, {}, TRUE))
        /\ Follows(c, As(c, "SECTOR_ERASE_TIMEOUT", c.base, {SectorOf(a)}, TRUE))
    BY <2>1, AsFollows DEF Chips, States, ErasingStates
  <2> QED BY <1>0, <1>5, <2>2, <2>3, RestingFollows DEF Resting
<1>6. CASE c.state = "SECTOR_ERASE_TIMEOUT"
  <2>1. c.alarm /\ c.mask # {} /\ c.mask \in SUBSET Sectors /\ SectorOf(a) \in Sectors
    BY <1>6, FlashChipAssumption DEF Consistent, ErasingStates, Chips, SectorOf
  <2>2. \/ d = As(c, "SECTOR_ERASE_TIMEOUT", c.base, c.mask \cup {SectorOf(a)}, TRUE)
        \/ d = As(c, c.base, c.base, {}, FALSE)
    BY <1>6, <2>1 DEF Stored, MoreSectors, As, Chips
  <2>3. /\ Follows(c, As(c, "SECTOR_ERASE_TIMEOUT", c.base, c.mask \cup {SectorOf(a)}, TRUE))
        /\ Follows(c, As(c, c.base, c.base, {}, FALSE))
    BY <2>1, AsFollows DEF Chips, States, ErasingStates
  <2> QED BY <2>2, <2>3
<1>7. CASE c.state \in {"SECTOR_ERASE", "SECTOR_ERASE_SUSPEND"}
  <2>1. c.mask # {} /\ c.mask \in SUBSET Sectors
    BY <1>7 DEF Consistent, Chips
  <2>2. \/ d = c
        \/ d = As(c, "SECTOR_ERASE_SUSPEND", c.base, c.mask, FALSE)
        \/ d = As(c, "SECTOR_ERASE", c.base, c.mask, TRUE)
    BY <1>7 DEF Stored, As, Chips
  <2>3. /\ Follows(c, As(c, "SECTOR_ERASE_SUSPEND", c.base, c.mask, FALSE))
        /\ Follows(c, As(c, "SECTOR_ERASE", c.base, c.mask, TRUE))
    BY <2>1, AsFollows DEF Chips, States, ErasingStates
  <2> QED BY <2>2, <2>3
<1>8. CASE c.state \in {"BYTE_PROGRAM_ERROR", "AUTOSELECT"}
  <2>1. \/ d = c
        \/ d = [c EXCEPT !.state = "MAGIC_1"]
        \/ d = [c EXCEPT !.state = "READ", !.base = "READ"]
    BY <1>8 DEF Stored, Leave
  <2> QED BY <1>8, <2>1, RestingFollows DEF Resting
<1>9. CASE c.state = "CHIP_ERASE"
  BY <1>9 DEF Stored
<1> QED BY <1>1, <1>2, <1>3, <1>4, <1>5, <1>6, <1>7, <1>8, <1>9
        DEF Chips, States, ErasingStates

-----------------------------------------------------------------------------
(* The steps *)

\* A chip that is initialised or reset is consistent.
LEMMA ReadyConsistent ==
  ASSUME NEW data \in Contents, NEW dirty \in BOOLEAN
  PROVE  /\ Ready(data, dirty) \in Chips /\ Consistent(Ready(data, dirty))
         /\ Ready(data, dirty).data = data /\ Ready(data, dirty).dirty = dirty
BY DEF Ready, Chips, States, ErasingStates, Consistent

\* A program that has ordered nothing fits a chip that has nothing to do.
LEMMA NothingOrdered ==
  /\ NoOrders \in Histories
  /\ \A s \in Quiet : Tracks(s, {}, NoOrders)
<1>1. /\ NoOrders.stores = <<>> /\ NoOrders.ordered = {}
      /\ <<>> \in Seq(Tokens) /\ Len(<<>>) = 0 /\ NoOrders \in Histories
  BY DEF NoOrders, Histories
<1>2. Begins(<<>>)
  <2>1. Shape(<<>>, 0, 0)
    BY DEF Shape
  <2> QED BY <1>1, <2>1, BeginsShape, Zenon
<1> QED BY <1>1, <1>2, QuietTracks, Zenon

LEMMA InitSafe == Init => IInv
<1> SUFFICES ASSUME Init PROVE IInv OBVIOUS
<1>1. file \in Contents /\ chip = Ready(file, FALSE) /\ stale \in BOOLEAN
      /\ snap = None /\ host = NoOrders
  BY DEF Init, Contents, Erased
<1>2. chip \in Chips /\ Consistent(chip) /\ chip.data = file
  BY <1>1, ReadyConsistent
<1>3. chip.state \in Quiet /\ chip.mask = {}
  BY <1>1 DEF Ready, Quiet
<1> QED BY <1>1, <1>2, <1>3, NothingOrdered DEF IInv, TypeOK, ChangesAreDirty

\* A step that changes only the chip and the history, by what may follow them.
LEMMA ChipFollows ==
  ASSUME IInv, Follows(chip, chip'), UNCHANGED <<stale, file, snap>>,
         host' \in Histories, Tracks(chip.state, chip.mask, host)'
  PROVE  IInv'
BY DEF Follows, IInv, TypeOK, ChangesAreDirty, Restored, Ready

\* ... and a step that only erases, in the alarm's handler.
LEMMA ErasedFollows ==
  ASSUME IInv, NEW S, NEW s \in States, NEW m \in SUBSET Sectors, NEW on \in BOOLEAN,
         on <=> s \in ErasingStates,
         m # {} <=> s \in {"SECTOR_ERASE_TIMEOUT", "SECTOR_ERASE", "SECTOR_ERASE_SUSPEND"}
  PROVE  Follows(chip, As(EraseSectors(chip, S), s, chip.base, m, on))
<1> DEFINE c == EraseSectors(chip, S)
<1>1. [a \in Watched |-> IF SectorOf(a) \in S THEN Erased ELSE chip.data[a]] \in Contents
  BY DEF IInv, TypeOK, Chips, Contents
<1>2. c \in Chips /\ c.dirty /\ c.attached = chip.attached
  BY <1>1 DEF EraseSectors, IInv, TypeOK, Chips
<1>3. chip.base \in {"READ", "AUTOSELECT"}
  BY DEF IInv, TypeOK, Chips
<1>4. Follows(c, As(c, s, chip.base, m, on))
  BY <1>2, <1>3, AsFollows
<1> QED BY <1>2, <1>4 DEF Follows

LEMMA StoreSafe ==
  ASSUME IInv, NEW a \in Addresses, NEW b \in Bytes, Store(a, b) PROVE IInv'
<1>1. chip \in Chips /\ Consistent(chip) /\ host \in Histories /\ Begins(host.stores)
      /\ Tracks(chip.state, chip.mask, host)
  BY DEF IInv, TypeOK, Tracks
<1>2. chip' \in Stored(chip, a, b) /\ host' = Orders(host, a, b)
      /\ UNCHANGED <<stale, file, snap>>
  BY DEF Store
<1>3. Follows(chip, chip')
  BY <1>1, <1>2, StoredFollows
<1>4. Tracks(chip'.state, chip'.mask, host') /\ host' \in Histories
  BY <1>1, <1>2, StoredTracks, NextOrders
<1> QED BY <1>2, <1>3, <1>4, ChipFollows

\* Both stores of a read-modify-write instruction.
LEMMA ModifyTracks ==
  ASSUME IInv, NEW a \in Addresses, NEW b \in Bytes, Modify(a, b)
  PROVE  /\ Follows(chip, chip')
         /\ host' \in Histories /\ Tracks(chip.state, chip.mask, host)'
         /\ \A x \in Watched : chip'.data[x] \subseteq chip.data[x]
         /\ chip'.data # chip.data => host'.programs
<1>0. chip \in Chips /\ Consistent(chip) /\ host \in Histories /\ Begins(host.stores)
      /\ Tracks(chip.state, chip.mask, host)
  BY DEF IInv, TypeOK, Tracks
<1>1. PICK old \in ReadBy(chip, a) :
        /\ \E between \in Stored(chip, a, old) : chip' \in Stored(between, a, b)
        /\ LET first == Orders(host, a, old) IN
             host' = [Orders(first, a, b) EXCEPT !.programs = @ \/ first.programs]
  BY DEF Modify
<1>2. PICK between \in Stored(chip, a, old) : chip' \in Stored(between, a, b)
  BY <1>1
<1> DEFINE first == Orders(host, a, old)
           second == Orders(first, a, b)
<1>3. Follows(chip, between)
  BY <1>0, <1>2, StoredFollows
<1>4. /\ first \in Histories /\ Tracks(between.state, between.mask, first)
      /\ \A x \in Watched : between.data[x] \subseteq chip.data[x]
      /\ between.data # chip.data => first.programs
  BY <1>0, <1>2, NextOrders, StoredTracks
<1>5. Begins(first.stores)
  BY <1>4 DEF Tracks
<1>6. host' = [second EXCEPT !.programs = second.programs \/ first.programs]
  BY <1>1
<1> HIDE DEF first
<1>7. between \in Chips /\ Consistent(between)
  BY <1>3 DEF Follows
<1>8. Follows(between, chip')
  BY <1>2, <1>7, StoredFollows
<1>9. /\ second \in Histories /\ Tracks(chip'.state, chip'.mask, second)
      /\ \A x \in Watched : chip'.data[x] \subseteq between.data[x]
      /\ chip'.data # between.data => second.programs
  BY <1>2, <1>4, <1>5, <1>7, NextOrders, StoredTracks
<1> HIDE DEF second
<1>10. /\ host' \in Histories /\ host'.stores = second.stores
       /\ host'.adding = second.adding /\ host'.ordered = second.ordered
       /\ host'.programs = (second.programs \/ first.programs)
  BY <1>4, <1>6, <1>9 DEF Histories
<1>11. Tracks(chip'.state, chip'.mask, host')
  BY <1>9, <1>10 DEF Tracks
<1>12. chip'.data # chip.data => host'.programs
  BY <1>4, <1>9, <1>10, Zenon
<1>13. Follows(chip, chip')
  BY <1>3, <1>8 DEF Follows, Chips
<1> QED BY <1>4, <1>9, <1>10, <1>11, <1>12, <1>13

LEMMA ModifySafe ==
  ASSUME IInv, NEW a \in Addresses, NEW b \in Bytes, Modify(a, b) PROVE IInv'
BY ModifyTracks, ChipFollows DEF Modify

LEMMA ResetSafe == ASSUME IInv, Reset PROVE IInv'
<1>1. chip.data \in Contents /\ chip.dirty \in BOOLEAN
  BY DEF IInv, TypeOK, Chips
<1>2. Follows(chip, Ready(chip.data, chip.dirty))
  BY <1>1, ReadyConsistent DEF Reset, Follows, Ready
<1>3. chip'.state \in Quiet /\ chip'.mask = {} /\ host' = NoOrders
  BY DEF Reset, Ready, Quiet
<1>4. Tracks(chip'.state, chip'.mask, host') /\ host' \in Histories
  BY <1>3, NothingOrdered
<1> QED BY <1>2, <1>4, ChipFollows DEF Reset

LEMMA AlarmSafe == ASSUME IInv, Alarm PROVE IInv'
<1>0. chip \in Chips /\ Consistent(chip) /\ chip.base \in {"READ", "AUTOSELECT"}
      /\ chip.mask \in SUBSET Sectors /\ host \in Histories
      /\ Begins(host.stores) /\ chip.mask \subseteq host.ordered /\ chip.base \in Quiet
  BY DEF IInv, TypeOK, Chips, Tracks, Quiet
<1>1. CASE SectorTimeout
  <2>1. chip' = As(chip, "SECTOR_ERASE", chip.base, chip.mask, TRUE)
    BY <1>0, <1>1 DEF SectorTimeout, As, Chips
  <2>2. chip.mask # {}
    BY <1>0, <1>1 DEF SectorTimeout, Consistent
  <2>3. Follows(chip, chip')
    BY <1>0, <2>1, <2>2, AsFollows DEF States, ErasingStates
  <2>4. chip'.state \in Quiet /\ chip'.mask = chip.mask /\ host' = host
    BY <1>0, <1>1 DEF SectorTimeout, Quiet, Chips
  <2>5. Tracks(chip'.state, chip'.mask, host')
    BY <1>0, <2>4, QuietTracks
  <2> QED BY <1>0, <1>1, <2>3, <2>4, <2>5, ChipFollows DEF SectorTimeout
<1>2. CASE SectorErased
  <2> DEFINE first == {s \in chip.mask : \A other \in chip.mask : s <= other}
             rest == chip.mask \ first
             c == EraseSectors(chip, first)
  <2>1. chip' = Rest([c EXCEPT !.mask = c.mask \ first])
    BY <1>2 DEF SectorErased
  <2>2. c \in Chips /\ c.mask = chip.mask /\ c.base = chip.base /\ c.alarm
        /\ c.state = "SECTOR_ERASE"
    BY <1>0, <1>2 DEF EraseSectors, SectorErased, Chips, Contents
  <2>3. \/ rest = {} /\ chip' = As(c, chip.base, chip.base, {}, FALSE)
        \/ rest # {} /\ chip' = As(c, "SECTOR_ERASE", chip.base, rest, TRUE)
    BY <2>1, <2>2 DEF Rest, As, Chips
  <2>4. Follows(chip, chip')
    BY <1>0, <2>3, ErasedFollows DEF States, ErasingStates
  <2>5. chip'.state \in Quiet /\ chip'.mask = rest
    BY <1>0, <2>2, <2>3 DEF As, Chips, Quiet
  <2>6. host' = [host EXCEPT !.ordered = host.ordered \ first]
    BY <1>2 DEF SectorErased
  <2> HIDE DEF first
  <2>7. host' \in Histories /\ Begins(host'.stores) /\ rest \subseteq host'.ordered
    BY <1>0, <2>6 DEF Histories
  <2>8. Tracks(chip'.state, chip'.mask, host')
    BY <2>5, <2>7, QuietTracks
  <2> QED BY <1>2, <2>4, <2>7, <2>8, ChipFollows DEF SectorErased
<1>3. CASE ChipErased
  <2> DEFINE c == EraseSectors(chip, Sectors)
  <2>1. c \in Chips /\ c.mask = {} /\ c.base = chip.base
    BY <1>0, <1>3 DEF EraseSectors, ChipErased, Chips, Contents, Consistent
  <2>2. chip' = As(c, chip.base, chip.base, {}, FALSE)
    BY <1>3, <2>1 DEF ChipErased, As, Chips
  <2>3. Follows(chip, chip')
    BY <1>0, <2>2, ErasedFollows DEF States, ErasingStates
  <2>4. chip'.state \in Quiet /\ chip'.mask = {}
    BY <1>0, <2>1, <2>2 DEF As, Chips
  <2>5. host' \in Histories /\ Begins(host'.stores)
    BY <1>0, <1>3 DEF ChipErased, Histories
  <2>6. Tracks(chip'.state, chip'.mask, host')
    BY <2>4, <2>5, QuietTracks
  <2> QED BY <1>3, <2>3, <2>5, <2>6, ChipFollows DEF ChipErased
<1> QED BY <1>1, <1>2, <1>3 DEF Alarm

LEMMA UserSafe ==
  ASSUME IInv,
         \/ \E write \in BOOLEAN : Detach(write)
         \/ Attach \/ Flush \/ SaveSnapshot \/ LoadSnapshot
  PROVE  IInv'
<1>0. /\ chip \in Chips /\ chip.data \in Contents /\ file \in Contents \cup {None}
      /\ host \in Histories /\ Begins(host.stores) /\ stale \in BOOLEAN
  BY DEF IInv, TypeOK, Chips, Tracks
<1> DEFINE SnapshotSafe ==
             /\ snap \in Snapshots \cup {None}
             /\ snap # None => /\ Consistent(Restored(snap))
                               /\ Tracks(snap.state, snap.mask, snap.host)
<1>1. SnapshotSafe
  BY DEF IInv, TypeOK
<1>2. UNCHANGED snap => SnapshotSafe'
  BY <1>1 DEF Restored, Ready
<1>3. ASSUME NEW write \in BOOLEAN, Detach(write) PROVE IInv'
  <2>1. NoChip \in Chips /\ Consistent(NoChip) /\ ~NoChip.attached
    BY DEF NoChip, Ready, Chips, Contents, Consistent, States, ErasingStates
  <2>2. stale' \in BOOLEAN
    BY <1>0, <1>3 DEF Detach, Abandon, Chips
  <2>3. file' \in Contents \cup {None}
    BY <1>0, <1>3 DEF Detach
  <2>4. NoChip.state \in Quiet /\ NoChip.mask = {}
    BY DEF NoChip, Ready, Quiet
  <2>5. Tracks(chip'.state, chip'.mask, host') /\ host' \in Histories
    BY <1>3, <2>4, NothingOrdered DEF Detach
  <2> QED BY <1>2, <1>3, <2>1, <2>2, <2>3, <2>5 DEF Detach, IInv, TypeOK, ChangesAreDirty
<1>4. CASE Attach
  <2>1. chip' \in Chips /\ Consistent(chip') /\ chip'.data = file
    BY <1>0, <1>4, ReadyConsistent DEF Attach
  <2>2. chip'.state \in Quiet /\ chip'.mask = {} /\ host' = host
    BY <1>4 DEF Attach, Ready, Quiet
  <2>3. Tracks(chip'.state, chip'.mask, host')
    BY <1>0, <2>2, QuietTracks
  <2> QED BY <1>0, <1>2, <1>4, <2>1, <2>2, <2>3 DEF Attach, IInv, TypeOK, ChangesAreDirty
<1>5. CASE Flush
  <2>1. UNCHANGED <<chip, stale, snap, host>> /\ file' = chip.data
    BY <1>5 DEF Flush
  <2> QED BY <1>0, <1>2, <2>1 DEF IInv, TypeOK, ChangesAreDirty
<1>6. CASE SaveSnapshot
  <2>1. UNCHANGED <<chip, stale, file, host>>
        /\ snap' = [state |-> chip.state, base |-> chip.base, mask |-> chip.mask,
                    data |-> chip.data, host |-> host]
    BY <1>6 DEF SaveSnapshot
  <2>2. snap' \in Snapshots /\ Tracks(snap'.state, snap'.mask, snap'.host)
    BY <1>0, <2>1 DEF Snapshots, Chips, IInv
  <2>3. Consistent(Restored(snap'))
    <3>1. snap'.state = chip.state /\ snap'.mask = chip.mask
      BY <2>1
    <3>2. /\ Restored(snap').state = chip.state /\ Restored(snap').mask = chip.mask
          /\ Restored(snap').alarm = (chip.state \in ErasingStates)
      BY <3>1 DEF Restored, Ready
    <3> QED BY <3>2 DEF IInv, Consistent
  <2> QED BY <2>1, <2>2, <2>3 DEF IInv, TypeOK, ChangesAreDirty
<1>7. CASE LoadSnapshot
  <2>1. /\ snap \in Snapshots /\ Consistent(Restored(snap))
        /\ Tracks(snap.state, snap.mask, snap.host)
    BY <1>1, <1>7 DEF LoadSnapshot
  <2>2. Restored(snap) \in Chips
    <3>1. /\ snap.data \in Contents /\ snap.state \in States
          /\ snap.base \in {"READ", "AUTOSELECT"} /\ snap.mask \in SUBSET Sectors
      BY <2>1 DEF Snapshots
    <3>2. Ready(snap.data, FALSE) \in Chips
      BY <3>1, ReadyConsistent
    <3>3. (snap.state \in ErasingStates) \in BOOLEAN
      OBVIOUS
    <3> QED BY <3>1, <3>2, <3>3 DEF Restored, Chips
  <2>3. stale' \in BOOLEAN
    BY <1>0, <1>7 DEF LoadSnapshot, Abandon, Chips
  <2>4. Restored(snap).state = snap.state /\ Restored(snap).mask = snap.mask
    BY DEF Restored, Ready
  <2>5. Tracks(chip'.state, chip'.mask, host') /\ host' \in Histories
    BY <1>7, <2>1, <2>4 DEF LoadSnapshot, Snapshots
  <2> QED BY <1>2, <1>7, <2>1, <2>2, <2>3, <2>5
          DEF LoadSnapshot, IInv, TypeOK, ChangesAreDirty
<1> QED BY <1>3, <1>4, <1>5, <1>6, <1>7

LEMMA NextSafe == IInv /\ [Next]_vars => IInv'
<1> SUFFICES ASSUME IInv, [Next]_vars PROVE IInv' OBVIOUS
<1>1. CASE UNCHANGED vars
  BY <1>1 DEF vars, IInv, TypeOK, ChangesAreDirty, Restored, Ready
<1>2. CASE Working
  BY <1>2, StoreSafe, ModifySafe, ResetSafe, AlarmSafe DEF Working
<1>3. CASE Next /\ ~Working
  BY <1>3, UserSafe DEF Next
<1> QED BY <1>1, <1>2, <1>3

LEMMA Invariant == Spec => []IInv
BY InitSafe, NextSafe, PTL DEF Spec

\* A user who waits for the end of an erase leaves no alarm behind.
LEMMA NothingLeft == ASSUME Inputs = {} PROVE IInv /\ ~stale /\ [Next]_vars => ~stale'
<1> SUFFICES ASSUME IInv, ~stale, [Next]_vars PROVE ~stale' OBVIOUS
<1>1. CASE UNCHANGED stale
  BY <1>1
<1>2. CASE Waits /\ Abandon
  BY <1>2 DEF Waits, Abandon
<1>3. UNCHANGED stale \/ (Waits /\ Abandon)
  BY DEF vars, Next, Working, Store, Modify, Reset, Alarm, SectorTimeout, SectorErased,
         ChipErased, Detach, Attach, Flush, SaveSnapshot, LoadSnapshot
<1> QED BY <1>1, <1>2, <1>3

\* An alarm erases nothing but what was ordered.
LEMMA AlarmOrdered ==
  ASSUME IInv, Alarm, NEW x \in Watched
  PROVE  /\ chip.data[x] \subseteq chip'.data[x]
         /\ chip'.data[x] # chip.data[x] => SectorOf(x) \in host.ordered
<1>1. chip \in Chips /\ Tracks(chip.state, chip.mask, host)
  BY DEF IInv, TypeOK
<1>2. CASE SectorTimeout
  BY <1>1, <1>2 DEF SectorTimeout, Chips
<1>3. ASSUME NEW S, S \subseteq host.ordered,
             chip'.data = [y \in Watched |-> IF SectorOf(y) \in S THEN Erased ELSE chip.data[y]]
      PROVE  /\ chip.data[x] \subseteq chip'.data[x]
             /\ chip'.data[x] # chip.data[x] => SectorOf(x) \in host.ordered
  BY <1>1, <1>3 DEF Chips, Contents
<1>4. CASE SectorErased
  <2> DEFINE first == {s \in chip.mask : \A other \in chip.mask : s <= other}
  <2>1. chip'.data = EraseSectors(chip, first).data
    BY <1>1, <1>4 DEF SectorErased, Rest, EraseSectors, Chips
  <2>2. first \subseteq host.ordered
    BY <1>1 DEF Tracks
  <2> QED BY <1>1, <1>3, <2>1, <2>2 DEF EraseSectors, Chips
<1>5. CASE ChipErased
  <2>1. chip'.data = EraseSectors(chip, Sectors).data
    BY <1>1, <1>5 DEF ChipErased, EraseSectors, Chips
  <2>2. Sectors \subseteq host.ordered
    BY <1>1, <1>5 DEF Tracks, ChipErased
  <2> QED BY <1>1, <1>3, <2>1, <2>2 DEF EraseSectors, Chips
<1> QED BY <1>2, <1>4, <1>5 DEF Alarm

-----------------------------------------------------------------------------
(* Theorems *)

\* The chip, its image file, the snapshot and the history stay in their types.
THEOREM TypeCorrect == Spec => []TypeOK
<1>1. IInv => TypeOK
  BY DEF IInv
<1> QED BY <1>1, Invariant, PTL

\* For any sectors, addresses and bytes the alarm is pending if and only if the chip
\* erases, through every order of stores, resets, attachments and snapshots; and no
\* alarm is left behind by a user who waits for the end of an erase.
THEOREM EraseIsInProgress == ASSUME Inputs = {} PROVE Spec => []EraseInProgress
<1>1. Init => ~stale
  BY DEF Init
<1>2. IInv /\ ~stale => EraseInProgress
  BY DEF IInv, EraseInProgress
<1> QED BY <1>1, <1>2, Invariant, NothingLeft, PTL DEF Spec

\* A chip that differs from the file it is attached to is always marked as changed.
THEOREM ChangesStayDirty == Spec => []ChangesAreDirty
<1>1. IInv => ChangesAreDirty
  BY DEF IInv
<1> QED BY <1>1, Invariant, PTL

\* Whatever the program stores, in whatever order, also around resets, other
\* cartridges and snapshots: a cell loses bits only by the store after a complete
\* program command, and gets bits only in a sector that a complete erase has named.
THEOREM OrderedChangesOnly == Spec => ChangesOnCommand
<1> DEFINE Ordered(x) ==
             /\ chip'.data[x] \ chip.data[x] # {} => SectorOf(x) \in host.ordered
             /\ chip.data[x] \ chip'.data[x] # {} => host'.programs
<1>1. ASSUME IInv, Working, NEW x \in Watched PROVE Ordered(x)
  <2>0. chip \in Chips /\ Consistent(chip) /\ host \in Histories
        /\ Tracks(chip.state, chip.mask, host)
    BY <1>1 DEF IInv, TypeOK
  <2>1. ASSUME NEW a \in Addresses, NEW b \in Bytes, Store(a, b) PROVE Ordered(x)
    <3>1. /\ chip'.data[x] \subseteq chip.data[x]
          /\ chip'.data # chip.data => host'.programs
      BY <2>0, <2>1, StoredTracks DEF Store
    <3> QED BY <3>1, Zenon
  <2>2. ASSUME NEW a \in Addresses, NEW b \in Bytes, Modify(a, b) PROVE Ordered(x)
    <3>1. /\ chip'.data[x] \subseteq chip.data[x]
          /\ chip'.data # chip.data => host'.programs
      BY <1>1, <2>2, ModifyTracks
    <3> QED BY <3>1, Zenon
  <2>3. CASE Reset
    BY <2>3 DEF Reset, Ready
  <2>4. CASE Alarm
    <3>1. /\ chip.data[x] \subseteq chip'.data[x]
          /\ chip'.data[x] # chip.data[x] => SectorOf(x) \in host.ordered
      BY <1>1, <2>4, AlarmOrdered
    <3> QED BY <3>1, Zenon
  <2> QED BY <1>1, <2>1, <2>2, <2>3, <2>4 DEF Working
<1>2. IInv /\ [Next]_vars =>
        [Working =>
           \A a \in Watched :
             /\ chip'.data[a] \ chip.data[a] # {} => SectorOf(a) \in host.ordered
             /\ chip.data[a] \ chip'.data[a] # {} => host'.programs]_vars
  BY <1>1
<1> QED BY <1>2, Invariant, PTL DEF Spec, ChangesOnCommand
=============================================================================
