---------------------------- MODULE DiskFilesProofs ----------------------------
(***************************************************************************)
(* Proofs about DiskFiles for any number of blocks (below 65536), entries, *)
(* channels and names, and blocks of any size.  A drive is looked at as a  *)
(* set of owners: closed files and channels that write.  The inductive     *)
(* invariant says that every owner's first block leads along a chain of    *)
(* its own that ends, that those blocks are allocated, in the map on the   *)
(* image too if the owner is a closed file, and that a channel's last      *)
(* block, its count and its entry fit the chain.  After a kill between an  *)
(* entry and the map the files are still chains of their own, and only the *)
(* map does not fit them, until the disk is validated or a file is written *)
(* to it.                                                                  *)
(*                                                                         *)
(* What a chain is, and what closing all channels and validating the disk  *)
(* compute, is defined recursively; the proofs about them go by induction  *)
(* over numbers, which is the least number principle (Induction below).    *)
(***************************************************************************)
EXTENDS DiskFiles, FiniteSetTheorems, SequenceTheorems, WellFoundedInduction, TLAPS

-----------------------------------------------------------------------------
(* Induction *)

\* What holds of 0 and goes from each number to the next holds of all.
LEMMA Induction ==
  ASSUME NEW T, 0 \in T, \A n \in Nat : n \in T => n + 1 \in T
  PROVE  Nat \subseteq T
<1> DEFINE R == OpToRel(<, Nat)
<1>1. IsWellFoundedOn(R, Nat)
  BY NatLessThanWellFounded
<1>2. \A x, y \in Nat : <<x, y>> \in R <=> x < y
  BY DEF OpToRel
<1> HIDE DEF R
<1> SUFFICES ASSUME Nat \ T # {} PROVE FALSE
  OBVIOUS
<1>3. PICK x \in Nat \ T : \A y \in Nat \ T : ~ (<<y, x>> \in R)
  BY <1>1, WFMin
<1>4. x # 0 /\ x - 1 \in Nat /\ x - 1 < x
  OBVIOUS
<1>5. x - 1 \in T
  BY <1>2, <1>3, <1>4
<1>6. (x - 1) + 1 \in T
  BY <1>4, <1>5
<1> QED BY <1>3, <1>6

-----------------------------------------------------------------------------
(* Chains *)

\* The blocks q in the order in which the links lead from b to them.
Leads(links, b, q) ==
  /\ q \in Seq(Block) /\ IsInjective(q)
  /\ IF q = <<>> THEN b = NoBlock ELSE b = q[1] /\ links[q[Len(q)]] = NoBlock
  /\ \A i \in 1 .. Len(q) - 1 : links[q[i]] = q[i + 1]

\* Blocks without repetition are no more than there are.
LEMMA LengthOfInjective ==
  ASSUME NEW q \in Seq(Block), IsInjective(q)
  PROVE  Len(q) \in Nat /\ Len(q) <= Cardinality(Block) /\ Cardinality(Block) \in Nat
<1>1. Len(q) \in Nat /\ q \in [1 .. Len(q) -> Block]
  OBVIOUS
<1>2. IsFiniteSet(Block) /\ Cardinality(Block) \in Nat
  BY DiskFilesAssumption, FS_CardinalityType
<1>3. IsFiniteSet(1 .. Len(q)) /\ Cardinality(1 .. Len(q)) = Len(q)
  BY <1>1, FS_Interval
<1>4. ~ (\E x, y \in 1 .. Len(q) : x # y /\ q[x] = q[y])
  BY <1>1 DEF IsInjective
<1>5. ~ (Cardinality(Block) < Cardinality(1 .. Len(q)))
  BY <1>1, <1>2, <1>3, <1>4, FS_PigeonHole
<1> QED BY <1>1, <1>2, <1>3, <1>5

\* Following the links from b finds exactly those blocks.
LEMMA ChainIs ==
  ASSUME NEW links, NEW b, NEW q, Leads(links, b, q)
  PROVE  Chain(links, b) = q
<1> DEFINE N == Cardinality(Block) + 1
           Step(chain) == LET more == IF chain = <<>> THEN b ELSE links[Last(chain)]
                          IN IF more = NoBlock THEN chain ELSE Append(chain, more)
           Rec(f) == f = [n \in 0 .. N |-> IF n = 0 THEN <<>> ELSE Step(f[n - 1])]
           Upto(k) == SubSeq(q, 1, k)
           F == [n \in 0 .. N |-> IF n <= Len(q) THEN Upto(n) ELSE q]
           H == CHOOSE f : Rec(f)
<1>1. /\ q \in Seq(Block) /\ Len(q) \in Nat /\ N \in Nat /\ Len(q) < N
      /\ NoBlock \notin Block
  BY LengthOfInjective, DiskFilesAssumption DEF Leads
<1>2. \A k \in 0 .. Len(q) : Upto(k) \in Seq(Block) /\ Len(Upto(k)) = k
                              /\ \A i \in 1 .. k : Upto(k)[i] = q[i]
  BY <1>1
<1>3. Upto(0) = <<>> /\ Upto(Len(q)) = q
  BY <1>1
<1>4. \A k \in 1 .. Len(q) : Append(Upto(k - 1), q[k]) = Upto(k)
  BY <1>1
<1>5. \A k \in 1 .. Len(q) : Step(Upto(k - 1)) = Upto(k)
  <2> TAKE k \in 1 .. Len(q)
  <2>1. q # <<>> /\ q[k] \in Block /\ q[k] # NoBlock
    BY <1>1
  <2>2. CASE k = 1
    <3>1. Upto(k - 1) = <<>> /\ b = q[k]
      BY <1>3, <2>1, <2>2 DEF Leads
    <3> QED BY <1>4, <2>1, <3>1
  <2>3. CASE k # 1
    <3>1. k - 1 \in 1 .. Len(q) - 1 /\ (k - 1) + 1 = k
      BY <1>1, <2>3
    <3>2. links[q[k - 1]] = q[k]
      BY <3>1 DEF Leads
    <3>3. Upto(k - 1) # <<>> /\ Last(Upto(k - 1)) = q[k - 1]
      BY <1>1, <1>2, <3>1 DEF Last
    <3> QED BY <1>4, <2>1, <3>2, <3>3
  <2> QED BY <2>2, <2>3
<1>6. Step(q) = q
  <2>1. CASE q = <<>>
    BY <2>1 DEF Leads
  <2>2. CASE q # <<>>
    BY <2>2 DEF Leads, Last
  <2> QED BY <2>1, <2>2
<1> HIDE DEF Upto, Step
<1>7. Rec(F)
  <2> SUFFICES ASSUME NEW n \in 0 .. N, n # 0 PROVE F[n] = Step(F[n - 1])
    BY <1>1, <1>3
  <2>0. n - 1 \in 0 .. N /\ (n \in 1 .. Len(q) \/ n - 1 = Len(q) \/ n - 1 > Len(q))
    BY <1>1
  <2>1. CASE n \in 1 .. Len(q)
    BY <1>1, <1>5, <2>0, <2>1
  <2>2. CASE n - 1 = Len(q)
    BY <1>1, <1>3, <1>6, <2>0, <2>2
  <2>3. CASE n - 1 > Len(q)
    BY <1>1, <1>6, <2>0, <2>3
  <2> QED BY <2>0, <2>1, <2>2, <2>3
<1>8. Rec(H)
  BY <1>7, Zenon
<1>9. Chain(links, b) = H[N]
  BY DEF Chain, Step
<1>10. /\ F[0] = <<>> /\ H[0] = <<>>
       /\ \A n \in 1 .. N : F[n] = Step(F[n - 1]) /\ H[n] = Step(H[n - 1])
  <2> HIDE DEF F, H
  <2> QED BY <1>1, <1>7, <1>8
<1>11. F[N] = q
  BY <1>1
<1> HIDE DEF F, H, Rec
<1>12. H[N] = F[N]
  <2> DEFINE T == {n \in Nat : n <= N => H[n] = F[n]}
  <2>1. 0 \in T
    BY <1>1, <1>10
  <2>2. ASSUME NEW n \in Nat, n \in T PROVE n + 1 \in T
    <3> SUFFICES ASSUME n + 1 <= N PROVE H[n + 1] = F[n + 1]
      OBVIOUS
    <3>1. n + 1 \in 1 .. N /\ (n + 1) - 1 = n /\ n <= N
      BY <1>1
    <3>2. H[n] = F[n]
      BY <2>2, <3>1
    <3> QED BY <1>10, <3>1, <3>2
  <2> HIDE DEF T
  <2>3. Nat \subseteq T
    BY <2>1, <2>2, Induction
  <2>4. N \in T
    BY <1>1, <2>3
  <2> QED BY <1>1, <2>4 DEF T
<1> QED BY <1>9, <1>11, <1>12

-----------------------------------------------------------------------------
(* The invariant *)

\* Who owns blocks: a closed file is known by its slot, a channel that writes by its
\* number with the sign changed.
Writes(s, c) == c \in Channel /\ s.channel[c] # Free
IsFile(s, e) == e \in Slot /\ s.dir[e] # NoEntry /\ s.dir[e].closed
Owners(s) == {o \in Int : IsFile(s, o) \/ Writes(s, -o)}

\* Where the blocks of an owner start and how they are linked.  What the last block of
\* a channel links to is not written yet.
Replaces(p) == p.mode = "replace"
First(p) == IF Replaces(p) THEN p.replacement ELSE p.entry.first
Start(s, o) == IF o \in Slot THEN s.dir[o].first ELSE First(s.channel[-o])
Links(s, o) == IF o \in Slot THEN s.next ELSE [s.next EXCEPT ![s.channel[-o].track] = NoBlock]
Path(s, o) == Chain(Links(s, o), Start(s, o))
Owned(s, o) == Range(Path(s, o))

\* The records that the model builds have their fields, and a block or none where the
\* code has a track and sector.
MaybeBlock == Block \cup {NoBlock}
IsEntry(p) ==
  /\ p = [name |-> p.name, closed |-> p.closed, first |-> p.first, blocks |-> p.blocks]
  /\ p.closed \in BOOLEAN /\ p.first \in MaybeBlock /\ p.blocks \in Nat
IsWriter(p) ==
  /\ p = [mode |-> p.mode, slot |-> p.slot, entry |-> p.entry, replacement |-> p.replacement,
          track |-> p.track, buffer |-> p.buffer]
  /\ p.slot \in Slot /\ IsEntry(p.entry)
  /\ p.replacement \in MaybeBlock /\ p.track \in MaybeBlock
IsDrive(s) ==
  s = [bam |-> s.bam, saved |-> s.saved, dir |-> s.dir, next |-> s.next, data |-> s.data,
       channel |-> s.channel, code |-> s.code]
Typed(s) ==
  /\ IsDrive(s)
  /\ s.bam \in SUBSET Block /\ s.saved \in SUBSET Block
  /\ s.next \in [Block -> MaybeBlock]
  /\ s.dir = [e \in Slot |-> s.dir[e]]
  /\ \A e \in Slot : s.dir[e] = NoEntry \/ IsEntry(s.dir[e])
  /\ s.channel = [c \in Channel |-> s.channel[c]]
  /\ \A c \in Channel : s.channel[c] = Free \/ IsWriter(s.channel[c])

\* Every owner's blocks are a chain, are allocated, and are its own.
Paths(s) ==
  /\ \A o \in Owners(s) : /\ Leads(Links(s, o), Start(s, o), Path(s, o))
                          /\ Owned(s, o) \subseteq s.bam
  /\ \A o, u \in Owners(s) : o # u => Owned(s, o) \cap Owned(s, u) = {}

\* What a channel writes to has an entry of its own, closed only if it is replaced; the
\* channel's block is the last one of its chain, and is not counted yet.
WriterIs(s, c, p, path) ==
  /\ s.dir[p.slot] # NoEntry
  /\ Replaces(p) => s.dir[p.slot].closed /\ s.dir[p.slot].first = p.entry.first
  /\ ~Replaces(p) => ~s.dir[p.slot].closed
  /\ \A d \in Channel : d # c /\ Writes(s, d) => s.channel[d].slot # p.slot
  /\ path = <<>> => p.track = NoBlock
  /\ path # <<>> => p.track = Last(path) /\ p.entry.blocks = Len(path) - 1
Channeled(s) ==
  \A c \in Channel : Writes(s, c) => WriterIs(s, c, s.channel[c], Path(s, -c))

\* Of a closed file also the map on the image has the blocks, and the entry their number.
OnImage(s) ==
  \A e \in Slot : IsFile(s, e) =>
    /\ Owned(s, e) \subseteq s.saved
    /\ s.dir[e].first # NoBlock => s.dir[e].blocks = Len(Path(s, e))

\* All of it.
Sound(s) == Typed(s) /\ Paths(s) /\ Channeled(s) /\ OnImage(s)

\* No allocated block is without an owner, in memory, and if nobody writes on the image.
AllOwned(s) == UNION {Owned(s, o) : o \in Owners(s)}
Exact(s) == s.bam = AllOwned(s) /\ ((\A c \in Channel : s.channel[c] = Free) => s.saved = s.bam)

-----------------------------------------------------------------------------
(* What follows from the definitions *)

\* An entry is not the missing one, a writer not the free channel.
LEMMA NoneOfThese ==
  /\ \A p : IsEntry(p) => p # NoEntry
  /\ \A p : IsWriter(p) => p # Free
<1>1. ASSUME NEW p, IsEntry(p) PROVE p # NoEntry
  BY <1>1 DEF IsEntry, NoEntry
<1>2. ASSUME NEW p, IsWriter(p) PROVE p # Free
  BY <1>2 DEF IsWriter, Free
<1> QED BY <1>1, <1>2

\* Slots and channels with the sign changed are different numbers.
LEMMA Numbers ==
  /\ Slot \subseteq Int /\ Channel \subseteq Int
  /\ \A c \in Channel : -c \in Int /\ -c \notin Slot /\ -(-c) = c
  /\ \A e \in Slot : -e \notin Channel
  BY DiskFilesAssumption DEF Slot, Channel

\* An owner is the slot of a closed file or a channel that writes.
LEMMA OwnersAre ==
  ASSUME NEW s
  PROVE  /\ \A e \in Slot : e \in Owners(s) <=> IsFile(s, e)
         /\ \A c \in Channel : -c \in Owners(s) <=> Writes(s, c)
         /\ \A o \in Owners(s) :
              (o \in Slot /\ IsFile(s, o)) \/ \E c \in Channel : o = -c /\ Writes(s, c)
<1>1. ASSUME NEW e \in Slot PROVE e \in Owners(s) <=> IsFile(s, e)
  BY Numbers DEF Owners, Writes
<1>2. ASSUME NEW c \in Channel PROVE -c \in Owners(s) <=> Writes(s, c)
  BY Numbers DEF Owners, IsFile
<1>3. ASSUME NEW o \in Owners(s), ~ (o \in Slot /\ IsFile(s, o))
      PROVE  \E c \in Channel : o = -c /\ Writes(s, c)
  <2>1. o \in Int /\ Writes(s, -o)
    BY <1>3 DEF Owners, IsFile
  <2>2. -o \in Channel /\ o = -(-o)
    BY <2>1 DEF Writes
  <2> QED BY <2>1, <2>2
<1> QED BY <1>1, <1>2, <1>3

\* The drive r comes from s by what happens to the blocks of one owner, which has q.
Keeps(s, r, z, q) ==
  /\ \A o \in Owners(r) \ {z} :
       /\ o \in Owners(s) /\ Start(r, o) = Start(s, o)
       /\ \A b \in Owned(s, o) : Links(r, o)[b] = Links(s, o)[b]
       /\ Owned(s, o) \subseteq r.bam /\ Range(q) \cap Owned(s, o) = {}
  /\ z \in Owners(r) => Leads(Links(r, z), Start(r, z), q) /\ Range(q) \subseteq r.bam

\* Links that differ elsewhere lead to the same blocks.
LEMMA LeadsElsewhere ==
  ASSUME NEW links, NEW other, NEW b, NEW q, Leads(links, b, q),
         \A x \in Range(q) : other[x] = links[x]
  PROVE  Leads(other, b, q)
<1>1. \A i \in 1 .. Len(q) : other[q[i]] = links[q[i]]
  BY DEF Range, Leads
<1>2. q \in Seq(Block) /\ Len(q) \in Nat
  BY DEF Leads
<1>3. q # <<>> => other[q[Len(q)]] = links[q[Len(q)]]
  BY <1>1, <1>2
<1>4. \A i \in 1 .. Len(q) - 1 : other[q[i]] = links[q[i]]
  BY <1>1, <1>2
<1> QED BY <1>3, <1>4 DEF Leads

\* Then the other owners have the blocks they had, and the one has q.
LEMMA KeptPaths ==
  ASSUME NEW s, NEW r, NEW z, NEW q, Paths(s), Keeps(s, r, z, q)
  PROVE  /\ Paths(r)
         /\ \A o \in Owners(r) \ {z} : Path(r, o) = Path(s, o) /\ Owned(r, o) = Owned(s, o)
         /\ z \in Owners(r) => Path(r, z) = q /\ Owned(r, z) = Range(q)
<1>1. ASSUME NEW o \in Owners(r) \ {z}
      PROVE  /\ o \in Owners(s) /\ Path(r, o) = Path(s, o) /\ Owned(r, o) = Owned(s, o)
             /\ Leads(Links(r, o), Start(r, o), Path(r, o)) /\ Owned(r, o) \subseteq r.bam
  <2>1. /\ o \in Owners(s) /\ Leads(Links(s, o), Start(s, o), Path(s, o))
        /\ Start(r, o) = Start(s, o) /\ Owned(s, o) \subseteq r.bam
    BY DEF Keeps, Paths
  <2>2. \A b \in Range(Path(s, o)) : Links(r, o)[b] = Links(s, o)[b]
    BY DEF Keeps, Owned
  <2>3. Leads(Links(r, o), Start(r, o), Path(s, o))
    BY <2>1, <2>2, LeadsElsewhere
  <2>4. Path(r, o) = Path(s, o)
    BY <2>3, ChainIs DEF Path
  <2> QED BY <2>1, <2>3, <2>4 DEF Owned
<1>2. ASSUME z \in Owners(r)
      PROVE  /\ Path(r, z) = q /\ Owned(r, z) = Range(q) /\ Owned(r, z) \subseteq r.bam
             /\ Leads(Links(r, z), Start(r, z), Path(r, z))
  <2>1. Leads(Links(r, z), Start(r, z), q) /\ Range(q) \subseteq r.bam
    BY <1>2 DEF Keeps
  <2>2. Path(r, z) = q
    BY <2>1, ChainIs DEF Path
  <2> QED BY <2>1, <2>2 DEF Owned
<1>3. ASSUME NEW o \in Owners(r), NEW u \in Owners(r), o # u
      PROVE  Owned(r, o) \cap Owned(r, u) = {}
  <2>1. CASE o # z /\ u # z
    BY <1>1, <1>3, <2>1 DEF Paths
  <2>2. CASE o = z
    <3>1. Range(q) \cap Owned(s, u) = {}
      BY <1>3, <2>2 DEF Keeps
    <3> QED BY <1>1, <1>2, <1>3, <2>2, <3>1
  <2>3. CASE u = z
    <3>1. Range(q) \cap Owned(s, o) = {}
      BY <1>3, <2>3 DEF Keeps
    <3> QED BY <1>1, <1>2, <1>3, <2>3, <3>1
  <2> QED BY <2>1, <2>2, <2>3
<1>4. Paths(r)
  <2>1. ASSUME NEW o \in Owners(r)
        PROVE  Leads(Links(r, o), Start(r, o), Path(r, o)) /\ Owned(r, o) \subseteq r.bam
    BY <1>1, <1>2
  <2> QED BY <1>3, <2>1 DEF Paths
<1> QED BY <1>1, <1>2, <1>4

-----------------------------------------------------------------------------
(* What the steps of a command do to the fields of a drive *)

\* Only the channel c of the drive changes.
OtherChannels(s, t, c) ==
  t.channel = [d \in Channel |-> IF d = c THEN t.channel[c] ELSE s.channel[d]]

\* An entry with a new first block and number of blocks.
LEMMA EntryWith ==
  ASSUME NEW e, IsEntry(e), NEW f, NEW n
  PROVE  [e EXCEPT !.blocks = n, !.first = f]
           = [name |-> e.name, closed |-> e.closed, first |-> f, blocks |-> n]
<1> DEFINE q == [e EXCEPT !.blocks = n, !.first = f]
<1>1. e = [name |-> e.name, closed |-> e.closed, first |-> e.first, blocks |-> e.blocks]
  BY DEF IsEntry
<1>2. q = [e EXCEPT !.blocks = n, !.first = f]
  OBVIOUS
<1> HIDE DEF q
<1>3. q = [name |-> e.name, closed |-> e.closed, first |-> f, blocks |-> n]
  BY <1>1, <1>2
<1> QED BY <1>2, <1>3

\* The number of blocks after one more, and an entry with it.
OneMore(n) == (n + 1) % 65536

LEMMA CountIs ==
  ASSUME NEW e, IsEntry(e)
  PROVE  Count(e) = [name |-> e.name, closed |-> e.closed, first |-> e.first,
                     blocks |-> OneMore(e.blocks)]
<1> DEFINE q == Count(e)
<1>1. e = [name |-> e.name, closed |-> e.closed, first |-> e.first, blocks |-> e.blocks]
  BY DEF IsEntry
<1>2. q = [e EXCEPT !.blocks = OneMore(e.blocks)]
  BY DEF Count, OneMore
<1> HIDE DEF q
<1>3. q = [name |-> e.name, closed |-> e.closed, first |-> e.first,
           blocks |-> OneMore(e.blocks)]
  BY <1>1, <1>2
<1> QED BY <1>3 DEF q

\* A writer's first block is allocated.
Taken(s, t, c, p, b) ==
  /\ IsDrive(t) /\ t.bam = s.bam \cup {b} /\ t.saved = s.saved
  /\ t.dir = s.dir /\ t.next = s.next /\ OtherChannels(s, t, c)
  /\ t.channel[c] =
       [mode |-> p.mode, slot |-> p.slot,
        entry |-> [name |-> p.entry.name, closed |-> p.entry.closed,
                   first |-> IF Replaces(p) THEN p.entry.first ELSE b, blocks |-> 0],
        replacement |-> IF Replaces(p) THEN b ELSE p.replacement,
        track |-> b, buffer |-> p.buffer]

\* What is written of the drive: the map, a block with its link, the channel.
Written(s, t, c, map, links, blocks, p) ==
  t = [bam |-> map, saved |-> s.saved, dir |-> s.dir, next |-> links, data |-> blocks,
       channel |-> [s.channel EXCEPT ![c] = p], code |-> s.code]
OnlyWritten(s, t, c, map, links, p) ==
  /\ IsDrive(t) /\ t.bam = map /\ t.saved = s.saved /\ t.dir = s.dir
  /\ t.next = links /\ OtherChannels(s, t, c) /\ t.channel[c] = p

LEMMA WrittenFields ==
  ASSUME NEW s, Typed(s), NEW c \in Channel, NEW map, NEW links, NEW blocks, NEW p,
         NEW t, Written(s, t, c, map, links, blocks, p)
  PROVE  OnlyWritten(s, t, c, map, links, p)
<1> PICK channels : channels = [s.channel EXCEPT ![c] = p]
  OBVIOUS
<1>1. IsDrive(s) /\ s.channel = [d \in Channel |-> s.channel[d]]
  BY DEF Typed
<1>3. t = [bam |-> map, saved |-> s.saved, dir |-> s.dir, next |-> links, data |-> blocks,
           channel |-> channels, code |-> s.code]
  BY Zenon DEF Written
<1>4. t.bam = map /\ t.saved = s.saved /\ t.dir = s.dir /\ t.next = links
      /\ t.channel = channels
  BY <1>3
<1>5. IsDrive(t)
  BY <1>3, Zenon DEF IsDrive
<1>6. t.channel[c] = p /\ OtherChannels(s, t, c)
  BY <1>1, <1>4 DEF OtherChannels
<1> QED BY <1>4, <1>5, <1>6 DEF OnlyWritten

\* The block b becomes the first one of the writer p.
TakesOf(p, b) ==
  LET replaces == p.mode = "replace"
      entry == [p.entry EXCEPT !.blocks = 0, !.first = IF replaces THEN @ ELSE b]
  IN [p EXCEPT !.track = b, !.entry = entry, !.replacement = IF replaces THEN b ELSE @]

LEMMA TakesOfIs ==
  ASSUME NEW p, IsWriter(p), IsEntry(p.entry), NEW b
  PROVE  TakesOf(p, b) =
           [mode |-> p.mode, slot |-> p.slot,
            entry |-> [name |-> p.entry.name, closed |-> p.entry.closed,
                       first |-> IF Replaces(p) THEN p.entry.first ELSE b, blocks |-> 0],
            replacement |-> IF Replaces(p) THEN b ELSE p.replacement,
            track |-> b, buffer |-> p.buffer]
<1> PICK f, g : /\ f = IF p.mode = "replace" THEN p.entry.first ELSE b
                /\ g = IF p.mode = "replace" THEN b ELSE p.replacement
  OBVIOUS
<1> PICK e, q : e = [p.entry EXCEPT !.blocks = 0, !.first = f] /\ q = TakesOf(p, b)
  OBVIOUS
<1>1. q = [p EXCEPT !.track = b, !.entry = e, !.replacement = g]
  BY Zenon DEF TakesOf
<1>2. e = [name |-> p.entry.name, closed |-> p.entry.closed, first |-> f, blocks |-> 0]
  BY EntryWith, Zenon
<1>3. q = [mode |-> p.mode, slot |-> p.slot, entry |-> e, replacement |-> g,
           track |-> b, buffer |-> p.buffer]
  BY <1>1, Zenon DEF IsWriter
<1> QED BY <1>2, <1>3, Zenon DEF Replaces

\* FirstBlock, if the channel has no block yet.
LEMMA TakesFields ==
  ASSUME NEW s, Typed(s), NEW c, Writes(s, c), s.channel[c].track = NoBlock,
         NEW t \in FirstBlock(s, c)
  PROVE  \E b \in Block \ s.bam : Taken(s, t, c, s.channel[c], b)
<1> PICK p : p = s.channel[c]
  OBVIOUS
<1>1. c \in Channel /\ IsWriter(p) /\ IsEntry(p.entry) /\ IsDrive(s)
  BY NoneOfThese DEF Typed, Writes, IsWriter
<1>2. PICK b \in Available(s) : t = [s EXCEPT !.bam = @ \cup {b}, !.channel[c] = TakesOf(p, b)]
  BY Zenon DEF FirstBlock, TakesOf
<1> PICK q, map : q = TakesOf(p, b) /\ map = s.bam \cup {b}
  OBVIOUS
<1>3. Written(s, t, c, map, s.next, s.data, q)
  BY <1>1, <1>2, Zenon DEF IsDrive, Written
<1>4. OnlyWritten(s, t, c, map, s.next, q)
  BY <1>1, <1>3, WrittenFields
<1>5. b \in Block \ s.bam
  BY DEF Available
<1>6. Taken(s, t, c, p, b)
  BY <1>1, <1>4, TakesOfIs, Zenon DEF Taken, OnlyWritten
<1> QED BY <1>5, <1>6

\* A channel with a new block and entry.
LEMMA WriterWith ==
  ASSUME NEW p, IsWriter(p), NEW b, NEW e, NEW q, q = [p EXCEPT !.track = b, !.entry = e]
  PROVE  q = [mode |-> p.mode, slot |-> p.slot, entry |-> e, replacement |-> p.replacement,
              track |-> b, buffer |-> p.buffer]
<1>1. p = [mode |-> p.mode, slot |-> p.slot, entry |-> p.entry, replacement |-> p.replacement,
           track |-> p.track, buffer |-> p.buffer]
  BY DEF IsWriter
<1> QED BY <1>1

\* A block is written that links to b.
Linked(s, t, c, p, b) ==
  /\ IsDrive(t) /\ t.bam = s.bam \cup {b} /\ t.saved = s.saved
  /\ t.dir = s.dir /\ t.next = [s.next EXCEPT ![p.track] = b] /\ OtherChannels(s, t, c)
  /\ t.channel[c] =
       [mode |-> p.mode, slot |-> p.slot,
        entry |-> [name |-> p.entry.name, closed |-> p.entry.closed,
                   first |-> p.entry.first, blocks |-> OneMore(p.entry.blocks)],
        replacement |-> p.replacement, track |-> b, buffer |-> p.buffer]

LEMMA CountedWriter ==
  ASSUME NEW p, IsWriter(p), IsEntry(p.entry), NEW b,
         NEW q, q = [p EXCEPT !.track = b, !.entry = Count(p.entry)]
  PROVE  q = [mode |-> p.mode, slot |-> p.slot,
              entry |-> [name |-> p.entry.name, closed |-> p.entry.closed,
                         first |-> p.entry.first, blocks |-> OneMore(p.entry.blocks)],
              replacement |-> p.replacement, track |-> b, buffer |-> p.buffer]
<1> PICK e : e = Count(p.entry)
  OBVIOUS
<1>1. q = [mode |-> p.mode, slot |-> p.slot, entry |-> e, replacement |-> p.replacement,
           track |-> b, buffer |-> p.buffer]
  BY WriterWith, Zenon
<1>2. e = [name |-> p.entry.name, closed |-> p.entry.closed,
           first |-> p.entry.first, blocks |-> OneMore(p.entry.blocks)]
  BY CountIs, Zenon
<1> QED BY <1>1, <1>2, Zenon

\* The full block is written with the link to the next one.
LinkTo(s, c, b) ==
  LET p == s.channel[c]
  IN [s EXCEPT !.bam = @ \cup {b}, !.next[p.track] = b, !.data[p.track] = p.buffer,
               !.channel[c] = [p EXCEPT !.track = b, !.entry = Count(p.entry)]]

LEMMA LinkFields ==
  ASSUME NEW s, Typed(s), NEW c, Writes(s, c), NEW b, NEW t, t = LinkTo(s, c, b)
  PROVE  Linked(s, t, c, s.channel[c], b)
<1> PICK p : p = s.channel[c]
  OBVIOUS
<1>1. c \in Channel /\ IsWriter(p) /\ IsEntry(p.entry) /\ IsDrive(s)
  BY NoneOfThese DEF Typed, Writes, IsWriter
<1> PICK q, map, links, blocks :
      /\ q = [p EXCEPT !.track = b, !.entry = Count(p.entry)] /\ map = s.bam \cup {b}
      /\ links = [s.next EXCEPT ![p.track] = b] /\ blocks = [s.data EXCEPT ![p.track] = p.buffer]
  OBVIOUS
<1>2. t = [s EXCEPT !.bam = @ \cup {b}, !.next[p.track] = b, !.data[p.track] = p.buffer,
                    !.channel[c] = q]
  BY Zenon DEF LinkTo
<1>3. Written(s, t, c, map, links, blocks, q)
  <2>1. IsDrive(t)
    BY <1>1, <1>2, Zenon DEF IsDrive
  <2>2. t.bam = map /\ t.saved = s.saved /\ t.dir = s.dir /\ t.next = links
        /\ t.data = blocks /\ t.channel = [s.channel EXCEPT ![c] = q] /\ t.code = s.code
    BY <1>1, <1>2 DEF IsDrive
  <2> QED BY <2>1, <2>2, Zenon DEF IsDrive, Written
<1>4. OnlyWritten(s, t, c, map, links, q)
  BY <1>1, <1>3, WrittenFields
<1>5. q = [mode |-> p.mode, slot |-> p.slot,
           entry |-> [name |-> p.entry.name, closed |-> p.entry.closed,
                      first |-> p.entry.first, blocks |-> OneMore(p.entry.blocks)],
           replacement |-> p.replacement, track |-> b, buffer |-> p.buffer]
  BY <1>1, CountedWriter, Zenon
<1> QED BY <1>4, <1>5, Zenon DEF Linked, OnlyWritten

\* A channel's last block is written.
Ended(s, t, c, p) ==
  /\ IsDrive(t) /\ t.bam = s.bam /\ t.saved = s.saved
  /\ t.dir = s.dir /\ t.next = [s.next EXCEPT ![p.track] = NoBlock] /\ OtherChannels(s, t, c)
  /\ t.channel[c] =
       [mode |-> p.mode, slot |-> p.slot,
        entry |-> [name |-> p.entry.name, closed |-> p.entry.closed,
                   first |-> p.entry.first, blocks |-> OneMore(p.entry.blocks)],
        replacement |-> p.replacement, track |-> p.track, buffer |-> p.buffer]

\* The last block in WriteLast.
EndOf(s, c) ==
  LET p == s.channel[c]
  IN [s EXCEPT !.next[p.track] = NoBlock, !.data[p.track] = p.buffer,
               !.channel[c] = [p EXCEPT !.entry = Count(p.entry)]]

LEMMA EndsFields ==
  ASSUME NEW s, Typed(s), NEW c, Writes(s, c), NEW t, t = EndOf(s, c)
  PROVE  Ended(s, t, c, s.channel[c])
<1> PICK p, b : p = s.channel[c] /\ b = p.track
  OBVIOUS
<1>1. c \in Channel /\ IsWriter(p) /\ IsEntry(p.entry) /\ IsDrive(s)
  BY NoneOfThese DEF Typed, Writes, IsWriter
<1> PICK q, links, blocks :
      /\ q = [p EXCEPT !.track = b, !.entry = Count(p.entry)]
      /\ links = [s.next EXCEPT ![p.track] = NoBlock]
      /\ blocks = [s.data EXCEPT ![p.track] = p.buffer]
  OBVIOUS
<1>2. t = [s EXCEPT !.next[p.track] = NoBlock, !.data[p.track] = p.buffer, !.channel[c] = q]
  <2>1. q = [p EXCEPT !.entry = Count(p.entry)]
    BY <1>1, Zenon DEF IsWriter
  <2> QED BY <2>1, Zenon DEF EndOf
<1>3. Written(s, t, c, s.bam, links, blocks, q)
  <2>1. IsDrive(t)
    BY <1>1, <1>2, Zenon DEF IsDrive
  <2>2. t.bam = s.bam /\ t.saved = s.saved /\ t.dir = s.dir /\ t.next = links
        /\ t.data = blocks /\ t.channel = [s.channel EXCEPT ![c] = q] /\ t.code = s.code
    BY <1>1, <1>2 DEF IsDrive
  <2> QED BY <2>1, <2>2, Zenon DEF IsDrive, Written
<1>4. OnlyWritten(s, t, c, s.bam, links, q)
  BY <1>1, <1>3, WrittenFields
<1>5. q = [mode |-> p.mode, slot |-> p.slot,
           entry |-> [name |-> p.entry.name, closed |-> p.entry.closed,
                      first |-> p.entry.first, blocks |-> OneMore(p.entry.blocks)],
           replacement |-> p.replacement, track |-> p.track, buffer |-> p.buffer]
  BY <1>1, CountedWriter, Zenon
<1> QED BY <1>4, <1>5, Zenon DEF Ended, OnlyWritten

\* A channel is closed,
Finished(s, t, c, p) ==
  /\ IsDrive(t) /\ t.saved = t.bam /\ t.next = s.next
  /\ t.bam = s.bam \ (IF Replaces(p) THEN FreedChain(s, p.entry.first) ELSE {})
  /\ OtherChannels(s, t, c) /\ t.channel[c] = Free
  /\ t.dir = [e \in Slot |-> IF e = p.slot THEN t.dir[e] ELSE s.dir[e]]
  /\ t.dir[p.slot] = [name |-> p.entry.name, closed |-> TRUE, first |-> First(p),
                      blocks |-> p.entry.blocks]

\* and when only its entry has been written.
HasEntry(s, t, c, p) ==
  /\ IsDrive(t) /\ t.saved = s.saved /\ t.next = s.next
  /\ t.bam = s.bam \ (IF Replaces(p) THEN FreedChain(s, p.entry.first) ELSE {})
  /\ OtherChannels(s, t, c) /\ t.channel[c] = Free
  /\ t.dir = [e \in Slot |-> IF e = p.slot THEN t.dir[e] ELSE s.dir[e]]
  /\ t.dir[p.slot] = [name |-> p.entry.name, closed |-> TRUE, first |-> First(p),
                      blocks |-> p.entry.blocks]

\* What EntryClosed makes of the drive.
LEMMA EntryClosedFields ==
  ASSUME NEW s, IsDrive(s), NEW c \in Channel, s.channel = [d \in Channel |-> s.channel[d]],
         s.dir = [e \in Slot |-> s.dir[e]],
         IsEntry(s.channel[c].entry), s.channel[c].slot \in Slot, NEW u, u = EntryClosed(s, c)
  PROVE  HasEntry(s, u, c, s.channel[c])
<1> PICK p : p = s.channel[c]
  OBVIOUS
<1> DEFINE entry == [p.entry EXCEPT !.closed = TRUE,
                       !.first = IF p.mode = "replace" THEN p.replacement ELSE @]
           freed == IF Replaces(p) THEN FreedChain(s, p.entry.first) ELSE {}
           others == s.bam \ freed
<1>1. u = [s EXCEPT !.dir[p.slot] = entry, !.bam = others, !.channel[c] = Free]
  BY DEF EntryClosed, Replaces
<1>2. entry = [name |-> p.entry.name, closed |-> TRUE, first |-> First(p),
               blocks |-> p.entry.blocks]
  <2>1. entry = [p.entry EXCEPT !.closed = TRUE, !.first = First(p)]
    BY DEF First, Replaces
  <2> HIDE DEF entry
  <2>2. p.entry = [name |-> p.entry.name, closed |-> p.entry.closed, first |-> p.entry.first,
                   blocks |-> p.entry.blocks]
    BY DEF IsEntry
  <2> QED BY <2>1, <2>2
<1> HIDE DEF entry, freed, others
<1>3. IsDrive(u)
  BY <1>1 DEF IsDrive
<1>4. u.bam = others /\ u.saved = s.saved /\ u.next = s.next
      /\ u.dir = [s.dir EXCEPT ![p.slot] = entry] /\ u.channel = [s.channel EXCEPT ![c] = Free]
  BY <1>1 DEF IsDrive
<1>5. u.dir[p.slot] = entry /\ u.channel[c] = Free
  BY <1>4
<1>6. u.dir = [e \in Slot |-> IF e = p.slot THEN u.dir[e] ELSE s.dir[e]]
      /\ OtherChannels(s, u, c)
  BY <1>4 DEF OtherChannels
<1>7. HasEntry(s, u, c, p)
  BY <1>2, <1>3, <1>4, <1>5, <1>6 DEF freed, others, HasEntry
<1> QED BY <1>7

\* What Finish makes of the drive.
LEMMA FinishFields ==
  ASSUME NEW s, IsDrive(s), NEW c \in Channel, s.channel = [d \in Channel |-> s.channel[d]],
         s.dir = [e \in Slot |-> s.dir[e]],
         IsEntry(s.channel[c].entry), s.channel[c].slot \in Slot, NEW t, t = Finish(s, c)
  PROVE  Finished(s, t, c, s.channel[c])
<1> PICK u, p : u = EntryClosed(s, c) /\ p = s.channel[c]
  OBVIOUS
<1>1. t = [u EXCEPT !.saved = u.bam]
  BY DEF Finish, WriteBam
<1>2. HasEntry(s, u, c, p)
  BY EntryClosedFields
<1>3. IsDrive(u)
  BY <1>2 DEF HasEntry
<1>4. IsDrive(t)
  BY <1>1, <1>3, Zenon DEF IsDrive
<1>5. t.saved = u.bam /\ t.bam = u.bam /\ t.next = u.next /\ t.dir = u.dir
      /\ t.channel = u.channel
  BY <1>1, <1>3 DEF IsDrive
<1>6. OtherChannels(s, t, c)
  BY <1>2, <1>5 DEF HasEntry, OtherChannels
<1>7. Finished(s, t, c, p)
  BY <1>2, <1>4, <1>5, <1>6 DEF HasEntry, Finished
<1> QED BY <1>7

-----------------------------------------------------------------------------
(* Writing to a channel *)

\* The other channels are what they were.
LEMMA OthersAre ==
  ASSUME NEW s, NEW t, NEW c \in Channel, OtherChannels(s, t, c), Typed(s),
         t.channel[c] = Free \/ IsWriter(t.channel[c])
  PROVE  /\ t.channel = [d \in Channel |-> t.channel[d]]
         /\ \A d \in Channel : d # c => t.channel[d] = s.channel[d] /\ (Writes(t, d) <=> Writes(s, d))
         /\ \A d \in Channel : t.channel[d] = Free \/ IsWriter(t.channel[d])
<1>1. t.channel = [d \in Channel |-> IF d = c THEN t.channel[c] ELSE s.channel[d]]
  BY DEF OtherChannels
<1>2. \A d \in Channel : d # c => t.channel[d] = s.channel[d]
  BY <1>1
<1>3. t.channel = [d \in Channel |-> t.channel[d]]
  BY <1>1
<1>4. \A d \in Channel : t.channel[d] = Free \/ IsWriter(t.channel[d])
  BY <1>2 DEF Typed
<1> QED BY <1>2, <1>3, <1>4 DEF Writes

\* What an owner other than the channel c has is linked as before.
LEMMA LinksOfOthers ==
  ASSUME NEW s, NEW t, NEW o, NEW b \in Block, Typed(s), t.next \in [Block -> MaybeBlock],
         t.next[b] = s.next[b],
         o \notin Slot => t.channel[-o].track = s.channel[-o].track
  PROVE  Links(t, o)[b] = Links(s, o)[b]
<1>1. s.next \in [Block -> MaybeBlock]
  BY DEF Typed
<1>2. CASE o \in Slot
  BY <1>2 DEF Links
<1>3. CASE o \notin Slot
  <2> DEFINE x == s.channel[-o].track
  <2>1. Links(t, o) = [t.next EXCEPT ![x] = NoBlock] /\ Links(s, o) = [s.next EXCEPT ![x] = NoBlock]
    BY <1>3 DEF Links
  <2> HIDE DEF x
  <2> QED BY <1>1, <2>1
<1> QED BY <1>2, <1>3

\* A channel gets a block more.
Advances(s, t, c, b, q) ==
  /\ IsDrive(t) /\ b \in Block \ s.bam
  /\ t.bam = s.bam \cup {b} /\ t.saved = s.saved /\ t.dir = s.dir
  /\ t.next \in [Block -> MaybeBlock]
  /\ \A x \in Block \ Owned(s, -c) : t.next[x] = s.next[x]
  /\ OtherChannels(s, t, c) /\ IsWriter(t.channel[c])
  /\ t.channel[c].slot = s.channel[c].slot
  /\ Replaces(t.channel[c]) <=> Replaces(s.channel[c])
  /\ Replaces(s.channel[c]) => t.channel[c].entry.first = s.channel[c].entry.first
  /\ t.channel[c].track = b /\ t.channel[c].entry.blocks = Len(q) - 1
  /\ q = Append(Path(s, -c), b) /\ Leads(Links(t, -c), Start(t, -c), q)

\* The drive stays sound, and no block is lost.
LEMMA Advance ==
  ASSUME NEW s, Sound(s), NEW c \in Channel, Writes(s, c), NEW t, NEW b, NEW q,
         Advances(s, t, c, b, q)
  PROVE  Sound(t) /\ Writes(t, c) /\ (Exact(s) => Exact(t))
<1>1. Typed(s) /\ Paths(s) /\ Channeled(s) /\ OnImage(s)
  BY DEF Sound
<1>2. /\ t.channel = [d \in Channel |-> t.channel[d]]
      /\ \A d \in Channel : d # c => t.channel[d] = s.channel[d] /\ (Writes(t, d) <=> Writes(s, d))
      /\ \A d \in Channel : t.channel[d] = Free \/ IsWriter(t.channel[d])
  BY <1>1, OthersAre DEF Advances
<1>3. Typed(t)
  BY <1>1, <1>2 DEF Typed, Advances
<1>4. Writes(t, c)
  BY NoneOfThese DEF Writes, Advances
<1>5. \A e \in Slot : IsFile(t, e) <=> IsFile(s, e)
  BY DEF IsFile, Advances
<1>6. Owners(t) = Owners(s)
  <2>1. ASSUME NEW o \in Int PROVE IsFile(t, o) <=> IsFile(s, o)
    BY DEF IsFile, Advances
  <2>2. ASSUME NEW o \in Int PROVE Writes(t, -o) <=> Writes(s, -o)
    BY <1>2, <1>4 DEF Writes
  <2> QED BY <2>1, <2>2 DEF Owners
<1>7. -c \in Owners(s) /\ Path(s, -c) \in Seq(Block)
  BY <1>1, OwnersAre DEF Paths, Leads
<1>8. Range(q) = Owned(s, -c) \cup {b} /\ Len(q) = Len(Path(s, -c)) + 1 /\ q # <<>> /\ Last(q) = b
  BY <1>7 DEF Owned, Range, Last, Advances
<1>9. Keeps(s, t, -c, q)
  <2>1. ASSUME NEW o \in Owners(t) \ {-c}
        PROVE  /\ o \in Owners(s) /\ Start(t, o) = Start(s, o)
               /\ \A x \in Owned(s, o) : Links(t, o)[x] = Links(s, o)[x]
               /\ Owned(s, o) \subseteq t.bam /\ Range(q) \cap Owned(s, o) = {}
    <3>1. o \in Owners(s) /\ Owned(s, o) \subseteq s.bam /\ Owned(s, -c) \cap Owned(s, o) = {}
      BY <1>1, <1>6, <1>7, <2>1 DEF Paths
    <3>2. o \notin Slot => t.channel[-o] = s.channel[-o]
      BY <1>2, <2>1, <3>1, OwnersAre, Numbers
    <3>3. Start(t, o) = Start(s, o)
      BY <3>2, Zenon DEF Start, Advances
    <3>4. ASSUME NEW x \in Owned(s, o) PROVE Links(t, o)[x] = Links(s, o)[x]
      <4>1. x \in Block /\ t.next[x] = s.next[x]
        BY <1>1, <3>1 DEF Typed, Advances
      <4>2. o \notin Slot => t.channel[-o].track = s.channel[-o].track
        BY <3>2
      <4>3. Typed(s) /\ t.next \in [Block -> MaybeBlock]
        BY <1>1 DEF Advances
      <4> QED BY <4>1, <4>2, <4>3, LinksOfOthers
    <3> QED BY <1>8, <3>1, <3>3, <3>4 DEF Advances
  <2>2. Range(q) \subseteq t.bam
    BY <1>1, <1>7, <1>8 DEF Paths, Advances
  <2>3. Leads(Links(t, -c), Start(t, -c), q)
    BY DEF Advances
  <2> QED BY <2>1, <2>2, <2>3 DEF Keeps
<1>10. -c \in Owners(t)
  BY <1>6, <1>7
<1>11. /\ Paths(t) /\ Path(t, -c) = q /\ Owned(t, -c) = Range(q)
       /\ \A o \in Owners(t) \ {-c} : Path(t, o) = Path(s, o) /\ Owned(t, o) = Owned(s, o)
  BY <1>1, <1>9, <1>10, KeptPaths
<1>12. Channeled(t)
  <2>1. ASSUME NEW d \in Channel, d # c, Writes(t, d)
        PROVE  Writes(s, d) /\ t.channel[d] = s.channel[d] /\ Path(t, -d) = Path(s, -d)
    <3>1. -d \in Owners(t) \ {-c}
      BY <2>1, OwnersAre, Numbers
    <3> QED BY <1>2, <1>11, <2>1, <3>1
  <2>2. \A d \in Channel : Writes(t, d) => Writes(s, d) /\ t.channel[d].slot = s.channel[d].slot
    BY <1>2 DEF Advances
  <2>3. ASSUME NEW d \in Channel, d # c, Writes(t, d)
        PROVE  WriterIs(t, d, t.channel[d], Path(t, -d))
    <3>1. WriterIs(s, d, s.channel[d], Path(s, -d))
      BY <1>1, <2>1, <2>3 DEF Channeled
    <3>2. \A x \in Channel : x # d /\ Writes(t, x) => t.channel[x].slot # s.channel[d].slot
      BY <2>2, <3>1 DEF WriterIs
    <3> QED BY <2>1, <2>3, <3>1, <3>2 DEF WriterIs, Advances
  <2>4. WriterIs(t, c, t.channel[c], Path(t, -c))
    <3>1. WriterIs(s, c, s.channel[c], Path(s, -c))
      BY <1>1 DEF Channeled
    <3>2. Path(t, -c) # <<>> /\ t.channel[c].track = Last(Path(t, -c))
          /\ t.channel[c].entry.blocks = Len(Path(t, -c)) - 1
      BY <1>8, <1>11 DEF Advances
    <3> QED BY <2>2, <3>1, <3>2 DEF WriterIs, Advances
  <2> QED BY <2>3, <2>4, Zenon DEF Channeled
<1>13. OnImage(t)
  <2>1. \A e \in Slot : IsFile(t, e) => Path(t, e) = Path(s, e) /\ Owned(t, e) = Owned(s, e)
    BY <1>11, OwnersAre, Numbers
  <2> QED BY <1>1, <1>5, <2>1 DEF OnImage, Advances
<1>14. ASSUME Exact(s) PROVE Exact(t)
  <2>1. AllOwned(t) = AllOwned(s) \cup {b}
    BY <1>6, <1>7, <1>8, <1>11 DEF AllOwned
  <2> QED BY <1>4, <1>14, <2>1 DEF Exact, Writes, Advances
<1> QED BY <1>3, <1>4, <1>11, <1>12, <1>13, <1>14 DEF Sound

\* What is known of a channel that writes.
WriterIn(s, c, p, path) ==
  /\ c \in Channel /\ -c \in Owners(s) /\ -c \notin Slot /\ -(-c) = c
  /\ p = s.channel[c] /\ IsWriter(p) /\ IsEntry(p.entry)
  /\ path = Path(s, -c) /\ path \in Seq(Block) /\ IsInjective(path)
  /\ Len(path) \in Nat /\ Len(path) < 65536
  /\ Leads([s.next EXCEPT ![p.track] = NoBlock], First(p), path)
  /\ Range(path) \subseteq s.bam /\ Range(path) = Owned(s, -c)
  /\ WriterIs(s, c, p, path)
  /\ p.track # NoBlock => path # <<>> /\ p.track = path[Len(path)]
                          /\ p.entry.blocks = Len(path) - 1
  /\ p.track = NoBlock => path = <<>>
  /\ s.bam \subseteq Block /\ s.next \in [Block -> MaybeBlock] /\ NoBlock \notin Block

\* All of it follows from the invariant.
LEMMA WriterFacts ==
  ASSUME NEW s, Sound(s), NEW c, Writes(s, c)
  PROVE  WriterIn(s, c, s.channel[c], Path(s, -c))
<1> PICK p, path : p = s.channel[c] /\ path = Path(s, -c)
  OBVIOUS
<1>1. c \in Channel /\ Typed(s) /\ Paths(s) /\ Channeled(s)
  BY DEF Sound, Writes
<1>2. IsWriter(p) /\ IsEntry(p.entry)
  BY <1>1, NoneOfThese DEF Typed, Writes, IsWriter
<1>3. -c \in Owners(s) /\ -c \notin Slot /\ -(-c) = c
  BY <1>1, OwnersAre, Numbers
<1>4. Start(s, -c) = First(p) /\ Links(s, -c) = [s.next EXCEPT ![p.track] = NoBlock]
  BY <1>3 DEF Start, Links
<1>5. Leads(Links(s, -c), Start(s, -c), path) /\ Owned(s, -c) \subseteq s.bam
  BY <1>1, <1>3 DEF Paths
<1>6. path \in Seq(Block) /\ IsInjective(path)
  BY <1>5 DEF Leads
<1>7. Len(path) \in Nat /\ Len(path) < 65536 /\ NoBlock \notin Block
  BY <1>6, LengthOfInjective, DiskFilesAssumption
<1>8. WriterIs(s, c, p, path)
  BY <1>1 DEF Channeled
<1>9. path # <<>> => p.track = path[Len(path)] /\ path[Len(path)] \in Block
                     /\ p.entry.blocks = Len(path) - 1
  BY <1>6, <1>8 DEF WriterIs, Last
<1>10. path = <<>> => p.track = NoBlock
  BY <1>8 DEF WriterIs
<1>11. s.bam \subseteq Block /\ s.next \in [Block -> MaybeBlock]
  BY <1>1 DEF Typed
<1>12. Range(path) = Owned(s, -c)
  BY DEF Owned
<1>13. Leads([s.next EXCEPT ![p.track] = NoBlock], First(p), path)
  BY <1>4, <1>5
<1>14. WriterIn(s, c, p, path)
  BY <1>1, <1>2, <1>3, <1>5, <1>6, <1>7, <1>8, <1>9, <1>10, <1>11, <1>12, <1>13 DEF WriterIn
<1> QED BY <1>14

\* And of this what concerns the types.
LEMMA WriterTypes ==
  ASSUME NEW s, Sound(s), NEW c, Writes(s, c)
  PROVE  /\ c \in Channel /\ s.channel[c].slot \in Slot
         /\ IsWriter(s.channel[c]) /\ IsEntry(s.channel[c].entry)
         /\ s.next \in [Block -> MaybeBlock] /\ NoBlock \notin Block
<1>1. WriterIn(s, c, s.channel[c], Path(s, -c))
  BY WriterFacts
<1>2. IsWriter(s.channel[c])
  BY <1>1 DEF WriterIn
<1>3. s.channel[c].slot \in Slot
  BY <1>2 DEF IsWriter
<1> QED BY <1>1, <1>2, <1>3 DEF WriterIn

\* A first block is allocated.
LEMMA TakeSound ==
  ASSUME NEW s, Sound(s), NEW c, Writes(s, c), s.channel[c].track = NoBlock,
         NEW t \in FirstBlock(s, c)
  PROVE  /\ Sound(t) /\ Writes(t, c) /\ (Exact(s) => Exact(t))
         /\ OtherChannels(s, t, c) /\ t.channel[c].track # NoBlock
<1>0. PICK p, path, r : p = s.channel[c] /\ path = Path(s, -c) /\ r = t.channel[c]
  OBVIOUS
<1>1. PICK b \in Block \ s.bam : Taken(s, t, c, p, b)
  BY <1>0, TakesFields DEF Sound
<1> DEFINE q == Append(path, b)
<1>2. WriterIn(s, c, p, path) /\ p.track = NoBlock
  BY <1>0, WriterFacts
<1>3. path = <<>> /\ Len(q) = 1 /\ q = <<b>>
  <2>1. path = <<>>
    BY <1>2 DEF WriterIn
  <2> QED BY <2>1
<1>4. /\ r.mode = p.mode /\ r.slot = p.slot /\ r.track = b /\ r.buffer = p.buffer
      /\ r.replacement = (IF Replaces(p) THEN b ELSE p.replacement)
      /\ r.entry.blocks = 0 /\ r.entry.first = (IF Replaces(p) THEN p.entry.first ELSE b)
      /\ r.entry.closed = p.entry.closed
  BY <1>0, <1>1 DEF Taken
<1>5. IsEntry(r.entry)
  <2>1. r.entry = [name |-> p.entry.name, closed |-> p.entry.closed,
                   first |-> r.entry.first, blocks |-> 0]
    BY <1>0, <1>1 DEF Taken
  <2>2. r.entry = [name |-> r.entry.name, closed |-> r.entry.closed, first |-> r.entry.first,
                   blocks |-> r.entry.blocks]
    BY <2>1
  <2> QED BY <1>2, <1>4, <2>2 DEF WriterIn, IsEntry, MaybeBlock
<1>6. IsWriter(r)
  <2>1. r = [mode |-> r.mode, slot |-> r.slot, entry |-> r.entry, replacement |-> r.replacement,
             track |-> r.track, buffer |-> r.buffer]
    BY <1>0, <1>1 DEF Taken
  <2> QED BY <1>2, <1>4, <1>5, <2>1 DEF WriterIn, IsWriter, MaybeBlock
<1>7. Replaces(r) <=> Replaces(p)
  BY <1>4 DEF Replaces
<1>8. First(r) = b
  BY <1>4, <1>7 DEF First
<1>9. Leads(Links(t, -c), Start(t, -c), q)
  <2>1. Start(t, -c) = b /\ Links(t, -c) = [t.next EXCEPT ![b] = NoBlock]
    BY <1>0, <1>2, <1>4, <1>8 DEF Start, Links, WriterIn
  <2>2. Links(t, -c)[b] = NoBlock
    BY <1>1, <1>2, <2>1 DEF Taken, WriterIn
  <2> HIDE DEF q
  <2> QED BY <1>3, <2>1, <2>2 DEF Leads, IsInjective
<1>10. Advances(s, t, c, b, q)
  <2>1. Len(q) - 1 = 0 /\ t.next \in [Block -> MaybeBlock]
    BY <1>1, <1>2, <1>3 DEF Taken, WriterIn
  <2>2. q = Append(Path(s, -c), b)
    BY <1>0
  <2> HIDE DEF q
  <2> QED BY <1>0, <1>1, <1>2, <1>4, <1>6, <1>7, <1>9, <2>1, <2>2 DEF Advances, Taken
<1>11. Sound(t) /\ Writes(t, c) /\ (Exact(s) => Exact(t))
  BY <1>10, Advance DEF Writes
<1> QED BY <1>0, <1>1, <1>2, <1>4, <1>11 DEF Taken, WriterIn
\* Then the drive stays sound, and no block is lost.
LEMMA LinkSound ==
  ASSUME NEW s, Sound(s), NEW c, Writes(s, c), s.channel[c].track # NoBlock,
         NEW b \in Available(s), NEW t, t = LinkTo(s, c, b)
  PROVE  /\ Sound(t) /\ Writes(t, c) /\ (Exact(s) => Exact(t))
         /\ OtherChannels(s, t, c)
<1>0. PICK p, path, r : p = s.channel[c] /\ path = Path(s, -c) /\ r = t.channel[c]
  OBVIOUS
<1> DEFINE q == Append(path, b)
<1>1. Linked(s, t, c, p, b)
  BY <1>0, LinkFields DEF Sound
<1>2. WriterIn(s, c, p, path) /\ b \in Block \ s.bam
  BY <1>0, WriterFacts DEF Available
<1>3. /\ Len(path) \in Nat /\ Len(path) < 65536 /\ path # <<>> /\ p.track = path[Len(path)]
      /\ p.entry.blocks = Len(path) - 1 /\ path \in Seq(Block) /\ Len(path) \in 1 .. Len(path)
  <2>1. /\ Len(path) \in Nat /\ Len(path) < 65536 /\ path # <<>> /\ p.track = path[Len(path)]
        /\ p.entry.blocks = Len(path) - 1 /\ path \in Seq(Block)
    BY <1>0, <1>2 DEF WriterIn
  <2> QED BY <2>1
<1>4. /\ r.mode = p.mode /\ r.slot = p.slot /\ r.track = b /\ r.buffer = p.buffer
      /\ r.replacement = p.replacement
      /\ r.entry.blocks = OneMore(p.entry.blocks) /\ r.entry.first = p.entry.first
      /\ r.entry.closed = p.entry.closed
  BY <1>0, <1>1 DEF Linked
<1>5. r.entry.blocks = Len(path)
  BY <1>3, <1>4 DEF OneMore
<1>6. IsEntry(r.entry)
  <2>1. r.entry = [name |-> p.entry.name, closed |-> p.entry.closed,
                   first |-> p.entry.first, blocks |-> r.entry.blocks]
    BY <1>0, <1>1 DEF Linked
  <2>2. r.entry = [name |-> r.entry.name, closed |-> r.entry.closed, first |-> r.entry.first,
                   blocks |-> r.entry.blocks]
    BY <2>1
  <2> QED BY <1>2, <1>3, <1>4, <1>5, <2>2 DEF WriterIn, IsEntry, MaybeBlock
<1>7. IsWriter(r)
  <2>1. r = [mode |-> r.mode, slot |-> r.slot, entry |-> r.entry, replacement |-> r.replacement,
             track |-> r.track, buffer |-> r.buffer]
    BY <1>0, <1>1 DEF Linked
  <2> QED BY <1>2, <1>4, <1>6, <2>1 DEF WriterIn, IsWriter, MaybeBlock
<1>8. (Replaces(r) <=> Replaces(p)) /\ First(r) = First(p)
  BY <1>4 DEF Replaces, First
<1>9. q \in Seq(Block) /\ Len(q) = Len(path) + 1 /\ q[Len(path) + 1] = b /\ q # <<>>
      /\ \A i \in 1 .. Len(path) : q[i] = path[i]
  BY <1>2, <1>3
<1>10. /\ path[1] = First(p)
       /\ \A i \in 1 .. Len(path) : path[i] \in s.bam /\ path[i] \in Block /\ path[i] # b
  <2>1. \A i \in 1 .. Len(path) : path[i] \in Range(path)
    BY <1>3 DEF Range
  <2>2. path[1] = First(p)
    BY <1>2, <1>3 DEF WriterIn, Leads
  <2> QED BY <1>2, <2>1, <2>2 DEF WriterIn
<1>11. \A i \in 1 .. Len(path) - 1 : path[i] # p.track /\ s.next[path[i]] = path[i + 1]
  <2> TAKE i \in 1 .. Len(path) - 1
  <2>1. i \in 1 .. Len(path) /\ i # Len(path)
    BY <1>3
  <2>2. path[i] # p.track
    <3>1. \A x, y \in 1 .. Len(path) : path[x] = path[y] => x = y
      BY <1>2, <1>3 DEF WriterIn, IsInjective
    <3> QED BY <1>3, <2>1, <3>1
  <2>3. [s.next EXCEPT ![p.track] = NoBlock][path[i]] = path[i + 1]
    BY <1>2 DEF WriterIn, Leads
  <2>4. path[i] \in Block /\ s.next \in [Block -> MaybeBlock]
    BY <1>2, <1>10, <2>1 DEF WriterIn
  <2> QED BY <2>2, <2>3, <2>4
<1>12. /\ t.next \in [Block -> MaybeBlock] /\ t.next[p.track] = b
       /\ \A x \in Block \ {p.track} : t.next[x] = s.next[x]
       /\ p.track \in Block /\ p.track # b
  <2>1. p.track \in Block /\ p.track # b
    BY <1>3, <1>10
  <2>2. b \in MaybeBlock /\ s.next \in [Block -> MaybeBlock]
    BY <1>2 DEF MaybeBlock, WriterIn
  <2>3. t.next = [s.next EXCEPT ![p.track] = b]
    BY <1>1 DEF Linked
  <2> QED BY <2>1, <2>2, <2>3
<1>13. Leads(Links(t, -c), Start(t, -c), q)
  <2>1. Start(t, -c) = First(p) /\ Links(t, -c) = [t.next EXCEPT ![b] = NoBlock]
    <3>1. -c \notin Slot /\ -(-c) = c
      BY <1>2 DEF WriterIn
    <3> QED BY <1>0, <1>4, <1>8, <3>1 DEF Start, Links
  <2>2. Links(t, -c)[b] = NoBlock
    BY <1>2, <1>12, <2>1
  <2>4. \A x \in Block : x # b /\ x # p.track => Links(t, -c)[x] = s.next[x]
    BY <1>12, <2>1
  <2>5. Links(t, -c)[p.track] = b
    BY <1>12, <2>1
  <2> HIDE DEF q
  <2>6. \A i \in 1 .. Len(q) - 1 : Links(t, -c)[q[i]] = q[i + 1]
    <3> TAKE i \in 1 .. Len(q) - 1
    <3>1. i \in 1 .. Len(path) /\ q[i] = path[i] /\ path[i] \in Block /\ path[i] # b
      BY <1>3, <1>9, <1>10
    <3>2. CASE i = Len(path)
      BY <1>3, <1>9, <2>5, <3>1, <3>2
    <3>3. CASE i # Len(path)
      <4>1. i \in 1 .. Len(path) - 1 /\ i + 1 \in 1 .. Len(path)
        BY <1>3, <3>1, <3>3
      <4> QED BY <1>9, <1>11, <2>4, <3>1, <4>1
    <3> QED BY <3>2, <3>3
  <2>7. IsInjective(q)
    <3> SUFFICES ASSUME NEW i \in 1 .. Len(path) + 1, NEW j \in 1 .. Len(path) + 1, q[i] = q[j]
                 PROVE  i = j
      BY <1>9 DEF IsInjective
    <3>1. \A x, y \in 1 .. Len(path) : path[x] = path[y] => x = y
      BY <1>2, <1>3 DEF WriterIn, IsInjective
    <3>2. CASE i \in 1 .. Len(path) /\ j \in 1 .. Len(path)
      BY <1>9, <3>1, <3>2
    <3>3. CASE i = Len(path) + 1 \/ j = Len(path) + 1
      BY <1>3, <1>9, <1>10, <3>3
    <3> QED BY <1>3, <3>2, <3>3
  <2>8. First(p) = q[1] /\ Links(t, -c)[q[Len(q)]] = NoBlock
    BY <1>3, <1>9, <1>10, <2>2
  <2> QED BY <1>9, <2>1, <2>6, <2>7, <2>8 DEF Leads
<1>14. \A x \in Block \ Owned(s, -c) : t.next[x] = s.next[x]
  <2>1. p.track \in Range(path)
    BY <1>3 DEF Range
  <2> QED BY <1>2, <1>12, <2>1 DEF WriterIn
<1>15. Advances(s, t, c, b, q)
  <2>1. r.entry.blocks = Len(q) - 1
    BY <1>3, <1>5, <1>9
  <2>2. q = Append(Path(s, -c), b)
    BY <1>0
  <2>3. t.next \in [Block -> MaybeBlock]
    BY <1>12
  <2>4. /\ IsDrive(t) /\ b \in Block \ s.bam /\ t.bam = s.bam \cup {b} /\ t.saved = s.saved
        /\ t.dir = s.dir /\ OtherChannels(s, t, c)
    BY <1>1, <1>2 DEF Linked
  <2>5. r.slot = p.slot /\ r.track = b /\ r.entry.first = p.entry.first
    BY <1>4
  <2> HIDE DEF q
  <2> QED BY <1>0, <1>7, <1>8, <1>13, <1>14, <2>1, <2>2, <2>3, <2>4, <2>5 DEF Advances
<1>16. Sound(t) /\ Writes(t, c) /\ (Exact(s) => Exact(t))
  BY <1>15, Advance DEF Writes
<1> QED BY <1>1, <1>16 DEF Linked

-----------------------------------------------------------------------------
(* Closing a channel *)

\* Either way the channel has a block then, or there is none left.
LEMMA FirstBlockSound ==
  ASSUME NEW s, Sound(s), NEW c, Writes(s, c), NEW t \in FirstBlock(s, c)
  PROVE  /\ Sound(t) /\ Writes(t, c) /\ (Exact(s) => Exact(t))
         /\ OtherChannels(s, t, c) /\ t.channel[c].track # NoBlock
<1>1. CASE s.channel[c].track = NoBlock
  BY <1>1, TakeSound
<1>2. CASE s.channel[c].track # NoBlock
  <2>1. t = s
    BY <1>2 DEF FirstBlock
  <2>2. OtherChannels(s, s, c)
    BY DEF OtherChannels, Sound, Typed
  <2> QED BY <1>2, <2>1, <2>2
<1> QED BY <1>1, <1>2

\* An error changes the error channel only.
LEMMA ErrorFields ==
  ASSUME NEW s, IsDrive(s)
  PROVE  /\ IsDrive(Error(s)) /\ Error(s).bam = s.bam /\ Error(s).saved = s.saved
         /\ Error(s).dir = s.dir /\ Error(s).next = s.next /\ Error(s).channel = s.channel
<1> PICK t : t = Error(s)
  OBVIOUS
<1>1. IsDrive(t)
  BY Zenon DEF Error, IsDrive
<1>2. t.bam = s.bam /\ t.saved = s.saved /\ t.dir = s.dir /\ t.next = s.next
      /\ t.channel = s.channel
  BY DEF Error, IsDrive
<1> QED BY <1>1, <1>2

\* The drive x after the last block of the channel c has been written; on a full disk
\* that is nothing.
LastWritten(t, x, c, p, q) ==
  /\ IsDrive(x) /\ x.bam = t.bam /\ x.saved = t.saved /\ x.dir = t.dir
  /\ x.next = [t.next EXCEPT ![p.track] = NoBlock] /\ OtherChannels(t, x, c)
  /\ q = x.channel[c] /\ q.slot = p.slot /\ (Replaces(q) <=> Replaces(p))
  /\ IsEntry(q.entry) /\ q.entry.first = p.entry.first /\ First(q) = First(p)
  /\ p.track # NoBlock => q.entry.blocks = OneMore(p.entry.blocks)

\* That is so after the last block was written,
LEMMA EndsIsLast ==
  ASSUME NEW t, Sound(t), NEW c, Writes(t, c), NEW x, Ended(t, x, c, t.channel[c])
  PROVE  LastWritten(t, x, c, t.channel[c], x.channel[c])
<1> PICK p, q : p = t.channel[c] /\ q = x.channel[c]
  OBVIOUS
<1>1. IsWriter(p) /\ IsEntry(p.entry)
  BY WriterTypes
<1>2. /\ q.mode = p.mode /\ q.slot = p.slot /\ q.replacement = p.replacement
      /\ q.entry.blocks = OneMore(p.entry.blocks) /\ q.entry.first = p.entry.first
      /\ q.entry.closed = p.entry.closed
  BY DEF Ended
<1>3. q.entry = [name |-> q.entry.name, closed |-> q.entry.closed, first |-> q.entry.first,
                 blocks |-> q.entry.blocks]
  BY DEF Ended
<1>4. q.entry.blocks \in Nat
  BY <1>1, <1>2 DEF IsEntry, OneMore
<1>5. IsEntry(q.entry)
  BY <1>1, <1>2, <1>3, <1>4 DEF IsEntry
<1>6. (Replaces(q) <=> Replaces(p)) /\ First(q) = First(p)
  BY <1>2 DEF Replaces, First
<1>7. /\ IsDrive(x) /\ x.bam = t.bam /\ x.saved = t.saved /\ x.dir = t.dir
      /\ x.next = [t.next EXCEPT ![p.track] = NoBlock] /\ OtherChannels(t, x, c)
  BY DEF Ended
<1>8. LastWritten(t, x, c, p, q)
  BY <1>2, <1>5, <1>6, <1>7 DEF LastWritten
<1> QED BY <1>8

\* and after the disk was full before the first one.
LEMMA ErrorIsLast ==
  ASSUME NEW t, Sound(t), NEW c, Writes(t, c), t.channel[c].track = NoBlock,
         NEW x, x = Error(t)
  PROVE  LastWritten(t, x, c, t.channel[c], x.channel[c])
<1> PICK p : p = t.channel[c]
  OBVIOUS
<1>1. IsEntry(p.entry) /\ t.next \in [Block -> MaybeBlock] /\ NoBlock \notin Block
  BY WriterTypes
<1>2. /\ IsDrive(x) /\ x.bam = t.bam /\ x.saved = t.saved /\ x.dir = t.dir
      /\ x.next = t.next /\ x.channel = t.channel
  BY ErrorFields DEF Sound, Typed
<1>3. [t.next EXCEPT ![NoBlock] = NoBlock] = t.next
  BY <1>1
<1>4. OtherChannels(t, x, c)
  BY <1>2 DEF OtherChannels, Sound, Typed
<1>5. LastWritten(t, x, c, p, p)
  BY <1>1, <1>2, <1>3, <1>4 DEF LastWritten
<1> QED BY <1>2, <1>5

\* Such a drive can be finished.
LEMMA LastTypes ==
  ASSUME NEW t, Sound(t), NEW c, Writes(t, c), NEW x,
         LastWritten(t, x, c, t.channel[c], x.channel[c])
  PROVE  /\ IsDrive(x) /\ c \in Channel /\ x.channel = [d \in Channel |-> x.channel[d]]
         /\ x.dir = [e \in Slot |-> x.dir[e]]
         /\ IsEntry(x.channel[c].entry) /\ x.channel[c].slot \in Slot
<1>1. /\ IsDrive(x) /\ OtherChannels(t, x, c) /\ x.dir = t.dir
      /\ x.channel[c].slot = t.channel[c].slot /\ IsEntry(x.channel[c].entry)
  BY DEF LastWritten
<1>2. c \in Channel /\ t.channel[c].slot \in Slot /\ t.dir = [e \in Slot |-> t.dir[e]]
  BY WriterTypes DEF Sound, Typed
<1>3. x.channel = [d \in Channel |-> x.channel[d]]
  BY <1>1, <1>2 DEF OtherChannels
<1> QED BY <1>1, <1>2, <1>3

\* What writing the last block leads to.
LEMMA LastCases ==
  ASSUME NEW s, Sound(s), NEW c, Writes(s, c), NEW x \in WriteLast(s, c)
  PROVE  \E t : /\ Sound(t) /\ Writes(t, c) /\ (Exact(s) => Exact(t)) /\ OtherChannels(s, t, c)
                /\ LastWritten(t, x, c, t.channel[c], x.channel[c])
<1>1. CASE FirstBlock(s, c) = {}
  <2>1. x = Error(s)
    BY <1>1 DEF WriteLast
  <2>2. s.channel[c].track = NoBlock
    <3>1. s.channel[c].track # NoBlock => FirstBlock(s, c) = {s}
      BY Zenon DEF FirstBlock
    <3> QED BY <1>1, <3>1
  <2>3. LastWritten(s, x, c, s.channel[c], x.channel[c])
    BY <2>1, <2>2, ErrorIsLast
  <2>4. OtherChannels(s, s, c)
    BY DEF OtherChannels, Sound, Typed
  <2> QED BY <2>3, <2>4
<1>2. CASE FirstBlock(s, c) # {}
  <2>1. PICK t \in FirstBlock(s, c) : x = EndOf(t, c)
    BY <1>2, Zenon DEF WriteLast, EndOf
  <2>2. Sound(t) /\ Writes(t, c) /\ (Exact(s) => Exact(t)) /\ OtherChannels(s, t, c)
    BY FirstBlockSound
  <2>3. Ended(t, x, c, t.channel[c])
    BY <2>1, <2>2, EndsFields DEF Sound
  <2>4. LastWritten(t, x, c, t.channel[c], x.channel[c])
    BY <2>2, <2>3, EndsIsLast
  <2> QED BY <2>2, <2>4
<1> QED BY <1>1, <1>2

\* There is no other way to close a channel.
LEMMA CloseCases ==
  ASSUME NEW s, Sound(s), NEW c, Writes(s, c), NEW r \in CloseSequential(s, c)
  PROVE  \E t, x : /\ Sound(t) /\ Writes(t, c) /\ (Exact(s) => Exact(t)) /\ OtherChannels(s, t, c)
                   /\ LastWritten(t, x, c, t.channel[c], x.channel[c])
                   /\ Finished(x, r, c, x.channel[c])
<1>1. PICK x \in WriteLast(s, c) : r = Finish(x, c)
  BY DEF CloseSequential
<1>2. PICK t : /\ Sound(t) /\ Writes(t, c) /\ (Exact(s) => Exact(t)) /\ OtherChannels(s, t, c)
               /\ LastWritten(t, x, c, t.channel[c], x.channel[c])
  BY LastCases
<1>3. /\ IsDrive(x) /\ c \in Channel /\ x.channel = [d \in Channel |-> x.channel[d]]
      /\ x.dir = [e \in Slot |-> x.dir[e]]
      /\ IsEntry(x.channel[c].entry) /\ x.channel[c].slot \in Slot
  BY <1>2, LastTypes
<1>4. Finished(x, r, c, x.channel[c])
  BY <1>1, <1>3, FinishFields
<1> QED BY <1>2, <1>4

\* The entry that the directory gets.
LEMMA EntryMade ==
  ASSUME NEW n, NEW f \in MaybeBlock, NEW k \in Nat,
         NEW e, e = [name |-> n, closed |-> TRUE, first |-> f, blocks |-> k]
  PROVE  IsEntry(e) /\ e.closed /\ e.first = f /\ e.blocks = k
<1>1. e.closed = TRUE /\ e.first = f /\ e.blocks = k
  OBVIOUS
<1>2. e = [name |-> e.name, closed |-> e.closed, first |-> e.first, blocks |-> e.blocks]
  OBVIOUS
<1>3. e.closed \in BOOLEAN
  BY <1>1
<1>4. IsEntry(e)
  BY <1>1, <1>2, <1>3 DEF IsEntry
<1>5. e.closed
  BY <1>1
<1> QED BY <1>1, <1>4, <1>5

\* Of a chain all blocks are freed if all are allocated, and no others in any case.
LEMMA FreedOf ==
  ASSUME NEW x, NEW b, NEW path, Leads(x.next, b, path)
  PROVE  /\ FreedChain(x, b) \subseteq Range(path)
         /\ Range(path) \subseteq x.bam => FreedChain(x, b) = Range(path)
<1>1. Chain(x.next, b) = path
  BY ChainIs
<1>2. FreedChain(x, b) = {path[i] : i \in {j \in DOMAIN path : \A k \in 1 .. j : path[k] \in x.bam}}
  BY <1>1 DEF FreedChain
<1>3. path \in Seq(Block)
  BY DEF Leads
<1>4. ASSUME Range(path) \subseteq x.bam
      PROVE  \A j \in DOMAIN path : \A k \in 1 .. j : path[k] \in x.bam
  <2>1. \A k \in DOMAIN path : path[k] \in x.bam
    BY <1>4 DEF Range
  <2> QED BY <1>3, <2>1
<1>5. ASSUME Range(path) \subseteq x.bam PROVE FreedChain(x, b) = Range(path)
  BY <1>2, <1>4, <1>5 DEF Range
<1>6. FreedChain(x, b) \subseteq Range(path)
  BY <1>2 DEF Range
<1> QED BY <1>5, <1>6

\* The freed blocks are those of the file that was replaced.
LEMMA FreedIs ==
  ASSUME NEW s, Sound(s), NEW e \in Slot, IsFile(s, e), NEW x, x.bam = s.bam,
         \A b \in Owned(s, e) : x.next[b] = s.next[b]
  PROVE  FreedChain(x, s.dir[e].first) = Owned(s, e)
<1> PICK path : path = Path(s, e)
  OBVIOUS
<1>1. e \in Owners(s) /\ Start(s, e) = s.dir[e].first /\ Links(s, e) = s.next
  BY OwnersAre DEF Start, Links
<1>2. Leads(s.next, s.dir[e].first, path) /\ Range(path) \subseteq x.bam
  BY <1>1 DEF Sound, Paths, Owned
<1>3. Leads(x.next, s.dir[e].first, path)
  BY <1>2, LeadsElsewhere DEF Owned
<1>4. FreedChain(x, s.dir[e].first) = Range(path)
  BY <1>2, <1>3, FreedOf
<1> QED BY <1>4 DEF Owned

\* The drive r after a channel c of the drive s has been closed.
LEMMA ClosedSound ==
  ASSUME NEW s, Sound(s), NEW c, Writes(s, c), NEW x, NEW r,
         LastWritten(s, x, c, s.channel[c], x.channel[c]), Finished(x, r, c, x.channel[c])
  PROVE  Sound(r) /\ (Exact(s) => Exact(r)) /\ OtherChannels(s, r, c) /\ r.channel[c] = Free
<1> PICK p, u, e, path : /\ p = s.channel[c] /\ u = x.channel[c] /\ e = p.slot /\ path = Path(s, -c)
  OBVIOUS
<1>1. WriterIn(s, c, p, path) /\ Typed(s) /\ Paths(s) /\ Channeled(s) /\ OnImage(s)
  BY WriterFacts DEF Sound
<1>2. c \in Channel /\ e \in Slot /\ IsWriter(p) /\ -c \in Owners(s) /\ -c \notin Slot /\ -(-c) = c
  BY <1>1, WriterTypes DEF WriterIn
<1>3. /\ IsDrive(x) /\ x.bam = s.bam /\ x.saved = s.saved /\ x.dir = s.dir
      /\ x.next = [s.next EXCEPT ![p.track] = NoBlock] /\ OtherChannels(s, x, c)
      /\ u.slot = e /\ (Replaces(u) <=> Replaces(p)) /\ First(u) = First(p)
      /\ IsEntry(u.entry) /\ u.entry.first = p.entry.first
      /\ p.track # NoBlock => u.entry.blocks = OneMore(p.entry.blocks)
  BY DEF LastWritten
<1> DEFINE freed == IF Replaces(p) THEN FreedChain(x, p.entry.first) ELSE {}
<1>4. /\ IsDrive(r) /\ r.saved = r.bam /\ r.next = x.next /\ r.bam = s.bam \ freed
      /\ OtherChannels(x, r, c) /\ r.channel[c] = Free
      /\ r.dir = [f \in Slot |-> IF f = e THEN r.dir[f] ELSE x.dir[f]]
      /\ r.dir[e] = [name |-> u.entry.name, closed |-> TRUE, first |-> First(u),
                     blocks |-> u.entry.blocks]
  BY <1>3 DEF Finished
<1> HIDE DEF freed
<1>5. OtherChannels(s, r, c)
  BY <1>2, <1>3, <1>4 DEF OtherChannels
<1>6. /\ r.channel = [d \in Channel |-> r.channel[d]]
      /\ \A d \in Channel : d # c => r.channel[d] = s.channel[d] /\ (Writes(r, d) <=> Writes(s, d))
      /\ \A d \in Channel : r.channel[d] = Free \/ IsWriter(r.channel[d])
  BY <1>1, <1>2, <1>4, <1>5, OthersAre
<1>7. ~Writes(r, c)
  BY <1>4 DEF Writes
<1>8. r.dir = [f \in Slot |-> r.dir[f]] /\ \A f \in Slot \ {e} : r.dir[f] = s.dir[f]
  BY <1>3, <1>4
<1>9. IsEntry(r.dir[e]) /\ r.dir[e].closed /\ r.dir[e].first = First(p)
      /\ r.dir[e].blocks = u.entry.blocks
  <2>1. First(p) \in MaybeBlock
    BY <1>2 DEF First, IsWriter, IsEntry
  <2>2. u.entry.blocks \in Nat
    BY <1>3 DEF IsEntry
  <2>3. r.dir[e] = [name |-> u.entry.name, closed |-> TRUE, first |-> First(p),
                    blocks |-> u.entry.blocks]
    BY <1>3, <1>4
  <2>4. PICK z, n, f, k : z = r.dir[e] /\ n = u.entry.name /\ f = First(p) /\ k = u.entry.blocks
    OBVIOUS
  <2>5. f \in MaybeBlock /\ k \in Nat /\ z = [name |-> n, closed |-> TRUE, first |-> f, blocks |-> k]
    BY <2>1, <2>2, <2>3, <2>4
  <2>6. IsEntry(z) /\ z.closed /\ z.first = f /\ z.blocks = k
    BY <2>5, EntryMade
  <2> QED BY <2>4, <2>6
<1>10. r.next \in [Block -> MaybeBlock] /\ \A b \in Block : b # p.track => r.next[b] = s.next[b]
  <2>1. s.next \in [Block -> MaybeBlock] /\ NoBlock \in MaybeBlock
    BY <1>1 DEF Typed, MaybeBlock
  <2>2. r.next = [s.next EXCEPT ![p.track] = NoBlock]
    BY <1>3, <1>4
  <2> QED BY <2>1, <2>2
<1>11. p.track # NoBlock => p.track \in Owned(s, -c)
  <2>1. ASSUME p.track # NoBlock PROVE p.track \in Range(path)
    <3>1. path \in Seq(Block) /\ path # <<>> /\ p.track = path[Len(path)]
      BY <1>1, <2>1 DEF WriterIn
    <3> QED BY <3>1 DEF Range
  <2> QED BY <2>1 DEF Owned
<1>12. \A o \in Owners(s) : o # -c => \A b \in Owned(s, o) : b \in Block /\ r.next[b] = s.next[b]
  <2> TAKE o \in Owners(s)
  <2> HAVE o # -c
  <2> TAKE b \in Owned(s, o)
  <2>1. b \in Block /\ b \notin Owned(s, -c)
    BY <1>1, <1>2 DEF Paths, Typed
  <2>2. b # p.track
    BY <1>11, <2>1, DiskFilesAssumption
  <2> QED BY <1>10, <2>1, <2>2
<1>13. /\ Replaces(p) => IsFile(s, e) /\ s.dir[e].first = p.entry.first
       /\ ~Replaces(p) => ~IsFile(s, e)
       /\ \A d \in Channel : d # c /\ Writes(s, d) => s.channel[d].slot # e
  BY <1>1, <1>2 DEF WriterIn, WriterIs, IsFile
<1>14. freed = IF Replaces(p) THEN Owned(s, e) ELSE {}
  <2>1. ASSUME Replaces(p) PROVE FreedChain(x, p.entry.first) = Owned(s, e)
    <3>1. IsFile(s, e) /\ s.dir[e].first = p.entry.first /\ e \in Owners(s) /\ e # -c
      BY <1>2, <1>13, <2>1, OwnersAre
    <3>2. \A b \in Owned(s, e) : x.next[b] = s.next[b]
      BY <1>4, <1>12, <3>1
    <3>3. x.bam = s.bam
      BY <1>3
    <3>4. FreedChain(x, s.dir[e].first) = Owned(s, e)
      BY <1>2, <3>1, <3>2, <3>3, FreedIs
    <3> QED BY <3>1, <3>4
  <2> QED BY <2>1 DEF freed
<1>15. IsFile(r, e) /\ \A f \in Slot \ {e} : IsFile(r, f) <=> IsFile(s, f)
  BY <1>2, <1>8, <1>9, NoneOfThese DEF IsFile
<1>16. /\ e \in Owners(r)
       /\ \A o \in Owners(r) \ {e} :
            /\ o \in Owners(s) \ {-c, e} /\ Start(r, o) = Start(s, o)
            /\ o \notin Slot => r.channel[-o] = s.channel[-o]
       /\ \A o \in Owners(s) \ {-c, e} : o \in Owners(r)
  <2>1. e \in Owners(r)
    BY <1>2, <1>15, OwnersAre
  <2>2. ASSUME NEW o \in Owners(r) \ {e}
        PROVE  /\ o \in Owners(s) \ {-c, e} /\ Start(r, o) = Start(s, o)
               /\ o \notin Slot => r.channel[-o] = s.channel[-o]
    <3>1. CASE o \in Slot
      <4>1. o \in Owners(s) /\ o # -c
        BY <1>2, <1>15, <2>2, <3>1, OwnersAre
      <4> QED BY <1>8, <2>2, <3>1, <4>1 DEF Start
    <3>2. CASE o \notin Slot
      <4>1. PICK d \in Channel : o = -d /\ Writes(r, d) /\ -o = d
        BY <2>2, <3>2, OwnersAre, Numbers
      <4>2. d # c /\ r.channel[d] = s.channel[d] /\ Writes(s, d) /\ -d # -c
        BY <1>2, <1>6, <1>7, <4>1, Numbers
      <4>3. o \in Owners(s)
        BY <4>1, <4>2, OwnersAre
      <4> QED BY <2>2, <3>2, <4>1, <4>2, <4>3 DEF Start
    <3> QED BY <3>1, <3>2
  <2>3. ASSUME NEW o \in Owners(s) \ {-c, e} PROVE o \in Owners(r)
    <3>1. CASE o \in Slot
      BY <1>15, <2>3, <3>1, OwnersAre
    <3>2. CASE o \notin Slot
      <4>1. PICK d \in Channel : o = -d /\ Writes(s, d)
        BY <2>3, <3>2, OwnersAre
      <4> QED BY <1>6, <2>3, <4>1, OwnersAre
    <3> QED BY <3>1, <3>2
  <2> QED BY <2>1, <2>2, <2>3
<1>17. freed \subseteq s.bam /\ \A o \in Owners(s) \ {e} : freed \cap Owned(s, o) = {}
  <2>1. CASE Replaces(p)
    <3>1. e \in Owners(s)
      BY <1>2, <1>13, <2>1, OwnersAre
    <3> QED BY <1>1, <1>14, <2>1, <3>1 DEF Paths
  <2>2. CASE ~Replaces(p)
    BY <1>14, <2>2
  <2> QED BY <2>1, <2>2
<1>18. Keeps(s, r, e, path)
  <2>1. ASSUME NEW o \in Owners(r) \ {e}
        PROVE  /\ o \in Owners(s) /\ Start(r, o) = Start(s, o)
               /\ \A b \in Owned(s, o) : Links(r, o)[b] = Links(s, o)[b]
               /\ Owned(s, o) \subseteq r.bam /\ Range(path) \cap Owned(s, o) = {}
    <3>1. /\ o \in Owners(s) /\ o # -c /\ o # e /\ Start(r, o) = Start(s, o)
          /\ o \notin Slot => r.channel[-o].track = s.channel[-o].track
      BY <1>16
    <3>2. ASSUME NEW b \in Owned(s, o) PROVE Links(r, o)[b] = Links(s, o)[b]
      <4>1. b \in Block /\ r.next[b] = s.next[b]
        BY <1>12, <3>1
      <4> QED BY <1>1, <1>10, <3>1, <4>1, LinksOfOthers
    <3>3. Owned(s, o) \subseteq r.bam
      BY <1>1, <1>4, <1>17, <3>1 DEF Paths
    <3>4. Range(path) \cap Owned(s, o) = {}
      BY <1>1, <1>2, <3>1 DEF Paths, Owned
    <3> QED BY <3>1, <3>2, <3>3, <3>4
  <2>2. Links(r, e) = [s.next EXCEPT ![p.track] = NoBlock] /\ Start(r, e) = First(p)
    <3>1. Links(r, e) = r.next /\ Start(r, e) = r.dir[e].first
      BY <1>2, Zenon DEF Links, Start
    <3>2. r.next = [s.next EXCEPT ![p.track] = NoBlock]
      BY <1>3, <1>4
    <3> QED BY <1>9, <3>1, <3>2, Zenon
  <2>3. Leads(Links(r, e), Start(r, e), path)
    BY <1>1, <2>2 DEF WriterIn
  <2>4. Range(path) \subseteq r.bam
    <3>1. Range(path) = Owned(s, -c) /\ Range(path) \subseteq s.bam /\ -c # e
      BY <1>1, <1>2 DEF WriterIn
    <3> QED BY <1>2, <1>4, <1>17, <3>1
  <2> QED BY <2>1, <2>3, <2>4 DEF Keeps
<1>19. /\ Paths(r) /\ Path(r, e) = path /\ Owned(r, e) = Range(path)
       /\ \A o \in Owners(r) \ {e} : Path(r, o) = Path(s, o) /\ Owned(r, o) = Owned(s, o)
  BY <1>1, <1>16, <1>18, KeptPaths
<1>20. Typed(r)
  <2>1. r.bam \in SUBSET Block
    BY <1>1, <1>4 DEF Typed
  <2>2. \A f \in Slot : r.dir[f] = NoEntry \/ IsEntry(r.dir[f])
    BY <1>1, <1>8, <1>9 DEF Typed
  <2> QED BY <1>4, <1>6, <1>8, <1>10, <2>1, <2>2 DEF Typed
<1>21. Channeled(r)
  <2> SUFFICES ASSUME NEW d \in Channel, Writes(r, d)
               PROVE  WriterIs(r, d, r.channel[d], Path(r, -d))
    BY DEF Channeled
  <2>1. d # c /\ Writes(s, d) /\ r.channel[d] = s.channel[d]
    BY <1>6, <1>7
  <2>2. -d \in Owners(r) \ {e}
    BY <1>2, OwnersAre, Numbers
  <2>3. WriterIs(s, d, s.channel[d], Path(r, -d))
    BY <1>1, <1>19, <2>1, <2>2 DEF Channeled
  <2>4. s.channel[d].slot \in Slot \ {e}
    BY <1>13, <2>1, WriterTypes
  <2>5. \A f \in Channel : f # d /\ Writes(r, f) => Writes(s, f) /\ r.channel[f] = s.channel[f]
    BY <1>6, <1>7
  <2> QED BY <1>8, <2>1, <2>3, <2>4, <2>5 DEF WriterIs
<1>22. OnImage(r)
  <2> SUFFICES ASSUME NEW f \in Slot, IsFile(r, f)
               PROVE  /\ Owned(r, f) \subseteq r.saved
                      /\ r.dir[f].first # NoBlock => r.dir[f].blocks = Len(Path(r, f))
    BY DEF OnImage
  <2>1. f \in Owners(r) /\ Owned(r, f) \subseteq r.saved
    BY <1>4, <1>19, OwnersAre DEF Paths
  <2>2. CASE f # e
    BY <1>1, <1>8, <1>15, <1>19, <2>1, <2>2 DEF OnImage
  <2>3. CASE f = e
    <3> SUFFICES ASSUME First(p) # NoBlock PROVE u.entry.blocks = Len(path)
      BY <1>9, <1>19, <2>1, <2>3
    <3>1. path # <<>>
      BY <1>1 DEF WriterIn, Leads
    <3>2. /\ p.track # NoBlock /\ p.entry.blocks = Len(path) - 1
          /\ Len(path) \in Nat /\ Len(path) < 65536 /\ path \in Seq(Block)
      BY <1>1, <3>1 DEF WriterIn
    <3>3. u.entry.blocks = OneMore(Len(path) - 1)
      BY <1>3, <3>2
    <3> QED BY <3>2, <3>3 DEF OneMore
  <2> QED BY <2>2, <2>3
<1>23. ASSUME Exact(s) PROVE Exact(r)
  <2>1. ASSUME NEW b \in r.bam PROVE b \in AllOwned(r)
    <3>1. PICK o \in Owners(s) : b \in Owned(s, o)
      BY <1>4, <1>23, <2>1 DEF Exact, AllOwned
    <3>2. b \notin freed
      BY <1>4, <2>1
    <3>3. CASE o = -c
      BY <1>1, <1>16, <1>19, <3>1, <3>3 DEF AllOwned, WriterIn
    <3>4. CASE o = e
      <4>1. Replaces(p)
        BY <1>2, <1>13, <3>4, OwnersAre
      <4> QED BY <1>14, <3>1, <3>2, <3>4, <4>1
    <3>5. CASE o # e /\ o # -c
      BY <1>16, <1>19, <3>1, <3>5 DEF AllOwned
    <3> QED BY <3>3, <3>4, <3>5
  <2>2. AllOwned(r) \subseteq r.bam
    BY <1>19 DEF Paths, AllOwned
  <2> QED BY <1>4, <2>1, <2>2 DEF Exact
<1> QED BY <1>4, <1>5, <1>19, <1>20, <1>21, <1>22, <1>23 DEF Sound

\* Closing a channel leaves the drive sound, and loses no block.
LEMMA CloseSound ==
  ASSUME NEW s, Sound(s), NEW c, Writes(s, c), NEW r \in CloseSequential(s, c)
  PROVE  Sound(r) /\ (Exact(s) => Exact(r)) /\ OtherChannels(s, r, c) /\ r.channel[c] = Free
<1>1. PICK t, x : /\ Sound(t) /\ Writes(t, c) /\ (Exact(s) => Exact(t)) /\ OtherChannels(s, t, c)
                  /\ LastWritten(t, x, c, t.channel[c], x.channel[c])
                  /\ Finished(x, r, c, x.channel[c])
  BY CloseCases
<1>2. Sound(r) /\ (Exact(t) => Exact(r)) /\ OtherChannels(t, r, c) /\ r.channel[c] = Free
  BY <1>1, ClosedSound
<1>3. OtherChannels(s, r, c)
  BY <1>1, <1>2 DEF OtherChannels, Writes
<1> QED BY <1>1, <1>2, <1>3

\* All channels are closed, one after the other.
CloseNext(drives, n) ==
  UNION {IF t.channel[n] = Free THEN {t} ELSE CloseSequential(t, n) : t \in drives}
ClosedTo(f, s, m) == f = [n \in 0 .. m |-> IF n = 0 THEN {s} ELSE CloseNext(f[n - 1], n)]

\* CloseAllChannels goes through the channels.
LEMMA CloseAllDefined ==
  ASSUME NEW s, NEW r \in CloseAllChannels(s)
  PROVE  \E f : ClosedTo(f, s, Channels) /\ r \in f[Channels]
<1> DEFINE T == {m \in Nat : \E f : ClosedTo(f, s, m)}
           H == CHOOSE f : ClosedTo(f, s, Channels)
<1>1. 0 \in T
  <2> DEFINE f == [n \in 0 .. 0 |-> {s}]
  <2>1. ClosedTo(f, s, 0)
    BY DEF ClosedTo
  <2> QED BY <2>1
<1>2. ASSUME NEW m \in Nat, m \in T PROVE m + 1 \in T
  <2>1. PICK f : ClosedTo(f, s, m)
    BY <1>2
  <2> DEFINE g == [n \in 0 .. m + 1 |-> IF n = m + 1 THEN CloseNext(f[m], n) ELSE f[n]]
  <2>2. ASSUME NEW n \in 0 .. m + 1, n # 0 PROVE g[n] = CloseNext(g[n - 1], n)
    <3>1. n - 1 \in 0 .. m + 1 /\ n - 1 # m + 1 /\ (n = m + 1 => n - 1 = m)
      BY <2>2
    <3>2. g[n - 1] = f[n - 1]
      BY <3>1
    <3>3. n # m + 1 => n \in 0 .. m
      OBVIOUS
    <3>4. n # m + 1 => f[n] = CloseNext(f[n - 1], n)
      BY <2>1, <2>2, <3>3 DEF ClosedTo
    <3> QED BY <3>1, <3>2, <3>4
  <2>3. g[0] = {s} /\ g = [n \in 0 .. m + 1 |-> g[n]]
    BY <2>1 DEF ClosedTo
  <2> HIDE DEF g
  <2>4. ClosedTo(g, s, m + 1)
    BY <2>2, <2>3 DEF ClosedTo
  <2> QED BY <2>4
<1>3. Channels \in T
  <2> HIDE DEF T
  <2>1. Nat \subseteq T
    BY <1>1, <1>2, Induction
  <2> QED BY <2>1, DiskFilesAssumption
<1>4. ClosedTo(H, s, Channels)
  BY <1>3, Zenon
<1>5. CloseAllChannels(s) = H[Channels]
  BY DEF CloseAllChannels, ClosedTo, CloseNext
<1> QED BY <1>4, <1>5

\* After that the drive is sound, all channels are free, and no block is lost.
LEMMA CloseAllSound ==
  ASSUME NEW s, Sound(s), NEW r \in CloseAllChannels(s)
  PROVE  Sound(r) /\ (Exact(s) => Exact(r)) /\ \A c \in Channel : r.channel[c] = Free
<1>1. PICK f : ClosedTo(f, s, Channels) /\ r \in f[Channels]
  BY CloseAllDefined
<1>2. Channels \in Nat /\ Channel = 1 .. Channels
  BY DiskFilesAssumption DEF Channel
<1>3. f[0] = {s} /\ \A n \in 1 .. Channels : f[n] = CloseNext(f[n - 1], n)
  <2>1. \A n \in 0 .. Channels : f[n] = IF n = 0 THEN {s} ELSE CloseNext(f[n - 1], n)
    BY <1>1, Zenon DEF ClosedTo
  <2>2. 0 \in 0 .. Channels /\ \A n \in 1 .. Channels : n \in 0 .. Channels /\ n # 0
    BY <1>2
  <2> QED BY <2>1, <2>2, Zenon
<1> DEFINE Good(t, n) == Sound(t) /\ (Exact(s) => Exact(t)) /\ \A c \in 1 .. n : t.channel[c] = Free
           T == {n \in Nat : n <= Channels => \A t \in f[n] : Good(t, n)}
<1>4. 0 \in T
  BY <1>3
<1>5. ASSUME NEW n \in Nat, n \in T PROVE n + 1 \in T
  <2> SUFFICES ASSUME n + 1 <= Channels, NEW t \in f[n + 1] PROVE Good(t, n + 1)
    OBVIOUS
  <2>1. n <= Channels /\ n + 1 \in 1 .. Channels /\ (n + 1) - 1 = n
    BY <1>2
  <2>2. PICK u \in f[n] : t \in IF u.channel[n + 1] = Free THEN {u} ELSE CloseSequential(u, n + 1)
    BY <1>3, <2>1 DEF CloseNext
  <2>3. Good(u, n)
    BY <1>5, <2>1, <2>2
  <2>4. CASE u.channel[n + 1] = Free
    BY <2>2, <2>3, <2>4
  <2>5. CASE u.channel[n + 1] # Free
    <3>1. Writes(u, n + 1) /\ t \in CloseSequential(u, n + 1)
      BY <1>2, <2>1, <2>2, <2>5 DEF Writes
    <3>2. Sound(t) /\ (Exact(u) => Exact(t)) /\ OtherChannels(u, t, n + 1) /\ t.channel[n + 1] = Free
      BY <2>3, <3>1, CloseSound
    <3>3. ASSUME NEW c \in 1 .. n + 1 PROVE t.channel[c] = Free
      <4>1. c \in Channel /\ (c # n + 1 => c \in 1 .. n)
        BY <1>2, <2>1
      <4> QED BY <2>3, <3>2, <4>1 DEF OtherChannels
    <3> QED BY <2>3, <3>2, <3>3
  <2> QED BY <2>4, <2>5
<1>6. Channels \in T
  <2> HIDE DEF T
  <2>1. Nat \subseteq T
    BY <1>4, <1>5, Induction
  <2> QED BY <1>2, <2>1
<1>7. Good(r, Channels)
  BY <1>1, <1>2, <1>6
<1> QED BY <1>2, <1>7

-----------------------------------------------------------------------------
(* What leaves every owner its blocks *)

\* The drives differ in the names of files, the buffers of channels, the contents of
\* blocks and the error channel only.
SameWriter(p, q) ==
  /\ IsWriter(q) /\ q.mode = p.mode /\ q.slot = p.slot /\ q.entry = p.entry
  /\ q.replacement = p.replacement /\ q.track = p.track
SameEntry(p, q) == IsEntry(q) /\ q.closed = p.closed /\ q.first = p.first /\ q.blocks = p.blocks
Alike(s, r) ==
  /\ IsDrive(r) /\ r.bam = s.bam /\ r.saved = s.saved /\ r.next = s.next
  /\ r.dir = [e \in Slot |-> r.dir[e]]
  /\ \A e \in Slot : r.dir[e] = s.dir[e] \/ (s.dir[e] # NoEntry /\ SameEntry(s.dir[e], r.dir[e]))
  /\ r.channel = [c \in Channel |-> r.channel[c]]
  /\ \A c \in Channel :
       \/ r.channel[c] = s.channel[c]
       \/ s.channel[c] # Free /\ SameWriter(s.channel[c], r.channel[c])

\* A drive alike is as sound.
LEMMA AlikeSound ==
  ASSUME NEW s, Sound(s), NEW r, Alike(s, r)
  PROVE  Sound(r) /\ (Exact(s) => Exact(r))
<1>1. Typed(s) /\ Paths(s) /\ Channeled(s) /\ OnImage(s)
  BY DEF Sound
<1>2. /\ IsDrive(r) /\ r.bam = s.bam /\ r.saved = s.saved /\ r.next = s.next
      /\ r.dir = [e \in Slot |-> r.dir[e]] /\ r.channel = [c \in Channel |-> r.channel[c]]
  BY DEF Alike
<1>3. \A e \in Slot :
        /\ r.dir[e] = NoEntry <=> s.dir[e] = NoEntry
        /\ r.dir[e] = NoEntry \/ IsEntry(r.dir[e])
        /\ s.dir[e] # NoEntry => r.dir[e].closed = s.dir[e].closed /\ r.dir[e].first = s.dir[e].first
                                 /\ r.dir[e].blocks = s.dir[e].blocks
        /\ r.dir[e].first = s.dir[e].first \/ s.dir[e] = NoEntry
  BY <1>1, NoneOfThese DEF Alike, SameEntry, Typed
<1>4. \A c \in Channel :
        /\ r.channel[c] = Free <=> s.channel[c] = Free
        /\ r.channel[c] = Free \/ IsWriter(r.channel[c])
        /\ Writes(r, c) <=> Writes(s, c)
        /\ r.channel[c].track = s.channel[c].track
        /\ r.channel[c].slot = s.channel[c].slot
        /\ r.channel[c].entry = s.channel[c].entry
        /\ Replaces(r.channel[c]) <=> Replaces(s.channel[c])
        /\ First(r.channel[c]) = First(s.channel[c])
  BY <1>1, NoneOfThese DEF Alike, SameWriter, Typed, Writes, Replaces, First
<1>5. Typed(r)
  BY <1>1, <1>2, <1>3, <1>4 DEF Typed
<1>6. \A e \in Slot : IsFile(r, e) <=> IsFile(s, e)
  BY <1>3 DEF IsFile
<1>7. Owners(r) = Owners(s)
  <2>1. ASSUME NEW o \in Int PROVE IsFile(r, o) <=> IsFile(s, o)
    BY <1>6 DEF IsFile
  <2>2. ASSUME NEW o \in Int PROVE Writes(r, -o) <=> Writes(s, -o)
    BY <1>4 DEF Writes
  <2> QED BY <2>1, <2>2 DEF Owners
<1>8. \A o \in Owners(s) : /\ Links(r, o) = Links(s, o) /\ Start(r, o) = Start(s, o)
                            /\ Path(r, o) = Path(s, o) /\ Owned(r, o) = Owned(s, o)
  <2> TAKE o \in Owners(s)
  <2>1. CASE o \in Slot
    <3>1. IsFile(s, o)
      BY <2>1, OwnersAre
    <3>2. r.dir[o].first = s.dir[o].first
      BY <1>3, <2>1, <3>1 DEF IsFile
    <3>3. Links(r, o) = Links(s, o) /\ Start(r, o) = Start(s, o)
      BY <1>2, <2>1, <3>2 DEF Links, Start
    <3> QED BY <3>3 DEF Path, Owned
  <2>2. CASE o \notin Slot
    <3>1. -o \in Channel
      BY <2>2, OwnersAre, Numbers
    <3>2. First(r.channel[-o]) = First(s.channel[-o]) /\ r.channel[-o].track = s.channel[-o].track
      BY <1>4, <3>1
    <3>3. Links(r, o) = Links(s, o) /\ Start(r, o) = Start(s, o)
      BY <1>2, <2>2, <3>2 DEF Links, Start
    <3> QED BY <3>3 DEF Path, Owned
  <2> QED BY <2>1, <2>2
<1>9. Paths(r)
  BY <1>1, <1>2, <1>7, <1>8 DEF Paths
<1>10. Channeled(r)
  <2> SUFFICES ASSUME NEW c \in Channel, Writes(r, c)
               PROVE  WriterIs(r, c, r.channel[c], Path(r, -c))
    BY DEF Channeled
  <2>1. Writes(s, c) /\ -c \in Owners(s) /\ Path(r, -c) = Path(s, -c)
    BY <1>4, <1>8, OwnersAre
  <2>2. WriterIs(s, c, s.channel[c], Path(s, -c))
    BY <1>1, <2>1 DEF Channeled
  <2>3. s.channel[c].slot \in Slot
    BY <2>1, WriterTypes
  <2> PICK p, q, path : p = s.channel[c] /\ q = r.channel[c] /\ path = Path(s, -c)
    OBVIOUS
  <2>4. q.slot = p.slot /\ q.track = p.track /\ q.entry = p.entry /\ (Replaces(q) <=> Replaces(p))
    BY <1>4
  <2>5. WriterIs(s, c, p, path)
    BY <2>2
  <2>6. s.dir[p.slot] # NoEntry /\ r.dir[p.slot] # NoEntry
        /\ r.dir[p.slot].closed = s.dir[p.slot].closed /\ r.dir[p.slot].first = s.dir[p.slot].first
    BY <1>3, <2>3, <2>5 DEF WriterIs
  <2>7. \A d \in Channel : d # c /\ Writes(r, d) => r.channel[d].slot # p.slot
    BY <1>4, <2>5 DEF WriterIs
  <2>8. WriterIs(r, c, q, path)
    BY <2>4, <2>5, <2>6, <2>7 DEF WriterIs
  <2> QED BY <2>1, <2>8
<1>11. OnImage(r)
  <2> SUFFICES ASSUME NEW e \in Slot, IsFile(r, e)
               PROVE  /\ Owned(r, e) \subseteq r.saved
                      /\ r.dir[e].first # NoBlock => r.dir[e].blocks = Len(Path(r, e))
    BY DEF OnImage
  <2>1. IsFile(s, e) /\ e \in Owners(s)
    BY <1>6, OwnersAre
  <2> QED BY <1>1, <1>2, <1>3, <1>8, <2>1 DEF OnImage, IsFile
<1>12. ASSUME Exact(s) PROVE Exact(r)
  BY <1>2, <1>4, <1>7, <1>8, <1>12 DEF Exact, AllOwned
<1> QED BY <1>5, <1>9, <1>10, <1>11, <1>12 DEF Sound

-----------------------------------------------------------------------------
(* Opening a file *)

\* A channel c opens the file of an entry: to replace it, or to go on after its blocks q,
\* which no longer belong to a closed file then.
Opens(s, r, c, p, q) ==
  /\ IsDrive(r) /\ r.bam = s.bam /\ r.saved = s.saved /\ r.next = s.next
  /\ c \in Channel /\ s.channel[c] = Free
  /\ OtherChannels(s, r, c) /\ r.channel[c] = p /\ IsWriter(p)
  /\ r.dir = [e \in Slot |-> IF e = p.slot THEN r.dir[e] ELSE s.dir[e]]
  /\ IsEntry(r.dir[p.slot])
  /\ \A d \in Channel : Writes(s, d) => s.channel[d].slot # p.slot
  /\ Leads([s.next EXCEPT ![p.track] = NoBlock], First(p), q)
  /\ q = <<>> => p.track = NoBlock
  /\ q # <<>> => p.track = Last(q) /\ p.entry.blocks = Len(q) - 1
  /\ \/ /\ Replaces(p) /\ q = <<>> /\ r.dir[p.slot] = s.dir[p.slot]
        /\ s.dir[p.slot].closed /\ s.dir[p.slot].first = p.entry.first
     \/ /\ ~Replaces(p) /\ ~r.dir[p.slot].closed
        /\ q = IF IsFile(s, p.slot) THEN Path(s, p.slot) ELSE <<>>

\* Opening a file leaves the drive sound, and loses no block.
LEMMA OpensSound ==
  ASSUME NEW s, Sound(s), NEW r, NEW c, NEW p, NEW q, Opens(s, r, c, p, q)
  PROVE  Sound(r) /\ (Exact(s) => Exact(r))
<1> PICK e : e = p.slot
  OBVIOUS
<1>1. Typed(s) /\ Paths(s) /\ Channeled(s) /\ OnImage(s)
  BY DEF Sound
<1>2. /\ IsDrive(r) /\ r.bam = s.bam /\ r.saved = s.saved /\ r.next = s.next
      /\ c \in Channel /\ r.channel[c] = p /\ IsWriter(p) /\ OtherChannels(s, r, c)
      /\ r.dir = [f \in Slot |-> IF f = e THEN r.dir[f] ELSE s.dir[f]]
      /\ IsEntry(r.dir[e]) /\ \A d \in Channel : Writes(s, d) => s.channel[d].slot # e
      /\ ~Writes(s, c)
  BY DEF Opens, Writes
<1>3. e \in Slot /\ -c \notin Slot /\ -(-c) = c /\ -c \in Int
  BY <1>2, Numbers DEF IsWriter
<1>4. /\ r.channel = [d \in Channel |-> r.channel[d]]
      /\ \A d \in Channel : d # c => r.channel[d] = s.channel[d] /\ (Writes(r, d) <=> Writes(s, d))
      /\ \A d \in Channel : r.channel[d] = Free \/ IsWriter(r.channel[d])
      /\ Writes(r, c)
  BY <1>1, <1>2, OthersAre, NoneOfThese DEF Writes
<1>5. r.dir = [f \in Slot |-> r.dir[f]] /\ \A f \in Slot \ {e} : r.dir[f] = s.dir[f]
  BY <1>2
<1>6. Typed(r)
  <2>1. \A f \in Slot : r.dir[f] = NoEntry \/ IsEntry(r.dir[f])
    BY <1>1, <1>2, <1>5 DEF Typed
  <2>2. r.bam \in SUBSET Block /\ r.saved \in SUBSET Block /\ r.next \in [Block -> MaybeBlock]
    BY <1>1, <1>2 DEF Typed
  <2> QED BY <1>2, <1>4, <1>5, <2>1, <2>2 DEF Typed
<1>7. /\ \A f \in Slot \ {e} : IsFile(r, f) <=> IsFile(s, f)
      /\ IsFile(r, e) => r.dir[e] = s.dir[e] /\ IsFile(s, e)
      /\ IsFile(s, e) => \/ IsFile(r, e) /\ q = <<>>
                         \/ ~IsFile(r, e) /\ q = Path(s, e)
      /\ ~IsFile(s, e) => q = <<>>
  <2>1. r.dir[e] # NoEntry
    BY <1>2, NoneOfThese
  <2> QED BY <1>3, <1>5, <2>1 DEF IsFile, Opens
<1>8. /\ -c \in Owners(r) /\ -c \notin Owners(s)
      /\ \A o \in Owners(r) \ {-c} :
           /\ o \in Owners(s) /\ Start(r, o) = Start(s, o) /\ Links(r, o) = Links(s, o)
           /\ o = e => q = <<>>
      /\ \A o \in Owners(s) : o \in Owners(r) \/ (o = e /\ q = Path(s, e))
  <2>1. -c \in Owners(r) /\ -c \notin Owners(s)
    BY <1>2, <1>4, OwnersAre
  <2>2. ASSUME NEW o \in Owners(r) \ {-c}
        PROVE  /\ o \in Owners(s) /\ Start(r, o) = Start(s, o) /\ Links(r, o) = Links(s, o)
               /\ o = e => q = <<>>
    <3>1. CASE o \in Slot
      <4>1. IsFile(r, o)
        BY <2>2, <3>1, OwnersAre
      <4>2. IsFile(s, o) /\ r.dir[o] = s.dir[o] /\ (o = e => q = <<>>)
        BY <1>5, <1>7, <3>1, <4>1
      <4>3. o \in Owners(s)
        BY <3>1, <4>2, OwnersAre
      <4> QED BY <1>2, <3>1, <4>2, <4>3 DEF Start, Links
    <3>2. CASE o \notin Slot
      <4>1. PICK d \in Channel : o = -d /\ Writes(r, d) /\ -o = d
        BY <2>2, <3>2, OwnersAre, Numbers
      <4>2. d # c /\ r.channel[d] = s.channel[d] /\ Writes(s, d)
        BY <1>4, <2>2, <4>1
      <4>3. o \in Owners(s)
        BY <4>1, <4>2, OwnersAre
      <4> QED BY <1>2, <1>3, <3>2, <4>1, <4>2, <4>3 DEF Start, Links
    <3> QED BY <3>1, <3>2
  <2>3. ASSUME NEW o \in Owners(s) PROVE o \in Owners(r) \/ (o = e /\ q = Path(s, e))
    <3>1. CASE o \in Slot
      BY <1>7, <2>3, <3>1, OwnersAre
    <3>2. CASE o \notin Slot
      <4>1. PICK d \in Channel : o = -d /\ Writes(s, d)
        BY <2>3, <3>2, OwnersAre
      <4> QED BY <1>2, <1>4, <4>1, OwnersAre
    <3> QED BY <3>1, <3>2
  <2> QED BY <2>1, <2>2, <2>3
<1>9. q # <<>> => e \in Owners(s) /\ Range(q) = Owned(s, e) /\ e \notin Owners(r)
  <2>1. q # <<>> => IsFile(s, e) /\ ~IsFile(r, e) /\ q = Path(s, e)
    BY <1>7
  <2> QED BY <1>3, <2>1, OwnersAre DEF Owned
<1>10. Range(<<>>) = {}
  BY DEF Range
<1>11. Keeps(s, r, -c, q)
  <2>1. ASSUME NEW o \in Owners(r) \ {-c}
        PROVE  /\ o \in Owners(s) /\ Start(r, o) = Start(s, o)
               /\ \A b \in Owned(s, o) : Links(r, o)[b] = Links(s, o)[b]
               /\ Owned(s, o) \subseteq r.bam /\ Range(q) \cap Owned(s, o) = {}
    <3>1. o \in Owners(s) /\ Start(r, o) = Start(s, o) /\ Links(r, o) = Links(s, o)
      BY <1>8
    <3>2. Owned(s, o) \subseteq r.bam
      BY <1>1, <1>2, <3>1 DEF Paths
    <3>3. Range(q) \cap Owned(s, o) = {}
      <4>1. CASE q = <<>>
        BY <1>10, <4>1
      <4>2. CASE q # <<>>
        <5>1. e # o
          BY <1>9, <2>1, <4>2
        <5> QED BY <1>1, <1>9, <3>1, <4>2, <5>1 DEF Paths
      <4> QED BY <4>1, <4>2
    <3> QED BY <3>1, <3>2, <3>3
  <2>2. Leads(Links(r, -c), Start(r, -c), q)
    <3>1. Links(r, -c) = [s.next EXCEPT ![p.track] = NoBlock] /\ Start(r, -c) = First(p)
      BY <1>2, <1>3 DEF Links, Start
    <3>2. Leads([s.next EXCEPT ![p.track] = NoBlock], First(p), q)
      BY DEF Opens
    <3> QED BY <3>1, <3>2
  <2>3. Range(q) \subseteq r.bam
    <3>1. CASE q = <<>>
      BY <1>10, <3>1
    <3>2. CASE q # <<>>
      BY <1>1, <1>2, <1>9, <3>2 DEF Paths
    <3> QED BY <3>1, <3>2
  <2> QED BY <2>1, <2>2, <2>3 DEF Keeps
<1>12. /\ Paths(r) /\ Path(r, -c) = q /\ Owned(r, -c) = Range(q)
       /\ \A o \in Owners(r) \ {-c} : Path(r, o) = Path(s, o) /\ Owned(r, o) = Owned(s, o)
  BY <1>1, <1>8, <1>11, KeptPaths
<1>13. Channeled(r)
  <2> SUFFICES ASSUME NEW d \in Channel, Writes(r, d)
               PROVE  WriterIs(r, d, r.channel[d], Path(r, -d))
    BY DEF Channeled
  <2>1. CASE d = c
    <3>1. r.dir[e] # NoEntry
      BY <1>2, NoneOfThese
    <3>2. /\ Replaces(p) => r.dir[e].closed /\ r.dir[e].first = p.entry.first
          /\ ~Replaces(p) => ~r.dir[e].closed
          /\ q = <<>> => p.track = NoBlock
          /\ q # <<>> => p.track = Last(q) /\ p.entry.blocks = Len(q) - 1
      BY DEF Opens
    <3>3. \A x \in Channel : x # c /\ Writes(r, x) => r.channel[x].slot # e
      BY <1>2, <1>4
    <3>4. WriterIs(r, c, p, q)
      BY <3>1, <3>2, <3>3 DEF WriterIs
    <3> QED BY <1>2, <1>12, <2>1, <3>4
  <2>2. CASE d # c
    <3>1. Writes(s, d) /\ r.channel[d] = s.channel[d]
      BY <1>4, <2>2
    <3>2. -d \in Owners(r) \ {-c}
      BY <1>3, <2>2, OwnersAre, Numbers
    <3>3. WriterIs(s, d, s.channel[d], Path(r, -d))
      BY <1>1, <1>12, <3>1, <3>2 DEF Channeled
    <3>4. s.channel[d].slot \in Slot \ {e}
      BY <1>2, <3>1, WriterTypes
    <3>5. \A x \in Channel : x # d /\ Writes(r, x) => r.channel[x].slot # s.channel[d].slot
      <4> TAKE x \in Channel
      <4> HAVE x # d /\ Writes(r, x)
      <4>1. CASE x = c
        BY <1>2, <3>4, <4>1
      <4>2. CASE x # c
        BY <1>4, <3>3, <4>2 DEF WriterIs
      <4> QED BY <4>1, <4>2
    <3> QED BY <1>5, <3>1, <3>3, <3>4, <3>5 DEF WriterIs
  <2> QED BY <2>1, <2>2
<1>14. OnImage(r)
  <2> SUFFICES ASSUME NEW f \in Slot, IsFile(r, f)
               PROVE  /\ Owned(r, f) \subseteq r.saved
                      /\ r.dir[f].first # NoBlock => r.dir[f].blocks = Len(Path(r, f))
    BY DEF OnImage
  <2>1. f \in Owners(r) \ {-c} /\ IsFile(s, f) /\ r.dir[f] = s.dir[f]
    BY <1>3, <1>5, <1>7, OwnersAre
  <2> QED BY <1>1, <1>2, <1>12, <2>1 DEF OnImage
<1>15. ASSUME Exact(s) PROVE Exact(r)
  <2>1. ASSUME NEW b \in r.bam PROVE b \in AllOwned(r)
    <3>1. PICK o \in Owners(s) : b \in Owned(s, o)
      BY <1>2, <1>15, <2>1 DEF Exact, AllOwned
    <3>2. CASE o \in Owners(r)
      <4>1. o # -c
        BY <1>8, <3>1
      <4> QED BY <1>12, <3>1, <3>2, <4>1 DEF AllOwned
    <3>3. CASE o \notin Owners(r)
      <4>1. b \in Range(q)
        BY <1>8, <3>1, <3>3 DEF Owned
      <4> QED BY <1>8, <1>12, <4>1 DEF AllOwned
    <3> QED BY <3>2, <3>3
  <2>2. AllOwned(r) \subseteq r.bam
    BY <1>12 DEF Paths, AllOwned
  <2> QED BY <1>2, <1>4, <2>1, <2>2 DEF Exact, Writes
<1> QED BY <1>6, <1>12, <1>13, <1>14, <1>15 DEF Sound

-----------------------------------------------------------------------------
(* Commands on files *)

\* A command leaves some of the files as they are, and may add one with the blocks q in
\* the slot z, or in none if that is 0.  The channels are left alone, or all closed.
FilesChange(s, r, z, q) ==
  /\ IsDrive(r) /\ r.bam \in SUBSET Block /\ r.saved \in SUBSET Block
  /\ r.next \in [Block -> MaybeBlock] /\ r.dir = [e \in Slot |-> r.dir[e]]
  /\ \A e \in Slot : r.dir[e] = NoEntry \/ IsEntry(r.dir[e])
  /\ \A e \in Slot : IsFile(r, e) /\ e # z =>
       /\ IsFile(s, e) /\ r.dir[e].first = s.dir[e].first
       /\ r.dir[e].blocks \in {s.dir[e].blocks, Len(Path(s, e))}
       /\ Owned(s, e) \subseteq r.bam /\ Owned(s, e) \subseteq r.saved
  /\ \/ r.channel = [c \in Channel |-> Free]
     \/ /\ r.channel = s.channel
        /\ \A c \in Channel : Writes(s, c) =>
             r.dir[s.channel[c].slot] = s.dir[s.channel[c].slot] /\ Owned(s, -c) \subseteq r.bam
  /\ \A o \in Owners(s) : \A b \in Owned(s, o) : r.next[b] = s.next[b]
  /\ z \in Slot \cup {0}
  /\ z \in Slot => /\ IsFile(r, z) /\ ~IsFile(s, z)
                   /\ Leads(r.next, r.dir[z].first, q) /\ r.dir[z].blocks = Len(q)
                   /\ Range(q) \subseteq r.bam /\ Range(q) \subseteq r.saved
                   /\ Range(q) \cap s.bam = {}
  /\ z = 0 => q = <<>>

\* Such a command leaves the drive sound.
LEMMA FilesChangeSound ==
  ASSUME NEW s, Sound(s), NEW r, NEW z, NEW q, FilesChange(s, r, z, q)
  PROVE  /\ Sound(r)
         /\ \A o \in Owners(r) \ {z} : o \in Owners(s) /\ Owned(r, o) = Owned(s, o)
         /\ z \in Owners(r) => Owned(r, z) = Range(q)
<1>1. Typed(s) /\ Paths(s) /\ Channeled(s) /\ OnImage(s)
  BY DEF Sound
<1>2. /\ IsDrive(r) /\ r.bam \in SUBSET Block /\ r.saved \in SUBSET Block
      /\ r.next \in [Block -> MaybeBlock] /\ r.dir = [e \in Slot |-> r.dir[e]]
      /\ \A e \in Slot : r.dir[e] = NoEntry \/ IsEntry(r.dir[e])
  BY DEF FilesChange
<1>3. /\ r.channel = [c \in Channel |-> r.channel[c]]
      /\ \A c \in Channel : r.channel[c] = Free \/ IsWriter(r.channel[c])
      /\ \A c \in Channel : Writes(r, c) =>
           /\ Writes(s, c) /\ r.channel[c] = s.channel[c] /\ r.channel = s.channel
           /\ r.dir[s.channel[c].slot] = s.dir[s.channel[c].slot] /\ Owned(s, -c) \subseteq r.bam
  <2>1. CASE r.channel = [c \in Channel |-> Free]
    BY <2>1 DEF Writes
  <2>2. CASE r.channel # [c \in Channel |-> Free]
    <3>1. /\ r.channel = s.channel
          /\ \A c \in Channel : Writes(s, c) =>
               r.dir[s.channel[c].slot] = s.dir[s.channel[c].slot] /\ Owned(s, -c) \subseteq r.bam
      BY <2>2 DEF FilesChange
    <3>2. \A c \in Channel : Writes(r, c) <=> Writes(s, c)
      BY <3>1 DEF Writes
    <3>3. /\ s.channel = [c \in Channel |-> s.channel[c]]
          /\ \A c \in Channel : s.channel[c] = Free \/ IsWriter(s.channel[c])
      BY <1>1 DEF Typed
    <3> QED BY <3>1, <3>2, <3>3
  <2> QED BY <2>1, <2>2
<1>4. Typed(r)
  BY <1>2, <1>3 DEF Typed
<1>5. /\ z \in Slot \cup {0} /\ \A c \in Channel : -c # z
      /\ \A o \in Owners(s) : \A b \in Owned(s, o) : b \in Block /\ r.next[b] = s.next[b]
  <2>1. z \in Slot \cup {0} /\ \A o \in Owners(s) : \A b \in Owned(s, o) : r.next[b] = s.next[b]
    BY DEF FilesChange
  <2>2. \A c \in Channel : -c # 0 /\ -c \notin Slot
    BY Numbers DEF Channel
  <2>3. \A o \in Owners(s) : \A b \in Owned(s, o) : b \in Block
    BY <1>1 DEF Paths, Typed
  <2> QED BY <2>1, <2>2, <2>3
<1>6. \A e \in Slot : IsFile(r, e) /\ e # z =>
        /\ IsFile(s, e) /\ r.dir[e].first = s.dir[e].first
        /\ r.dir[e].blocks \in {s.dir[e].blocks, Len(Path(s, e))}
        /\ Owned(s, e) \subseteq r.bam /\ Owned(s, e) \subseteq r.saved
  BY DEF FilesChange
<1>7. z \in Owners(r) <=> z \in Slot
  <2>1. 0 \notin Owners(r)
    BY Numbers DEF Owners, IsFile, Writes, Slot, Channel
  <2>2. z \in Slot => z \in Owners(r)
    BY OwnersAre DEF FilesChange
  <2> QED BY <1>5, <2>1, <2>2
<1>8. z \in Slot => /\ IsFile(r, z) /\ Leads(r.next, r.dir[z].first, q) /\ r.dir[z].blocks = Len(q)
                    /\ Range(q) \subseteq r.bam /\ Range(q) \subseteq r.saved
                    /\ Range(q) \cap s.bam = {}
  BY DEF FilesChange
<1>9. z \notin Slot => Range(q) = {}
  BY <1>5 DEF FilesChange, Range
<1>10. Keeps(s, r, z, q)
  <2>1. ASSUME NEW o \in Owners(r) \ {z}
        PROVE  /\ o \in Owners(s) /\ Start(r, o) = Start(s, o)
               /\ \A b \in Owned(s, o) : Links(r, o)[b] = Links(s, o)[b]
               /\ Owned(s, o) \subseteq r.bam /\ Range(q) \cap Owned(s, o) = {}
    <3>1. /\ o \in Owners(s) /\ Start(r, o) = Start(s, o) /\ Owned(s, o) \subseteq r.bam
          /\ o \notin Slot => r.channel[-o].track = s.channel[-o].track
      <4>1. CASE o \in Slot
        <5>1. IsFile(r, o) /\ o # z
          BY <2>1, <4>1, OwnersAre
        <5>2. IsFile(s, o) /\ r.dir[o].first = s.dir[o].first /\ Owned(s, o) \subseteq r.bam
          BY <1>6, <4>1, <5>1
        <5> QED BY <4>1, <5>2, OwnersAre DEF Start
      <4>2. CASE o \notin Slot
        <5>1. PICK c \in Channel : o = -c /\ Writes(r, c) /\ -o = c
          BY <2>1, <4>2, OwnersAre, Numbers
        <5>2. Writes(s, c) /\ r.channel[c] = s.channel[c] /\ Owned(s, -c) \subseteq r.bam
          BY <1>3, <5>1
        <5>3. o \in Owners(s)
          BY <5>1, <5>2, OwnersAre
        <5> QED BY <4>2, <5>1, <5>2, <5>3 DEF Start
      <4> QED BY <4>1, <4>2
    <3>2. ASSUME NEW b \in Owned(s, o) PROVE Links(r, o)[b] = Links(s, o)[b]
      <4>1. b \in Block /\ r.next[b] = s.next[b]
        BY <1>5, <3>1
      <4> QED BY <1>1, <1>2, <3>1, <4>1, LinksOfOthers
    <3>3. Range(q) \cap Owned(s, o) = {}
      BY <1>1, <1>8, <1>9, <3>1 DEF Paths
    <3> QED BY <3>1, <3>2, <3>3
  <2>2. ASSUME z \in Owners(r) PROVE Leads(Links(r, z), Start(r, z), q) /\ Range(q) \subseteq r.bam
    <3>1. z \in Slot
      BY <1>7, <2>2
    <3>2. Links(r, z) = r.next /\ Start(r, z) = r.dir[z].first
      BY <3>1 DEF Links, Start
    <3> QED BY <1>8, <3>1, <3>2
  <2> QED BY <2>1, <2>2 DEF Keeps
<1>11. /\ Paths(r)
       /\ \A o \in Owners(r) \ {z} : Path(r, o) = Path(s, o) /\ Owned(r, o) = Owned(s, o)
       /\ z \in Owners(r) => Path(r, z) = q /\ Owned(r, z) = Range(q)
  BY <1>1, <1>10, KeptPaths
<1>12. \A o \in Owners(r) \ {z} : o \in Owners(s)
  BY <1>10 DEF Keeps
<1>13. Channeled(r)
  <2> SUFFICES ASSUME NEW c \in Channel, Writes(r, c)
               PROVE  WriterIs(r, c, r.channel[c], Path(r, -c))
    BY DEF Channeled
  <2>1. /\ Writes(s, c) /\ r.channel[c] = s.channel[c] /\ r.channel = s.channel
        /\ r.dir[s.channel[c].slot] = s.dir[s.channel[c].slot]
    BY <1>3
  <2>2. -c \in Owners(r) \ {z}
    BY <1>5, OwnersAre
  <2>3. WriterIs(s, c, s.channel[c], Path(r, -c))
    BY <1>1, <1>11, <2>1, <2>2 DEF Channeled
  <2>4. \A d \in Channel : Writes(r, d) <=> Writes(s, d)
    BY <2>1 DEF Writes
  <2> QED BY <2>1, <2>3, <2>4 DEF WriterIs
<1>14. OnImage(r)
  <2> SUFFICES ASSUME NEW e \in Slot, IsFile(r, e)
               PROVE  /\ Owned(r, e) \subseteq r.saved
                      /\ r.dir[e].first # NoBlock => r.dir[e].blocks = Len(Path(r, e))
    BY DEF OnImage
  <2>1. e \in Owners(r)
    BY OwnersAre
  <2>2. CASE e = z
    BY <1>8, <1>11, <2>1, <2>2
  <2>3. CASE e # z
    <3>1. /\ IsFile(s, e) /\ r.dir[e].first = s.dir[e].first
          /\ r.dir[e].blocks \in {s.dir[e].blocks, Len(Path(s, e))}
          /\ Owned(s, e) \subseteq r.saved
      BY <1>6, <2>3
    <3> QED BY <1>1, <1>11, <2>1, <2>3, <3>1 DEF OnImage
  <2> QED BY <2>2, <2>3
<1> QED BY <1>4, <1>11, <1>12, <1>13, <1>14 DEF Sound

\* The map is read again from the image, and no channel is open.
Rereads(s, r) ==
  /\ IsDrive(r) /\ r.bam = s.saved /\ r.saved = s.saved /\ r.dir = s.dir /\ r.next = s.next
  /\ r.channel = [c \in Channel |-> Free]

\* The map of the image has the blocks of all closed files, and if no channel was open
\* no others.
LEMMA RereadSound ==
  ASSUME NEW s, Sound(s), NEW r, Rereads(s, r)
  PROVE  Sound(r) /\ (Exact(s) /\ (\A c \in Channel : s.channel[c] = Free) => Exact(r))
<1>1. Typed(s) /\ OnImage(s)
  BY DEF Sound
<1>2. /\ IsDrive(r) /\ r.bam = s.saved /\ r.saved = s.saved /\ r.dir = s.dir /\ r.next = s.next
      /\ r.channel = [c \in Channel |-> Free]
  BY DEF Rereads
<1>3. \A e \in Slot : IsFile(r, e) <=> IsFile(s, e)
  BY <1>2 DEF IsFile
<1>4. FilesChange(s, r, 0, <<>>)
  <2>1. 0 \notin Slot
    BY DEF Slot
  <2>2. \A e \in Slot : IsFile(r, e) =>
          /\ IsFile(s, e) /\ r.dir[e] = s.dir[e]
          /\ Owned(s, e) \subseteq r.bam /\ Owned(s, e) \subseteq r.saved
    BY <1>1, <1>2, <1>3 DEF OnImage
  <2>3. /\ r.bam \in SUBSET Block /\ r.saved \in SUBSET Block /\ r.next \in [Block -> MaybeBlock]
        /\ r.dir = [e \in Slot |-> r.dir[e]]
        /\ \A e \in Slot : r.dir[e] = NoEntry \/ IsEntry(r.dir[e])
    BY <1>1, <1>2 DEF Typed
  <2> QED BY <1>2, <2>1, <2>2, <2>3 DEF FilesChange
<1>5. Sound(r) /\ \A o \in Owners(r) : o # 0 => o \in Owners(s) /\ Owned(r, o) = Owned(s, o)
  BY <1>4, FilesChangeSound
<1>6. ASSUME Exact(s), \A c \in Channel : s.channel[c] = Free PROVE Exact(r)
  <2>1. ASSUME NEW o PROVE o \in Owners(r) <=> o \in Owners(s)
    BY <1>2, <1>6 DEF Owners, IsFile, Writes
  <2>2. \A o \in Owners(r) : Owned(r, o) = Owned(s, o)
    <3>1. 0 \notin Owners(r)
      BY Numbers DEF Owners, IsFile, Writes, Slot, Channel
    <3> QED BY <1>5, <3>1
  <2>3. AllOwned(r) = AllOwned(s)
    BY <2>1, <2>2 DEF AllOwned
  <2> QED BY <1>2, <1>6, <2>3 DEF Exact
<1> QED BY <1>5, <1>6

\* A file is scratched.
Scratches(s, r, e) ==
  /\ e \in Slot /\ IsFile(s, e) /\ \A c \in Channel : Writes(s, c) => s.channel[c].slot # e
  /\ IsDrive(r) /\ r.bam = s.bam \ FreedChain(s, s.dir[e].first) /\ r.saved = r.bam
  /\ r.dir = [s.dir EXCEPT ![e] = NoEntry] /\ r.next = s.next /\ r.channel = s.channel

\* Scratching a file leaves the drive sound, and gives back all of its blocks.
LEMMA ScratchSound ==
  ASSUME NEW s, Sound(s), NEW r, NEW e, Scratches(s, r, e)
  PROVE  Sound(r) /\ (Exact(s) => Exact(r))
<1>1. Typed(s) /\ Paths(s) /\ OnImage(s)
  BY DEF Sound
<1>2. /\ e \in Slot /\ IsFile(s, e) /\ \A c \in Channel : Writes(s, c) => s.channel[c].slot # e
      /\ IsDrive(r) /\ r.saved = r.bam /\ r.dir = [s.dir EXCEPT ![e] = NoEntry]
      /\ r.next = s.next /\ r.channel = s.channel
  BY DEF Scratches
<1>3. r.bam = s.bam \ Owned(s, e)
  BY <1>2, FreedIs DEF Scratches
<1>4. r.dir = [f \in Slot |-> r.dir[f]] /\ r.dir[e] = NoEntry
      /\ \A f \in Slot \ {e} : r.dir[f] = s.dir[f]
  <2>1. s.dir = [f \in Slot |-> s.dir[f]]
    BY <1>1 DEF Typed
  <2> QED BY <1>2, <2>1
<1>5. ~IsFile(r, e) /\ \A f \in Slot \ {e} : IsFile(r, f) <=> IsFile(s, f)
  BY <1>4 DEF IsFile
<1>6. e \in Owners(s)
  BY <1>2, OwnersAre
<1>7. \A o \in Owners(s) \ {e} : Owned(s, o) \subseteq r.bam
  BY <1>1, <1>3, <1>6 DEF Paths
<1>8. FilesChange(s, r, 0, <<>>)
  <2>1. 0 \notin Slot
    BY DEF Slot
  <2>2. \A f \in Slot : IsFile(r, f) => /\ IsFile(s, f) /\ r.dir[f] = s.dir[f]
                                        /\ Owned(s, f) \subseteq r.bam
    BY <1>4, <1>5, <1>7, OwnersAre
  <2>3. ASSUME NEW c \in Channel, Writes(s, c)
        PROVE  r.dir[s.channel[c].slot] = s.dir[s.channel[c].slot] /\ Owned(s, -c) \subseteq r.bam
    <3>1. -c \in Owners(s) \ {e}
      BY <1>2, <2>3, OwnersAre, Numbers
    <3>2. s.channel[c].slot \in Slot
      BY <2>3, WriterTypes
    <3> QED BY <1>2, <1>4, <1>7, <2>3, <3>1, <3>2
  <2>4. /\ r.bam \in SUBSET Block /\ r.next \in [Block -> MaybeBlock]
        /\ \A f \in Slot : r.dir[f] = NoEntry \/ IsEntry(r.dir[f])
    BY <1>1, <1>2, <1>3, <1>4 DEF Typed
  <2> QED BY <1>2, <1>4, <2>1, <2>2, <2>3, <2>4 DEF FilesChange
<1>9. Sound(r) /\ \A o \in Owners(r) : o # 0 => o \in Owners(s) /\ Owned(r, o) = Owned(s, o)
  BY <1>8, FilesChangeSound
<1>10. ASSUME Exact(s) PROVE Exact(r)
  <2>1. Owners(r) = Owners(s) \ {e}
    <3>1. ASSUME NEW o \in Int PROVE IsFile(r, o) <=> IsFile(s, o) /\ o # e
      BY <1>5 DEF IsFile
    <3>2. \A o \in Int : Writes(r, -o) <=> Writes(s, -o)
      BY <1>2 DEF Writes
    <3>3. ~Writes(r, -e)
      BY <1>2, Numbers DEF Writes
    <3> QED BY <3>1, <3>2, <3>3 DEF Owners
  <2>2. \A o \in Owners(r) : Owned(r, o) = Owned(s, o)
    <3>1. 0 \notin Owners(r)
      BY Numbers DEF Owners, IsFile, Writes, Slot, Channel
    <3> QED BY <1>9, <3>1
  <2>3. AllOwned(r) = AllOwned(s) \ Owned(s, e)
    BY <1>1, <1>6, <2>1, <2>2 DEF AllOwned, Paths
  <2> QED BY <1>2, <1>3, <1>10, <2>3 DEF Exact
<1> QED BY <1>9, <1>10

\* A copy has allocated the blocks of a chain: as a file of its own in the slot e, or as
\* nobody's on a full disk.
Copies(s, r, e, chain, made) ==
  /\ chain \in Seq(Block) /\ Range(chain) \subseteq Block \ s.bam
  /\ IsDrive(r) /\ r.bam = s.bam \cup Range(chain) /\ r.channel = s.channel
  /\ r.next \in [Block -> MaybeBlock] /\ \A b \in s.bam : r.next[b] = s.next[b]
  /\ ~made => r.saved = s.saved /\ r.dir = s.dir
  /\ made => /\ r.saved = r.bam /\ e \in Slot /\ s.dir[e] = NoEntry
             /\ r.dir = [f \in Slot |-> IF f = e THEN r.dir[e] ELSE s.dir[f]]
             /\ IsEntry(r.dir[e]) /\ r.dir[e].closed /\ r.dir[e].blocks = Len(chain)
             /\ Leads(r.next, r.dir[e].first, chain)

\* A copy leaves the drive sound, and loses no block unless the disk is full.
LEMMA CopySound ==
  ASSUME NEW s, Sound(s), NEW r, NEW e, NEW chain, NEW made \in BOOLEAN,
         Copies(s, r, e, chain, made)
  PROVE  /\ Sound(r) /\ (made /\ Exact(s) => Exact(r))
         /\ made => /\ Owned(r, e) = Range(chain) /\ Range(chain) \cap s.bam = {}
                    /\ \A f \in Slot \ {e} : (IsFile(r, f) <=> IsFile(s, f))
                         /\ (IsFile(r, f) => Owned(r, f) = Owned(s, f))
<1>1. Typed(s) /\ Paths(s) /\ Channeled(s) /\ OnImage(s)
  BY DEF Sound
<1>2. /\ chain \in Seq(Block) /\ Range(chain) \subseteq Block \ s.bam
      /\ IsDrive(r) /\ r.bam = s.bam \cup Range(chain) /\ r.channel = s.channel
      /\ r.next \in [Block -> MaybeBlock] /\ \A b \in s.bam : r.next[b] = s.next[b]
  BY DEF Copies
<1>3. \A o \in Owners(s) : Owned(s, o) \subseteq s.bam /\ Owned(s, o) \subseteq r.bam
                            /\ \A b \in Owned(s, o) : r.next[b] = s.next[b]
  BY <1>1, <1>2 DEF Paths
<1>4. \A c \in Channel : Writes(s, c) => Owned(s, -c) \subseteq r.bam
  BY <1>3, OwnersAre
<1>5. 0 \notin Slot
  BY DEF Slot
<1>6. r.bam \in SUBSET Block
  BY <1>1, <1>2 DEF Typed
<1>7. 0 \notin Owners(r)
  BY Numbers DEF Owners, IsFile, Writes, Slot, Channel
<1>8. CASE ~made
  <2>1. r.saved = s.saved /\ r.dir = s.dir
    BY <1>8 DEF Copies
  <2>2. \A f \in Slot : IsFile(r, f) => /\ IsFile(s, f) /\ r.dir[f] = s.dir[f]
                                        /\ Owned(s, f) \subseteq r.bam /\ Owned(s, f) \subseteq r.saved
    BY <1>1, <1>3, <2>1, OwnersAre DEF IsFile, OnImage
  <2>3. /\ r.saved \in SUBSET Block /\ r.dir = [f \in Slot |-> r.dir[f]]
        /\ \A f \in Slot : r.dir[f] = NoEntry \/ IsEntry(r.dir[f])
    BY <1>1, <2>1 DEF Typed
  <2>4. FilesChange(s, r, 0, <<>>)
    BY <1>2, <1>3, <1>4, <1>5, <1>6, <2>1, <2>2, <2>3 DEF FilesChange
  <2> QED BY <1>8, <2>4, FilesChangeSound
<1>9. CASE made
  <2>1. /\ r.saved = r.bam /\ e \in Slot /\ s.dir[e] = NoEntry
        /\ r.dir = [f \in Slot |-> IF f = e THEN r.dir[e] ELSE s.dir[f]]
        /\ IsEntry(r.dir[e]) /\ r.dir[e].closed /\ r.dir[e].blocks = Len(chain)
        /\ Leads(r.next, r.dir[e].first, chain)
    BY <1>9 DEF Copies
  <2>2. r.dir = [f \in Slot |-> r.dir[f]] /\ \A f \in Slot \ {e} : r.dir[f] = s.dir[f]
    BY <2>1
  <2>3. IsFile(r, e) /\ ~IsFile(s, e) /\ \A f \in Slot \ {e} : IsFile(r, f) <=> IsFile(s, f)
    BY <2>1, <2>2, NoneOfThese DEF IsFile
  <2>4. \A f \in Slot : IsFile(r, f) /\ f # e =>
          /\ IsFile(s, f) /\ r.dir[f] = s.dir[f]
          /\ Owned(s, f) \subseteq r.bam /\ Owned(s, f) \subseteq r.saved
    BY <1>3, <2>1, <2>2, <2>3, OwnersAre
  <2>5. ASSUME NEW c \in Channel, Writes(s, c)
        PROVE  r.dir[s.channel[c].slot] = s.dir[s.channel[c].slot]
    <3>1. WriterIs(s, c, s.channel[c], Path(s, -c))
      BY <1>1, <2>5 DEF Channeled
    <3>2. s.channel[c].slot \in Slot /\ s.channel[c].slot # e
      BY <2>1, <2>5, <3>1, WriterTypes DEF WriterIs
    <3> QED BY <2>2, <3>2
  <2>6. \A f \in Slot : r.dir[f] = NoEntry \/ IsEntry(r.dir[f])
    BY <1>1, <2>1, <2>2 DEF Typed
  <2>7. /\ Range(chain) \subseteq r.bam /\ Range(chain) \subseteq r.saved
        /\ Range(chain) \cap s.bam = {} /\ r.saved \in SUBSET Block
    BY <1>2, <1>6, <2>1
  <2>8. FilesChange(s, r, e, chain)
    BY <1>2, <1>3, <1>4, <1>5, <1>6, <2>1, <2>2, <2>3, <2>4, <2>5, <2>6, <2>7 DEF FilesChange
  <2>9. /\ Sound(r)
        /\ \A o \in Owners(r) \ {e} : o \in Owners(s) /\ Owned(r, o) = Owned(s, o)
        /\ e \in Owners(r) => Owned(r, e) = Range(chain)
    BY <2>8, FilesChangeSound
  <2>10. ASSUME Exact(s) PROVE Exact(r)
    <3>1. Owners(r) = Owners(s) \cup {e}
      <4>1. ASSUME NEW o \in Int PROVE IsFile(r, o) <=> IsFile(s, o) \/ o = e
        BY <2>1, <2>3 DEF IsFile
      <4>2. \A o \in Int : Writes(r, -o) <=> Writes(s, -o)
        BY <1>2 DEF Writes
      <4>3. e \in Int
        BY <2>1, Numbers
      <4> QED BY <4>1, <4>2, <4>3 DEF Owners
    <3>2. e \notin Owners(s)
      BY <2>1, <2>3, OwnersAre
    <3>3. AllOwned(r) = AllOwned(s) \cup Range(chain)
      BY <2>9, <3>1, <3>2 DEF AllOwned
    <3> QED BY <1>2, <2>1, <2>10, <3>3 DEF Exact
  <2>11. Owned(r, e) = Range(chain)
    BY <2>1, <2>3, <2>9, OwnersAre
  <2>12. \A f \in Slot \ {e} : IsFile(r, f) => Owned(r, f) = Owned(s, f)
    BY <2>9, OwnersAre
  <2> QED BY <2>3, <2>7, <2>9, <2>10, <2>11, <2>12
<1> QED BY <1>8, <1>9

\* When all of its blocks are written.
LEMMA CopyDone ==
  ASSUME NEW s, Sound(s), NEW r, NEW e, NEW chain, Copies(s, r, e, chain, TRUE)
  PROVE  /\ Sound(r) /\ Owned(r, e) = Range(chain) /\ Range(chain) \cap s.bam = {}
         /\ \A f \in Slot \ {e} : /\ IsFile(r, f) <=> IsFile(s, f)
                                  /\ IsFile(r, f) => Owned(r, f) = Owned(s, f)
  BY CopySound

\* The links that a copy writes lead through the chain.
LeadsThrough(next0, links, chain, k) ==
  /\ links \in [Block -> MaybeBlock]
  /\ \A b \in Block \ Range(chain) : links[b] = next0[b]
  /\ k = Len(chain) => Leads(links, IF chain = <<>> THEN NoBlock ELSE chain[1], chain)

\* They do if every block but the last links to its successor.
LEMMA CopyLinks ==
  ASSUME NEW next0 \in [Block -> MaybeBlock], NEW chain \in Seq(Block), IsInjective(chain),
         NEW k \in 0 .. Len(chain), NEW links, NEW at,
         \A b \in Block : (\E i \in 1 .. k : chain[i] = b) => at[b] \in 1 .. k /\ chain[at[b]] = b,
         links = [b \in Block |-> IF ~(\E i \in 1 .. k : chain[i] = b) THEN next0[b]
                                  ELSE IF at[b] = Len(chain) THEN NoBlock
                                  ELSE chain[at[b] + 1]]
  PROVE  LeadsThrough(next0, links, chain, k)
<1>1. Len(chain) \in Nat /\ \A i \in 1 .. Len(chain) : chain[i] \in Block
  OBVIOUS
<1>2. \A i \in 1 .. k : at[chain[i]] = i
  BY <1>1 DEF IsInjective
<1>3. \A b \in Block : links[b] \in MaybeBlock
  BY <1>1 DEF MaybeBlock
<1>4. \A b \in Block \ Range(chain) : links[b] = next0[b]
  BY <1>1 DEF Range
<1>5. ASSUME k = Len(chain) PROVE Leads(links, IF chain = <<>> THEN NoBlock ELSE chain[1], chain)
  <2>1. \A i \in 1 .. Len(chain) : links[chain[i]] = IF i = Len(chain) THEN NoBlock ELSE chain[i + 1]
    BY <1>1, <1>2, <1>5
  <2>2. chain # <<>> => links[chain[Len(chain)]] = NoBlock
    BY <1>1, <2>1
  <2>3. \A i \in 1 .. Len(chain) - 1 : links[chain[i]] = chain[i + 1]
    BY <1>1, <2>1
  <2> QED BY <2>2, <2>3 DEF Leads
<1> QED BY <1>3, <1>4, <1>5 DEF LeadsThrough

-----------------------------------------------------------------------------
(* Steps *)

\* What is inductive as long as the disk is not torn: the drive is sound, and unless blocks
\* may have been lost no allocated block is without an owner.
Intact == Sound(Now) /\ (~leaky => Exact(Now))

\* The fields of Now are the variables.
LEMMA NowIs ==
  /\ IsDrive(Now) /\ Now.bam = bam /\ Now.saved = saved /\ Now.dir = dir /\ Now.next = next
  /\ Now.data = data /\ Now.channel = channel /\ Now.code = last_code
  BY DEF Now, IsDrive

\* The variables become the fields of the drive.
LEMMA BecomesIs ==
  ASSUME NEW r, IsDrive(r), Becomes(r)
  PROVE  Now' = r
  BY DEF Becomes, IsDrive, Now

\* It is enough to look at the drive that a step ends with.
LEMMA StepSound ==
  ASSUME NEW r, Becomes(r), Sound(r), leaky' = leaky, Exact(Now) => Exact(r), Intact
  PROVE  Intact'
<1>1. Now' = r
  BY BecomesIs DEF Sound, Typed
<1>2. Sound(Now')
  BY <1>1
<1>3. ~leaky' => Exact(Now')
  BY <1>1 DEF Intact
<1> QED BY <1>2, <1>3 DEF Intact

\* The entry that a command finds, and the free one that it takes.
LEMMA SmallestSlot ==
  ASSUME NEW S, S \subseteq Slot, S # {}
  PROVE  Min(S) \in S
<1> DEFINE R == OpToRel(<, Nat)
<1>1. \A x, y \in Nat : <<x, y>> \in R <=> x < y
  BY DEF OpToRel
<1>2. IsWellFoundedOn(R, Nat)
  BY NatLessThanWellFounded
<1> HIDE DEF R
<1>3. S \subseteq Nat
  BY DiskFilesAssumption DEF Slot
<1>4. PICK x \in S : \A y \in S : ~ (<<y, x>> \in R)
  BY <1>2, <1>3, WFMin
<1>5. \A y \in S : x =< y
  <2> TAKE y \in S
  <2>1. x \in Nat /\ y \in Nat /\ ~ (y < x)
    BY <1>1, <1>3, <1>4
  <2> QED BY <2>1
<1>6. \E z \in S : \A y \in S : z =< y
  BY <1>5
<1> QED BY <1>6, Zenon DEF Min

\* The least slot of a set is in the set.
LEMMA EntryFound ==
  /\ \A n : Entries(n) # {} => LET e == Min(Entries(n)) IN e \in Slot /\ dir[e] # NoEntry
  /\ FreeSlots # {} => Min(FreeSlots) \in Slot /\ dir[Min(FreeSlots)] = NoEntry
<1>1. ASSUME NEW n, Entries(n) # {} PROVE Min(Entries(n)) \in Slot /\ dir[Min(Entries(n))] # NoEntry
  <2>1. Entries(n) \subseteq Slot
    BY DEF Entries
  <2>2. Min(Entries(n)) \in Entries(n)
    BY <1>1, <2>1, SmallestSlot
  <2> QED BY <2>2 DEF Entries
<1>2. ASSUME FreeSlots # {} PROVE Min(FreeSlots) \in Slot /\ dir[Min(FreeSlots)] = NoEntry
  <2>1. FreeSlots \subseteq Slot
    BY DEF FreeSlots
  <2>2. Min(FreeSlots) \in FreeSlots
    BY <1>2, <2>1, SmallestSlot
  <2> QED BY <2>2 DEF FreeSlots
<1> QED BY <1>1, <1>2

\* After an error, a byte put into a buffer or a new name the drive is alike.
LEMMA ErrorAlike ==
  ASSUME NEW s, Typed(s)
  PROVE  Alike(s, Error(s))
<1>1. /\ IsDrive(Error(s)) /\ Error(s).bam = s.bam /\ Error(s).saved = s.saved
      /\ Error(s).dir = s.dir /\ Error(s).next = s.next /\ Error(s).channel = s.channel
  BY ErrorFields DEF Typed
<1>2. s.dir = [e \in Slot |-> s.dir[e]] /\ s.channel = [c \in Channel |-> s.channel[c]]
  BY DEF Typed
<1> QED BY <1>1, <1>2 DEF Alike

\* A byte put into a buffer changes no blocks,
LEMMA BufferAlike ==
  ASSUME NEW s, Typed(s), NEW c, Writes(s, c), NEW x,
         NEW r, r = [s EXCEPT !.channel[c].buffer = x]
  PROVE  Alike(s, r)
<1> PICK p : p = s.channel[c]
  OBVIOUS
<1>1. /\ c \in Channel /\ IsDrive(s) /\ IsWriter(p) /\ p # Free
      /\ s.dir = [e \in Slot |-> s.dir[e]] /\ s.channel = [d \in Channel |-> s.channel[d]]
  BY DEF Typed, Writes
<1>2. IsDrive(r)
  BY <1>1, Zenon DEF IsDrive
<1>3. /\ r.bam = s.bam /\ r.saved = s.saved /\ r.dir = s.dir /\ r.next = s.next
      /\ r.channel = [s.channel EXCEPT ![c].buffer = x]
  BY <1>1 DEF IsDrive
<1> PICK q : q = r.channel[c]
  OBVIOUS
<1>4. r.channel = [d \in Channel |-> r.channel[d]] /\ q = [p EXCEPT !.buffer = x]
      /\ \A d \in Channel \ {c} : r.channel[d] = s.channel[d]
  BY <1>1, <1>3
<1>5. p = [mode |-> p.mode, slot |-> p.slot, entry |-> p.entry, replacement |-> p.replacement,
           track |-> p.track, buffer |-> p.buffer]
  BY <1>1 DEF IsWriter
<1>6. q = [mode |-> p.mode, slot |-> p.slot, entry |-> p.entry, replacement |-> p.replacement,
           track |-> p.track, buffer |-> x]
  BY <1>4, <1>5
<1>7. /\ q.mode = p.mode /\ q.slot = p.slot /\ q.entry = p.entry /\ q.replacement = p.replacement
      /\ q.track = p.track
      /\ q = [mode |-> q.mode, slot |-> q.slot, entry |-> q.entry, replacement |-> q.replacement,
              track |-> q.track, buffer |-> q.buffer]
  BY <1>6
<1>8. SameWriter(p, q)
  BY <1>1, <1>7 DEF SameWriter, IsWriter
<1> QED BY <1>1, <1>2, <1>3, <1>4, <1>8 DEF Alike

\* and neither does a new name.
LEMMA NameAlike ==
  ASSUME NEW s, Typed(s), NEW e \in Slot, s.dir[e] # NoEntry, NEW n,
         NEW r, r = [s EXCEPT !.dir[e].name = n, !.code = "ok"]
  PROVE  Alike(s, r)
<1> PICK p : p = s.dir[e]
  OBVIOUS
<1>1. /\ IsDrive(s) /\ IsEntry(p)
      /\ s.dir = [f \in Slot |-> s.dir[f]] /\ s.channel = [d \in Channel |-> s.channel[d]]
  BY DEF Typed
<1>2. IsDrive(r)
  BY <1>1, Zenon DEF IsDrive
<1>3. /\ r.bam = s.bam /\ r.saved = s.saved /\ r.channel = s.channel /\ r.next = s.next
      /\ r.dir = [s.dir EXCEPT ![e].name = n]
  BY <1>1 DEF IsDrive
<1> PICK q : q = r.dir[e]
  OBVIOUS
<1>4. r.dir = [f \in Slot |-> r.dir[f]] /\ q = [p EXCEPT !.name = n]
      /\ \A f \in Slot \ {e} : r.dir[f] = s.dir[f]
  BY <1>1, <1>3
<1>5. p = [name |-> p.name, closed |-> p.closed, first |-> p.first, blocks |-> p.blocks]
  BY <1>1 DEF IsEntry
<1>6. q = [name |-> n, closed |-> p.closed, first |-> p.first, blocks |-> p.blocks]
  BY <1>4, <1>5
<1>7. /\ q.closed = p.closed /\ q.first = p.first /\ q.blocks = p.blocks
      /\ q = [name |-> q.name, closed |-> q.closed, first |-> q.first, blocks |-> q.blocks]
  BY <1>6
<1>8. SameEntry(p, q)
  BY <1>1, <1>7 DEF SameEntry, IsEntry
<1> QED BY <1>1, <1>2, <1>3, <1>4, <1>8 DEF Alike

\* So these steps keep the invariant.
LEMMA AlikeStep ==
  ASSUME Intact, NEW r, Becomes(r), Alike(Now, r), leaky' = leaky
  PROVE  Intact'
<1>1. Sound(r) /\ (Exact(Now) => Exact(r))
  BY AlikeSound DEF Intact
<1> QED BY <1>1, StepSound

\* One lemma for each action from here on: it keeps the invariant.
LEMMA RefusedKeeps ==
  ASSUME Intact, Refused
  PROVE  Intact'
<1>1. Alike(Now, Error(Now))
  BY ErrorAlike DEF Intact, Sound
<1> QED BY <1>1, AlikeStep DEF Refused, flags

\* Put writes into the buffer.
LEMMA PutKeeps ==
  ASSUME Intact, NEW c \in Channel, NEW d, Put(c, d)
  PROVE  Intact'
<1> PICK s, x : s = Now /\ x = Append(Now.channel[c].buffer, d)
  OBVIOUS
<1> DEFINE r == [s EXCEPT !.channel[c].buffer = x]
<1>1. Typed(s) /\ Writes(s, c)
  BY NowIs DEF Intact, Sound, Writes, Put
<1>2. Alike(s, r)
  BY <1>1, BufferAlike
<1>3. Becomes(r) /\ leaky' = leaky
  BY DEF Put, flags
<1> HIDE DEF r
<1> QED BY <1>2, <1>3, AlikeStep

\* Rename changes a name.
LEMMA RenameKeeps ==
  ASSUME Intact, NEW n, NEW m, Rename(n, m)
  PROVE  Intact'
<1> PICK s : s = Now
  OBVIOUS
<1>1. PICK e : e = Min(Entries(n)) /\ Becomes([s EXCEPT !.dir[e].name = m, !.code = "ok"])
  BY Zenon DEF Rename
<1>2. e \in Slot /\ s.dir[e] # NoEntry
  BY <1>1, EntryFound, NowIs DEF Rename
<1>3. Typed(s)
  BY DEF Intact, Sound
<1> DEFINE r == [s EXCEPT !.dir[e].name = m, !.code = "ok"]
<1>4. Alike(s, r)
  BY <1>2, <1>3, NameAlike
<1>5. Becomes(r) /\ leaky' = leaky
  BY <1>1 DEF Rename, flags
<1> HIDE DEF r
<1> QED BY <1>4, <1>5, AlikeStep

\* The entry and the channel are set.
OpenedTo(s, r, c, p, entry) ==
  /\ IsDrive(r) /\ r.bam = s.bam /\ r.saved = s.saved /\ r.next = s.next
  /\ OtherChannels(s, r, c) /\ r.channel[c] = p
  /\ r.dir = [e \in Slot |-> IF e = p.slot THEN r.dir[e] ELSE s.dir[e]]
  /\ r.dir[p.slot] = entry

\* That is what the record of Opened says.
LEMMA OpenedFields ==
  ASSUME NEW s, Typed(s), NEW c \in Channel, NEW p, p.slot \in Slot, NEW entry,
         NEW r, r = [s EXCEPT !.channel[c] = p, !.dir[p.slot] = entry, !.code = "ok"]
  PROVE  OpenedTo(s, r, c, p, entry)
<1> PICK e : e = p.slot
  OBVIOUS
<1>1. IsDrive(s) /\ s.dir = [f \in Slot |-> s.dir[f]] /\ s.channel = [d \in Channel |-> s.channel[d]]
  BY DEF Typed
<1>2. r = [s EXCEPT !.channel[c] = p, !.dir[e] = entry, !.code = "ok"]
  OBVIOUS
<1>3. IsDrive(r)
  BY <1>1, <1>2, Zenon DEF IsDrive
<1>4. /\ r.bam = s.bam /\ r.saved = s.saved /\ r.next = s.next
      /\ r.channel = [s.channel EXCEPT ![c] = p] /\ r.dir = [s.dir EXCEPT ![e] = entry]
  BY <1>1, <1>2 DEF IsDrive
<1>5. OtherChannels(s, r, c) /\ r.channel[c] = p
  BY <1>1, <1>4 DEF OtherChannels
<1>6. r.dir = [f \in Slot |-> IF f = e THEN r.dir[f] ELSE s.dir[f]] /\ r.dir[e] = entry
  BY <1>1, <1>4
<1> QED BY <1>3, <1>4, <1>5, <1>6 DEF OpenedTo

\* The fields of a new writer.
LEMMA WriterFields ==
  ASSUME NEW mode, NEW e \in Slot, NEW entry, IsEntry(entry), NEW track \in MaybeBlock,
         NEW buffer, NEW p, p = Writer(mode, e, entry, track, buffer)
  PROVE  /\ IsWriter(p) /\ p.mode = mode /\ p.slot = e /\ p.entry = entry
         /\ p.replacement = NoBlock /\ p.track = track
<1>1. /\ p.mode = mode /\ p.slot = e /\ p.entry = entry /\ p.replacement = NoBlock
      /\ p.track = track /\ p.buffer = buffer
  BY DEF Writer
<1>2. p = [mode |-> p.mode, slot |-> p.slot, entry |-> p.entry, replacement |-> p.replacement,
           track |-> p.track, buffer |-> p.buffer]
  BY DEF Writer
<1> QED BY <1>1, <1>2 DEF IsWriter, MaybeBlock

\* What is to be shown of a channel that opens a file.
MayOpen(s, e, mode, entry, track, q) ==
  /\ e \in Slot /\ IsEntry(entry) /\ track \in MaybeBlock
  /\ \A d \in Channel : Writes(s, d) => s.channel[d].slot # e
  /\ Leads([s.next EXCEPT ![track] = NoBlock], IF mode = "replace" THEN NoBlock ELSE entry.first, q)
  /\ q = <<>> => track = NoBlock
  /\ q # <<>> => track = Last(q) /\ entry.blocks = Len(q) - 1
  /\ \/ mode = "replace" /\ q = <<>> /\ entry = s.dir[e] /\ entry.closed
     \/ /\ mode # "replace" /\ ~entry.closed
        /\ q = IF IsFile(s, e) THEN Path(s, e) ELSE <<>>

\* Then the step keeps the invariant.
LEMMA OpenedKeeps ==
  ASSUME Intact, NEW c \in Channel, channel[c] = Free, NEW e, NEW mode, NEW entry, NEW track,
         NEW buffer, NEW q, NEW base, MayOpen(Now, e, mode, entry, track, q),
         Opened(c, Writer(mode, e, entry, track, buffer), entry, base)
  PROVE  Intact'
<1> PICK s, p : s = Now /\ p = Writer(mode, e, entry, track, buffer)
  OBVIOUS
<1> DEFINE r == [s EXCEPT !.channel[c] = p, !.dir[p.slot] = entry, !.code = "ok"]
<1>1. e \in Slot /\ IsEntry(entry) /\ track \in MaybeBlock
  BY DEF MayOpen
<1>2. /\ IsWriter(p) /\ p.mode = mode /\ p.slot = e /\ p.entry = entry
      /\ p.replacement = NoBlock /\ p.track = track
  BY <1>1, WriterFields
<1>3. Becomes(r) /\ leaky' = leaky
  BY DEF Opened
<1>4. Typed(s) /\ s.channel[c] = Free
  BY NowIs DEF Intact, Sound
<1>5. OpenedTo(s, r, c, p, entry)
  <2>1. p.slot \in Slot
    BY <1>1, <1>2
  <2>2. r = [s EXCEPT !.channel[c] = p, !.dir[p.slot] = entry, !.code = "ok"]
    OBVIOUS
  <2> HIDE DEF r
  <2> QED BY <1>4, <2>1, <2>2, OpenedFields
<1> HIDE DEF r
<1>6. (Replaces(p) <=> mode = "replace") /\ First(p) = IF mode = "replace" THEN NoBlock ELSE entry.first
  BY <1>2 DEF Replaces, First
<1>7. /\ \A d \in Channel : Writes(s, d) => s.channel[d].slot # p.slot
      /\ Leads([s.next EXCEPT ![p.track] = NoBlock], First(p), q)
      /\ q = <<>> => p.track = NoBlock
      /\ q # <<>> => p.track = Last(q) /\ p.entry.blocks = Len(q) - 1
  BY <1>2, <1>6 DEF MayOpen
<1>8. \/ Replaces(p) /\ q = <<>> /\ entry = s.dir[e] /\ entry.closed
      \/ /\ ~Replaces(p) /\ ~entry.closed
         /\ q = IF IsFile(s, e) THEN Path(s, e) ELSE <<>>
  BY <1>6 DEF MayOpen
<1>9. Opens(s, r, c, p, q)
  BY <1>1, <1>2, <1>4, <1>5, <1>7, <1>8 DEF Opens, OpenedTo
<1>10. Sound(r) /\ (Exact(s) => Exact(r))
  BY <1>9, OpensSound DEF Intact
<1> QED BY <1>3, <1>10, StepSound

\* A chain is empty if it starts with no block, and only then.
LEMMA EmptyPath ==
  /\ \A links : Leads(links, NoBlock, <<>>)
  /\ \A links, b : Leads(links, b, <<>>) => b = NoBlock
  BY DEF Leads, IsInjective

\* A new file has an entry that is not closed, and no blocks.
LEMMA OpenNewKeeps ==
  ASSUME Intact, NEW c \in Channel, NEW n, OpenNew(c, n)
  PROVE  Intact'
<1> PICK s, e, entry : /\ s = Now /\ e = Min(FreeSlots)
                       /\ entry = [name |-> n, closed |-> FALSE, first |-> NoBlock, blocks |-> 0]
  OBVIOUS
<1>1. e \in Slot /\ s.dir[e] = NoEntry /\ channel[c] = Free
  BY EntryFound, NowIs DEF OpenNew
<1>2. Opened(c, Writer("new", e, entry, NoBlock, <<>>), entry, <<>>)
  BY DEF OpenNew
<1>3. IsEntry(entry) /\ entry.closed = FALSE /\ entry.first = NoBlock
  <2>1. /\ entry.closed = FALSE /\ entry.first = NoBlock /\ entry.blocks = 0
        /\ entry = [name |-> entry.name, closed |-> entry.closed, first |-> entry.first,
                    blocks |-> entry.blocks]
    OBVIOUS
  <2> QED BY <2>1 DEF IsEntry, MaybeBlock
<1>4. \A d \in Channel : Writes(s, d) => s.channel[d].slot # e
  BY <1>1 DEF Intact, Sound, Channeled, WriterIs
<1>5. ~IsFile(s, e)
  BY <1>1 DEF IsFile
<1>6. MayOpen(s, e, "new", entry, NoBlock, <<>>)
  BY <1>1, <1>3, <1>4, <1>5, EmptyPath DEF MayOpen, MaybeBlock
<1> QED BY <1>1, <1>2, <1>6, OpenedKeeps

\* What is settled is a closed file, and nobody writes it.
LEMMA SettledIs ==
  ASSUME NEW e, e \in Slot, dir[e] # NoEntry, Settled(e)
  PROVE  IsFile(Now, e) /\ \A d \in Channel : Writes(Now, d) => Now.channel[d].slot # e
<1>1. dir[e].closed /\ \A d \in Channel : channel[d] # Free => channel[d].slot # e
  BY DEF Settled, Writers
<1> QED BY <1>1, NowIs DEF IsFile, Writes

\* A file that is replaced stays as it is.
LEMMA OpenReplaceKeeps ==
  ASSUME Intact, NEW c \in Channel, NEW n, OpenReplace(c, n)
  PROVE  Intact'
<1> PICK s, e : s = Now /\ e = Min(Entries(n))
  OBVIOUS
<1>1. e \in Slot /\ dir[e] # NoEntry /\ s.dir[e] = dir[e] /\ channel[c] = Free /\ Settled(e)
  BY EntryFound, NowIs DEF OpenReplace
<1>2. Opened(c, Writer("replace", e, dir[e], NoBlock, <<>>), dir[e], <<>>)
  BY DEF OpenReplace
<1>3. IsFile(s, e) /\ \A d \in Channel : Writes(s, d) => s.channel[d].slot # e
  BY <1>1, SettledIs
<1>4. IsEntry(dir[e]) /\ dir[e].closed
  BY <1>1, <1>3 DEF Intact, Sound, Typed, IsFile
<1>5. MayOpen(s, e, "replace", dir[e], NoBlock, <<>>)
  BY <1>1, <1>3, <1>4, EmptyPath DEF MayOpen, MaybeBlock
<1> QED BY <1>1, <1>2, <1>5, OpenedKeeps

\* What AppendTo makes of a chain.
CountAfter(chain) == IF chain = <<>> THEN 0 ELSE (65535 + Len(chain)) % 65536
TrackAfter(chain) == IF chain = <<>> THEN NoBlock ELSE Last(chain)
BufferAfter(chain) == IF chain = <<>> THEN <<>> ELSE data[Last(chain)]
EntryAfter(e, chain) == [dir[e] EXCEPT !.closed = FALSE, !.blocks = CountAfter(chain)]

\* The same cases in one.
LEMMA AppendIs ==
  ASSUME NEW e, NEW chain, chain = Chain(next, dir[e].first)
  PROVE  AppendTo(e) = Writer("append", e, EntryAfter(e, chain), TrackAfter(chain),
                              BufferAfter(chain))
<1>1. AppendTo(e) =
        IF chain = <<>> THEN Writer("append", e, EntryAfter(e, chain), NoBlock, <<>>)
        ELSE Writer("append", e, EntryAfter(e, chain), Last(chain), data[Last(chain)])
  BY SMT DEF AppendTo, EntryAfter, CountAfter
<1>2. CASE chain = <<>>
  BY <1>1, <1>2, Zenon DEF TrackAfter, BufferAfter
<1>3. CASE chain # <<>>
  BY <1>1, <1>3, Zenon DEF TrackAfter, BufferAfter
<1> QED BY <1>2, <1>3

\* The number of blocks does not wrap around.
LEMMA CountAfterIs ==
  ASSUME NEW chain \in Seq(Block), IsInjective(chain)
  PROVE  CountAfter(chain) \in Nat /\ (chain # <<>> => CountAfter(chain) = Len(chain) - 1)
<1>1. Len(chain) \in Nat /\ Len(chain) < 65536
  BY LengthOfInjective, DiskFilesAssumption
<1>2. CASE chain = <<>>
  BY <1>2 DEF CountAfter
<1>3. CASE chain # <<>>
  <2>1. Len(chain) # 0
    BY <1>3
  <2>2. CountAfter(chain) = (65535 + Len(chain)) % 65536
    BY <1>3 DEF CountAfter
  <2>3. ASSUME NEW m \in Nat, m # 0, m < 65536 PROVE (65535 + m) % 65536 = m - 1
    BY <2>3
  <2>4. CountAfter(chain) = Len(chain) - 1
    BY <1>1, <2>1, <2>2, <2>3
  <2> QED BY <1>1, <2>1, <2>4
<1> QED BY <1>2, <1>3

\* The fields of the entry.
LEMMA EntryAfterIs ==
  ASSUME NEW e, IsEntry(dir[e]), NEW chain, CountAfter(chain) \in Nat
  PROVE  /\ IsEntry(EntryAfter(e, chain)) /\ EntryAfter(e, chain).closed = FALSE
         /\ EntryAfter(e, chain).first = dir[e].first
         /\ EntryAfter(e, chain).blocks = CountAfter(chain)
<1> PICK p, q, k : p = dir[e] /\ q = EntryAfter(e, chain) /\ k = CountAfter(chain)
  OBVIOUS
<1>1. q = [p EXCEPT !.closed = FALSE, !.blocks = k]
  BY DEF EntryAfter
<1>2. p = [name |-> p.name, closed |-> p.closed, first |-> p.first, blocks |-> p.blocks]
  BY DEF IsEntry
<1>3. q = [name |-> p.name, closed |-> FALSE, first |-> p.first, blocks |-> k]
  BY <1>1, <1>2
<1>4. /\ q.closed = FALSE /\ q.first = p.first /\ q.blocks = k
      /\ q = [name |-> q.name, closed |-> q.closed, first |-> q.first, blocks |-> q.blocks]
  BY <1>3
<1>5. p.first \in MaybeBlock
  BY DEF IsEntry
<1>6. IsEntry(q)
  BY <1>4, <1>5 DEF IsEntry
<1> QED BY <1>4, <1>6

\* The last block of a chain links to none already.
LEMMA TrackAfterIs ==
  ASSUME NEW links \in [Block -> MaybeBlock], NEW b, NEW chain, Leads(links, b, chain)
  PROVE  /\ TrackAfter(chain) \in MaybeBlock
         /\ chain = <<>> => TrackAfter(chain) = NoBlock
         /\ chain # <<>> => TrackAfter(chain) = Last(chain)
         /\ Leads([links EXCEPT ![TrackAfter(chain)] = NoBlock], b, chain)
<1>1. chain \in Seq(Block)
  BY DEF Leads
<1>2. chain # <<>> => Last(chain) \in Block /\ links[Last(chain)] = NoBlock
  BY <1>1 DEF Leads, Last
<1> PICK track, other : track = TrackAfter(chain) /\ other = [links EXCEPT ![track] = NoBlock]
  OBVIOUS
<1>3. (chain = <<>> => track = NoBlock) /\ (chain # <<>> => track = Last(chain))
  BY DEF TrackAfter
<1>4. \A x \in Range(chain) : x \in Block /\ chain # <<>>
  BY <1>1 DEF Range
<1>5. \A x \in Range(chain) : other[x] = links[x]
  BY <1>2, <1>3, <1>4
<1>6. Leads(other, b, chain)
  BY <1>5, LeadsElsewhere
<1> QED BY <1>2, <1>3, <1>6 DEF MaybeBlock

\* The channel owns what the file owned.
LEMMA MayAppend ==
  ASSUME NEW s, Sound(s), NEW e, e \in Slot, IsFile(s, e), s.dir = dir, s.next = next,
         \A d \in Channel : Writes(s, d) => s.channel[d].slot # e,
         NEW path, path = Chain(next, dir[e].first)
  PROVE  MayOpen(s, e, "append", EntryAfter(e, path), TrackAfter(path), path)
<1> PICK entry, track : entry = EntryAfter(e, path) /\ track = TrackAfter(path)
  OBVIOUS
<1>1. IsEntry(dir[e]) /\ next \in [Block -> MaybeBlock]
  BY DEF Sound, Typed, IsFile
<1>2. path = Path(s, e) /\ Leads(next, dir[e].first, path)
  <2>1. e \in Owners(s) /\ Links(s, e) = next /\ Start(s, e) = dir[e].first
    BY OwnersAre DEF Links, Start
  <2>2. Path(s, e) = path
    BY <2>1 DEF Path
  <2> QED BY <2>1, <2>2 DEF Sound, Paths
<1>3. CountAfter(path) \in Nat /\ (path # <<>> => CountAfter(path) = Len(path) - 1)
  BY <1>2, CountAfterIs DEF Leads
<1>4. IsEntry(entry) /\ entry.closed = FALSE /\ entry.first = dir[e].first
      /\ entry.blocks = CountAfter(path)
  BY <1>1, <1>3, EntryAfterIs
<1>5. /\ track \in MaybeBlock
      /\ path = <<>> => track = NoBlock
      /\ path # <<>> => track = Last(path)
      /\ Leads([next EXCEPT ![track] = NoBlock], dir[e].first, path)
  BY <1>1, <1>2, TrackAfterIs
<1>6. Leads([s.next EXCEPT ![track] = NoBlock], entry.first, path)
  BY <1>4, <1>5, Zenon
<1>7. "append" # "replace" /\ ~entry.closed
  BY <1>4
<1>8. Leads([s.next EXCEPT ![track] = NoBlock],
            IF "append" = "replace" THEN NoBlock ELSE entry.first, path)
  BY <1>6, <1>7, Zenon
<1>9. path = IF IsFile(s, e) THEN Path(s, e) ELSE <<>>
  BY <1>2, Zenon
<1>10. path # <<>> => track = Last(path) /\ entry.blocks = Len(path) - 1
  BY <1>3, <1>4, <1>5, Zenon
<1>11. MayOpen(s, e, "append", entry, track, path)
  <2>1. \/ "append" = "replace" /\ path = <<>> /\ entry = s.dir[e] /\ entry.closed
        \/ /\ "append" # "replace" /\ ~entry.closed
           /\ path = IF IsFile(s, e) THEN Path(s, e) ELSE <<>>
    BY <1>7, <1>9, Zenon
  <2>2. /\ e \in Slot /\ IsEntry(entry) /\ track \in MaybeBlock
        /\ \A d \in Channel : Writes(s, d) => s.channel[d].slot # e
        /\ path = <<>> => track = NoBlock
    BY <1>4, <1>5, Zenon
  <2> QED BY <1>8, <1>10, <2>1, <2>2, Zenon DEF MayOpen
<1> QED BY <1>11

\* A file that is appended to is no longer closed.
LEMMA OpenAppendKeeps ==
  ASSUME Intact, NEW c \in Channel, NEW n, OpenAppend(c, n)
  PROVE  Intact'
<1> PICK s, e, path : s = Now /\ e = Min(Entries(n)) /\ path = Chain(next, dir[e].first)
  OBVIOUS
<1>1. e \in Slot /\ dir[e] # NoEntry /\ channel[c] = Free /\ Settled(e)
      /\ s.dir = dir /\ s.next = next
  BY EntryFound, NowIs DEF OpenAppend
<1>2. Opened(c, AppendTo(e), AppendTo(e).entry, Content(Now, dir[e].first))
  BY DEF OpenAppend
<1>3. IsFile(s, e) /\ \A d \in Channel : Writes(s, d) => s.channel[d].slot # e
  BY <1>1, SettledIs
<1>4. MayOpen(s, e, "append", EntryAfter(e, path), TrackAfter(path), path)
  BY <1>1, <1>3, MayAppend DEF Intact
<1>5. AppendTo(e) = Writer("append", e, EntryAfter(e, path), TrackAfter(path), BufferAfter(path))
  BY AppendIs
<1>6. AppendTo(e).entry = EntryAfter(e, path)
  BY <1>5 DEF Writer
<1>7. Opened(c, Writer("append", e, EntryAfter(e, path), TrackAfter(path), BufferAfter(path)),
             EntryAfter(e, path), Content(Now, dir[e].first))
  BY <1>2, <1>5, <1>6
<1> QED BY <1>1, <1>4, <1>7, OpenedKeeps

\* PutNext writes a full block, or finds the disk full.
LEMMA PutNextKeeps ==
  ASSUME Intact, NEW c \in Channel, NEW d, PutNext(c, d)
  PROVE  Intact'
<1> PICK s : s = Now
  OBVIOUS
<1>1. Sound(s) /\ Writes(s, c)
  BY NowIs DEF Intact, Writes, PutNext
<1>2. PICK w \in WriteBlock(s, c) :
        Becomes([w.drive EXCEPT !.channel[c].buffer = IF w.ok THEN <<d>> ELSE <<>>])
  BY Zenon DEF PutNext
<1>3. \E t : /\ w.drive = t /\ Sound(t) /\ Writes(t, c) /\ (Exact(s) => Exact(t))
  <2>1. ASSUME NEW t, Sound(t), Writes(t, c)
        PROVE  Sound(Error(t)) /\ Writes(Error(t), c) /\ (Exact(t) => Exact(Error(t)))
    <3>1. Typed(t)
      BY <2>1 DEF Sound
    <3>2. Alike(t, Error(t)) /\ Error(t).channel = t.channel
      BY <3>1, ErrorAlike, ErrorFields DEF Typed
    <3> QED BY <2>1, <3>2, AlikeSound DEF Writes
  <2>2. CASE FirstBlock(s, c) = {}
    <3>1. w = [ok |-> FALSE, drive |-> Error(s)]
      BY <2>2 DEF WriteBlock
    <3>2. w.drive = Error(s)
      BY <3>1
    <3> QED BY <1>1, <2>1, <3>2
  <2>3. CASE FirstBlock(s, c) # {}
    <3>1. PICK t \in FirstBlock(s, c) :
            w \in IF Available(t) = {} THEN {[ok |-> FALSE, drive |-> Error(t)]}
                  ELSE {[ok |-> TRUE, drive |-> LinkTo(t, c, b)] : b \in Available(t)}
      BY <1>2, <2>3, Zenon DEF WriteBlock, LinkTo
    <3>2. Sound(t) /\ Writes(t, c) /\ (Exact(s) => Exact(t)) /\ t.channel[c].track # NoBlock
      BY <1>1, FirstBlockSound
    <3>3. CASE Available(t) = {}
      <4>1. w = [ok |-> FALSE, drive |-> Error(t)]
        BY <3>1, <3>3
      <4>2. w.drive = Error(t)
        BY <4>1
      <4> QED BY <2>1, <3>2, <4>2
    <3>4. CASE Available(t) # {}
      <4>1. PICK b \in Available(t) : w = [ok |-> TRUE, drive |-> LinkTo(t, c, b)]
        BY <3>1, <3>4, Zenon
      <4> PICK u : u = LinkTo(t, c, b)
        OBVIOUS
      <4>2. w.drive = u
        BY <4>1
      <4>3. Sound(u) /\ Writes(u, c) /\ (Exact(t) => Exact(u))
        BY <3>2, LinkSound
      <4> QED BY <3>2, <4>2, <4>3
    <3> QED BY <3>3, <3>4
  <2> QED BY <2>2, <2>3
<1>4. PICK t, x : /\ t = w.drive /\ Sound(t) /\ Writes(t, c) /\ (Exact(s) => Exact(t))
                  /\ x = IF w.ok THEN <<d>> ELSE <<>>
  BY <1>3
<1> DEFINE r == [t EXCEPT !.channel[c].buffer = x]
<1>5. Alike(t, r)
  BY <1>4, BufferAlike DEF Sound
<1>6. Becomes(r) /\ leaky' = leaky
  BY <1>2, <1>4 DEF PutNext, flags
<1> HIDE DEF r
<1>7. Sound(r) /\ (Exact(t) => Exact(r))
  BY <1>4, <1>5, AlikeSound
<1> QED BY <1>4, <1>6, <1>7, StepSound

\* Close writes the last block, the entry and the map.
LEMMA CloseKeeps ==
  ASSUME Intact, NEW c \in Channel, Close(c)
  PROVE  Intact'
<1>1. Writes(Now, c) /\ Sound(Now) /\ leaky' = leaky
  BY NowIs DEF Intact, Writes, Close, flags
<1>2. PICK r \in CloseSequential(Now, c) : Becomes(r)
  BY DEF Close
<1>3. Sound(r) /\ (Exact(Now) => Exact(r))
  BY <1>1, CloseSound
<1> QED BY <1>1, <1>2, <1>3, StepSound

\* The map is written.
LEMMA WriteBamFields ==
  ASSUME NEW s, IsDrive(s)
  PROVE  /\ IsDrive(WriteBam(s)) /\ WriteBam(s).bam = s.bam /\ WriteBam(s).saved = s.bam
         /\ WriteBam(s).dir = s.dir /\ WriteBam(s).next = s.next
         /\ WriteBam(s).channel = s.channel
<1> PICK r : r = WriteBam(s)
  OBVIOUS
<1>1. r = [s EXCEPT !.saved = s.bam]
  BY DEF WriteBam
<1>2. IsDrive(r)
  BY <1>1, Zenon DEF IsDrive
<1>3. r.bam = s.bam /\ r.saved = s.bam /\ r.dir = s.dir /\ r.next = s.next /\ r.channel = s.channel
  BY <1>1 DEF IsDrive
<1> QED BY <1>2, <1>3

\* The chain is freed and the map written.
LEMMA ChainFreedFields ==
  ASSUME NEW e, NEW w, w = ChainFreed(e)
  PROVE  /\ IsDrive(w) /\ w.bam = bam \ FreedChain(Now, dir[e].first) /\ w.saved = w.bam
         /\ w.dir = dir /\ w.next = next /\ w.channel = channel
<1> PICK s, m : s = Now /\ m = bam \ FreedChain(Now, dir[e].first)
  OBVIOUS
<1>1. IsDrive(s) /\ s.bam = bam /\ s.dir = dir /\ s.next = next /\ s.channel = channel
  BY NowIs
<1> PICK u : u = [s EXCEPT !.bam = m, !.code = "ok"]
  OBVIOUS
<1>2. w = WriteBam(u)
  BY <1>1 DEF ChainFreed
<1>3. IsDrive(u)
  BY <1>1, Zenon DEF IsDrive
<1>4. u.bam = m /\ u.dir = s.dir /\ u.next = s.next /\ u.channel = s.channel
  BY <1>1 DEF IsDrive
<1>5. IsDrive(w) /\ w.bam = u.bam /\ w.saved = u.bam /\ w.dir = u.dir /\ w.next = u.next
      /\ w.channel = u.channel
  BY <1>2, <1>3, WriteBamFields
<1> QED BY <1>1, <1>4, <1>5

\* The entry is cleared then.
LEMMA ScratchFields ==
  ASSUME NEW e \in Slot, NEW r, r = [ChainFreed(e) EXCEPT !.dir[e] = NoEntry]
  PROVE  /\ IsDrive(r) /\ r.bam = bam \ FreedChain(Now, dir[e].first) /\ r.saved = r.bam
         /\ r.dir = [dir EXCEPT ![e] = NoEntry] /\ r.next = next /\ r.channel = channel
<1> PICK w : w = ChainFreed(e)
  OBVIOUS
<1>1. /\ IsDrive(w) /\ w.bam = bam \ FreedChain(Now, dir[e].first) /\ w.saved = w.bam
      /\ w.dir = dir /\ w.next = next /\ w.channel = channel
  BY ChainFreedFields
<1>2. r = [w EXCEPT !.dir[e] = NoEntry]
  OBVIOUS
<1>3. IsDrive(r)
  BY <1>1, <1>2, Zenon DEF IsDrive
<1>4. r.bam = w.bam /\ r.saved = w.saved /\ r.dir = [w.dir EXCEPT ![e] = NoEntry]
      /\ r.next = w.next /\ r.channel = w.channel
  BY <1>1, <1>2 DEF IsDrive
<1> QED BY <1>1, <1>3, <1>4

\* What Scratch leaves.
LEMMA ScratchedIs ==
  ASSUME NEW n, Scratch(n)
  PROVE  \E e : /\ e \in Slot /\ dir[e] # NoEntry /\ Settled(e) /\ IsDrive(Now')
                /\ Now'.bam = bam \ FreedChain(Now, dir[e].first) /\ Now'.saved = Now'.bam
                /\ Now'.dir = [dir EXCEPT ![e] = NoEntry] /\ Now'.next = next
                /\ Now'.channel = channel /\ leaky' = leaky
<1> PICK e : e = Min(Entries(n))
  OBVIOUS
<1> PICK r : r = [ChainFreed(e) EXCEPT !.dir[e] = NoEntry]
  OBVIOUS
<1>1. Becomes(r) /\ leaky' = leaky
  BY DEF Scratch, flags
<1>2. e \in Slot /\ dir[e] # NoEntry /\ Settled(e)
  BY EntryFound DEF Scratch
<1>3. /\ IsDrive(r) /\ r.bam = bam \ FreedChain(Now, dir[e].first) /\ r.saved = r.bam
      /\ r.dir = [dir EXCEPT ![e] = NoEntry] /\ r.next = next /\ r.channel = channel
  <2>1. e \in Slot
    BY <1>2
  <2>2. r = [ChainFreed(e) EXCEPT !.dir[e] = NoEntry]
    OBVIOUS
  <2> QED BY <2>1, <2>2, ScratchFields
<1>4. Now' = r
  <2>1. IsDrive(r) /\ Becomes(r)
    BY <1>1, <1>3
  <2> QED BY <2>1, BecomesIs, Zenon
<1> QED BY <1>1, <1>2, <1>3, <1>4, Zenon

\* It frees the chain, writes the map and clears the entry.
LEMMA ScratchKeeps ==
  ASSUME Intact, NEW n, Scratch(n)
  PROVE  Intact'
<1> PICK s, r : s = Now /\ r = Now'
  OBVIOUS
<1>1. PICK e : /\ e \in Slot /\ dir[e] # NoEntry /\ Settled(e) /\ IsDrive(r)
               /\ r.bam = bam \ FreedChain(Now, dir[e].first) /\ r.saved = r.bam
               /\ r.dir = [dir EXCEPT ![e] = NoEntry] /\ r.next = next
               /\ r.channel = channel /\ leaky' = leaky
  BY ScratchedIs
<1>2. /\ s.bam = bam /\ s.dir = dir /\ s.next = next /\ s.channel = channel
      /\ IsFile(s, e) /\ (\A c \in Channel : Writes(s, c) => s.channel[c].slot # e)
      /\ Sound(s)
  BY <1>1, SettledIs, NowIs DEF Intact
<1>3. Scratches(s, r, e)
  BY <1>1, <1>2 DEF Scratches
<1>4. Sound(r) /\ (Exact(s) => Exact(r))
  BY <1>2, <1>3, ScratchSound
<1> QED BY <1>1, <1>4 DEF Intact

\* The map is read again, after the channels of a drive have been closed.
LEMMA RereadsFields ==
  ASSUME NEW s, IsDrive(s), NEW r,
         \/ r = [s EXCEPT !.bam = s.saved, !.code = "ok"]
         \/ r = [s EXCEPT !.bam = s.saved],
         s.channel = [c \in Channel |-> Free]
  PROVE  Rereads(s, r)
<1>1. IsDrive(r)
  BY DEF IsDrive
<1>2. /\ r.bam = s.saved /\ r.saved = s.saved /\ r.dir = s.dir /\ r.next = s.next
      /\ r.channel = s.channel
  BY DEF IsDrive
<1> QED BY <1>1, <1>2 DEF Rereads

\* The invariant survives, because closing has written the map.
LEMMA RereadKeeps ==
  ASSUME Intact, leaky' = leaky, NEW s \in CloseAllChannels(Now), NEW r, Becomes(r),
         \/ r = [s EXCEPT !.bam = s.saved, !.code = "ok"]
         \/ r = [s EXCEPT !.bam = s.saved]
  PROVE  Intact'
<1>1. /\ Sound(s) /\ (Exact(Now) => Exact(s)) /\ \A c \in Channel : s.channel[c] = Free
  BY CloseAllSound DEF Intact
<1>2. IsDrive(s) /\ s.channel = [c \in Channel |-> s.channel[c]]
  BY <1>1 DEF Sound, Typed
<1>3. s.channel = [c \in Channel |-> Free]
  BY <1>1, <1>2
<1>4. Rereads(s, r)
  BY <1>2, <1>3, RereadsFields
<1>5. Sound(r) /\ (Exact(s) => Exact(r))
  BY <1>1, <1>4, RereadSound
<1> QED BY <1>1, <1>5, StepSound

\* Initialize is one such command,
LEMMA InitializeKeeps ==
  ASSUME Intact, Initialize
  PROVE  Intact'
<1>1. PICK s \in CloseAllChannels(Now) : Becomes([s EXCEPT !.bam = s.saved, !.code = "ok"])
  BY DEF Initialize
<1>2. leaky' = leaky
  BY DEF Initialize, flags
<1> PICK r : r = [s EXCEPT !.bam = s.saved, !.code = "ok"]
  OBVIOUS
<1> QED BY <1>1, <1>2, RereadKeeps

\* and Detach another.
LEMMA DetachKeeps ==
  ASSUME Intact, Detach
  PROVE  Intact'
<1>1. PICK s \in CloseAllChannels(Now) : Becomes([s EXCEPT !.bam = s.saved])
  BY DEF Detach
<1>2. leaky' = leaky
  BY DEF Detach, flags
<1> PICK r : r = [s EXCEPT !.bam = s.saved]
  OBVIOUS
<1> QED BY <1>1, <1>2, RereadKeeps

\* A kill leaves what the image has.
LEMMA EndsIs ==
  ASSUME NEW s, IsDrive(s), NEW lost, NEW cut, Ends(s, lost, cut)
  PROVE  Rereads(s, Now') /\ leaky' = (leaky \/ lost) /\ torn' = (torn \/ cut)
<1> DEFINE none == [c \in Channel |-> Free]
<1> PICK r : r = [s EXCEPT !.bam = s.saved, !.channel = none, !.code = "ok"]
  OBVIOUS
<1>1. Becomes(r) /\ leaky' = (leaky \/ lost) /\ torn' = (torn \/ cut)
  BY DEF Ends
<1> HIDE DEF none
<1>2. IsDrive(r)
  BY DEF IsDrive
<1>3. r.bam = s.saved /\ r.saved = s.saved /\ r.dir = s.dir /\ r.next = s.next /\ r.channel = none
  BY DEF IsDrive
<1>4. Rereads(s, r)
  BY <1>2, <1>3 DEF Rereads, none
<1>5. Now' = r
  BY <1>1, <1>2, BecomesIs
<1> QED BY <1>1, <1>4, <1>5

\* Between two commands it loses the blocks of open channels, and admits it.
LEMMA KillKeeps ==
  ASSUME Intact, Kill
  PROVE  Intact'
<1>1. IsDrive(Now) /\ Sound(Now) /\ Now.channel = channel
  BY NowIs DEF Intact
<1>2. Rereads(Now, Now') /\ leaky' = (leaky \/ Writing # {})
  BY <1>1, EndsIs DEF Kill
<1>3. Sound(Now') /\ (Exact(Now) /\ (\A c \in Channel : Now.channel[c] = Free) => Exact(Now'))
  BY <1>1, <1>2, RereadSound
<1>4. ~leaky' => Exact(Now) /\ \A c \in Channel : Now.channel[c] = Free
  BY <1>1, <1>2 DEF Intact, Writing
<1> QED BY <1>3, <1>4 DEF Intact

\* What a copy makes of the drive.
CopyOf(chain, full, d) ==
  /\ IsDrive(d) /\ d.bam = bam \cup Range(chain) /\ d.saved = saved /\ d.dir = dir
  /\ d.channel = channel /\ d.next \in [Block -> MaybeBlock]
  /\ \A b \in bam : d.next[b] = next[b]
  /\ ~full => Leads(d.next, IF chain = <<>> THEN NoBlock ELSE chain[1], chain)

\* That is what CopyBlocks returns.
LEMMA CopyBlocksIs ==
  ASSUME bam \in SUBSET Block, next \in [Block -> MaybeBlock], NEW from,
         NEW chain \in Seq(Block), IsInjective(chain), Range(chain) \cap bam = {}
  PROVE  \E full, d : /\ full \in BOOLEAN /\ CopyOf(chain, full, d)
                       /\ CopyBlocks(from, chain) = [full |-> full, drive |-> d]
<1> PICK s, portions : /\ s = Now
      /\ portions = Portions(FlattenSeq([i \in DOMAIN from |-> Content(Now, dir[from[i]].first)]))
  OBVIOUS
<1> DEFINE full == Len(chain) < Len(portions)
           written == IF full THEN 1 .. Len(chain) - 1 ELSE DOMAIN chain
           At(b) == CHOOSE i \in written : chain[i] = b
           Has(b) == \E i \in written : chain[i] = b
           links == [b \in Block |-> IF ~Has(b) THEN s.next[b]
                                     ELSE IF At(b) = Len(chain) THEN NoBlock
                                     ELSE chain[At(b) + 1]]
           contents == [b \in Block |-> IF Has(b) THEN portions[At(b)] ELSE s.data[b]]
           taken == s.bam \cup Range(chain)
           d == [s EXCEPT !.bam = taken, !.next = links, !.data = contents]
<1>1. CopyBlocks(from, chain) = [full |-> full, drive |-> d]
  BY DEF CopyBlocks
<1>2. full \in BOOLEAN
  OBVIOUS
<1>3. \E k \in 0 .. Len(chain) : written = 1 .. k /\ (~full => k = Len(chain))
  <2>1. Len(chain) \in Nat /\ DOMAIN chain = 1 .. Len(chain)
    OBVIOUS
  <2>2. written = IF full THEN 1 .. Len(chain) - 1 ELSE 1 .. Len(chain)
    BY <2>1
  <2> HIDE DEF written, full
  <2>3. CASE ~full
    <3>1. written = 1 .. Len(chain) /\ Len(chain) \in 0 .. Len(chain)
      BY <2>1, <2>2, <2>3
    <3> QED BY <2>3, <3>1
  <2>4. CASE full /\ Len(chain) = 0
    <3>1. written = 1 .. 0
      BY <2>2, <2>4
    <3> QED BY <2>1, <2>4, <3>1
  <2>5. CASE full /\ Len(chain) # 0
    <3>1. written = 1 .. Len(chain) - 1 /\ Len(chain) - 1 \in 0 .. Len(chain)
      BY <2>1, <2>2, <2>5
    <3> QED BY <2>5, <3>1
  <2> QED BY <2>3, <2>4, <2>5
<1>4. PICK k \in 0 .. Len(chain) : written = 1 .. k /\ (~full => k = Len(chain))
  BY <1>3
<1> HIDE DEF written, full
<1>5. \A b \in Block : Has(b) => At(b) \in 1 .. k /\ chain[At(b)] = b
  BY <1>4
<1>6. links = [b \in Block |-> IF ~(\E i \in 1 .. k : chain[i] = b) THEN s.next[b]
                               ELSE IF At(b) = Len(chain) THEN NoBlock
                               ELSE chain[At(b) + 1]]
  BY <1>4
<1> DEFINE at == [b \in Block |-> At(b)]
<1>7. \A b \in Block : at[b] = At(b)
  OBVIOUS
<1> HIDE DEF At, links, at
<1>8. \A b \in Block : (\E i \in 1 .. k : chain[i] = b) => at[b] \in 1 .. k /\ chain[at[b]] = b
  BY <1>4, <1>5, <1>7
<1>9. links = [b \in Block |-> IF ~(\E i \in 1 .. k : chain[i] = b) THEN s.next[b]
                               ELSE IF at[b] = Len(chain) THEN NoBlock
                               ELSE chain[at[b] + 1]]
  BY <1>6, <1>7
<1>10. s.next = next /\ s.bam = bam /\ s.saved = saved /\ s.dir = dir /\ s.channel = channel
       /\ IsDrive(s)
  BY NowIs
<1>11. s.next \in [Block -> MaybeBlock]
  BY <1>10
<1>12. LeadsThrough(s.next, links, chain, k)
  BY <1>4, <1>8, <1>9, <1>11, CopyLinks
<1> HIDE DEF contents, taken
<1>13. IsDrive(d)
  <2>1. d = [s EXCEPT !.bam = taken, !.next = links, !.data = contents]
    OBVIOUS
  <2> HIDE DEF d
  <2> QED BY <1>10, <2>1 DEF IsDrive
<1>14. d.bam = taken /\ d.saved = s.saved /\ d.dir = s.dir /\ d.channel = s.channel /\ d.next = links
  BY <1>10 DEF IsDrive
<1> HIDE DEF d
<1>15. CopyOf(chain, full, d)
  <2>1. \A b \in bam : d.next[b] = next[b]
    BY <1>10, <1>12, <1>14 DEF LeadsThrough
  <2>2. ~full => Leads(d.next, IF chain = <<>> THEN NoBlock ELSE chain[1], chain)
    BY <1>4, <1>12, <1>14 DEF LeadsThrough
  <2>3. d.bam = bam \cup Range(chain)
    BY <1>10, <1>14 DEF taken
  <2> QED BY <1>10, <1>12, <1>13, <1>14, <2>1, <2>2, <2>3 DEF CopyOf, LeadsThrough
<1> QED BY <1>1, <1>2, <1>15

\* The entry of a copy is written.
EnteredTo(s, r, e, entry) ==
  /\ IsDrive(r) /\ r.bam = s.bam /\ r.saved = s.saved /\ r.next = s.next
  /\ r.channel = s.channel /\ r.dir[e] = entry
  /\ r.dir = [f \in Slot |-> IF f = e THEN r.dir[e] ELSE s.dir[f]]

\* That is what the record says.
LEMMA EnteredFields ==
  ASSUME NEW s, IsDrive(s), s.dir = [f \in Slot |-> s.dir[f]], NEW e \in Slot, NEW entry,
         NEW r, r = [s EXCEPT !.dir[e] = entry, !.code = "ok"]
  PROVE  EnteredTo(s, r, e, entry)
<1>1. IsDrive(r)
  BY Zenon DEF IsDrive
<1>2. /\ r.bam = s.bam /\ r.saved = s.saved /\ r.next = s.next /\ r.channel = s.channel
      /\ r.dir = [s.dir EXCEPT ![e] = entry]
  BY DEF IsDrive
<1> PICK entries : entries = r.dir
  OBVIOUS
<1>3. entries[e] = entry /\ entries = [f \in Slot |-> IF f = e THEN entries[e] ELSE s.dir[f]]
  <2>1. entries = [s.dir EXCEPT ![e] = entry]
    BY <1>2
  <2> QED BY <2>1
<1> QED BY <1>1, <1>2, <1>3 DEF EnteredTo

\* The chains that a copy may take are of free blocks,
LEMMA ChainsAre ==
  ASSUME NEW names, NEW chain \in CopyChains(names)
  PROVE  /\ chain \in Seq(Block) /\ IsInjective(chain) /\ Range(chain) \subseteq Block \ bam
         /\ Len(chain) \in Nat /\ (chain # <<>> => chain[1] \in Block)
<1>1. chain \in SeqOf(Available(Now), Cardinality(Available(Now))) /\ IsInjective(chain)
  BY Zenon DEF CopyChains
<1>2. Available(Now) = Block \ bam
  BY NowIs DEF Available
<1>3. PICK m \in 0 .. Cardinality(Available(Now)) : chain \in [1 .. m -> Available(Now)]
  BY <1>1 DEF SeqOf
<1>4. m \in Nat
  OBVIOUS
<1>5. chain \in Seq(Available(Now))
  BY <1>3, <1>4
<1>6. chain \in Seq(Block) /\ Range(chain) \subseteq Block \ bam
  BY <1>2, <1>5 DEF Range
<1> QED BY <1>1, <1>6

\* and so the copy's blocks are a chain.
LEMMA CopyIs ==
  ASSUME Intact, NEW names, NEW chain \in CopyChains(names)
  PROVE  \E d : CopyTo(names, chain).drive = d /\ CopyOf(chain, CopyTo(names, chain).full, d)
<1> PICK from : from = [i \in DOMAIN names |-> Min(Entries(names[i]))]
  OBVIOUS
<1>1. CopyTo(names, chain) = CopyBlocks(from, chain)
  BY DEF CopyTo
<1>2. bam \in SUBSET Block /\ next \in [Block -> MaybeBlock]
  BY NowIs DEF Intact, Sound, Typed
<1>3. chain \in Seq(Block) /\ IsInjective(chain) /\ Range(chain) \cap bam = {}
  BY ChainsAre
<1>4. PICK full, d : /\ full \in BOOLEAN /\ CopyOf(chain, full, d)
                     /\ CopyBlocks(from, chain) = [full |-> full, drive |-> d]
  BY <1>2, <1>3, CopyBlocksIs
<1>5. CopyTo(names, chain).full = full /\ CopyTo(names, chain).drive = d
  BY <1>1, <1>4
<1> QED BY <1>4, <1>5

\* With the entry and the map the copy is a file.
LEMMA CopyMade ==
  ASSUME Intact, NEW n, NEW names, MayCopy(n, names), NEW chain \in CopyChains(names),
         ~CopyTo(names, chain).full, NEW y, y = CopyEntered(n, names, chain)
  PROVE  /\ IsDrive(y) /\ y.saved = saved /\ y.channel = channel
         /\ Copies(Now, WriteBam(y), Min(FreeSlots), chain, TRUE)
<1> PICK s, e : s = Now /\ e = Min(FreeSlots)
  OBVIOUS
<1> PICK entry : entry = [name |-> n, closed |-> TRUE, blocks |-> Len(chain),
                          first |-> IF chain = <<>> THEN NoBlock ELSE chain[1]]
  OBVIOUS
<1>1. /\ Typed(s) /\ e \in Slot /\ dir[e] = NoEntry
      /\ s.bam = bam /\ s.saved = saved /\ s.dir = dir /\ s.next = next /\ s.channel = channel
  BY EntryFound, NowIs DEF MayCopy, Intact, Sound
<1>2. /\ chain \in Seq(Block) /\ Range(chain) \subseteq Block \ bam /\ Len(chain) \in Nat
      /\ (chain # <<>> => chain[1] \in Block)
  BY ChainsAre
<1>3. PICK d : CopyTo(names, chain).drive = d /\ CopyOf(chain, FALSE, d)
  <2>1. PICK d : CopyTo(names, chain).drive = d /\ CopyOf(chain, CopyTo(names, chain).full, d)
    BY CopyIs
  <2>2. CopyOf(chain, FALSE, d)
    BY <2>1 DEF CopyOf
  <2> QED BY <2>1, <2>2
<1>4. /\ IsDrive(d) /\ d.bam = bam \cup Range(chain) /\ d.saved = saved /\ d.dir = dir
      /\ d.channel = channel /\ d.next \in [Block -> MaybeBlock]
      /\ \A b \in bam : d.next[b] = next[b]
      /\ Leads(d.next, IF chain = <<>> THEN NoBlock ELSE chain[1], chain)
  BY <1>3 DEF CopyOf
<1>5. y = [d EXCEPT !.dir[e] = entry, !.code = "ok"]
  BY <1>3 DEF CopyEntered
<1>6. EnteredTo(d, y, e, entry)
  <2>1. IsDrive(d) /\ e \in Slot /\ d.dir = [f \in Slot |-> d.dir[f]]
    BY <1>1, <1>4 DEF Typed
  <2> QED BY <1>5, <2>1, EnteredFields, Zenon
<1>7. /\ IsDrive(y) /\ y.bam = d.bam /\ y.saved = d.saved /\ y.next = d.next
      /\ y.channel = d.channel /\ y.dir[e] = entry
      /\ y.dir = [f \in Slot |-> IF f = e THEN y.dir[e] ELSE d.dir[f]]
  BY <1>6 DEF EnteredTo
<1> PICK r : r = WriteBam(y)
  OBVIOUS
<1>8. /\ IsDrive(r) /\ r.bam = y.bam /\ r.saved = y.bam /\ r.dir = y.dir /\ r.next = y.next
      /\ r.channel = y.channel
  BY <1>7, WriteBamFields
<1>9. IsEntry(entry) /\ entry.closed /\ entry.blocks = Len(chain)
      /\ entry.first = IF chain = <<>> THEN NoBlock ELSE chain[1]
  <2> PICK f, k : f = (IF chain = <<>> THEN NoBlock ELSE chain[1]) /\ k = Len(chain)
    OBVIOUS
  <2>1. f \in MaybeBlock /\ k \in Nat
    BY <1>2 DEF MaybeBlock
  <2>2. entry = [name |-> n, closed |-> TRUE, first |-> f, blocks |-> k]
    OBVIOUS
  <2>3. IsEntry(entry) /\ entry.closed /\ entry.first = f /\ entry.blocks = k
    BY <2>1, <2>2, EntryMade
  <2> QED BY <2>3
<1>10. Copies(s, r, e, chain, TRUE)
  <2>1. Leads(r.next, r.dir[e].first, chain)
    BY <1>4, <1>7, <1>8, <1>9
  <2>2. /\ r.bam = s.bam \cup Range(chain) /\ r.channel = s.channel /\ r.saved = r.bam
        /\ r.next \in [Block -> MaybeBlock] /\ \A b \in s.bam : r.next[b] = s.next[b]
    BY <1>1, <1>4, <1>7, <1>8
  <2>3. /\ IsEntry(r.dir[e]) /\ r.dir[e].closed /\ r.dir[e].blocks = Len(chain)
        /\ r.dir = [f \in Slot |-> IF f = e THEN r.dir[e] ELSE s.dir[f]]
    BY <1>1, <1>4, <1>7, <1>8, <1>9
  <2>4. chain \in Seq(Block) /\ Range(chain) \subseteq Block \ s.bam
    BY <1>1, <1>2
  <2>5. e \in Slot /\ s.dir[e] = NoEntry /\ IsDrive(r)
    BY <1>1, <1>8
  <2> QED BY <2>1, <2>2, <2>3, <2>4, <2>5, Zenon DEF Copies
<1> QED BY <1>4, <1>7, <1>10

\* Copy, on a full disk and otherwise.
LEMMA CopyKeeps ==
  ASSUME Intact, NEW n, NEW names, Copy(n, names)
  PROVE  Intact'
<1> PICK s, e : s = Now /\ e = Min(FreeSlots)
  OBVIOUS
<1>1. MayCopy(n, names) /\ Sound(s)
  BY DEF Copy, Intact
<1>2. PICK chain \in CopyChains(names) :
        IF CopyTo(names, chain).full
        THEN Becomes(Error(CopyTo(names, chain).drive)) /\ leaky' = TRUE
        ELSE Becomes(WriteBam(CopyEntered(n, names, chain))) /\ UNCHANGED leaky
  BY Zenon DEF Copy
<1>3. CASE CopyTo(names, chain).full
  <2>1. PICK d : CopyTo(names, chain).drive = d /\ CopyOf(chain, CopyTo(names, chain).full, d)
    BY CopyIs
  <2>2. /\ IsDrive(d) /\ d.bam = bam \cup Range(chain) /\ d.saved = saved /\ d.dir = dir
        /\ d.channel = channel /\ d.next \in [Block -> MaybeBlock]
        /\ \A b \in bam : d.next[b] = next[b]
    BY <2>1 DEF CopyOf
  <2> PICK r : r = Error(d)
    OBVIOUS
  <2>3. Becomes(r) /\ leaky' = TRUE
    BY <1>2, <1>3, <2>1
  <2>4. /\ IsDrive(r) /\ r.bam = d.bam /\ r.saved = d.saved /\ r.dir = d.dir /\ r.next = d.next
        /\ r.channel = d.channel
    BY <2>2, ErrorFields
  <2>5. Copies(s, r, e, chain, FALSE)
    BY <2>2, <2>4, ChainsAre, NowIs DEF Copies
  <2>6. Sound(r)
    BY <1>1, <2>5, CopySound
  <2>7. Now' = r
    BY <2>3, <2>4, BecomesIs
  <2> QED BY <2>3, <2>6, <2>7 DEF Intact
<1>4. CASE ~CopyTo(names, chain).full
  <2> PICK y, r : y = CopyEntered(n, names, chain) /\ r = WriteBam(y)
    OBVIOUS
  <2>1. Becomes(r) /\ leaky' = leaky
    BY <1>2, <1>4
  <2>2. Copies(s, r, e, chain, TRUE)
    BY <1>1, <1>4, CopyMade
  <2>3. Sound(r) /\ (Exact(s) => Exact(r))
    BY <1>1, <2>2, CopySound
  <2> QED BY <2>1, <2>3, StepSound
<1> QED BY <1>3, <1>4

\* Validating the disk goes through the entries, one after the other.
ValidateFrom(s) == [ok |-> TRUE, drive |-> [s EXCEPT !.bam = {}]]
ValidateNext(r, n) ==
  LET entry == r.drive.dir[n]
      chain == AllocateChain(r.drive, entry.first)
  IN IF ~r.ok \/ entry = NoEntry THEN r
     ELSE IF ~entry.closed THEN [r EXCEPT !.drive.dir[n] = NoEntry]
     ELSE IF ~chain.ok THEN [r EXCEPT !.ok = FALSE]
     ELSE [r EXCEPT !.drive.bam = @ \cup chain.taken, !.drive.dir[n].blocks = chain.blocks]
ValidatedTo(f, s, m) ==
  f = [n \in 0 .. m |-> IF n = 0 THEN ValidateFrom(s) ELSE ValidateNext(f[n - 1], n)]

\* That is what the worker does.
LEMMA ValidateDefined ==
  ASSUME NEW s
  PROVE  ValidatedTo(Validated(s), s, Slots)
<1> DEFINE T == {m \in Nat : \E f : ValidatedTo(f, s, m)}
           H == CHOOSE f : ValidatedTo(f, s, Slots)
<1>1. 0 \in T
  <2> DEFINE f == [n \in 0 .. 0 |-> ValidateFrom(s)]
  <2>1. ValidatedTo(f, s, 0)
    BY DEF ValidatedTo
  <2> QED BY <2>1
<1>2. ASSUME NEW m \in Nat, m \in T PROVE m + 1 \in T
  <2>1. PICK f : ValidatedTo(f, s, m)
    BY <1>2
  <2> DEFINE g == [n \in 0 .. m + 1 |-> IF n = m + 1 THEN ValidateNext(f[m], n) ELSE f[n]]
  <2>2. ASSUME NEW n \in 0 .. m + 1, n # 0 PROVE g[n] = ValidateNext(g[n - 1], n)
    <3>1. n - 1 \in 0 .. m + 1 /\ n - 1 # m + 1 /\ (n = m + 1 => n - 1 = m)
      BY <2>2
    <3>2. g[n - 1] = f[n - 1]
      BY <3>1
    <3>3. n # m + 1 => n \in 0 .. m
      OBVIOUS
    <3>4. n # m + 1 => f[n] = ValidateNext(f[n - 1], n)
      BY <2>1, <2>2, <3>3 DEF ValidatedTo
    <3> QED BY <3>1, <3>2, <3>4
  <2>3. g[0] = ValidateFrom(s) /\ g = [n \in 0 .. m + 1 |-> g[n]]
    BY <2>1 DEF ValidatedTo
  <2> HIDE DEF g
  <2>4. ValidatedTo(g, s, m + 1)
    BY <2>2, <2>3 DEF ValidatedTo
  <2> QED BY <2>4
<1>3. Slots \in T
  <2> HIDE DEF T
  <2>1. Nat \subseteq T
    BY <1>1, <1>2, Induction
  <2> QED BY <2>1, DiskFilesAssumption
<1>4. ValidatedTo(H, s, Slots)
  BY <1>3, Zenon
<1>5. Validated(s) = H
  BY DEF Validated, ValidatedTo, ValidateFrom, ValidateNext
<1> QED BY <1>4, <1>5

\* The drive d after the first n entries: what they are, the blocks allocated in memory,
\* and the map m that the image still has.
Checked(s, p, e) ==
  IF IsFile(s, e)
  THEN IsEntry(p) /\ p.closed /\ p.first = s.dir[e].first /\ p.blocks = Len(Path(s, e))
  ELSE p = NoEntry
OwnedUpto(s, n) == UNION {Owned(s, e) : e \in {f \in Slot : f <= n /\ IsFile(s, f)}}
Valid(s, d, n, m) ==
  /\ IsDrive(d) /\ d.saved = m /\ d.next = s.next /\ d.channel = s.channel
  /\ d.dir = [e \in Slot |-> d.dir[e]]
  /\ \A e \in Slot : e > n => d.dir[e] = s.dir[e]
  /\ \A e \in Slot : e <= n => Checked(s, d.dir[e], e)
  /\ d.bam = OwnedUpto(s, n)

\* The directory and the links decide which files a drive has.
SameFiles(s, w) == w.dir = s.dir /\ w.next = s.next /\ w.channel = s.channel

\* Before the first entry nothing is allocated.
LEMMA ValidFrom ==
  ASSUME NEW s, Typed(s), NEW w, IsDrive(w), SameFiles(s, w)
  PROVE  \E d : ValidateFrom(w) = [ok |-> TRUE, drive |-> d] /\ Valid(s, d, 0, w.saved)
<1> PICK d : d = [w EXCEPT !.bam = {}]
  OBVIOUS
<1>1. ValidateFrom(w) = [ok |-> TRUE, drive |-> d]
  BY DEF ValidateFrom
<1>2. s.dir = [e \in Slot |-> s.dir[e]]
  BY DEF Typed
<1>3. IsDrive(d)
  BY Zenon DEF IsDrive
<1>4. /\ d.bam = {} /\ d.saved = w.saved /\ d.dir = w.dir /\ d.next = w.next
      /\ d.channel = w.channel
  BY DEF IsDrive
<1>5. \A e \in Slot : ~ (e <= 0)
  BY DiskFilesAssumption DEF Slot
<1>6. Valid(s, d, 0, w.saved)
  BY <1>2, <1>3, <1>4, <1>5 DEF Valid, OwnedUpto, SameFiles
<1> QED BY <1>1, <1>6

\* An entry whose file is deleted, or whose blocks are allocated and counted.
Deletes(d, x, n) ==
  /\ IsDrive(x) /\ x.bam = d.bam /\ x.saved = d.saved /\ x.next = d.next
  /\ x.channel = d.channel /\ x.dir = [e \in Slot |-> IF e = n THEN NoEntry ELSE d.dir[e]]
Counts(d, x, n, b, k) ==
  /\ IsDrive(x) /\ x.bam = d.bam \cup b /\ x.saved = d.saved /\ x.next = d.next
  /\ x.channel = d.channel /\ x.dir = [e \in Slot |-> IF e = n THEN x.dir[n] ELSE d.dir[e]]
  /\ IsEntry(x.dir[n]) /\ x.dir[n].closed = d.dir[n].closed
  /\ x.dir[n].first = d.dir[n].first /\ x.dir[n].blocks = k

\* The case of a file that is not closed.
LEMMA DeletedFields ==
  ASSUME NEW r, NEW d, r = [ok |-> TRUE, drive |-> d], IsDrive(d),
         NEW n \in Slot, d.dir = [e \in Slot |-> d.dir[e]],
         NEW t, t = [r EXCEPT !.drive.dir[n] = NoEntry]
  PROVE  \E x : t = [ok |-> TRUE, drive |-> x] /\ Deletes(d, x, n)
<1> PICK x : x = [d EXCEPT !.dir[n] = NoEntry]
  OBVIOUS
<1>1. t = [ok |-> TRUE, drive |-> x]
  OBVIOUS
<1>2. IsDrive(x)
  BY Zenon DEF IsDrive
<1>3. x.bam = d.bam /\ x.saved = d.saved /\ x.next = d.next /\ x.channel = d.channel
      /\ x.dir = [d.dir EXCEPT ![n] = NoEntry]
  BY DEF IsDrive
<1>4. x.dir = [e \in Slot |-> IF e = n THEN NoEntry ELSE d.dir[e]]
  BY <1>3
<1> QED BY <1>1, <1>2, <1>3, <1>4 DEF Deletes

\* The case of one that is.
HasSlots(d) == d.dir = [e \in Slot |-> d.dir[e]]
IsOk(r, d) == r = [ok |-> TRUE, drive |-> d]
Counting(r, n, b, k) == [r EXCEPT !.drive.bam = @ \cup b, !.drive.dir[n].blocks = k]

LEMMA CountedFields ==
  ASSUME NEW r, NEW d, IsOk(r, d), IsDrive(d),
         NEW n \in Slot, HasSlots(d), IsEntry(d.dir[n]),
         NEW b, NEW k \in Nat,
         NEW t, t = Counting(r, n, b, k)
  PROVE  \E x : IsOk(t, x) /\ Counts(d, x, n, b, k)
<1> PICK m : m = d.bam \cup b
  OBVIOUS
<1> PICK x : x = [d EXCEPT !.bam = m, !.dir[n].blocks = k]
  BY Zenon
<1>1. IsOk(t, x)
  BY DEF Counting, IsOk
<1>2. IsDrive(x)
  BY Zenon DEF IsDrive
<1>3. x.bam = m /\ x.saved = d.saved /\ x.next = d.next /\ x.channel = d.channel
      /\ x.dir = [d.dir EXCEPT ![n].blocks = k]
  BY DEF IsDrive
<1> PICK p, q : p = d.dir[n] /\ q = x.dir[n]
  OBVIOUS
<1>4. q = [p EXCEPT !.blocks = k] /\ x.dir = [e \in Slot |-> IF e = n THEN q ELSE d.dir[e]]
  BY <1>3 DEF HasSlots
<1>5. p = [name |-> p.name, closed |-> p.closed, first |-> p.first, blocks |-> p.blocks]
  BY DEF IsEntry
<1>6. q = [name |-> p.name, closed |-> p.closed, first |-> p.first, blocks |-> k]
  BY <1>4, <1>5
<1>7. /\ q.closed = p.closed /\ q.first = p.first /\ q.blocks = k
      /\ q = [name |-> q.name, closed |-> q.closed, first |-> q.first, blocks |-> q.blocks]
  BY <1>6
<1>8. IsEntry(q)
  BY <1>7 DEF IsEntry
<1>9. Counts(d, x, n, b, k)
  BY <1>2, <1>3, <1>4, <1>7, <1>8 DEF Counts
<1> QED BY <1>1, <1>9

\* The blocks of the entries up to n.
LEMMA OwnedNext ==
  ASSUME NEW s, NEW n \in Slot
  PROVE  /\ IsFile(s, n) => OwnedUpto(s, n) = OwnedUpto(s, n - 1) \cup Owned(s, n)
         /\ ~IsFile(s, n) => OwnedUpto(s, n) = OwnedUpto(s, n - 1)
<1>1. \A f \in Slot : f <= n <=> f <= n - 1 \/ f = n
  BY DiskFilesAssumption DEF Slot
<1>2. CASE IsFile(s, n)
  <2> DEFINE below == {f \in Slot : f <= n - 1 /\ IsFile(s, f)}
  <2>1. {f \in Slot : f <= n /\ IsFile(s, f)} = below \cup {n}
    BY <1>1, <1>2
  <2> HIDE DEF below
  <2>2. UNION {Owned(s, e) : e \in below \cup {n}}
          = (UNION {Owned(s, e) : e \in below}) \cup Owned(s, n)
    OBVIOUS
  <2>3. OwnedUpto(s, n) = UNION {Owned(s, e) : e \in below \cup {n}}
    BY <2>1 DEF OwnedUpto
  <2>4. OwnedUpto(s, n - 1) = UNION {Owned(s, e) : e \in below}
    BY DEF OwnedUpto, below
  <2> QED BY <1>2, <2>2, <2>3, <2>4
<1>3. CASE ~IsFile(s, n)
  <2>1. {f \in Slot : f <= n /\ IsFile(s, f)} = {f \in Slot : f <= n - 1 /\ IsFile(s, f)}
    BY <1>1, <1>3
  <2> QED BY <1>3, <2>1 DEF OwnedUpto
<1> QED BY <1>2, <1>3

\* One entry more is gone through.
ValidNow(s, d, x, n) ==
  /\ IsDrive(x) /\ x.saved = d.saved /\ x.next = d.next /\ x.channel = d.channel
  /\ x.dir = [e \in Slot |-> IF e = n THEN x.dir[n] ELSE d.dir[e]]
  /\ Checked(s, x.dir[n], n)
  /\ x.bam = IF IsFile(s, n) THEN d.bam \cup Owned(s, n) ELSE d.bam

\* What was true of the entries before it is true of those up to it.
LEMMA ValidNext ==
  ASSUME NEW s, NEW m, NEW n \in Slot, NEW d, Valid(s, d, n - 1, m), NEW x, ValidNow(s, d, x, n)
  PROVE  Valid(s, x, n, m)
<1>1. /\ \A e \in Slot : e > n => e > n - 1 /\ e # n
      /\ \A e \in Slot : e <= n => e <= n - 1 \/ e = n
  BY DiskFilesAssumption DEF Slot
<1>2. /\ d.saved = m /\ d.next = s.next /\ d.channel = s.channel
      /\ \A e \in Slot : e > n - 1 => d.dir[e] = s.dir[e]
      /\ \A e \in Slot : e <= n - 1 => Checked(s, d.dir[e], e)
      /\ d.bam = OwnedUpto(s, n - 1)
  BY DEF Valid
<1>3. /\ IsDrive(x) /\ x.saved = d.saved /\ x.next = d.next /\ x.channel = d.channel
      /\ x.dir = [e \in Slot |-> x.dir[e]] /\ \A e \in Slot \ {n} : x.dir[e] = d.dir[e]
      /\ Checked(s, x.dir[n], n)
      /\ x.bam = IF IsFile(s, n) THEN d.bam \cup Owned(s, n) ELSE d.bam
  BY DEF ValidNow
<1>4. x.bam = OwnedUpto(s, n)
  BY <1>2, <1>3, OwnedNext
<1>5. \A e \in Slot : e > n => x.dir[e] = s.dir[e]
  BY <1>1, <1>2, <1>3
<1>6. ASSUME NEW e \in Slot, e <= n PROVE Checked(s, x.dir[e], e)
  <2>1. CASE e = n
    BY <1>3, <2>1
  <2>2. CASE e # n
    <3>1. e <= n - 1 /\ x.dir[e] = d.dir[e]
      BY <1>1, <1>3, <1>6, <2>2
    <3> QED BY <1>2, <3>1
  <2> QED BY <2>1, <2>2
<1> QED BY <1>2, <1>3, <1>4, <1>5, <1>6 DEF Valid

\* The chain of a closed file meets no block allocated so far, because no other file has
\* it: the worker does not fail.
LEMMA ValidateStep ==
  ASSUME NEW s, Sound(s), NEW m, NEW n \in Slot, NEW r, NEW d, r = [ok |-> TRUE, drive |-> d],
         Valid(s, d, n - 1, m)
  PROVE  \E x : ValidateNext(r, n) = [ok |-> TRUE, drive |-> x] /\ Valid(s, x, n, m)
<1>1. n > n - 1 /\ \A e \in Slot : e <= n - 1 => e # n
  BY DiskFilesAssumption DEF Slot
<1>2. /\ IsDrive(d) /\ d.next = s.next /\ d.bam = OwnedUpto(s, n - 1)
      /\ d.dir = [e \in Slot |-> d.dir[e]] /\ d.dir[n] = s.dir[n]
  BY <1>1 DEF Valid
<1>3. Typed(s) /\ Paths(s)
  BY DEF Sound
<1> DEFINE entry == r.drive.dir[n]
           chain == AllocateChain(r.drive, entry.first)
<1>4. ValidateNext(r, n) =
        IF ~r.ok \/ entry = NoEntry THEN r
        ELSE IF ~entry.closed THEN [r EXCEPT !.drive.dir[n] = NoEntry]
        ELSE IF ~chain.ok THEN [r EXCEPT !.ok = FALSE]
        ELSE [r EXCEPT !.drive.bam = @ \cup chain.taken, !.drive.dir[n].blocks = chain.blocks]
  BY Zenon DEF ValidateNext
<1>5. r.ok = TRUE /\ entry = s.dir[n] /\ chain = AllocateChain(d, entry.first)
  BY <1>2
<1> HIDE DEF entry, chain
<1>6. ASSUME NEW x, ValidateNext(r, n) = [ok |-> TRUE, drive |-> x], ValidNow(s, d, x, n)
      PROVE  \E y : ValidateNext(r, n) = [ok |-> TRUE, drive |-> y] /\ Valid(s, y, n, m)
  <2>1. Valid(s, x, n, m)
    BY <1>6, ValidNext
  <2> QED BY <1>6, <2>1
<1>7. CASE entry = NoEntry
  <2>1. ValidateNext(r, n) = [ok |-> TRUE, drive |-> d]
    BY <1>4, <1>7
  <2>2. ~IsFile(s, n)
    BY <1>5, <1>7 DEF IsFile
  <2>3. ValidNow(s, d, d, n)
    BY <1>2, <1>5, <1>7, <2>2 DEF ValidNow, Checked
  <2> QED BY <1>6, <2>1, <2>3
<1>8. CASE entry # NoEntry /\ ~entry.closed
  <2>1. ~IsFile(s, n)
    BY <1>5, <1>8 DEF IsFile
  <2> PICK t : t = [r EXCEPT !.drive.dir[n] = NoEntry]
    OBVIOUS
  <2>2. ValidateNext(r, n) = t
    BY <1>4, <1>5, <1>8, Zenon
  <2>3. PICK x : t = [ok |-> TRUE, drive |-> x] /\ Deletes(d, x, n)
    BY <1>2, DeletedFields
  <2>4. ValidNow(s, d, x, n)
    BY <2>1, <2>3 DEF ValidNow, Checked, Deletes
  <2> QED BY <1>6, <2>2, <2>3, <2>4
<1>9. CASE entry # NoEntry /\ entry.closed
  <2>1. IsFile(s, n) /\ n \in Owners(s) /\ IsEntry(entry)
    BY <1>3, <1>5, <1>9, OwnersAre DEF IsFile, Typed
  <2> PICK path, k : path = Path(s, n) /\ k = Len(path)
    OBVIOUS
  <2>2. Leads(s.next, entry.first, path)
    BY <1>3, <1>5, <2>1 DEF Paths, Links, Start
  <2>3. IsInjective(path) /\ k \in Nat /\ Range(path) = Owned(s, n)
    BY <2>2 DEF Leads, Owned
  <2>4. Chain(d.next, entry.first) = path
    BY <1>2, <2>2, ChainIs
  <2>5. Range(path) \cap d.bam = {}
    <3>1. \A e \in Slot : e <= n - 1 /\ IsFile(s, e) => Owned(s, e) \cap Owned(s, n) = {}
      BY <1>1, <1>3, <2>1, OwnersAre DEF Paths
    <3> QED BY <1>2, <2>3, <3>1 DEF OwnedUpto
  <2>6. chain.ok = TRUE /\ chain.blocks = k /\ chain.taken = Owned(s, n)
    BY <1>5, <2>3, <2>4, <2>5 DEF AllocateChain
  <2> PICK b, t : b = Owned(s, n) /\ t = Counting(r, n, b, k)
    BY Zenon
  <2>7. ValidateNext(r, n) = t
    <3>1. chain.taken = b
      BY <2>6
    <3>2. ValidateNext(r, n) = Counting(r, n, chain.taken, chain.blocks)
      BY <1>4, <1>5, <1>9, <2>6, Zenon DEF Counting
    <3> QED BY <2>6, <3>1, <3>2, Zenon
  <2>8. PICK x : IsOk(t, x) /\ Counts(d, x, n, b, k)
    <3>1. IsEntry(d.dir[n])
      BY <1>2, <1>5, <2>1
    <3>2. IsOk(r, d) /\ IsDrive(d) /\ HasSlots(d) /\ k \in Nat
      BY <1>2, <2>3 DEF HasSlots, IsOk
    <3> QED BY <3>1, <3>2, CountedFields
  <2>9. ValidNow(s, d, x, n)
    BY <1>2, <1>5, <1>9, <2>1, <2>8 DEF ValidNow, Checked, Counts
  <2> QED BY <1>6, <2>7, <2>8, <2>9 DEF IsOk
<1> QED BY <1>7, <1>8, <1>9

\* So it goes through all entries of a drive w that has the files of a sound one.
LEMMA ValidatedIs ==
  ASSUME NEW s, Sound(s), NEW w, IsDrive(w), SameFiles(s, w), NEW n \in 0 .. Slots
  PROVE  \E d : Validated(w)[n] = [ok |-> TRUE, drive |-> d] /\ Valid(s, d, n, w.saved)
<1> PICK f, m : f = Validated(w) /\ m = w.saved
  OBVIOUS
<1>1. /\ \A k \in 0 .. Slots : k = 0 => f[k] = ValidateFrom(w)
      /\ \A k \in 0 .. Slots : k # 0 => f[k] = ValidateNext(f[k - 1], k)
  <2>1. ValidatedTo(f, w, Slots)
    BY ValidateDefined
  <2> QED BY <2>1 DEF ValidatedTo
<1>2. Slots \in Nat /\ n \in Nat /\ \A k \in Nat : k <= Slots <=> k \in 0 .. Slots
  BY DiskFilesAssumption
<1> DEFINE Done(k) == \E d : f[k] = [ok |-> TRUE, drive |-> d] /\ Valid(s, d, k, m)
           T == {k \in Nat : k <= Slots => Done(k)}
<1>3. 0 \in T
  <2>1. f[0] = ValidateFrom(w)
    BY <1>1, <1>2
  <2>2. PICK d : ValidateFrom(w) = [ok |-> TRUE, drive |-> d] /\ Valid(s, d, 0, w.saved)
    BY ValidFrom DEF Sound
  <2> QED BY <2>1, <2>2
<1>4. ASSUME NEW k \in Nat, k \in T PROVE k + 1 \in T
  <2> SUFFICES ASSUME k + 1 <= Slots PROVE Done(k + 1)
    OBVIOUS
  <2>1. k <= Slots /\ k + 1 \in 0 .. Slots /\ k + 1 # 0 /\ (k + 1) - 1 = k /\ k + 1 \in Slot
    BY <1>2 DEF Slot
  <2>2. PICK d : f[k] = [ok |-> TRUE, drive |-> d] /\ Valid(s, d, (k + 1) - 1, m)
    BY <1>4, <2>1
  <2>3. f[k + 1] = ValidateNext(f[k], k + 1)
    BY <1>1, <2>1
  <2>4. PICK x : ValidateNext(f[k], k + 1) = [ok |-> TRUE, drive |-> x] /\ Valid(s, x, k + 1, m)
    BY <2>1, <2>2, ValidateStep
  <2> QED BY <2>3, <2>4
<1>5. n \in T
  <2> HIDE DEF T
  <2>1. Nat \subseteq T
    BY <1>3, <1>4, Induction
  <2> QED BY <1>2, <2>1
<1> QED BY <1>2, <1>5

\* The files are the same whether an entry has been gone through or not.
LEMMA ValidFiles ==
  ASSUME NEW s, Sound(s), NEW n \in 0 .. Slots, NEW m, NEW d, Valid(s, d, n, m)
  PROVE  /\ d.dir = [e \in Slot |-> d.dir[e]]
         /\ \A e \in Slot : d.dir[e] = NoEntry \/ IsEntry(d.dir[e])
         /\ \A e \in Slot : IsFile(d, e) <=> IsFile(s, e)
         /\ \A e \in Slot : IsFile(s, e) =>
              /\ d.dir[e].first = s.dir[e].first
              /\ d.dir[e].blocks \in {s.dir[e].blocks, Len(Path(s, e))}
<1>1. /\ \A e \in Slot : e > n => d.dir[e] = s.dir[e]
      /\ \A e \in Slot : e <= n => Checked(s, d.dir[e], e)
      /\ d.dir = [e \in Slot |-> d.dir[e]]
  BY DEF Valid
<1>2. n \in Int /\ \A e \in Slot : e \in Int
  BY Numbers, DiskFilesAssumption
<1>3. \A e \in Slot : s.dir[e] = NoEntry \/ IsEntry(s.dir[e])
  BY DEF Sound, Typed
<1>4. ASSUME NEW e \in Slot
      PROVE  /\ d.dir[e] = NoEntry \/ IsEntry(d.dir[e])
             /\ IsFile(d, e) <=> IsFile(s, e)
             /\ IsFile(s, e) => /\ d.dir[e].first = s.dir[e].first
                                /\ d.dir[e].blocks \in {s.dir[e].blocks, Len(Path(s, e))}
  <2>1. CASE e <= n
    <3>1. Checked(s, d.dir[e], e)
      BY <1>1, <2>1
    <3>2. CASE IsFile(s, e)
      <4>1. /\ IsEntry(d.dir[e]) /\ d.dir[e].closed /\ d.dir[e].first = s.dir[e].first
            /\ d.dir[e].blocks = Len(Path(s, e))
        BY <3>1, <3>2 DEF Checked
      <4>2. IsFile(d, e)
        BY <4>1, NoneOfThese DEF IsFile
      <4> QED BY <3>2, <4>1, <4>2
    <3>3. CASE ~IsFile(s, e)
      BY <3>1, <3>3 DEF Checked, IsFile
    <3> QED BY <3>2, <3>3
  <2>2. CASE e > n
    <3>1. d.dir[e] = s.dir[e]
      BY <1>1, <2>2
    <3> QED BY <1>3, <3>1 DEF IsFile
  <2> QED BY <1>2, <2>1, <2>2
<1> QED BY <1>1, <1>4

\* So a drive that has been gone through in part is sound with the map it had before.
LEMMA HalfValid ==
  ASSUME NEW s, Sound(s), s.channel = [c \in Channel |-> Free], NEW n \in 0 .. Slots, NEW m,
         NEW d, Valid(s, d, n, m), NEW r, IsDrive(r), r.bam = s.saved, r.saved = s.saved,
         r.dir = d.dir, r.next = s.next, r.channel = [c \in Channel |-> Free]
  PROVE  /\ Sound(r) /\ (Exact(s) => Exact(r))
         /\ \A e \in Slot : IsFile(r, e) <=> IsFile(s, e)
         /\ \A e \in Slot : IsFile(s, e) => Owned(r, e) = Owned(s, e)
<1>1. /\ d.dir = [e \in Slot |-> d.dir[e]]
      /\ \A e \in Slot : d.dir[e] = NoEntry \/ IsEntry(d.dir[e])
      /\ \A e \in Slot : IsFile(d, e) <=> IsFile(s, e)
      /\ \A e \in Slot : IsFile(s, e) =>
           /\ d.dir[e].first = s.dir[e].first
           /\ d.dir[e].blocks \in {s.dir[e].blocks, Len(Path(s, e))}
  BY ValidFiles
<1>2. Typed(s) /\ OnImage(s)
  BY DEF Sound
<1>3. \A e \in Slot : IsFile(r, e) <=> IsFile(s, e)
  BY <1>1 DEF IsFile
<1>4. FilesChange(s, r, 0, <<>>)
  <2>1. 0 \notin Slot
    BY DEF Slot
  <2>2. \A e \in Slot : IsFile(r, e) =>
          /\ IsFile(s, e) /\ r.dir[e].first = s.dir[e].first
          /\ r.dir[e].blocks \in {s.dir[e].blocks, Len(Path(s, e))}
          /\ Owned(s, e) \subseteq r.bam /\ Owned(s, e) \subseteq r.saved
    BY <1>1, <1>2, <1>3 DEF OnImage
  <2>3. /\ r.bam \in SUBSET Block /\ r.saved \in SUBSET Block /\ r.next \in [Block -> MaybeBlock]
        /\ r.dir = [e \in Slot |-> r.dir[e]]
        /\ \A e \in Slot : r.dir[e] = NoEntry \/ IsEntry(r.dir[e])
    BY <1>1, <1>2 DEF Typed
  <2> QED BY <2>1, <2>2, <2>3 DEF FilesChange
<1>5. Sound(r) /\ \A o \in Owners(r) : o # 0 => o \in Owners(s) /\ Owned(r, o) = Owned(s, o)
  BY <1>4, FilesChangeSound
<1>6. 0 \notin Owners(r)
  BY Numbers DEF Owners, IsFile, Writes, Slot, Channel
<1>7. \A e \in Slot : IsFile(s, e) => Owned(r, e) = Owned(s, e)
  BY <1>3, <1>5, <1>6, OwnersAre
<1>8. ASSUME Exact(s) PROVE Exact(r)
  <2>1. ASSUME NEW o PROVE o \in Owners(r) <=> o \in Owners(s)
    <3>1. \A c : ~Writes(r, c) /\ ~Writes(s, c)
      BY DEF Writes
    <3> QED BY <1>3, <3>1 DEF Owners, IsFile
  <2>2. AllOwned(r) = AllOwned(s)
    BY <1>5, <1>6, <2>1 DEF AllOwned
  <2>3. s.saved = s.bam /\ s.bam = AllOwned(s)
    BY <1>8 DEF Exact
  <2> QED BY <2>2, <2>3 DEF Exact
<1> QED BY <1>3, <1>5, <1>7, <1>8

\* Then the map has the blocks of the closed files and no others.
LEMMA ValidSound ==
  ASSUME NEW s, Sound(s), \A c \in Channel : s.channel[c] = Free,
         NEW m, NEW d, Valid(s, d, Slots, m), NEW r, IsDrive(r), r.bam = d.bam, r.saved = d.bam,
         r.dir = d.dir, r.next = d.next, r.channel = d.channel
  PROVE  Sound(r) /\ Exact(r)
<1>1. /\ IsDrive(d) /\ d.next = s.next /\ d.channel = s.channel
      /\ d.dir = [e \in Slot |-> d.dir[e]]
      /\ \A e \in Slot : e <= Slots => Checked(s, d.dir[e], e)
      /\ d.bam = OwnedUpto(s, Slots)
  BY DEF Valid
<1>2. \A e \in Slot : Checked(s, r.dir[e], e)
  BY <1>1, DiskFilesAssumption DEF Slot
<1>3. \A e \in Slot : IsFile(r, e) <=> IsFile(s, e)
  BY <1>2, NoneOfThese DEF Checked, IsFile
<1>4. Typed(s) /\ Paths(s)
  BY DEF Sound
<1>5. \A e \in Slot : IsFile(s, e) => Owned(s, e) \subseteq s.bam /\ s.bam \subseteq Block
  BY <1>4, OwnersAre DEF Paths, Typed
<1>6. r.bam = UNION {Owned(s, e) : e \in {f \in Slot : IsFile(s, f)}}
  <2>1. \A e \in Slot : e <= Slots
    BY DiskFilesAssumption DEF Slot
  <2> QED BY <1>1, <2>1 DEF OwnedUpto
<1>7. r.channel = [c \in Channel |-> Free]
  BY <1>1, <1>4 DEF Typed
<1>8. FilesChange(s, r, 0, <<>>)
  <2>1. 0 \notin Slot
    BY DEF Slot
  <2>2. ASSUME NEW e \in Slot, IsFile(r, e)
        PROVE  /\ IsFile(s, e) /\ r.dir[e].first = s.dir[e].first
               /\ r.dir[e].blocks \in {s.dir[e].blocks, Len(Path(s, e))}
               /\ Owned(s, e) \subseteq r.bam /\ Owned(s, e) \subseteq r.saved
    BY <1>2, <1>3, <1>6, <2>2 DEF Checked
  <2>3. \A e \in Slot : r.dir[e] = NoEntry \/ IsEntry(r.dir[e])
    BY <1>2 DEF Checked
  <2>4. r.bam \in SUBSET Block /\ r.saved \in SUBSET Block /\ r.next \in [Block -> MaybeBlock]
    BY <1>1, <1>4, <1>5, <1>6 DEF Typed
  <2> QED BY <1>1, <1>7, <2>1, <2>2, <2>3, <2>4 DEF FilesChange
<1>9. Sound(r) /\ \A o \in Owners(r) : o # 0 => o \in Owners(s) /\ Owned(r, o) = Owned(s, o)
  BY <1>8, FilesChangeSound
<1>10. ASSUME NEW o PROVE o \in Owners(r) <=> o \in Slot /\ IsFile(s, o)
  <2>1. \A c \in Channel : ~Writes(r, c)
    BY <1>7 DEF Writes
  <2> QED BY <1>3, <2>1, OwnersAre DEF IsFile
<1>11. 0 \notin Slot
  BY DEF Slot
<1>12. AllOwned(r) = r.bam
  BY <1>6, <1>9, <1>10, <1>11 DEF AllOwned
<1> QED BY <1>9, <1>12 DEF Exact

\* The worker finds the blocks that were lost, of a drive that has the files of a sound one.
LEMMA ValidateFinds ==
  ASSUME NEW s, Sound(s), \A c \in Channel : s.channel[c] = Free,
         NEW w, IsDrive(w), SameFiles(s, w), NEW v, v = ValidateWorker(w),
         Becomes(IF v.ok THEN [WriteBam(v.drive) EXCEPT !.code = "ok"]
                 ELSE Error([v.drive EXCEPT !.bam = w.bam]))
  PROVE  v.ok = TRUE /\ Sound(Now') /\ Exact(Now')
<1>1. Slots \in 0 .. Slots
  BY DiskFilesAssumption
<1>2. PICK d : v = [ok |-> TRUE, drive |-> d] /\ Valid(s, d, Slots, w.saved)
  BY <1>1, ValidatedIs DEF ValidateWorker
<1>3. v.ok = TRUE /\ v.drive = d
  BY <1>2
<1> PICK u, r : u = WriteBam(d) /\ r = [u EXCEPT !.code = "ok"]
  OBVIOUS
<1>4. Becomes(r)
  BY <1>3
<1>5. /\ IsDrive(u) /\ u.bam = d.bam /\ u.saved = d.bam /\ u.dir = d.dir /\ u.next = d.next
      /\ u.channel = d.channel
  BY <1>2, WriteBamFields DEF Valid
<1>6. IsDrive(r)
  BY <1>5, Zenon DEF IsDrive
<1>7. /\ r.bam = d.bam /\ r.saved = d.bam /\ r.dir = d.dir /\ r.next = d.next
      /\ r.channel = d.channel
  BY <1>5 DEF IsDrive
<1>8. Sound(r) /\ Exact(r)
  BY <1>2, <1>6, <1>7, ValidSound
<1>9. Now' = r
  BY <1>4, <1>6, BecomesIs
<1> QED BY <1>3, <1>8, <1>9

\* So Validate leaves the disk without a lost block.
LEMMA ValidateKeeps ==
  ASSUME Intact, Validate
  PROVE  Intact'
<1>1. PICK s \in CloseAllChannels(Now) :
        LET r == ValidateWorker(s)
        IN Becomes(IF r.ok THEN [WriteBam(r.drive) EXCEPT !.code = "ok"]
                   ELSE Error([r.drive EXCEPT !.bam = s.bam]))
  BY DEF Validate
<1>2. Sound(s) /\ \A c \in Channel : s.channel[c] = Free
  BY CloseAllSound DEF Intact
<1>3. IsDrive(s) /\ SameFiles(s, s)
  BY <1>2 DEF Sound, Typed, SameFiles
<1> PICK v : v = ValidateWorker(s)
  OBVIOUS
<1>4. Becomes(IF v.ok THEN [WriteBam(v.drive) EXCEPT !.code = "ok"]
              ELSE Error([v.drive EXCEPT !.bam = s.bam]))
  BY <1>1
<1>5. Sound(Now') /\ Exact(Now')
  BY <1>2, <1>3, <1>4, ValidateFinds
<1> QED BY <1>5 DEF Intact

-----------------------------------------------------------------------------
(* A disk that is torn *)

\* A command was cut between an entry and the map: the directory and the links are still
\* those of a sound drive, only the map does not fit them; and no channel is open.
Torn(s) ==
  /\ IsDrive(s) /\ s.bam \in SUBSET Block /\ s.saved = s.bam
  /\ s.channel = [c \in Channel |-> Free]
  /\ \E u : Sound(u) /\ SameFiles(s, u)

\* What the map has too much, or has of a file in part.
TornExact(s) ==
  /\ \A b \in s.bam : \E e \in Slot : IsFile(s, e) /\ b \in Owned(s, e)
  /\ \A e \in Slot : IsFile(s, e) => Owned(s, e) \subseteq s.bam \/ Owned(s, e) \cap s.bam = {}

Cut == Torn(Now) /\ (~leaky => TornExact(Now))

\* Drives with the same directory and links have the same files, with the same blocks.
LEMMA SameFilesOwn ==
  ASSUME NEW s, NEW w, SameFiles(s, w)
  PROVE  /\ \A e : IsFile(w, e) <=> IsFile(s, e)
         /\ \A e \in Slot : Path(w, e) = Path(s, e) /\ Owned(w, e) = Owned(s, e)
  BY DEF SameFiles, IsFile, Path, Owned, Links, Start

\* The files of a torn disk are chains of their own, and their entries count the blocks.
LEMMA TornFiles ==
  ASSUME NEW s, Torn(s)
  PROVE  /\ Typed(s) /\ \A c \in Channel : ~Writes(s, c)
         /\ \A e \in Slot : IsFile(s, e) =>
              /\ Leads(s.next, s.dir[e].first, Path(s, e))
              /\ s.dir[e].first # NoBlock => s.dir[e].blocks = Len(Path(s, e))
         /\ \A e, f \in Slot : IsFile(s, e) /\ IsFile(s, f) /\ e # f
                                 => Owned(s, e) \cap Owned(s, f) = {}
<1>1. PICK u : Sound(u) /\ SameFiles(s, u)
  BY DEF Torn
<1>2. Typed(u) /\ Paths(u) /\ OnImage(u)
  BY <1>1 DEF Sound
<1>3. /\ \A e : IsFile(u, e) <=> IsFile(s, e)
      /\ \A e \in Slot : Path(u, e) = Path(s, e) /\ Owned(u, e) = Owned(s, e)
  BY <1>1, SameFilesOwn
<1>4. u.dir = s.dir /\ u.next = s.next /\ u.channel = s.channel
  BY <1>1 DEF SameFiles
<1>5. Typed(s)
  BY <1>2, <1>4 DEF Torn, Typed
<1>6. \A c \in Channel : ~Writes(s, c)
  BY DEF Torn, Writes
<1>7. ASSUME NEW e \in Slot, IsFile(s, e)
      PROVE  /\ e \in Owners(u) /\ Leads(s.next, s.dir[e].first, Path(s, e))
             /\ s.dir[e].first # NoBlock => s.dir[e].blocks = Len(Path(s, e))
  <2>1. e \in Owners(u) /\ Links(u, e) = u.next /\ Start(u, e) = u.dir[e].first
    BY <1>3, <1>7, OwnersAre DEF Links, Start
  <2> QED BY <1>2, <1>3, <1>4, <1>7, <2>1 DEF Paths, OnImage
<1>8. ASSUME NEW e \in Slot, NEW f \in Slot, IsFile(s, e), IsFile(s, f), e # f
      PROVE  Owned(s, e) \cap Owned(s, f) = {}
  BY <1>2, <1>3, <1>7, <1>8 DEF Paths
<1> QED BY <1>5, <1>6, <1>7, <1>8

\* A sound drive is torn when the emulator ends with a map on the image that lacks blocks.
LEMMA Tears ==
  ASSUME NEW s, Sound(s), NEW r, IsDrive(r), r.saved = r.bam, r.bam \in SUBSET Block,
         r.dir = s.dir, r.next = s.next, r.channel = [c \in Channel |-> Free]
  PROVE  Torn(r)
<1> DEFINE none == [c \in Channel |-> Free]
<1> PICK w : w = [s EXCEPT !.bam = s.saved, !.channel = none]
  OBVIOUS
<1>1. IsDrive(s)
  BY DEF Sound, Typed
<1> HIDE DEF none
<1>2. IsDrive(w)
  BY <1>1, Zenon DEF IsDrive
<1>3. w.bam = s.saved /\ w.saved = s.saved /\ w.dir = s.dir /\ w.next = s.next /\ w.channel = none
  BY <1>1 DEF IsDrive
<1>4. Rereads(s, w)
  BY <1>2, <1>3 DEF Rereads, none
<1>5. Sound(w)
  BY <1>4, RereadSound
<1>6. SameFiles(r, w)
  BY <1>3 DEF SameFiles, none
<1> QED BY <1>5, <1>6 DEF Torn

\* What leaves the map and the channels alone and changes names only leaves it as it is.
LEMMA AlikeTorn ==
  ASSUME NEW s, Torn(s), NEW r, Alike(s, r)
  PROVE  Torn(r) /\ (TornExact(s) => TornExact(r))
<1>1. PICK u : Sound(u) /\ SameFiles(s, u)
  BY DEF Torn
<1>2. u.dir = s.dir /\ u.next = s.next /\ u.channel = s.channel /\ IsDrive(u)
  BY <1>1 DEF SameFiles, Sound, Typed
<1>3. /\ IsDrive(r) /\ r.bam = s.bam /\ r.saved = s.saved /\ r.next = s.next
      /\ r.dir = [e \in Slot |-> r.dir[e]]
      /\ \A e \in Slot : r.dir[e] = s.dir[e] \/ (s.dir[e] # NoEntry /\ SameEntry(s.dir[e], r.dir[e]))
      /\ r.channel = [c \in Channel |-> r.channel[c]]
      /\ \A c \in Channel : r.channel[c] = s.channel[c] \/ s.channel[c] # Free
  BY DEF Alike
<1>4. r.channel = [c \in Channel |-> Free] /\ r.channel = s.channel
  BY <1>3 DEF Torn
<1> PICK w : w = [u EXCEPT !.dir = r.dir]
  OBVIOUS
<1>5. IsDrive(w) /\ w.bam = u.bam /\ w.saved = u.saved /\ w.dir = r.dir /\ w.next = u.next
      /\ w.channel = u.channel
  BY <1>2 DEF IsDrive
<1>6. Alike(u, w)
  BY <1>2, <1>3, <1>4, <1>5 DEF Alike
<1>7. Sound(w)
  BY <1>1, <1>6, AlikeSound
<1>8. SameFiles(r, w)
  BY <1>2, <1>3, <1>4, <1>5 DEF SameFiles
<1>9. Torn(r)
  BY <1>3, <1>4, <1>7, <1>8 DEF Torn
<1>10. ASSUME NEW e \in Slot
       PROVE  (IsFile(r, e) <=> IsFile(s, e)) /\ (IsFile(r, e) => Owned(r, e) = Owned(s, e))
  <2>1. (IsFile(r, e) <=> IsFile(s, e)) /\ (IsFile(r, e) => r.dir[e].first = s.dir[e].first)
    BY <1>3, NoneOfThese DEF IsFile, SameEntry
  <2> QED BY <1>3, <2>1 DEF Owned, Path, Links, Start
<1>11. TornExact(s) => TornExact(r)
  BY <1>3, <1>10 DEF TornExact
<1> QED BY <1>9, <1>11

\* So such steps keep it,
LEMMA AlikeCut ==
  ASSUME Cut, NEW r, Becomes(r), Alike(Now, r), leaky' = leaky
  PROVE  Cut'
<1>1. Torn(r) /\ (TornExact(Now) => TornExact(r))
  BY AlikeTorn DEF Cut
<1>2. Now' = r
  BY BecomesIs DEF Alike
<1> QED BY <1>1, <1>2 DEF Cut

\* and so does another start,
LEMMA RereadCut ==
  ASSUME Cut, Rereads(Now, Now'), ~leaky' => ~leaky
  PROVE  Cut'
<1> PICK s, r : s = Now /\ r = Now'
  OBVIOUS
<1>1. /\ IsDrive(r) /\ r.bam = s.saved /\ r.saved = s.saved /\ r.dir = s.dir /\ r.next = s.next
      /\ r.channel = [c \in Channel |-> Free]
  BY DEF Rereads
<1>2. s.saved = s.bam /\ s.channel = [c \in Channel |-> Free] /\ Typed(s)
  BY TornFiles DEF Cut, Torn
<1>3. Alike(s, r)
  BY <1>1, <1>2 DEF Alike, Typed
<1>4. Torn(r) /\ (TornExact(s) => TornExact(r))
  BY <1>3, AlikeTorn DEF Cut
<1> QED BY <1>4 DEF Cut

\* or closing all channels, as there are none.
LEMMA NothingToClose ==
  ASSUME NEW s, \A c \in Channel : s.channel[c] = Free, NEW r \in CloseAllChannels(s)
  PROVE  r = s
<1>1. PICK f : ClosedTo(f, s, Channels) /\ r \in f[Channels]
  BY CloseAllDefined
<1>2. Channels \in Nat /\ Channel = 1 .. Channels
  BY DiskFilesAssumption DEF Channel
<1>3. f[0] = {s} /\ \A n \in 1 .. Channels : f[n] = CloseNext(f[n - 1], n)
  <2>1. \A n \in 0 .. Channels : f[n] = IF n = 0 THEN {s} ELSE CloseNext(f[n - 1], n)
    BY <1>1, Zenon DEF ClosedTo
  <2>2. 0 \in 0 .. Channels /\ \A n \in 1 .. Channels : n \in 0 .. Channels /\ n # 0
    BY <1>2
  <2> QED BY <2>1, <2>2, Zenon
<1> DEFINE T == {n \in Nat : n <= Channels => f[n] = {s}}
<1>4. 0 \in T
  BY <1>3
<1>5. ASSUME NEW n \in Nat, n \in T PROVE n + 1 \in T
  <2> SUFFICES ASSUME n + 1 <= Channels PROVE f[n + 1] = {s}
    OBVIOUS
  <2>1. n <= Channels /\ n + 1 \in 1 .. Channels /\ (n + 1) - 1 = n
    BY <1>2
  <2>2. f[n] = {s} /\ s.channel[n + 1] = Free
    BY <1>2, <1>5, <2>1
  <2>3. f[n + 1] = CloseNext({s}, n + 1)
    BY <1>3, <2>1, <2>2
  <2>4. CloseNext({s}, n + 1) = {s}
    BY <2>2 DEF CloseNext
  <2> QED BY <2>3, <2>4
<1>6. Channels \in T
  <2> HIDE DEF T
  <2>1. Nat \subseteq T
    BY <1>4, <1>5, Induction
  <2> QED BY <1>2, <2>1
<1> QED BY <1>1, <1>2, <1>6

\* A torn disk from which the chain of a file has been freed, all of it or, if its first
\* block is free already, nothing; the entry is cleared, or not yet.
LEMMA FreedTorn ==
  ASSUME NEW s, Torn(s), NEW e \in Slot, IsFile(s, e), NEW r, IsDrive(r),
         r.bam = s.bam \ FreedChain(s, s.dir[e].first), r.saved = r.bam,
         r.next = s.next, r.channel = [c \in Channel |-> Free],
         \/ r.dir = s.dir
         \/ r.dir = [s.dir EXCEPT ![e] = NoEntry]
  PROVE  Torn(r) /\ (TornExact(s) => TornExact(r))
<1>1. PICK u : Sound(u) /\ SameFiles(s, u)
  BY DEF Torn
<1>2. u.dir = s.dir /\ u.next = s.next /\ u.channel = s.channel /\ Typed(u)
  BY <1>1 DEF SameFiles, Sound
<1>3. s.bam \in SUBSET Block /\ s.channel = [c \in Channel |-> Free]
  BY DEF Torn
<1>4. /\ Leads(s.next, s.dir[e].first, Path(s, e))
      /\ \A f, g \in Slot : IsFile(s, f) /\ IsFile(s, g) /\ f # g
                              => Owned(s, f) \cap Owned(s, g) = {}
  BY TornFiles
<1>5. \E w : Sound(w) /\ SameFiles(r, w)
  <2>1. CASE r.dir = s.dir
    BY <1>1, <1>2, <1>3, <2>1 DEF SameFiles
  <2>2. CASE r.dir = [s.dir EXCEPT ![e] = NoEntry]
    <3> PICK map : map = u.bam \ FreedChain(u, u.dir[e].first)
      OBVIOUS
    <3> PICK w : w = [u EXCEPT !.bam = map, !.saved = map, !.dir = r.dir]
      OBVIOUS
    <3>1. IsDrive(u)
      BY <1>2 DEF Typed
    <3>2. IsDrive(w)
      BY <3>1, Zenon DEF IsDrive
    <3>3. w.bam = map /\ w.saved = map /\ w.dir = r.dir /\ w.next = u.next /\ w.channel = u.channel
      BY <3>1 DEF IsDrive
    <3>4. IsFile(u, e) /\ \A c \in Channel : ~Writes(u, c)
      BY <1>2, <1>3 DEF IsFile, Writes
    <3>5. Scratches(u, w, e)
      BY <1>2, <2>2, <3>2, <3>3, <3>4 DEF Scratches
    <3>6. Sound(w)
      BY <1>1, <3>5, ScratchSound
    <3>7. SameFiles(r, w)
      BY <1>2, <1>3, <3>3 DEF SameFiles
    <3> QED BY <3>6, <3>7
  <2> QED BY <2>1, <2>2
<1>6. Torn(r)
  BY <1>3, <1>5 DEF Torn
<1>7. s.dir = [f \in Slot |-> s.dir[f]]
  BY <1>2 DEF Typed
<1>8. ASSUME NEW f \in Slot
      PROVE  /\ IsFile(r, f) => IsFile(s, f) /\ Owned(r, f) = Owned(s, f)
             /\ f # e /\ IsFile(s, f) => IsFile(r, f)
             /\ r.dir = s.dir /\ IsFile(s, f) => IsFile(r, f)
  <2>1. r.dir[f] = s.dir[f] \/ (f = e /\ r.dir[f] = NoEntry)
    BY <1>7
  <2> QED BY <1>7, <2>1 DEF IsFile, Owned, Path, Links, Start
<1>9. ASSUME TornExact(s) PROVE TornExact(r)
  <2>1. r.bam = s.bam \ Owned(s, e)
    <3>1. /\ FreedChain(s, s.dir[e].first) \subseteq Owned(s, e)
          /\ Owned(s, e) \subseteq s.bam => FreedChain(s, s.dir[e].first) = Owned(s, e)
      BY <1>4, FreedOf DEF Owned
    <3>2. Owned(s, e) \subseteq s.bam \/ Owned(s, e) \cap s.bam = {}
      BY <1>9 DEF TornExact
    <3> QED BY <3>1, <3>2
  <2>2. ASSUME NEW b \in r.bam PROVE \E f \in Slot : IsFile(r, f) /\ b \in Owned(r, f)
    <3>1. b \in s.bam /\ b \notin Owned(s, e)
      BY <2>1, <2>2
    <3>2. PICK f \in Slot : IsFile(s, f) /\ b \in Owned(s, f)
      BY <1>9, <3>1 DEF TornExact
    <3>3. f # e
      BY <3>1, <3>2
    <3> QED BY <1>8, <3>2, <3>3
  <2>3. ASSUME NEW f \in Slot, IsFile(r, f)
        PROVE  Owned(r, f) \subseteq r.bam \/ Owned(r, f) \cap r.bam = {}
    <3>1. IsFile(s, f) /\ Owned(r, f) = Owned(s, f)
      BY <1>8, <2>3
    <3>2. Owned(s, f) \subseteq s.bam \/ Owned(s, f) \cap s.bam = {}
      BY <1>9, <3>1 DEF TornExact
    <3>3. f # e => Owned(s, f) \cap Owned(s, e) = {}
      BY <1>4, <3>1
    <3> QED BY <2>1, <3>1, <3>2, <3>3
  <2> QED BY <2>2, <2>3 DEF TornExact
<1> QED BY <1>6, <1>9

\* Scratch leaves a torn disk torn.
LEMMA ScratchCut ==
  ASSUME Cut, NEW n, Scratch(n)
  PROVE  Cut'
<1> PICK s, r : s = Now /\ r = Now'
  OBVIOUS
<1>1. PICK e : /\ e \in Slot /\ dir[e] # NoEntry /\ Settled(e) /\ IsDrive(r)
               /\ r.bam = bam \ FreedChain(Now, dir[e].first) /\ r.saved = r.bam
               /\ r.dir = [dir EXCEPT ![e] = NoEntry] /\ r.next = next
               /\ r.channel = channel /\ leaky' = leaky
  BY ScratchedIs
<1>2. /\ s.bam = bam /\ s.dir = dir /\ s.next = next /\ s.channel = channel
      /\ IsFile(s, e) /\ Torn(s)
  BY <1>1, SettledIs, NowIs DEF Cut
<1>3. /\ r.bam = s.bam \ FreedChain(s, s.dir[e].first) /\ r.next = s.next
      /\ r.channel = [c \in Channel |-> Free] /\ r.dir = [s.dir EXCEPT ![e] = NoEntry]
  BY <1>1, <1>2 DEF Torn
<1>4. Torn(r) /\ (TornExact(s) => TornExact(r))
  BY <1>1, <1>2, <1>3, FreedTorn
<1> QED BY <1>1, <1>4 DEF Cut

\* What a kill in the middle of Scratch leaves.
LEMMA KilledInScratch ==
  ASSUME NEW n, KillInScratch(n)
  PROVE  \E e : /\ e \in Slot /\ dir[e] # NoEntry /\ Settled(e) /\ IsDrive(Now')
                /\ Now'.bam = bam \ FreedChain(Now, dir[e].first) /\ Now'.saved = Now'.bam
                /\ Now'.dir = dir /\ Now'.next = next
                /\ Now'.channel = [c \in Channel |-> Free]
                /\ leaky' = (leaky \/ Writing # {}) /\ torn' = TRUE
<1> PICK e, w : e = Min(Entries(n)) /\ w = ChainFreed(e)
  OBVIOUS
<1>1. e \in Slot /\ dir[e] # NoEntry /\ Settled(e) /\ Ends(w, Writing # {}, TRUE)
  BY EntryFound DEF KillInScratch
<1>2. /\ IsDrive(w) /\ w.bam = bam \ FreedChain(Now, dir[e].first) /\ w.saved = w.bam
      /\ w.dir = dir /\ w.next = next /\ w.channel = channel
  BY ChainFreedFields
<1>3. Rereads(w, Now') /\ leaky' = (leaky \/ Writing # {}) /\ torn' = (torn \/ TRUE)
  BY <1>1, <1>2, EndsIs
<1> QED BY <1>1, <1>2, <1>3 DEF Rereads

\* On a torn disk that is nothing new,
LEMMA KillInScratchCut ==
  ASSUME Cut, NEW n, KillInScratch(n)
  PROVE  Cut'
<1> PICK s, r : s = Now /\ r = Now'
  OBVIOUS
<1>1. PICK e : /\ e \in Slot /\ dir[e] # NoEntry /\ Settled(e) /\ IsDrive(r)
               /\ r.bam = bam \ FreedChain(Now, dir[e].first) /\ r.saved = r.bam
               /\ r.dir = dir /\ r.next = next /\ r.channel = [c \in Channel |-> Free]
               /\ leaky' = (leaky \/ Writing # {}) /\ torn' = TRUE
  BY KilledInScratch
<1>2. s.bam = bam /\ s.dir = dir /\ s.next = next /\ IsFile(s, e) /\ Torn(s)
  BY <1>1, SettledIs, NowIs DEF Cut
<1>3. Torn(r) /\ (TornExact(s) => TornExact(r))
  BY <1>1, <1>2, FreedTorn
<1> QED BY <1>1, <1>3 DEF Cut

\* and on a sound one it tears the disk, but loses no block of it.
LEMMA KillInScratchTears ==
  ASSUME Intact, NEW n, KillInScratch(n)
  PROVE  Cut' /\ torn' = TRUE
<1> PICK s, r : s = Now /\ r = Now'
  OBVIOUS
<1>1. PICK e : /\ e \in Slot /\ dir[e] # NoEntry /\ Settled(e) /\ IsDrive(r)
               /\ r.bam = bam \ FreedChain(Now, dir[e].first) /\ r.saved = r.bam
               /\ r.dir = dir /\ r.next = next /\ r.channel = [c \in Channel |-> Free]
               /\ leaky' = (leaky \/ Writing # {}) /\ torn' = TRUE
  BY KilledInScratch
<1>2. /\ s.bam = bam /\ s.saved = saved /\ s.dir = dir /\ s.next = next /\ s.channel = channel
      /\ IsFile(s, e) /\ Sound(s) /\ Typed(s)
  BY <1>1, SettledIs, NowIs DEF Intact, Sound
<1>3. Torn(r)
  BY <1>1, <1>2, Tears DEF Typed
<1>4. ASSUME ~leaky' PROVE TornExact(r)
  <2>1. s.bam = AllOwned(s) /\ \A c \in Channel : ~Writes(s, c)
    BY <1>1, <1>2, <1>4 DEF Intact, Exact, Writing, Writes
  <2>2. r.bam = s.bam \ Owned(s, e)
    BY <1>1, <1>2, FreedIs
  <2>3. \A f : f \in Owners(s) <=> f \in Slot /\ IsFile(s, f)
    BY <2>1, OwnersAre DEF IsFile
  <2>4. \A f \in Slot : (IsFile(r, f) <=> IsFile(s, f)) /\ Owned(r, f) = Owned(s, f)
    BY <1>1, <1>2 DEF IsFile, Owned, Path, Links, Start
  <2>5. \A f \in Slot : IsFile(s, f) => /\ Owned(s, f) \subseteq s.bam
                                        /\ f # e => Owned(s, f) \cap Owned(s, e) = {}
    BY <1>1, <1>2, <2>3 DEF Sound, Paths
  <2>6. \A b \in r.bam : \E f \in Slot : IsFile(r, f) /\ b \in Owned(r, f)
    BY <2>1, <2>2, <2>3, <2>4 DEF AllOwned
  <2>7. \A f \in Slot : IsFile(r, f) => Owned(r, f) \subseteq r.bam \/ Owned(r, f) \cap r.bam = {}
    BY <2>2, <2>4, <2>5
  <2> QED BY <2>6, <2>7 DEF TornExact
<1> QED BY <1>1, <1>3, <1>4 DEF Cut

\* A kill in the middle of Close: the disk would be sound, had the map been written.
LEMMA KillInCloseTears ==
  ASSUME Intact, NEW c \in Channel, KillInClose(c)
  PROVE  Cut' /\ torn' = TRUE
<1> PICK s, r : s = Now /\ r = Now'
  OBVIOUS
<1>1. PICK x \in WriteLast(s, c) : Ends(EntryClosed(x, c), TRUE, TRUE)
  BY DEF KillInClose
<1>2. Sound(s) /\ Writes(s, c) /\ Typed(s)
  BY NowIs DEF Intact, Sound, Writes, KillInClose
<1>3. PICK t : /\ Sound(t) /\ Writes(t, c)
               /\ LastWritten(t, x, c, t.channel[c], x.channel[c])
  BY <1>2, LastCases
<1>4. /\ IsDrive(x) /\ c \in Channel /\ x.channel = [d \in Channel |-> x.channel[d]]
      /\ x.dir = [e \in Slot |-> x.dir[e]]
      /\ IsEntry(x.channel[c].entry) /\ x.channel[c].slot \in Slot
  BY <1>3, LastTypes
<1> PICK u, v : u = EntryClosed(x, c) /\ v = Finish(x, c)
  OBVIOUS
<1>5. HasEntry(x, u, c, x.channel[c])
  BY <1>4, EntryClosedFields
<1>6. IsDrive(u) /\ u.saved \in SUBSET Block
  <2>1. IsDrive(u) /\ u.saved = x.saved
    BY <1>5 DEF HasEntry
  <2>2. x.saved = t.saved
    BY <1>3 DEF LastWritten
  <2> QED BY <1>3, <2>1, <2>2 DEF Sound, Typed
<1>7. v.dir = u.dir /\ v.next = u.next
  BY <1>6, WriteBamFields DEF Finish
<1>8. Sound(v)
  <2>1. v \in CloseSequential(s, c)
    BY DEF CloseSequential
  <2> QED BY <1>2, <2>1, CloseSound
<1>9. Rereads(u, r) /\ leaky' = (leaky \/ TRUE) /\ torn' = (torn \/ TRUE)
  BY <1>1, <1>6, EndsIs
<1>10. /\ IsDrive(r) /\ r.bam = u.saved /\ r.saved = u.saved /\ r.dir = u.dir
       /\ r.next = u.next /\ r.channel = [d \in Channel |-> Free]
  BY <1>9 DEF Rereads
<1>11. Torn(r)
  BY <1>6, <1>7, <1>8, <1>10, Tears
<1> QED BY <1>9, <1>11 DEF Cut

\* In the middle of Copy: the map has the blocks of all files but the new one.
LEMMA KillInCopyTears ==
  ASSUME Intact, NEW n, NEW names, KillInCopy(n, names)
  PROVE  Cut' /\ torn' = TRUE
<1> PICK s, r, e : s = Now /\ r = Now' /\ e = Min(FreeSlots)
  OBVIOUS
<1>1. MayCopy(n, names) /\ Sound(s) /\ Typed(s)
  BY DEF KillInCopy, Intact, Sound
<1>2. PICK chain \in CopyChains(names) :
        ~CopyTo(names, chain).full /\ Ends(CopyEntered(n, names, chain), Writing # {}, TRUE)
  BY Zenon DEF KillInCopy
<1> PICK y, v : /\ Ends(y, Writing # {}, TRUE) /\ IsDrive(y) /\ y.saved = saved
                /\ Copies(s, v, e, chain, TRUE) /\ v.dir = y.dir /\ v.next = y.next
  <2> PICK y : y = CopyEntered(n, names, chain)
    OBVIOUS
  <2>1. IsDrive(y) /\ y.saved = saved /\ Copies(s, WriteBam(y), e, chain, TRUE)
    BY <1>1, <1>2, CopyMade
  <2>2. WriteBam(y).dir = y.dir /\ WriteBam(y).next = y.next
    BY <2>1, WriteBamFields
  <2> QED BY <1>2, <2>1, <2>2, Zenon
<1>3. /\ Sound(v) /\ Owned(v, e) = Range(chain) /\ Range(chain) \cap s.bam = {}
      /\ \A f \in Slot \ {e} : /\ IsFile(v, f) <=> IsFile(s, f)
                               /\ IsFile(v, f) => Owned(v, f) = Owned(s, f)
  <2>1. Sound(s) /\ Copies(s, v, e, chain, TRUE)
    BY <1>1
  <2> QED BY <2>1, CopyDone, Zenon
<1>4. Rereads(y, r) /\ leaky' = (leaky \/ Writing # {}) /\ torn' = (torn \/ TRUE)
  BY EndsIs
<1>5. /\ s.bam = bam /\ s.saved = saved /\ s.channel = channel /\ s.dir = dir
      /\ s.dir[e] = NoEntry
  <2>1. s.bam = bam /\ s.saved = saved /\ s.channel = channel /\ s.dir = dir
    BY NowIs
  <2>2. FreeSlots # {}
    BY <1>1 DEF MayCopy
  <2>3. dir[Min(FreeSlots)] = NoEntry
    BY <2>2, EntryFound, Zenon
  <2> QED BY <2>1, <2>3
<1>6. /\ IsDrive(r) /\ r.bam = s.saved /\ r.saved = s.saved /\ r.dir = v.dir
      /\ r.next = v.next /\ r.channel = [c \in Channel |-> Free]
  BY <1>4, <1>5 DEF Rereads
<1>7. Torn(r)
  BY <1>1, <1>3, <1>6, Tears DEF Typed
<1>8. ASSUME ~leaky' PROVE TornExact(r)
  <2>1. \A c \in Channel : ~Writes(s, c) /\ s.channel[c] = Free
    BY <1>4, <1>5, <1>8 DEF Writing, Writes
  <2>2. s.bam = AllOwned(s) /\ r.bam = s.bam
    BY <1>4, <1>6, <1>8, <2>1 DEF Intact, Exact
  <2>3. \A f \in Slot : (IsFile(r, f) <=> IsFile(v, f)) /\ Owned(r, f) = Owned(v, f)
    BY <1>6 DEF IsFile, Owned, Path, Links, Start
  <2>4. ~IsFile(s, e) /\ \A f \in Owners(s) : f \in Slot /\ IsFile(s, f)
    BY <1>5, <2>1, OwnersAre DEF IsFile
  <2>5. \A f \in Slot : IsFile(s, f) => Owned(s, f) \subseteq s.bam
    BY <1>1, OwnersAre DEF Sound, Paths
  <2>6. \A b \in r.bam : \E f \in Slot : IsFile(r, f) /\ b \in Owned(r, f)
    <3> TAKE b \in r.bam
    <3>1. PICK f \in Owners(s) : b \in Owned(s, f)
      BY <2>2 DEF AllOwned
    <3>2. f \in Slot \ {e} /\ IsFile(s, f)
      BY <2>4
    <3> QED BY <1>3, <2>3, <3>1, <3>2
  <2>7. ASSUME NEW f \in Slot, IsFile(r, f)
        PROVE  Owned(r, f) \subseteq r.bam \/ Owned(r, f) \cap r.bam = {}
    <3>1. CASE f = e
      BY <1>3, <2>2, <2>3, <3>1
    <3>2. CASE f # e
      BY <1>3, <2>2, <2>3, <2>5, <2>7, <3>2
    <3> QED BY <3>1, <3>2
  <2> QED BY <2>6, <2>7 DEF TornExact
<1> QED BY <1>4, <1>7, <1>8 DEF Cut

\* In the middle of Validate: some entries have been gone through, the map is the old one.
LEMMA KilledInValidate ==
  ASSUME NEW e \in Slot, KillInValidate(e), NEW s, Sound(s), SameFiles(s, Now)
  PROVE  \E d : /\ Valid(s, d, e, saved) /\ IsDrive(Now') /\ Now'.bam = saved
                /\ Now'.saved = saved /\ Now'.dir = d.dir /\ Now'.next = s.next
                /\ Now'.channel = [c \in Channel |-> Free]
                /\ (leaky' <=> leaky) /\ (torn' <=> torn)
                /\ s.channel = [c \in Channel |-> Free]
<1>1. IsDrive(Now) /\ Now.saved = saved /\ Now.channel = channel
  BY NowIs
<1>2. e \in 0 .. Slots
  BY DiskFilesAssumption DEF Slot
<1>3. PICK d : Validated(Now)[e] = [ok |-> TRUE, drive |-> d] /\ Valid(s, d, e, Now.saved)
  BY <1>1, <1>2, ValidatedIs
<1>4. Validated(Now)[e].drive = d
  BY <1>3
<1>5. IsDrive(d) /\ d.saved = saved /\ d.next = s.next
  BY <1>1, <1>3 DEF Valid
<1>6. Ends(d, FALSE, FALSE) /\ Writing = {}
  BY <1>4 DEF KillInValidate
<1>7. Rereads(d, Now') /\ leaky' = (leaky \/ FALSE) /\ torn' = (torn \/ FALSE)
  BY <1>5, <1>6, EndsIs
<1>8. /\ IsDrive(Now') /\ Now'.bam = saved /\ Now'.saved = saved /\ Now'.dir = d.dir
      /\ Now'.next = s.next /\ Now'.channel = [c \in Channel |-> Free]
  BY <1>5, <1>7 DEF Rereads
<1>9. s.channel = [c \in Channel |-> Free]
  <2>1. s.channel = channel /\ s.channel = [c \in Channel |-> s.channel[c]]
    BY <1>1 DEF SameFiles, Sound, Typed
  <2> QED BY <1>6, <2>1 DEF Writing
<1>10. (leaky' <=> leaky) /\ (torn' <=> torn)
  BY <1>7
<1> QED BY <1>1, <1>3, <1>8, <1>9, <1>10

\* That keeps a disk sound,
LEMMA KillInValidateKeeps ==
  ASSUME Intact, NEW e \in Slot, KillInValidate(e)
  PROVE  Intact' /\ (torn' <=> torn)
<1> PICK s, r : s = Now /\ r = Now'
  OBVIOUS
<1>1. Sound(s) /\ SameFiles(s, Now) /\ s.saved = saved /\ e \in 0 .. Slots
  BY NowIs, DiskFilesAssumption DEF Intact, SameFiles, Slot
<1>2. PICK d : /\ Valid(s, d, e, saved) /\ IsDrive(r) /\ r.bam = saved
               /\ r.saved = saved /\ r.dir = d.dir /\ r.next = s.next
               /\ r.channel = [c \in Channel |-> Free]
               /\ (leaky' <=> leaky) /\ (torn' <=> torn)
               /\ s.channel = [c \in Channel |-> Free]
  BY <1>1, KilledInValidate
<1>3. Sound(r) /\ (Exact(s) => Exact(r))
  BY <1>1, <1>2, HalfValid
<1> QED BY <1>2, <1>3 DEF Intact

\* and a torn one as torn as it was.
LEMMA KillInValidateCut ==
  ASSUME Cut, NEW e \in Slot, KillInValidate(e)
  PROVE  Cut' /\ (torn' <=> torn)
<1> PICK s, r : s = Now /\ r = Now'
  OBVIOUS
<1>1. PICK u : Sound(u) /\ SameFiles(s, u)
  BY DEF Cut, Torn
<1>2. /\ s.bam = bam /\ s.saved = saved /\ saved = bam /\ bam \in SUBSET Block
      /\ e \in 0 .. Slots /\ SameFiles(u, s)
  BY <1>1, NowIs, DiskFilesAssumption DEF Cut, Torn, SameFiles, Slot
<1>3. PICK d : /\ Valid(u, d, e, saved) /\ IsDrive(r) /\ r.bam = saved
               /\ r.saved = saved /\ r.dir = d.dir /\ r.next = u.next
               /\ r.channel = [c \in Channel |-> Free]
               /\ (leaky' <=> leaky) /\ (torn' <=> torn)
               /\ u.channel = [c \in Channel |-> Free]
  BY <1>1, <1>2, KilledInValidate
<1>4. IsDrive(u)
  BY <1>1 DEF Sound, Typed
<1>5. \E w : /\ IsDrive(w) /\ w.bam = u.saved /\ w.saved = u.saved /\ w.dir = r.dir
            /\ w.next = u.next /\ w.channel = u.channel
  <2> PICK x : x = [u EXCEPT !.bam = u.saved, !.dir = r.dir]
    OBVIOUS
  <2>1. IsDrive(x)
    BY <1>4, Zenon DEF IsDrive
  <2>2. /\ x.bam = u.saved /\ x.saved = u.saved /\ x.dir = r.dir /\ x.next = u.next
        /\ x.channel = u.channel
    BY <1>4 DEF IsDrive
  <2> QED BY <2>1, <2>2
<1>6. PICK w : /\ IsDrive(w) /\ w.bam = u.saved /\ w.saved = u.saved /\ w.dir = r.dir
               /\ w.next = u.next /\ w.channel = u.channel
  BY <1>5
<1>7. /\ Sound(w)
      /\ \A f \in Slot : IsFile(w, f) <=> IsFile(u, f)
      /\ \A f \in Slot : IsFile(u, f) => Owned(w, f) = Owned(u, f)
  <2>1. /\ w.dir = d.dir /\ w.channel = [c \in Channel |-> Free]
        /\ u.channel = [c \in Channel |-> Free] /\ Valid(u, d, e, saved)
    BY <1>3, <1>6
  <2> QED BY <1>1, <1>2, <1>6, <2>1, HalfValid
<1>8. SameFiles(r, w)
  BY <1>3, <1>6 DEF SameFiles
<1>9. Torn(r)
  BY <1>2, <1>3, <1>7, <1>8 DEF Torn
<1>10. \A f \in Slot : /\ IsFile(r, f) <=> IsFile(s, f)
                       /\ IsFile(s, f) => Owned(r, f) = Owned(s, f)
  BY <1>1, <1>7, <1>8, SameFilesOwn
<1>11. TornExact(s) => TornExact(r)
  BY <1>2, <1>3, <1>10 DEF TornExact
<1> QED BY <1>3, <1>9, <1>11 DEF Cut

\* Validating a torn disk makes it sound.
LEMMA ValidateMends ==
  ASSUME Cut, Validate
  PROVE  Intact' /\ torn' = FALSE
<1>1. PICK s \in CloseAllChannels(Now) :
        LET r == ValidateWorker(s)
        IN /\ Becomes(IF r.ok THEN [WriteBam(r.drive) EXCEPT !.code = "ok"]
                      ELSE Error([r.drive EXCEPT !.bam = s.bam]))
           /\ torn' = (torn /\ ~r.ok)
  BY DEF Validate
<1>2. PICK u : Sound(u) /\ SameFiles(Now, u)
  BY DEF Cut, Torn
<1>3. \A c \in Channel : Now.channel[c] = Free
  BY DEF Cut, Torn
<1>4. s = Now
  BY <1>3, NothingToClose
<1>5. IsDrive(s) /\ SameFiles(u, s) /\ \A c \in Channel : u.channel[c] = Free
  BY <1>2, <1>3, <1>4, NowIs DEF SameFiles
<1> PICK v : v = ValidateWorker(s)
  OBVIOUS
<1>6. /\ Becomes(IF v.ok THEN [WriteBam(v.drive) EXCEPT !.code = "ok"]
                 ELSE Error([v.drive EXCEPT !.bam = s.bam]))
      /\ torn' = (torn /\ ~v.ok)
  BY <1>1
<1>7. v.ok = TRUE /\ Sound(Now') /\ Exact(Now')
  BY <1>2, <1>5, <1>6, ValidateFinds
<1> QED BY <1>6, <1>7 DEF Intact

-----------------------------------------------------------------------------
(* The invariant holds, and implies the properties *)

\* An empty disk is sound.
LEMMA InitSound ==
  ASSUME Init
  PROVE  Intact
<1>1. /\ bam = {} /\ saved = {} /\ next = [b \in Block |-> NoBlock]
      /\ dir = [e \in Slot |-> NoEntry] /\ channel = [c \in Channel |-> Free]
  BY DEF Init
<1> PICK s : s = Now
  OBVIOUS
<1>2. /\ IsDrive(s) /\ s.bam = {} /\ s.saved = {} /\ s.next = [b \in Block |-> NoBlock]
      /\ s.dir = [e \in Slot |-> NoEntry] /\ s.channel = [c \in Channel |-> Free]
  BY <1>1, NowIs
<1>3. Typed(s)
  BY <1>2 DEF Typed, MaybeBlock
<1>4. \A o : ~IsFile(s, o) /\ ~Writes(s, o)
  BY <1>2 DEF IsFile, Writes
<1>5. Owners(s) = {}
  BY <1>4 DEF Owners
<1>6. Paths(s) /\ Channeled(s) /\ OnImage(s)
  BY <1>4, <1>5 DEF Paths, Channeled, OnImage
<1>7. Exact(s)
  BY <1>2, <1>5 DEF Exact, AllOwned
<1> QED BY <1>3, <1>6, <1>7 DEF Intact, Sound

\* The inductive invariant.  Of a spoiled disk nothing is claimed; it stays spoiled.
IInv == ~spoiled => IF torn THEN Cut ELSE Intact

\* No step mends a spoiled disk.
LEMMA SpoiledStays ==
  ASSUME [Next]_vars
  PROVE  ~spoiled' => ~spoiled
<1>1. CASE \E c \in Channel, n \in Name : OpenNew(c, n) \/ OpenReplace(c, n) \/ OpenAppend(c, n)
  BY <1>1 DEF OpenNew, OpenReplace, OpenAppend, Opened, GoesOn
<1>2. CASE \E c \in Channel, d \in Datum : Put(c, d) \/ PutNext(c, d)
  BY <1>2 DEF Put, PutNext, flags
<1>3. CASE \E c \in Channel : Close(c) \/ KillInClose(c)
  BY <1>3 DEF Close, KillInClose, flags
<1>4. CASE \E n \in Name : Scratch(n) \/ KillInScratch(n)
  BY <1>4 DEF Scratch, KillInScratch, flags
<1>5. CASE \E n, m \in Name : Rename(n, m) \/ Copy(n, <<m>>) \/ KillInCopy(n, <<m>>)
  BY <1>5 DEF Rename, Copy, KillInCopy, GoesOn, flags
<1>6. CASE \E n, m, o \in Name : Copy(n, <<m, o>>) \/ KillInCopy(n, <<m, o>>)
  BY <1>6 DEF Copy, KillInCopy, GoesOn
<1>7. CASE \E e \in Slot : KillInValidate(e)
  BY <1>7 DEF KillInValidate
<1>8. CASE Refused \/ Initialize \/ Detach \/ Validate \/ Kill
  BY <1>8 DEF Refused, Initialize, Detach, Validate, Kill, flags
<1>9. CASE UNCHANGED vars
  BY <1>9 DEF vars, flags
<1> QED BY <1>1, <1>2, <1>3, <1>4, <1>5, <1>6, <1>7, <1>8, <1>9 DEF Next

\* Writing a file to a torn disk spoils it.
LEMMA Spoils ==
  ASSUME torn, ~spoiled'
  PROVE  /\ \A c, n : ~OpenNew(c, n) /\ ~OpenReplace(c, n) /\ ~OpenAppend(c, n)
         /\ \A n, names : ~Copy(n, names) /\ ~KillInCopy(n, names)
<1>1. ~GoesOn
  BY DEF GoesOn
<1> QED BY <1>1 DEF OpenNew, OpenReplace, OpenAppend, Opened, Copy, KillInCopy

\* What holds after a step: the disk is torn then, or it is sound.
Mended == IF torn THEN Cut ELSE Intact

\* Every step on a sound disk leaves it sound, or torn if it is a kill in a command.
LEMMA IntactStep ==
  ASSUME Intact, ~torn, [Next]_vars
  PROVE  Mended'
<1>1. CASE \E c \in Channel, n \in Name : OpenNew(c, n) \/ OpenReplace(c, n) \/ OpenAppend(c, n)
  <2>1. Intact'
    BY <1>1, OpenNewKeeps, OpenReplaceKeeps, OpenAppendKeeps
  <2>2. torn' = torn
    BY <1>1 DEF OpenNew, OpenReplace, OpenAppend, Opened
  <2> QED BY <2>1, <2>2 DEF Mended
<1>2. CASE \E c \in Channel, d \in Datum : Put(c, d) \/ PutNext(c, d)
  <2>1. Intact'
    BY <1>2, PutKeeps, PutNextKeeps
  <2>2. torn' = torn
    BY <1>2 DEF Put, PutNext, flags
  <2> QED BY <2>1, <2>2 DEF Mended
<1>3. ASSUME NEW c \in Channel, Close(c) PROVE Mended'
  <2>1. Intact' /\ torn' = torn
    BY <1>3, CloseKeeps DEF Close, flags
  <2> QED BY <2>1 DEF Mended
<1>4. ASSUME NEW n, Scratch(n) PROVE Mended'
  <2>1. Intact' /\ torn' = torn
    BY <1>4, ScratchKeeps DEF Scratch, flags
  <2> QED BY <2>1 DEF Mended
<1>5. ASSUME NEW n, NEW m, Rename(n, m) PROVE Mended'
  <2>1. Intact' /\ torn' = torn
    BY <1>5, RenameKeeps DEF Rename, flags
  <2> QED BY <2>1 DEF Mended
<1>6. ASSUME NEW n, NEW names, Copy(n, names) PROVE Mended'
  <2>1. Intact' /\ torn' = torn
    BY <1>6, CopyKeeps DEF Copy
  <2> QED BY <2>1 DEF Mended
<1>7. CASE Refused \/ Initialize \/ Detach
  <2>1. Intact' /\ torn' = torn
    BY <1>7, RefusedKeeps, InitializeKeeps, DetachKeeps DEF Refused, Initialize, Detach, flags
  <2> QED BY <2>1 DEF Mended
<1>8. CASE Validate
  <2>1. Intact' /\ ~torn'
    BY <1>8, ValidateKeeps DEF Validate
  <2> QED BY <2>1 DEF Mended
<1>9. CASE Kill
  <2>1. Intact' /\ ~torn'
    BY <1>9, KillKeeps DEF Kill, Ends
  <2> QED BY <2>1 DEF Mended
<1>10. ASSUME NEW c \in Channel, KillInClose(c) PROVE Mended'
  BY <1>10, KillInCloseTears DEF Mended
<1>11. ASSUME NEW n, KillInScratch(n) PROVE Mended'
  BY <1>11, KillInScratchTears DEF Mended
<1>12. ASSUME NEW n, NEW names, KillInCopy(n, names) PROVE Mended'
  BY <1>12, KillInCopyTears DEF Mended
<1>13. ASSUME NEW e \in Slot, KillInValidate(e) PROVE Mended'
  BY <1>13, KillInValidateKeeps DEF Mended
<1>14. CASE UNCHANGED vars
  <2>1. Now' = Now /\ leaky' = leaky /\ torn' = torn
    BY <1>14 DEF vars, flags, Now
  <2>2. Intact'
    BY <2>1 DEF Intact
  <2> QED BY <2>1, <2>2 DEF Mended
<1> QED BY <1>1, <1>2, <1>3, <1>4, <1>5, <1>6, <1>7, <1>8, <1>9, <1>10, <1>11, <1>12, <1>13,
           <1>14 DEF Next

\* Every step on a torn disk that does not spoil it leaves it as torn, or validates it.
LEMMA CutStep ==
  ASSUME Cut, torn, ~spoiled', [Next]_vars
  PROVE  Mended'
<1> PICK s : s = Now
  OBVIOUS
<1>1. /\ Typed(s) /\ \A c \in Channel : channel[c] = Free /\ s.channel[c] = Free
  BY TornFiles, NowIs DEF Cut, Torn
<1>2. ASSUME NEW r, Becomes(r), Alike(s, r), leaky' = leaky, torn' = torn PROVE Mended'
  BY <1>2, AlikeCut DEF Mended
<1>3. ASSUME Rereads(s, Now'), ~leaky' => ~leaky, torn' PROVE Mended'
  BY <1>3, RereadCut DEF Mended
<1>4. CASE Refused
  <2>1. Becomes(Error(s)) /\ leaky' = leaky /\ torn' = torn
    BY <1>4 DEF Refused, flags
  <2>2. Alike(s, Error(s))
    BY <1>1, ErrorAlike
  <2> QED BY <1>2, <2>1, <2>2
<1>5. ASSUME NEW n, NEW m, Rename(n, m) PROVE Mended'
  <2> PICK e : e = Min(Entries(n))
    OBVIOUS
  <2> PICK r : r = [s EXCEPT !.dir[e].name = m, !.code = "ok"]
    OBVIOUS
  <2>1. Becomes(r) /\ leaky' = leaky /\ torn' = torn
    BY <1>5 DEF Rename, flags
  <2>2. e \in Slot /\ s.dir[e] # NoEntry
    BY <1>5, EntryFound, NowIs DEF Rename
  <2>3. Alike(s, r)
    BY <1>1, <2>2, NameAlike, Zenon
  <2> QED BY <1>2, <2>1, <2>3, Zenon
<1>6. CASE Initialize \/ Detach
  <2>1. PICK x \in CloseAllChannels(s) : \/ Becomes([x EXCEPT !.bam = x.saved, !.code = "ok"])
                                         \/ Becomes([x EXCEPT !.bam = x.saved])
    BY <1>6 DEF Initialize, Detach
  <2>2. x = s
    BY <1>1, NothingToClose
  <2>3. PICK r : /\ Becomes(r)
                 /\ \/ r = [s EXCEPT !.bam = s.saved, !.code = "ok"]
                    \/ r = [s EXCEPT !.bam = s.saved]
    BY <2>1, <2>2, Zenon
  <2>4. IsDrive(s) /\ s.channel = [c \in Channel |-> Free]
    BY <1>1 DEF Typed
  <2>5. Rereads(s, r)
    BY <2>3, <2>4, RereadsFields, Zenon
  <2>6. Now' = r
    BY <2>3, <2>5, BecomesIs DEF Rereads
  <2>7. (~leaky' => ~leaky) /\ torn'
    <3>1. leaky' = leaky /\ torn' = torn
      BY <1>6 DEF Initialize, Detach, flags
    <3> QED BY <3>1
  <2>8. Rereads(s, Now')
    BY <2>5, <2>6, Zenon
  <2> QED BY <1>3, <2>7, <2>8, Zenon
<1>7. CASE Validate
  BY <1>7, ValidateMends DEF Mended
<1>8. CASE Kill
  <2>1. Ends(s, Writing # {}, FALSE)
    BY <1>8 DEF Kill
  <2>2. Rereads(s, Now') /\ leaky' = (leaky \/ Writing # {}) /\ torn' = (torn \/ FALSE)
    BY <1>1, <2>1, EndsIs DEF Typed
  <2>3. (~leaky' => ~leaky) /\ torn'
    BY <2>2
  <2> QED BY <1>3, <2>2, <2>3, Zenon
<1>9. ASSUME NEW n, Scratch(n) PROVE Mended'
  <2>1. Cut' /\ torn' = torn
    BY <1>9, ScratchCut DEF Scratch, flags
  <2> QED BY <2>1 DEF Mended
<1>10. ASSUME NEW n, KillInScratch(n) PROVE Mended'
  <2>1. Cut' /\ torn' = TRUE
    BY <1>10, KillInScratchCut DEF KillInScratch, Ends
  <2> QED BY <2>1 DEF Mended
<1>11. ASSUME NEW e \in Slot, KillInValidate(e) PROVE Mended'
  BY <1>11, KillInValidateCut DEF Mended
<1>12. CASE UNCHANGED vars
  <2>1. Now' = Now /\ leaky' = leaky /\ torn' = torn
    BY <1>12 DEF vars, flags, Now
  <2>2. Cut'
    BY <2>1 DEF Cut
  <2> QED BY <2>1, <2>2 DEF Mended
<1>13. \A c \in Channel : /\ ~Close(c) /\ ~KillInClose(c)
                          /\ \A d : ~Put(c, d) /\ ~PutNext(c, d)
  BY <1>1 DEF Close, KillInClose, Put, PutNext
<1> QED BY <1>4, <1>5, <1>6, <1>7, <1>8, <1>9, <1>10, <1>11, <1>12, <1>13, Spoils DEF Next

\* Together: the invariant is kept.
LEMMA NextSound ==
  ASSUME IInv, [Next]_vars
  PROVE  IInv'
<1> SUFFICES ASSUME ~spoiled' PROVE Mended'
  BY DEF IInv, Mended
<1>1. Mended
  BY SpoiledStays DEF IInv, Mended
<1> QED BY <1>1, IntactStep, CutStep DEF Mended

\* What the properties call the blocks of a file and of a channel.
LEMMA OwnedIs ==
  /\ \A e \in Slot : OwnedBy(e) = Owned(Now, e) /\ Chain(next, dir[e].first) = Path(Now, e)
  /\ \A o : o \in ClosedFiles <=> o \in Slot /\ IsFile(Now, o)
  /\ \A o : o \in Writing <=> o \in Channel /\ Writes(Now, o)
<1>1. ASSUME NEW e \in Slot
      PROVE  OwnedBy(e) = Owned(Now, e) /\ Chain(next, dir[e].first) = Path(Now, e)
  BY NowIs DEF OwnedBy, Owned, Path, Links, Start
<1>2. ASSUME NEW o
      PROVE  /\ o \in ClosedFiles <=> o \in Slot /\ IsFile(Now, o)
             /\ o \in Writing <=> o \in Channel /\ Writes(Now, o)
  BY NowIs DEF ClosedFiles, Writing, IsFile, Writes
<1> QED BY <1>1, <1>2

\* Likewise for a channel that writes.
LEMMA WrittenIs ==
  ASSUME Intact, NEW c \in Channel, Writes(Now, c)
  PROVE  WrittenBy(c) = Owned(Now, -c)
<1> PICK p, path : p = channel[c] /\ path = Path(Now, -c)
  OBVIOUS
<1>1. WriterIn(Now, c, p, path)
  BY WriterFacts, NowIs DEF Intact
<1>2. path = Chain([next EXCEPT ![p.track] = NoBlock], First(p))
  BY Numbers, NowIs DEF Path, Links, Start
<1>3. WrittenBy(c) = IF p.track = NoBlock THEN {} ELSE Range(path)
  BY <1>2, Zenon DEF WrittenBy, First, Replaces
<1>4. p.track = NoBlock => Range(path) = {}
  BY <1>1 DEF WriterIn, Range
<1> QED BY <1>3, <1>4 DEF Owned

\* The blocks in use are those that have owners.
LEMMA UsedIs ==
  ASSUME Intact
  PROVE  InUse = AllOwned(Now)
<1>1. ASSUME NEW b PROVE b \in InUse <=> b \in AllOwned(Now)
  <2>1. b \in InUse <=> \/ \E e \in Slot : IsFile(Now, e) /\ b \in Owned(Now, e)
                        \/ \E c \in Channel : Writes(Now, c) /\ b \in Owned(Now, -c)
    <3>1. b \in InUse <=> \/ \E e \in ClosedFiles : b \in OwnedBy(e)
                          \/ \E c \in Writing : b \in WrittenBy(c)
      BY DEF InUse
    <3>2. (\E e \in ClosedFiles : b \in OwnedBy(e))
            <=> \E e \in Slot : IsFile(Now, e) /\ b \in Owned(Now, e)
      BY OwnedIs
    <3>3. (\E c \in Writing : b \in WrittenBy(c))
            <=> \E c \in Channel : Writes(Now, c) /\ b \in Owned(Now, -c)
      BY OwnedIs, WrittenIs
    <3> QED BY <3>1, <3>2, <3>3
  <2>2. b \in AllOwned(Now) <=> \E o \in Owners(Now) : b \in Owned(Now, o)
    BY DEF AllOwned
  <2> QED BY <2>1, <2>2, OwnersAre
<1> QED BY <1>1

\* The first property, of a sound disk
LEMMA IntactIsDisjoint ==
  ASSUME Intact
  PROVE  FilesDisjoint
<1>1. Typed(Now) /\ Paths(Now)
  BY DEF Intact, Sound
<1>2. /\ \A e \in ClosedFiles : /\ e \in Slot /\ e \in Owners(Now) /\ OwnedBy(e) = Owned(Now, e)
                                /\ Chain(next, dir[e].first) = Path(Now, e)
      /\ \A c \in Writing : /\ c \in Channel /\ -c \in Owners(Now) /\ -c \notin Slot
                            /\ WrittenBy(c) = Owned(Now, -c) /\ -(-c) = c
  BY OwnedIs, WrittenIs, OwnersAre, Numbers
<1>3. \A e, f \in ClosedFiles : e # f => OwnedBy(e) \cap OwnedBy(f) = {}
  BY <1>1, <1>2 DEF Paths
<1>4. \A e \in ClosedFiles, c \in Writing : OwnedBy(e) \cap WrittenBy(c) = {}
  BY <1>1, <1>2 DEF Paths
<1>5. ASSUME NEW c \in Writing, NEW d \in Writing, c # d
      PROVE  WrittenBy(c) \cap WrittenBy(d) = {}
  <2>1. -c # -d
    BY <1>2, <1>5
  <2> QED BY <1>1, <1>2, <2>1 DEF Paths
<1>6. \A e \in ClosedFiles : IsInjective(Chain(next, dir[e].first))
  BY <1>1, <1>2 DEF Paths, Leads
<1>7. InUse \subseteq bam
  BY <1>1, UsedIs, NowIs DEF AllOwned, Paths
<1> QED BY <1>3, <1>4, <1>5, <1>6, <1>7 DEF FilesDisjoint

\* and of one that is torn.
LEMMA CutIsDisjoint ==
  ASSUME Cut, torn
  PROVE  FilesDisjoint
<1>1. Writing = {}
  BY OwnedIs, TornFiles DEF Cut
<1>2. \A e, f \in ClosedFiles : e # f => OwnedBy(e) \cap OwnedBy(f) = {}
  BY OwnedIs, TornFiles DEF Cut
<1>3. \A e \in ClosedFiles : IsInjective(Chain(next, dir[e].first))
  BY OwnedIs, TornFiles DEF Cut, Leads
<1> QED BY <1>1, <1>2, <1>3 DEF FilesDisjoint

\* The second one needs that no block is lost.
LEMMA IntactIsAccounted ==
  ASSUME Intact
  PROVE  SpaceAccounted
<1>1. ~leaky => bam \subseteq InUse
  BY UsedIs, NowIs DEF Intact, Exact
<1>2. ASSUME NEW e \in ClosedFiles, dir[e].first # NoBlock
      PROVE  dir[e].blocks = Len(Chain(next, dir[e].first))
  <2>1. e \in Slot /\ IsFile(Now, e) /\ Chain(next, dir[e].first) = Path(Now, e)
    BY OwnedIs
  <2> QED BY <1>2, <2>1, NowIs DEF Intact, Sound, OnImage
<1> QED BY <1>1, <1>2 DEF SpaceAccounted

\* On a torn disk the map may lack blocks, but has no others than those of files.
LEMMA CutIsAccounted ==
  ASSUME Cut
  PROVE  SpaceAccounted
<1>1. ASSUME ~leaky PROVE bam \subseteq InUse
  <2>1. \A b \in bam : \E e \in Slot : IsFile(Now, e) /\ b \in Owned(Now, e)
    BY <1>1, NowIs DEF Cut, TornExact
  <2>2. \A b \in bam : \E e \in ClosedFiles : b \in OwnedBy(e)
    BY <2>1, OwnedIs
  <2> QED BY <2>2 DEF InUse
<1>2. ASSUME NEW e \in ClosedFiles, dir[e].first # NoBlock
      PROVE  dir[e].blocks = Len(Chain(next, dir[e].first))
  <2>1. e \in Slot /\ IsFile(Now, e) /\ Chain(next, dir[e].first) = Path(Now, e)
    BY OwnedIs
  <2> QED BY <1>2, <2>1, TornFiles, NowIs DEF Cut
<1> QED BY <1>1, <1>2 DEF SpaceAccounted

\* Whatever programs do to the disk, and whenever the emulator is killed: every block has
\* at most one owner, is allocated as long as it has one, and the map on the image has
\* those of the closed files too.  A kill between the two writes of a command leaves files
\* that are chains of their own still, until a file is written before the disk is validated.
THEOREM FilesStaySound == Spec => []IInv
<1>1. Init => IInv
  BY InitSound DEF IInv, Init
<1>2. IInv /\ [Next]_vars => IInv'
  BY NextSound
<1> QED BY <1>1, <1>2, PTL DEF Spec

\* No block ever belongs to two files, or to a file and to a channel that writes one, nor
\* is it free in the map while it belongs to one: except on a disk that a kill in the
\* middle of Close, Copy or Scratch has torn, as to the map, until it is validated, and
\* altogether if files were written to it before.
THEOREM BlocksHaveOneOwner == Spec => []FilesDisjoint
<1>1. IInv => FilesDisjoint
  <2>1. CASE spoiled
    BY <2>1 DEF FilesDisjoint
  <2>2. CASE ~spoiled /\ torn
    BY <2>2, CutIsDisjoint DEF IInv
  <2>3. CASE ~spoiled /\ ~torn
    BY <2>3, IntactIsDisjoint DEF IInv
  <2> QED BY <2>1, <2>2, <2>3
<1> QED BY <1>1, FilesStaySound, PTL

\* As long as nothing was lost to a full disk or to a kill while a file was written the map
\* has no block allocated that nobody uses, and the directory shows the size of every file,
\* after a kill in the middle of Copy or Scratch as well; except on a spoiled disk.
THEOREM NoBlockIsLost == Spec => []SpaceAccounted
<1>1. IInv => SpaceAccounted
  <2>1. CASE spoiled
    BY <2>1 DEF SpaceAccounted
  <2>2. CASE ~spoiled /\ torn
    BY <2>2, CutIsAccounted DEF IInv
  <2>3. CASE ~spoiled /\ ~torn
    BY <2>3, IntactIsAccounted DEF IInv
  <2> QED BY <2>1, <2>2, <2>3
<1> QED BY <1>1, FilesStaySound, PTL

=============================================================================
