-------------------------- MODULE InterruptsProofs --------------------------
(***************************************************************************)
(* Proofs about Interrupts for any finite set of devices and any set of    *)
(* trap functions.  The inductive invariant adds to the properties that    *)
(* the CPU's copy of the pending kinds is empty outside DO_INTERRUPT.      *)
(***************************************************************************)
EXTENDS Interrupts, FiniteSetTheorems, TLAPS

\* The copy DO_INTERRUPT works off exists only while it runs.
CopyIsLocal == phase \in {"top", "opcode", "brk pushed"} => ik = {}

IInv ==
  /\ TypeOK
  /\ CopyIsLocal
  /\ LinesAgree
  /\ SpuriousIRQExpires
  /\ NMIKeepsPriority
  /\ TrapIsOwed

\* The type invariant in parts, as the provers take them.
NumbersOK ==
  /\ nirq \in Nat /\ nnmi \in Nat
  /\ irqAge \in 0..Old /\ nmiAge \in 0..Old /\ pendLeft \in 0..Never
SetsOK ==
  /\ irq \subseteq Devices /\ nmi \subseteq Devices
  /\ flags \subseteq Kinds /\ ik \subseteq Kinds
  /\ slot \in Traps \union {NoTrap} /\ owed \subseteq Traps
  /\ op \in Ops /\ phase \in Phases
BooleansOK ==
  /\ iflag \in BOOLEAN /\ jammed \in BOOLEAN /\ atJam \in BOOLEAN
  /\ armed \in BOOLEAN

LEMMA TypeParts == TypeOK <=> NumbersOK /\ SetsOK /\ BooleansOK
BY DEF TypeOK, NumbersOK, SetsOK, BooleansOK

LEMMA TypePartsNext == (NumbersOK /\ SetsOK /\ BooleansOK)' => TypeOK'
BY TypeParts, PTL

\* The devices that hold a line can be counted.
LEMMA Countable ==
  ASSUME NEW S \in SUBSET Devices
  PROVE  /\ IsFiniteSet(S) /\ Cardinality(S) \in Nat
         /\ Cardinality(S) = 0 <=> S = {}
         /\ \A d \in Devices \ S : Cardinality(S \union {d}) = Cardinality(S) + 1
         /\ \A d \in S : Cardinality(S \ {d}) = Cardinality(S) - 1
<1>1. IsFiniteSet(S)
  BY InterruptsAssumption, FS_Subset
<1>2. Cardinality(S) \in Nat /\ (Cardinality(S) = 0 <=> S = {})
  BY <1>1, FS_CardinalityType, FS_EmptySet
<1>3. \A d \in Devices \ S : Cardinality(S \union {d}) = Cardinality(S) + 1
  BY <1>1, FS_AddElement
<1>4. \A d \in S : Cardinality(S \ {d}) = Cardinality(S) - 1
  BY <1>1, FS_RemoveElement
<1> QED BY <1>1, <1>2, <1>3, <1>4

\* Time passes without leaving the ranges, and never takes a deadline away.
LEMMA Passing ==
  /\ \A a \in 0..Old, n \in Nat : Older(a, n) \in 0..Old /\ Older(a, n) >= a
  /\ \A a \in 0..Old : Older(a, 5) >= Delay
  /\ Never \in 0..Never
  /\ \A p \in 0..Never, n \in Nat :
        Sooner(p, n) \in 0..Never /\ (p # Never => Sooner(p, n) # Never)
BY SMT DEF Older, Sooner, Old, Never, Delay

LEMMA InitSafe == Init => IInv
<1> SUFFICES ASSUME Init PROVE IInv
  OBVIOUS
<1>1. TypeOK
  <2>1. NumbersOK
    BY DEF Init, NumbersOK, Old, Never, Delay
  <2>2. SetsOK
    BY DEF Init, SetsOK, Kinds, Ops, Phases
  <2>3. BooleansOK
    BY Zenon DEF Init, BooleansOK
  <2> QED BY <2>1, <2>2, <2>3, TypeParts
<1>2. LinesAgree
  <2>1. irq = {} /\ nmi = {} /\ nirq = 0 /\ nnmi = 0 /\ flags = {}
    BY DEF Init
  <2>2. Cardinality({}) = 0
    BY FS_EmptySet
  <2> QED BY <2>1, <2>2 DEF LinesAgree
<1>3. CopyIsLocal /\ SpuriousIRQExpires /\ NMIKeepsPriority /\ TrapIsOwed
  BY DEF Init, CopyIsLocal, SpuriousIRQExpires, NMIKeepsPriority, TrapIsOwed
<1> QED BY <1>1, <1>2, <1>3 DEF IInv

-----------------------------------------------------------------------------
(* The devices *)

LEMMA RaiseIRQSafe ==
  ASSUME IInv, NEW d \in Devices, RaiseIRQ(d) PROVE IInv'
<1> USE DEF RaiseIRQ, IInv
<1>1. TypeOK'
  <2>0. NumbersOK /\ SetsOK /\ BooleansOK
    BY TypeParts
  <2>1. NumbersOK'
    BY <2>0 DEF NumbersOK, Never, Old, Delay
  <2>2. SetsOK'
    BY <2>0 DEF SetsOK, Kinds, cpu, user
  <2>3. BooleansOK'
    BY <2>0, Zenon DEF BooleansOK, cpu, user
  <2> QED BY <2>1, <2>2, <2>3, TypePartsNext
<1>2. LinesAgree'
  <2>1. irq \in SUBSET Devices /\ d \in Devices \ irq
    BY DEF TypeOK
  <2>2. Cardinality(irq') = Cardinality(irq) + 1
    BY <2>1, Countable
  <2> QED BY <2>2 DEF LinesAgree, Deaf, cpu
<1>3. SpuriousIRQExpires'
  BY DEF SpuriousIRQExpires
<1>4. (CopyIsLocal /\ NMIKeepsPriority /\ TrapIsOwed)'
  BY DEF CopyIsLocal, NMIKeepsPriority, TrapIsOwed, user
<1> QED BY <1>1, <1>2, <1>3, <1>4

LEMMA DropIRQSafe ==
  ASSUME IInv, NEW d \in Devices, DropIRQ(d) PROVE IInv'
<1> USE DEF DropIRQ, IInv
<1>0. /\ irq \in SUBSET Devices /\ irq' \in SUBSET Devices
      /\ d \in irq /\ nirq = Cardinality(irq)
  BY DEF TypeOK, LinesAgree
<1>1. Cardinality(irq') = nirq' /\ nirq' \in Nat /\ (nirq' = 0 <=> irq' = {})
  BY <1>0, Countable
<1>2. TypeOK'
  <2>0. NumbersOK /\ SetsOK /\ BooleansOK
    BY TypeParts
  <2>1. NumbersOK'
    BY <1>0, <1>1, <2>0 DEF NumbersOK, Never, Old, Delay
  <2>2. SetsOK'
    BY <1>0, <1>1, <2>0 DEF SetsOK, Kinds, cpu, user
  <2>3. BooleansOK'
    BY <2>0, Zenon DEF BooleansOK, cpu, user
  <2> QED BY <2>1, <2>2, <2>3, TypePartsNext
<1>3. LinesAgree'
  BY <1>0, <1>1 DEF LinesAgree, Deaf, cpu
<1>4. SpuriousIRQExpires'
  BY <1>1 DEF SpuriousIRQExpires, Never, Old, Delay
<1>5. (CopyIsLocal /\ NMIKeepsPriority /\ TrapIsOwed)'
  BY DEF CopyIsLocal, NMIKeepsPriority, TrapIsOwed, user
<1> QED BY <1>2, <1>3, <1>4, <1>5

LEMMA RaiseNMISafe ==
  ASSUME IInv, NEW d \in Devices, RaiseNMI(d) PROVE IInv'
<1> USE DEF RaiseNMI, IInv
<1>1. TypeOK'
  <2>0. NumbersOK /\ SetsOK /\ BooleansOK
    BY TypeParts
  <2>1. NumbersOK'
    BY <2>0 DEF NumbersOK, Never, Old, Delay
  <2>2. SetsOK'
    BY <2>0 DEF SetsOK, Kinds, cpu, user
  <2>3. BooleansOK'
    BY <2>0, Zenon DEF BooleansOK, cpu, user
  <2> QED BY <2>1, <2>2, <2>3, TypePartsNext
<1>2. LinesAgree'
  <2>1. nmi \in SUBSET Devices /\ d \in Devices \ nmi
    BY DEF TypeOK
  <2>2. Cardinality(nmi') = Cardinality(nmi) + 1
    BY <2>1, Countable
  <2>3. "IRQ" \in flags' <=> "IRQ" \in flags
    OBVIOUS
  <2> QED BY <2>2, <2>3 DEF LinesAgree, Deaf, cpu
<1>3. (SpuriousIRQExpires /\ TrapIsOwed)'
  <2>1. flags' \ {"NMI"} = flags \ {"NMI"}
    OBVIOUS
  <2>2. UNCHANGED <<irq, pendLeft, slot, owed>>
    BY DEF user
  <2> QED BY <2>1, <2>2 DEF SpuriousIRQExpires, TrapIsOwed
<1>4. (CopyIsLocal /\ NMIKeepsPriority)'
  BY DEF CopyIsLocal, NMIKeepsPriority
<1> QED BY <1>1, <1>2, <1>3, <1>4

LEMMA DropNMISafe ==
  ASSUME IInv, NEW d \in Devices, DropNMI(d) PROVE IInv'
<1> USE DEF DropNMI, IInv
<1>0. /\ nmi \in SUBSET Devices /\ nmi' \in SUBSET Devices
      /\ d \in nmi /\ nnmi = Cardinality(nmi)
  BY DEF TypeOK, LinesAgree
<1>1. Cardinality(nmi') = nnmi' /\ nnmi' \in Nat
  BY <1>0, Countable
<1>2. TypeOK'
  <2>0. NumbersOK /\ SetsOK /\ BooleansOK
    BY TypeParts
  <2>1. NumbersOK'
    BY <1>0, <1>1, <2>0 DEF NumbersOK, clocks
  <2>2. SetsOK'
    BY <1>0, <1>1, <2>0 DEF SetsOK, cpu, user
  <2>3. BooleansOK'
    BY <2>0, Zenon DEF BooleansOK, cpu, user
  <2> QED BY <2>1, <2>2, <2>3, TypePartsNext
<1>3. LinesAgree'
  BY <1>1 DEF LinesAgree, Deaf, cpu
<1>4. (SpuriousIRQExpires /\ CopyIsLocal /\ NMIKeepsPriority /\ TrapIsOwed)'
  BY DEF SpuriousIRQExpires, CopyIsLocal, NMIKeepsPriority, TrapIsOwed, clocks,
         user
<1> QED BY <1>2, <1>3, <1>4

-----------------------------------------------------------------------------
(* The user *)

LEMMA TriggerTrapSafe ==
  ASSUME IInv, NEW t \in Traps, TriggerTrap(t) PROVE IInv'
<1> USE DEF TriggerTrap, IInv
<1>1. TypeOK'
  <2>0. NumbersOK /\ SetsOK /\ BooleansOK
    BY TypeParts
  <2>1. NumbersOK'
    BY <2>0 DEF NumbersOK, lines, clocks
  <2>2. SetsOK'
    BY <2>0 DEF SetsOK, Kinds, lines, cpu
  <2>3. BooleansOK'
    BY <2>0, Zenon DEF BooleansOK, cpu
  <2> QED BY <2>1, <2>2, <2>3, TypePartsNext
<1>2. LinesAgree'
  BY DEF LinesAgree, Deaf, lines, cpu
<1>3. (SpuriousIRQExpires /\ CopyIsLocal /\ NMIKeepsPriority /\ TrapIsOwed)'
  BY DEF SpuriousIRQExpires, CopyIsLocal, NMIKeepsPriority, TrapIsOwed, lines,
         clocks
<1> QED BY <1>1, <1>2, <1>3

LEMMA TriggerResetSafe == ASSUME IInv, TriggerReset PROVE IInv'
<1> USE DEF TriggerReset, IInv
<1>1. TypeOK'
  <2>0. NumbersOK /\ SetsOK /\ BooleansOK
    BY TypeParts
  <2>1. NumbersOK'
    BY <2>0 DEF NumbersOK, lines, clocks
  <2>2. SetsOK'
    BY <2>0 DEF SetsOK, Kinds, lines, cpu, user
  <2>3. BooleansOK'
    BY <2>0, Zenon DEF BooleansOK, cpu, user
  <2> QED BY <2>1, <2>2, <2>3, TypePartsNext
<1>2. LinesAgree'
  BY DEF LinesAgree, Deaf, lines, cpu
<1>3. (SpuriousIRQExpires /\ CopyIsLocal /\ NMIKeepsPriority /\ TrapIsOwed)'
  BY DEF SpuriousIRQExpires, CopyIsLocal, NMIKeepsPriority, TrapIsOwed, lines,
         clocks, user
<1> QED BY <1>1, <1>2, <1>3

\* A snapshot brings lines, counters and flags that agree.
LEMMA RestoreSafe ==
  ASSUME IInv, NEW s \in Snapshots, RestoreSnapshot(s),
         phase = "dispatch", phase' = phase, ik' \subseteq Kinds,
         owed' \subseteq Traps
  PROVE  IInv'
<1> USE DEF RestoreSnapshot, IInv
<1>0. /\ s.irq \in SUBSET Devices /\ s.nmi \in SUBSET Devices
      /\ s.iflag \in BOOLEAN
      /\ s.flags \subseteq {"IRQ", "IRQPEND", "NMI", "MONITOR"}
      /\ "IRQ" \in s.flags <=> s.irq # {}
  BY DEF Snapshots
<1>1. Cardinality(s.irq) \in Nat /\ Cardinality(s.nmi) \in Nat
  BY <1>0, Countable
<1>2. TypeOK'
  <2>0. NumbersOK /\ SetsOK /\ BooleansOK
    BY TypeParts
  <2>1. NumbersOK'
    BY <1>1 DEF NumbersOK, Never, Old, Delay
  <2>2. SetsOK'
    BY <1>0, <2>0 DEF SetsOK, Kinds, Ops
  <2>3. BooleansOK'
    BY <1>0, <2>0, Zenon DEF BooleansOK
  <2> QED BY <2>1, <2>2, <2>3, TypePartsNext
<1>3. LinesAgree'
  BY <1>0 DEF LinesAgree
<1>4. SpuriousIRQExpires'
  BY DEF SpuriousIRQExpires, Never, Old, Delay
<1>5. (CopyIsLocal /\ NMIKeepsPriority /\ TrapIsOwed)'
  BY <1>0 DEF CopyIsLocal, NMIKeepsPriority, TrapIsOwed
<1> QED BY <1>2, <1>3, <1>4, <1>5

LEMMA CommandSafe ==
  ASSUME IInv, NEW now, NEW left, Command(now, left),
         now \subseteq flags, flags \ now \subseteq {"TRAP"},
         left \subseteq owed, "TRAP" \in now => slot \in left,
         phase = "dispatch", phase' = phase, ik' \subseteq Kinds,
         "RESET" \in ik => "RESET" \in ik'
  PROVE  IInv'
<1> USE DEF IInv
<1>0. NumbersOK /\ SetsOK /\ BooleansOK
  BY TypeParts
<1>1. CASE \E s \in Snapshots : RestoreSnapshot(s) /\ owed' = left
  <2>1. owed' \subseteq Traps
    BY <1>0, <1>1 DEF SetsOK
  <2> QED BY <1>1, <2>1, RestoreSafe
<1>2. CASE ~ \E s \in Snapshots : RestoreSnapshot(s) /\ owed' = left
  <2>1. /\ UNCHANGED <<lines, clocks, iflag, op, jammed>>
        /\ atJam' = atJam \/ atJam' = FALSE
        /\ armed' \in {armed, TRUE, FALSE}
    BY <1>2 DEF Command, cpu
  <2>2. \/ slot' = slot /\ owed' = left
           /\ flags' \in {now, now \union {"RESET"}, now \union {"MONITOR"},
                          now \ {"MONITOR"}}
        \/ \E t \in Traps : slot' = t /\ owed' = left \union {t}
                            /\ flags' = now \union {"TRAP"}
    BY <1>2 DEF Command
  <2>3. TypeOK'
    <3>1. NumbersOK'
      BY <1>0, <2>1 DEF NumbersOK, lines, clocks
    <3>2. SetsOK'
      BY <1>0, <2>1, <2>2 DEF SetsOK, Kinds, lines
    <3>3. BooleansOK'
      BY <1>0, <2>1, Zenon DEF BooleansOK
    <3> QED BY <3>1, <3>2, <3>3, TypePartsNext
  <2>4. /\ "IRQ" \in flags' <=> "IRQ" \in flags
        /\ "IRQPEND" \in flags' <=> "IRQPEND" \in flags
    BY <2>2
  <2>5. LinesAgree'
    BY <2>1, <2>4 DEF LinesAgree, Deaf, lines
  <2>6. SpuriousIRQExpires'
    BY <2>1, <2>4 DEF SpuriousIRQExpires, lines, clocks
  <2>7. TrapIsOwed'
    BY <2>2 DEF TrapIsOwed
  <2>8. (CopyIsLocal /\ NMIKeepsPriority)'
    BY DEF CopyIsLocal, NMIKeepsPriority
  <2> QED BY <2>3, <2>5, <2>6, <2>7, <2>8
<1> QED BY <1>1, <1>2

-----------------------------------------------------------------------------
(* The CPU *)

LEMMA PollSafe == ASSUME IInv, Poll PROVE IInv'
<1> USE DEF IInv
<1>0. NumbersOK /\ SetsOK /\ BooleansOK
  BY TypeParts
<1> DEFINE now == Taken(flags)
           serve == NMIReady(now) \/ IRQReady(now)
<1>a. /\ ik' = now /\ now \subseteq flags /\ flags' \subseteq now \union {"IRQPEND"}
      /\ now \subseteq flags'
      /\ UNCHANGED <<lines, op, atJam, user>>
      /\ ik = {}
      /\ "RESET" \in flags <=> "RESET" \in now
  BY DEF Poll, Taken, Unjam, Expired, CopyIsLocal
<1>b. /\ jammed' = (jammed /\ "RESET" \notin flags)
      /\ phase' \in {"pushed", "dispatch", "opcode"}
      /\ phase' = "pushed" <=> serve
      /\ phase' = "opcode" => now = {}
  BY Zenon DEF Poll
<1>c. /\ irqAge' \in {irqAge, Older(irqAge, 5)}
      /\ nmiAge' = IF serve THEN Older(nmiAge, 5) ELSE nmiAge
      /\ pendLeft' \in {pendLeft, Sooner(pendLeft, 5), Never}
      /\ ~jammed /\ ~Expired(Unjam(flags)) /\ pendLeft' = Never =>
            pendLeft' \in {pendLeft, Sooner(pendLeft, 5)}
  BY DEF Poll
<1>d. iflag' = (iflag \/ serve)
  BY Zenon DEF Poll
<1>1. TypeOK'
  <2>1. NumbersOK'
    <3>1. UNCHANGED <<nirq, nnmi>>
      BY <1>a DEF lines
    <3>2. irqAge' \in 0..Old /\ nmiAge' \in 0..Old /\ pendLeft' \in 0..Never
      BY <1>0, <1>c, Passing DEF NumbersOK, Never, Old, Delay
    <3> QED BY <1>0, <3>1, <3>2 DEF NumbersOK
  <2>2. SetsOK'
    BY <1>0, <1>a, <1>b DEF SetsOK, Kinds, Phases, lines, user
  <2>3. BooleansOK'
    BY <1>0, <1>a, <1>b, <1>d, Zenon DEF BooleansOK, user
  <2> QED BY <2>1, <2>2, <2>3, TypePartsNext
<1>2. LinesAgree'
  <2>1. nirq' = Cardinality(irq') /\ nnmi' = Cardinality(nmi')
    BY <1>a DEF LinesAgree, lines
  <2>2. ASSUME ~Deaf' PROVE "IRQ" \in flags' <=> irq' # {}
    <3>1. ~jammed
      BY <1>0, <1>a, <1>b, <2>2, Zenon DEF Deaf, BooleansOK
    <3>2. ~Deaf
      BY <1>a, <3>1 DEF Deaf
    <3>3. "IRQ" \in now <=> "IRQ" \in flags
      BY <3>1 DEF Taken, Unjam
    <3> QED BY <1>a, <3>2, <3>3 DEF LinesAgree, lines
  <2> QED BY <2>1, <2>2 DEF LinesAgree
<1>3. SpuriousIRQExpires'
  <2> SUFFICES ASSUME "IRQPEND" \in flags', irq = {} PROVE pendLeft' # Never
    BY <1>a DEF SpuriousIRQExpires, lines
  <2>1. "IRQ" \notin now
    BY <1>a DEF LinesAgree, Deaf, Taken, Unjam
  <2>2. "IRQPEND" \in now
    BY <2>1 DEF Poll, IRQOffered
  <2>3. ~jammed /\ ~Expired(Unjam(flags))
    BY <2>2 DEF Taken, Unjam
  <2>4. pendLeft # Never
    BY <1>a, <2>2 DEF SpuriousIRQExpires
  <2>5. pendLeft' \in {pendLeft, Sooner(pendLeft, 5)}
    BY <1>c, <2>3
  <2> QED BY <1>0, <2>4, <2>5, Passing DEF NumbersOK
<1>4. NMIKeepsPriority'
  <2> SUFFICES ASSUME phase' = "pushed", "NMI" \in ik'
               PROVE  "NMI" \in flags' /\ nmiAge' >= Delay
    BY DEF NMIKeepsPriority
  <2>1. nmiAge' = Older(nmiAge, 5)
    BY <1>b, <1>c
  <2> QED BY <1>0, <1>a, <2>1, Passing DEF NumbersOK
<1>5. CopyIsLocal'
  BY <1>a, <1>b DEF CopyIsLocal
<1>6. TrapIsOwed'
  BY <1>a DEF TrapIsOwed, user
<1> QED BY <1>1, <1>2, <1>3, <1>4, <1>5, <1>6

LEMMA VectorSafe == ASSUME IInv, Vector PROVE IInv'
<1> USE DEF IInv
<1>0. /\ NumbersOK /\ SetsOK /\ BooleansOK
      /\ phase' = "dispatch" /\ op' = "brk"
      /\ UNCHANGED <<lines, iflag, jammed, atJam, user, ik>>
  BY TypeParts DEF Vector
<1>1. /\ irqAge' = Older(irqAge, 2) /\ nmiAge' = Older(nmiAge, 2)
      /\ \/ flags' = flags \ {"NMI"} /\ pendLeft' = Sooner(pendLeft, 2)
         \/ flags' = flags \ {"IRQPEND"} /\ pendLeft' = Never
  BY DEF Vector, AckIRQ, AckNMI, Cycles
<1>2. TypeOK'
  <2>1. NumbersOK'
    <3>1. irqAge' \in 0..Old /\ nmiAge' \in 0..Old /\ pendLeft' \in 0..Never
      BY <1>0, <1>1, Passing DEF NumbersOK, Never, Old, Delay
    <3> QED BY <1>0, <3>1 DEF NumbersOK, lines
  <2>2. SetsOK'
    BY <1>0, <1>1 DEF SetsOK, Phases, Ops, lines, user
  <2>3. BooleansOK'
    BY <1>0, Zenon DEF BooleansOK, user
  <2> QED BY <2>1, <2>2, <2>3, TypePartsNext
<1>3. LinesAgree'
  <2>1. "IRQ" \in flags' <=> "IRQ" \in flags
    BY <1>1
  <2> QED BY <1>0, <2>1 DEF LinesAgree, Deaf, lines
<1>4. SpuriousIRQExpires'
  BY <1>0, <1>1, Passing DEF SpuriousIRQExpires, lines, NumbersOK
<1>5. (CopyIsLocal /\ NMIKeepsPriority /\ TrapIsOwed)'
  BY <1>0, <1>1 DEF CopyIsLocal, NMIKeepsPriority, TrapIsOwed, user
<1> QED BY <1>2, <1>3, <1>4, <1>5

LEMMA DoTrapSafe == ASSUME IInv, DoTrap PROVE IInv'
<1>1. ik' \subseteq Kinds /\ ("RESET" \in ik => "RESET" \in ik')
  BY DEF DoTrap, IInv, TypeOK, Kinds
<1>2. /\ Command(flags \ {"TRAP"}, owed \ {slot})
      /\ phase = "dispatch" /\ phase' = phase
  BY DEF DoTrap
<1> QED BY <1>1, <1>2, CommandSafe

LEMMA DoMonitorSafe == ASSUME IInv, DoMonitor PROVE IInv'
<1>1. ik' \subseteq Kinds /\ ("RESET" \in ik => "RESET" \in ik')
  BY DEF DoMonitor, IInv, TypeOK, Kinds
<1>2. phase = "dispatch" /\ phase' = phase
  BY DEF DoMonitor
<1>3. CASE Command(flags, owed)
  BY <1>1, <1>2, <1>3, CommandSafe DEF IInv, TrapIsOwed
<1>4. CASE UNCHANGED <<lines, flags, clocks, cpu, user>>
  <2>1. Command(flags, owed)
    BY <1>4 DEF Command, user
  <2> QED BY <2>1, <1>3
<1> QED BY <1>3, <1>4 DEF DoMonitor

\* After cpu_reset nothing is pending but the monitor's flag.
LEMMA CpuResetSafe ==
  ASSUME IInv, CpuReset, op' \in Ops, phase' \in Phases, phase' # "pushed",
         ik' \subseteq Kinds, CopyIsLocal', UNCHANGED <<armed, owed>>
  PROVE  IInv'
<1> USE DEF IInv, CpuReset
<1>0. NumbersOK /\ SetsOK /\ BooleansOK
  BY TypeParts
<1>1. TypeOK'
  <2>1. NumbersOK'
    BY DEF NumbersOK, Never, Old, Delay
  <2>2. SetsOK'
    BY <1>0 DEF SetsOK
  <2>3. BooleansOK'
    BY <1>0, Zenon DEF BooleansOK
  <2> QED BY <2>1, <2>2, <2>3, TypePartsNext
<1>2. LinesAgree'
  <2>1. Cardinality({}) = 0
    BY FS_EmptySet
  <2>2. "IRQ" \notin flags' /\ irq' = {} /\ nmi' = {} /\ nirq' = 0 /\ nnmi' = 0
    OBVIOUS
  <2> QED BY <2>1, <2>2 DEF LinesAgree
<1>3. (SpuriousIRQExpires /\ NMIKeepsPriority /\ TrapIsOwed)'
  BY DEF SpuriousIRQExpires, NMIKeepsPriority, TrapIsOwed
<1> QED BY <1>1, <1>2, <1>3

LEMMA DoResetSafe == ASSUME IInv, DoReset PROVE IInv'
<1>1. /\ CpuReset /\ UNCHANGED <<armed, owed>>
      /\ op' \in Ops /\ phase' \in Phases /\ phase' = "dispatch"
      /\ ik' \subseteq Kinds
  BY DEF DoReset, IInv, TypeOK, Phases
<1>2. CopyIsLocal'
  BY <1>1 DEF CopyIsLocal
<1> QED BY <1>1, <1>2, CpuResetSafe

LEMMA EndInterruptSafe == ASSUME IInv, EndInterrupt PROVE IInv'
<1> USE DEF IInv, EndInterrupt
<1>0. NumbersOK /\ SetsOK /\ BooleansOK
  BY TypeParts
<1>1. /\ UNCHANGED <<lines, clocks, cpu, user>> /\ ik' = {} /\ phase' = "opcode"
      /\ flags' \subseteq flags /\ "RESET" \notin ik
      /\ "IRQ" \in flags' <=> "IRQ" \in flags
  OBVIOUS
<1>2. TypeOK'
  <2>1. NumbersOK'
    BY <1>0, <1>1 DEF NumbersOK, lines, clocks
  <2>2. SetsOK'
    BY <1>0, <1>1 DEF SetsOK, Phases, lines, cpu, user
  <2>3. BooleansOK'
    BY <1>0, <1>1, Zenon DEF BooleansOK, cpu, user
  <2> QED BY <2>1, <2>2, <2>3, TypePartsNext
<1>3. LinesAgree'
  BY <1>1 DEF LinesAgree, Deaf, lines, cpu
<1>4. (SpuriousIRQExpires /\ CopyIsLocal /\ NMIKeepsPriority /\ TrapIsOwed)'
  BY <1>1 DEF SpuriousIRQExpires, CopyIsLocal, NMIKeepsPriority, TrapIsOwed, lines,
              clocks, user
<1> QED BY <1>2, <1>3, <1>4

\* An opcode, or a part of one, lets time pass and serves at most one interrupt.
LEMMA OpcodeSafe ==
  ASSUME IInv, NEW n \in Nat,
         phase \in {"opcode", "brk pushed"}, phase' \in {"top", "brk pushed"},
         irqAge' = Older(irqAge, n), nmiAge' = Older(nmiAge, n),
         \/ flags' \in {flags, flags \ {"NMI"}} /\ pendLeft' = Sooner(pendLeft, n)
         \/ flags' = flags \ {"IRQPEND"} /\ pendLeft' = Never,
         op' \in Ops, iflag' \in BOOLEAN, atJam' \in BOOLEAN,
         jammed' \in {jammed, TRUE}, UNCHANGED <<lines, user, ik>>
  PROVE  IInv'
<1> USE DEF IInv
<1>0. NumbersOK /\ SetsOK /\ BooleansOK
  BY TypeParts
<1>1. TypeOK'
  <2>1. NumbersOK'
    <3>1. irqAge' \in 0..Old /\ nmiAge' \in 0..Old
      BY <1>0, Passing DEF NumbersOK
    <3>b. Sooner(pendLeft, n) \in 0..Never
      BY <1>0, Passing DEF NumbersOK
    <3>2. pendLeft' \in 0..Never
      BY <3>b, Passing
    <3> QED BY <1>0, <3>1, <3>2 DEF NumbersOK, lines
  <2>2. SetsOK'
    BY <1>0 DEF SetsOK, Phases, lines, user
  <2>3. BooleansOK'
    BY <1>0, Zenon DEF BooleansOK, user
  <2> QED BY <2>1, <2>2, <2>3, TypePartsNext
<1>2. LinesAgree'
  <2>1. "IRQ" \in flags' <=> "IRQ" \in flags
    OBVIOUS
  <2>2. ~Deaf' => ~Deaf
    BY <1>0, Zenon DEF Deaf, BooleansOK
  <2> QED BY <2>1, <2>2 DEF LinesAgree, lines
<1>3. SpuriousIRQExpires'
  BY <1>0, Passing DEF SpuriousIRQExpires, lines, NumbersOK
<1>4. (CopyIsLocal /\ NMIKeepsPriority /\ TrapIsOwed)'
  BY DEF CopyIsLocal, NMIKeepsPriority, TrapIsOwed, user
<1> QED BY <1>1, <1>2, <1>3, <1>4

LEMMA OpcodesSafe ==
  ASSUME IInv, Opcode \/ Brk \/ BrkVector PROVE IInv'
<1>0. NumbersOK /\ SetsOK /\ BooleansOK
  BY TypeParts DEF IInv
<1>1. CASE Opcode
  <2>1. PICK n \in {2, 3} : Cycles(n)
    BY <1>1 DEF Opcode
  <2>2. op' \in Ops /\ iflag' \in BOOLEAN
    BY <1>0, <1>1, Zenon DEF Opcode, OpcodeKind, Ops, BooleansOK
  <2>3. /\ UNCHANGED <<lines, flags, jammed, atJam, user, ik>>
        /\ phase = "opcode" /\ phase' = "top"
    BY <1>1 DEF Opcode
  <2>4. atJam' \in BOOLEAN
    BY <1>0, <2>3 DEF BooleansOK
  <2> QED BY <2>1, <2>2, <2>3, <2>4, OpcodeSafe DEF Cycles
<1>2. CASE Brk
  <2>1. Cycles(5) /\ op' \in Ops
    BY <1>2 DEF Brk, Ops
  <2>2. /\ UNCHANGED <<lines, flags, iflag, jammed, atJam, user, ik>>
        /\ phase = "opcode" /\ phase' = "brk pushed"
    BY <1>2 DEF Brk
  <2>3. iflag' \in BOOLEAN /\ atJam' \in BOOLEAN
    BY <1>0, <2>2 DEF BooleansOK
  <2> QED BY <2>1, <2>2, <2>3, OpcodeSafe DEF Cycles
<1>3. CASE BrkVector
  <2>1. /\ irqAge' = Older(irqAge, 2) /\ nmiAge' = Older(nmiAge, 2)
        /\ \/ flags' \in {flags, flags \ {"NMI"}} /\ pendLeft' = Sooner(pendLeft, 2)
           \/ flags' = flags \ {"IRQPEND"} /\ pendLeft' = Never
    BY <1>3 DEF BrkVector, AckNMI, AckIRQ, Cycles
  <2>2. /\ UNCHANGED <<lines, op, jammed, atJam, user, ik>> /\ iflag' = TRUE
        /\ phase = "brk pushed" /\ phase' = "top"
    BY <1>3 DEF BrkVector
  <2>3. op' \in Ops /\ iflag' \in BOOLEAN /\ atJam' \in BOOLEAN
    BY <1>0, <2>2 DEF BooleansOK, SetsOK
  <2> QED BY <2>1, <2>2, <2>3, OpcodeSafe
<1> QED BY <1>1, <1>2, <1>3

LEMMA JamSafe == ASSUME IInv, Jam PROVE IInv'
<1>0. /\ NumbersOK /\ SetsOK /\ BooleansOK
      /\ op' = "plain" /\ op' \in Ops /\ ik' = ik /\ ik' \subseteq Kinds
      /\ phase = "opcode" /\ phase' = "top" /\ phase' \in Phases
  BY TypeParts DEF Jam, IInv, SetsOK, Ops, Phases
<1>1. CASE /\ jammed' = TRUE /\ atJam' = TRUE /\ Cycles(1)
           /\ UNCHANGED <<lines, flags, iflag, user>>
  <2>1. iflag' \in BOOLEAN /\ atJam' \in BOOLEAN
    BY <1>0, <1>1 DEF BooleansOK
  <2> QED BY <1>0, <1>1, <2>1, OpcodeSafe DEF Cycles
<1>2. CASE CpuReset /\ UNCHANGED <<armed, owed>>
  <2>1. CopyIsLocal'
    BY <1>0 DEF IInv, CopyIsLocal
  <2> QED BY <1>0, <1>2, <2>1, CpuResetSafe
<1>3. CASE /\ jammed' = TRUE /\ atJam' \in BOOLEAN
           /\ UNCHANGED <<lines, clocks, flags, iflag, user>>
  <2>1. iflag' \in BOOLEAN /\ atJam' \in BOOLEAN
    BY <1>0, <1>3 DEF BooleansOK
  <2>2. Older(irqAge, 0) = irqAge /\ Older(nmiAge, 0) = nmiAge
    BY <1>0 DEF Older, NumbersOK, Old, Delay
  <2>3. Sooner(pendLeft, 0) = pendLeft
    BY <1>0 DEF Sooner, NumbersOK, Never, Old, Delay
  <2> QED BY <1>0, <1>3, <2>1, <2>2, <2>3, OpcodeSafe DEF clocks
<1> QED BY <1>1, <1>2, <1>3 DEF Jam

LEMMA StutterSafe == ASSUME IInv, UNCHANGED vars PROVE IInv'
<1>1. /\ UNCHANGED <<irq, nmi, nirq, nnmi>>
      /\ UNCHANGED <<flags, irqAge, nmiAge, pendLeft>>
      /\ UNCHANGED <<iflag, op, jammed, atJam>>
      /\ UNCHANGED <<slot, armed, owed, phase, ik>>
  BY DEF vars, lines, clocks, cpu, user
<1> QED BY <1>1 DEF IInv, TypeOK, CopyIsLocal, LinesAgree, Deaf,
           SpuriousIRQExpires, NMIKeepsPriority, TrapIsOwed

\* The invariant is inductive ...
LEMMA NextSafe == IInv /\ [Next]_vars => IInv'
<1> SUFFICES ASSUME IInv, [Next]_vars PROVE IInv'
  OBVIOUS
<1>1. CASE DeviceActs
  BY <1>1, RaiseIRQSafe, DropIRQSafe, RaiseNMISafe, DropNMISafe DEF DeviceActs
<1>2. CASE UserActs
  BY <1>2, TriggerTrapSafe, TriggerResetSafe DEF UserActs
<1>3. CASE CPU
  BY <1>3, PollSafe, VectorSafe, DoTrapSafe, DoResetSafe, DoMonitorSafe,
     EndInterruptSafe, OpcodesSafe, JamSafe DEF CPU
<1>4. CASE UNCHANGED vars
  BY <1>4, StutterSafe
<1> QED BY <1>1, <1>2, <1>3, <1>4 DEF Next

\* ... and holds throughout.
THEOREM Invariant == Spec => []IInv
BY InitSafe, NextSafe, PTL DEF Spec

-----------------------------------------------------------------------------
(* Theorems *)

\* Every variable of the interrupt status stays in its type, for any devices.
THEOREM TypeCorrect == Spec => []TypeOK
<1>1. IInv => TypeOK
  BY DEF IInv
<1> QED BY <1>1, Invariant, PTL

\* nirq and nnmi count the lines that are held, and IK_IRQ is set exactly while
\* one is, whatever order the calls, resets and snapshot loads come in.
THEOREM LinesAlwaysAgree == Spec => []LinesAgree
<1>1. IInv => LinesAgree
  BY DEF IInv
<1> QED BY <1>1, Invariant, PTL

\* An IRQ that was let go always has a deadline.
THEOREM SpuriousAlwaysExpires == Spec => []SpuriousIRQExpires
<1>1. IInv => SpuriousIRQExpires
  BY DEF IInv
<1> QED BY <1>1, Invariant, PTL

\* A service begun with an NMI takes the NMI vector.
THEOREM NMIPriority == Spec => []NMIKeepsPriority
<1>1. IInv => NMIKeepsPriority
  BY DEF IInv
<1> QED BY <1>1, Invariant, PTL

\* The CPU never calls a trap function that nobody is waiting for.
THEOREM TrapsAreOwed == Spec => []TrapIsOwed
<1>1. IInv => TrapIsOwed
  BY DEF IInv
<1> QED BY <1>1, Invariant, PTL

\* No step of the devices, the CPU or a reset takes IK_MONITOR away; a step that does
\* deletes the checkpoints or loads a snapshot.
MonitorStays == "MONITOR" \in flags /\ armed' => "MONITOR" \in flags'
Restores == \E s \in Snapshots : RestoreSnapshot(s)

LEMMA CommandKeepsMonitor ==
  ASSUME NEW now, NEW left, Command(now, left), "MONITOR" \in flags => "MONITOR" \in now
  PROVE  MonitorStays \/ Restores
<1>1. CASE flags' \in {now, now \union {"TRAP"}, now \union {"RESET"}, now \union {"MONITOR"}}
  BY <1>1 DEF MonitorStays
<1>2. CASE armed' = FALSE
  BY <1>2 DEF MonitorStays
<1>3. CASE Restores
  BY <1>3
<1> QED BY <1>1, <1>2, <1>3 DEF Command, Restores

LEMMA NextKeepsMonitor == [Next]_vars => MonitorStays \/ Restores
<1> SUFFICES ASSUME [Next]_vars PROVE MonitorStays \/ Restores
  OBVIOUS
<1>1. CASE DeviceActs \/ UserActs
  BY <1>1 DEF DeviceActs, RaiseIRQ, DropIRQ, RaiseNMI, DropNMI, UserActs, TriggerReset,
              TriggerTrap, MonitorStays
<1>2. CASE Poll
  <2>1. /\ flags' \in {Taken(flags), Taken(flags) \union {"IRQPEND"}}
    BY <1>2 DEF Poll
  <2>2. "MONITOR" \in flags => "MONITOR" \in Taken(flags)
    BY DEF Taken, Unjam
  <2> QED BY <2>1, <2>2 DEF MonitorStays
<1>3. CASE DoTrap
  BY <1>3, CommandKeepsMonitor DEF DoTrap
<1>4. CASE DoMonitor
  <2>1. CASE Command(flags, owed)
    BY <2>1, CommandKeepsMonitor
  <2>2. CASE UNCHANGED flags
    BY <2>2 DEF MonitorStays
  <2> QED BY <1>4, <2>1, <2>2 DEF DoMonitor
<1>5. CASE Vector \/ EndInterrupt \/ Opcode \/ Brk \/ BrkVector
  BY <1>5 DEF Vector, AckIRQ, AckNMI, EndInterrupt, Opcode, Brk, BrkVector, MonitorStays
<1>6. CASE DoReset \/ Jam
  BY <1>6 DEF DoReset, Jam, CpuReset, MonitorStays
<1>7. CASE UNCHANGED vars
  BY <1>7 DEF vars, MonitorStays
<1> QED BY <1>1, <1>2, <1>3, <1>4, <1>5, <1>6, <1>7 DEF Next, CPU

\* The checkpoints survive every reset, jam, trap and interrupt: only loading a snapshot
\* makes the CPU forget them while they exist.
THEOREM ResetsKeepMonitor == Spec => MonitorOutlivesReset
<1>1. [Next]_vars => [armed /\ "MONITOR" \in flags /\ armed' /\ "MONITOR" \notin flags'
                        => \E s \in Snapshots : RestoreSnapshot(s)]_vars
  BY NextKeepsMonitor DEF MonitorStays, Restores
<1> QED BY <1>1, PTL DEF Spec, MonitorOutlivesReset
=============================================================================
