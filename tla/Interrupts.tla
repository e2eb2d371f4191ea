----------------------------- MODULE Interrupts -----------------------------
(***************************************************************************)
(* The interrupt status of the main CPU: interrupt.h and interrupt.c, with *)
(* the two places that consume it, the head of the CPU loop and the BRK    *)
(* opcode of 6510core.c, and the reset and delay checks of maincpu.c.      *)
(*                                                                         *)
(* The devices pull lines from alarm callbacks and from opcodes' stores,   *)
(* the user (a UI handler, a trap function, the monitor) posts traps and   *)
(* resets, arms checkpoints and loads snapshots.  The CPU takes a copy of  *)
(* the pending kinds at each opcode boundary and works it off while all of *)
(* that goes on.                                                           *)
(*                                                                         *)
(* Clocks are kept as distances from the CPU clock: irqAge and nmiAge say  *)
(* how long ago a line was pulled and are not told apart beyond Old cycles,*)
(* pendLeft how long a released IRQ may still be taken.                    *)
(***************************************************************************)
EXTENDS Integers, FiniteSets

CONSTANTS
  Devices,          \* the chips with an interrupt number on this CPU
  Traps,            \* functions passed to interrupt_maincpu_trigger_trap
  NoTrap,           \* trap_func = NULL
  Inputs            \* what the user and the program do in this instance

AllInputs == {"irq", "nmi", "trap", "reset", "arm", "disarm", "restore", "go",
              "jam"}

ASSUME InterruptsAssumption ==
  /\ IsFiniteSet(Devices)
  /\ NoTrap \notin Traps
  /\ Inputs \subseteq AllInputs

VARIABLES
  irq, nmi,         \* devices whose pending_int has IK_IRQ, IK_NMI
  nirq, nnmi,       \* their numbers, as counted
  flags,            \* global_pending_int
  irqAge, nmiAge,   \* CLK - irq_clk, CLK - nmi_clk, at most Old
  pendLeft,         \* irq_pending_clk - CLK, or Never
  iflag,            \* the I flag of the status register
  op,               \* last_opcode_info
  jammed,           \* cpu_is_jammed
  atJam,            \* the PC points at a JAM opcode
  slot,             \* trap_func
  armed,            \* monitor_mask: a checkpoint exists
  phase,            \* where the CPU loop is
  ik,               \* the copy DO_INTERRUPT works off
  owed              \* traps triggered whose function was not called since

lines  == <<irq, nmi, nirq, nnmi>>
clocks == <<irqAge, nmiAge, pendLeft>>
cpu    == <<iflag, op, jammed, atJam>>
user   == <<slot, armed, owed>>
vars   == <<lines, flags, clocks, cpu, user, phase, ik>>

Kinds == {"IRQ", "IRQPEND", "NMI", "RESET", "TRAP", "MONITOR"}
Delay == 2                    \* INTERRUPT_DELAY
Old == Delay + 1              \* the longest delay: a taken branch adds one
Never == Old + 1              \* CLOCK_MAX
Ops == {"plain", "branch", "enables", "disables", "brk"}
Phases == {"top", "pushed", "dispatch", "opcode", "brk pushed"}

Older(age, n) == IF age + n > Old THEN Old ELSE age + n
Sooner(left, n) ==
  IF left = Never THEN Never ELSE IF left > n THEN left - n ELSE 0

\* The CPU clock advances by n cycles.
Cycles(n) ==
  /\ irqAge' = Older(irqAge, n)
  /\ nmiAge' = Older(nmiAge, n)
  /\ pendLeft' = Sooner(pendLeft, n)

Init ==
  /\ irq = {} /\ nmi = {} /\ nirq = 0 /\ nnmi = 0
  /\ flags = {}
  /\ irqAge = Old /\ nmiAge = Old /\ pendLeft = Never
  /\ iflag = TRUE /\ op = "plain" /\ jammed = FALSE /\ atJam = FALSE
  /\ slot = NoTrap /\ armed = FALSE /\ owed = {}
  /\ phase = "opcode" /\ ik = {}

-----------------------------------------------------------------------------
(* The devices, from alarm callbacks and stores: whenever alarms run. *)

AlarmsRun == phase \in {"top", "pushed", "opcode", "brk pushed"}

\* interrupt_set_irq with a value: the alarm may have been late by some cycles.
RaiseIRQ(d) ==
  /\ AlarmsRun /\ "irq" \in Inputs /\ d \notin irq
  /\ irq' = irq \union {d}
  /\ nirq' = nirq + 1
  /\ flags' = flags \union {"IRQ", "IRQPEND"}
  /\ pendLeft' = Never
  /\ irqAge' \in 0..Old
  /\ UNCHANGED <<nmi, nnmi, nmiAge, cpu, user, phase, ik>>

\* Mutant: the first device that lets go takes the CPU's flag away.
DropIRQFirst(d) ==
  /\ AlarmsRun /\ d \in irq
  /\ irq' = irq \ {d}
  /\ nirq' = nirq - 1
  /\ flags' = flags \ {"IRQ"}
  /\ pendLeft' \in 0..Old
  /\ UNCHANGED <<nmi, nnmi, irqAge, nmiAge, cpu, user, phase, ik>>

\* Mutant: no deadline for an IRQ that was let go.
DropIRQForever(d) ==
  /\ AlarmsRun /\ d \in irq
  /\ irq' = irq \ {d}
  /\ nirq' = nirq - 1
  /\ flags' = IF nirq' = 0 THEN flags \ {"IRQ"} ELSE flags
  /\ UNCHANGED <<nmi, nnmi, clocks, cpu, user, phase, ik>>

\* interrupt_set_irq without: the last device leaves a window of three cycles.
DropIRQ(d) ==
  /\ AlarmsRun /\ d \in irq
  /\ irq' = irq \ {d}
  /\ nirq' = nirq - 1
  /\ \/ nirq' # 0 /\ UNCHANGED <<flags, pendLeft>>
     \/ nirq' = 0 /\ flags' = flags \ {"IRQ"} /\ pendLeft' \in 0..3
  /\ UNCHANGED <<nmi, nnmi, irqAge, nmiAge, cpu, user, phase, ik>>

\* Mutant: a second device starts the NMI again.
RaiseNMIAgain(d) ==
  /\ AlarmsRun /\ "nmi" \in Inputs /\ d \notin nmi
  /\ nmi' = nmi \union {d}
  /\ nnmi' = nnmi + 1
  /\ flags' = flags \union {"NMI"} /\ nmiAge' \in 0..Old
  /\ UNCHANGED <<irq, nirq, irqAge, pendLeft, cpu, user, phase, ik>>

\* interrupt_set_nmi with a value: only the first line to go down is an edge.
RaiseNMI(d) ==
  /\ AlarmsRun /\ "nmi" \in Inputs /\ d \notin nmi
  /\ nmi' = nmi \union {d}
  /\ nnmi' = nnmi + 1
  /\ IF nnmi = 0 /\ "NMI" \notin flags
     THEN flags' = flags \union {"NMI"} /\ nmiAge' \in 0..Old
     ELSE UNCHANGED <<flags, nmiAge>>
  /\ UNCHANGED <<irq, nirq, irqAge, pendLeft, cpu, user, phase, ik>>

\* interrupt_set_nmi without: the edge stays until it is served.
DropNMI(d) ==
  /\ AlarmsRun /\ d \in nmi
  /\ nmi' = nmi \ {d}
  /\ nnmi' = nnmi - 1
  /\ UNCHANGED <<irq, nirq, flags, clocks, cpu, user, phase, ik>>

-----------------------------------------------------------------------------
(* The user *)

\* interrupt_maincpu_trigger_trap, from a UI handler while the machine waits in
\* an alarm callback (vsync): the slot is taken without a look.
TriggerTrap(t) ==
  /\ AlarmsRun /\ "trap" \in Inputs
  /\ flags' = flags \union {"TRAP"}
  /\ slot' = t
  /\ owed' = owed \union {t}
  /\ UNCHANGED <<lines, clocks, cpu, armed, phase, ik>>

\* interrupt_trigger_reset
TriggerReset ==
  /\ AlarmsRun /\ "reset" \in Inputs
  /\ flags' = flags \union {"RESET"}
  /\ UNCHANGED <<lines, clocks, cpu, user, phase, ik>>

\* A snapshot as a running machine leaves it: every chip's line, the counters and
\* the flags agree.  It is taken with no trap and no reset pending.
Snapshots ==
  {s \in [irq : SUBSET Devices, nmi : SUBSET Devices, iflag : BOOLEAN,
          flags : SUBSET {"IRQ", "IRQPEND", "NMI", "MONITOR"}] :
      "IRQ" \in s.flags <=> s.irq # {}}

\* machine_read_snapshot: the CPU module restores registers, counters, flags and
\* clocks, the chips their lines.  cpu_is_jammed, trap_func and monitor_mask are
\* not part of a snapshot.
RestoreSnapshot(s) ==
  /\ irq' = s.irq /\ nmi' = s.nmi
  /\ nirq' = Cardinality(s.irq) /\ nnmi' = Cardinality(s.nmi)
  /\ flags' = s.flags
  /\ irqAge' = Old /\ nmiAge' = Old
  /\ pendLeft' = IF s.irq = {} /\ "IRQPEND" \in s.flags THEN 3 ELSE Never
  /\ iflag' = s.iflag /\ op' = "plain" /\ atJam' = FALSE
  /\ UNCHANGED <<jammed, slot, armed>>

\* What a trap function or a monitor session does, one thing at a time, after the
\* CPU has set the flags to now and the traps still owed to left: nothing to this
\* state, post another trap or a reset (the pause loop lets the UI run), set or
\* delete the checkpoints, go on at another address, or load a snapshot.
Command(now, left) ==
  \/ /\ flags' = now /\ owed' = left
     /\ UNCHANGED <<lines, clocks, cpu, slot, armed>>
  \/ /\ "trap" \in Inputs
     /\ \E t \in Traps : slot' = t /\ owed' = left \union {t}
     /\ flags' = now \union {"TRAP"}
     /\ UNCHANGED <<lines, clocks, cpu, armed>>
  \/ /\ "reset" \in Inputs
     /\ flags' = now \union {"RESET"} /\ owed' = left
     /\ UNCHANGED <<lines, clocks, cpu, slot, armed>>
  \/ /\ "arm" \in Inputs
     /\ flags' = now \union {"MONITOR"} /\ armed' = TRUE /\ owed' = left
     /\ UNCHANGED <<lines, clocks, cpu, slot>>
  \/ /\ "disarm" \in Inputs
     /\ flags' = now \ {"MONITOR"} /\ armed' = FALSE /\ owed' = left
     /\ UNCHANGED <<lines, clocks, cpu, slot>>
  \/ /\ "go" \in Inputs
     /\ atJam' = FALSE /\ flags' = now /\ owed' = left
     /\ UNCHANGED <<lines, clocks, iflag, op, jammed, slot, armed>>
  \/ /\ "restore" \in Inputs
     /\ \E s \in Snapshots : RestoreSnapshot(s)
     /\ owed' = left

-----------------------------------------------------------------------------
(* The CPU *)

\* A jammed CPU drops its interrupts at every boundary.
Unjam(now) == IF jammed THEN now \ {"IRQ", "IRQPEND", "NMI"} ELSE now

\* An IRQ that was let go and not taken in time.
Expired(now) ==
  "IRQ" \notin now /\ "IRQPEND" \in now /\ pendLeft = 0

Taken(now) == IF Expired(Unjam(now)) THEN Unjam(now) \ {"IRQPEND"} ELSE Unjam(now)

\* interrupt_check_nmi_delay, interrupt_check_irq_delay
Wait == IF op = "branch" THEN Delay + 1 ELSE Delay
NMIReady(now) == "NMI" \in now /\ op # "brk" /\ nmiAge >= Wait
IRQOffered(now) ==
  /\ {"IRQ", "IRQPEND"} \intersect now # {}
  /\ ~iflag \/ op = "disables"
  /\ irqAge >= Wait
IRQReady(now) == IRQOffered(now) /\ op # "enables"

\* The head of the loop, up to the three pushes of DO_INTERRUPT if there is an
\* interrupt to serve.  An IRQ held back after CLI stays offered (IRQPEND).
Poll ==
  /\ phase = "top"
  /\ LET now == Taken(flags)
         serve == NMIReady(now) \/ IRQReady(now)
     IN
       /\ ik' = now
       /\ flags' = IF ~serve /\ IRQOffered(now) THEN now \union {"IRQPEND"}
                                                ELSE now
       /\ jammed' = (jammed /\ "RESET" \notin flags)
       /\ irqAge'   = IF serve THEN Older(irqAge, 5) ELSE irqAge
       /\ nmiAge'   = IF serve THEN Older(nmiAge, 5) ELSE nmiAge
       /\ pendLeft' = IF jammed \/ Expired(Unjam(flags)) THEN Never
                      ELSE IF serve THEN Sooner(pendLeft, 5) ELSE pendLeft
       /\ iflag' = (iflag \/ serve)
       /\ phase' = IF serve THEN "pushed"
                   ELSE IF now # {} THEN "dispatch" ELSE "opcode"
  /\ UNCHANGED <<lines, op, atJam, user>>

\* interrupt_ack_irq
AckIRQ ==
  /\ flags' = flags \ {"IRQPEND"}
  /\ pendLeft' = Never
  /\ irqAge' = Older(irqAge, 2) /\ nmiAge' = Older(nmiAge, 2)

\* interrupt_ack_nmi
AckNMI ==
  /\ flags' = flags \ {"NMI"}
  /\ Cycles(2)

\* DO_INTERRUPT picks the vector after the alarms that follow the pushes: an NMI
\* that came in meanwhile takes the service over.
Vector ==
  /\ phase = "pushed"
  /\ IF "NMI" \in flags /\ nmiAge >= Delay THEN AckNMI ELSE AckIRQ
  /\ op' = "brk"
  /\ phase' = "dispatch"
  /\ UNCHANGED <<lines, iflag, jammed, atJam, user, ik>>

\* interrupt_do_trap, first of the rest of DO_INTERRUPT; a reset ordered by then
\* is carried out by the same pass.
DoTrap ==
  /\ phase = "dispatch" /\ "TRAP" \in ik
  /\ Command(flags \ {"TRAP"}, owed \ {slot})
  /\ ik' = (ik \ {"TRAP"}) \union (flags' \intersect {"RESET"})
  /\ UNCHANGED phase

\* Mutant: cpu_reset keeps a pending trap as it keeps the monitor.
CpuResetKeepingTrap ==
  /\ irq' = {} /\ nmi' = {} /\ nirq' = 0 /\ nnmi' = 0
  /\ flags' = flags \intersect {"MONITOR", "TRAP"}
  /\ slot' = NoTrap
  /\ irqAge' = Old /\ nmiAge' = Old /\ pendLeft' = Never
  /\ iflag' = TRUE /\ jammed' = FALSE /\ atJam' = FALSE

\* Mutant: cpu_reset does not turn the monitor's flag on again.
CpuResetDroppingMonitor ==
  /\ irq' = {} /\ nmi' = {} /\ nirq' = 0 /\ nnmi' = 0
  /\ flags' = {}
  /\ slot' = NoTrap
  /\ irqAge' = Old /\ nmiAge' = Old /\ pendLeft' = Never
  /\ iflag' = TRUE /\ jammed' = FALSE /\ atJam' = FALSE

\* interrupt_ack_reset and cpu_reset: interrupt_cpu_status_reset clears every line,
\* counter and flag but IK_MONITOR, and the trap slot.
CpuReset ==
  /\ irq' = {} /\ nmi' = {} /\ nirq' = 0 /\ nnmi' = 0
  /\ flags' = flags \intersect {"MONITOR"}
  /\ slot' = NoTrap
  /\ irqAge' = Old /\ nmiAge' = Old /\ pendLeft' = Never
  /\ iflag' = TRUE /\ jammed' = FALSE /\ atJam' = FALSE

DoReset ==
  /\ phase = "dispatch" /\ "TRAP" \notin ik /\ "RESET" \in ik
  /\ CpuReset
  /\ ik' = ik \ {"RESET"}
  /\ UNCHANGED <<op, armed, owed, phase>>

\* Checkpoints are looked at, and the monitor entered if one is hit.
DoMonitor ==
  /\ phase = "dispatch" /\ ik \intersect {"TRAP", "RESET"} = {}
  /\ "MONITOR" \in ik
  /\ IF armed THEN Command(flags, owed)
     ELSE UNCHANGED <<lines, flags, clocks, cpu, user>>
  /\ ik' = ik \ {"MONITOR"}
  /\ UNCHANGED phase

\* After DO_INTERRUPT an IRQ that was let go is not offered any longer.
EndInterrupt ==
  /\ phase = "dispatch" /\ ik \intersect {"TRAP", "RESET", "MONITOR"} = {}
  /\ flags' = IF "IRQ" \in flags THEN flags ELSE flags \ {"IRQPEND"}
  /\ ik' = {}
  /\ phase' = "opcode"
  /\ UNCHANGED <<lines, clocks, cpu, user>>

\* What an opcode leaves in last_opcode_info and in the I flag.  RTI changes the
\* flag without saying so; CLI, PLP and SEI say so if they changed it.
\* Mutant: a CLI holds an IRQ back even when the flag was clear.
OpcodeKindCLIAlways ==
  \/ op' \in {"plain", "branch"} /\ UNCHANGED iflag
  \/ op' = "enables" /\ iflag' = FALSE
  \/ ~iflag /\ op' = "disables" /\ iflag' = TRUE
  \/ op' = "plain" /\ iflag' \in BOOLEAN
OpcodeKind ==
  \/ op' \in {"plain", "branch"} /\ UNCHANGED iflag
  \/ iflag /\ op' = "enables" /\ iflag' = FALSE
  \/ ~iflag /\ op' = "disables" /\ iflag' = TRUE
  \/ op' = "plain" /\ iflag' \in BOOLEAN

Opcode ==
  /\ phase = "opcode" /\ ~atJam
  /\ \E n \in {2, 3} : Cycles(n)
  /\ OpcodeKind
  /\ phase' = "top"
  /\ UNCHANGED <<lines, flags, jammed, atJam, user, ik>>

\* BRK, up to its pushes.
Brk ==
  /\ phase = "opcode" /\ ~atJam
  /\ Cycles(5)
  /\ op' = "brk"
  /\ phase' = "brk pushed"
  /\ UNCHANGED <<lines, flags, iflag, jammed, atJam, user, ik>>

\* Mutant: a BRK does not look for an NMI.
BrkVectorWithoutNMI ==
  /\ phase = "brk pushed"
  /\ IF {"IRQ", "IRQPEND"} \intersect flags # {} /\ ~iflag /\ irqAge >= Delay
     THEN AckIRQ
     ELSE Cycles(2) /\ UNCHANGED flags
  /\ iflag' = TRUE
  /\ phase' = "top"
  /\ UNCHANGED <<lines, op, jammed, atJam, user, ik>>

\* BRK can be taken over by an NMI or an IRQ.
BrkVector ==
  /\ phase = "brk pushed"
  /\ IF "NMI" \in flags /\ nmiAge >= Delay THEN AckNMI
     ELSE IF {"IRQ", "IRQPEND"} \intersect flags # {} /\ ~iflag /\ irqAge >= Delay
     THEN AckIRQ
     ELSE Cycles(2) /\ UNCHANGED flags
  /\ iflag' = TRUE
  /\ phase' = "top"
  /\ UNCHANGED <<lines, op, jammed, atJam, user, ik>>

\* A JAM opcode: the CPU stays on it.  machine_jam asks what to do; the answers are
\* to go on, to reset at once, and to enter the monitor.
Jam ==
  /\ phase = "opcode"
  /\ atJam \/ "jam" \in Inputs
  /\ \/ /\ jammed' = TRUE /\ atJam' = TRUE
        /\ Cycles(1)
        /\ UNCHANGED <<lines, flags, iflag, user>>
     \/ /\ "reset" \in Inputs
        /\ CpuReset
        /\ UNCHANGED <<armed, owed>>
     \/ /\ jammed' = TRUE
        /\ atJam' \in IF "go" \in Inputs THEN BOOLEAN ELSE {TRUE}
        /\ UNCHANGED <<lines, clocks, flags, iflag, user>>
  /\ op' = "plain"
  /\ phase' = "top"
  /\ UNCHANGED ik

-----------------------------------------------------------------------------
DeviceActs ==
  \E d \in Devices : RaiseIRQ(d) \/ DropIRQ(d) \/ RaiseNMI(d) \/ DropNMI(d)
UserActs == TriggerReset \/ \E t \in Traps : TriggerTrap(t)
CPU ==
  \/ Poll \/ Vector \/ DoTrap \/ DoReset \/ DoMonitor \/ EndInterrupt
  \/ Opcode \/ Brk \/ BrkVector \/ Jam

Next == DeviceActs \/ UserActs \/ CPU

Spec == Init /\ [][Next]_vars

\* The CPU loop never stops; nothing is assumed of the devices and the user.
FairSpec == Spec /\ WF_vars(CPU)

-----------------------------------------------------------------------------
(* Properties *)

\* Every variable stays in its type; the counters of held lines never go negative.
TypeOK ==
  /\ irq \subseteq Devices /\ nmi \subseteq Devices
  /\ nirq \in Nat /\ nnmi \in Nat
  /\ flags \subseteq Kinds /\ ik \subseteq Kinds
  /\ irqAge \in 0..Old /\ nmiAge \in 0..Old /\ pendLeft \in 0..Never
  /\ iflag \in BOOLEAN /\ op \in Ops /\ jammed \in BOOLEAN /\ atJam \in BOOLEAN
  /\ slot \in Traps \union {NoTrap} /\ armed \in BOOLEAN /\ owed \subseteq Traps
  /\ phase \in Phases

\* The CPU has been told to ignore its lines: it is jammed, or about to be reset.
Deaf == jammed \/ "RESET" \in ik

\* The two counters count the devices that hold a line, through resets, snapshots
\* and any order of calls, and the CPU sees an IRQ exactly while one does.
LinesAgree ==
  /\ nirq = Cardinality(irq) /\ nnmi = Cardinality(nmi)
  /\ ~Deaf => ("IRQ" \in flags <=> irq # {})

\* An IRQ is offered to the CPU after its line was let go only with a deadline:
\* no spurious interrupt is left over for code that runs much later.
SpuriousIRQExpires ==
  "IRQPEND" \in flags /\ irq = {} => pendLeft # Never

\* Once the CPU has begun a service with an NMI among its reasons it takes the NMI
\* vector: nothing a device does during the pushes diverts it to the IRQ vector
\* and leaves the NMI for later.
NMIKeepsPriority ==
  phase = "pushed" /\ "NMI" \in ik => "NMI" \in flags /\ nmiAge >= Delay

\* A trap that is pending has a function, and one somebody asked for since it was
\* last called: the CPU never calls NULL and never calls a trap twice.
TrapIsOwed == "TRAP" \in flags => slot \in owed

\* Only loading a snapshot or deleting the checkpoints stops the CPU from looking
\* at them; a reset does not.
MonitorOutlivesReset ==
  [][armed /\ "MONITOR" \in flags /\ armed' /\ "MONITOR" \notin flags'
       => \E s \in Snapshots : RestoreSnapshot(s)]_vars

\* An NMI edge is served (or dropped by a jam, a reset or a snapshot) in whatever
\* way opcodes, BRKs, IRQs and traps follow each other.
NMIServed == ("NMI" \in flags) ~> ("NMI" \notin flags)

\* A CPU that leaves its I flag clear takes an IRQ some device keeps up.
IRQServed ==
  \A S \in SUBSET Devices \ {{}} :
    (irq = S /\ ~iflag) ~> (irq # S \/ iflag \/ jammed)

\* interrupt.c: "`trap_func' will be called with PC as the argument when this
\* condition is detected": every function that was passed is still to be called.
TrapsKept == owed # {} => "TRAP" \in flags /\ owed = {slot}

\* While checkpoints exist the CPU looks at them at every opcode boundary, also
\* after a snapshot was loaded.
CheckpointsWatched == armed => "MONITOR" \in flags
=============================================================================
