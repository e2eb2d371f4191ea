----------------------------- MODULE FlashChip -----------------------------
(***************************************************************************)
(* A flash chip on a cartridge: core/flash040core.c, attached, detached,   *)
(* written back and put into snapshots as c64/cart/gmod2.c does.           *)
(*                                                                         *)
(* The program writes commands, sequences of stores to magic addresses.    *)
(* Programming clears bits at once; an erase takes time, and an alarm of   *)
(* the main CPU does it, sector by sector.  How long it takes is left out: *)
(* an alarm that is pending fires sooner or later.  A byte is the set of   *)
(* its bits.  Reading changes nothing that is modelled here.               *)
(***************************************************************************)
EXTENDS Integers, Sequences, FiniteSets, SequencesExt

CONSTANTS
  Sectors,        \* 0..n
  Addresses,      \* bound: the addresses the program uses
  Watched,        \* bound: those whose contents the model keeps
  SectorSize,     \* erase_sector_size of the chip's type
  Magic1, Magic2, \* the addresses for which flash_magic_1 and flash_magic_2 hold
  Data,           \* bound: the bytes the program lets the chip program
  ModifiedTo,     \* bound: the bytes a read-modify-write instruction writes
  SavedIn,        \* bound: the chip's state and the program's history when a snapshot
                  \* is written
  None,           \* model value: no file, no snapshot
  Inputs          \* "erasing" if the user changes cartridges while one is erased

ASSUME FlashChipAssumption ==
  /\ Sectors \subseteq Nat /\ SectorSize \in Nat \ {0}
  /\ Addresses \subseteq Nat /\ Watched \subseteq Addresses
  /\ \A a \in Addresses : a \div SectorSize \in Sectors
  /\ Magic1 \subseteq Addresses /\ Magic2 \subseteq Addresses
  /\ Inputs \subseteq {"erasing"}

VARIABLES
  chip,           \* the flash040_context_t
  stale,          \* the alarm of a chip that is gone is pending
  file,           \* the contents of the image file the chip came from, or None
  snap,           \* a snapshot, or None
  host            \* what the program has ordered: the stores that may belong to a
                  \* command, the sectors it has told the chip to erase, and whether
                  \* the last store followed a command to program

vars == <<chip, stale, file, snap, host>>

-----------------------------------------------------------------------------
(* Bytes and commands *)

\* flash_addr_to_sector_number
SectorOf(a) == a \div SectorSize

Byte == [xAA |-> {7, 5, 3, 1}, x55 |-> {6, 4, 2, 0}, x90 |-> {7, 4},
         xF0 |-> {7, 6, 5, 4}, xA0 |-> {7, 5}, x80 |-> {7}, x10 |-> {4},
         x30 |-> {5, 4}, xB0 |-> {7, 5, 4}]
Bytes == {Byte[n] : n \in DOMAIN Byte}
Erased == 0..7

\* A store that is part of a command, as the data sheet's table names it.
Is(a, b, magic, n) == a \in magic /\ b = Byte[n]
Token(a, b) ==
  IF Is(a, b, Magic1, "xAA") THEN "unlock 1"
  ELSE IF Is(a, b, Magic2, "x55") THEN "unlock 2"
  ELSE IF Is(a, b, Magic1, "xA0") THEN "program"
  ELSE IF Is(a, b, Magic1, "x80") THEN "setup"
  ELSE "other"

ProgramCommand == <<"unlock 1", "unlock 2", "program">>
EraseCommand == <<"unlock 1", "unlock 2", "setup", "unlock 1", "unlock 2">>

\* The longest end of the stores that begins one of the commands.
Begins(stores) == IsPrefix(stores, ProgramCommand) \/ IsPrefix(stores, EraseCommand)
Begun(stores) ==
  LET ends == {SubSeq(stores, i, Len(stores)) : i \in 1..Len(stores) + 1}
      begins == {e \in ends : Begins(e)}
  IN CHOOSE e \in begins : \A other \in begins : Len(other) <= Len(e)

\* The program stores b at a; after an order to erase, more sectors may follow.
Orders(h, a, b) ==
  LET erase == h.stores = EraseCommand
  IN [stores |-> Begun(Append(h.stores, Token(a, b))),
      adding |-> b = Byte["x30"] /\ (erase \/ h.adding),
      programs |-> h.stores = ProgramCommand,
      ordered |-> h.ordered \cup
        CASE erase /\ Is(a, b, Magic1, "x10") -> Sectors
          [] (erase \/ h.adding) /\ b = Byte["x30"] -> {SectorOf(a)}
          [] OTHER -> {}]
NoOrders == [stores |-> <<>>, adding |-> FALSE, programs |-> FALSE, ordered |-> {}]

-----------------------------------------------------------------------------
(* The chip *)

ErasingStates == {"SECTOR_ERASE_TIMEOUT", "SECTOR_ERASE", "CHIP_ERASE"}
States == ErasingStates \cup
          {"READ", "MAGIC_1", "MAGIC_2", "AUTOSELECT", "BYTE_PROGRAM",
           "BYTE_PROGRAM_ERROR", "ERASE_MAGIC_1", "ERASE_MAGIC_2", "ERASE_SELECT",
           "SECTOR_ERASE_SUSPEND"}

\* flash040core_init, and flash040core_reset of what a reset leaves alone.
Ready(data, dirty) ==
  [attached |-> TRUE, state |-> "READ", base |-> "READ", mask |-> {}, alarm |-> FALSE,
   data |-> data, dirty |-> dirty]
NoChip == [Ready([a \in Watched |-> Erased], FALSE) EXCEPT !.attached = FALSE]

\* flash_program_byte: bits can only be cleared.
Program(c, a, b) ==
  IF a \notin Watched
  THEN {[c EXCEPT !.dirty = TRUE, !.state = s] : s \in {c.base, "BYTE_PROGRAM_ERROR"}}
  ELSE LET new == c.data[a] \cap b
       IN {[c EXCEPT !.data[a] = new, !.dirty = TRUE,
                     !.state = IF new = b THEN c.base ELSE "BYTE_PROGRAM_ERROR"]}

\* Mutant: a store that does not go on with the command is passed over.
ExpectAnyway(c, here, n, b, next) ==
  IF here /\ b = Byte[n] THEN [c EXCEPT !.state = next] ELSE c

\* A store that does not go on with the command ends it.
Expect(c, here, n, b, next) ==
  [c EXCEPT !.state = IF here /\ b = Byte[n] THEN next ELSE c.base]

\* The third store of a command.
Select(c, here, b) ==
  CASE here /\ b = Byte["x90"] -> [c EXCEPT !.state = "AUTOSELECT", !.base = "AUTOSELECT"]
    [] here /\ b = Byte["xF0"] -> [c EXCEPT !.state = "READ", !.base = "READ"]
    [] here /\ b = Byte["xA0"] -> [c EXCEPT !.state = "BYTE_PROGRAM"]
    [] here /\ b = Byte["x80"] -> [c EXCEPT !.state = "ERASE_MAGIC_1"]
    [] OTHER -> [c EXCEPT !.state = c.base]

\* The sixth store of an erase.
SelectErase(c, a, b) ==
  CASE Is(a, b, Magic1, "x10") -> [c EXCEPT !.state = "CHIP_ERASE", !.alarm = TRUE]
    [] b = Byte["x30"] -> [c EXCEPT !.state = "SECTOR_ERASE_TIMEOUT", !.alarm = TRUE,
                                    !.mask = @ \cup {SectorOf(a)}]
    [] OTHER -> [c EXCEPT !.state = c.base]

\* A store while the chip waits for more sectors: any other byte ends the erase.
MoreSectors(c, a, b) ==
  IF b = Byte["x30"] THEN [c EXCEPT !.mask = @ \cup {SectorOf(a)}]
  ELSE [c EXCEPT !.state = c.base, !.mask = {}, !.alarm = FALSE]

\* In the autoselect mode and after an error a command or a reset may follow.
Leave(c, a, b) ==
  CASE Is(a, b, Magic1, "xAA") -> [c EXCEPT !.state = "MAGIC_1"]
    [] b = Byte["xF0"] -> [c EXCEPT !.state = "READ", !.base = "READ"]
    [] OTHER -> c

\* flash040core_store_internal: what the chip may be after the store.
Stored(c, a, b) ==
  CASE c.state = "READ" ->
         {IF Is(a, b, Magic1, "xAA") THEN [c EXCEPT !.state = "MAGIC_1"] ELSE c}
    [] c.state = "MAGIC_1" -> {Expect(c, a \in Magic2, "x55", b, "MAGIC_2")}
    [] c.state = "MAGIC_2" -> {Select(c, a \in Magic1, b)}
    [] c.state = "BYTE_PROGRAM" -> Program(c, a, b)
    [] c.state = "ERASE_MAGIC_1" -> {Expect(c, a \in Magic1, "xAA", b, "ERASE_MAGIC_2")}
    [] c.state = "ERASE_MAGIC_2" -> {Expect(c, a \in Magic2, "x55", b, "ERASE_SELECT")}
    [] c.state = "ERASE_SELECT" -> {SelectErase(c, a, b)}
    [] c.state = "SECTOR_ERASE_TIMEOUT" -> {MoreSectors(c, a, b)}
    [] c.state = "SECTOR_ERASE" ->
         {IF b = Byte["xB0"] THEN [c EXCEPT !.state = "SECTOR_ERASE_SUSPEND", !.alarm = FALSE]
                             ELSE c}
    [] c.state = "SECTOR_ERASE_SUSPEND" ->
         {IF b = Byte["x30"] THEN [c EXCEPT !.state = "SECTOR_ERASE", !.alarm = TRUE] ELSE c}
    [] c.state \in {"BYTE_PROGRAM_ERROR", "AUTOSELECT"} -> {Leave(c, a, b)}
    [] c.state = "CHIP_ERASE" -> {c}

\* What flash040core_read returns, as far as a store may give it back.
ReadBy(c, a) ==
  CASE c.state \in ErasingStates \cup {"SECTOR_ERASE_SUSPEND"} ->
         {toggle \cup (IF c.state = "SECTOR_ERASE_TIMEOUT" THEN {} ELSE {3}) :
            toggle \in {{}, {6}}}
    [] c.state = "BYTE_PROGRAM_ERROR" -> {{5} \cup bits : bits \in SUBSET {6, 7}}
    [] OTHER -> IF a \in Watched /\ c.state # "AUTOSELECT" THEN {c.data[a]}
                ELSE ModifiedTo \cup {Erased}

-----------------------------------------------------------------------------
(* The program *)

Init ==
  /\ file \in {[a \in Watched |-> Erased], [a \in Watched |-> {}]}
  /\ chip = Ready(file, FALSE)
  /\ stale = FALSE /\ snap = None /\ host = NoOrders

\* flash040core_store
Store(a, b) ==
  /\ chip.attached
  /\ chip.state = "BYTE_PROGRAM" => b \in Data
  /\ chip' \in Stored(chip, a, b)
  /\ host' = Orders(host, a, b)
  /\ UNCHANGED <<stale, file, snap>>

\* A read-modify-write instruction stores what it has read before it stores b.
Modify(a, b) ==
  /\ chip.attached /\ b \in ModifiedTo
  /\ \E old \in ReadBy(chip, a) :
       /\ \E between \in Stored(chip, a, old) : chip' \in Stored(between, a, b)
       /\ LET first == Orders(host, a, old) IN
            host' = [Orders(first, a, b) EXCEPT !.programs = @ \/ first.programs]
  /\ UNCHANGED <<stale, file, snap>>

\* flash040core_reset, at a reset of the machine.
Reset ==
  /\ chip.attached
  /\ chip' = Ready(chip.data, chip.dirty)
  /\ host' = NoOrders
  /\ UNCHANGED <<stale, file, snap>>

-----------------------------------------------------------------------------
(* The alarm: erase_alarm_handler *)

\* Mutant: an erase is not noticed as a change of the image.
EraseSectorsClean(c, sectors) ==
  [c EXCEPT !.data = [a \in Watched |-> IF SectorOf(a) \in sectors THEN Erased ELSE @[a]]]

\* flash_erase_sector, flash_erase_chip
EraseSectors(c, sectors) ==
  [c EXCEPT !.data = [a \in Watched |-> IF SectorOf(a) \in sectors THEN Erased ELSE @[a]],
            !.dirty = TRUE]

SectorTimeout ==
  /\ chip.alarm /\ chip.state = "SECTOR_ERASE_TIMEOUT"
  /\ chip' = [chip EXCEPT !.state = "SECTOR_ERASE"]
  /\ UNCHANGED <<stale, file, snap, host>>

\* Mutant: the alarm is armed for the first sector only.
RestArmedOnce(c) ==
  IF c.mask = {} THEN [c EXCEPT !.state = c.base, !.alarm = FALSE]
  ELSE [c EXCEPT !.alarm = FALSE]

\* The erase goes on with the next sector, or is over.
Rest(c) ==
  IF c.mask = {} THEN [c EXCEPT !.state = c.base, !.alarm = FALSE]
  ELSE c

SectorErased ==
  /\ chip.alarm /\ chip.state = "SECTOR_ERASE"
  /\ LET first == {s \in chip.mask : \A other \in chip.mask : s <= other}
     IN /\ chip' = Rest([EraseSectors(chip, first) EXCEPT !.mask = @ \ first])
        /\ host' = [host EXCEPT !.ordered = @ \ first]
  /\ UNCHANGED <<stale, file, snap>>

ChipErased ==
  /\ chip.alarm /\ chip.state = "CHIP_ERASE"
  /\ chip' = [EraseSectors(chip, Sectors) EXCEPT !.state = chip.base, !.alarm = FALSE]
  /\ host' = [host EXCEPT !.ordered = {}]
  /\ UNCHANGED <<stale, file, snap>>

Alarm == SectorTimeout \/ SectorErased \/ ChipErased

-----------------------------------------------------------------------------
(* The user: cartridges and snapshots *)

\* Without "erasing" the user waits for the end of an erase.
Waits == "erasing" \notin Inputs => ~chip.alarm

\* flash040core_shutdown leaves the alarm of the chip as it is.
Abandon == stale' = (stale \/ chip.alarm)

\* gmod2_detach; GMOD2FlashWrite decides whether a changed image is written back.
Detach(write) ==
  /\ chip.attached /\ Waits
  /\ file' = IF write /\ chip.dirty /\ file # None THEN chip.data ELSE file
  /\ chip' = NoChip /\ host' = NoOrders
  /\ Abandon
  /\ UNCHANGED snap

\* gmod2_config_setup and gmod2_config_init
Attach ==
  /\ ~chip.attached /\ file # None
  /\ chip' = Ready(file, FALSE)
  /\ UNCHANGED <<stale, file, snap, host>>

\* gmod2_flush_image does not make the image clean.
Flush ==
  /\ chip.attached /\ file # None
  /\ file' = chip.data
  /\ UNCHANGED <<chip, stale, snap, host>>

\* gmod2_snapshot_write_module
SaveSnapshot ==
  /\ chip.attached
  /\ <<chip.state, host>> \in SavedIn
  /\ snap = None
  /\ snap' = [state |-> chip.state, base |-> chip.base, mask |-> chip.mask,
              data |-> chip.data, host |-> host]
  /\ UNCHANGED <<chip, stale, file, host>>

\* Mutant: the alarm is not restored.
RestoredUnarmed(s) ==
  [Ready(s.data, FALSE) EXCEPT !.state = s.state, !.base = s.base, !.mask = s.mask]

\* flash040core_snapshot_read_module, into a chip that was just initialised.
Restored(s) ==
  [Ready(s.data, FALSE) EXCEPT !.state = s.state, !.base = s.base, !.mask = s.mask,
                               !.alarm = s.state \in ErasingStates]

\* The cartridge is detached, and a new one without a file takes its place; the
\* program goes on from where it was, too.
LoadSnapshot ==
  /\ snap # None /\ Waits
  /\ Abandon
  /\ chip' = Restored(snap)
  /\ host' = snap.host
  /\ file' = None
  /\ UNCHANGED snap

-----------------------------------------------------------------------------
Working ==
  \/ \E a \in Addresses, b \in Bytes : Store(a, b)
  \/ \E a \in Addresses, b \in Bytes : Modify(a, b)
  \/ Reset
  \/ Alarm

Next ==
  \/ Working
  \/ \E write \in BOOLEAN : Detach(write)
  \/ Attach \/ Flush \/ SaveSnapshot
  \/ LoadSnapshot

\* A pending alarm fires as the clock of the main CPU goes on.
Spec == Init /\ [][Next]_vars /\ WF_vars(Alarm)

-----------------------------------------------------------------------------
(* Properties *)

Contents == [Watched -> SUBSET Erased]
Chips == [attached : BOOLEAN, state : States, base : {"READ", "AUTOSELECT"},
          mask : SUBSET Sectors, alarm : BOOLEAN, data : Contents, dirty : BOOLEAN]
Tokens == {"unlock 1", "unlock 2", "program", "setup", "other"}
Histories == [stores : Seq(Tokens), adding : BOOLEAN, programs : BOOLEAN,
              ordered : SUBSET Sectors]
Snapshots == [state : States, base : {"READ", "AUTOSELECT"}, mask : SUBSET Sectors,
              data : Contents, host : Histories]

\* The types of the chip, the image file, the snapshot and the history.
TypeOK ==
  /\ chip \in Chips /\ stale \in BOOLEAN
  /\ file \in Contents \cup {None} /\ snap \in Snapshots \cup {None}
  /\ host \in Histories

\* A chip is busy if and only if its alarm is pending, and it has sectors left only
\* while it erases or is suspended.
Consistent(c) ==
  /\ c.alarm <=> c.state \in ErasingStates
  /\ c.mask # {} <=> c.state \in {"SECTOR_ERASE_TIMEOUT", "SECTOR_ERASE",
                                  "SECTOR_ERASE_SUSPEND"}

\* The alarm is pending if and only if the chip is busy, whatever was stored, reset,
\* attached or loaded before, and no alarm belongs to a chip that is gone.
EraseInProgress == ~stale /\ Consistent(chip)

\* Whatever the program stores, in whatever order: a cell loses bits only by the
\* store that ends a complete program command, and gets bits only when a sector is
\* erased that a complete erase command has named.
ChangesOnCommand ==
  [][Working =>
       \A a \in Watched :
         /\ chip'.data[a] \ chip.data[a] # {} => SectorOf(a) \in host.ordered
         /\ chip.data[a] \ chip'.data[a] # {} => host'.programs]_vars

\* A chip that differs from its image file is dirty, so that it is written back.
ChangesAreDirty ==
  chip.attached /\ file # None /\ chip.data # file => chip.dirty

\* A sector the chip has to erase is erased, unless the program gives the erase up or
\* suspends it: the alarm is armed again for every sector, also in a snapshot's chip.
SectorsGetErased ==
  \A s \in Sectors : s \in chip.mask ~> (s \notin chip.mask \/ chip.state = "SECTOR_ERASE_SUSPEND")
=============================================================================
