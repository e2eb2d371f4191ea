------------------------------ MODULE DiskFiles ------------------------------
(***************************************************************************)
(* The virtual disk drive's files: vdrive/vdrive-iec.c, vdrive-dir.c,      *)
(* vdrive-command.c and vdrive-bam.c on an image of the 1541's kind.       *)
(*                                                                         *)
(* A file is a chain of blocks on the image that a directory entry leads   *)
(* to.  Blocks, links and entries are written at once; the block map is    *)
(* kept in memory, and written when a command ends.  A program may have    *)
(* several channels open.  One thread runs the commands, so each is one    *)
(* step; but the emulator may be killed at any time, also between two      *)
(* writes of one command, and what reached the image by then stays there.  *)
(*                                                                         *)
(* Left out: relative files, GEOS, partitions and sub-directories, locked  *)
(* and deleted types, write protection and errors of the image, reading    *)
(* channels (which change nothing here), and the order in which tracks     *)
(* are searched: any free block may be the next.  The directory does not   *)
(* grow.                                                                   *)
(***************************************************************************)
EXTENDS Integers, Sequences, FiniteSets, SequencesExt, FiniteSetsExt

CONSTANTS
  Block,      \* the blocks outside the directory track
  NoBlock,    \* model value: track 0, the end of a chain
  Name,       \* the names of files
  Slots,      \* the number of entries of the directory
  Channels,   \* the number of channels a program uses
  Datum,      \* what a program writes
  BlockSize   \* as many of them as a block holds

ASSUME DiskFilesAssumption ==
  /\ IsFiniteSet(Block) /\ NoBlock \notin Block
  /\ Cardinality(Block) < 65536             \* 255 tracks of 256 blocks at most
  /\ {Slots, Channels, BlockSize} \subseteq Nat \ {0}

VARIABLES
  bam,        \* the allocated blocks, as vdrive->bam in memory has them
  saved,      \* and as the image has them
  dir,        \* the directory: per slot an entry, or NoEntry
  next,       \* per block of the image, the block it links to
  data,       \* and what it holds
  channel,    \* vdrive->buffers: what a channel writes, or Free
  last_code,  \* the error channel: "ok" or "error"
  leaky,      \* history: blocks may have been lost since the disk was last validated
  torn,       \* history: and a command may have been cut between an entry and the map
  spoiled,    \* history: files were written to a torn disk before it was validated
  sessions,   \* history: per channel, the file, what was sent, and if all was accepted
  files       \* history: the files and their contents, as the image has them

flags == <<leaky, torn, spoiled>>
vars == <<bam, saved, dir, next, data, channel, last_code, flags, sessions, files>>

Slot == 1..Slots
Channel == 1..Channels
NoEntry == [name |-> "none"]
Free == [mode |-> "free"]
Idle == [name |-> "none"]

\* A drive as one record, so that what several steps of a command do can be composed.
Now == [bam |-> bam, saved |-> saved, dir |-> dir, next |-> next, data |-> data,
        channel |-> channel, code |-> last_code]
-----------------------------------------------------------------------------
(* Chains and the block map *)

\* The blocks of the chain that starts with b; one that runs in a circle is followed
\* until it is longer than the disk.
Chain(links, b) ==
  LET first[n \in 0 .. Cardinality(Block) + 1] ==
        IF n = 0 THEN <<>>
        ELSE LET chain == first[n - 1]
                 more == IF chain = <<>> THEN b ELSE links[Last(chain)]
             IN IF more = NoBlock THEN chain ELSE Append(chain, more)
  IN first[Cardinality(Block) + 1]

\* What a chain holds.
Content(s, b) ==
  LET chain == Chain(s.next, b)
      upto[i \in 0 .. Len(chain)] == IF i = 0 THEN <<>> ELSE upto[i - 1] \o s.data[chain[i]]
  IN upto[Len(chain)]

\* What the directory and the chains of an image say.
Files(s) ==
  LET used == {e \in Slot : s.dir[e] # NoEntry}
      Of(e) == [closed |-> s.dir[e].closed,
                data |-> IF s.dir[e].closed THEN Content(s, s.dir[e].first) ELSE <<>>]
  IN [n \in {s.dir[e].name : e \in used} |-> Of(CHOOSE e \in used : s.dir[e].name = n)]

Becomes(s) ==
  /\ bam' = s.bam /\ saved' = s.saved /\ dir' = s.dir /\ next' = s.next
  /\ data' = s.data /\ channel' = s.channel /\ last_code' = s.code
  /\ files' = IF <<dir, next, data>> = <<s.dir, s.next, s.data>> THEN files ELSE Files(s)

Available(s) == Block \ s.bam

\* Mutant: the block that links to none is not freed.
FreedChainButLast(s, b) ==
  LET chain == Chain(s.next, b)
  IN {chain[i] : i \in {j \in DOMAIN chain : s.next[chain[j]] # NoBlock}}

\* vdrive_dir_free_chain goes on to the first block that is free already.
FreedChain(s, b) ==
  LET chain == Chain(s.next, b)
  IN {chain[i] : i \in {j \in DOMAIN chain : \A k \in 1..j : chain[k] \in s.bam}}

\* vdrive_command_allocate_chain; it fails on a block that is allocated already.
AllocateChain(s, b) ==
  LET chain == Chain(s.next, b)
  IN [ok |-> IsInjective(chain) /\ Range(chain) \cap s.bam = {},
      blocks |-> Len(chain), taken |-> Range(chain)]

\* Mutant: the map stays in memory.
WriteBamLater(s) == s

WriteBam(s) == [s EXCEPT !.saved = s.bam]

-----------------------------------------------------------------------------
(* Writing to a channel *)

Error(s) == [s EXCEPT !.code = "error"]
Count(entry) == [entry EXCEPT !.blocks = (@ + 1) % 65536]

\* The first block is allocated when it is written, the states are none on a full disk.
FirstBlock(s, c) ==
  LET p == s.channel[c]
      Takes(b) ==
        LET replaces == p.mode = "replace"
            entry == [p.entry EXCEPT !.blocks = 0, !.first = IF replaces THEN @ ELSE b]
        IN [s EXCEPT !.bam = @ \cup {b},
                     !.channel[c] = [p EXCEPT !.track = b, !.entry = entry,
                                              !.replacement = IF replaces THEN b ELSE @]]
  IN IF p.track # NoBlock THEN {s} ELSE {Takes(b) : b \in Available(s)}

\* iec_write_sequential of a full block, which needs another one to link to.
WriteBlock(s, c) ==
  LET Link(t, b) ==
        LET p == t.channel[c]
        IN [t EXCEPT !.bam = @ \cup {b}, !.next[p.track] = b, !.data[p.track] = p.buffer,
                     !.channel[c] = [p EXCEPT !.track = b, !.entry = Count(p.entry)]]
      Results(t) ==
        IF Available(t) = {} THEN {[ok |-> FALSE, drive |-> Error(t)]}
        ELSE {[ok |-> TRUE, drive |-> Link(t, b)] : b \in Available(t)}
      firsts == FirstBlock(s, c)
  IN IF firsts = {} THEN {[ok |-> FALSE, drive |-> Error(s)]}
     ELSE UNION {Results(t) : t \in firsts}

\* and of the last one.
WriteLast(s, c) ==
  LET Ends(t) ==
        LET p == t.channel[c]
        IN [t EXCEPT !.next[p.track] = NoBlock, !.data[p.track] = p.buffer,
                     !.channel[c] = [p EXCEPT !.entry = Count(p.entry)]]
      firsts == FirstBlock(s, c)
  IN IF firsts = {} THEN {Error(s)} ELSE {Ends(t) : t \in firsts}

\* The rest of iec_close_sequential: the entry is closed, a replaced chain freed,
EntryClosed(s, c) ==
  LET p == s.channel[c]
      replaces == p.mode = "replace"
      entry == [p.entry EXCEPT !.closed = TRUE,
                               !.first = IF replaces THEN p.replacement ELSE @]
      freed == IF replaces THEN FreedChain(s, p.entry.first) ELSE {}
  IN [s EXCEPT !.dir[p.slot] = entry, !.bam = @ \ freed, !.channel[c] = Free]

\* and the map written.
Finish(s, c) == WriteBam(EntryClosed(s, c))

CloseSequential(s, c) == {Finish(t, c) : t \in WriteLast(s, c)}

CloseAllChannels(s) ==
  LET closed[n \in 0..Channels] ==
        IF n = 0 THEN {s}
        ELSE UNION {IF t.channel[n] = Free THEN {t} ELSE CloseSequential(t, n) :
                      t \in closed[n - 1]}
  IN closed[Channels]

-----------------------------------------------------------------------------
(* The commands *)

Entries(n) == {e \in Slot : dir[e] # NoEntry /\ dir[e].name = n}
Writers(e) == {c \in Channel : channel[c] # Free /\ channel[c].slot = e}
FreeSlots == {e \in Slot : dir[e] = NoEntry}

\* Nothing in the code refuses to touch a file that is open for writing or was never
\* closed.  A program is assumed to leave the first alone, and the second to Validate.
Settled(e) == dir[e].closed /\ Writers(e) = {}

Init ==
  /\ bam = {} /\ saved = {}
  /\ dir = [e \in Slot |-> NoEntry]
  /\ next = [b \in Block |-> NoBlock] /\ data = [b \in Block |-> <<>>]
  /\ channel = [c \in Channel |-> Free] /\ last_code = "ok"
  /\ leaky = FALSE /\ torn = FALSE /\ spoiled = FALSE
  /\ sessions = [c \in Channel |-> Idle]
  /\ files = [n \in {} |-> <<>>]

\* No such file, a file of the new name, no channel, no room: a command that is refused
\* leaves the disk alone.  Renaming a file to its own name always is.
Refused == Becomes(Error(Now)) /\ UNCHANGED <<sessions, flags>>

\* A file is going to be written, whether or not the disk was validated after a kill.
GoesOn == spoiled' = (spoiled \/ torn)

Opened(c, p, entry, base) ==
  /\ Becomes([Now EXCEPT !.channel[c] = p, !.dir[p.slot] = entry, !.code = "ok"])
  /\ sessions' = [sessions EXCEPT ![c] = [name |-> entry.name, data |-> base, whole |-> TRUE]]
  /\ GoesOn /\ UNCHANGED <<leaky, torn>>

Writer(mode, e, entry, track, buffer) ==
  [mode |-> mode, slot |-> e, entry |-> entry, replacement |-> NoBlock,
   track |-> track, buffer |-> buffer]

OpenNew(c, n) ==
  LET entry == [name |-> n, closed |-> FALSE, first |-> NoBlock, blocks |-> 0] IN
  /\ channel[c] = Free /\ Entries(n) = {} /\ FreeSlots # {}
  /\ LET e == Min(FreeSlots)
     IN Opened(c, Writer("new", e, entry, NoBlock, <<>>), entry, <<>>)

\* "@:": the entry stays as it is until the channel is closed.
OpenReplace(c, n) ==
  /\ channel[c] = Free /\ Entries(n) # {}
  /\ LET e == Min(Entries(n)) IN
     /\ Settled(e)
     /\ Opened(c, Writer("replace", e, dir[e], NoBlock, <<>>), dir[e], <<>>)

\* Mutant: the buffer starts empty.
AppendToEmptied(e) ==
  LET chain == Chain(next, dir[e].first)
      entry == [dir[e] EXCEPT !.closed = FALSE, !.blocks = (65535 + Len(chain)) % 65536]
  IN Writer("append", e, entry, IF chain = <<>> THEN NoBlock ELSE Last(chain), <<>>)

\* The last block is written again, so it is not counted yet.
AppendTo(e) ==
  LET chain == Chain(next, dir[e].first)
      entry == [dir[e] EXCEPT !.closed = FALSE,
                  !.blocks = IF chain = <<>> THEN 0 ELSE (65535 + Len(chain)) % 65536]
  IN IF chain = <<>> THEN Writer("append", e, entry, NoBlock, <<>>)
     ELSE Writer("append", e, entry, Last(chain), data[Last(chain)])

OpenAppend(c, n) ==
  /\ channel[c] = Free /\ Entries(n) # {}
  /\ LET e == Min(Entries(n)) IN
     /\ Settled(e) /\ IsInjective(Chain(next, dir[e].first))
     /\ Opened(c, AppendTo(e), AppendTo(e).entry, Content(Now, dir[e].first))

Accepted(c, d) ==
  sessions' = [sessions EXCEPT ![c].data = IF sessions[c].whole THEN Append(@, d) ELSE @]

\* vdrive_iec_write: into the buffer, if there is room
Put(c, d) ==
  /\ channel[c] # Free /\ Len(channel[c].buffer) < BlockSize
  /\ Becomes([Now EXCEPT !.channel[c].buffer = Append(@, d)])
  /\ Accepted(c, d) /\ UNCHANGED flags

\* or after the full block has been written; on a full disk that block is given up.
PutNext(c, d) ==
  /\ channel[c] # Free /\ Len(channel[c].buffer) = BlockSize
  /\ \E r \in WriteBlock(Now, c) :
       /\ Becomes([r.drive EXCEPT !.channel[c].buffer = IF r.ok THEN <<d>> ELSE <<>>])
       /\ IF r.ok THEN Accepted(c, d)
          ELSE sessions' = [sessions EXCEPT ![c].data = <<>>, ![c].whole = FALSE]
  /\ UNCHANGED flags

Close(c) ==
  /\ channel[c] # Free
  /\ \E s \in CloseSequential(Now, c) : Becomes(s)
  /\ sessions' = [sessions EXCEPT ![c] = Idle] /\ UNCHANGED flags

\* vdrive_dir_remove_slot frees the chain and writes the map first, then the entry.
ChainFreed(e) ==
  WriteBam([Now EXCEPT !.bam = @ \ FreedChain(Now, dir[e].first), !.code = "ok"])

Scratch(n) ==
  /\ Entries(n) # {}
  /\ LET e == Min(Entries(n))
     IN Settled(e) /\ Becomes([ChainFreed(e) EXCEPT !.dir[e] = NoEntry])
  /\ UNCHANGED <<sessions, flags>>

Rename(n, m) ==
  /\ Entries(n) # {} /\ Entries(m) = {}
  /\ LET e == Min(Entries(n)) IN
     /\ Settled(e)
     /\ Becomes([Now EXCEPT !.dir[e].name = m, !.code = "ok"])
  /\ UNCHANGED <<sessions, flags>>

\* The data of a copy in blocks, all but the last one full.
Portions(d) ==
  [i \in 1 .. (Len(d) + BlockSize - 1) \div BlockSize |->
     SubSeq(d, (i - 1) * BlockSize + 1, IF i * BlockSize < Len(d) THEN i * BlockSize ELSE Len(d))]

\* The space is checked roughly: as if what one file leaves of its last block were
\* enough for the next one.  The sum is of signed, the comparison of unsigned numbers.
SeemsToFit(from) ==
  LET es == FoldLeft(LAMBDA sum, e : sum + dir[e].blocks, 0, from) - Len(from) + 1
  IN 0 <= es /\ es <= Cardinality(Available(Now))

\* The blocks of a copy; on a full disk the rest of the free ones, all but the last
\* written, and nothing gives them back.
CopyBlocks(from, chain) ==
  LET portions == Portions(FlattenSeq([i \in DOMAIN from |-> Content(Now, dir[from[i]].first)]))
      full == Len(chain) < Len(portions)
      written == IF full THEN 1 .. Len(chain) - 1 ELSE DOMAIN chain
      At(b) == CHOOSE i \in written : chain[i] = b
      Has(b) == \E i \in written : chain[i] = b
  IN [full |-> full,
      drive |-> [Now EXCEPT
        !.bam = @ \cup Range(chain),
        !.next = [b \in Block |-> IF ~Has(b) THEN @[b]
                                  ELSE IF At(b) = Len(chain) THEN NoBlock
                                  ELSE chain[At(b) + 1]],
        !.data = [b \in Block |-> IF Has(b) THEN portions[At(b)] ELSE @[b]]]]

MayCopy(n, names) ==
  /\ \A i \in DOMAIN names : Entries(names[i]) # {} /\ dir[Min(Entries(names[i]))].closed
  /\ Entries(n) = {} /\ FreeSlots # {}
  /\ SeemsToFit([i \in DOMAIN names |-> Min(Entries(names[i]))])

\* The free blocks that it may take.
CopyChains(names) ==
  LET from == [i \in DOMAIN names |-> Min(Entries(names[i]))]
      needed == Len(Portions(FlattenSeq([i \in DOMAIN from |-> Content(Now, dir[from[i]].first)])))
      room == Cardinality(Available(Now))
  IN {q \in SeqOf(Available(Now), room) :
        IsInjective(q) /\ Len(q) = IF needed < room THEN needed ELSE room}

CopyTo(names, chain) == CopyBlocks([i \in DOMAIN names |-> Min(Entries(names[i]))], chain)

\* The new file's entry is written when all blocks are, closed,
CopyEntered(n, names, chain) ==
  LET entry == [name |-> n, closed |-> TRUE, blocks |-> Len(chain),
                first |-> IF chain = <<>> THEN NoBlock ELSE chain[1]]
  IN [CopyTo(names, chain).drive EXCEPT !.dir[Min(FreeSlots)] = entry, !.code = "ok"]

\* and then the map.
Copy(n, names) ==
  /\ MayCopy(n, names)
  /\ \E chain \in CopyChains(names) :
       IF CopyTo(names, chain).full
       THEN Becomes(Error(CopyTo(names, chain).drive)) /\ leaky' = TRUE
       ELSE Becomes(WriteBam(CopyEntered(n, names, chain))) /\ UNCHANGED leaky
  /\ GoesOn /\ UNCHANGED <<sessions, torn>>

AllEnd == sessions' = [c \in Channel |-> Idle]

\* I and the reset commands close all channels; the map is read again from the image.
Initialize ==
  /\ \E s \in CloseAllChannels(Now) : Becomes([s EXCEPT !.bam = s.saved, !.code = "ok"])
  /\ AllEnd /\ UNCHANGED flags

\* The image is detached, and attached again.
Detach ==
  /\ \E s \in CloseAllChannels(Now) : Becomes([s EXCEPT !.bam = s.saved])
  /\ AllEnd /\ UNCHANGED flags

\* The worker goes through the directory: the chains of closed files are allocated and
\* their blocks counted, files that are not closed are deleted.  What it has done after
\* each entry:
Validated(s) ==
  LET upto[n \in 0..Slots] ==
        LET r == upto[n - 1]
            entry == r.drive.dir[n]
            chain == AllocateChain(r.drive, entry.first)
        IN IF n = 0 THEN [ok |-> TRUE, drive |-> [s EXCEPT !.bam = {}]]
           ELSE IF ~r.ok \/ entry = NoEntry THEN r
           ELSE IF ~entry.closed THEN [r EXCEPT !.drive.dir[n] = NoEntry]
           ELSE IF ~chain.ok THEN [r EXCEPT !.ok = FALSE]
           ELSE [r EXCEPT !.drive.bam = @ \cup chain.taken,
                          !.drive.dir[n].blocks = chain.blocks]
  IN upto

ValidateWorker(s) == Validated(s)[Slots]

Validate ==
  /\ \E s \in CloseAllChannels(Now) :
       LET r == ValidateWorker(s) IN
       /\ Becomes(IF r.ok THEN [WriteBam(r.drive) EXCEPT !.code = "ok"]
                  ELSE Error([r.drive EXCEPT !.bam = s.bam]))
       /\ leaky' = (leaky /\ ~r.ok) /\ torn' = (torn /\ ~r.ok)
  /\ AllEnd /\ UNCHANGED spoiled

\* The emulator ends without closing anything, and is started again: what the image has
\* of s is there.
Ends(s, lost, cut) ==
  /\ Becomes([s EXCEPT !.bam = s.saved, !.channel = [c \in Channel |-> Free], !.code = "ok"])
  /\ AllEnd /\ leaky' = (leaky \/ lost) /\ torn' = (torn \/ cut)

Writing == {c \in Channel : channel[c] # Free}

\* Between two commands, or in one before it has written an entry or the map: blocks
\* that it has written by then belong to no closed file, and are not looked at, unless
\* that was a copy on a torn disk.
Kill == Ends(Now, Writing # {}, FALSE) /\ spoiled' \in {spoiled, spoiled \/ torn}

\* In the middle of a Close, one of those included that all channels are closed with: the
\* entry is on the image, the map is not.
KillInClose(c) ==
  /\ channel[c] # Free
  /\ \E s \in WriteLast(Now, c) : Ends(EntryClosed(s, c), TRUE, TRUE)
  /\ UNCHANGED spoiled

\* In the middle of Copy: likewise.
KillInCopy(n, names) ==
  /\ MayCopy(n, names)
  /\ \E chain \in CopyChains(names) :
       ~CopyTo(names, chain).full /\ Ends(CopyEntered(n, names, chain), Writing # {}, TRUE)
  /\ GoesOn

\* In the middle of Scratch: the map is on the image, the entry is not cleared.
KillInScratch(n) ==
  /\ Entries(n) # {}
  /\ LET e == Min(Entries(n))
     IN Settled(e) /\ Ends(ChainFreed(e), Writing # {}, TRUE)
  /\ UNCHANGED spoiled

\* In the middle of Validate: some entries have been gone through, the map is the old one.
KillInValidate(e) ==
  /\ Writing = {} /\ Ends(Validated(Now)[e].drive, FALSE, FALSE)
  /\ UNCHANGED spoiled

Next ==
  \/ \E c \in Channel, n \in Name :
       OpenNew(c, n) \/ OpenReplace(c, n) \/ OpenAppend(c, n)
  \/ \E c \in Channel, d \in Datum : Put(c, d) \/ PutNext(c, d)
  \/ \E c \in Channel : Close(c) \/ KillInClose(c)
  \/ \E n \in Name : Scratch(n) \/ KillInScratch(n)
  \/ \E n, m \in Name : Rename(n, m) \/ Copy(n, <<m>>) \/ KillInCopy(n, <<m>>)
  \/ \E n, m, o \in Name : Copy(n, <<m, o>>) \/ KillInCopy(n, <<m, o>>)
  \/ \E e \in Slot : KillInValidate(e)
  \/ Refused \/ Initialize \/ Detach \/ Validate \/ Kill

Spec == Init /\ [][Next]_vars

-----------------------------------------------------------------------------
(* Properties *)

\* The blocks that belong to a closed file, and those of a channel so far: the chain up
\* to the block that is not written yet.
OwnedBy(e) == Range(Chain(next, dir[e].first))
WrittenBy(c) ==
  LET p == channel[c]
      first == IF p.mode = "replace" THEN p.replacement ELSE p.entry.first
  IN IF p.track = NoBlock THEN {}
     ELSE Range(Chain([next EXCEPT ![p.track] = NoBlock], first))

ClosedFiles == {e \in Slot : dir[e] # NoEntry /\ dir[e].closed}
InUse == (UNION {OwnedBy(e) : e \in ClosedFiles}) \cup (UNION {WrittenBy(c) : c \in Writing})

\* Unless files were written to a disk that a kill in the middle of a command had torn,
\* before it was validated: no block belongs to two files, or to a file and a channel, and
\* no chain runs in a circle.  And unless the disk is torn the map has all of them
\* allocated: the one in memory, and after a kill the one that the image had by then.
FilesDisjoint ==
  ~spoiled =>
    /\ \A e, f \in ClosedFiles : e # f => OwnedBy(e) \cap OwnedBy(f) = {}
    /\ \A e \in ClosedFiles, c \in Writing : OwnedBy(e) \cap WrittenBy(c) = {}
    /\ \A c, d \in Writing : c # d => WrittenBy(c) \cap WrittenBy(d) = {}
    /\ \A e \in ClosedFiles : IsInjective(Chain(next, dir[e].first))
    /\ ~torn => InUse \subseteq bam

\* No block is lost, except by a copy that ran out of space and by channels that were
\* open when the emulator was killed; validating the disk finds those again.  And the
\* directory shows as many blocks of a file as it has.
SpaceAccounted ==
  ~spoiled =>
    /\ ~leaky => bam \subseteq InUse
    /\ \A e \in ClosedFiles :
         dir[e].first # NoBlock => dir[e].blocks = Len(Chain(next, dir[e].first))

Store == INSTANCE FileStore WITH told <- last_code = "error"

\* A file reads back as it was sent, or the error channel tells, and a command touches
\* no file but the one it names, as long as a torn disk is validated before it is used.
ImplementsFileStore == Store!Spec

=============================================================================
