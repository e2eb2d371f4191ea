# A verification project for VICE

VICE emulates the Commodore 8-bit machines. Nearly all of its
lines describe chips; what makes a run of the emulator *correct as a program* is
a much smaller part: two host threads (three with the renderer) that share one
emulated machine, a scheduler of alarms on a clock that is shifted back before it
overflows, an interrupt controller that everybody posts to, drives whose clocks
are caught up with on demand, a history of events that has to replay to the cycle,
files on disk images that several channels write at once, and a network protocol that keeps two emulators in lockstep. These parts are
modelled here in TLA+, model-checked with TLC, and, where it is marked below, proved with TLAPS
for every value of the constants.

All paths below are relative to `src/vice/src/` unless they begin with `src/`.

- [1. Inventory](#1-inventory)
- [2. Modules and code](#2-modules-and-code)
- [3. Runs, bounds and results](#3-runs-bounds-and-results)
- [4. Fairness](#4-fairness)
- [5. What is proved](#5-what-is-proved)
- [6. What the code does otherwise](#6-what-the-code-does-otherwise)
- [7. What is not modelled](#7-what-is-not-modelled)
- [8. Plan](#8-plan)

## 1. Inventory

### 1.1 Threads

| Thread | Runs | Shared with the others through |
| --- | --- | --- |
| VICE thread (`main.c`, `vice_thread_main`) | the CPU loop `6510core.c`, hence every chip, alarm, drive, event and netplay hook | the mainlock; the render queue |
| UI thread (GTK main loop) | menus, dialogs, window events, `main_exit` | wraps every handler that touches the machine in `mainlock_obtain`/`mainlock_release` |
| render thread (one per canvas, `render_thread.c`) | `render()` of `opengl_renderer.c` | canvas lock, render lock, queue lock |

Everything else is called from these three: the machine itself is one sequential
program whose "concurrency" is that of callbacks: alarms fire between (and inside)
instructions, traps at opcode boundaries, UI handlers whenever the VICE thread
yields, which it does from inside alarm callbacks.

### 1.2 Components with a model

| Component | State it keeps | Operations | Talks to | What is hard | Correct means |
| --- | --- | --- | --- | --- | --- |
| **mainlock and exit** `mainlock.c`, `main.c`, `arch/shared/archdep_exit.c`, `arch/gtk3/gtk3main.c` | a mutex, two conditions, `vice_thread_keepalive`, `vice_thread_is_running`, `ui_thread_waiting`, `ui_thread_lock_count` | `mainlock_init`, `_obtain`, `_release`, `_release_if_locked`, `_yield_once`, `_initiate_shutdown`, the exit from either thread | every UI handler; the VICE thread's vsync | nested handlers; exit started by both threads; code that runs without the mutex | one thread at a time controls the machine; no lost wake-up; the exit ends |
| **alarms and clock guard** `alarm.c`, `alarm.h`, `clkguard.c`, `drive/drive-overflow.c` | the slot array, each alarm's index, a cached minimum; the clock and what was subtracted from it | `alarm_set`, `_unset`, `_destroy`, `_context_dispatch`, `_context_time_warp`, `clk_guard_prevent_overflow` | every chip arms alarms; the CPU loop dispatches; the frame hook warps | swap-removal against a cached index; a 32-bit clock warped in mid-callback | alarms fire in order, never early, never from a stale slot; time never wraps |
| **render pipeline** `arch/gtk3/render_queue.c`, `render_thread.c`, `opengl_renderer.c` | a stack of free backbuffers, a ring of queued ones, a job queue, two locks | refresh, redraw, resize, render, shutdown | VICE, UI and render thread | a frame dequeued outside the lock; lock hand-over; teardown order | no buffer in two places; frames in order; nothing used after it is freed; the exit ends |
| **interrupt status** `interrupt.c`, `interrupt.h`, loop head and BRK of `6510core.c`, `maincpu.c` | line bits and counters, `global_pending_int`, the clocks of the lines, one trap slot | set/clear IRQ and NMI, trigger trap/reset, monitor on/off, acknowledge, snapshot read | chips, UI, monitor, autostart, event, netplay | the CPU works off a *copy* of the pending kinds; one trap slot for a dozen posters | counters agree with lines; no spurious interrupt; no NMI lost; no trap called that was not asked for |
| **netplay** `network.c`, `socket.c`, `arch/gtk3/widgets/netplaywidget.c` | mode, sockets, a ring of event lists with two indices, `suspended` | start, connect, snapshot transfer, delay test, hook, suspend, sync test, disconnect | vsync handler, event recording, traps, mainlock | two machines at different speeds; every call can fail; second games | both machines play the same inputs at the same frames; nobody waits for ever |
| **drive CPU synchronization** `drive/drivecpu.c`, `drive/drivecpu65c02.c`, `drive/drivesync.c`, `drive/drive-overflow.c`, `drive/drive.c` | per drive: its clock, `stop_clk`, `last_clk`, the fraction `cycle_accum`, the ratio `sync_factor` | execute up to a clock, wake up, prevent overflow (twice), reset, switch on and off, idle method, speed | bus accesses and the frame hook of the main CPU; the main clock's guard | two wrapping clocks, each warped on its own, one of them behind the other's back | a drive runs for exactly the cycles its ratio makes of the main CPU's time |
| **event history and input latches** `event.c`, `keyboard.c`, `joyport/joystick.c` | the list with its current node, one alarm, `record_active`, `playback_active`, `playback_reset_ack`, the timestamps, two snapshot files; latches with an alarm each | start (four modes), stop, playback, milestones, the alarm, `event_reset_ack`, the clock's warp; press, latch handler, clear | UI, traps, alarms, snapshots, machine reset | a command, its trap and the input it interferes with come at different cycles; the clock is set back, warped and restored | what is played is what was recorded, in the same cycles |
| **flash chips** `core/flash040core.c`, `c64/cart/gmod2.c` | the command state and the base state, sectors to erase, the alarm, contents, dirty flag; the image file; a snapshot | store, read-modify-write, reset, the erase alarm, attach, detach, flush, snapshot | the emulated program, the main CPU's alarms, the user | an erase goes on while the program, the user and snapshots interfere | nothing changes but what a complete command named; what it named is done; changes are written back |
| **files on disk images** `vdrive/vdrive-iec.c`, `vdrive-command.c`, `vdrive-dir.c`, `vdrive-bam.c`, `vdrive.c` | on the image: blocks with links, directory entries, the block map; in memory: the block map, 16 channels with a buffer and a copy of their entry, the error code | open, write and close a file (new, replaced, appended to), scratch, rename, copy, initialize, validate, attach, detach | the emulated program through the IEC traps; the user, who detaches images and ends the emulator | blocks and entries are written at once, the map when a command ends; a full disk; channels that share one map | a block has one owner; none is lost; a file reads back as it was sent, or the error channel tells |

### 1.3 Components without a model yet

`PROJECT.json` lists all of them with a reason. The ones that keep enough control
state to be worth a module are, in this order: keyboard buffer (`kbdbuf.c`),
datasette, checkpoints, autostart. The rest is data paths (CPU opcodes, video, SID, GCR), parsing (images,
snapshots, monitor commands) and host input and output.

### 1.4 Hazards

`PROJECT.json` lists 40 hazards at the line where each bites, with the properties
that would catch it. Those without a property have a note that says why.

## 2. Modules and code

| Module | Code | Note |
| --- | --- | --- |
| `MainLock` | `mainlock.c` and its callers | both threads, exit included |
| `MachineControl` | | what the lock promises: one token of control |
| `MainLockControl` | | the refinement mapping |
| `MainLockProofs` | | theorems |
| `AlarmClock` | `alarm.c`, `alarm.h`, `clkguard.c` | one context and its clock |
| `MachineAlarms` | | ... of a CPU with an alarm that is always armed |
| `AlarmService` | | what a device expects: due times on a clock without end |
| `MCAlarmClock`, `AlarmClockProofs` | | symmetry for TLC; theorems |
| `RenderPipeline` | `render_queue.c`, `render_thread.c`, `opengl_renderer.c` | three threads |
| `RenderPipelineProofs` | | theorems |
| `Interrupts` | `interrupt.c`, `interrupt.h`, `6510core.c`, `maincpu.c` | devices, user, CPU |
| `InterruptsProofs` | | theorems |
| `Netplay` | `network.c`, `socket.c` | two peers and the link |
| `SharedTimeline` | | what netplay promises: one timeline on two machines |
| `MCNetplay`, `NetplayProofs` | | sets for TLC; theorems |
| `DriveClock` | `drive/drivecpu.c`, `drive/drive-overflow.c`, `drive/drivesync.c` | drives beside the main CPU |
| `DriveTime` | | what catching up promises: an exact ratio on clocks without end |
| `EventHistory` | `event.c`, `keyboard.c`, `joyport/joystick.c` | one machine, its user, its two files |
| `EventHistoryProofs` | | theorems |
| `FlashChip` | `core/flash040core.c`, `c64/cart/gmod2.c` | program, chip, alarm, user |
| `FlashChipProofs` | | theorems |
| `MCFlashChip` | | the moments of snapshots for TLC |
| `DiskFiles` | `vdrive/` | two channels, the commands, the user and the image |
| `FileStore` | | what the commands promise: names and contents, without blocks |
| `MCDiskFiles`, `DiskFilesProofs` | | symmetry and view for TLC; theorems |

How they fit together: `MainLock` justifies that the other models let UI actions
happen only at points where the VICE thread yields (`AlarmsRun` in `Interrupts`,
`Running` in `Netplay`, `vice = "emulating"` for `DestroyWindows` and
`JoinViceThread` in `RenderPipeline`); `Interrupts`' one trap slot is the reason
for `LoseTrap` in `Netplay`; `AlarmClock` justifies that `Interrupts` keeps only
distances between clocks, that the alarms of `EventHistory` fire once they are due and
that a warp shifts them with the clock (on the C64, where a second and a frame fit into
the guard's cushion); its guard appears twice in `DriveClock`, for the main CPU and for
the drive. The erase alarm of `FlashChip` is one of those that reach beyond the cushion
and may fire early (section 6.2); `FlashChip` leaves time out, so that an erase may end
at any moment after its command.

Definitions that begin with a comment `Mutant:` are faulty variants of the
definition that follows them. No specification uses them: they are there to
show that each property does fail when the code is wrong in a plausible way.

### 2.1 MainLock

One action is one critical section of the pthread mutex. Two paths are split
further, because the code touches shared state without the mutex on one of them:
`mainlock_initiate_shutdown` on the VICE thread (`ViceInitiateShutdown`, then
`ViceClearsRunning` and `ViceSignalsAndExits`, i.e. `consider_exit` *after* the
unlock), and the path in `mainlock_obtain` that this can overtake (`ObtainAsks`,
`ObtainWaits`). A condition variable is the state of the one thread that can wait
on it: `ui = "waiting"` for the yield condition, `vice = "parked"` for the return
condition. `exit` is the program counter of `main_exit`. `depth` is the number of
`mainlock_obtain` calls the UI has made and not released, counted apart from
`ui_thread_lock_count` so that the two can be compared.

`EarlyUI` says whether a UI handler may run between `pthread_create` and
`mainlock_init`; see section 6.

### 2.2 AlarmClock

Slots count from 0 and -1 is "not pending", as in the code. `RefreshNext` is the
search of `alarm_context_update_next_pending`, which takes the last of equal
clocks. `AddPending`/`ChangePending` are the two halves of `alarm_set`;
`UnsetPending` is `alarm_unset` with the swap of the last slot into the hole.
`Dispatch` leaves `nextIdx` wherever it points: an index that holds no alarm makes
`firing = Wild`, the callback of garbage. A callback is open between `Dispatch` and
`CallbackReturns`, so that it can arm, disarm and steal cycles (VIC-II fetches in x64)
and so that the warp can happen inside it. What it does about its own alarm is its
business: one that is left pending is dispatched again.

A due time is a sum of two 32-bit numbers and wraps (`Plus`), and so do differences
(`Minus`). The guard's cushion, `SubMin` = 1,048,575 cycles, is longer than a frame and
than what most devices arm ahead, but not all: a sector erase of an AM29F040 is armed
2,000,000 cycles ahead and a chip erase 8 to 64 million (`core/flash040core.c:225`, 244,
341, 373), the standby of an ATA drive five seconds (`core/ata.c:168`). Armed close to
the guard such a due time comes out as a small number, and the alarm is dispatched at
once. So `Set` takes any distance up to `Horizon`, which may be as long as the clock,
and `Reach` is the distance that still fits into the cushion. `due` is history: the
absolute time that each alarm was asked for.

`offset` is `clk_absolute_offset`. The refinement mapping adds it to the clock: in
absolute time warps do not exist. `AlarmService` has the due times as they were asked
for (`due`) and lets an alarm fire in order once it is due, or early while it is further
away than `Reach`: that is all that remains visible of the 32-bit clock.

`PreventOverflow` has a guard the hook does not have: no pending slot is further behind
than `MaxLate`. The loop of `PROCESS_ALARMS` (`mainc64cpu.c:91`) has dispatched whatever
was due before the instruction or the callback that the hook runs in, also an alarm that
had wrapped. The one exception known is not explored: x64 calls the VIC-II's handlers
from a store as well (`vicii/vicii.c:194`), so that the hook could meet an alarm that the
same read-modify-write instruction has just armed and that wrapped.

`Standing` is an alarm that is armed at reset and re-arms itself (CIA time of
day, VIC-II raster), as the main CPU of the C64 has. `MachineAlarms`
assumes it; `AlarmClock` with `Standing = Idle` is the context of a drive CPU.

### 2.3 RenderPipeline

One action per locked section. The VICE thread is `TakeBackbuffer`, `QueueFrame`,
`PushFrameJob` (the last two under one hold of the canvas lock); the render thread
is `TakeJob`, `DequeueFrame` (*before* the canvas lock), `LayOut`, `LockRender`
(canvas lock handed over to render lock), `Present`, `ReturnBackbuffer`; the UI is
`FrameClock`, `Resize`, `ResizeChildView` (render lock nested in the canvas lock),
and then the exit sequence of `gtk3main.c` in its order. Backbuffers hold frame
numbers instead of pixels; a buffer of size 0 (a frame rendered before the first
`vice_opengl_update_context`) is one outside `sized`. The asserts of
`render_queue.c` set `failed`.

### 2.4 Interrupts

`flags` is `global_pending_int`, `irq`/`nmi` the devices that hold a line, `nirq`/
`nnmi` the counters, `slot` the trap function, `ik` the copy `DO_INTERRUPT` works
off. `phase` walks through one turn of the CPU loop: `top` (the test of
`global_pending_int`), `pushed` (the pushes of a service, after which alarms run
and the vector is chosen), `dispatch` (trap, reset, monitor, in this order),
`opcode`, `brk pushed`. The devices act in every phase in which the code processes
alarms, and so does the user, because vsync is an alarm callback from which the UI
gets the mainlock.

Clocks are kept as ages: how many cycles ago a line went down, counted up to the
longest delay the code tests (`Old` = 3), and how many cycles a released IRQ may
still be taken. An opcode is what it leaves in `last_opcode_info` and in the I
flag. A trap function or a monitor session is `Command`: it may do nothing, post,
reset, set or delete checkpoints, move the PC or load a snapshot.

`owed` is history: the traps that were posted and not called since.

### 2.5 Netplay

Each peer is one thread (`pc`): the UI acts only while the VICE thread is at its
yield point. `wire[p]` is what travels to `p`; TCP neither loses nor reorders, but
it breaks: `broken` is a reset, which a close with unread data also causes, and a
close without unread data makes the other side's `recv` return 0, which
`network_recv_buffer` takes for "nothing yet". A peer in such a loop has no
action left, exactly as in the code.

`list` is `frame_event_list`, the ring of `frame_delta` event lists with
`current_frame` and `frame_to_play`; `<<>>` is NULL, a peer that is connected
without lists after a failed delay test. `Hook` is `network_hook` up to the
receive, `ReceiveList` the rest; `HookSendFails` runs the receiving half on the
closed socket as the code does. The fifty packets of the delay test are one
exchange. The registers of the sync test are the history of what the machine has
played plus a bit for a divergence, which may or may not show in five registers.

`recorded` and `played` are histories; the properties and `SharedTimeline` are
about them.

### 2.6 DriveClock

A drive is one record, and what an instruction does is left out: `Emulate` runs the
loop of `drivecpu_execute` until the clock has reached `stop_clk` and overruns it by
a part of an instruction (`over`). The signed comparison of the clocks (`Before`),
the unsigned differences of `drivecpu_wake_up`, the chunks of 10000 cycles and the
fixed-point fraction are kept, all modulo `Width`. `EndOfFrame` is
`machine_vsync_hook`: drives that are never idle are executed, the main clock is
warped, and then each drive in turn follows that warp (`FollowMain`, which may
execute *all* drives up to the old clock) and does its own (`WarpOwn`). The reset of
the machine sets the main clock to `ResetClk` with everything `drivecpu_reset` sets.

`ran` is history: the drive cycles of the last step. `DriveTime` is the abstract
specification: a lag in main cycles, a fraction, a debt of overrun cycles, and no
clock that could wrap. It allows a drive to skip what lies further back than
`SkipAfter`, as the code wants, and nothing else.

`Attended` is the one assumption about the environment, for instances without
`"forget"`: a drive whose idle method is "skip cycles" is left alone for longer than a
frame only while the main clock is not about to be warped. Without it the code does
lose its place (section 6.2).

### 2.7 EventHistory

A cycle of the main CPU is walked through in phases: due alarms in any order
(`alarms`), the user inside the raster line's alarm, where the emulator's thread
yields (`line`), then the trap or the reset (`interrupts`) and an instruction (`Tick`).
`list` and `current` are `event_list`; `next_timestamp_clk`, `event_alarm` and
`milestone_timestamp_alarm` are the variables of the same name; the one trap slot is
that of `Interrupts`. Snapshots keep what the history is about: clock, input lines and
the list, written without timestamps and read back with them (`WithTimestamps`).
`Restart` ends the emulator and keeps the two files.

The emulation itself is deterministic and has no state here but `age`, the cycles
since the session began, and `seen`, the inputs the machine got and when. Both are
saved in and restored from snapshots like any state of the machine, so that "the
session is repeated" can be said of a playback in another process.

`Inputs` names the ten things a user can do with a bad outcome (section 6.2). The
run has none of them.

### 2.8 FlashChip

A byte is the set of its bits, which makes programming (bits can only be cleared) an
intersection. `Stored` is `flash040core_store_internal`, one disjunct of the `CASE` per
state; it yields a set because a byte the model does not keep (`Watched`) may or may
not be programmed without error. Time is left out: an alarm that is pending fires
sooner or later, so the time-out of a sector erase may end before or after any store.
`Modify` is a read-modify-write instruction, whose first store is what was read.
`Detach`, `Attach`, `Flush` and `LoadSnapshot` are the operations of `gmod2.c`.

A snapshot holds the program's memory as well as the chip, so that `host` goes into it and
comes back with it: a program goes on with its commands from where it was.

`host` is history, independent of the chip's state machine: `Begun` reads off the
stores themselves, by the command table of the data sheet, which command they are the
beginning of, and `Orders` collects the sectors the program has ordered to be erased.
`Inputs = {"erasing"}` lets the user change cartridges during an erase (section 6.2).

### 2.9 DiskFiles

A drive is one record (`Now`), so that a command can be put together from what it
does: `Close` is `WriteLast` and `Finish`, `Initialize` is `CloseAllChannels` and the map
read again. A step of the drive that may take any free block, as the search over the
tracks may, yields the set of the drives that can result. `next` and `data` are what
the blocks of the image hold, those that nobody owns included: a chain is followed into
them wherever the code follows it, in a circle too. `bam` is the map in memory, `saved`
the one on the image.

A command is one step, since one thread runs them all; but the process may end inside
one, and what it has written by then stays. Every sector is flushed at once, so the
moments that differ are those between two writes. `Ends` is the end of the process and
its next start: `bam` is `saved`, no channel is open. `Kill` is the end before a command
has written an entry or the map, or between commands; blocks and links written by then
belong to no closed file. `KillInClose` comes between the entry (`vdrive-iec.c:834`) and
the map (843), also in the middle of `CloseAllChannels`, whose first closes are `Close`
steps then. `KillInCopy` likewise (`vdrive-command.c:1266` and 1269), `KillInScratch` between
the map (`vdrive-dir.c:203`) and the entry (207), `KillInValidate` after any number of
entries. The map is one sector, as on a 1541. `EntryClosed`, `CopyEntered`, `ChainFreed` and
`Validated` are the commands up to that point, and the commands themselves are built from
them. `torn` is history: a command was cut in such a way, and a closed file's blocks may
be free in the map. `spoiled` is history too: a file was opened for writing or copied on
a torn disk before it was validated; nothing is claimed of that disk any more (section 6.2).

`channel[c].entry` is the channel's own copy of the directory entry (`p->slot`), which
`Finish` writes over the one on the image; `replacement` are the bytes of the entry in
which a file that is being replaced keeps its new first block. `iec_close_sequential` does
not look at the result of `iec_write_sequential`, so `WriteLast` on a full disk is the
error and nothing else, and `Finish` follows all the same. `SeemsToFit` is the estimate
of the copy command, and `CopyBlocks` what a copy leaves on a disk that is full after
all. A command that is refused is `Refused`, whatever the reason.

`Settled` is the one assumption about programs: a file that is open for writing, or was
left unclosed, is not named by another command (section 6.2).

`sessions` and `files` are histories: what a program has sent, and what the directory and
the chains say. `FileStore` is about them and the error channel, and knows no blocks.
`leaky` is history: since the last validation a copy has run out of space, or a process
has ended with open channels or in the middle of closing one.

## 3. Runs, bounds and results

| Run | Distinct states | Result |
| --- | --- | --- |
| `mainlock` | 109 | passes |
| `alarms` | 136,253 (with symmetry) | passes |
| `render_pipeline` | 27,400 | passes |
| `interrupt_lines` | 68,448 | passes |
| `interrupt_user` | 3,046,298 | passes |
| `netplay` | 637,374 | passes |
| `drive_clock` | 2,062,716 | passes |
| `event_history` | 3,187,105 | passes |
| `flash_chip` | 123,255 | passes |
| `disk_files` | about 419,000 (with symmetry and a view) | passes |
| `mainlock_lost_wakeup` | | `ObtainCompletes` refuted |
| `drive_reset` | | `RunsUpToNow` refuted |

Type invariants are theorems in `MainLockProofs`, `AlarmClockProofs`,
`RenderPipelineProofs`, `InterruptsProofs`, `NetplayProofs` and `FlashChipProofs`, and part of
the invariants of `DiskFilesProofs` and, as far as it needs them, of `EventHistoryProofs`; in
`DriveClock` and `EventHistory` `TypeOK` documents the state and is not checked by a run.

**mainlock.** `MaxDepth` 8 nested handlers; an exit is entered from at most one
handler deep (`MaxExitDepth` 1), because `main_exit` gives up exactly one level
(`mainlock_release_if_locked`): an exit entered two handlers deep would wait for
ever in `pthread_join`, which the model shows with `MaxExitDepth` 2. The state
depends on the depth only through "0 or not", so eight levels are more than the
behaviour tells apart, and the theorems hold for any depth. *Shown:* the UI and
the VICE thread never run the machine together (`UIHasControl`, which the
theorem `OwnershipHolds` explains), the `assert(false)` of `archdep_vice_exit` is unreachable
(`NoAbort`), the lock implements the passing of one token (`ImplementsControl`),
and every obtain returns and every exit ends as long as the VICE thread does not
itself start the exit (`ObtainCompletesWhileViceYields`,
`ShutdownCompletesWhileViceYields`). Deadlock is not checked: after the exit, and
in the lost wake-up of section 6, the process does stop.

**alarms.** One standing alarm and three others compete for three slots, so the
"too many alarms" error occurs; `Width` 17 clock values, `SubMin` 4, refresh
length `ClkBase` 3 (not a divisor, so the rounding of `clk_guard_clock_sub`
matters), instructions up to 2 cycles, alarms armed 2 behind to 6 ahead of the
clock (`Horizon`, more than the cushion of 4, so that due times do wrap), `Reach` 1,
two warps: the second one starts from a state that a first one has left.
The ratios are those of the code: `GuardMax >= 3 * SubMin`, which `clk_guard_init` asks
for; lateness below `SubMin`; `Frame + Reach < SubMin`, which defines the reach (with
1,048,575 and a frame of about 20,000 cycles, about a million cycles); and no alarm armed
further ahead than the clock is long. `AlarmAssumption` states them and the theorems need
nothing else. *Shown:* `SlotsConsistent`, `NextIsEarliest`, `DispatchSafe`,
`DueTimesKept` (an alarm within reach is pending at exactly the time it was asked for, and
none is left behind, whatever has wrapped) and the refinement `ImplementsAlarmService`.

**render_pipeline.** Two backbuffers, the number in the code; four frames, so that
the ring wraps twice; at most two waiting jobs when a redraw is added. *Shown:*
`OneOwner` (no buffer in two places, hence the two asserts hold), `FramesInOrder`,
`FrameLeavesQueue`,
`NothingInUseAtDestroy`, `ExitCompletes`.

**interrupt_lines, interrupt_user.** The same module with two instances, since the
full product is too large: two devices with jams and resets (line sharing, edges,
delays), and one device with two traps, checkpoints, snapshots, jumps and jams
(`Inputs` selects). Two devices are the smallest number with a shared line; two
traps the smallest with an overwritten slot. *Shown:* `LinesAgree`,
`SpuriousIRQExpires`, `NMIKeepsPriority`, `TrapIsOwed`, `MonitorOutlivesReset`,
and the liveness of interrupts: `NMIServed`, `IRQServed`.

**netplay.** Two connections (`MaxSessions` 2), so that a game starts with what the
one before left behind; delays of 2 and 3 frames; four hooks per game, so that a
ring of 2 wraps twice and a ring of 3 once; up to two acts of the users or of the world,
of which at most one a mishap (a lost trap, a reset connection, a divergence, a
failed snapshot, a user who disconnects). Two kinds of input, one of which the
client may give and the server may not. *Shown:*
`OutOfSyncStopsBoth`, `HangUpNoticed`, `FramesAdvance`, and `ImplementsTimeline`, which
contains that both machines get, for each frame, exactly what both peers recorded for it,
each frame at its time. Deadlock is
not checked: a peer may loop in `recv` for ever, or have crashed.

**drive_clock.** One drive, so that every warp, sleep and reset meets every length of
lag; 39 clock values, of which the guard leaves 35 before it warps; quarters of a
cycle (`Frac` 4) and two ratios, one slower (3/4) and one faster (5/4) than the main
CPU, changed at any time; conversion in chunks of 4, so that a lag of up to 15 takes
one to four of them; instructions that overrun by up to one cycle; sleeps longer than
`SkipAfter`, warmed up or not. `SkipAfter` 14 lets a drive sleep for longer than what
is left of the clock by a warp, so that the catch-up before the warp
(`drivecpu.c:281`) is reached. `DriveClockAssumption` states the ratios of the code's
constants that matter. *Shown:* `InSync`, `DriveClockNeverWraps` and the refinement
`ImplementsDriveTime`, which contains that the fraction carried over stays below one
cycle. Two drives (`NumUnits` 2, with
`Width` 24, `SubMin` 3, `Frac` 1, `Chunk` 2, `Factors` {1}, `SkipAfter` 9, `WarmUp` 3,
`ResetClk`, `MaxStep`, `Frame` and `MaxOff` 1, `Inputs` {"skip", "reset"}) satisfy the same
properties in 5,449,008 states, in which no drive sleeps for so long that it has to
catch up at a warp; when one has, two drives do disturb each other (6.2).

**event_history.** A frame of two cycles with one raster line per frame, a second of
four cycles, a guard of 12 with a start at 9, so that a recording of up to
five cycles (`MaxAge`) meets the warp, two timestamps and the end of a frame; two inputs
(`MaxInputs`), enough for an input on each side of a warp, a reset or a milestone, or
both on one side. One session is recorded and saved, and then continued or played
(`OneSession`), also after a restart; keys and datasette, with delays up to a frame.
*Shown:* `AllActionsRecorded`, `PlaysTheSession`, `PlaybackGoesOn`, `EndsWhereItEnded`,
for a user who does none of the things that `Inputs` names. Deadlock is checked, so none of
the bounds stops a session half-way. A clock of twice the guard (`Width`) stands for the
C64's ratio: a second and a frame fit into the cushion (985,248 + 19,656 below 1,048,575),
so that no alarm of the history wraps. On a Plus/4 or a CBM-II they do not.

**flash_chip.** Two sectors, two addresses, each of which is one of the magic ones and
lies in one of the sectors; any byte of the command table at either. The contents of
one address are kept, the other one's are not. Snapshots are written during a sector
erase (`SavedIn`), where the state, the sectors and the alarm all have to come back. *Shown:*
`EraseInProgress`, `ChangesAreDirty`, `ChangesOnCommand`, `SectorsGetErased`.

**disk_files.** Three blocks, two names, two directory entries and two channels; a block
holds one datum, so that each datum after the first needs a new block, and files of three
blocks fill the disk. That is enough for a file that is replaced or copied while
another one grows, for a disk that gets full in each of the three places where a channel
takes a block and in a copy, for a concatenation of a file with itself, and for a kill
between commands, and between the entry and the map in each command that writes both;
two channels, for a map that one of them writes while the other one's file is still open. There is one datum: contents are told apart by their length.
With two data the same properties hold on two blocks (`Block` {b1, b2}, `Datum` {d1, d2};
359,730 states), where order and origin of the data count. States that
differ only in what blocks hold that nobody owns are taken as one (`View`): no step reads such
a block before it is written, and none of the properties does. Nothing is counted without
bound: the disk limits what can be sent. *Shown:* `FilesDisjoint`, `SpaceAccounted`, and the
refinement `ImplementsFileStore`.

The two refuting runs check one sentence of the sources each; section 6 tells what
they show.

## 4. Fairness

- `MainLock`: weak fairness of each step of a thread that is under way.
  `YieldOnce` is fair because `mainlock_yield_once` is called from
  `vsync_do_end_of_line` (`vsync.c:467`), `sound_flush` (`sound.c:1387`) and
  `tick_sleep` (`tick.c:115`), paused or not. Starting a handler, leaving a
  dialog inside one, and exiting are the user's: no fairness. `exitPosted /\
  EnterExit` is fair since GTK dispatches a queued timeout.
- `RenderPipeline`: weak fairness of a thread's next step; strong fairness where
  the step waits for a mutex, whose holders release it in each turn. Frames,
  redraws, resizes and the exit are not fair.
- `Interrupts`: weak fairness of the CPU loop as a whole. Devices and user may
  act or never act, also between any two CPU steps.
- `Netplay`: weak fairness of each peer's own steps. A user who has stopped his
  machine lets it go on (suspension ends with the next hook); inputs,
  connections, disconnections and failures are not fair.
- `FlashChip`: weak fairness of the erase alarm, which the main CPU dispatches once
  its clock has reached it. The program, the user and resets are not fair.
- `AlarmClock`, `DriveClock`, `EventHistory` and `DiskFiles` have safety properties only: that the
  end of a session or a lag is reached is said at the cycle where it must be.

## 5. What is proved

All theorems are about the modules TLC checks, for every value of the constants
that satisfies the named assumption of the module.

**`MainLockProofs`** (assumes `MainLockAssumption` and `~EarlyUI`). The invariant is
`TypeOK /\ Ownership`. `UIHasControl` alone is not inductive: that the UI has
control when its wait returns depends on the VICE thread being parked *because of*
that signal, that it stays parked on the count the UI still has to release, and
that with a lock count above zero it is parked or has stopped running.
`Ownership` says that. From it: `TypeCorrect`, `OwnershipHolds`,
`UIControlSafe`, `NoAbortSafe`, `ShutdownIsFinal` (once a shutdown is ordered the
VICE thread does not go back from its yield point to emulation) and `Refinement`.

**`AlarmClockProofs`** (assumes `AlarmAssumption` and `StandingAlarm`). The invariant is
`TypeOK`, `SlotsConsistent` with `NextIsEarliest` and "the standing alarm is
pending" (without which the cache may hold the "never" clock, which a warp turns
into garbage), `DueTimesKept` and `DispatchSafe`. `DueTimesKept` holds a slot against the
time its alarm was asked for: they are equal, or the slot is one whole clock less. An alarm
that has wrapped was asked for at the clock's end or later, which is out of reach of a
clock that the guard keeps below its limit plus a frame; time does not pass a slot, so it
does not pass what was asked for; and a warp takes the same from both, because no slot is
so far behind the clock that the subtraction wraps. Each operation has a lemma, and the arithmetic of the warp
(`DivBounds`, `ModShift`, `ClockSubBounds`) is kept apart. From it: `TypeCorrect`,
`SlotsStayConsistent`, `CacheIsExact`, `NeverWild`, `DueTimesAreKept`,
`WarpsMakeRoom`, and `Refinement`: any number of alarms and slots on a clock of
any width, armed as far ahead as the clock is long, implements the alarm service of an
unbounded clock, in which only alarms beyond `Reach` may fire early.

**`RenderPipelineProofs`** (assumes `PipelineAssumption`). The invariant `IInv` joins
the types; who holds each lock at which step and how far the exit has come; which thread
holds a backbuffer when; `OneOwner`; `NoneShared`, that no backbuffer is in two of the
stack, the ring and the two threads' hands; and `FramesOrdered`, that from the screen over
the render thread and the ring to the VICE thread frames only get newer. `OneOwner` alone
is not inductive: that the frame taken from the ring is no longer in it, and that the
backbuffer given back is nowhere else, is what `NoneShared` adds, position by position
(lemmas `Popped`, `Pushed`, `Enqueued` and `Dequeued` for the stack and the ring, with the
arithmetic of the ring's slots apart in `Around` and `Slots`). The exit needs no argument about
fairness: what each stage of `main_exit` has behind it (`ExitStages`) rules the renderer out
of every other place. From it: `PipelineInvariant`, `TypeCorrect`, `BackbuffersHaveOneOwner`,
`NoBackbufferShared`, `DestroyIsLast`, `ScreenGoesForward`.

**`InterruptsProofs`** (assumes `InterruptsAssumption`: finitely many devices). The
invariant joins `TypeOK`, `LinesAgree`, `SpuriousIRQExpires`, `NMIKeepsPriority`
and `TrapIsOwed` with `CopyIsLocal`, which says that the CPU's copy of the
pending kinds does not outlive one turn of the loop; `LinesAgree` needs it
because a reset that is still in the copy excuses a disagreement. One lemma per
action. From it: `TypeCorrect`, `LinesAlwaysAgree`, `SpuriousAlwaysExpires`,
`NMIPriority`, `TrapsAreOwed`. `ResetsKeepMonitor` needs no invariant: only two commands,
one of which deletes the checkpoints, take the flag away.

**`NetplayProofs`** (assumes `NetplayAssumption`: a delay is at least two frames). That a
peer cannot wait for one that has gone needs a count of lists. `Counts`: while the
connection stands, the lists a peer has read in it and those on the way to it are the
lists the other one has sent. `Pace`: a peer that waits has sent `frame_delta` lists more
than it has read, one that runs `frame_delta - 1`; until its buffer is full it has read
none. Who closes its socket with nothing left to read, and so without a reset, has read
all that the waiting peer `p` has sent, `delta[p]` lists more than `p` has read; and it
has itself sent `delta - 1` more than that. So at least `delta[p] + delta[q] - 1` of its
lists are still unread at `p` (`LeavesList`). Around it: `AtPlaces`, which socket is open
and which lists exist where a peer is; `SessionsOrdered`, that a peer gets its lists once
in a connection and plays with no older ones unless the connection is reset (a peer whose
delay test failed does, `TestFails`, but then the connection is); `Fresh`, that a
connection not yet accepted is empty. The parts are kept one lemma each, with a step per
action. The two delays need not agree (`ClientStartsBlindly`). From it:
`NetplayInvariant`, `TypeCorrect`, `HangUpIsNoticed`, `NoListLost`, `FramesInPace`,
`NotBothStarve`.

What is *in* the lists needs a second invariant on top of the first, `Contents`
(`ListsArriveAsRecorded`). A list has no number: that the list a peer takes from the wire
belongs to the frame that it takes from the slot `toPlay` follows only from counting.
`OnTheWay` gives the i-th list on the way to `p` the number of lists `p` has read plus i,
and says that it holds what the other peer recorded for the frame of that number; a list
that is sent gets the right number because of `Counts`. `Buffers` says the same of the
slots of a peer, back to the first frame it has not played; that `PrepareNextFrame` clears
no slot that is still needed, and that `toPlay` is the slot of the next frame to play, is
because of `Pace` (`Ahead`, `SlotsAdvance`, `NextListIs`). For `OutOfSyncStopsBoth`
`OnTheWay` also compares lists with the test for sync: as long as the sender has not
played that frame it holds the very list that is on the way, so that both peers compare
the same two lists; once it has, whether they differ is whether it has found so
(`Agreement`, `LostOnes`). `Steps` sorts the actions of `Next` into those that leave the
contents alone (`Quiet`) and those that connect, start, add to a list, end a frame or
receive, with a lemma for each. What
`Playback` computes is a recursive function, of which `PlaybackMore` shows what one more
event adds. From it: `BothStopOutOfSync` and `NetplayImplementsTimeline`, step by step
(`TimelineStep`), for any inputs, delays and number of sessions. Both invariants were
checked by TLC first, under the bounds of `netplay`.

**`FlashChipProofs`** (assumes `FlashChipAssumption`; `EraseIsInProgress` also
`Inputs = {}`: the user waits for the end of an erase before he changes cartridges). The
invariant `IInv` joins `TypeOK`, `Consistent` of the chip and of the chip a snapshot
would restore, `ChangesAreDirty`, and `Tracks`, of the chip and of the snapshot, which
ties the chip's state machine to the program's history: which command, and how much of it,
the last stores begin in each state, that the sectors to erase have been ordered, and that
a chip that waits for more sectors has an erase to add them to. The snapshot has to be in
it because it may be loaded at any later time. `Begun` is a choice among the ends of a
sequence; `Longest` shows that it is the longest end that begins a command, `Shape` spells
out what that means position by position, and `NextToken` follows: the length of the
begun command after each store, whatever false starts came before. `StoredFollows` and
`StoredTracks` say of every store in every state that the chip stays consistent, a change
makes it dirty, and `Tracks` holds after it; `Modify` is two stores. From it:
`TypeCorrect`, `EraseIsInProgress`, `ChangesStayDirty` and `OrderedChangesOnly` (the
property `ChangesOnCommand`), for any sectors, magic addresses, bytes and moments of
snapshots.

**`DiskFilesProofs`** (assumes `DiskFilesAssumption`: fewer than 65536 blocks, which an image
with one-byte tracks and sectors cannot exceed; a 16-bit block count of an entry is exact
because of it). A drive is looked at as a set of owners, the closed files and the channels
that write. `IInv` has two halves. Of a disk that is not torn it says `Intact`: `Sound`, and
`Exact` as long as `leaky` is false. Of one that is torn it says `Cut` (below); of one that is
spoiled nothing. `Sound` says that from each owner's first block the links lead along a chain without
repetition that ends (`Leads`), that its blocks are allocated and nobody else's (`Paths`);
that a channel's block is the last of its chain, counts one block less than the chain
has, and has a directory entry of its own, closed only while it is being replaced
(`Channeled`); and that a closed file's blocks are allocated in the map on the image too
(`OnImage`), without which `Kill` and `Initialize` would free them. `Exact` says that nothing
else is allocated. `FilesDisjoint` alone is not inductive: a channel is about to become a
file, so its chain has to be known before its last block is linked, and a map that is
read again has to be as good as the one in memory.

`Cut` is what a kill between an entry and the map leaves: no channel is open, the
directory and the links are those of *some* sound drive (`Torn`: the one that the command
would have ended with, or began with), whatever the map; and, unless `leaky`, the map has no
block without an owner, and each file's blocks all or not at all (`TornExact`), so that what
is freed or allocated next is a whole file. `KillInCloseTears`, `KillInCopyTears` and
`KillInScratchTears` lead from `Intact` to `Cut`, the commands that write no file keep it, and
`Validate` leads back, because it makes the map from the chains alone.

Each step is a composition of few operations on a drive, so the argument goes by operation,
not by action: a first block (`TakeSound`), a link (`LinkSound`), the end of a chain with
the entry and the freed old chain (`ClosedSound`), a change that leaves every owner its blocks
(`AlikeSound`), a file that comes to be written (`OpensSound`), and commands that take
files away or add one (`FilesChangeSound`). All of them rest on `KeptPaths`: whose links do not
change keeps his chain. What `Chain`, `CloseAllChannels` and `ValidateWorker` compute is defined by
recursive functions; `ChainIs`, `CloseAllSound` and `ValidatedIs` go through their steps by
the least number principle (`Induction`, from `WFMin` of the library), which needs no
theorem with an operator as a parameter. `ValidatedIs` shows that validation never fails on a
disk that these commands have written, because the chains it allocates have been disjoint
all the time: after it nothing is lost. From it: `FilesStaySound` (the invariant; it
was checked by TLC under the bounds of `disk_files` first), `BlocksHaveOneOwner` and
`NoBlockIsLost`. `Settled`, that programs leave files alone that are being written, is in the
model and so in the theorems (section 6.2).

**`EventHistoryProofs`** (assumes `EventHistoryAssumption` and `Careful`: `Inputs` is within
"first reset", "crowded" and "no milestone"). The theorems are about a user who gives one
command at a time, whose keys the window does not let go, who holds no joystick at a
snapshot, and so on: with any other member the code does lose or change an input
(section 6.2), `AllActionsRecorded` itself fails with "clear", "rush", "held" and "disk full",
and two hazards of `PROJECT.json` (`event.c:785`, `keyboard.c:889`) stay without a property. `AllActionsRecorded` is about the list and the machine of one
moment and far from inductive: both are thrown away and come back from a file that was
written without timestamps, perhaps in another process, and is read with new ones; the list
of a playback is cut at its current node and recorded on. `IInv` therefore follows the list
wherever it is. `Holds` says that a list begins with its one node that says how, and that
the inputs up to its first end are those of a history: of the machine's while it is recorded
(`RecordGood`), of the file's in a file (`FilesGood`). In a playback the nodes before the
current one are what the machine has got, and the whole list what the file's machine got
(`PlayGood`); a reset of the list is played before its node is passed (`AtReset`), which makes
the position depend on whether the machine is being reset. `event_record_stop` appends the end a cycle
or more before the recording stops, and a warp between the two appends behind that end, so that
"the last node is the only end" holds only without a "record stop". What reaches the machine between a
command and its trap would be lost: `LatchesGood`, `TrapGood` and `ResetGood` show that
no latch alarm falls there. `IdleGood` keeps the
reset of a machine that plays nothing from going on with a list that was stopped. The
recursive functions `Actions`, `Written` and `WithTimestamps` are gone through one node at a
time by the least number principle (`Induction`): one more node (`ActsStep`, `OneNode`),
nodes that are no inputs (`ActsQuiet`), a recorded node (`GrownHolds`, and `GrownKeeps` behind
an end), the list of a snapshot (`WrittenHolds`), of a snapshot that is read (`ReadHolds`) and
one that is cut (`CutHolds`). From it: `HistoryIsSound` (`IInv` was checked by TLC
first), `CarefulSessionsAreRecorded` (`AllActionsRecorded`) and `SessionsPlayInOrder`, which is
`PlaysTheSession` without its times: the same inputs in the same order and no others, and none missing at the end.

**Only model-checked.** Everything temporal under fairness (out of TLAPS's reach):
`ObtainCompletesWhileViceYields`, `ShutdownCompletesWhileViceYields`,
`FrameLeavesQueue`, `ExitCompletes`, `NMIServed`, `IRQServed`, `FramesAdvance`,
`SectorsGetErased`. And so far `ImplementsFileStore` of `DiskFiles`, all of `DriveClock`, and the times of
`EventHistory`. In `DriveClock` the conversion folds over chunks, and `InSync` is not true of
every number of drives (section 6.2). In which cycle a playback gives an input
(`PlaysTheSession`, `PlaybackGoesOn`, `EndsWhereItEnded`) needs the age of each node of a list,
whose clocks are set back by every warp and reset before them, and the same of the
timestamps that are put between them; the theorems say nothing about clocks but that a reset
is not recorded at 0.

## 6. What the code does otherwise

### 6.1 Found by a run

Each is listed with its sentence of the sources under `findings` of `PROJECT.json`.

- **A lost wake-up on exit** (`mainlock_lost_wakeup`). On the VICE thread
  `consider_exit` clears `vice_thread_is_running` and signals without the mutex. A
  UI thread that has just tested that flag and has not yet waited misses the
  signal and hangs; the exit queued for it never runs.
- **A drive reset runs the drive's past again** (`drive_reset`). A reset of the drive
  alone (menu, status bar, autostart, monitor) sets the drive's clock to 6 and leaves
  `stop_clk` where it is; the loop that serves the reset then goes on for all the
  cycles the drive has had since it was switched on, up to an hour's worth in one
  bus access.

### 6.2 Noticed while modelling

Where an instance of a module shows it, its property and constants are given.

Alarms, interrupts and netplay:

- *The warp of a context without alarms.* The "never" clock ~0 is shifted like a real
  one (`alarm.c:95`); a drive CPU whose timers are all stopped at that moment then
  dispatches slot -1, 71 minutes of drive time later. `AlarmClock`, `DispatchSafe`, with
  `Alarms` {r, a, b}, `Standing` Idle, `MaxPending` 2, `Width` 17, `SubMin` 4, `ClkBase` 1,
  `Frame` 1, `MaxStep` 2, `MaxLate` 2, `Reach` 2, `Horizon` 2, `MaxWarps` 2.
- *An alarm that reaches beyond the cushion fires at once.* Armed during the last
  million cycles before a warp, the alarm of a flash sector's or chip's erase
  (`core/flash040core.c:244`, 373) or of an ATA drive's standby (`core/ata.c:168`) wraps to
  a due time in the past; the erase ends with its command, once in up to 71 minutes.
  `MCAlarmClock`, `NeverEarly`, with the constants of the run; it holds with `Horizon` 1.
- *A CMD hard disk's reset is armed at cycle 8,000,000 of the clock*, not 8,000,000
  cycles from now: `clk + sig ? 8000000 : 500000` is parsed as `(clk + sig) ? ...`
  (`drive/iec/cmdhd.c:1265`). After that cycle it is due at once, further behind the clock
  than `MaxLate` allows: outside the model.
- *A trap is lost.* Of two traps posted before the next opcode boundary the first is
  never called (`interrupt.c:321`). `Interrupts`, `TrapsKept`, with `Devices` {d1}, `Traps`
  {t1, t2}, `Inputs` {"trap"}.
- *Checkpoints go dead after a snapshot load.* The snapshot's `global_pending_int`
  replaces the running one, `IK_MONITOR` included (`interrupt.c:419`). `Interrupts`,
  `CheckpointsWatched`, with `Devices` {d1}, `Traps` {t1}, `Inputs` {"trap", "arm", "restore"}.
- *The client waits for ever.* A server that closes before it sends leaves the client
  in `recv` in a loop, in the UI thread (`network.c:344`). `Netplay`, `DownloadEnds`, with
  the constants of the run.
- *A socket is closed twice.* A list that cannot be sent disconnects, and the
  receiving half disconnects once more (`network.c:804`). `Netplay`,
  `ClosesOpenSockets`, with the constants of the run.
- `cpu_is_jammed` is cleared by a reset only: after a snapshot load or the monitor's
  `go` the CPU drops its interrupts at every boundary (`6510core.c:2174`).
- The client switch of the GTK3 netplay dialog starts a server first
  (`netplaywidget.c:206`), after which `network_connect_client` refuses.
- A delay of 251 or more frames wraps in `network_test_delay` (`network.c:429`).
- `EVENT_JOYSTICK_DELAY` is not recorded (`event.c:338` has no case for it).

Mainlock and renderer:

- `EarlyUI = TRUE`: a handler that runs before the new thread's `mainlock_init`
  takes the lock at once, and the VICE thread then emulates beside it.
- Neither `pthread_cond_wait` of `mainlock.c` sits in a loop that tests a
  predicate; a spurious wake-up would give the UI control of a running machine.
- A frame that the VICE thread draws after the render pool is closed
  (`opengl_renderer.c:350`) is queued and stays in the ring until it is freed.

Drives:

- *A long sleep loses its place at a warp* (`Inputs` with "forget"). A drive that skips
  cycles and was not looked at since before the last warp but one has a `last_clk` that
  the wrap makes newer than the clock (`drivecpu.c:283`). `DriveClock`, `InSync`, with
  `NumUnits` 2, `Width` 24, `SubMin` 3, `Frac` 1, `Chunk` 4, `Factors` {1}, `SkipAfter` 9,
  `WarmUp` 3, `ResetClk`, `MaxStep`, `Frame` and `MaxOff` 1, `Inputs` {"skip", "forget"}.
- *The catch-up of one drive at a warp runs the other one twice.* The drives follow the
  warp one after the other, and a drive that has slept for long calls
  `drive_cpu_execute_all` with the old clock (`drivecpu.c:283`). A drive with a lower number has
  followed already: it is executed again, for the `sub` cycles of the warp, and is left
  with a `last_clk` newer than the clock. `DriveClock`, `InSync`, with `NumUnits` 2,
  `Width` 29, `SubMin` 3, `Frac` 1, `Chunk` 4, `Factors` {1}, `SkipAfter` 12, `WarmUp` 3,
  `ResetClk`, `MaxStep`, `Frame` and `MaxOff` 1, `Inputs` {"skip"}: the first drive does not
  skip cycles and the second one does. For this reason `InSync` holds for one drive and
  for drives that are looked at often enough, and no theorem states it for every `NumUnits`.
- A catch-up after a long sleep can run a drive's clock past the guard's cushion, which is
  looked at once per frame (`drivecpu.c:272`).
- A change from "skip cycles" to another idle method catches up with all that was not
  skipped yet; the source has a FIXME there (`drive-resources.c:270`).

Event history; in parentheses the member of `Inputs` that shows it:

- Keys let go by the window are not recorded: it calls `keyboard_key_clear` on every enter,
  leave and focus change, which releases keys and joysticks at once and does not tell the
  history (`keyboard.c:889`), although "All actions will be recorded"
  (`src/vice/doc/vice.texi:16364`): `AllActionsRecorded` fails ("clear").
- A second command before the first one's trap takes its place ("rush").
- The joystick value of port 1 is restored into port 2 (`joystick.c:1249`), so that a held
  joystick is another one after a snapshot ("held").
- Latch alarms that are pending when a snapshot, a reset or a milestone sets the clock keep
  their old due time ("pending").
- A recording may start while a playback goes on (`event.c:747` does not look), and both
  are active ("both").
- A machine reset wakes a playback that was stopped at a reset: `event_reset_ack` does not
  look at `playback_active` (`event.c:811`) ("revive").
- A recording that begins with a reset and has a reset as its first event plays that one as
  the other ("first reset").
- If the snapshot at the end cannot be written, recording goes on behind the end of the
  list, without timestamps (`event.c:768`) ("disk full").
- Resetting to a milestone that was never set reads the end of another session
  ("no milestone").
- More than one event in the cycle of a warp is played one warp too late (`event.c:382`)
  ("crowded").

Flash chips:

- `flash040core_shutdown` leaves the alarm of the chip pending on memory that is freed
  (`flash040core.c:494`): `EraseInProgress` with `Inputs` {"erasing"}.
- A sector added in the time-out window does not restart the time-out (`flash040core.c:354`);
  on the real chip it does.
- A resume starts the current sector again, and a snapshot starts the erase of it again.
- Writing the image back on demand does not make it clean (`gmod2.c:482`), so that
  detaching writes it once more.

Files on disk images:

- *A kill in the middle of a command leaves a file whose blocks are free.* Closing a file
  and copying write the directory entry and then the map (`vdrive-iec.c:834` and 843,
  `vdrive-command.c:1266` and 1269), scratching writes the map and then clears the entry
  (`vdrive-dir.c:203` and 207), and each write is flushed. If the process ends between the
  two, the image has a closed file whose blocks are free in its map. Nothing tells the next
  session, which takes those blocks for the next file it writes: two files share them, and
  what the first one held is gone. Validating the disk before anything is written mends
  it without loss. `FilesDisjoint` without its `~torn` fails three states from the
  start (a file is opened and killed while it is closed), and without its `~spoiled`
  five (another one is written and copied then). All three properties of the run and the theorems make
  these two exceptions and no others.
- *Nothing protects an open file.* A program may scratch, rename, replace or append to a
  file that another channel writes; error 60, WRITE FILE OPEN, exists in `cbmdos.c:71` and
  is never set. The chain is freed under the channel. Without `Settled`, `FilesDisjoint` fails.
- Replacing a file on a full disk frees the old one and puts an incomplete or empty one in
  its place, with the block count of the old one if not even the first block was free
  (`vdrive-iec.c:810`). The error channel tells, but not if the channel is closed by
  validate, initialize or detach.
- Appending on a full disk loses the last block of what was there before, because the
  buffer is reset before it is flushed (`vdrive-iec.c:1098`).
- A copy that runs out of space keeps the blocks it took (`vdrive-command.c:996`), and a copy
  of several empty files is refused, because the estimate is compared unsigned.
- A validation that fails on the border block of a GEOS disk goes past the place where the
  old map is put back, and the incomplete one stays in memory (`vdrive-command.c:3026`).
- Switching true drive emulation on or off writes or forgets the map and leaves the channels
  open (`drive/drive-resources.c:70`).

## 7. What is not modelled

Within the modelled components: `mainlock_yield_begin`/`_end` (a build without a
UI thread); the second canvas of x128; IK_DMA and the cycle arithmetic of
`interrupt_fixup_int_clk`; the loops of x64sc, the 65816, the 6809 and the
drives; in netplay the attached images inside events, the resources forced before
a game, the latches that played events go through, a second client; of the drives
their instructions, interrupts, alarms and snapshots; of the event history the attached
images, the network half and the display of the time; of the flash chips how long an
erase takes and which address lines a chip type decodes; of the disk images relative and
GEOS files, partitions and sub-directories, direct block access, formatting, write
protection, reading channels, wildcards and the growth of the directory. Memory
ordering: the flags read outside a mutex are read as written.

Other components: see section 1.3 and the notes in `PROJECT.json`.

## 8. Plan

Done, in the order of importance: `MainLock`, `AlarmClock`, `RenderPipeline`,
`Interrupts`, `Netplay`, `DriveClock`, `EventHistory` with the input latches,
`FlashChip` and `DiskFiles`, with the theorems above.

Next theorems, the most important first:

1. `EventHistory` `PlaysTheSession`: the cycle of each input, on top of `SessionsPlayInOrder`,
   with the age at each node of a list as a recursive function of the warps and resets in it.
2. `DiskFiles` `ImplementsFileStore`: the chains of `IInv` give the blocks of each file;
   what is missing is their data, and what validation makes of a file that is open.
3. `DriveClock` `InSync` and `DriveClockNeverWraps`, with the facts about the fold of the
   conversion as far as they need no induction.

Next modules: `KeyboardBuffer` (`kbdbuf.c`, with its delayed RETURN and resets),
`Datasette`,
`Checkpoints`, `Autostart`. Runs that show the least give way to theirs.
