---------------------------- MODULE EventHistory ----------------------------
(***************************************************************************)
(* The event history: event.c, with the input devices whose actions it     *)
(* records (keyboard.c, joystick.c, datasette.c), the reset of the machine *)
(* (machine.c) and the snapshots it starts from.                           *)
(*                                                                         *)
(* What the user does is written into a list with the main CPU's clock; to *)
(* play a session the machine is put back to where the recording began and *)
(* an alarm repeats the list.  The emulation is deterministic, so that the *)
(* machine repeats the session if its inputs do, at the same clock.        *)
(*                                                                         *)
(* At each value of the clock the alarms that are due are dispatched, in   *)
(* any order (phase "alarms"); the user acts inside the alarm that draws a *)
(* raster line (phase "line"), where the emulator's thread lets the UI in. *)
(* Then traps and resets are served (phase "interrupts") and an            *)
(* instruction runs.                                                       *)
(***************************************************************************)
EXTENDS Integers, Sequences, SequencesExt

CONSTANTS
  GuardMax,         \* clk_max_value of the main clock's guard
  SubMin,           \* CLKGUARD_SUB_MIN
  Second,           \* machine_get_cycles_per_second
  Frame,            \* cycles per frame
  Line,             \* cycles per raster line
  ResetClk,         \* 6, the clock after a reset
  NoFile,           \* model value: the file does not exist
  StartClks,        \* bound: the clock when the first command is given
  MaxIdle,          \* bound: an idle machine is not run past this clock
  MaxAge,           \* bound: a recording is not run past this age
  MaxInputs,        \* bound: inputs of a recording
  OneSession,       \* bound: one session is saved, then continued or played; of what
                    \* is done outside of it only keys before it begins
  UserLines,        \* bound: the input lines the user plays with
  Modes,            \* bound: the start modes the user chooses
  Inputs            \* what the user of this instance does not take care of

Keys == {"key"}
Joys == {"port 1", "port 2"}
Tape == {"play"}
Latched == {"keyboard", "joystick"}
LinesOf == [keyboard |-> Keys, joystick |-> Joys, datasette |-> Tape]
Lines == Keys \cup Joys \cup Tape

AllModes == {"save", "load", "reset", "playback"}
AllInputs == {"clear", "rush", "held", "pending", "both", "revive",
              "first reset", "disk full", "no milestone", "crowded"}
Width == 2 * GuardMax
Sub == ((GuardMax - SubMin) \div Frame) * Frame   \* clk_guard_clock_sub
Off == -1                                         \* an alarm that is not pending

ASSUME EventHistoryAssumption ==
  /\ {GuardMax, SubMin, Second, Frame, Line, ResetClk, MaxIdle, MaxAge, MaxInputs}
       \subseteq Nat
  /\ OneSession \in BOOLEAN
  /\ Line > 0 /\ Frame > 0 /\ Frame % Line = 0 /\ Second > 0
  /\ SubMin > 0 /\ GuardMax >= 3 * SubMin + Second + Frame
  /\ StartClks \subseteq 0..GuardMax
  /\ UserLines \subseteq Lines /\ Modes \subseteq AllModes /\ Inputs \subseteq AllInputs

VARIABLES
  clk,                        \* maincpu_clk
  phase,                      \* "alarms", "line" or "interrupts"
  raster,                     \* the alarm of the raster line is still due
  lines,                      \* keyarr, joystick_value, the datasette's key
  latch,                      \* latch_keyarr and latch_joystick_value
  due,                        \* keyboard_alarm and joystick_alarm
  reset,                      \* IK_RESET is pending
  trap,                       \* the trap that is posted, "none" if there is none
  record_active, playback_active, playback_reset_ack,
  list,                       \* event_list from base to the last node
  current,                    \* the position of event_list->current, 0 for NULL
  event_alarm,                \* the clock event_alarm is pending for, or Off
  next_timestamp_clk, milestone_timestamp_alarm,
  start_file, end_file,       \* the snapshots of the history
  age,                        \* the machine's cycles since the session began
  seen                        \* what the machine has got as input since then

machine == <<clk, lines, age, seen>>
inputs == <<latch, due>>
modes == <<record_active, playback_active, playback_reset_ack>>
history == <<list, current>>
stamps == <<next_timestamp_clk, milestone_timestamp_alarm>>
files == <<start_file, end_file>>
flow == <<phase, raster>>
vars == <<clk, phase, raster, lines, latch, due, reset, trap, record_active,
          playback_active, playback_reset_ack, list, current, event_alarm,
          next_timestamp_clk, milestone_timestamp_alarm, start_file, end_file,
          age, seen>>

Node(type, at, data) == [type |-> type, clk |-> at, data |-> data]
EndNode == Node("end", 0, {})
InputTypes == {"keyboard", "joystick", "datasette", "reset"}
NodeTypes == InputTypes \cup
             {"initial save", "initial reset", "timestamp", "overflow", "end"}
RecordTrap == [save |-> "record save", load |-> "record load", reset |-> "record reset",
               playback |-> "record playback"]
Traps == {"none", "record stop", "playback start", "set milestone", "reset milestone"}
           \cup {RecordTrap[m] : m \in AllModes}

Init ==
  /\ clk \in StartClks
  /\ phase = "interrupts" /\ raster = FALSE
  /\ lines = {} /\ latch = {} /\ due = [d \in Latched |-> Off]
  /\ reset = FALSE /\ trap = "none"
  /\ record_active = FALSE /\ playback_active = FALSE /\ playback_reset_ack = FALSE
  /\ list = <<>> /\ current = 0 /\ event_alarm = Off
  /\ next_timestamp_clk = 0 /\ milestone_timestamp_alarm = 0
  /\ start_file = NoFile /\ end_file = NoFile
  /\ age = 0 /\ seen = <<>>

-----------------------------------------------------------------------------
(* The list *)

FirstEnd(nodes) == CHOOSE i \in DOMAIN nodes :
  nodes[i].type = "end" /\ \A j \in 1..i - 1 : nodes[j].type # "end"
UpToEnd(nodes) == SubSeq(nodes, 1, FirstEnd(nodes))

\* event_record_in_list: the current node is filled and a new end appended.
InList(nodes, at, node) == ReplaceAt(nodes, at, node) \o <<EndNode>>

\* The machine gets an input now.
Entry(type, data) == [at |-> age, type |-> type, data |-> data]
Sees(type, data) ==
  seen' = IF record_active \/ playback_active THEN Append(seen, Entry(type, data))
                                              ELSE seen

\* event_record
Record(type, data) ==
  IF record_active
  THEN /\ list' = InList(list, current, Node(type, clk, data))
       /\ current' = current + 1
  ELSE UNCHANGED history

\* Mutant: the node's clock is taken as it was recorded.
AlarmUnwarped(n, now) == n.clk

\* next_alarm_set for the node n with the clock at now: an event that lies far
\* back belongs to the time after the next warp.
Alarm(n, now) ==
  IF now > SubMin /\ n.clk < now - SubMin THEN n.clk + Sub ELSE n.clk

\* Mutant: one timestamp too many, behind the event.
MissingTooMany(next, until) ==
  IF next < until THEN (until - next + Second - 1) \div Second + 1 ELSE 0

\* The timestamps that are due before the clock until.
Missing(next, until) ==
  IF next < until THEN (until - next + Second - 1) \div Second ELSE 0

\* One node of a snapshot as event_snapshot_read_module reads it: the timestamps before
\* it are put in.
ReadNode(read, n) ==
  LET until == IF n.type = "overflow" /\ n.clk < GuardMax THEN GuardMax ELSE n.clk
      missing == Missing(read.next, until)
      stamped == [i \in 1..missing |-> Node("timestamp", read.next + (i - 1) * Second, {})]
      back == CASE n.type = "overflow" -> Sub
                [] n.type = "reset" -> n.clk
                [] OTHER -> 0
  IN IF n.type \in {"initial save", "initial reset"}
     THEN [out |-> Append(read.out, n),
           next |-> IF n.type = "initial reset" THEN 0 ELSE n.clk]
     ELSE [out |-> read.out \o stamped \o <<n>>,
           next |-> read.next + missing * Second - back]

\* The list of a snapshot, up to the first end, with a timestamp for each second.
WithTimestamps(nodes) ==
  LET upto[i \in 0..FirstEnd(nodes)] ==
        IF i = 0 THEN [out |-> <<>>, next |-> 0] ELSE ReadNode(upto[i - 1], nodes[i])
  IN upto[FirstEnd(nodes)]

\* event_snapshot_write_module leaves the timestamps out.
Written(nodes) ==
  LET upto[i \in 0..Len(nodes)] ==
        IF i = 0 THEN <<>>
        ELSE IF nodes[i].type = "timestamp" THEN upto[i - 1]
        ELSE Append(upto[i - 1], nodes[i])
  IN upto[Len(nodes)]

-----------------------------------------------------------------------------
(* Snapshots *)

Snapshot(nodes) == [clk |-> clk, lines |-> lines, list |-> Written(nodes),
                    age |-> age, seen |-> seen]

\* joystick_snapshot_read_module reads the value of a port into the next one.
Restored(saved) ==
  (saved \ Joys) \cup (lines \cap {"port 1"})
    \cup (IF "port 1" \in saved THEN {"port 2"} ELSE {})

\* The machine goes on from a snapshot; the latches and their alarms stay.
Load(file) ==
  /\ clk' = file.clk
  /\ lines' = Restored(file.lines)
  /\ age' = file.age
  /\ seen' = IF Restored(file.lines) = file.lines THEN file.seen
             ELSE Append(file.seen, [at |-> file.age, type |-> "joystick",
                                     data |-> Restored(file.lines) \cap Joys])

-----------------------------------------------------------------------------
(* The user, while a raster line is drawn *)

Acting == phase = "line"

\* The guard of the clock warps it at the end of the frame at the clock at.
Warps(at) == at % Frame = 0 /\ at >= GuardMax

\* An instance without "rush" gives one command at a time, and none at the very
\* cycle an input becomes effective; without "crowded" not more than one input becomes
\* effective in the cycle of a warp, and no command is given there.
Calm ==
  /\ "rush" \notin Inputs => trap = "none" /\ ~reset /\ \A d \in Latched : due[d] # clk
  /\ "crowded" \notin Inputs => ~(Warps(clk) /\ (record_active \/ playback_active))

\* Without "held" no joystick is held when a snapshot is written or read, and no
\* key or button when the machine is reset for one.
AtRest(mode) == "held" \notin Inputs =>
  lines \cap Joys = {} /\ (mode = "reset" => lines = {})

\* Without "pending" no input is on its way to the machine when its clock is set.
Settled == "pending" \notin Inputs => \A d \in Latched : due[d] = Off

Room == IF record_active THEN Len(seen) < MaxInputs /\ age < MaxAge
        ELSE ~OneSession

\* keyboard_key_pressed, keyboard_key_released, joystick_set_value_*: the latch
\* changes now, the machine sees it up to a frame later.
Press(d, l, delay) ==
  /\ Acting /\ Calm
  /\ Room \/ (~record_active /\ end_file = NoFile)
  /\ ~playback_active
  /\ "crowded" \notin Inputs =>
       (Warps(clk + delay) => \A other \in Latched \ {d} : due[other] # clk + delay)
  /\ latch' = IF l \in latch THEN latch \ {l} ELSE latch \cup {l}
  /\ due' = [due EXCEPT ![d] = clk + delay]
  /\ UNCHANGED <<machine, flow, reset, trap, modes, history, event_alarm, stamps, files>>

\* datasette_control, and in the same way the detaching of an image.
Control(l) ==
  /\ Acting /\ Calm /\ Room
  /\ ~playback_active
  /\ LET now == lines \cap Tape
         data == IF l \in now THEN now \ {l} ELSE now \cup {l}
     IN /\ Record("datasette", data)
        /\ Sees("datasette", data)
        /\ lines' = (lines \ Tape) \cup data
  /\ UNCHANGED <<clk, age, inputs, flow, reset, trap, modes, event_alarm, stamps, files>>

\* keyboard_key_clear, when the pointer or the focus leaves the window: what is
\* held is let go at once.
ClearKeys ==
  /\ Acting /\ ~playback_active
  /\ "clear" \in Inputs \/ lines \subseteq Tape
  /\ latch' = {}
  /\ lines' = lines \cap Tape
  /\ IF lines \subseteq Tape THEN UNCHANGED seen ELSE Room /\ Sees("keyboard", {})
  /\ UNCHANGED <<clk, age, due, flow, reset, trap, modes, history, event_alarm, stamps,
                 files>>

\* Without "revive" the machine is not reset while a playback that was stopped
\* stands at a reset; without "first reset" a recording that began with a reset
\* does not go on with one.
Revives == ~record_active /\ current # 0 /\ list[current].type = "reset"
FirstIsReset == record_active /\ Len(list) = 2 /\ list[1].type = "initial reset"

\* machine_trigger_reset
TriggerReset ==
  /\ Acting /\ Calm /\ Room /\ Settled
  /\ ~playback_active
  /\ "revive" \notin Inputs => ~Revives
  /\ "first reset" \notin Inputs => ~FirstIsReset
  /\ Record("reset", {})
  /\ Sees("reset", {})
  /\ next_timestamp_clk' = IF record_active THEN (next_timestamp_clk - clk) % Width
                                            ELSE next_timestamp_clk
  /\ reset' = TRUE
  /\ UNCHANGED <<clk, age, lines, inputs, flow, trap, modes, event_alarm,
                 milestone_timestamp_alarm, files>>

Post(t) ==
  /\ trap' = t
  /\ UNCHANGED <<machine, inputs, flow, reset, playback_reset_ack, stamps, files>>

\* event_record_start; the trap reads the resource EventStartMode again, which
\* nobody changes before.
RecordStart(mode) ==
  /\ Acting /\ Calm /\ AtRest(mode)
  /\ mode \in {"load", "reset"} => Settled
  /\ end_file # NoFile =>
       CASE mode = "load" -> end_file.age < MaxAge
         [] mode = "playback" -> age < MaxAge
         [] OTHER -> ~OneSession
  /\ IF mode = "playback"
     THEN playback_active /\ playback_active' = FALSE /\ event_alarm' = Off
     ELSE /\ "both" \notin Inputs => ~playback_active
          /\ UNCHANGED <<playback_active, event_alarm>>
  /\ Post(IF record_active THEN trap ELSE RecordTrap[mode])
  /\ UNCHANGED <<record_active, history>>

\* event_record_stop
RecordStop ==
  /\ Acting /\ Calm /\ AtRest("save")
  /\ record_active
  /\ Record("end", {})
  /\ event_alarm' = Off
  /\ Post("record stop")
  /\ UNCHANGED <<record_active, playback_active>>

\* event_playback_start
PlaybackStart ==
  /\ Acting /\ Calm /\ AtRest("reset") /\ Settled
  /\ ~record_active /\ ~playback_active
  /\ Post("playback start")
  /\ UNCHANGED <<record_active, playback_active, history, event_alarm>>

\* event_playback_stop
PlaybackStop ==
  /\ Acting
  /\ playback_active
  /\ "revive" \notin Inputs => ~reset
  /\ playback_active' = FALSE
  /\ event_alarm' = Off
  /\ UNCHANGED <<machine, inputs, flow, reset, trap, record_active, playback_reset_ack,
                 history, stamps, files>>

\* event_record_set_milestone
SetMilestone ==
  /\ Acting /\ Calm /\ AtRest("save")
  /\ record_active /\ age < MaxAge
  /\ Post("set milestone")
  /\ UNCHANGED <<record_active, playback_active, history, event_alarm>>

\* event_record_reset_milestone; without "no milestone" one was set.
ResetMilestone ==
  /\ Acting /\ Calm /\ AtRest("save") /\ Settled
  /\ record_active /\ ~playback_active
  /\ "no milestone" \notin Inputs => milestone_timestamp_alarm # 0
  /\ Post("reset milestone")
  /\ UNCHANGED <<record_active, playback_active, history, event_alarm>>

-----------------------------------------------------------------------------
(* The traps *)

Due(a) == a # Off /\ a <= clk
Serving == \/ phase = "interrupts"
           \/ /\ phase = "alarms" /\ ~raster
              /\ ~Due(event_alarm) /\ \A d \in Latched : ~Due(due[d])

Serve(t) ==
  /\ Serving /\ trap = t
  /\ trap' = "none"
  /\ phase' = "interrupts"
  /\ UNCHANGED <<raster, inputs>>

\* The end of event_record_start_trap: recording is on from the clock at.
Recording(at) ==
  /\ record_active' = TRUE
  /\ next_timestamp_clk' = at
  /\ event_alarm' = at
  /\ milestone_timestamp_alarm' = 0
  /\ UNCHANGED <<playback_active, playback_reset_ack>>

NewSession(initial) ==
  /\ list' = <<Node(initial, clk, {}), EndNode>>
  /\ current' = 2
  /\ age' = 0 /\ seen' = <<>>

\* event_record_start_trap
RecordSave ==
  /\ Serve("record save")
  /\ NewSession("initial save")
  /\ start_file' = [Snapshot(<<>>) EXCEPT !.age = 0, !.seen = <<>>]
  /\ Recording(clk)
  /\ UNCHANGED <<clk, lines, reset, end_file>>

RecordReset ==
  /\ Serve("record reset")
  /\ NewSession("initial reset")
  /\ reset' = (reset \/ ~playback_active)
  /\ Recording(0)
  /\ UNCHANGED <<clk, lines, files>>

RecordLoad ==
  /\ Serve("record load")
  /\ end_file # NoFile
  /\ Load(end_file)
  /\ list' = WithTimestamps(end_file.list).out
  /\ current' = Len(list')
  /\ Recording(end_file.clk)
  /\ UNCHANGED <<reset, files>>

\* Mutant: the nodes behind the current one stay in the list.
CutListAfter == [list EXCEPT ![current].type = "end"]

\* cut_list: what follows the current node is freed, and the node becomes the end.
CutList == [SubSeq(list, 1, current) EXCEPT ![current].type = "end"]

RecordOverPlayback ==
  /\ Serve("record playback")
  /\ list' = CutList
  /\ Recording(clk)
  /\ UNCHANGED <<machine, reset, current, files>>

\* event_record_stop_trap
RecordStopped ==
  /\ Serve("record stop")
  /\ end_file' = Snapshot(list)
  /\ record_active' = FALSE
  /\ UNCHANGED <<machine, reset, playback_active, playback_reset_ack, history,
                 event_alarm, stamps, start_file>>

\* event_record_set_milestone_trap
MilestoneSet ==
  /\ Serve("set milestone")
  /\ end_file' = Snapshot(list)
  /\ milestone_timestamp_alarm' = next_timestamp_clk
  /\ UNCHANGED <<machine, reset, modes, history, event_alarm, next_timestamp_clk,
                 start_file>>

\* event_record_reset_milestone_trap
MilestoneReset ==
  /\ Serve("reset milestone")
  /\ end_file # NoFile
  /\ Load(end_file)
  /\ LET read == WithTimestamps(end_file.list)
     IN /\ list' = read.out
        /\ current' = Len(list')
        /\ next_timestamp_clk' = IF milestone_timestamp_alarm > 0
                                 THEN milestone_timestamp_alarm ELSE read.next
        /\ event_alarm' = IF milestone_timestamp_alarm > 0
                          THEN milestone_timestamp_alarm ELSE event_alarm
  /\ record_active' = TRUE
  /\ UNCHANGED <<reset, playback_active, playback_reset_ack, milestone_timestamp_alarm,
                 files>>

\* event_playback_start_trap
PlaybackStarts ==
  /\ Serve("playback start")
  /\ end_file # NoFile
  /\ LET read == WithTimestamps(end_file.list)
     IN /\ list' = read.out
        /\ next_timestamp_clk' = read.next
  /\ current' = 2
  /\ IF list'[1].type = "initial save"
     THEN /\ Load(start_file)
          /\ event_alarm' = Alarm(list'[2], start_file.clk)
          /\ UNCHANGED <<reset, playback_reset_ack>>
     ELSE /\ age' = 0 /\ seen' = <<>>
          /\ reset' = TRUE
          /\ playback_reset_ack' = TRUE
          /\ UNCHANGED <<clk, lines, event_alarm>>
  /\ playback_active' = TRUE
  /\ UNCHANGED <<record_active, milestone_timestamp_alarm, files>>

\* A snapshot that cannot be written or read.  While the milestone is read,
\* recording is off.
SnapshotFails ==
  /\ trap \in {"record save", "set milestone"}
       \cup (IF "disk full" \in Inputs THEN {"record stop"} ELSE {})
       \cup (IF end_file = NoFile THEN {"record load", "playback start", "reset milestone"}
                                  ELSE {})
  /\ Serve(trap)
  /\ record_active' = (record_active /\ trap # "reset milestone")
  /\ UNCHANGED <<machine, reset, playback_active, playback_reset_ack, history,
                 event_alarm, stamps, files>>

ServeTrap ==
  \/ RecordSave \/ RecordReset \/ RecordLoad \/ RecordOverPlayback \/ RecordStopped
  \/ MilestoneSet \/ MilestoneReset \/ PlaybackStarts \/ SnapshotFails

-----------------------------------------------------------------------------
(* The machine *)

\* The raster line's alarm.
StartLine ==
  /\ phase = "alarms" /\ raster
  /\ phase' = "line" /\ raster' = FALSE
  /\ UNCHANGED <<machine, inputs, reset, trap, modes, history, event_alarm, stamps, files>>

\* keyboard_latch_handler and joystick_latch_handler
LatchHandler(d) ==
  /\ phase = "alarms" /\ Due(due[d])
  /\ due' = [due EXCEPT ![d] = Off]
  /\ LET data == latch \cap LinesOf[d]
     IN /\ lines' = (lines \ LinesOf[d]) \cup data
        /\ Record(d, data)
        /\ Sees(d, data)
  /\ UNCHANGED <<clk, age, latch, flow, reset, trap, modes, event_alarm, stamps, files>>

\* What the playback of a node does to the machine.
Apply(n) ==
  /\ IF n.type \in {"keyboard", "joystick", "datasette"}
     THEN lines' = (lines \ LinesOf[n.type]) \cup n.data
     ELSE UNCHANGED lines
  /\ latch' = IF n.type \in Latched THEN (latch \ LinesOf[n.type]) \cup n.data ELSE latch
  /\ IF n.type \in InputTypes THEN Sees(n.type, n.data) ELSE UNCHANGED seen
  /\ reset' = (reset \/ n.type = "reset")
  /\ playback_active' = (playback_active /\ n.type # "end")

\* event_alarm_handler
EventAlarm ==
  /\ phase = "alarms" /\ Due(event_alarm)
  /\ IF record_active
     THEN /\ next_timestamp_clk' = (next_timestamp_clk + Second) % Width
          /\ event_alarm' = next_timestamp_clk'
          /\ UNCHANGED <<lines, seen, latch, reset, playback_active, current>>
     ELSE /\ Apply(list[current])
          /\ IF list[current].type \in {"end", "reset"}
             THEN event_alarm' = Off /\ UNCHANGED current
             ELSE /\ current' = current + 1
                  /\ event_alarm' = Alarm(list[current + 1], clk)
          /\ UNCHANGED next_timestamp_clk
  /\ UNCHANGED <<clk, age, due, flow, trap, record_active, playback_reset_ack, list,
                 milestone_timestamp_alarm, files>>

\* Mutant: a session that begins with a reset is not waited for.
ResetAlarmUnacked(skips, node) ==
  CASE record_active -> next_timestamp_clk
    [] ~record_active /\ skips -> Alarm(node, ResetClk)
    [] OTHER -> event_alarm

\* event_reset_ack: what the alarm is pending for when the machine was reset.
ResetAlarm(skips, node) ==
  CASE record_active -> next_timestamp_clk
    [] ~record_active /\ (skips \/ playback_reset_ack) -> Alarm(node, ResetClk)
    [] OTHER -> event_alarm

\* The reset of the main CPU, with event_reset_ack.
ServeReset ==
  /\ Serving /\ trap = "none" /\ reset
  /\ reset' = FALSE
  /\ clk' = ResetClk
  /\ phase' = "interrupts"
  /\ LET skips == current # 0 /\ list[current].type = "reset"
     IN /\ current' = IF skips THEN current + 1 ELSE current
        /\ event_alarm' = ResetAlarm(skips, IF current = 0 THEN EndNode ELSE list[current'])
  /\ playback_reset_ack' = FALSE
  /\ UNCHANGED <<raster, lines, age, seen, inputs, trap, record_active, playback_active,
                 list, stamps, files>>

\* The guard of the main clock, at the end of a frame: clk_overflow_callback and
\* the time warp of the alarms.
Warped(a) == IF a = Off THEN Off ELSE a - Sub
PreventOverflow ==
  /\ clk' = clk - Sub
  /\ due' = [d \in Latched |-> Warped(due[d])]
  /\ event_alarm' = Warped(event_alarm)
  /\ next_timestamp_clk' = IF next_timestamp_clk = 0 THEN 0
                           ELSE (next_timestamp_clk - Sub) % Width
  /\ IF record_active
     THEN /\ list' = InList(list, current, Node("overflow", clk - Sub, {}))
          /\ current' = current + 1
     ELSE UNCHANGED history

\* The rest of the raster line's alarm.
EndLine ==
  /\ Acting
  /\ \/ record_active /\ (age < MaxAge \/ Warps(clk))
     \/ playback_active \/ trap # "none" \/ reset
     \/ ~record_active /\ (clk < MaxIdle \/ event_alarm # Off)
     \/ \E d \in Latched : due[d] # Off
  /\ phase' = "alarms"
  /\ IF Warps(clk) THEN PreventOverflow
     ELSE UNCHANGED <<clk, due, event_alarm, next_timestamp_clk, history>>
  /\ UNCHANGED <<raster, lines, age, seen, latch, reset, trap, modes,
                 milestone_timestamp_alarm, files>>

\* An instruction.
Tick ==
  /\ Serving /\ trap = "none" /\ ~reset
  /\ clk' = clk + 1
  /\ age' = IF record_active \/ (playback_active /\ age < MaxAge + Width)
          THEN age + 1 ELSE age
  /\ phase' = "alarms"
  /\ raster' = (clk' % Line = 0)
  /\ UNCHANGED <<lines, seen, inputs, reset, trap, modes, history, event_alarm, stamps,
                 files>>

\* The emulator ends and is started again.  Without "no milestone" the files belong
\* together: a new session is not left before its end or a milestone is saved.
Restart ==
  /\ Acting /\ end_file # NoFile
  /\ "no milestone" \notin Inputs =>
       (record_active /\ list[1].type = "initial save" => milestone_timestamp_alarm # 0)
  /\ clk' \in StartClks
  /\ phase' = "interrupts" /\ raster' = FALSE
  /\ lines' = {} /\ latch' = {} /\ due' = [d \in Latched |-> Off]
  /\ reset' = FALSE /\ trap' = "none"
  /\ record_active' = FALSE /\ playback_active' = FALSE /\ playback_reset_ack' = FALSE
  /\ list' = <<>> /\ current' = 0 /\ event_alarm' = Off
  /\ next_timestamp_clk' = 0 /\ milestone_timestamp_alarm' = 0
  /\ age' = 0 /\ seen' = <<>>
  /\ UNCHANGED files

-----------------------------------------------------------------------------
User ==
  \/ \E d \in Latched : \E l \in LinesOf[d] \cap UserLines, delay \in 1..Frame :
       Press(d, l, delay)
  \/ \E l \in Tape \cap UserLines : Control(l)
  \/ ClearKeys \/ TriggerReset
  \/ \E mode \in Modes : RecordStart(mode)
  \/ RecordStop \/ PlaybackStart \/ PlaybackStop \/ SetMilestone \/ ResetMilestone

Emulator ==
  \/ StartLine \/ EndLine \/ EventAlarm
  \/ \E d \in Latched : LatchHandler(d)
  \/ ServeTrap \/ ServeReset \/ Tick

Next == User \/ Emulator \/ Restart

Spec == Init /\ [][Next]_vars

-----------------------------------------------------------------------------
(* Properties *)

Clocks == 0..GuardMax + Frame
Nodes == [type : NodeTypes, clk : Nat, data : SUBSET Lines]
Entries == [at : Nat, type : InputTypes, data : SUBSET Lines]
Files == [clk : Clocks, lines : SUBSET Lines, list : Seq(Nodes), age : Nat,
          seen : Seq(Entries)]

\* The state keeps its types; the list, if there is one, has a current node.
TypeOK ==
  /\ clk \in Clocks /\ phase \in {"alarms", "line", "interrupts"} /\ raster \in BOOLEAN
  /\ lines \subseteq Lines /\ latch \subseteq Lines
  /\ due \in [Latched -> Nat \cup {Off}] /\ event_alarm \in Nat \cup {Off}
  /\ reset \in BOOLEAN /\ trap \in Traps
  /\ {record_active, playback_active, playback_reset_ack} \subseteq BOOLEAN
  /\ list \in Seq(Nodes) /\ current \in 0..Len(list) /\ (current = 0) = (list = <<>>)
  /\ {next_timestamp_clk, milestone_timestamp_alarm, age} \subseteq Nat
  /\ {start_file, end_file} \subseteq Files \cup {NoFile}
  /\ seen \in Seq(Entries)

\* What the machine gets by the inputs among the nodes, and by what it has seen.
Action(e) == [type |-> e.type, data |-> e.data]
Actions(nodes) ==
  LET upto[i \in 0..Len(nodes)] ==
        IF i = 0 THEN <<>>
        ELSE IF nodes[i].type \in InputTypes THEN Append(upto[i - 1], Action(nodes[i]))
        ELSE upto[i - 1]
  IN upto[Len(nodes)]

\* "All actions will be recorded": what the machine has got as input since the
\* recording began is what the list holds, up to its end.
AllActionsRecorded ==
  record_active => Actions(UpToEnd(list)) = [i \in DOMAIN seen |-> Action(seen[i])]

\* While a session is played the machine gets the inputs it got when the session
\* was recorded, each in the same cycle after the beginning, and no others: across
\* warps and resets of the clock, milestones, continued recordings and restarts.
PlaysTheSession ==
  playback_active =>
    /\ IsPrefix(seen, end_file.seen)
    /\ \A i \in DOMAIN end_file.seen : i > Len(seen) => end_file.seen[i].at >= age

\* A session that was stopped by the user is played until the cycle in which it was
\* stopped, and nothing of it is missing then.
EndsWhereItEnded ==
  [][(/\ playback_active /\ ~playback_active'
      /\ list[current].type = "end" /\ Due(event_alarm)
      /\ list[current].clk = end_file.clk)
       => seen = end_file.seen /\ age = end_file.age]_vars

\* "The playback stops when the end of the session is reached": a playback has always
\* the next event before it, or the reset that leads to it, and is over when the
\* machine is as old as it was when the user stopped the recording.
PlaybackGoesOn ==
  playback_active =>
    /\ reset \/ event_alarm # Off
    /\ Last(list).clk = end_file.clk => age <= end_file.age
=============================================================================
