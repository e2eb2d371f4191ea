------------------------------- MODULE Netplay -------------------------------
(***************************************************************************)
(* Netplay (network.c): two emulators that exchange the inputs of every    *)
(* frame over a TCP connection, and play them frame_delta - 1 frames after *)
(* they were recorded.                                                     *)
(*                                                                         *)
(* The server starts listening, the client connects, the server sends a    *)
(* snapshot of its machine, its settings and a test of the delay, and both *)
(* start with empty lists.  From then on the vsync handler of each side    *)
(* calls network_hook: send the list of the current frame, then wait for   *)
(* the list of the other side, play both and start the next frame.         *)
(*                                                                         *)
(* Each peer is one thread here: the UI thread acts only while the VICE    *)
(* thread is parked by the mainlock (MainLock), never inside a hook.       *)
(* Traps go through the one slot of interrupt.c (Interrupts), where any    *)
(* other poster may overwrite them.                                        *)
(***************************************************************************)
EXTENDS Integers, Sequences, FiniteSets, SequencesExt

CONSTANTS
  Inputs,       \* the kinds of input a user can give
  Control,      \* per peer: the inputs NetworkControl lets it give
  Deltas,       \* what network_test_delay may measure
  MaxFrames,    \* bound: hooks of a peer in one session
  MaxActs,      \* bound: inputs, suspensions and mishaps
  MaxMishaps,   \* bound: lost traps, failures, divergences, disconnections
  MaxSessions   \* bound: connections of the client

Peers == {"server", "client"}

\* A delay of at least two frames: see network_test_delay, which adds five.
ASSUME NetplayAssumption ==
  /\ Inputs # {} /\ "sync" \notin Inputs
  /\ Control \in [Peers -> SUBSET Inputs]
  /\ Deltas # {} /\ Deltas \subseteq Nat \ {0, 1}
  /\ {MaxFrames, MaxActs, MaxMishaps, MaxSessions} \subseteq Nat

VARIABLES
  mode,       \* network_mode
  pc,         \* where the thread of a peer is
  sock,       \* network_socket: "none" (NULL), "open", "closed" (stale)
  listening,  \* listen_socket, likewise
  backlog,    \* a connection waits to be accepted
  wire,       \* per peer: what is on the way to it
  broken,     \* the connection is reset: every call on it fails
  trap,       \* trap_func, as far as netplay posts it
  list,       \* frame_event_list: frame -> events; no frames when NULL
  delta,      \* frame_delta
  current,    \* current_frame
  toPlay,     \* frame_to_play
  full,       \* frame_buffer_full
  suspended   \* suspended

\* Histories and counters; only the bounds look at them.
VARIABLES
  drift,      \* a machine behaves differently from the other one
  syncLost,   \* a peer has found the machines out of sync
  hooks,      \* completed hooks of the session
  typed,      \* the inputs given in the frame that runs
  recorded,   \* the inputs given, frame by frame
  played,     \* what was played, frame by frame
  sessions,   \* connections so far
  session,    \* the connection a peer's lists belong to
  inputs,     \* inputs and suspensions so far
  mishaps     \* mishaps so far

sockets == <<sock, listening, backlog, wire, broken>>
frames == <<list, delta, current, toPlay, full>>
histories == <<hooks, typed, recorded, played, session>>
counters == <<sessions, inputs, mishaps>>
machines == <<drift, syncLost>>
vars == <<mode, pc, trap, suspended, sockets, frames, machines, histories, counters>>

Other(p) == CHOOSE q \in Peers : q # p
Connected(p) == mode[p] \in {"server_connected", "client"}

Modes == {"idle", "server", "server_connected", "client"}
Sockets == {"none", "open", "closed"}

\* "run": the machine runs, or the UI acts.  The others wait for a message;
\* "aborted" is a failed assertion, "crashed" the use of a NULL pointer.
Waits == {"download", "settings", "test", "delta", "echo", "receive"}
Places == Waits \cup {"run", "aborted", "crashed"}

\* Five registers stand for a machine: one that differs need not differ in them.
SyncTest(p, shows) == [what |-> "sync", regs |-> <<shows, played[p]>>]
Input(e) == [what |-> e, regs |-> <<>>]
Playback(events) ==
  LET upto[i \in 0 .. Len(events)] ==
        IF i = 0 THEN <<>>
        ELSE IF events[i].what = "sync" THEN upto[i - 1]
        ELSE Append(upto[i - 1], events[i])
  IN upto[Len(events)]

Message(kind) == [kind |-> kind, events |-> <<>>, delta |-> 0]
ListMessage(events) == [Message("list") EXCEPT !.events = events]
DeltaMessage(d) == [Message("delta") EXCEPT !.delta = d]

Init ==
  /\ mode = [p \in Peers |-> "idle"]
  /\ pc = [p \in Peers |-> "run"]
  /\ sock = [p \in Peers |-> "none"]
  /\ listening = [p \in Peers |-> "none"]
  /\ backlog = FALSE
  /\ wire = [p \in Peers |-> <<>>]
  /\ broken = FALSE
  /\ trap = [p \in Peers |-> "none"]
  /\ list = [p \in Peers |-> <<>>]
  /\ delta = [p \in Peers |-> 0]
  /\ current = [p \in Peers |-> 0]
  /\ toPlay = [p \in Peers |-> 0]
  /\ full = [p \in Peers |-> FALSE]
  /\ suspended = [p \in Peers |-> FALSE]
  /\ drift = [p \in Peers |-> FALSE]
  /\ syncLost = [p \in Peers |-> FALSE]
  /\ hooks = [p \in Peers |-> 0]
  /\ typed = [p \in Peers |-> <<>>]
  /\ recorded = [p \in Peers |-> <<>>]
  /\ played = [p \in Peers |-> <<>>]
  /\ session = [p \in Peers |-> 0]
  /\ sessions = 0 /\ inputs = 0 /\ mishaps = 0

\* A thing that need not happen, and so is not asked for by fairness either.
Mishap ==
  /\ mishaps < MaxMishaps /\ inputs + mishaps < MaxActs
  /\ mishaps' = mishaps + 1
  /\ UNCHANGED <<sessions, inputs>>

\* A user gives an input or stops his machine.
UserActs ==
  /\ inputs + mishaps < MaxActs
  /\ inputs' = inputs + 1
  /\ UNCHANGED <<sessions, mishaps>>

Goto(p, place) == pc' = [pc EXCEPT ![p] = place]
Running(p) == pc[p] = "run"
AtBoundary(p) == Running(p) /\ trap[p] = "none"

(***************************************************************************)
(* The connection.  send() succeeds while our end is open and the          *)
(* connection is not reset; what is sent to an end that is closed gets a   *)
(* reset for an answer.  recv() returns data, or an error when the         *)
(* connection is reset.  It returns 0, which network_recv_buffer takes for *)
(* no data yet, when the other end is closed: the peer then never returns  *)
(* from its loop, and no action of it is enabled.                          *)
(***************************************************************************)
SendFails(p) == sock[p] # "open" \/ broken

Send(p, messages) ==
  IF sock[Other(p)] = "open"
    THEN wire' = [wire EXCEPT ![Other(p)] = @ \o messages] /\ UNCHANGED broken
    ELSE broken' = TRUE /\ UNCHANGED wire

Arrived(p, kind) == sock[p] = "open" /\ wire[p] # <<>> /\ Head(wire[p]).kind = kind
ReceiveFails(p) == sock[p] # "open" \/ broken

Take(p) == wire' = [wire EXCEPT ![p] = Tail(@)]

\* What closing leaves of a socket variable: a stale pointer, or NULL as before.
Closed(socket) == IF socket = "open" THEN "closed" ELSE socket

\* Mutant: what is left to read is read before the socket is closed.
CloseEndDrained(p, unread) ==
  /\ sock' = [sock EXCEPT ![p] = Closed(@)]
  /\ wire' = [wire EXCEPT ![p] = <<>>]
  /\ UNCHANGED broken

\* vice_network_socket_close; unread data turns the close into a reset.
CloseEnd(p, unread) ==
  /\ sock' = [sock EXCEPT ![p] = Closed(@)]
  /\ broken' = (broken \/ unread)
  /\ wire' = [wire EXCEPT ![p] = <<>>]

\* Closing the server's listening socket resets a connection that waits there.
StopsListening(p) == mode[p] # "server_connected"
DropsBacklog(p) == StopsListening(p) /\ p = "server" /\ backlog

\* The assertions of vice_network_socket_close fail for a stale socket.
ClosesStale(p) ==
  \/ sock[p] = "closed"
  \/ StopsListening(p) /\ listening[p] = "closed"

\* Mutant: network_disconnect that leaves the mode and the socket as they are.
DisconnectNothing(p, after, unread) ==
  /\ Goto(p, after)
  /\ wire' = [wire EXCEPT ![p] = IF @ = <<>> THEN @ ELSE Tail(@)]
  /\ UNCHANGED <<mode, listening, backlog, sock, broken>>

\* network_disconnect, after which the thread goes on at "after".
Disconnect(p, after, unread) ==
  /\ Goto(p, IF ClosesStale(p) THEN "aborted" ELSE after)
  /\ mode' = [mode EXCEPT ![p] = IF StopsListening(p) THEN "idle" ELSE "server"]
  /\ listening' = IF StopsListening(p)
                    THEN [listening EXCEPT ![p] = Closed(@)]
                    ELSE listening
  /\ backlog' = (backlog /\ ~DropsBacklog(p))
  /\ CloseEnd(p, unread \/ DropsBacklog(p))

(***************************************************************************)
(* Starting, connecting and disconnecting: the user's side.                *)
(***************************************************************************)

\* network_start_server, from the server switch of the UI.
StartServer(p) ==
  /\ Running(p) /\ mode[p] = "idle"
  /\ mode' = [mode EXCEPT ![p] = "server"]
  /\ listening' = [listening EXCEPT ![p] = "open"]
  /\ UNCHANGED <<pc, trap, suspended, sock, backlog, wire, broken, frames,
                 machines, histories, counters>>

\* The client switch of the GTK3 dialog calls network_start_server first; the
\* network_connect_client after it then finds the mode changed and returns.
EnableClient == StartServer("client")

\* network_connect_client, up to the wait for the snapshot: from the SDL menu,
\* or from the GTK3 switch when the server could not be started.  One
\* connection at a time: the server has closed its end of the last one.
ConnectClient ==
  /\ Running("client") /\ mode["client"] = "idle" /\ sock["client"] # "open"
  /\ listening["server"] = "open" /\ sock["server"] # "open" /\ ~backlog
  /\ sessions < MaxSessions
  /\ sessions' = sessions + 1
  /\ sock' = [sock EXCEPT !["client"] = "open"]
  /\ backlog' = TRUE
  /\ wire' = [p \in Peers |-> <<>>]
  /\ broken' = FALSE
  /\ syncLost' = [p \in Peers |-> FALSE]
  /\ Goto("client", "download")
  /\ UNCHANGED <<mode, trap, suspended, listening, frames, drift, histories,
                 inputs, mishaps>>

\* The switch turned off again.
UserDisconnects(p) ==
  /\ Running(p) /\ mode[p] # "idle"
  /\ Mishap
  /\ Disconnect(p, "run", wire[p] # <<>>)
  /\ UNCHANGED <<trap, suspended, frames, machines, histories>>

\* network_suspend: a menu or a dialog stops the machine for a while.
Suspend(p) ==
  /\ Running(p) /\ Connected(p) /\ ~suspended[p]
  /\ UserActs
  /\ suspended' = [suspended EXCEPT ![p] = TRUE]
  /\ IF SendFails(p) THEN UNCHANGED <<wire, broken>> ELSE Send(p, <<Message("marker")>>)
  /\ UNCHANGED <<mode, pc, trap, sock, listening, backlog, frames, machines, histories>>

\* network_event_record, for an input of the user.
GiveInput(p, e) ==
  /\ Running(p) /\ Connected(p) /\ list[p] # <<>>
  /\ e \in Control[p]
  /\ UserActs
  /\ list' = [list EXCEPT ![p][current[p]] = Append(@, Input(e))]
  /\ typed' = [typed EXCEPT ![p] = Append(@, Input(e))]
  /\ UNCHANGED <<mode, pc, trap, suspended, sockets, delta, current, toPlay, full,
                 machines, hooks, recorded, played, session>>

(***************************************************************************)
(* The handshake.                                                          *)
(***************************************************************************)

\* network_hook of a server that waits.
Accept ==
  /\ AtBoundary("server") /\ mode["server"] = "server" /\ backlog
  /\ backlog' = FALSE
  /\ sock' = [sock EXCEPT !["server"] = "open"]
  /\ trap' = [trap EXCEPT !["server"] = "connect"]
  /\ UNCHANGED <<mode, pc, suspended, listening, wire, broken, frames, machines,
                 histories, counters>>

\* network_server_connect_trap, and network_test_delay up to the first answer.
ServerConnectTrap ==
  /\ Running("server") /\ trap["server"] = "connect" /\ ~SendFails("server")
  /\ trap' = [trap EXCEPT !["server"] = "none"]
  /\ Send("server", <<Message("snapshot"), Message("settings"), Message("test")>>)
  /\ mode' = [mode EXCEPT !["server"] = "server_connected"]
  /\ drift' = [drift EXCEPT !["server"] = FALSE]
  /\ Goto("server", "echo")
  /\ UNCHANGED <<suspended, sock, listening, backlog, frames, syncLost, histories,
                 counters>>

\* The snapshot cannot be written, or cannot be sent: the socket stays open.
ServerSnapshotFails ==
  /\ Running("server") /\ trap["server"] = "connect"
  /\ trap' = [trap EXCEPT !["server"] = "none"]
  /\ IF SendFails("server") THEN UNCHANGED counters ELSE Mishap
  /\ UNCHANGED <<mode, pc, suspended, sockets, frames, machines, histories>>

\* The rest of network_connect_client.
Download ==
  /\ pc["client"] = "download" /\ Arrived("client", "snapshot")
  /\ Take("client")
  /\ trap' = [trap EXCEPT !["client"] = "connect"]
  /\ Goto("client", "run")
  /\ UNCHANGED <<mode, suspended, sock, listening, backlog, broken, frames, machines,
                 histories, counters>>

DownloadFails ==
  /\ pc["client"] = "download" /\ ReceiveFails("client")
  /\ CloseEnd("client", wire["client"] # <<>>)
  /\ Goto("client", "run")
  /\ UNCHANGED <<mode, trap, suspended, listening, backlog, frames, machines,
                 histories, counters>>

\* network_client_connect_trap waits for the settings.
ClientConnectTrap ==
  /\ Running("client") /\ trap["client"] = "connect"
  /\ trap' = [trap EXCEPT !["client"] = "none"]
  /\ Goto("client", "settings")
  /\ UNCHANGED <<mode, suspended, sockets, frames, machines, histories, counters>>

LoadSnapshot ==
  /\ pc["client"] = "settings" /\ Arrived("client", "settings")
  /\ Take("client")
  /\ mode' = [mode EXCEPT !["client"] = "client"]
  /\ drift' = [drift EXCEPT !["client"] = FALSE]
  /\ Goto("client", "test")
  /\ UNCHANGED <<trap, suspended, sock, listening, backlog, broken, frames, syncLost,
                 histories, counters>>

\* The settings do not arrive or the snapshot cannot be read: the mode stays idle.
LoadFails ==
  /\ pc["client"] = "settings"
  /\ \/ ReceiveFails("client") /\ UNCHANGED <<wire, counters>>
     \/ Arrived("client", "settings") /\ Take("client") /\ Mishap
  /\ Goto("client", "run")
  /\ UNCHANGED <<mode, trap, suspended, sock, listening, backlog, broken, frames,
                 machines, histories>>

\* The fifty test packets of network_test_delay, as one.
Test ==
  /\ pc["client"] = "test" /\ Arrived("client", "test") /\ ~broken
  /\ LET rest == [wire EXCEPT !["client"] = Tail(@)] IN
       IF sock["server"] = "open"
         THEN /\ wire' = [rest EXCEPT !["server"] = Append(@, Message("echo"))]
              /\ UNCHANGED broken
         ELSE wire' = rest /\ broken' = TRUE
  /\ Goto("client", "delta")
  /\ UNCHANGED <<mode, trap, suspended, sock, listening, backlog, frames, machines,
                 histories, counters>>

\* A test that fails returns at once: the peer is connected without new lists.
TestFails(p) ==
  /\ pc[p] \in {"test", "echo"} /\ ReceiveFails(p)
  /\ Goto(p, "run")
  /\ UNCHANGED <<mode, trap, suspended, sockets, frames, machines, histories, counters>>

\* network_free_frame_event_list and network_init_frame_event_list.
InitLists(p, d) ==
  /\ delta' = [delta EXCEPT ![p] = d]
  /\ list' = [list EXCEPT ![p] = [i \in 0 .. d - 1 |-> <<>>]]
  /\ current' = [current EXCEPT ![p] = 0]
  /\ full' = [full EXCEPT ![p] = FALSE]
  /\ trap' = [trap EXCEPT ![p] = "sync"]
  /\ hooks' = [hooks EXCEPT ![p] = 0]
  /\ typed' = [typed EXCEPT ![p] = <<>>]
  /\ recorded' = [recorded EXCEPT ![p] = <<>>]
  /\ played' = [played EXCEPT ![p] = <<>>]
  /\ session' = [session EXCEPT ![p] = sessions]
  /\ Goto(p, "run")
  /\ UNCHANGED <<mode, toPlay, suspended, machines, sock, listening, backlog, counters>>

ServerStarts ==
  /\ pc["server"] = "echo" /\ Arrived("server", "echo")
  /\ \E d \in Deltas :
       /\ InitLists("server", d)
       /\ LET rest == [wire EXCEPT !["server"] = Tail(@)] IN
            IF ~SendFails("server") /\ sock["client"] = "open"
              THEN wire' = [rest EXCEPT !["client"] = Append(@, DeltaMessage(d))]
              ELSE wire' = rest
       /\ broken' = (broken \/ sock["client"] # "open")

ClientStarts ==
  /\ pc["client"] = "delta" /\ Arrived("client", "delta")
  /\ InitLists("client", Head(wire["client"]).delta)
  /\ Take("client")
  /\ UNCHANGED broken

\* The last receive is not checked: the delay is whatever was on the stack.
ClientStartsBlindly ==
  /\ pc["client"] = "delta" /\ ReceiveFails("client")
  /\ \E d \in Deltas : InitLists("client", d)
  /\ UNCHANGED <<wire, broken>>

(***************************************************************************)
(* The frames.                                                             *)
(***************************************************************************)

\* network_event_record_sync_test, at the next opcode boundary.
RecordSyncTest(p) ==
  /\ Running(p) /\ trap[p] = "sync"
  /\ trap' = [trap EXCEPT ![p] = "none"]
  /\ \E shows \in {FALSE, drift[p]} :
       list' = [list EXCEPT ![p][current[p]] = Append(@, SyncTest(p, shows))]
  /\ UNCHANGED <<mode, pc, suspended, sockets, delta, current, toPlay, full, machines,
                 histories, counters>>

\* Another poster takes the slot of a trap before the opcode boundary.
LoseTrap(p) ==
  /\ Running(p) /\ trap[p] # "none"
  /\ Mishap
  /\ trap' = [trap EXCEPT ![p] = "none"]
  /\ UNCHANGED <<mode, pc, suspended, sockets, frames, machines, histories>>

\* Mutant: a peer that has told the other one to wait does not call the hook.
AtHookUnlessSuspended(p) ==
  /\ AtBoundary(p) /\ Connected(p) /\ list[p] # <<>>
  /\ hooks[p] < MaxFrames /\ ~suspended[p]

\* The end of a frame of a connected peer.
AtHook(p) ==
  /\ AtBoundary(p) /\ Connected(p) /\ list[p] # <<>>
  /\ hooks[p] < MaxFrames

\* network_hook_connected_receive begins: is the buffer full with this frame?
Fills(p) == full[p] \/ current[p] = delta[p] - 1

CloseFrame(p) ==
  /\ recorded' = [recorded EXCEPT ![p] = Append(@, typed[p])]
  /\ typed' = [typed EXCEPT ![p] = <<>>]

\* Mutant: the slot that comes next is not cleared.
PrepareUncleared(p) ==
  LET next == (current[p] + 1) % delta[p] IN
  /\ current' = [current EXCEPT ![p] = next]
  /\ toPlay' = [toPlay EXCEPT ![p] = (next + 1) % delta[p]]
  /\ trap' = [trap EXCEPT ![p] = "sync"]
  /\ hooks' = [hooks EXCEPT ![p] = @ + 1]
  /\ UNCHANGED <<list, delta>>

\* network_prepare_next_frame.
PrepareNextFrame(p) ==
  LET next == (current[p] + 1) % delta[p] IN
  /\ current' = [current EXCEPT ![p] = next]
  /\ toPlay' = [toPlay EXCEPT ![p] = (next + 1) % delta[p]]
  /\ list' = [list EXCEPT ![p][next] = <<>>]
  /\ trap' = [trap EXCEPT ![p] = "sync"]
  /\ hooks' = [hooks EXCEPT ![p] = @ + 1]
  /\ UNCHANGED delta

\* network_hook, up to the wait for the other list, or to its end while the
\* first lists are still on their way.
Hook(p) ==
  /\ AtHook(p) /\ ~SendFails(p)
  /\ Send(p, <<ListMessage(list[p][current[p]])>>)
  /\ CloseFrame(p)
  /\ suspended' = [suspended EXCEPT ![p] = FALSE]
  /\ full' = [full EXCEPT ![p] = Fills(p)]
  /\ IF Fills(p)
       THEN Goto(p, "receive") /\ UNCHANGED <<list, delta, current, toPlay, trap, hooks>>
       ELSE PrepareNextFrame(p) /\ UNCHANGED pc
  /\ UNCHANGED <<mode, sock, listening, backlog, machines, played, session, counters>>

\* The list cannot be sent.  The receiving half runs all the same, on the closed
\* socket: once the buffer is full it fails and disconnects a second time.
HookSendFails(p) ==
  /\ AtHook(p) /\ SendFails(p)
  /\ CloseFrame(p)
  /\ Disconnect(p, IF Fills(p) THEN "aborted" ELSE "run", wire[p] # <<>>)
  /\ suspended' = [suspended EXCEPT ![p] = FALSE]
  /\ full' = [full EXCEPT ![p] = Fills(p)]
  /\ IF Fills(p)
       THEN UNCHANGED <<list, delta, current, toPlay, trap, hooks>>
       ELSE PrepareNextFrame(p)
  /\ UNCHANGED <<machines, played, session, counters>>

\* The other user has stopped his machine; the wait goes on.
ReceiveMarker(p) ==
  /\ pc[p] = "receive" /\ Arrived(p, "marker")
  /\ Take(p)
  /\ suspended' = [suspended EXCEPT ![p] = TRUE]
  /\ UNCHANGED <<mode, pc, trap, sock, listening, backlog, broken, frames, machines,
                 histories, counters>>

\* The lists of the frame that is played now, with what has arrived.
OurList(p) == list[p][toPlay[p]]
PlayedLists(p) ==
  LET theirs == Head(wire[p]).events IN
  IF mode[p] = "server_connected"
    THEN [server |-> OurList(p), client |-> theirs]
    ELSE [server |-> theirs, client |-> OurList(p)]

\* Both lists begin with the registers, and these differ.
RegistersDiffer(lists) ==
  /\ lists.server # <<>> /\ lists.client # <<>>
  /\ Head(lists.server).what = "sync" /\ Head(lists.client).what = "sync"
  /\ Head(lists.server).regs # Head(lists.client).regs

\* The list of the other peer: test for sync, play both, go to the next frame.
ReceiveList(p) ==
  /\ pc[p] = "receive" /\ Arrived(p, "list")
  /\ LET lists == PlayedLists(p) IN
       /\ \/ /\ RegistersDiffer(lists)
             /\ Disconnect(p, "run", Tail(wire[p]) # <<>>)
             /\ syncLost' = [syncLost EXCEPT ![p] = TRUE]
          \/ /\ ~RegistersDiffer(lists)
             /\ Take(p)
             /\ Goto(p, "run")
             /\ UNCHANGED <<mode, sock, listening, backlog, broken, syncLost>>
       /\ played' = [played EXCEPT ![p] =
            Append(@, [server |-> Playback(lists.server),
                       client |-> Playback(lists.client)])]
  /\ PrepareNextFrame(p)
  /\ UNCHANGED <<suspended, full, drift, typed, recorded, session, counters>>

\* The connection fails while the length is read ...
ReceiveFailed(p) ==
  /\ pc[p] = "receive" /\ ReceiveFails(p)
  /\ Disconnect(p, "run", wire[p] # <<>>)
  /\ UNCHANGED <<trap, suspended, frames, machines, histories, counters>>

\* ... or after it: the hook returns, still connected and on the same frame.
ReceiveBodyFailed(p) ==
  /\ pc[p] = "receive" /\ broken /\ Arrived(p, "list")
  /\ Take(p)
  /\ Goto(p, "run")
  /\ UNCHANGED <<mode, trap, suspended, sock, listening, backlog, broken, frames,
                 machines, histories, counters>>

\* A connected peer that has no lists: its next hook uses a NULL pointer.
CrashWithoutLists(p) ==
  /\ AtBoundary(p) /\ Connected(p) /\ list[p] = <<>>
  /\ Goto(p, "crashed")
  /\ CloseEnd(p, wire[p] # <<>>)
  /\ UNCHANGED <<mode, trap, suspended, listening, backlog, frames, machines,
                 histories, counters>>

(***************************************************************************)
(* The world.                                                              *)
(***************************************************************************)

\* The link fails.
Break ==
  /\ ~broken /\ \E p \in Peers : sock[p] = "open"
  /\ Mishap
  /\ broken' = TRUE
  /\ UNCHANGED <<mode, pc, trap, suspended, sock, listening, backlog, wire, frames,
                 machines, histories>>

\* Something that is in neither snapshot nor lists makes a machine go its own way.
Diverge(p) ==
  /\ Running(p) /\ Connected(p) /\ ~drift[p]
  /\ Mishap
  /\ drift' = [drift EXCEPT ![p] = TRUE]
  /\ UNCHANGED <<mode, pc, trap, suspended, sockets, frames, syncLost, histories>>

User ==
  \/ StartServer("server") \/ EnableClient \/ ConnectClient
  \/ \E p \in Peers : UserDisconnects(p)
  \/ \E p \in Peers : Suspend(p)
  \/ \E p \in Peers, e \in Inputs : GiveInput(p, e)

World ==
  \/ Break
  \/ \E p \in Peers : Diverge(p)
  \/ \E p \in Peers : LoseTrap(p)

ServerHandshake ==
  Accept \/ ServerConnectTrap \/ ServerSnapshotFails \/ ServerStarts

ClientHandshake ==
  \/ Download \/ DownloadFails \/ ClientConnectTrap \/ LoadSnapshot \/ LoadFails
  \/ Test \/ ClientStarts \/ ClientStartsBlindly

Frame(p) ==
  \/ TestFails(p) \/ RecordSyncTest(p) \/ Hook(p) \/ HookSendFails(p)
  \/ ReceiveMarker(p) \/ ReceiveList(p) \/ ReceiveFailed(p) \/ ReceiveBodyFailed(p)
  \/ CrashWithoutLists(p)

Next ==
  \/ User \/ World
  \/ ServerHandshake \/ ClientHandshake
  \/ \E p \in Peers : Frame(p)

Spec == Init /\ [][Next]_vars

\* A machine runs on until its next hook, a thread that waits takes what has
\* arrived, and a user who has stopped his machine lets it go on.
FairSpec ==
  /\ Spec
  /\ WF_vars(ServerHandshake \/ Frame("server"))
  /\ WF_vars(ClientHandshake \/ Frame("client"))

(***************************************************************************)
(* Properties.                                                             *)
(***************************************************************************)

\* The types: in particular the frame indices stay inside frame_event_list.
TypeOK ==
  /\ mode \in [Peers -> Modes]
  /\ pc \in [Peers -> Places]
  /\ sock \in [Peers -> Sockets] /\ listening \in [Peers -> Sockets]
  /\ backlog \in BOOLEAN /\ broken \in BOOLEAN
  /\ trap \in [Peers -> {"none", "connect", "sync"}]
  /\ delta \in [Peers -> Deltas \cup {0}]
  /\ \A p \in Peers : list[p] # <<>> =>
       /\ DOMAIN list[p] = 0 .. delta[p] - 1
       /\ current[p] \in DOMAIN list[p]
       /\ hooks[p] > 0 => toPlay[p] \in DOMAIN list[p]
  /\ full \in [Peers -> BOOLEAN] /\ suspended \in [Peers -> BOOLEAN]
  /\ drift \in [Peers -> BOOLEAN] /\ syncLost \in [Peers -> BOOLEAN]

\* The lists of both peers belong to one connection.
SameSession == session["server"] = session["client"] /\ session["server"] # 0

\* A peer that finds the machines out of sync stops both: the other one plays no
\* frame beyond the one that showed it (network.c:880).
OutOfSyncStopsBoth ==
  \A p \in Peers : SameSession /\ syncLost[p] =>
    Len(played[Other(p)]) <= Len(played[p])

\* What the two peers record and play, as the abstract specification sees it.
Timeline == INSTANCE SharedTimeline

\* The two peers play one timeline: every frame as a whole, in order, none
\* skipped or repeated, in this game and in the next one.
ImplementsTimeline == Timeline!Spec

InGame == ~broken /\ \A p \in Peers : Connected(p) /\ session[p] = sessions

\* While both stay connected no peer waits for a list that the other one will
\* only send after its own wait, whoever stops his machine and when.
FramesAdvance == InGame ~> (~InGame \/ \A p \in Peers : hooks[p] = MaxFrames)

\* A peer that waits for a list when the other one has closed the connection
\* still gets something: there is always a list of its own that the other one
\* has not read, so that the close arrives as a reset and not as the 0 that
\* network_recv_buffer takes for no data yet (network.c:344, network.c:829).
HangUpNoticed ==
  \A p \in Peers :
    pc[p] = "receive" /\ sock[Other(p)] # "open" => broken \/ wire[p] # <<>>

\* socket.c:1005 says of recv() that "When the return value is 0, either the other
\* site has gracefully closed the socket": a client that waits for the snapshot
\* of a server that has closed the connection gets that answer, and gives up.
DownloadEnds ==
  (pc["client"] = "download" /\ sock["server"] = "closed" /\ ~backlog)
    ~> (pc["client"] # "download")

\* socket.c:934 asserts that a socket which is closed is in use.
ClosesOpenSockets == \A p \in Peers : pc[p] # "aborted"

=============================================================================
