---------------------------- MODULE NetplayProofs ----------------------------
(***************************************************************************)
(* Proofs about Netplay for any inputs, delays, bounds and number of       *)
(* sessions.  The inductive invariant counts lists: while the connection   *)
(* stands, what a peer has played and what is on the way to it is what the *)
(* other one has sent, and a peer that waits has sent frame_delta lists    *)
(* more than it has played.                                                *)
(*                                                                         *)
(* A second invariant, Contents, says what is in the lists: one on its way *)
(* has what its sender recorded for the frame that the receiver will play  *)
(* it as, and the slots of a peer have what it recorded, back to the first *)
(* frame it has not played.  From it follow the shared timeline, and that  *)
(* a test for sync that fails on one peer fails on the other.              *)
(***************************************************************************)
EXTENDS Netplay, FiniteSetTheorems, SequenceTheorems, WellFoundedInduction, TLAPS

\* The places in the code where a peer plays, and where it still connects.
Plays(p) == pc[p] \in {"run", "receive"}
Starts(p) ==
  IF p = "server" THEN backlog \/ trap[p] = "connect" \/ pc[p] = "echo"
                  ELSE trap[p] = "connect" \/ pc[p] \in {"download", "settings", "test", "delta"}

\* The lists of a peer belong to the connection that stands.
Live(p) == session[p] = sessions

\* How many lists are on the way, how many a peer has played and how many it has
\* sent in this connection.
ListsAt(w) == {i \in 1..Len(w) : w[i].kind = "list"}
Lists(w) == Cardinality(ListsAt(w))
Read(p) == IF Live(p) THEN Len(played[p]) ELSE 0
Sent(p) == IF Live(p) THEN Len(recorded[p]) ELSE 0

IsSeq(s) == s \in Seq(Range(s))

\* The types, with those of the histories.
StateTypes ==
  /\ mode \in [Peers -> Modes]
  /\ pc \in [Peers -> Places]
  /\ sock \in [Peers -> Sockets] /\ listening \in [Peers -> Sockets]
  /\ backlog \in BOOLEAN /\ broken \in BOOLEAN
  /\ trap \in [Peers -> {"none", "connect", "sync"}]
  /\ full \in [Peers -> BOOLEAN] /\ suspended \in [Peers -> BOOLEAN]
  /\ drift \in [Peers -> BOOLEAN] /\ syncLost \in [Peers -> BOOLEAN]
  /\ sessions \in Nat /\ session \in [Peers -> Nat]
  /\ \A p \in Peers : session[p] <= sessions
Queue(w) ==
  IsSeq(w) /\ \A i \in 1..Len(w) : w[i].kind = "delta" => w[i].delta \in Deltas
WireTypes == DOMAIN wire = Peers /\ \A p \in Peers : Queue(wire[p])
FrameTypes ==
  /\ delta \in [Peers -> Deltas \cup {0}]
  /\ current \in [Peers -> Nat] /\ hooks \in [Peers -> Nat]
  /\ DOMAIN list = Peers /\ DOMAIN toPlay = Peers
  /\ \A p \in Peers : list[p] # <<>> =>
       /\ delta[p] \in Deltas
       /\ DOMAIN list[p] = 0 .. delta[p] - 1
       /\ current[p] \in DOMAIN list[p]
       /\ hooks[p] > 0 => toPlay[p] \in DOMAIN list[p]
HistoryTypes ==
  /\ DOMAIN recorded = Peers /\ DOMAIN played = Peers
  /\ \A p \in Peers : IsSeq(recorded[p]) /\ IsSeq(played[p])

\* What the place of a peer says about its socket and its lists.
AtPlaces ==
  /\ \A p \in Peers :
       /\ pc[p] \in Waits \ {"settings"} => sock[p] = "open"
       /\ pc[p] \in {"test", "echo", "delta", "receive"} => Connected(p)
       /\ pc[p] \in {"download", "settings"} \/ trap[p] = "connect" => ~Connected(p)
       /\ pc[p] = "settings" => trap[p] # "connect"
       /\ Connected(p) => sock[p] = "open" \/ pc[p] = "crashed"
       /\ trap[p] = "sync" \/ pc[p] = "receive" => list[p] # <<>>
  /\ backlog => sock["server"] # "open"

\* A peer gets its lists once in a connection, and plays with no others.
SessionsOrdered ==
  \A p \in Peers :
    /\ Starts(p) => ~Live(p)
    /\ Live(p) /\ sock[p] = "open" => Connected(p) /\ Plays(p) /\ list[p] # <<>>
    /\ ~broken /\ Connected(p) /\ Plays(p) => Live(p)

\* A peer plays over a connection that stands.
Playing(p) == ~broken /\ Live(p) /\ sock[p] = "open"

\* A peer that waits has sent delta lists more than it has played, one that runs one
\* less; at first, until its buffer is full, it plays none.
OnPace(p) ==
  /\ pc[p] = "receive" => full[p] /\ Sent(p) = Read(p) + delta[p]
  /\ pc[p] = "run" /\ full[p] => Sent(p) = Read(p) + delta[p] - 1
  /\ pc[p] = "run" /\ ~full[p] => Read(p) = 0 /\ Sent(p) = current[p]
Pace == \A p \in Peers : Playing(p) => OnPace(p)

\* A connection that is not accepted yet has carried nothing.
Fresh == backlog /\ ~broken => pc["client"] = "download" /\ \A p \in Peers : wire[p] = <<>>

\* No list is lost or repeated on its way to p.
Balance(p) == Read(p) + Lists(wire[p]) = Sent(Other(p))
Counts == \A p \in Peers : ~broken /\ sock[p] = "open" => Balance(p)

\* Who waits for a peer that is gone has a list to read.
ListLeft ==
  \A p \in Peers :
    ~broken /\ pc[p] = "receive" /\ sock[Other(p)] # "open" => Lists(wire[p]) >= 1

Types == StateTypes /\ WireTypes /\ FrameTypes /\ HistoryTypes
Phases == AtPlaces /\ SessionsOrdered
IInv == Types /\ Phases /\ Pace /\ Fresh /\ Counts /\ ListLeft

-----------------------------------------------------------------------------
LEMMA Others == Other("server") = "client" /\ Other("client") = "server"
BY DEF Other, Peers

\* Appending to a sequence, and the empty one.
LEMMA Sequence ==
  ASSUME NEW s, IsSeq(s), NEW e
  PROVE /\ Len(s) \in Nat
        /\ IsSeq(Append(s, e)) /\ Len(Append(s, e)) = Len(s) + 1
        /\ IsSeq(<<>>) /\ Len(<<>>) = 0
<1> DEFINE S == Range(s) \cup {e}
<1>1. s \in Seq(S) /\ e \in S
  BY SeqMonotonic DEF IsSeq
<1>2. Append(s, e) \in Seq(S) /\ Len(Append(s, e)) = Len(s) + 1
  BY <1>1, AppendProperties
<1>3. IsSeq(Append(s, e))
  BY <1>2, SeqOfRange DEF IsSeq
<1> QED BY <1>1, <1>2, <1>3, LenProperties, EmptySeq DEF IsSeq

\* Any sequence is one over its own elements.
LEMMA SomeSeq == ASSUME NEW S, NEW s \in Seq(S) PROVE IsSeq(s)
BY SeqOfRange DEF IsSeq

\* The lists among the messages that are on the way can be counted.
LEMMA ListsType ==
  ASSUME NEW w, IsSeq(w)
  PROVE IsFiniteSet(ListsAt(w)) /\ Lists(w) \in Nat /\ (Lists(w) > 0 => w # <<>>)
<1>1. IsFiniteSet(1..Len(w)) /\ Len(w) \in Nat
  BY LenProperties, FS_Interval DEF IsSeq
<1>2. IsFiniteSet(ListsAt(w))
  BY <1>1, FS_Subset DEF ListsAt
<1>3. w = <<>> => ListsAt(w) = {}
  BY DEF ListsAt
<1> QED BY <1>2, <1>3, FS_CardinalityType, FS_EmptySet DEF Lists

LEMMA ListsNone == Lists(<<>>) = 0
<1>1. ListsAt(<<>>) = {}
  BY DEF ListsAt
<1> QED BY <1>1, FS_EmptySet DEF Lists

\* What is sent comes at the end.
LEMMA ListsSent ==
  ASSUME NEW w, IsSeq(w), NEW t, IsSeq(t)
  PROVE /\ IsSeq(w \o t) /\ Len(w \o t) = Len(w) + Len(t)
        /\ \A i \in 1..Len(w) : (w \o t)[i] = w[i]
        /\ \A i \in 1..Len(t) : (w \o t)[Len(w) + i] = t[i]
        /\ (\A i \in 1..Len(t) : t[i].kind # "list") => Lists(w \o t) = Lists(w)
        /\ Len(t) = 1 /\ t[1].kind = "list" => Lists(w \o t) = Lists(w) + 1
<1> DEFINE R == Range(w) \cup Range(t)
<1>1. w \in Seq(R) /\ t \in Seq(R)
  BY SeqMonotonic DEF IsSeq
<1>2. Len(w) \in Nat /\ Len(t) \in Nat
  BY <1>1, LenProperties
<1>3. /\ w \o t \in Seq(R) /\ Len(w \o t) = Len(w) + Len(t)
      /\ \A i \in 1..Len(w) + Len(t) :
           (w \o t)[i] = IF i <= Len(w) THEN w[i] ELSE t[i - Len(w)]
  BY <1>1, ConcatProperties
<1>4. \A i \in 1..Len(w) : (w \o t)[i] = w[i]
  BY <1>2, <1>3
<1>5. \A i \in 1..Len(t) : (w \o t)[Len(w) + i] = t[i]
  BY <1>2, <1>3
<1>6. ASSUME \A i \in 1..Len(t) : t[i].kind # "list" PROVE Lists(w \o t) = Lists(w)
  <2>1. \A i \in 1..Len(w) + Len(t) : i \notin 1..Len(w) => i - Len(w) \in 1..Len(t)
    BY <1>2
  <2>2. ListsAt(w \o t) = ListsAt(w)
    BY <1>2, <1>3, <1>6, <2>1 DEF ListsAt
  <2> QED BY <2>2 DEF Lists
<1>7. ASSUME Len(t) = 1, t[1].kind = "list" PROVE Lists(w \o t) = Lists(w) + 1
  <2>1. \A i : i \in 1..Len(w) + Len(t) <=> i \in 1..Len(w) \/ i = Len(w) + 1
    BY <1>2, <1>7
  <2>2. \A i : i \in ListsAt(w \o t) <=> i \in ListsAt(w) \/ i = Len(w) + 1
    BY <1>2, <1>3, <1>4, <1>5, <1>7, <2>1 DEF ListsAt
  <2>3. ListsAt(w \o t) = ListsAt(w) \cup {Len(w) + 1}
    BY <2>2
  <2>4. Len(w) + 1 \notin ListsAt(w)
    BY <1>2 DEF ListsAt
  <2> QED BY <2>3, <2>4, ListsType, FS_AddElement DEF Lists
<1>8. IsSeq(w \o t)
  BY <1>3, SomeSeq
<1> QED BY <1>3, <1>4, <1>5, <1>6, <1>7, <1>8

\* What is received is taken from the front.
LEMMA ListsTaken ==
  ASSUME NEW w, IsSeq(w), w # <<>>
  PROVE /\ IsSeq(Tail(w)) /\ Len(Tail(w)) = Len(w) - 1 /\ Len(w) \in Nat \ {0}
        /\ \A i \in 1..Len(w) - 1 : Tail(w)[i] = w[i + 1]
        /\ Head(w) = w[1]
        /\ Lists(w) = Lists(Tail(w)) + (IF Head(w).kind = "list" THEN 1 ELSE 0)
<1> DEFINE S == Range(w)
<1>1. w \in Seq(S)
  BY DEF IsSeq
<1>2. /\ Len(w) \in Nat \ {0} /\ Tail(w) \in Seq(S) /\ Len(Tail(w)) = Len(w) - 1
      /\ \A i \in 1..Len(Tail(w)) : Tail(w)[i] = w[i + 1]
  BY <1>1, HeadTailProperties, LenProperties, EmptySeq
<1>3. Head(w) = w[1]
  BY <1>1
<1>4. \A i \in 1..Len(w) - 1 : Tail(w)[i] = w[i + 1]
  BY <1>2
<1> DEFINE Up == [i \in ListsAt(Tail(w)) |-> i + 1]
           Later == ListsAt(w) \ {1}
<1>5. /\ IsSeq(Tail(w)) /\ IsFiniteSet(ListsAt(Tail(w))) /\ IsFiniteSet(ListsAt(w))
      /\ Lists(Tail(w)) \in Nat /\ Lists(w) \in Nat
  BY <1>1, <1>2, SomeSeq, ListsType
<1>6. Up \in Bijection(ListsAt(Tail(w)), Later)
  <2>1. \A i \in ListsAt(Tail(w)) : i \in Nat /\ i + 1 \in Later
    BY <1>2, <1>4 DEF ListsAt
  <2>2. \A j \in Later : j - 1 \in ListsAt(Tail(w)) /\ j \in Nat /\ (j - 1) + 1 = j
    BY <1>2, <1>4 DEF ListsAt
  <2>3. Up \in [ListsAt(Tail(w)) -> Later]
    BY <2>1
  <2>4. \A i, j \in ListsAt(Tail(w)) : Up[i] = Up[j] => i = j
    BY <2>1
  <2>5. \A j \in Later : \E i \in ListsAt(Tail(w)) : Up[i] = j
    BY <2>2
  <2> QED BY <2>3, <2>4, <2>5 DEF Bijection, Injection, Surjection, IsInjective
<1>7. Cardinality(Later) = Lists(Tail(w))
  BY <1>5, <1>6, FS_Bijection DEF Lists, ExistsBijection
<1>8. 1 \in ListsAt(w) <=> Head(w).kind = "list"
  BY <1>2, <1>3 DEF ListsAt
<1>9. CASE 1 \in ListsAt(w)
  <2>1. Lists(Tail(w)) = Lists(w) - 1
    BY <1>5, <1>7, <1>9, FS_RemoveElement DEF Lists
  <2>2. Lists(w) = Lists(Tail(w)) + (IF Head(w).kind = "list" THEN 1 ELSE 0)
    BY <1>5, <1>8, <1>9, <2>1
  <2> QED BY <1>2, <1>3, <1>4, <1>5, <2>2
<1>10. CASE 1 \notin ListsAt(w)
  <2>1. Later = ListsAt(w)
    BY <1>10
  <2>2. Lists(Tail(w)) = Lists(w)
    BY <1>7, <2>1 DEF Lists
  <2>3. Lists(w) = Lists(Tail(w)) + (IF Head(w).kind = "list" THEN 1 ELSE 0)
    BY <1>5, <1>8, <1>10, <2>2
  <2> QED BY <1>2, <1>3, <1>4, <1>5, <2>3
<1> QED BY <1>9, <1>10

\* Receiving: a delay that arrives is one that was measured, and at most one list less
\* is on the way.
LEMMA Taking ==
  ASSUME NEW w, Queue(w), w # <<>>
  PROVE /\ Queue(Tail(w)) /\ (Head(w).kind = "delta" => Head(w).delta \in Deltas)
        /\ Lists(w) \in Nat /\ Lists(Tail(w)) \in Nat
        /\ Lists(w) = Lists(Tail(w)) + (IF Head(w).kind = "list" THEN 1 ELSE 0)
<1>1. IsSeq(w) /\ \A i \in 1..Len(w) : w[i].kind = "delta" => w[i].delta \in Deltas
  BY DEF Queue
<1>2. /\ IsSeq(Tail(w)) /\ Len(Tail(w)) = Len(w) - 1 /\ Len(w) \in Nat \ {0}
      /\ \A i \in 1..Len(w) - 1 : Tail(w)[i] = w[i + 1]
      /\ Head(w) = w[1]
      /\ Lists(w) = Lists(Tail(w)) + (IF Head(w).kind = "list" THEN 1 ELSE 0)
  BY <1>1, ListsTaken
<1>3. \A i \in 1..Len(Tail(w)) : Tail(w)[i].kind = "delta" => Tail(w)[i].delta \in Deltas
  BY <1>1, <1>2
<1>4. 1 \in 1..Len(w)
  BY <1>2
<1> QED BY <1>1, <1>2, <1>3, <1>4, ListsType DEF Queue

\* Sending one message.
LEMMA Giving ==
  ASSUME NEW w, Queue(w), NEW e, e.kind = "delta" => e.delta \in Deltas
  PROVE /\ Queue(Append(w, e)) /\ Queue(w \o <<e>>) /\ Lists(w) \in Nat
        /\ Lists(Append(w, e)) = Lists(w) + (IF e.kind = "list" THEN 1 ELSE 0)
        /\ Lists(w \o <<e>>) = Lists(w) + (IF e.kind = "list" THEN 1 ELSE 0)
<1>1. IsSeq(w) /\ \A i \in 1..Len(w) : w[i].kind = "delta" => w[i].delta \in Deltas
  BY DEF Queue
<1> DEFINE t == <<e>>
<1>2. Append(w, e) = w \o t
  <2> DEFINE R == Range(w) \cup {e}
  <2>1. w \in Seq(R) /\ e \in R
    BY <1>1, SeqMonotonic DEF IsSeq
  <2> QED BY <2>1, AppendIsConcat
<1>3. IsSeq(t) /\ Len(t) = 1 /\ t[1] = e
  <2>1. t \in Seq({e}) /\ Len(t) = 1 /\ t[1] = e
    OBVIOUS
  <2> QED BY <2>1, SomeSeq
<1> HIDE DEF t
<1>4. /\ IsSeq(w \o t) /\ Len(w \o t) = Len(w) + Len(t)
      /\ \A i \in 1..Len(w) : (w \o t)[i] = w[i]
      /\ \A i \in 1..Len(t) : (w \o t)[Len(w) + i] = t[i]
      /\ (\A i \in 1..Len(t) : t[i].kind # "list") => Lists(w \o t) = Lists(w)
      /\ Len(t) = 1 /\ t[1].kind = "list" => Lists(w \o t) = Lists(w) + 1
  BY <1>1, <1>3, ListsSent, Zenon
<1>5. Len(w) \in Nat /\ Lists(w) \in Nat
  BY <1>1, Sequence, ListsType
<1>6. (w \o t)[Len(w) + 1] = e
  BY <1>3, <1>4
<1>7. Lists(w \o t) = Lists(w) + (IF e.kind = "list" THEN 1 ELSE 0)
  BY <1>3, <1>4, <1>5
<1>8. \A i \in 1..Len(w \o t) : (w \o t)[i].kind = "delta" => (w \o t)[i].delta \in Deltas
  BY <1>1, <1>3, <1>4, <1>5, <1>6
<1> QED BY <1>2, <1>4, <1>5, <1>7, <1>8 DEF Queue, t

\* An empty wire.
LEMMA Nothing == Queue(<<>>) /\ Lists(<<>>) = 0
BY ListsNone, EmptySeq DEF Queue, IsSeq

\* The snapshot, the settings and the test of the delay.
LEMMA GivingStart ==
  ASSUME NEW w, Queue(w)
  PROVE LET t == <<Message("snapshot"), Message("settings"), Message("test")>>
        IN Queue(w \o t) /\ Lists(w \o t) = Lists(w)
<1> DEFINE t == <<Message("snapshot"), Message("settings"), Message("test")>>
           S == {Message("snapshot"), Message("settings"), Message("test")}
<1>1. t \in Seq(S) /\ Len(t) = 3
  OBVIOUS
<1>2. \A i \in 1..Len(t) : t[i].kind # "list" /\ t[i].kind # "delta"
  <2>1. \A i \in 1..3 : i = 1 \/ i = 2 \/ i = 3
    OBVIOUS
  <2> QED BY <1>1, <2>1 DEF Message
<1>3. IsSeq(w) /\ Len(w) \in Nat /\ IsSeq(t)
  BY <1>1, Sequence, SomeSeq DEF Queue
<1> HIDE DEF t
<1>4. /\ IsSeq(w \o t) /\ Len(w \o t) = Len(w) + Len(t)
      /\ \A i \in 1..Len(w) : (w \o t)[i] = w[i]
      /\ \A i \in 1..Len(t) : (w \o t)[Len(w) + i] = t[i]
      /\ (\A i \in 1..Len(t) : t[i].kind # "list") => Lists(w \o t) = Lists(w)
      /\ Len(t) = 1 /\ t[1].kind = "list" => Lists(w \o t) = Lists(w) + 1
  BY <1>3, ListsSent, Zenon
<1>5. \A i \in 1..Len(w) + 3 : i \in 1..Len(w) \/ (i - Len(w) \in 1..3 /\ i = Len(w) + (i - Len(w)))
  BY <1>3
<1>6. \A i \in 1..Len(w \o t) : (w \o t)[i].kind = "delta" => (w \o t)[i].delta \in Deltas
  BY <1>1, <1>2, <1>4, <1>5 DEF Queue
<1> QED BY <1>2, <1>4, <1>6 DEF Queue, t

-----------------------------------------------------------------------------
(* Types. *)

\* network_init_frame_event_list leaves a peer with new lists, and running.
GotLists(p, d) ==
  /\ pc' = [pc EXCEPT ![p] = "run"] /\ trap' = [trap EXCEPT ![p] = "sync"]
  /\ full' = [full EXCEPT ![p] = FALSE] /\ session' = [session EXCEPT ![p] = sessions]
  /\ UNCHANGED <<mode, suspended, drift, syncLost, sock, listening, backlog, sessions>>
  /\ DOMAIN list' = Peers /\ list'[p] # <<>> /\ DOMAIN list'[p] = 0 .. d - 1
  /\ \A q \in Peers \ {p} : list'[q] = list[q]
  /\ d \in Nat \ {0, 1}

LEMMA NewLists ==
  ASSUME FrameTypes, NEW p \in Peers, NEW d \in Deltas, InitLists(p, d)
  PROVE GotLists(p, d)
<1>1. d \in Nat \ {0, 1}
  BY NetplayAssumption
<1>2. /\ list' = [list EXCEPT ![p] = [i \in 0 .. d - 1 |-> <<>>]] /\ DOMAIN list = Peers
      /\ pc' = [pc EXCEPT ![p] = "run"] /\ trap' = [trap EXCEPT ![p] = "sync"]
      /\ full' = [full EXCEPT ![p] = FALSE] /\ session' = [session EXCEPT ![p] = sessions]
      /\ UNCHANGED <<mode, suspended, machines, sock, listening, backlog, sessions>>
  BY DEF InitLists, FrameTypes, Goto, machines, counters
<1>3. list'[p] = [i \in 0 .. d - 1 |-> <<>>]
  BY <1>2
<1>4. 0 \in DOMAIN list'[p] /\ DOMAIN list'[p] = 0 .. d - 1
  BY <1>1, <1>3
<1>5. list'[p] # <<>>
  <2>1. 0 \notin DOMAIN <<>>
    OBVIOUS
  <2> QED BY <1>4, <2>1
<1>6. DOMAIN list' = Peers /\ \A q \in Peers \ {p} : list'[q] = list[q]
  BY <1>2
<1>7. UNCHANGED <<mode, suspended, machines, sock, listening, backlog, sessions>>
  BY <1>2 DEF machines
<1> QED BY <1>1, <1>2, <1>4, <1>5, <1>6, <1>7 DEF GotLists, machines

\* Every step keeps the types of the state.
LEMMA StateTypesKept ==
  ASSUME StateTypes, WireTypes, FrameTypes, [Next]_vars
  PROVE  StateTypes'
<1> USE DEF StateTypes, Peers, Modes, Places, Waits, Sockets, Goto, Mishap, UserActs,
            Running, AtBoundary, Disconnect, CloseEnd, Closed, StopsListening,
            CloseFrame, AtHook, Fills, SendFails, ReceiveFails, Arrived, Connected,
            sockets, frames, machines, histories, counters
<1>1. ASSUME NEW p \in Peers, StartServer(p) PROVE StateTypes'
  BY <1>1 DEF StartServer
<1>2. CASE ConnectClient
  <2>1. /\ syncLost' = [p \in Peers |-> FALSE] /\ sessions' = sessions + 1
        /\ sock' = [sock EXCEPT !["client"] = "open"] /\ pc' = [pc EXCEPT !["client"] = "download"]
        /\ UNCHANGED <<mode, trap, suspended, listening, full, drift, session>>
        /\ backlog' = TRUE /\ broken' = FALSE
    BY <1>2 DEF ConnectClient
  <2>2. /\ syncLost' \in [Peers -> BOOLEAN] /\ sock' \in [Peers -> Sockets]
        /\ pc' \in [Peers -> Places]
    BY <2>1
  <2>3. sessions' \in Nat /\ \A p \in Peers : session[p] <= sessions'
    BY <2>1
  <2> QED BY <2>1, <2>2, <2>3
<1>3. ASSUME NEW p \in Peers, UserDisconnects(p) PROVE StateTypes'
  BY <1>3 DEF UserDisconnects
<1>4. ASSUME NEW p \in Peers, Suspend(p) PROVE StateTypes'
  BY <1>4 DEF Suspend, Send
<1>5. ASSUME NEW p \in Peers, NEW e \in Inputs, GiveInput(p, e) PROVE StateTypes'
  BY <1>5 DEF GiveInput
<1>6. CASE Break
  BY <1>6 DEF Break
<1>7. ASSUME NEW p \in Peers, Diverge(p) PROVE StateTypes'
  BY <1>7 DEF Diverge
<1>8. ASSUME NEW p \in Peers, LoseTrap(p) PROVE StateTypes'
  BY <1>8 DEF LoseTrap
<1>9. CASE Accept
  BY <1>9 DEF Accept
<1>10. CASE ServerConnectTrap
  BY <1>10 DEF ServerConnectTrap, Send
<1>11. CASE ServerSnapshotFails
  BY <1>11 DEF ServerSnapshotFails
<1>12. CASE ServerStarts
  <2> PICK d \in Deltas : InitLists("server", d)
    BY <1>12 DEF ServerStarts
  <2>1. broken' \in BOOLEAN
    BY <1>12 DEF ServerStarts
  <2>2. GotLists("server", d)
    BY NewLists
  <2> QED BY <2>1, <2>2 DEF GotLists
<1>13. CASE Download
  BY <1>13 DEF Download
<1>14. CASE DownloadFails
  BY <1>14 DEF DownloadFails
<1>15. CASE ClientConnectTrap
  BY <1>15 DEF ClientConnectTrap
<1>16. CASE LoadSnapshot
  BY <1>16 DEF LoadSnapshot
<1>17. CASE LoadFails
  BY <1>17 DEF LoadFails
<1>18. CASE Test
  BY <1>18 DEF Test
<1>19. CASE ClientStarts
  <2>1. Head(wire["client"]).delta \in Deltas
    BY <1>19, Taking DEF ClientStarts, WireTypes
  <2>2. GotLists("client", Head(wire["client"]).delta) /\ UNCHANGED broken
    BY <1>19, <2>1, NewLists DEF ClientStarts
  <2> QED BY <2>2 DEF GotLists
<1>20. CASE ClientStartsBlindly
  <2> PICK d \in Deltas : InitLists("client", d)
    BY <1>20 DEF ClientStartsBlindly
  <2>1. GotLists("client", d) /\ UNCHANGED broken
    BY <1>20, NewLists DEF ClientStartsBlindly
  <2> QED BY <2>1 DEF GotLists
<1>21. ASSUME NEW p \in Peers, TestFails(p) PROVE StateTypes'
  BY <1>21 DEF TestFails
<1>22. ASSUME NEW p \in Peers, RecordSyncTest(p) PROVE StateTypes'
  BY <1>22 DEF RecordSyncTest
<1>23. ASSUME NEW p \in Peers, Hook(p) PROVE StateTypes'
  <2>1. broken' \in BOOLEAN
    BY <1>23 DEF Hook, Send
  <2>2. pc' \in [Peers -> Places] /\ trap' \in [Peers -> {"none", "connect", "sync"}]
    BY <1>23 DEF Hook, PrepareNextFrame
  <2> QED BY <1>23, <2>1, <2>2 DEF Hook
<1>24. ASSUME NEW p \in Peers, HookSendFails(p) PROVE StateTypes'
  <2>1. trap' \in [Peers -> {"none", "connect", "sync"}]
    BY <1>24 DEF HookSendFails, PrepareNextFrame
  <2> QED BY <1>24, <2>1 DEF HookSendFails
<1>25. ASSUME NEW p \in Peers, ReceiveMarker(p) PROVE StateTypes'
  BY <1>25 DEF ReceiveMarker
<1>26. ASSUME NEW p \in Peers, ReceiveList(p) PROVE StateTypes'
  <2>1. trap' \in [Peers -> {"none", "connect", "sync"}]
    BY <1>26 DEF ReceiveList, PrepareNextFrame
  <2>2. UNCHANGED <<full, suspended, drift, session, sessions>>
    BY <1>26 DEF ReceiveList
  <2>3. CASE RegistersDiffer(PlayedLists(p))
    <3>1. /\ Disconnect(p, "run", Tail(wire[p]) # <<>>)
          /\ syncLost' = [syncLost EXCEPT ![p] = TRUE]
      BY <1>26, <2>3 DEF ReceiveList
    <3> QED BY <2>1, <2>2, <3>1
  <2>4. CASE ~RegistersDiffer(PlayedLists(p))
    BY <1>26, <2>1, <2>2, <2>4 DEF ReceiveList
  <2> QED BY <2>3, <2>4
<1>27. ASSUME NEW p \in Peers, ReceiveFailed(p) PROVE StateTypes'
  BY <1>27 DEF ReceiveFailed
<1>28. ASSUME NEW p \in Peers, ReceiveBodyFailed(p) PROVE StateTypes'
  BY <1>28 DEF ReceiveBodyFailed
<1>29. ASSUME NEW p \in Peers, CrashWithoutLists(p) PROVE StateTypes'
  BY <1>29 DEF CrashWithoutLists
<1>30. CASE UNCHANGED vars
  BY <1>30 DEF vars
<1> QED BY <1>1, <1>2, <1>3, <1>4, <1>5, <1>6, <1>7, <1>8, <1>9, <1>10, <1>11, <1>12, <1>13,
           <1>14, <1>15, <1>16, <1>17, <1>18, <1>19, <1>20, <1>21, <1>22, <1>23, <1>24,
           <1>25, <1>26, <1>27, <1>28, <1>29, <1>30
         DEF Next, User, EnableClient, World, ServerHandshake, ClientHandshake, Frame

\* A slot of a list that is filled or cleared leaves the lists what they are.
SameLists ==
  /\ DOMAIN list' = Peers
  /\ \A q \in Peers : DOMAIN list'[q] = DOMAIN list[q] /\ (list'[q] = <<>> <=> list[q] = <<>>)

LEMMA SlotSet ==
  ASSUME FrameTypes, NEW p \in Peers, NEW i, NEW x, list' = [list EXCEPT ![p][i] = x]
  PROVE SameLists
<1>1. DOMAIN list' = Peers /\ list'[p] = [list[p] EXCEPT ![i] = x]
  BY DEF FrameTypes
<1>2. DOMAIN list'[p] = DOMAIN list[p]
  BY <1>1
<1>3. \A q \in Peers \ {p} : list'[q] = list[q]
  BY DEF FrameTypes
<1>4. list[p] # <<>> => list'[p] # <<>>
  <2>1. list[p] # <<>> => 0 \in DOMAIN list[p]
    BY NetplayAssumption DEF FrameTypes
  <2>2. 0 \notin DOMAIN <<>>
    OBVIOUS
  <2> QED BY <1>2, <2>1, <2>2
<1>5. list[p] = <<>> => list'[p] = <<>>
  BY <1>1
<1> QED BY <1>1, <1>2, <1>3, <1>4, <1>5 DEF SameLists

\* No step of a running game makes or frees frame_event_list.
LEMMA ListsStay ==
  ASSUME FrameTypes, NEW p \in Peers,
         \/ \E e \in Inputs : GiveInput(p, e)
         \/ RecordSyncTest(p) \/ Hook(p) \/ HookSendFails(p) \/ ReceiveList(p)
  PROVE SameLists
<1>1. CASE UNCHANGED list
  BY <1>1 DEF SameLists, FrameTypes
<1>2. CASE PrepareNextFrame(p)
  BY <1>2, SlotSet DEF PrepareNextFrame
<1>3. ASSUME NEW e \in Inputs, GiveInput(p, e) PROVE SameLists
  BY <1>3, SlotSet DEF GiveInput
<1>4. CASE RecordSyncTest(p)
  BY <1>4, SlotSet DEF RecordSyncTest
<1>5. Hook(p) \/ HookSendFails(p) \/ ReceiveList(p) => PrepareNextFrame(p) \/ UNCHANGED list
  BY DEF Hook, HookSendFails, ReceiveList
<1> QED BY <1>1, <1>2, <1>3, <1>4, <1>5

\* The socket of a peer is open wherever it waits, and its lists exist wherever it
\* plays or is about to.
LEMMA AtPlacesKept ==
  ASSUME StateTypes, WireTypes, FrameTypes, AtPlaces, [Next]_vars
  PROVE  AtPlaces'
<1> USE DEF StateTypes, Peers, Places, Waits, AtPlaces, Goto, Mishap, UserActs, Running,
            AtBoundary, Disconnect, CloseEnd, Closed, StopsListening, CloseFrame,
            AtHook, Fills, SendFails, ReceiveFails, Arrived, Connected, sockets, frames,
            machines, histories, counters
<1>1. ASSUME NEW p \in Peers, StartServer(p) PROVE AtPlaces'
  BY <1>1 DEF StartServer
<1>2. CASE ConnectClient
  BY <1>2 DEF ConnectClient
<1>3. ASSUME NEW p \in Peers, UserDisconnects(p) PROVE AtPlaces'
  BY <1>3 DEF UserDisconnects
<1>4. ASSUME NEW p \in Peers, Suspend(p) PROVE AtPlaces'
  BY <1>4 DEF Suspend
<1>5. ASSUME NEW p \in Peers, NEW e \in Inputs, GiveInput(p, e) PROVE AtPlaces'
  <2>1. SameLists
    BY <1>5, ListsStay
  <2> QED BY <1>5, <2>1 DEF SameLists, GiveInput
<1>6. CASE Break
  BY <1>6 DEF Break
<1>7. ASSUME NEW p \in Peers, Diverge(p) PROVE AtPlaces'
  BY <1>7 DEF Diverge
<1>8. ASSUME NEW p \in Peers, LoseTrap(p) PROVE AtPlaces'
  BY <1>8 DEF LoseTrap
<1>9. CASE Accept
  BY <1>9 DEF Accept
<1>10. CASE ServerConnectTrap
  BY <1>10 DEF ServerConnectTrap
<1>11. CASE ServerSnapshotFails
  BY <1>11 DEF ServerSnapshotFails
<1>12. CASE ServerStarts
  <2> PICK d \in Deltas : InitLists("server", d)
    BY <1>12 DEF ServerStarts
  <2>1. GotLists("server", d)
    BY NewLists
  <2> QED BY <1>12, <2>1 DEF GotLists, ServerStarts
<1>13. CASE Download
  BY <1>13 DEF Download
<1>14. CASE DownloadFails
  BY <1>14 DEF DownloadFails
<1>15. CASE ClientConnectTrap
  BY <1>15 DEF ClientConnectTrap
<1>16. CASE LoadSnapshot
  BY <1>16 DEF LoadSnapshot
<1>17. CASE LoadFails
  BY <1>17 DEF LoadFails
<1>18. CASE Test
  BY <1>18 DEF Test
<1>19. CASE ClientStarts
  <2>1. Head(wire["client"]).delta \in Deltas
    BY <1>19, Taking DEF ClientStarts, WireTypes
  <2>2. GotLists("client", Head(wire["client"]).delta) /\ UNCHANGED broken
    BY <1>19, <2>1, NewLists DEF ClientStarts
  <2>3. pc["client"] = "delta"
    BY <1>19 DEF ClientStarts
  <2> QED BY <2>2, <2>3 DEF GotLists
<1>20. CASE ClientStartsBlindly
  <2>1. PICK d \in Deltas : GotLists("client", d) /\ UNCHANGED broken
    BY <1>20, NewLists DEF ClientStartsBlindly
  <2>2. pc["client"] = "delta"
    BY <1>20 DEF ClientStartsBlindly
  <2> QED BY <2>1, <2>2 DEF GotLists
<1>21. ASSUME NEW p \in Peers, TestFails(p) PROVE AtPlaces'
  BY <1>21 DEF TestFails
<1>22. ASSUME NEW p \in Peers, RecordSyncTest(p) PROVE AtPlaces'
  <2>1. SameLists
    BY <1>22, ListsStay
  <2> QED BY <1>22, <2>1 DEF SameLists, RecordSyncTest
<1>23. ASSUME NEW p \in Peers, Hook(p) PROVE AtPlaces'
  <2>1. SameLists
    BY <1>23, ListsStay
  <2>2. trap' = trap \/ trap' = [trap EXCEPT ![p] = "sync"]
    BY <1>23 DEF Hook, PrepareNextFrame
  <2> QED BY <1>23, <2>1, <2>2 DEF SameLists, Hook, Send
<1>24. ASSUME NEW p \in Peers, HookSendFails(p) PROVE AtPlaces'
  <2>1. SameLists
    BY <1>24, ListsStay
  <2>2. trap' = trap \/ trap' = [trap EXCEPT ![p] = "sync"]
    BY <1>24 DEF HookSendFails, PrepareNextFrame
  <2> QED BY <1>24, <2>1, <2>2 DEF SameLists, HookSendFails, Send
<1>25. ASSUME NEW p \in Peers, ReceiveMarker(p) PROVE AtPlaces'
  BY <1>25 DEF ReceiveMarker
<1>26. ASSUME NEW p \in Peers, ReceiveList(p) PROVE AtPlaces'
  <2>1. SameLists
    BY <1>26, ListsStay
  <2>2. trap' = [trap EXCEPT ![p] = "sync"] /\ UNCHANGED <<session, sessions>> /\ pc[p] = "receive"
    BY <1>26 DEF ReceiveList, PrepareNextFrame
  <2>3. \/ Disconnect(p, "run", Tail(wire[p]) # <<>>)
        \/ Goto(p, "run") /\ UNCHANGED <<mode, sock, listening, backlog, broken>>
    BY <1>26 DEF ReceiveList
  <2> QED BY <2>1, <2>2, <2>3 DEF SameLists
<1>27. ASSUME NEW p \in Peers, ReceiveFailed(p) PROVE AtPlaces'
  BY <1>27 DEF ReceiveFailed
<1>28. ASSUME NEW p \in Peers, ReceiveBodyFailed(p) PROVE AtPlaces'
  BY <1>28 DEF ReceiveBodyFailed
<1>29. ASSUME NEW p \in Peers, CrashWithoutLists(p) PROVE AtPlaces'
  BY <1>29 DEF CrashWithoutLists
<1>30. CASE UNCHANGED vars
  BY <1>30 DEF vars
<1> QED BY <1>1, <1>2, <1>3, <1>4, <1>5, <1>6, <1>7, <1>8, <1>9, <1>10, <1>11, <1>12,
         <1>13, <1>14, <1>15, <1>16, <1>17, <1>18, <1>19, <1>20, <1>21, <1>22,
         <1>23, <1>24, <1>25, <1>26, <1>27, <1>28, <1>29, <1>30
         DEF Next, User, EnableClient, World, ServerHandshake, ClientHandshake, Frame

\* A peer plays only with lists of the connection that stands, unless that one is reset.
LEMMA SessionsOrderedKept ==
  ASSUME StateTypes, WireTypes, FrameTypes, AtPlaces, SessionsOrdered, [Next]_vars
  PROVE  SessionsOrdered'
<1> USE DEF StateTypes, Peers, Waits, AtPlaces, SessionsOrdered, Starts, Live, Plays,
            Goto, Mishap, UserActs, Running, AtBoundary, Disconnect, CloseEnd, Closed,
            StopsListening, CloseFrame, AtHook, Fills, SendFails, ReceiveFails, Arrived,
            Connected, sockets, frames, machines, histories, counters
<1>1. ASSUME NEW p \in Peers, StartServer(p) PROVE SessionsOrdered'
  BY <1>1 DEF StartServer
<1>2. CASE ConnectClient
  BY <1>2 DEF ConnectClient
<1>3. ASSUME NEW p \in Peers, UserDisconnects(p) PROVE SessionsOrdered'
  BY <1>3 DEF UserDisconnects
<1>4. ASSUME NEW p \in Peers, Suspend(p) PROVE SessionsOrdered'
  BY <1>4 DEF Suspend
<1>5. ASSUME NEW p \in Peers, NEW e \in Inputs, GiveInput(p, e) PROVE SessionsOrdered'
  <2>1. SameLists
    BY <1>5, ListsStay
  <2> QED BY <1>5, <2>1 DEF SameLists, GiveInput
<1>6. CASE Break
  BY <1>6 DEF Break
<1>7. ASSUME NEW p \in Peers, Diverge(p) PROVE SessionsOrdered'
  BY <1>7 DEF Diverge
<1>8. ASSUME NEW p \in Peers, LoseTrap(p) PROVE SessionsOrdered'
  BY <1>8 DEF LoseTrap
<1>9. CASE Accept
  BY <1>9 DEF Accept
<1>10. CASE ServerConnectTrap
  BY <1>10 DEF ServerConnectTrap
<1>11. CASE ServerSnapshotFails
  BY <1>11 DEF ServerSnapshotFails
<1>12. CASE ServerStarts
  <2> PICK d \in Deltas : InitLists("server", d)
    BY <1>12 DEF ServerStarts
  <2>1. GotLists("server", d)
    BY NewLists
  <2> QED BY <1>12, <2>1 DEF GotLists, ServerStarts
<1>13. CASE Download
  BY <1>13 DEF Download
<1>14. CASE DownloadFails
  BY <1>14 DEF DownloadFails
<1>15. CASE ClientConnectTrap
  BY <1>15 DEF ClientConnectTrap
<1>16. CASE LoadSnapshot
  BY <1>16 DEF LoadSnapshot
<1>17. CASE LoadFails
  <2>1. /\ pc["client"] = "settings" /\ pc' = [pc EXCEPT !["client"] = "run"]
        /\ UNCHANGED <<mode, trap, sock, backlog, broken, list, session, sessions>>
    BY <1>17 DEF LoadFails
  <2> QED BY <2>1
<1>18. CASE Test
  BY <1>18 DEF Test
<1>19. CASE ClientStarts
  <2>1. Head(wire["client"]).delta \in Deltas
    BY <1>19, Taking DEF ClientStarts, WireTypes
  <2>2. GotLists("client", Head(wire["client"]).delta) /\ UNCHANGED broken
    BY <1>19, <2>1, NewLists DEF ClientStarts
  <2>3. pc["client"] = "delta"
    BY <1>19 DEF ClientStarts
  <2> QED BY <2>2, <2>3 DEF GotLists
<1>20. CASE ClientStartsBlindly
  <2>1. PICK d \in Deltas : GotLists("client", d) /\ UNCHANGED broken
    BY <1>20, NewLists DEF ClientStartsBlindly
  <2>2. pc["client"] = "delta"
    BY <1>20 DEF ClientStartsBlindly
  <2> QED BY <2>1, <2>2 DEF GotLists
<1>21. ASSUME NEW p \in Peers, TestFails(p) PROVE SessionsOrdered'
  BY <1>21 DEF TestFails
<1>22. ASSUME NEW p \in Peers, RecordSyncTest(p) PROVE SessionsOrdered'
  <2>1. SameLists
    BY <1>22, ListsStay
  <2> QED BY <1>22, <2>1 DEF SameLists, RecordSyncTest
<1>23. ASSUME NEW p \in Peers, Hook(p) PROVE SessionsOrdered'
  <2>1. SameLists
    BY <1>23, ListsStay
  <2>2. trap' = trap \/ trap' = [trap EXCEPT ![p] = "sync"]
    BY <1>23 DEF Hook, PrepareNextFrame
  <2> QED BY <1>23, <2>1, <2>2 DEF SameLists, Hook, Send
<1>24. ASSUME NEW p \in Peers, HookSendFails(p) PROVE SessionsOrdered'
  <2>1. SameLists
    BY <1>24, ListsStay
  <2>2. trap' = trap \/ trap' = [trap EXCEPT ![p] = "sync"]
    BY <1>24 DEF HookSendFails, PrepareNextFrame
  <2> QED BY <1>24, <2>1, <2>2 DEF SameLists, HookSendFails, Send
<1>25. ASSUME NEW p \in Peers, ReceiveMarker(p) PROVE SessionsOrdered'
  BY <1>25 DEF ReceiveMarker
<1>26. ASSUME NEW p \in Peers, ReceiveList(p) PROVE SessionsOrdered'
  <2>1. SameLists
    BY <1>26, ListsStay
  <2>2. trap' = [trap EXCEPT ![p] = "sync"] /\ UNCHANGED <<session, sessions>> /\ pc[p] = "receive"
    BY <1>26 DEF ReceiveList, PrepareNextFrame
  <2>3. \/ Disconnect(p, "run", Tail(wire[p]) # <<>>)
        \/ Goto(p, "run") /\ UNCHANGED <<mode, sock, listening, backlog, broken>>
    BY <1>26 DEF ReceiveList
  <2> QED BY <2>1, <2>2, <2>3 DEF SameLists
<1>27. ASSUME NEW p \in Peers, ReceiveFailed(p) PROVE SessionsOrdered'
  BY <1>27 DEF ReceiveFailed
<1>28. ASSUME NEW p \in Peers, ReceiveBodyFailed(p) PROVE SessionsOrdered'
  BY <1>28 DEF ReceiveBodyFailed
<1>29. ASSUME NEW p \in Peers, CrashWithoutLists(p) PROVE SessionsOrdered'
  BY <1>29 DEF CrashWithoutLists
<1>30. CASE UNCHANGED vars
  BY <1>30 DEF vars
<1> QED BY <1>1, <1>2, <1>3, <1>4, <1>5, <1>6, <1>7, <1>8, <1>9, <1>10, <1>11, <1>12,
         <1>13, <1>14, <1>15, <1>16, <1>17, <1>18, <1>19, <1>20, <1>21, <1>22,
         <1>23, <1>24, <1>25, <1>26, <1>27, <1>28, <1>29, <1>30
         DEF Next, User, EnableClient, World, ServerHandshake, ClientHandshake, Frame

\* Messages stay messages on their way.
LEMMA WireTypesKept ==
  ASSUME StateTypes, WireTypes, [Next]_vars
  PROVE  WireTypes'
<1> USE DEF WireTypes, Peers, Goto, Mishap, UserActs, Running, AtBoundary, Disconnect,
            CloseEnd, Closed, StopsListening, CloseFrame, AtHook, Fills, SendFails,
            ReceiveFails, Arrived, Connected, sockets, frames, machines, histories,
            counters
<1>1. ASSUME NEW p \in Peers, StartServer(p) PROVE WireTypes'
  BY <1>1 DEF StartServer
<1>2. CASE ConnectClient
  <2>1. wire' = [p \in Peers |-> <<>>]
    BY <1>2 DEF ConnectClient
  <2> QED BY <2>1, Nothing
<1>3. ASSUME NEW p \in Peers, UserDisconnects(p) PROVE WireTypes'
  <2>1. wire' = [wire EXCEPT ![p] = <<>>]
    BY <1>3 DEF UserDisconnects
  <2> QED BY <2>1, Nothing
<1>4. ASSUME NEW p \in Peers, Suspend(p) PROVE WireTypes'
  <2> DEFINE m == Message("marker")
  <2>1. wire' = wire \/ wire' = [wire EXCEPT ![Other(p)] = @ \o <<m>>]
    BY <1>4 DEF Suspend, Send
  <2>2. m.kind = "marker"
    BY DEF Message
  <2> HIDE DEF m
  <2>3. Other(p) \in Peers
    BY Others
  <2>4. Queue(wire[Other(p)] \o <<m>>)
    BY <2>2, <2>3, Giving
  <2> QED BY <2>1, <2>3, <2>4
<1>5. ASSUME NEW p \in Peers, NEW e \in Inputs, GiveInput(p, e) PROVE WireTypes'
  BY <1>5 DEF GiveInput
<1>6. CASE Break
  BY <1>6 DEF Break
<1>7. ASSUME NEW p \in Peers, Diverge(p) PROVE WireTypes'
  BY <1>7 DEF Diverge
<1>8. ASSUME NEW p \in Peers, LoseTrap(p) PROVE WireTypes'
  BY <1>8 DEF LoseTrap
<1>9. CASE Accept
  BY <1>9 DEF Accept
<1>10. CASE ServerConnectTrap
  <2> DEFINE t == <<Message("snapshot"), Message("settings"), Message("test")>>
  <2>1. wire' = wire \/ wire' = [wire EXCEPT !["client"] = @ \o t]
    BY <1>10, Others DEF ServerConnectTrap, Send
  <2>2. Queue(wire["client"] \o t)
    BY GivingStart
  <2> HIDE DEF t
  <2> QED BY <2>1, <2>2
<1>11. CASE ServerSnapshotFails
  BY <1>11 DEF ServerSnapshotFails
<1>12. CASE ServerStarts
  <2> DEFINE rest == [wire EXCEPT !["server"] = Tail(wire["server"])]
  <2>1. wire["server"] # <<>>
    BY <1>12 DEF ServerStarts
  <2>2. \E d \in Deltas :
          wire' = rest \/ wire' = [rest EXCEPT !["client"] = Append(@, DeltaMessage(d))]
    BY <1>12 DEF ServerStarts
  <2>3. Queue(Tail(wire["server"]))
    BY <2>1, Taking
  <2>4. \A d \in Deltas : Queue(Append(wire["client"], DeltaMessage(d)))
    BY Giving DEF DeltaMessage, Message
  <2> QED BY <2>2, <2>3, <2>4
<1>13. CASE Download
  <2>1. wire' = wire \/ (wire["client"] # <<>> /\ wire' = [wire EXCEPT !["client"] = Tail(@)])
    BY <1>13 DEF Download, Take
  <2> QED BY <2>1, Taking
<1>14. CASE DownloadFails
  <2>1. wire' = [wire EXCEPT !["client"] = <<>>]
    BY <1>14 DEF DownloadFails
  <2> QED BY <2>1, Nothing
<1>15. CASE ClientConnectTrap
  BY <1>15 DEF ClientConnectTrap
<1>16. CASE LoadSnapshot
  <2>1. wire' = wire \/ (wire["client"] # <<>> /\ wire' = [wire EXCEPT !["client"] = Tail(@)])
    BY <1>16 DEF LoadSnapshot, Take
  <2> QED BY <2>1, Taking
<1>17. CASE LoadFails
  <2>1. wire' = wire \/ (wire["client"] # <<>> /\ wire' = [wire EXCEPT !["client"] = Tail(@)])
    BY <1>17 DEF LoadFails, Take
  <2> QED BY <2>1, Taking
<1>18. CASE Test
  <2> DEFINE rest == [wire EXCEPT !["client"] = Tail(wire["client"])]
  <2>1. /\ wire["client"] # <<>>
        /\ wire' = rest \/ wire' = [rest EXCEPT !["server"] = Append(@, Message("echo"))]
    BY <1>18 DEF Test
  <2>2. Queue(Tail(wire["client"]))
    BY <2>1, Taking
  <2>3. Queue(Append(wire["server"], Message("echo")))
    BY Giving DEF Message
  <2> QED BY <2>1, <2>2, <2>3
<1>19. CASE ClientStarts
  <2>1. wire' = wire \/ (wire["client"] # <<>> /\ wire' = [wire EXCEPT !["client"] = Tail(@)])
    BY <1>19 DEF ClientStarts, Take
  <2> QED BY <2>1, Taking
<1>20. CASE ClientStartsBlindly
  BY <1>20 DEF ClientStartsBlindly
<1>21. ASSUME NEW p \in Peers, TestFails(p) PROVE WireTypes'
  BY <1>21 DEF TestFails
<1>22. ASSUME NEW p \in Peers, RecordSyncTest(p) PROVE WireTypes'
  BY <1>22 DEF RecordSyncTest
<1>23. ASSUME NEW p \in Peers, Hook(p) PROVE WireTypes'
  <2> DEFINE m == ListMessage(list[p][current[p]])
  <2>1. wire' = wire \/ wire' = [wire EXCEPT ![Other(p)] = @ \o <<m>>]
    BY <1>23 DEF Hook, Send
  <2>2. m.kind = "list"
    BY DEF ListMessage, Message
  <2> HIDE DEF m
  <2> QED BY <2>1, <2>2, Giving, Others
<1>24. ASSUME NEW p \in Peers, HookSendFails(p) PROVE WireTypes'
  <2>1. wire' = [wire EXCEPT ![p] = <<>>]
    BY <1>24 DEF HookSendFails
  <2> QED BY <2>1, Nothing
<1>25. ASSUME NEW p \in Peers, ReceiveMarker(p) PROVE WireTypes'
  <2>1. wire' = wire \/ (wire[p] # <<>> /\ wire' = [wire EXCEPT ![p] = Tail(@)])
    BY <1>25 DEF ReceiveMarker, Take
  <2> QED BY <2>1, Taking
<1>26. ASSUME NEW p \in Peers, ReceiveList(p) PROVE WireTypes'
  <2>1. /\ wire[p] # <<>>
        /\ wire' = [wire EXCEPT ![p] = Tail(@)] \/ wire' = [wire EXCEPT ![p] = <<>>]
    BY <1>26 DEF ReceiveList, Take
  <2> QED BY <2>1, Taking, Nothing
<1>27. ASSUME NEW p \in Peers, ReceiveFailed(p) PROVE WireTypes'
  <2>1. wire' = [wire EXCEPT ![p] = <<>>]
    BY <1>27 DEF ReceiveFailed
  <2> QED BY <2>1, Nothing
<1>28. ASSUME NEW p \in Peers, ReceiveBodyFailed(p) PROVE WireTypes'
  <2>1. wire' = wire \/ (wire[p] # <<>> /\ wire' = [wire EXCEPT ![p] = Tail(@)])
    BY <1>28 DEF ReceiveBodyFailed, Take
  <2> QED BY <2>1, Taking
<1>29. ASSUME NEW p \in Peers, CrashWithoutLists(p) PROVE WireTypes'
  <2>1. wire' = [wire EXCEPT ![p] = <<>>]
    BY <1>29 DEF CrashWithoutLists
  <2> QED BY <2>1, Nothing
<1>30. CASE UNCHANGED vars
  BY <1>30 DEF vars
<1> QED BY <1>1, <1>2, <1>3, <1>4, <1>5, <1>6, <1>7, <1>8, <1>9, <1>10, <1>11, <1>12,
         <1>13, <1>14, <1>15, <1>16, <1>17, <1>18, <1>19, <1>20, <1>21, <1>22,
         <1>23, <1>24, <1>25, <1>26, <1>27, <1>28, <1>29, <1>30
         DEF Next, User, EnableClient, World, ServerHandshake, ClientHandshake, Frame

FrameMoves(p) ==
  \/ \E e \in Inputs : GiveInput(p, e)
  \/ RecordSyncTest(p) \/ Hook(p) \/ HookSendFails(p) \/ ReceiveList(p)
  \/ \E d \in Deltas : InitLists(p, d)

\* Only these actions touch the lists and the histories.
LEMMA FramesMove ==
  ASSUME WireTypes, [Next]_vars
  PROVE UNCHANGED <<frames, recorded, played, hooks, session>> \/ \E p \in Peers : FrameMoves(p)
<1>1. CASE User
  BY <1>1 DEF User, StartServer, EnableClient, ConnectClient, UserDisconnects, Suspend,
     histories,
              FrameMoves
<1>2. CASE World
  BY <1>2 DEF World, Break, Diverge, LoseTrap, histories
<1>3. CASE ServerHandshake
  BY <1>3 DEF ServerHandshake, Accept, ServerConnectTrap, ServerSnapshotFails, ServerStarts,
              histories, FrameMoves, Peers
<1>4. CASE ClientHandshake
  <2>1. CASE ClientStarts
    BY <2>1, Taking DEF ClientStarts, WireTypes, Arrived, FrameMoves, Peers
  <2>2. CASE ClientStartsBlindly
    BY <2>2 DEF ClientStartsBlindly, FrameMoves, Peers
  <2> QED BY <1>4, <2>1, <2>2 DEF ClientHandshake, Download, DownloadFails, ClientConnectTrap,
              LoadSnapshot, LoadFails, Test, histories
<1>5. ASSUME NEW p \in Peers, Frame(p)
      PROVE UNCHANGED <<frames, recorded, played, hooks, session>> \/ FrameMoves(p)
  BY <1>5 DEF Frame, TestFails, ReceiveMarker, ReceiveFailed, ReceiveBodyFailed,
              CrashWithoutLists, histories, FrameMoves
<1>6. CASE UNCHANGED vars
  BY <1>6 DEF vars, histories
<1> QED BY <1>1, <1>2, <1>3, <1>4, <1>5, <1>6 DEF Next

\* The remainder is an index of the ring.
LEMMA Ring == \A a \in Nat, d \in Nat \ {0} : a % d \in 0 .. d - 1 /\ (a < d => a % d = a)
<1>1. \A a \in Nat, d \in Nat \ {0} : a % d \in 0 .. d - 1
  BY SMTT(30)
<1>2. \A a \in Nat, d \in Nat \ {0} : a < d => a % d = a
  BY SMTT(30)
<1> QED BY <1>1, <1>2

\* network_prepare_next_frame stays inside the ring.
LEMMA NextSlot ==
  ASSUME FrameTypes, NEW p \in Peers, list[p] # <<>>, PrepareNextFrame(p)
  PROVE FrameTypes'
<1> DEFINE next == (current[p] + 1) % delta[p]
<1>a. delta[p] \in Deltas /\ current[p] \in Nat
  BY DEF FrameTypes
<1>1. delta[p] \in Nat \ {0} /\ current[p] + 1 \in Nat
  <2>1. delta[p] \in Nat \ {0, 1}
    BY <1>a, NetplayAssumption
  <2> QED BY <1>a, <2>1
<1>2. next \in 0 .. delta[p] - 1
  BY <1>1, Ring
<1>3. next \in Nat /\ next + 1 \in Nat
  BY <1>1, <1>2
<1>4. (next + 1) % delta[p] \in 0 .. delta[p] - 1
  BY <1>1, <1>3, Ring
<1>5. SameLists
  BY SlotSet DEF PrepareNextFrame
<1> HIDE DEF next
<1>6. /\ current' = [current EXCEPT ![p] = next]
      /\ toPlay' = [toPlay EXCEPT ![p] = (next + 1) % delta[p]]
      /\ hooks' = [hooks EXCEPT ![p] = @ + 1]
      /\ UNCHANGED delta
  BY DEF PrepareNextFrame, next
<1>7. /\ delta' \in [Peers -> Deltas \cup {0}] /\ current' \in [Peers -> Nat]
      /\ hooks' \in [Peers -> Nat] /\ DOMAIN list' = Peers /\ DOMAIN toPlay' = Peers
  BY <1>3, <1>5, <1>6 DEF FrameTypes, SameLists
<1>8. ASSUME NEW q \in Peers, list'[q] # <<>>
      PROVE /\ delta'[q] \in Deltas
            /\ DOMAIN list'[q] = 0 .. delta'[q] - 1
            /\ current'[q] \in DOMAIN list'[q]
            /\ hooks'[q] > 0 => toPlay'[q] \in DOMAIN list'[q]
  <2>1. list[q] # <<>> /\ DOMAIN list'[q] = DOMAIN list[q] /\ delta'[q] = delta[q]
    BY <1>5, <1>6, <1>8 DEF SameLists
  <2>2. CASE q = p
    BY <1>2, <1>4, <1>6, <2>1, <2>2 DEF FrameTypes
  <2>3. CASE q # p
    BY <1>6, <2>1, <2>3 DEF FrameTypes
  <2> QED BY <2>2, <2>3
<1> QED BY <1>7, <1>8 DEF FrameTypes

\* The frame indices stay inside frame_event_list: only network_init_frame_event_list
\* changes its length, and it sets current_frame back.
LEMMA FrameTypesKept ==
  ASSUME StateTypes, WireTypes, FrameTypes, AtPlaces, [Next]_vars
  PROVE FrameTypes'
<1>1. ASSUME UNCHANGED <<frames, recorded, played, hooks, session>> PROVE FrameTypes'
  BY <1>1 DEF FrameTypes, frames
<1>2. ASSUME NEW p \in Peers, FrameMoves(p) PROVE FrameTypes'
  <2>1. CASE \E e \in Inputs : GiveInput(p, e)
    BY <2>1, ListsStay DEF GiveInput, FrameTypes, SameLists, histories
  <2>2. CASE RecordSyncTest(p)
    BY <2>2, ListsStay DEF RecordSyncTest, FrameTypes, SameLists, histories
  <2>3. CASE Hook(p) \/ HookSendFails(p) \/ ReceiveList(p)
    <3>1. list[p] # <<>>
      BY <2>3 DEF Hook, HookSendFails, ReceiveList, AtHook, AtPlaces
    <3>2. PrepareNextFrame(p) \/ UNCHANGED <<list, delta, current, toPlay, trap, hooks>>
      BY <2>3 DEF Hook, HookSendFails, ReceiveList
    <3>3. CASE UNCHANGED <<list, delta, current, toPlay, trap, hooks>>
      BY <3>3 DEF FrameTypes
    <3> QED BY <3>1, <3>2, <3>3, NextSlot
  <2>4. ASSUME NEW d \in Deltas, InitLists(p, d) PROVE FrameTypes'
    <3>1. GotLists(p, d)
      BY <2>4, NewLists
    <3>2. /\ delta' = [delta EXCEPT ![p] = d] /\ current' = [current EXCEPT ![p] = 0]
          /\ hooks' = [hooks EXCEPT ![p] = 0] /\ UNCHANGED toPlay
      BY <2>4 DEF InitLists
    <3> QED BY <3>1, <3>2 DEF FrameTypes, GotLists
  <2> QED BY <1>2, <2>1, <2>2, <2>3, <2>4 DEF FrameMoves
<1> QED BY <1>1, <1>2, FramesMove

\* What the histories of a peer may do in a step.
LEMMA HistoryTypesKept ==
  ASSUME WireTypes, HistoryTypes, [Next]_vars
  PROVE HistoryTypes'
<1>1. ASSUME UNCHANGED <<frames, recorded, played, hooks, session>> PROVE HistoryTypes'
  BY <1>1 DEF HistoryTypes
<1>2. ASSUME NEW p \in Peers, FrameMoves(p) PROVE HistoryTypes'
  <2>1. CASE \E e \in Inputs : GiveInput(p, e)
    BY <2>1 DEF GiveInput, HistoryTypes, histories
  <2>2. CASE RecordSyncTest(p)
    BY <2>2 DEF RecordSyncTest, HistoryTypes, histories
  <2>3. CASE Hook(p) \/ HookSendFails(p)
    <3>1. UNCHANGED played /\ \E x : recorded' = [recorded EXCEPT ![p] = Append(@, x)]
      BY <2>3 DEF Hook, HookSendFails, CloseFrame
    <3> QED BY <3>1, Sequence DEF HistoryTypes
  <2>4. CASE ReceiveList(p)
    <3>1. UNCHANGED recorded /\ \E x : played' = [played EXCEPT ![p] = Append(@, x)]
      BY <2>4 DEF ReceiveList
    <3> QED BY <3>1, Sequence DEF HistoryTypes
  <2>5. ASSUME NEW d \in Deltas, InitLists(p, d) PROVE HistoryTypes'
    BY <2>5, EmptySeq, SomeSeq DEF InitLists, HistoryTypes
  <2> QED BY <1>2, <2>1, <2>2, <2>3, <2>4, <2>5 DEF FrameMoves
<1> QED BY <1>1, <1>2, FramesMove

-----------------------------------------------------------------------------
(* The pace of the two peers. *)

\* Only a new connection mends a broken one.
LEMMA BrokenStays == ASSUME StateTypes, [Next]_vars PROVE broken /\ ~broken' => ConnectClient
<1> USE DEF Disconnect, CloseEnd, sockets
<1>1. CASE User
  BY <1>1 DEF User, StartServer, EnableClient, UserDisconnects, Suspend, Send, GiveInput
<1>2. CASE World
  BY <1>2 DEF World, Break, Diverge, LoseTrap
<1>3. CASE ServerHandshake
  BY <1>3 DEF ServerHandshake, Accept, ServerConnectTrap, ServerSnapshotFails, ServerStarts,
     Send
<1>4. CASE ClientHandshake
  BY <1>4 DEF ClientHandshake, Download, DownloadFails, ClientConnectTrap, LoadSnapshot,
     LoadFails,
              Test, ClientStarts, ClientStartsBlindly
<1>5. ASSUME NEW p \in Peers, Frame(p) PROVE broken /\ ~broken' => ConnectClient
  BY <1>5 DEF Frame, TestFails, RecordSyncTest, Hook, HookSendFails, ReceiveMarker, ReceiveList,
              ReceiveFailed, ReceiveBodyFailed, CrashWithoutLists, Send
<1>6. CASE UNCHANGED vars
  BY <1>6 DEF vars
<1> QED BY <1>1, <1>2, <1>3, <1>4, <1>5, <1>6 DEF Next

\* No step brings a peer into play but the one that gives it its lists.
LEMMA InPlay ==
  ASSUME StateTypes, WireTypes, AtPlaces, SessionsOrdered, NEW q \in Peers, Playing(q)',
         [Next]_vars
  PROVE  FrameMoves(q) \/ (Playing(q) /\ pc'[q] = pc[q])
<1> USE DEF Playing, Live, Plays, Starts, Peers, Goto, Mishap, UserActs, Running,
            AtBoundary, Disconnect, CloseEnd, Closed, StopsListening, CloseFrame,
            AtHook, SendFails, ReceiveFails, Arrived, sockets, frames, machines,
            histories, counters
<1>a. /\ session[q] <= sessions /\ session[q] \in Nat /\ sessions \in Nat
      /\ session'[q] = sessions' /\ ~broken' /\ sock'[q] = "open"
  BY DEF StateTypes
<1>b. Live(q) => ~Starts(q)
  BY DEF SessionsOrdered
<1>c. Live(q) /\ sock[q] = "open" => Plays(q) /\ Connected(q)
  BY DEF SessionsOrdered
<1>d. DOMAIN sock = Peers /\ DOMAIN pc = Peers /\ DOMAIN session = Peers
  BY DEF StateTypes
<1>e. session[q] # sessions + 1
  BY <1>a
<1>f. broken => ConnectClient
  BY <1>a, BrokenStays
<1>1. ASSUME NEW p \in Peers, StartServer(p)
       PROVE  FrameMoves(q) \/ (Playing(q) /\ pc'[q] = pc[q])
  BY <1>1, <1>a, <1>b, <1>c, <1>d, <1>f DEF StartServer
<1>2. CASE ConnectClient
  BY <1>2, <1>a, <1>e DEF ConnectClient
<1>3. ASSUME NEW p \in Peers, UserDisconnects(p)
       PROVE  FrameMoves(q) \/ (Playing(q) /\ pc'[q] = pc[q])
  BY <1>3, <1>a, <1>b, <1>c, <1>d, <1>f DEF UserDisconnects
<1>4. ASSUME NEW p \in Peers, Suspend(p)
       PROVE  FrameMoves(q) \/ (Playing(q) /\ pc'[q] = pc[q])
  BY <1>4, <1>a, <1>b, <1>c, <1>d, <1>f DEF Suspend
<1>5. ASSUME NEW p \in Peers, NEW e \in Inputs, GiveInput(p, e)
       PROVE  FrameMoves(q) \/ (Playing(q) /\ pc'[q] = pc[q])
  <2>1. CASE q = p
    BY <1>5, <2>1 DEF FrameMoves
  <2>2. CASE q # p
    BY <1>5, <1>a, <1>b, <1>c, <1>d, <1>f, <2>2 DEF GiveInput
  <2> QED BY <2>1, <2>2
<1>6. CASE Break
  BY <1>6, <1>a, <1>b, <1>c, <1>d, <1>f DEF Break
<1>7. ASSUME NEW p \in Peers, Diverge(p)
       PROVE  FrameMoves(q) \/ (Playing(q) /\ pc'[q] = pc[q])
  BY <1>7, <1>a, <1>b, <1>c, <1>d, <1>f DEF Diverge
<1>8. ASSUME NEW p \in Peers, LoseTrap(p)
       PROVE  FrameMoves(q) \/ (Playing(q) /\ pc'[q] = pc[q])
  BY <1>8, <1>a, <1>b, <1>c, <1>d, <1>f DEF LoseTrap
<1>9. CASE Accept
  BY <1>9, <1>a, <1>b, <1>c, <1>d, <1>f DEF Accept
<1>10. CASE ServerConnectTrap
  BY <1>10, <1>a, <1>b, <1>c, <1>d, <1>f DEF ServerConnectTrap
<1>11. CASE ServerSnapshotFails
  BY <1>11, <1>a, <1>b, <1>c, <1>d, <1>f DEF ServerSnapshotFails
<1>12. CASE ServerStarts
  <2>1. CASE FrameMoves(q)
    BY <2>1
  <2>2. CASE q # "server"
    BY <1>12, <1>a, <1>b, <1>c, <1>d, <1>f, <2>2 DEF ServerStarts, InitLists
  <2>3. FrameMoves("server")
    BY <1>12, Taking DEF ServerStarts, FrameMoves, WireTypes
  <2> QED BY <2>1, <2>2, <2>3
<1>13. CASE Download
  BY <1>13, <1>a, <1>b, <1>c, <1>d, <1>f DEF Download
<1>14. CASE DownloadFails
  BY <1>14, <1>a, <1>b, <1>c, <1>d, <1>f DEF DownloadFails
<1>15. CASE ClientConnectTrap
  BY <1>15, <1>a, <1>b, <1>c, <1>d, <1>f DEF ClientConnectTrap
<1>16. CASE LoadSnapshot
  BY <1>16, <1>a, <1>b, <1>c, <1>d, <1>f DEF LoadSnapshot
<1>17. CASE LoadFails
  BY <1>17, <1>a, <1>b, <1>c, <1>d, <1>f DEF LoadFails
<1>18. CASE Test
  BY <1>18, <1>a, <1>b, <1>c, <1>d, <1>f DEF Test
<1>19. CASE ClientStarts
  <2>1. CASE FrameMoves(q)
    BY <2>1
  <2>2. CASE q # "client"
    BY <1>19, <1>a, <1>b, <1>c, <1>d, <1>f, <2>2 DEF ClientStarts, InitLists
  <2>3. FrameMoves("client")
    BY <1>19, Taking DEF ClientStarts, FrameMoves, WireTypes
  <2> QED BY <2>1, <2>2, <2>3
<1>20. CASE ClientStartsBlindly
  <2>1. CASE FrameMoves(q)
    BY <2>1
  <2>2. CASE q # "client"
    BY <1>20, <1>a, <1>b, <1>c, <1>d, <1>f, <2>2 DEF ClientStartsBlindly, InitLists
  <2>3. FrameMoves("client")
    BY <1>20, Taking DEF ClientStartsBlindly, FrameMoves, WireTypes
  <2> QED BY <2>1, <2>2, <2>3
<1>21. ASSUME NEW p \in Peers, TestFails(p)
       PROVE  FrameMoves(q) \/ (Playing(q) /\ pc'[q] = pc[q])
  BY <1>21, <1>a, <1>b, <1>c, <1>d, <1>f DEF TestFails
<1>22. ASSUME NEW p \in Peers, RecordSyncTest(p)
       PROVE  FrameMoves(q) \/ (Playing(q) /\ pc'[q] = pc[q])
  <2>1. CASE q = p
    BY <1>22, <2>1 DEF FrameMoves
  <2>2. CASE q # p
    BY <1>22, <1>a, <1>b, <1>c, <1>d, <1>f, <2>2 DEF RecordSyncTest
  <2> QED BY <2>1, <2>2
<1>23. ASSUME NEW p \in Peers, Hook(p)
       PROVE  FrameMoves(q) \/ (Playing(q) /\ pc'[q] = pc[q])
  <2>1. CASE q = p
    BY <1>23, <2>1 DEF FrameMoves
  <2>2. CASE q # p
    BY <1>23, <1>a, <1>b, <1>c, <1>d, <1>f, <2>2 DEF Hook
  <2> QED BY <2>1, <2>2
<1>24. ASSUME NEW p \in Peers, HookSendFails(p)
       PROVE  FrameMoves(q) \/ (Playing(q) /\ pc'[q] = pc[q])
  <2>1. CASE q = p
    BY <1>24, <2>1 DEF FrameMoves
  <2>2. CASE q # p
    BY <1>24, <1>a, <1>b, <1>c, <1>d, <1>f, <2>2 DEF HookSendFails
  <2> QED BY <2>1, <2>2
<1>25. ASSUME NEW p \in Peers, ReceiveMarker(p)
       PROVE  FrameMoves(q) \/ (Playing(q) /\ pc'[q] = pc[q])
  BY <1>25, <1>a, <1>b, <1>c, <1>d, <1>f DEF ReceiveMarker
<1>26. ASSUME NEW p \in Peers, ReceiveList(p)
       PROVE  FrameMoves(q) \/ (Playing(q) /\ pc'[q] = pc[q])
  <2>1. CASE q = p
    BY <1>26, <2>1 DEF FrameMoves
  <2>2. CASE q # p
    BY <1>26, <1>a, <1>b, <1>c, <1>d, <1>f, <2>2 DEF ReceiveList
  <2> QED BY <2>1, <2>2
<1>27. ASSUME NEW p \in Peers, ReceiveFailed(p)
       PROVE  FrameMoves(q) \/ (Playing(q) /\ pc'[q] = pc[q])
  BY <1>27, <1>a, <1>b, <1>c, <1>d, <1>f DEF ReceiveFailed
<1>28. ASSUME NEW p \in Peers, ReceiveBodyFailed(p)
       PROVE  FrameMoves(q) \/ (Playing(q) /\ pc'[q] = pc[q])
  BY <1>28, <1>a, <1>b, <1>c, <1>d, <1>f DEF ReceiveBodyFailed
<1>29. ASSUME NEW p \in Peers, CrashWithoutLists(p)
       PROVE  FrameMoves(q) \/ (Playing(q) /\ pc'[q] = pc[q])
  BY <1>29, <1>a, <1>b, <1>c, <1>d, <1>f DEF CrashWithoutLists
<1>30. CASE UNCHANGED vars
  BY <1>30 DEF vars
<1> QED BY <1>1, <1>2, <1>3, <1>4, <1>5, <1>6, <1>7, <1>8, <1>9, <1>10, <1>11, <1>12,
         <1>13, <1>14, <1>15, <1>16, <1>17, <1>18, <1>19, <1>20, <1>21, <1>22,
         <1>23, <1>24, <1>25, <1>26, <1>27, <1>28, <1>29, <1>30
         DEF Next, User, EnableClient, World, ServerHandshake, ClientHandshake, Frame

\* What the others of these actions leave of a peer.
LEMMA NotOurs ==
  ASSUME HistoryTypes, StateTypes, FrameTypes, NEW p \in Peers, FrameMoves(p), NEW q \in
         Peers, q # p
  PROVE /\ full'[q] = full[q] /\ delta'[q] = delta[q] /\ current'[q] = current[q]
        /\ recorded'[q] = recorded[q] /\ played'[q] = played[q] /\ session'[q] = session[q]
<1> USE DEF HistoryTypes, StateTypes, FrameTypes, histories
<1>1. CASE \E e \in Inputs : GiveInput(p, e)
  BY <1>1 DEF GiveInput
<1>2. CASE RecordSyncTest(p)
  BY <1>2 DEF RecordSyncTest
<1>3. CASE Hook(p)
  BY <1>3 DEF Hook, CloseFrame, PrepareNextFrame
<1>4. CASE HookSendFails(p)
  BY <1>4 DEF HookSendFails, CloseFrame, PrepareNextFrame
<1>5. CASE ReceiveList(p)
  BY <1>5 DEF ReceiveList, PrepareNextFrame
<1>6. CASE \E d \in Deltas : InitLists(p, d)
  BY <1>6 DEF InitLists
<1> QED BY <1>1, <1>2, <1>3, <1>4, <1>5, <1>6 DEF FrameMoves

\* The number of connections changes only when there is a new one.
LEMMA SameConnection ==
  ASSUME NEW p \in Peers, FrameMoves(p) PROVE sessions' = sessions
BY DEF FrameMoves, GiveInput, RecordSyncTest, Hook, HookSendFails, ReceiveList, InitLists,
       counters, UserActs

\* A list sent: the buffer fills with the first delta of them, and the peer waits for
\* the other one's after that.
LEMMA HookPace ==
  ASSUME Types, AtPlaces, SessionsOrdered, NEW p \in Peers, Playing(p), OnPace(p), Hook(p),
         Playing(p)'
  PROVE OnPace(p)'
<1>1. /\ pc[p] = "run" /\ list[p] # <<>> /\ delta[p] \in Nat \ {0, 1}
      /\ current[p] \in 0 .. delta[p] - 1
      /\ Len(recorded[p]) \in Nat /\ Len(played[p]) \in Nat /\ full[p] \in BOOLEAN
  BY NetplayAssumption, Sequence DEF Hook, AtHook, AtBoundary, Running, Types, StateTypes,
     FrameTypes,
     HistoryTypes
<1>2. /\ Len(recorded'[p]) = Len(recorded[p]) + 1 /\ played' = played
      /\ full'[p] = Fills(p) /\ delta'[p] = delta[p]
  BY Sequence DEF Hook, CloseFrame, PrepareNextFrame, Types, StateTypes, HistoryTypes
<1>3. Read(p)' = Read(p) /\ Sent(p)' = Sent(p) + 1 /\ Sent(p) \in Nat /\ Read(p) \in Nat
  BY <1>1, <1>2 DEF Read, Sent, Playing, Live
<1>4. CASE Fills(p)
  <2>1. pc'[p] = "receive"
    BY <1>4 DEF Hook, Goto, Types, StateTypes
  <2>2. CASE full[p]
    BY <1>1, <1>2, <1>3, <1>4, <2>1, <2>2 DEF OnPace
  <2>3. CASE ~full[p]
    <3>1. current[p] = delta[p] - 1 /\ Sent(p) = current[p] /\ Read(p) = 0
      BY <1>1, <1>4, <2>3 DEF Fills, OnPace
    <3>2. full'[p] = TRUE
      BY <1>2, <1>4
    <3>3. Sent(p)' = Read(p)' + delta'[p]
      BY <1>1, <1>2, <1>3, <3>1
    <3> QED BY <2>1, <3>2, <3>3 DEF OnPace
  <2> QED BY <2>2, <2>3
<1>5. CASE ~Fills(p)
  <2>1. pc'[p] = "run" /\ ~full[p] /\ current[p] # delta[p] - 1
    BY <1>1, <1>5 DEF Hook, Fills
  <2>2. current'[p] = (current[p] + 1) % delta[p]
    BY <1>5 DEF Hook, PrepareNextFrame, Types, FrameTypes
  <2>3. current'[p] = current[p] + 1
    <3>1. current[p] + 1 \in Nat /\ current[p] + 1 < delta[p]
      BY <1>1, <2>1
    <3> QED BY <1>1, <2>2, <3>1, Ring
  <2> QED BY <1>1, <1>2, <1>3, <1>5, <2>1, <2>3 DEF OnPace
<1> QED BY <1>4, <1>5

\* A list read and played: the peer runs again.
LEMMA ReceivePace ==
  ASSUME Types, AtPlaces, SessionsOrdered, NEW p \in Peers, Playing(p), OnPace(p),
         ReceiveList(p), Playing(p)'
  PROVE OnPace(p)'
<1>1. /\ pc[p] = "receive" /\ list[p] # <<>> /\ delta[p] \in Nat \ {0, 1}
      /\ Len(recorded[p]) \in Nat /\ Len(played[p]) \in Nat /\ full[p] \in BOOLEAN
  BY NetplayAssumption, Sequence DEF ReceiveList, AtPlaces, Types, StateTypes, FrameTypes,
     HistoryTypes
<1>2. /\ Len(played'[p]) = Len(played[p]) + 1 /\ recorded' = recorded
      /\ full' = full /\ delta' = delta
  <2>1. \E x : played' = [played EXCEPT ![p] = Append(@, x)]
    BY DEF ReceiveList
  <2> QED BY <2>1, Sequence DEF ReceiveList, PrepareNextFrame, Types, HistoryTypes
<1>3. Read(p)' = Read(p) + 1 /\ Sent(p)' = Sent(p) /\ Sent(p) \in Nat /\ Read(p) \in Nat
  BY <1>1, <1>2 DEF Read, Sent, Playing, Live
<1>4. pc'[p] = "run"
  <2>1. Disconnect(p, "run", Tail(wire[p]) # <<>>) \/ Goto(p, "run")
    BY DEF ReceiveList
  <2>2. ~Disconnect(p, "run", Tail(wire[p]) # <<>>)
    BY DEF Disconnect, CloseEnd, Closed, Playing, Types, StateTypes
  <2> QED BY <2>1, <2>2 DEF Goto, Types, StateTypes
<1> QED BY <1>1, <1>2, <1>3, <1>4 DEF OnPace

\* The pace is kept by every step.
LEMMA PaceKept ==
  ASSUME Types, AtPlaces, SessionsOrdered, Pace, [Next]_vars
  PROVE Pace'
<1> SUFFICES ASSUME NEW q \in Peers, Playing(q)' PROVE OnPace(q)'
  BY DEF Pace
<1>1. Playing(q) => OnPace(q)
  BY DEF Pace
<1>2. CASE FrameMoves(q)
  <2>1. CASE \E e \in Inputs : GiveInput(q, e)
    BY <1>1, <2>1 DEF GiveInput, Playing, OnPace, Read, Sent, Live, sockets, UserActs, histories
  <2>2. CASE RecordSyncTest(q)
    BY <1>1, <2>2 DEF RecordSyncTest, Playing, OnPace, Read, Sent, Live, sockets, counters,
       histories
  <2>3. ASSUME Hook(q) \/ ReceiveList(q)
        PROVE Playing(q)
    <3>1. session' = session /\ sessions' = sessions
      BY <2>3 DEF Hook, ReceiveList, counters
    <3>2. ~broken
      <4>1. ~ConnectClient
        BY <3>1 DEF ConnectClient, Types, StateTypes
      <4> QED BY <4>1, BrokenStays DEF Types, Playing
    <3>3. sock[q] = "open"
      BY <2>3 DEF Hook, SendFails, ReceiveList, Arrived
    <3> QED BY <3>1, <3>2, <3>3 DEF Playing, Live
  <2>4. CASE Hook(q) \/ ReceiveList(q)
    <3>1. Playing(q) /\ OnPace(q)
      BY <1>1, <2>3, <2>4
    <3> QED BY <2>4, <3>1, HookPace, ReceivePace
  <2>5. CASE HookSendFails(q)
    BY <2>5 DEF HookSendFails, Disconnect, CloseEnd, Playing, Types, StateTypes, Closed
  <2>6. ASSUME NEW d \in Deltas, InitLists(q, d) PROVE OnPace(q)'
    <3>1. /\ pc'[q] = "run" /\ full'[q] = FALSE /\ current'[q] = 0
          /\ recorded'[q] = <<>> /\ played'[q] = <<>>
      BY <2>6 DEF InitLists, Goto, Types, StateTypes, FrameTypes, HistoryTypes
    <3>2. Read(q)' = 0 /\ Sent(q)' = 0
      BY <3>1 DEF Read, Sent
    <3> QED BY <3>1, <3>2 DEF OnPace
  <2> QED BY <1>2, <2>1, <2>2, <2>4, <2>5, <2>6 DEF FrameMoves
<1>3. CASE ~FrameMoves(q)
  <2>1. Playing(q) /\ pc'[q] = pc[q]
    BY <1>3, InPlay DEF Types
  <2>2. /\ full'[q] = full[q] /\ delta'[q] = delta[q] /\ current'[q] = current[q]
        /\ recorded'[q] = recorded[q] /\ played'[q] = played[q]
    <3>1. CASE UNCHANGED <<frames, recorded, played, hooks, session>>
      BY <3>1 DEF frames
    <3>2. ASSUME NEW p \in Peers, FrameMoves(p)
          PROVE /\ full'[q] = full[q] /\ delta'[q] = delta[q] /\ current'[q] = current[q]
                /\ recorded'[q] = recorded[q] /\ played'[q] = played[q]
      BY <1>3, <3>2, NotOurs DEF Types
    <3> QED BY <3>1, <3>2, FramesMove DEF Types
  <2> QED BY <1>1, <2>1, <2>2 DEF OnPace, Read, Sent, Playing, Live
<1> QED BY <1>2, <1>3

\* Nothing is sent over a connection before it is accepted.
LEMMA FreshKept ==
  ASSUME StateTypes, WireTypes, FrameTypes, AtPlaces, Fresh, [Next]_vars
  PROVE  Fresh'
<1> USE DEF StateTypes, WireTypes, Peers, Waits, AtPlaces, Fresh, Goto, Mishap,
            UserActs, Running, AtBoundary, Disconnect, CloseEnd, Closed, StopsListening,
            CloseFrame, AtHook, Fills, SendFails, ReceiveFails, Arrived, Connected,
            sockets, frames, machines, histories, counters, Send, InitLists, Take
<1>1. ASSUME NEW p \in Peers, StartServer(p) PROVE Fresh'
  BY <1>1, Others DEF StartServer
<1>2. CASE ConnectClient
  BY <1>2, Others DEF ConnectClient
<1>3. ASSUME NEW p \in Peers, UserDisconnects(p) PROVE Fresh'
  BY <1>3, Others DEF UserDisconnects
<1>4. ASSUME NEW p \in Peers, Suspend(p) PROVE Fresh'
  BY <1>4, Others DEF Suspend
<1>5. ASSUME NEW p \in Peers, NEW e \in Inputs, GiveInput(p, e) PROVE Fresh'
  BY <1>5, Others DEF GiveInput
<1>6. CASE Break
  BY <1>6, Others DEF Break
<1>7. ASSUME NEW p \in Peers, Diverge(p) PROVE Fresh'
  BY <1>7, Others DEF Diverge
<1>8. ASSUME NEW p \in Peers, LoseTrap(p) PROVE Fresh'
  BY <1>8, Others DEF LoseTrap
<1>9. CASE Accept
  BY <1>9, Others DEF Accept
<1>10. CASE ServerConnectTrap
  BY <1>10, Others DEF ServerConnectTrap
<1>11. CASE ServerSnapshotFails
  BY <1>11, Others DEF ServerSnapshotFails
<1>12. CASE ServerStarts
  BY <1>12, Others DEF ServerStarts
<1>13. CASE Download
  BY <1>13, Others DEF Download
<1>14. CASE DownloadFails
  BY <1>14, Others DEF DownloadFails
<1>15. CASE ClientConnectTrap
  BY <1>15, Others DEF ClientConnectTrap
<1>16. CASE LoadSnapshot
  BY <1>16, Others DEF LoadSnapshot
<1>17. CASE LoadFails
  BY <1>17, Others DEF LoadFails
<1>18. CASE Test
  BY <1>18, Others DEF Test
<1>19. CASE ClientStarts
  BY <1>19, Others DEF ClientStarts
<1>20. CASE ClientStartsBlindly
  BY <1>20, Others DEF ClientStartsBlindly
<1>21. ASSUME NEW p \in Peers, TestFails(p) PROVE Fresh'
  BY <1>21, Others DEF TestFails
<1>22. ASSUME NEW p \in Peers, RecordSyncTest(p) PROVE Fresh'
  BY <1>22, Others DEF RecordSyncTest
<1>23. ASSUME NEW p \in Peers, Hook(p) PROVE Fresh'
  BY <1>23, Others DEF Hook
<1>24. ASSUME NEW p \in Peers, HookSendFails(p) PROVE Fresh'
  BY <1>24, Others DEF HookSendFails
<1>25. ASSUME NEW p \in Peers, ReceiveMarker(p) PROVE Fresh'
  BY <1>25, Others DEF ReceiveMarker
<1>26. ASSUME NEW p \in Peers, ReceiveList(p) PROVE Fresh'
  <2>1. wire[p] # <<>> /\ (~broken' => ~broken) /\ (backlog' => backlog)
    BY <1>26 DEF ReceiveList
  <2> QED BY <2>1
<1>27. ASSUME NEW p \in Peers, ReceiveFailed(p) PROVE Fresh'
  BY <1>27, Others DEF ReceiveFailed
<1>28. ASSUME NEW p \in Peers, ReceiveBodyFailed(p) PROVE Fresh'
  BY <1>28, Others DEF ReceiveBodyFailed
<1>29. ASSUME NEW p \in Peers, CrashWithoutLists(p) PROVE Fresh'
  BY <1>29, Others DEF CrashWithoutLists
<1>30. CASE UNCHANGED vars
  BY <1>30 DEF vars
<1> QED BY <1>1, <1>2, <1>3, <1>4, <1>5, <1>6, <1>7, <1>8, <1>9, <1>10, <1>11, <1>12,
         <1>13, <1>14, <1>15, <1>16, <1>17, <1>18, <1>19, <1>20, <1>21, <1>22,
         <1>23, <1>24, <1>25, <1>26, <1>27, <1>28, <1>29, <1>30
         DEF Next, User, EnableClient, World, ServerHandshake, ClientHandshake, Frame

\* Messages that are not lists do not change the number of lists.
LEMMA NoListTaken ==
  ASSUME NEW w, Queue(w), w # <<>>, Head(w).kind # "list"
  PROVE Lists(Tail(w)) = Lists(w)
BY Taking

LEMMA NoListGiven ==
  ASSUME NEW w, Queue(w), NEW e, e.kind # "list", e.kind = "delta" => e.delta \in Deltas
  PROVE Lists(Append(w, e)) = Lists(w) /\ Lists(w \o <<e>>) = Lists(w)
<1>1. /\ Lists(w) \in Nat
      /\ Lists(Append(w, e)) = Lists(w) + (IF e.kind = "list" THEN 1 ELSE 0)
      /\ Lists(w \o <<e>>) = Lists(w) + (IF e.kind = "list" THEN 1 ELSE 0)
  BY Giving
<1> QED BY <1>1

\* A peer that gets its lists has neither sent nor played in this connection yet.
LEMMA NewCounts ==
  ASSUME HistoryTypes, StateTypes, Counts, NEW p \in Peers, \E d \in Deltas : InitLists(p, d),
         ~Live(p), ~broken' => ~broken, \A q \in Peers : Lists(wire'[q]) = Lists(wire[q])
  PROVE Counts'
<1>1. /\ session' = [session EXCEPT ![p] = sessions] /\ sessions' = sessions /\ sock' = sock
      /\ recorded' = [recorded EXCEPT ![p] = <<>>] /\ played' = [played EXCEPT ![p] = <<>>]
  BY DEF InitLists, counters
<1>2. \A q \in Peers : Read(q)' = Read(q) /\ Sent(q)' = Sent(q)
  BY <1>1 DEF Read, Sent, Live, StateTypes, HistoryTypes
<1>3. \A q \in Peers : Other(q) \in Peers
  BY Others DEF Peers
<1> QED BY <1>1, <1>2, <1>3 DEF Counts, Balance

\* Every list that is sent is on the way or read, by every step, until the connection
\* is reset.
LEMMA CountsKept ==
  ASSUME StateTypes, WireTypes, FrameTypes, HistoryTypes, AtPlaces, SessionsOrdered, Fresh,
         Counts, [Next]_vars
  PROVE  Counts'
<1> USE DEF StateTypes, WireTypes, Peers, Counts, Balance, Read, Sent, Live, Goto,
            Mishap, UserActs, Running, AtBoundary, Disconnect, CloseEnd, Closed,
            StopsListening, CloseFrame, AtHook, Fills, SendFails, ReceiveFails, Arrived,
            Connected, sockets, frames, machines, histories, counters
<1>a. Other("server") = "client" /\ Other("client") = "server"
  BY Others
<1>b. \A p \in Peers : Starts(p) => ~Live(p)
  BY DEF SessionsOrdered
<1>1. ASSUME NEW p \in Peers, StartServer(p) PROVE Counts'
  BY <1>1, <1>a DEF StartServer
<1>2. CASE ConnectClient
  <2>1. /\ wire' = [p \in Peers |-> <<>>] /\ sessions' = sessions + 1 /\ session' = session
    BY <1>2 DEF ConnectClient
  <2>2. \A q \in Peers : ~Live(q)' /\ Lists(wire'[q]) = 0
    BY <2>1, Nothing
  <2>3. \A q \in Peers : Read(q)' = 0 /\ Sent(q)' = 0
    BY <2>2
  <2> QED BY <1>a, <2>2, <2>3
<1>3. ASSUME NEW p \in Peers, UserDisconnects(p) PROVE Counts'
  BY <1>3, <1>a DEF UserDisconnects
<1>4. ASSUME NEW p \in Peers, Suspend(p) PROVE Counts'
  <2> DEFINE m == Message("marker")
  <2>1. wire' = wire \/ wire' = [wire EXCEPT ![Other(p)] = @ \o <<m>>]
    BY <1>4 DEF Suspend, Send
  <2>2. m.kind = "marker"
    BY DEF Message
  <2>3. (~broken' => ~broken) /\ UNCHANGED <<sock, session, sessions, played, recorded>>
    BY <1>4 DEF Suspend, Send
  <2> HIDE DEF m
  <2>4. Queue(wire[Other(p)]) /\ Other(p) \in Peers
    BY <1>a
  <2>5. Lists(wire[Other(p)] \o <<m>>) = Lists(wire[Other(p)])
    BY <2>2, <2>4, NoListGiven
  <2>6. \A q \in Peers : Lists(wire'[q]) = Lists(wire[q])
    BY <2>1, <2>4, <2>5
  <2> QED BY <1>a, <2>3, <2>6
<1>5. ASSUME NEW p \in Peers, NEW e \in Inputs, GiveInput(p, e) PROVE Counts'
  BY <1>5, <1>a DEF GiveInput
<1>6. CASE Break
  BY <1>6, <1>a DEF Break
<1>7. ASSUME NEW p \in Peers, Diverge(p) PROVE Counts'
  BY <1>7, <1>a DEF Diverge
<1>8. ASSUME NEW p \in Peers, LoseTrap(p) PROVE Counts'
  BY <1>8, <1>a DEF LoseTrap
<1>9. CASE Accept
  <2>1. ~broken => wire["server"] = <<>> /\ ~Live("client") /\ ~Live("server")
    BY <1>9 DEF Accept, Fresh, SessionsOrdered, Starts
  <2>2. Other("server") = "client"
    BY <1>a
  <2> QED BY <1>9, <1>a, <2>1, <2>2, Nothing DEF Accept
<1>10. CASE ServerConnectTrap
  <2> DEFINE t == <<Message("snapshot"), Message("settings"), Message("test")>>
  <2>1. wire' = wire \/ wire' = [wire EXCEPT !["client"] = @ \o t]
    BY <1>10, <1>a DEF ServerConnectTrap, Send
  <2>2. Lists(wire["client"] \o t) = Lists(wire["client"])
    BY GivingStart
  <2>3. (~broken' => ~broken) /\ UNCHANGED <<sock, session, sessions, played, recorded>>
    BY <1>10 DEF ServerConnectTrap, Send
  <2> HIDE DEF t
  <2>4. \A q \in Peers : Lists(wire'[q]) = Lists(wire[q])
    BY <2>1, <2>2
  <2> QED BY <1>a, <2>3, <2>4
<1>11. CASE ServerSnapshotFails
  BY <1>11, <1>a DEF ServerSnapshotFails
<1>12. CASE ServerStarts
  <2> DEFINE rest == [wire EXCEPT !["server"] = Tail(wire["server"])]
  <2>1. /\ wire["server"] # <<>> /\ Head(wire["server"]).kind = "echo"
        /\ pc["server"] = "echo" /\ (~broken' => ~broken)
    BY <1>12 DEF ServerStarts
  <2>2. \E d \in Deltas :
          wire' = rest \/ wire' = [rest EXCEPT !["client"] = Append(@, DeltaMessage(d))]
    BY <1>12 DEF ServerStarts
  <2>3. Lists(Tail(wire["server"])) = Lists(wire["server"])
    BY <2>1, Taking
  <2>4. \A d \in Deltas : Lists(Append(wire["client"], DeltaMessage(d))) = Lists(wire["client"])
    <3>1. \A d \in Deltas : DeltaMessage(d).kind = "delta" /\ DeltaMessage(d).delta = d
      BY DEF DeltaMessage, Message
    <3> QED BY <3>1, NoListGiven
  <2>5. \A q \in Peers : Lists(wire'[q]) = Lists(wire[q])
    BY <2>2, <2>3, <2>4
  <2>6. \E d \in Deltas : InitLists("server", d)
    BY <1>12 DEF ServerStarts
  <2> QED BY <1>b, <2>1, <2>5, <2>6, NewCounts DEF Starts
<1>13. CASE Download
  <2>1. \/ wire' = wire
        \/ /\ wire["client"] # <<>> /\ Head(wire["client"]).kind = "snapshot"
           /\ wire' = [wire EXCEPT !["client"] = Tail(@)]
    BY <1>13 DEF Download, Take
  <2>2. \A q \in Peers : Lists(wire'[q]) = Lists(wire[q])
    BY <2>1, NoListTaken
  <2> QED BY <1>13, <1>a, <2>2 DEF Download
<1>14. CASE DownloadFails
  BY <1>14, <1>a DEF DownloadFails
<1>15. CASE ClientConnectTrap
  BY <1>15, <1>a DEF ClientConnectTrap
<1>16. CASE LoadSnapshot
  <2>1. \/ wire' = wire
        \/ /\ wire["client"] # <<>> /\ Head(wire["client"]).kind = "settings"
           /\ wire' = [wire EXCEPT !["client"] = Tail(@)]
    BY <1>16 DEF LoadSnapshot, Take
  <2>2. \A q \in Peers : Lists(wire'[q]) = Lists(wire[q])
    BY <2>1, NoListTaken
  <2> QED BY <1>16, <1>a, <2>2 DEF LoadSnapshot
<1>17. CASE LoadFails
  <2>1. \/ wire' = wire
        \/ /\ wire["client"] # <<>> /\ Head(wire["client"]).kind = "settings"
           /\ wire' = [wire EXCEPT !["client"] = Tail(@)]
    BY <1>17 DEF LoadFails, Take
  <2>2. \A q \in Peers : Lists(wire'[q]) = Lists(wire[q])
    BY <2>1, NoListTaken
  <2> QED BY <1>17, <1>a, <2>2 DEF LoadFails
<1>18. CASE Test
  <2> DEFINE rest == [wire EXCEPT !["client"] = Tail(wire["client"])]
  <2>1. /\ wire["client"] # <<>> /\ Head(wire["client"]).kind = "test"
        /\ wire' = rest \/ wire' = [rest EXCEPT !["server"] = Append(@, Message("echo"))]
    BY <1>18 DEF Test
  <2>2. Lists(Tail(wire["client"])) = Lists(wire["client"])
    BY <2>1, Taking
  <2>3. Lists(Append(wire["server"], Message("echo"))) = Lists(wire["server"])
    <3>1. Message("echo").kind = "echo"
      BY DEF Message
    <3> QED BY <3>1, NoListGiven
  <2>4. (~broken' => ~broken) /\ UNCHANGED <<sock, session, sessions, played, recorded>>
    BY <1>18 DEF Test
  <2>5. \A q \in Peers : Lists(wire'[q]) = Lists(wire[q])
    BY <2>1, <2>2, <2>3
  <2> QED BY <1>a, <2>4, <2>5
<1>19. CASE ClientStarts
  <2>1. /\ wire["client"] # <<>> /\ Head(wire["client"]).kind = "delta"
        /\ wire' = [wire EXCEPT !["client"] = Tail(@)]
        /\ pc["client"] = "delta" /\ broken' = broken
    BY <1>19 DEF ClientStarts, Take
  <2>2. \A q \in Peers : Lists(wire'[q]) = Lists(wire[q])
    BY <2>1, NoListTaken
  <2>3. Head(wire["client"]).delta \in Deltas
    BY <2>1, Taking
  <2>4. \E d \in Deltas : InitLists("client", d)
    BY <1>19, <2>3 DEF ClientStarts
  <2> QED BY <1>b, <2>1, <2>2, <2>4, NewCounts DEF Starts
<1>20. CASE ClientStartsBlindly
  <2>1. broken' /\ pc["client"] = "delta"
    BY <1>20 DEF ClientStartsBlindly, AtPlaces, Waits
  <2> QED BY <2>1
<1>21. ASSUME NEW p \in Peers, TestFails(p) PROVE Counts'
  BY <1>21, <1>a DEF TestFails
<1>22. ASSUME NEW p \in Peers, RecordSyncTest(p) PROVE Counts'
  BY <1>22, <1>a DEF RecordSyncTest
<1>23. ASSUME NEW p \in Peers, Hook(p) PROVE Counts'
  <2> DEFINE m == ListMessage(list[p][current[p]])
  <2>1. \/ broken'
        \/ wire' = [wire EXCEPT ![Other(p)] = @ \o <<m>>] /\ broken' = broken
    BY <1>23 DEF Hook, Send
  <2>2. m.kind = "list"
    BY DEF ListMessage, Message
  <2>3. /\ UNCHANGED <<sock, session, sessions, played>> /\ ~broken
        /\ recorded' = [recorded EXCEPT ![p] = Append(@, typed[p])]
    BY <1>23 DEF Hook
  <2>4. Live(p)
    BY <1>23 DEF Hook, SessionsOrdered, Plays
  <2> HIDE DEF m
  <2>5. Queue(wire[Other(p)]) /\ Other(p) \in Peers /\ Other(p) # p
    BY <1>a
  <2>6. /\ Lists(wire[Other(p)] \o <<m>>) = Lists(wire[Other(p)]) + 1
        /\ Lists(wire[Other(p)]) \in Nat
    BY <2>2, <2>5, Giving
  <2>7. Len(recorded'[p]) = Len(recorded[p]) + 1 /\ Len(recorded[p]) \in Nat
        /\ recorded'[Other(p)] = recorded[Other(p)] /\ Len(played[Other(p)]) \in Nat
    BY <2>3, <2>5, Sequence DEF HistoryTypes
  <2>8. Sent(p)' = Sent(p) + 1 /\ Sent(Other(p))' = Sent(Other(p))
        /\ Read(p)' = Read(p) /\ Read(Other(p))' = Read(Other(p)) /\ Read(Other(p)) \in Nat
        /\ Sent(p) \in Nat
    BY <2>3, <2>4, <2>5, <2>7
  <2> HIDE DEF Read, Sent, Live
  <2>9. Other(Other(p)) = p /\ \A q \in Peers : q = p \/ q = Other(p)
    BY <1>a
  <2>10. CASE broken'
    BY <2>10
  <2>11. CASE wire' = [wire EXCEPT ![Other(p)] = @ \o <<m>>] /\ broken' = broken
    <3>1. /\ Lists(wire'[Other(p)]) = Lists(wire[Other(p)]) + 1
          /\ Lists(wire'[p]) = Lists(wire[p])
      BY <2>5, <2>6, <2>11
    <3>2. sock'[p] = "open" => Balance(p)'
      BY <2>3, <2>8, <2>11, <3>1
    <3>3. sock'[Other(p)] = "open" => Balance(Other(p))'
      <4>1. /\ Read(Other(p))' = Read(Other(p)) /\ Read(Other(p)) \in Nat
            /\ Lists(wire'[Other(p)]) = Lists(wire[Other(p)]) + 1
            /\ Lists(wire[Other(p)]) \in Nat /\ Sent(p)' = Sent(p) + 1
        BY <2>6, <2>8, <3>1
      <4>2. sock[Other(p)] = "open" => Balance(Other(p))
        BY <2>3, <2>5
      <4> QED BY <2>3, <2>9, <4>1, <4>2
    <3> QED BY <2>9, <3>2, <3>3
  <2> QED BY <2>1, <2>10, <2>11
<1>24. ASSUME NEW p \in Peers, HookSendFails(p) PROVE Counts'
  <2>1. broken'
    BY <1>24 DEF HookSendFails, AtPlaces
  <2> QED BY <2>1
<1>25. ASSUME NEW p \in Peers, ReceiveMarker(p) PROVE Counts'
  <2>1. \/ wire' = wire
        \/ /\ wire[p] # <<>> /\ Head(wire[p]).kind = "marker"
           /\ wire' = [wire EXCEPT ![p] = Tail(@)]
    BY <1>25 DEF ReceiveMarker, Take
  <2>2. \A q \in Peers : Lists(wire'[q]) = Lists(wire[q])
    BY <2>1, NoListTaken
  <2> QED BY <1>25, <1>a, <2>2 DEF ReceiveMarker
<1>26. ASSUME NEW p \in Peers, ReceiveList(p) PROVE Counts'
  <2>1. /\ wire[p] # <<>> /\ Head(wire[p]).kind = "list" /\ pc[p] = "receive"
        /\ UNCHANGED <<session, sessions, recorded>>
    BY <1>26 DEF ReceiveList
  <2>p. \E x : played' = [played EXCEPT ![p] = Append(@, x)]
    BY <1>26 DEF ReceiveList
  <2>b. broken => broken'
    BY <1>26 DEF ReceiveList
  <2>2. \/ sock' = sock /\ wire' = [wire EXCEPT ![p] = Tail(@)]
        \/ /\ sock' = [sock EXCEPT ![p] = Closed(@)] /\ Closed(sock[p]) # "open"
           /\ wire' = [wire EXCEPT ![p] = <<>>]
    BY <1>26 DEF ReceiveList, Take
  <2>3. Other(p) \in Peers /\ Other(p) # p /\ Other(Other(p)) = p
    BY <1>a
  <2>4. ~broken => Live(p)
    BY <2>1 DEF SessionsOrdered, Plays, AtPlaces
  <2>5. Lists(wire[p]) = Lists(Tail(wire[p])) + 1 /\ Lists(Tail(wire[p])) \in Nat
    BY <2>1, Taking
  <2>6. /\ Len(played'[p]) = Len(played[p]) + 1 /\ Len(played[p]) \in Nat
        /\ played'[Other(p)] = played[Other(p)] /\ wire'[Other(p)] = wire[Other(p)]
        /\ sock'[Other(p)] = sock[Other(p)]
    BY <2>2, <2>3, <2>p, Sequence DEF HistoryTypes
  <2>7. /\ \A q \in Peers : Sent(q)' = Sent(q)
        /\ Read(Other(p))' = Read(Other(p))
        /\ ~broken => Read(p)' = Read(p) + 1 /\ Read(p) \in Nat
    BY <2>1, <2>3, <2>4, <2>6
  <2> HIDE DEF Read, Sent, Live
  <2>8. ~broken' /\ sock'[p] = "open" => Balance(p)'
    <3> SUFFICES ASSUME ~broken', sock'[p] = "open" PROVE Balance(p)'
      OBVIOUS
    <3>1. ~broken /\ sock' = sock /\ wire'[p] = Tail(wire[p])
      BY <2>2, <2>b
    <3>2. Read(p) + Lists(wire[p]) = Sent(Other(p))
      BY <3>1
    <3> QED BY <2>3, <2>5, <2>7, <3>1, <3>2
  <2>9. ~broken' /\ sock'[Other(p)] = "open" => Balance(Other(p))'
    BY <2>3, <2>6, <2>7, <2>b
  <2> QED BY <1>a, <2>8, <2>9
<1>27. ASSUME NEW p \in Peers, ReceiveFailed(p) PROVE Counts'
  BY <1>27, <1>a DEF ReceiveFailed
<1>28. ASSUME NEW p \in Peers, ReceiveBodyFailed(p) PROVE Counts'
  BY <1>28, <1>a DEF ReceiveBodyFailed
<1>29. ASSUME NEW p \in Peers, CrashWithoutLists(p) PROVE Counts'
  BY <1>29, <1>a DEF CrashWithoutLists
<1>30. CASE UNCHANGED vars
  BY <1>30 DEF vars
<1> QED BY <1>1, <1>2, <1>3, <1>4, <1>5, <1>6, <1>7, <1>8, <1>9, <1>10, <1>11, <1>12,
         <1>13, <1>14, <1>15, <1>16, <1>17, <1>18, <1>19, <1>20, <1>21, <1>22,
         <1>23, <1>24, <1>25, <1>26, <1>27, <1>28, <1>29, <1>30
         DEF Next, User, EnableClient, World, ServerHandshake, ClientHandshake, Frame

-----------------------------------------------------------------------------
(* What is left when a peer closes its socket. *)

\* Who has read everything before it closes has itself sent what the other one
\* still has to read.
LEMMA LeavesList ==
  ASSUME Types, AtPlaces, SessionsOrdered, Pace, Counts, ~broken, NEW p \in Peers,
         pc[p] = "receive", sock[Other(p)] = "open",
         \/ pc[Other(p)] = "run" /\ Lists(wire[Other(p)]) = 0
         \/ pc[Other(p)] = "receive" /\ Lists(wire[Other(p)]) = 1
  PROVE Lists(wire[p]) >= 1
<1> DEFINE q == Other(p)
<1>1. q \in Peers /\ Other(q) = p
  BY Others DEF Peers
<1>2. Playing(p) /\ list[p] # <<>>
  BY DEF AtPlaces, Waits, SessionsOrdered, Plays, Playing
<1>3. delta[p] \in Nat \ {0, 1}
  BY <1>2, NetplayAssumption DEF Types, FrameTypes
<1>4. \A r \in Peers : Read(r) \in Nat /\ Sent(r) \in Nat
  BY Sequence DEF Types, HistoryTypes, Read, Sent
<1>5. Sent(p) = Read(p) + delta[p]
  BY <1>2 DEF Pace, OnPace
<1>6. Read(q) + Lists(wire[q]) = Sent(p) /\ Read(p) + Lists(wire[p]) = Sent(q)
  BY <1>1, <1>2 DEF Counts, Balance, Playing
<1>7. Read(q) > 0
  BY <1>1, <1>3, <1>4, <1>5, <1>6
<1>8. Playing(q) /\ list[q] # <<>>
  BY <1>1, <1>7 DEF Read, Playing, SessionsOrdered
<1>9. delta[q] \in Nat \ {0, 1} /\ full[q] \in BOOLEAN
  BY <1>1, <1>8, NetplayAssumption DEF Types, FrameTypes, StateTypes
<1>10. OnPace(q)
  BY <1>1, <1>8 DEF Pace
<1>11. Lists(wire[p]) \in Nat
  BY ListsType DEF Types, WireTypes, Queue
<1> HIDE DEF q
<1>12. CASE pc[q] = "run" /\ Lists(wire[q]) = 0
  <2>1. full[q]
    BY <1>7, <1>9, <1>10, <1>12 DEF OnPace
  <2>2. Sent(q) = Read(q) + delta[q] - 1
    BY <1>10, <1>12, <2>1 DEF OnPace
  <2> QED BY <1>1, <1>3, <1>4, <1>5, <1>6, <1>9, <1>11, <1>12, <2>2
<1>13. CASE pc[q] = "receive" /\ Lists(wire[q]) = 1
  <2>1. Sent(q) = Read(q) + delta[q]
    BY <1>10, <1>13 DEF OnPace
  <2> QED BY <1>1, <1>3, <1>4, <1>5, <1>6, <1>9, <1>11, <1>13, <2>1
<1> QED BY <1>12, <1>13 DEF q

\* So closing a socket keeps ListLeft.
LEMMA CloseLeaves ==
  ASSUME Types, AtPlaces, SessionsOrdered, Pace, Counts, ListLeft, NEW p \in Peers,
         sock'[p] # "open", pc'[p] # "receive",
         \A q \in Peers \ {p} : sock'[q] = sock[q] /\ pc'[q] = pc[q] /\ wire'[q] = wire[q],
         ~broken' => /\ ~broken
                     /\ \/ sock[p] # "open"
                        \/ pc[p] = "run" /\ Lists(wire[p]) = 0
                        \/ pc[p] = "receive" /\ Lists(wire[p]) = 1
  PROVE ListLeft'
<1>1. Other(p) \in Peers \ {p} /\ Other(Other(p)) = p /\ \A q \in Peers : q = p \/ q = Other(p)
  BY Others DEF Peers
<1>2. pc[Other(p)] = "receive" /\ ~broken' => Lists(wire[Other(p)]) >= 1
  BY <1>1, LeavesList DEF ListLeft
<1> QED BY <1>1, <1>2 DEF ListLeft

\* A peer that waits for one that has closed has a list to read, by every step.
LEMMA ListLeftKept ==
  ASSUME StateTypes, WireTypes, Types, AtPlaces, SessionsOrdered, Pace, Counts, ListLeft,
         [Next]_vars
  PROVE  ListLeft'
<1> USE DEF StateTypes, WireTypes, Peers, Waits, ListLeft, Goto, Mishap, UserActs,
            Running, AtBoundary, Disconnect, CloseEnd, Closed, StopsListening,
            CloseFrame, AtHook, Fills, SendFails, ReceiveFails, Arrived, Connected,
            sockets, frames, machines, histories, counters
<1>a. Other("server") = "client" /\ Other("client") = "server"
  BY Others
<1>b. /\ pc["client"] \in {"download", "test", "delta", "receive"} => sock["client"] = "open"
      /\ pc["server"] \in {"echo", "receive"} => sock["server"] = "open"
  BY DEF AtPlaces
<1>1. ASSUME NEW p \in Peers, StartServer(p) PROVE ListLeft'
  BY <1>1, <1>a, <1>b DEF StartServer
<1>2. CASE ConnectClient
  BY <1>2, <1>a, <1>b DEF ConnectClient
<1>3. ASSUME NEW p \in Peers, UserDisconnects(p) PROVE ListLeft'
  <2>1. /\ pc[p] = "run" /\ pc' = [pc EXCEPT ![p] = pc'[p]] /\ pc'[p] \in {"run", "aborted"}
        /\ wire' = [wire EXCEPT ![p] = <<>>] /\ sock' = [sock EXCEPT ![p] = Closed(@)]
        /\ (~broken' => ~broken /\ wire[p] = <<>>)
    BY <1>3 DEF UserDisconnects, DropsBacklog
  <2>2. \A q \in Peers \ {p} : sock'[q] = sock[q] /\ pc'[q] = pc[q] /\ wire'[q] = wire[q]
    BY <2>1
  <2>3. sock'[p] # "open" /\ pc'[p] # "receive"
    BY <2>1 DEF Closed
  <2> HIDE DEF ListLeft, StateTypes, WireTypes
  <2> QED BY <2>1, <2>2, <2>3, CloseLeaves, Nothing
<1>4. ASSUME NEW p \in Peers, Suspend(p) PROVE ListLeft'
  BY <1>4, <1>a, <1>b DEF Suspend
<1>5. ASSUME NEW p \in Peers, NEW e \in Inputs, GiveInput(p, e) PROVE ListLeft'
  BY <1>5, <1>a, <1>b DEF GiveInput
<1>6. CASE Break
  BY <1>6, <1>a, <1>b DEF Break
<1>7. ASSUME NEW p \in Peers, Diverge(p) PROVE ListLeft'
  BY <1>7, <1>a, <1>b DEF Diverge
<1>8. ASSUME NEW p \in Peers, LoseTrap(p) PROVE ListLeft'
  BY <1>8, <1>a, <1>b DEF LoseTrap
<1>9. CASE Accept
  BY <1>9, <1>a, <1>b DEF Accept
<1>10. CASE ServerConnectTrap
  BY <1>10, <1>a, <1>b DEF ServerConnectTrap
<1>11. CASE ServerSnapshotFails
  BY <1>11, <1>a, <1>b DEF ServerSnapshotFails
<1>12. CASE ServerStarts
  <2>1. /\ pc' = [pc EXCEPT !["server"] = "run"] /\ UNCHANGED sock
        /\ pc["server"] = "echo"
    BY <1>12 DEF ServerStarts, InitLists
  <2> QED BY <1>a, <1>b, <2>1
<1>13. CASE Download
  BY <1>13, <1>a, <1>b DEF Download
<1>14. CASE DownloadFails
  BY <1>14, <1>a, <1>b DEF DownloadFails
<1>15. CASE ClientConnectTrap
  BY <1>15, <1>a, <1>b DEF ClientConnectTrap
<1>16. CASE LoadSnapshot
  BY <1>16, <1>a, <1>b DEF LoadSnapshot
<1>17. CASE LoadFails
  BY <1>17, <1>a, <1>b DEF LoadFails
<1>18. CASE Test
  BY <1>18, <1>a, <1>b DEF Test
<1>19. CASE ClientStarts
  <2>1. /\ pc' = [pc EXCEPT !["client"] = "run"] /\ UNCHANGED <<sock, broken>>
        /\ wire'["server"] = wire["server"]
    BY <1>19 DEF ClientStarts, Take, InitLists
  <2> QED BY <1>a, <2>1
<1>20. CASE ClientStartsBlindly
  BY <1>20, <1>a, <1>b DEF ClientStartsBlindly
<1>21. ASSUME NEW p \in Peers, TestFails(p) PROVE ListLeft'
  BY <1>21, <1>a, <1>b DEF TestFails
<1>22. ASSUME NEW p \in Peers, RecordSyncTest(p) PROVE ListLeft'
  BY <1>22, <1>a, <1>b DEF RecordSyncTest
<1>23. ASSUME NEW p \in Peers, Hook(p) PROVE ListLeft'
  <2>1. \/ broken'
        \/ sock[Other(p)] = "open" /\ wire'[p] = wire[p]
    <3>1. Send(p, <<ListMessage(list[p][current[p]])>>)
      BY <1>23 DEF Hook
    <3>2. CASE sock[Other(p)] = "open"
      BY <1>a, <3>1, <3>2 DEF Send
    <3>3. CASE sock[Other(p)] # "open"
      BY <3>1, <3>3 DEF Send
    <3> QED BY <3>2, <3>3
  <2>2. sock[p] = "open" /\ UNCHANGED sock
    BY <1>23 DEF Hook
  <2>3. \A q \in Peers : q = p \/ q = Other(p)
    BY <1>a
  <2>4. Other(Other(p)) = p /\ Other(p) \in Peers
    BY <1>a
  <2>5. pc'[Other(p)] = pc[Other(p)] /\ (~broken' => ~broken)
    BY <1>23, <1>a DEF Hook, PrepareNextFrame, Send
  <2>6. ~broken' /\ pc'[Other(p)] = "receive" => sock[p] = "open"
    BY <2>2
  <2> QED BY <2>1, <2>2, <2>3, <2>4, <2>5
<1>24. ASSUME NEW p \in Peers, HookSendFails(p) PROVE ListLeft'
  <2>1. broken'
    BY <1>24 DEF HookSendFails, AtPlaces
  <2> QED BY <2>1
<1>25. ASSUME NEW p \in Peers, ReceiveMarker(p) PROVE ListLeft'
  <2>1. /\ wire[p] # <<>> /\ Head(wire[p]).kind # "list"
        /\ wire' = [wire EXCEPT ![p] = Tail(@)] /\ UNCHANGED <<pc, sock, broken>>
    BY <1>25 DEF ReceiveMarker, Take
  <2>2. \A q \in Peers : Lists(wire'[q]) = Lists(wire[q])
    BY <2>1, NoListTaken
  <2> QED BY <1>a, <2>1, <2>2
<1>26. ASSUME NEW p \in Peers, ReceiveList(p) PROVE ListLeft'
  <2>1. /\ wire[p] # <<>> /\ Head(wire[p]).kind = "list" /\ pc[p] = "receive"
    BY <1>26 DEF ReceiveList
  <2>2. Lists(wire[p]) = Lists(Tail(wire[p])) + 1
    BY <2>1, Taking
  <2>3. \/ /\ Disconnect(p, "run", Tail(wire[p]) # <<>>)
        \/ /\ Take(p) /\ pc' = [pc EXCEPT ![p] = "run"] /\ UNCHANGED <<sock, broken>>
    BY <1>26 DEF ReceiveList
  <2>4. CASE Disconnect(p, "run", Tail(wire[p]) # <<>>)
    <3>1. /\ pc' = [pc EXCEPT ![p] = pc'[p]] /\ pc'[p] \in {"run", "aborted"}
          /\ wire' = [wire EXCEPT ![p] = <<>>] /\ sock' = [sock EXCEPT ![p] = Closed(@)]
          /\ (~broken' => ~broken /\ Tail(wire[p]) = <<>>)
      BY <2>4 DEF DropsBacklog
    <3>2. \A q \in Peers \ {p} : sock'[q] = sock[q] /\ pc'[q] = pc[q] /\ wire'[q] = wire[q]
      BY <3>1
    <3>3. sock'[p] # "open" /\ pc'[p] # "receive"
      BY <3>1
    <3>4. ~broken' => Lists(wire[p]) = 1
      <4>1. ASSUME Tail(wire[p]) = <<>> PROVE Lists(Tail(wire[p])) = 0
        BY <4>1, ListsNone
      <4> QED BY <2>2, <3>1, <4>1
    <3> HIDE DEF ListLeft, StateTypes, WireTypes
    <3> QED BY <2>1, <3>1, <3>2, <3>3, <3>4, CloseLeaves
  <2>5. CASE Take(p) /\ pc' = [pc EXCEPT ![p] = "run"] /\ UNCHANGED <<sock, broken>>
    BY <1>a, <2>5 DEF Take
  <2> QED BY <2>3, <2>4, <2>5
<1>27. ASSUME NEW p \in Peers, ReceiveFailed(p) PROVE ListLeft'
  BY <1>27, <1>a, <1>b DEF ReceiveFailed
<1>28. ASSUME NEW p \in Peers, ReceiveBodyFailed(p) PROVE ListLeft'
  BY <1>28, <1>a, <1>b DEF ReceiveBodyFailed
<1>29. ASSUME NEW p \in Peers, CrashWithoutLists(p) PROVE ListLeft'
  <2>1. broken
    BY <1>29 DEF CrashWithoutLists, AtPlaces, SessionsOrdered, Plays
  <2>2. broken'
    BY <1>29, <2>1 DEF CrashWithoutLists
  <2> QED BY <2>2
<1>30. CASE UNCHANGED vars
  BY <1>30 DEF vars
<1> QED BY <1>1, <1>2, <1>3, <1>4, <1>5, <1>6, <1>7, <1>8, <1>9, <1>10, <1>11, <1>12,
         <1>13, <1>14, <1>15, <1>16, <1>17, <1>18, <1>19, <1>20, <1>21, <1>22,
         <1>23, <1>24, <1>25, <1>26, <1>27, <1>28, <1>29, <1>30
         DEF Next, User, EnableClient, World, ServerHandshake, ClientHandshake, Frame

-----------------------------------------------------------------------------
(* The theorems. *)

\* The invariant holds at the start ...
LEMMA InitSafe == Init => IInv
<1> SUFFICES ASSUME Init PROVE IInv
  OBVIOUS
<1>1. StateTypes
  <2>1. 0 \in Nat /\ 0 <= 0
    OBVIOUS
  <2>2. /\ {"idle"} \subseteq Modes /\ {"run"} \subseteq Places /\ {"none"} \subseteq Sockets
    BY DEF Modes, Places, Sockets
  <2>3. /\ mode \in [Peers -> Modes] /\ pc \in [Peers -> Places]
        /\ sock \in [Peers -> Sockets] /\ listening \in [Peers -> Sockets]
        /\ backlog \in BOOLEAN /\ broken \in BOOLEAN
        /\ trap \in [Peers -> {"none", "connect", "sync"}]
    BY <2>2 DEF Init
  <2>4. /\ full \in [Peers -> BOOLEAN] /\ suspended \in [Peers -> BOOLEAN]
        /\ drift \in [Peers -> BOOLEAN] /\ syncLost \in [Peers -> BOOLEAN]
    BY DEF Init
  <2>5. /\ sessions \in Nat /\ session \in [Peers -> Nat]
        /\ \A p \in Peers : session[p] <= sessions
    BY <2>1 DEF Init
  <2> QED BY <2>3, <2>4, <2>5 DEF StateTypes
<1>2. WireTypes
  BY Nothing DEF Init, WireTypes
<1>3. FrameTypes
  BY DEF Init, FrameTypes
<1>4. HistoryTypes
  BY Nothing DEF Init, HistoryTypes, Queue
<1>5. AtPlaces
  BY DEF Init, AtPlaces, Connected, Waits
<1>6. SessionsOrdered
  BY DEF Init, SessionsOrdered, Starts, Live, Plays, Connected, Peers
<1>7. Pace /\ Fresh /\ Counts /\ ListLeft
  BY DEF Init, Pace, Playing, Fresh, Counts, ListLeft, Peers
<1> QED BY <1>1, <1>2, <1>3, <1>4, <1>5, <1>6, <1>7 DEF IInv, Types, Phases

\* ... and every step keeps it.
LEMMA NextSafe == IInv /\ [Next]_vars => IInv'
<1> SUFFICES ASSUME IInv, [Next]_vars PROVE IInv'
  OBVIOUS
<1>1. /\ StateTypes /\ WireTypes /\ FrameTypes /\ HistoryTypes /\ Types
      /\ AtPlaces /\ SessionsOrdered /\ Pace /\ Fresh /\ Counts /\ ListLeft
  BY DEF IInv, Types, Phases
<1>2. Types'
  BY <1>1, StateTypesKept, WireTypesKept, FrameTypesKept, HistoryTypesKept DEF Types
<1>3. Phases'
  BY <1>1, AtPlacesKept, SessionsOrderedKept DEF Phases
<1>4. Pace'
  BY <1>1, PaceKept
<1>5. Fresh'
  BY <1>1, FreshKept
<1>6. Counts'
  BY <1>1, CountsKept
<1>7. ListLeft'
  BY <1>1, ListLeftKept
<1> QED BY <1>2, <1>3, <1>4, <1>5, <1>6, <1>7 DEF IInv

\* The invariant holds in every run of two peers, over any number of connections
\* that are made, broken and made again.
THEOREM NetplayInvariant == Spec => []IInv
BY InitSafe, NextSafe, PTL DEF Spec

\* The types; in particular current_frame and frame_to_play index frame_event_list.
THEOREM TypeCorrect == Spec => []TypeOK
<1>1. IInv => TypeOK
  BY DEF IInv, Types, StateTypes, FrameTypes, TypeOK
<1> QED BY <1>1, NetplayInvariant, PTL

\* A peer that waits in network_recv_buffer for one that has closed its socket has
\* something to read or an error to get: it does not wait for ever.
THEOREM HangUpIsNoticed == Spec => []HangUpNoticed
<1>1. IInv => HangUpNoticed
  <2> SUFFICES ASSUME IInv, NEW p \in Peers, pc[p] = "receive", sock[Other(p)] # "open", ~broken
               PROVE  wire[p] # <<>>
    BY DEF HangUpNoticed
  <2>1. Lists(wire[p]) >= 1
    BY DEF IInv, ListLeft
  <2>2. IsSeq(wire[p])
    BY DEF IInv, Types, WireTypes, Queue
  <2> QED BY <2>1, <2>2, ListsType
<1> QED BY <1>1, NetplayInvariant, PTL

\* No list is lost, repeated or left over from an earlier connection: what a peer has
\* read in this one and what is on the way to it is what the other one has sent.
THEOREM NoListLost == Spec => []Counts
<1>1. IInv => Counts
  BY DEF IInv
<1> QED BY <1>1, NetplayInvariant, PTL

\* network_hook_connected_receive waits only with a full buffer, frame_delta lists ahead
\* of what it has played, and a machine runs frame_delta - 1 lists ahead.
THEOREM FramesInPace == Spec => []Pace
<1>1. IInv => Pace
  BY DEF IInv
<1> QED BY <1>1, NetplayInvariant, PTL

\* Two peers that both wait for a list, while the connection stands.
BothWait == ~broken /\ \A p \in Peers : pc[p] = "receive"

\* Two peers never wait for each other: a list is on the way to one of them.
THEOREM NotBothStarve == Spec => [](BothWait => \E p \in Peers : Lists(wire[p]) >= 1)
<1>1. IInv /\ BothWait => \E p \in Peers : Lists(wire[p]) >= 1
  <2> SUFFICES ASSUME IInv, BothWait PROVE \E p \in Peers : Lists(wire[p]) >= 1
    OBVIOUS
  <2> DEFINE s == "server"
             c == "client"
  <2>1. s \in Peers /\ c \in Peers /\ Other(s) = c /\ Other(c) = s
    BY Others DEF Peers
  <2>2. ASSUME NEW p \in Peers
        PROVE  /\ Read(p) \in Nat /\ Sent(p) = Read(p) + delta[p] /\ delta[p] \in Nat \ {0, 1}
               /\ Read(p) + Lists(wire[p]) = Sent(Other(p)) /\ Lists(wire[p]) \in Nat
    <3>1. sock[p] = "open" /\ Connected(p) /\ list[p] # <<>>
      BY DEF IInv, Phases, AtPlaces, Waits, BothWait
    <3>2. Playing(p) /\ OnPace(p)
      BY <3>1 DEF IInv, Phases, SessionsOrdered, Plays, BothWait, Playing, Pace
    <3>3. Read(p) \in Nat
      BY Sequence DEF IInv, Types, HistoryTypes, Read
    <3>4. delta[p] \in Nat \ {0, 1}
      BY <3>1, NetplayAssumption DEF IInv, Types, FrameTypes
    <3>5. Lists(wire[p]) \in Nat
      BY ListsType DEF IInv, Types, WireTypes, Queue
    <3>6. Read(p) + Lists(wire[p]) = Sent(Other(p))
      BY <3>1 DEF IInv, Counts, Balance, BothWait
    <3> QED BY <3>2, <3>3, <3>4, <3>5, <3>6 DEF OnPace, BothWait
  <2>3. Lists(wire[s]) + Lists(wire[c]) = delta[s] + delta[c]
    <3> HIDE DEF s, c
    <3> QED BY <2>1, <2>2
  <2> QED BY <2>1, <2>2, <2>3
<1> QED BY <1>1, NetplayInvariant, PTL

-----------------------------------------------------------------------------
(* What is played of a list. *)

\* What holds of 0 and goes from each number to the next holds of all.
LEMMA Induction ==
  ASSUME NEW T, 0 \in T, \A n \in Nat : n \in T => n + 1 \in T
  PROVE  Nat \subseteq T
<1> DEFINE R == OpToRel(<, Nat)
<1>1. IsWellFoundedOn(R, Nat)
  BY NatLessThanWellFounded
<1>2. \A x, y \in Nat : <<x, y>> \in R <=> x < y
  BY DEF OpToRel
<1> HIDE DEF R
<1> SUFFICES ASSUME Nat \ T # {} PROVE FALSE
  OBVIOUS
<1>3. PICK x \in Nat \ T : \A y \in Nat \ T : ~ (<<y, x>> \in R)
  BY <1>1, WFMin
<1>4. x # 0 /\ x - 1 \in Nat /\ x - 1 < x /\ (x - 1) + 1 = x
  OBVIOUS
<1>5. x - 1 \in T
  BY <1>2, <1>3, <1>4
<1> QED BY <1>3, <1>4, <1>5

\* The function that Playback chooses: what is played of the first i events.
PlaysUpTo(s, m, f) ==
  f = [i \in 0 .. m |->
         IF i = 0 THEN <<>>
         ELSE IF s[i].what = "sync" THEN f[i - 1] ELSE Append(f[i - 1], s[i])]
PlaysOne(s, i, x) == IF s[i].what = "sync" THEN x ELSE Append(x, s[i])

\* Event by event.
LEMMA PlaysUpToIs ==
  ASSUME NEW s, NEW m \in Nat, NEW f, PlaysUpTo(s, m, f)
  PROVE  f[0] = <<>> /\ \A i \in 1 .. m : f[i] = PlaysOne(s, i, f[i - 1])
<1> DEFINE F == [i \in 0 .. m |->
         IF i = 0 THEN <<>>
         ELSE IF s[i].what = "sync" THEN f[i - 1] ELSE Append(f[i - 1], s[i])]
<1>1. f = F
  BY DEF PlaysUpTo
<1>2. F[0] = <<>> /\ \A i \in 1 .. m : F[i] = PlaysOne(s, i, f[i - 1])
  BY DEF PlaysOne
<1> HIDE DEF F
<1> QED BY <1>1, <1>2

\* There is one.
LEMMA PlaysUpToExists ==
  ASSUME NEW s, NEW m \in Nat
  PROVE  \E f : PlaysUpTo(s, m, f)
<1> DEFINE T == {n \in Nat : \E f : PlaysUpTo(s, n, f)}
<1>1. 0 \in T
  <2>1. PlaysUpTo(s, 0, [i \in 0 .. 0 |-> <<>>])
    BY DEF PlaysUpTo
  <2> QED BY <2>1
<1>2. ASSUME NEW n \in Nat, n \in T PROVE n + 1 \in T
  <2>1. PICK f : PlaysUpTo(s, n, f)
    BY <1>2
  <2> DEFINE g == [i \in 0 .. n + 1 |-> IF i = n + 1 THEN PlaysOne(s, i, f[n]) ELSE f[i]]
  <2>2. f[0] = <<>> /\ \A i \in 1 .. n : f[i] = PlaysOne(s, i, f[i - 1])
    BY <2>1, PlaysUpToIs
  <2>3. \A i \in 0 .. n + 1 : i = 0 \/ i \in 1 .. n \/ i = n + 1
    OBVIOUS
  <2>4. \A i \in 1 .. n : i - 1 \in 0 .. n /\ i - 1 # n + 1 /\ i # 0 /\ i # n + 1
    OBVIOUS
  <2>5. (n + 1) - 1 = n /\ n # n + 1 /\ n \in 0 .. n + 1 /\ 0 # n + 1
    OBVIOUS
  <2>6. \A i \in 0 .. n + 1 : g[i] = IF i = 0 THEN <<>> ELSE PlaysOne(s, i, g[i - 1])
    BY <2>2, <2>3, <2>4, <2>5
  <2>7. g = [i \in 0 .. n + 1 |-> IF i = 0 THEN <<>> ELSE PlaysOne(s, i, g[i - 1])]
    <3>1. g = [i \in 0 .. n + 1 |-> g[i]]
      OBVIOUS
    <3> HIDE DEF g
    <3> QED BY <2>6, <3>1
  <2> HIDE DEF g
  <2>8. PlaysUpTo(s, n + 1, g)
    BY <2>7 DEF PlaysUpTo, PlaysOne
  <2> QED BY <2>8
<1> HIDE DEF T
<1>3. m \in T
  BY <1>1, <1>2, Induction
<1> QED BY <1>3 DEF T

\* Playback takes its last value.
LEMMA PlaybackIs ==
  ASSUME NEW s, Len(s) \in Nat
  PROVE  \E f : PlaysUpTo(s, Len(s), f) /\ Playback(s) = f[Len(s)]
<1> DEFINE H == CHOOSE f : PlaysUpTo(s, Len(s), f)
<1>1. PlaysUpTo(s, Len(s), H)
  BY PlaysUpToExists, Zenon
<1>2. Playback(s) = H[Len(s)]
  BY DEF Playback, PlaysUpTo
<1> HIDE DEF H
<1> QED BY <1>1, <1>2

\* Nothing of an empty list; of one event more, that event unless it is a sync test.
LEMMA PlaybackNothing == Playback(<<>>) = <<>>
<1>1. Len(<<>>) = 0
  OBVIOUS
<1>2. PICK f : PlaysUpTo(<<>>, 0, f) /\ Playback(<<>>) = f[0]
  BY <1>1, PlaybackIs
<1> QED BY <1>2, PlaysUpToIs

\* What one more event adds.
LEMMA PlaybackMore ==
  ASSUME NEW s, IsSeq(s), NEW e
  PROVE  Playback(Append(s, e)) =
           IF e.what = "sync" THEN Playback(s) ELSE Append(Playback(s), e)
<1> DEFINE t == Append(s, e)
           n == Len(s)
<1>1. n \in Nat /\ n + 1 \in Nat /\ Len(t) = n + 1
  BY Sequence
<1>2. t[n + 1] = e /\ \A i \in 1 .. n : t[i] = s[i]
  <2> DEFINE R == Range(s) \cup {e}
  <2>1. s \in Seq(R) /\ e \in R
    BY SeqMonotonic DEF IsSeq
  <2> QED BY <2>1, AppendProperties
<1> HIDE DEF t, n
<1>3. PICK f : PlaysUpTo(s, n, f) /\ Playback(s) = f[n]
  BY <1>1, PlaybackIs DEF n
<1>4. PICK g : PlaysUpTo(t, n + 1, g) /\ Playback(t) = g[n + 1]
  BY <1>1, PlaybackIs
<1>5. f[0] = <<>> /\ \A i \in 1 .. n : f[i] = PlaysOne(s, i, f[i - 1])
  BY <1>1, <1>3, PlaysUpToIs
<1>6. g[0] = <<>> /\ \A i \in 1 .. n + 1 : g[i] = PlaysOne(t, i, g[i - 1])
  BY <1>1, <1>4, PlaysUpToIs
<1>7. \A i \in 1 .. n : \A x : PlaysOne(t, i, x) = PlaysOne(s, i, x)
  BY <1>2 DEF PlaysOne
<1> DEFINE T == {i \in Nat : i <= n => g[i] = f[i]}
<1>8. 0 \in T
  BY <1>5, <1>6
<1>9. ASSUME NEW i \in Nat, i \in T PROVE i + 1 \in T
  <2> SUFFICES ASSUME i + 1 <= n PROVE g[i + 1] = f[i + 1]
    OBVIOUS
  <2>1. i + 1 \in 1 .. n /\ i + 1 \in 1 .. n + 1 /\ (i + 1) - 1 = i /\ i <= n
    BY <1>1
  <2> QED BY <1>5, <1>6, <1>7, <1>9, <2>1
<1>10. g[n] = f[n]
  <2> HIDE DEF T
  <2>1. n \in T
    BY <1>1, <1>8, <1>9, Induction
  <2> QED BY <1>1, <2>1 DEF T
<1>11. n + 1 \in 1 .. n + 1 /\ (n + 1) - 1 = n
  BY <1>1
<1>12. Playback(t) = PlaysOne(t, n + 1, f[n])
  BY <1>4, <1>6, <1>10, <1>11
<1> QED BY <1>2, <1>3, <1>12 DEF PlaysOne, t

-----------------------------------------------------------------------------
(* The lists on the way. *)

\* How many lists are on the way before a message.
Before(w, i) == Cardinality({j \in ListsAt(w) : j < i})

\* Every list of v is one of w, and as many are before it.
Among(v, w) ==
  \A i \in ListsAt(v) : \E j \in ListsAt(w) :
    v[i].events = w[j].events /\ Before(v, i) = Before(w, j)

\* It is a number.
LEMMA BeforeType ==
  ASSUME NEW w, IsSeq(w), NEW i
  PROVE  Before(w, i) \in Nat
<1>1. {j \in ListsAt(w) : j < i} \subseteq ListsAt(w)
  OBVIOUS
<1>2. IsFiniteSet({j \in ListsAt(w) : j < i})
  BY <1>1, ListsType, FS_Subset
<1> QED BY <1>2, FS_CardinalityType DEF Before

\* A connection on which nothing moves, and one that is emptied.
LEMMA AmongItself == ASSUME NEW w PROVE Among(w, w) /\ Among(<<>>, w)
<1>1. ListsAt(<<>>) = {}
  BY DEF ListsAt
<1> QED BY <1>1 DEF Among

\* What is sent comes after all the lists.
LEMMA BeforeSent ==
  ASSUME NEW w, IsSeq(w), NEW t, IsSeq(t)
  PROVE  /\ \A i \in ListsAt(w) :
              /\ i \in ListsAt(w \o t) /\ (w \o t)[i] = w[i]
              /\ Before(w \o t, i) = Before(w, i)
         /\ \A i \in ListsAt(w \o t) : i \in ListsAt(w) \/ i - Len(w) \in ListsAt(t)
         /\ Before(w \o t, Len(w) + 1) = Lists(w)
<1>0. Len(w) \in Nat /\ Len(t) \in Nat
  BY Sequence
<1>1. /\ Len(w \o t) = Len(w) + Len(t) /\ Len(w) \in Nat /\ Len(t) \in Nat
      /\ \A i \in 1 .. Len(w) : (w \o t)[i] = w[i]
      /\ \A i \in 1 .. Len(t) : (w \o t)[Len(w) + i] = t[i]
  <2>1. /\ IsSeq(w \o t) /\ Len(w \o t) = Len(w) + Len(t)
        /\ \A i \in 1..Len(w) : (w \o t)[i] = w[i]
        /\ \A i \in 1..Len(t) : (w \o t)[Len(w) + i] = t[i]
        /\ (\A i \in 1..Len(t) : t[i].kind # "list") => Lists(w \o t) = Lists(w)
        /\ Len(t) = 1 /\ t[1].kind = "list" => Lists(w \o t) = Lists(w) + 1
    BY ListsSent, Zenon
  <2> QED BY <1>0, <2>1
<1> DEFINE u == w \o t
<1>2. /\ Len(u) = Len(w) + Len(t)
      /\ \A i \in 1 .. Len(w) : u[i] = w[i]
      /\ \A i \in 1 .. Len(t) : u[Len(w) + i] = t[i]
  BY <1>1
<1> HIDE DEF u
<1>3. \A i \in ListsAt(w) : i \in ListsAt(u) /\ u[i] = w[i]
  BY <1>1, <1>2 DEF ListsAt
<1>4. \A i \in ListsAt(u) : i \in ListsAt(w) \/ i - Len(w) \in ListsAt(t)
  <2> TAKE i \in ListsAt(u)
  <2>1. CASE i <= Len(w)
    BY <1>1, <1>2, <2>1 DEF ListsAt
  <2>2. CASE ~ (i <= Len(w))
    <3>1. i - Len(w) \in 1 .. Len(t) /\ Len(w) + (i - Len(w)) = i
      BY <1>1, <1>2, <2>2 DEF ListsAt
    <3> QED BY <1>2, <3>1 DEF ListsAt
  <2> QED BY <2>1, <2>2
<1>5. ASSUME NEW i \in 1 .. Len(w) + 1 PROVE Before(u, i) = Before(w, i)
  <2>1. \A j : j \in ListsAt(u) /\ j < i <=> j \in ListsAt(w) /\ j < i
    BY <1>1, <1>2, <1>5 DEF ListsAt
  <2>2. {j \in ListsAt(u) : j < i} = {j \in ListsAt(w) : j < i}
    BY <2>1
  <2> QED BY <2>2 DEF Before
<1>6. \A i \in ListsAt(w) : i \in 1 .. Len(w) + 1
  BY <1>1 DEF ListsAt
<1>7. {j \in ListsAt(w) : j < Len(w) + 1} = ListsAt(w)
  BY <1>1 DEF ListsAt
<1>8. Before(w, Len(w) + 1) = Lists(w)
  BY <1>7 DEF Before, Lists
<1>9. Len(w) + 1 \in 1 .. Len(w) + 1
  BY <1>1
<1> QED BY <1>3, <1>4, <1>5, <1>6, <1>8, <1>9 DEF u

\* One message sent.
LEMMA SendsOne ==
  ASSUME NEW w, IsSeq(w), NEW e
  PROVE  /\ Append(w, e) = w \o <<e>>
         /\ e.kind # "list" => Among(w \o <<e>>, w)
         /\ \A i \in ListsAt(w \o <<e>>) :
              \/ i \in ListsAt(w) /\ (w \o <<e>>)[i] = w[i]
                   /\ Before(w \o <<e>>, i) = Before(w, i)
              \/ (w \o <<e>>)[i] = e /\ Before(w \o <<e>>, i) = Lists(w)
<1> DEFINE t == <<e>>
<1>1. IsSeq(t) /\ Len(t) = 1 /\ t[1] = e
  <2>1. t \in Seq({e}) /\ Len(t) = 1 /\ t[1] = e
    OBVIOUS
  <2> QED BY <2>1, SomeSeq
<1>2. Append(w, e) = w \o t
  <2> DEFINE R == Range(w) \cup {e}
  <2>1. w \in Seq(R) /\ e \in R
    BY SeqMonotonic DEF IsSeq
  <2> QED BY <2>1, AppendIsConcat
<1> HIDE DEF t
<1>3. /\ \A i \in ListsAt(w) :
           /\ i \in ListsAt(w \o t) /\ (w \o t)[i] = w[i]
           /\ Before(w \o t, i) = Before(w, i)
      /\ \A i \in ListsAt(w \o t) : i \in ListsAt(w) \/ i - Len(w) \in ListsAt(t)
      /\ Before(w \o t, Len(w) + 1) = Lists(w)
  BY <1>1, BeforeSent, Zenon
<1>4. (w \o t)[Len(w) + 1] = e /\ Len(w) \in Nat
  BY <1>1, ListsSent, Sequence
<1>5. \A i \in ListsAt(t) : i = 1 /\ e.kind = "list"
  BY <1>1 DEF ListsAt
<1>6. \A i \in ListsAt(w \o t) :
        i \in ListsAt(w) \/ (i = Len(w) + 1 /\ e.kind = "list")
  <2> TAKE i \in ListsAt(w \o t)
  <2>1. i \in Int
    BY DEF ListsAt
  <2> QED BY <1>3, <1>4, <1>5, <2>1
<1>7. e.kind # "list" => Among(w \o t, w)
  BY <1>3, <1>6 DEF Among
<1> QED BY <1>2, <1>3, <1>4, <1>6, <1>7 DEF t

\* The snapshot, the settings and the test of the delay.
LEMMA SendsStart ==
  ASSUME NEW w, IsSeq(w)
  PROVE  Among(w \o <<Message("snapshot"), Message("settings"), Message("test")>>, w)
<1> DEFINE t == <<Message("snapshot"), Message("settings"), Message("test")>>
<1>1. t \in Seq({Message("snapshot"), Message("settings"), Message("test")}) /\ Len(t) = 3
  OBVIOUS
<1>2. ListsAt(t) = {}
  <2>1. \A i \in 1..3 : i = 1 \/ i = 2 \/ i = 3
    OBVIOUS
  <2>2. \A i \in 1..3 : t[i].kind # "list"
    BY <2>1 DEF Message
  <2> QED BY <1>1, <2>2 DEF ListsAt
<1>3. IsSeq(t)
  BY <1>1, SomeSeq
<1> HIDE DEF t
<1>4. /\ \A i \in ListsAt(w) :
           /\ i \in ListsAt(w \o t) /\ (w \o t)[i] = w[i]
           /\ Before(w \o t, i) = Before(w, i)
      /\ \A i \in ListsAt(w \o t) : i \in ListsAt(w) \/ i - Len(w) \in ListsAt(t)
  BY <1>3, BeforeSent, Zenon
<1>5. Among(w \o t, w)
  BY <1>2, <1>4 DEF Among
<1> QED BY <1>5 DEF t

\* What is received is taken from the front.
LEMMA Receives ==
  ASSUME NEW w, IsSeq(w), w # <<>>
  PROVE  /\ Head(w).kind # "list" => Among(Tail(w), w)
         /\ Head(w).kind = "list" =>
              /\ 1 \in ListsAt(w) /\ w[1] = Head(w) /\ Before(w, 1) = 0
              /\ \A i \in ListsAt(Tail(w)) : \E j \in ListsAt(w) :
                   /\ Tail(w)[i].events = w[j].events
                   /\ Before(w, j) = Before(Tail(w), i) + 1
<1>1. /\ IsSeq(Tail(w)) /\ Len(Tail(w)) = Len(w) - 1 /\ Len(w) \in Nat \ {0}
      /\ \A i \in 1 .. Len(w) - 1 : Tail(w)[i] = w[i + 1]
      /\ Head(w) = w[1]
  BY ListsTaken
<1>2. \A i \in ListsAt(Tail(w)) : i \in Nat \ {0} /\ i + 1 \in ListsAt(w) /\ Tail(w)[i] = w[i + 1]
  BY <1>1 DEF ListsAt
<1>3. 1 \in ListsAt(w) <=> Head(w).kind = "list"
  BY <1>1 DEF ListsAt
<1>4. ASSUME NEW i \in ListsAt(Tail(w))
      PROVE  Before(w, i + 1) =
               Before(Tail(w), i) + (IF Head(w).kind = "list" THEN 1 ELSE 0)
  <2> DEFINE A == {j \in ListsAt(Tail(w)) : j < i}
             B == {j \in ListsAt(w) : j < i + 1} \ {1}
             Up == [j \in A |-> j + 1]
  <2>1. \A j \in A : j + 1 \in B /\ j \in Nat
    BY <1>2
  <2>2. \A j \in B : j - 1 \in A /\ (j - 1) + 1 = j
    BY <1>1, <1>2 DEF ListsAt
  <2>3. Up \in Bijection(A, B)
    <3>1. Up \in [A -> B]
      BY <2>1
    <3>2. \A j, k \in A : Up[j] = Up[k] => j = k
      BY <2>1
    <3>3. \A j \in B : \E k \in A : Up[k] = j
      BY <2>2
    <3> QED BY <3>1, <3>2, <3>3 DEF Bijection, Injection, Surjection, IsInjective
  <2>4. IsFiniteSet(ListsAt(Tail(w))) /\ IsFiniteSet(ListsAt(w))
    BY <1>1, ListsType
  <2>5. A \subseteq ListsAt(Tail(w)) /\ {j \in ListsAt(w) : j < i + 1} \subseteq ListsAt(w)
    OBVIOUS
  <2>6. IsFiniteSet(A) /\ IsFiniteSet({j \in ListsAt(w) : j < i + 1})
    BY <2>4, <2>5, FS_Subset
  <2>7. Cardinality(A) = Cardinality({j \in ListsAt(w) : j < i + 1} \ {1})
    BY <2>3, <2>6, FS_Bijection DEF ExistsBijection
  <2>8. Cardinality(A) = Before(Tail(w), i)
    BY DEF Before
  <2> DEFINE C == {j \in ListsAt(w) : j < i + 1}
  <2>9. Cardinality(C) = Before(w, i + 1) /\ Cardinality(C) \in Nat /\ Before(Tail(w), i) \in Nat
    BY <1>1, <2>6, BeforeType, FS_CardinalityType DEF Before
  <2>10. 1 \in C <=> Head(w).kind = "list"
    BY <1>2, <1>3, <1>4
  <2>0. Cardinality(C \ {1}) = Before(Tail(w), i)
    BY <2>7, <2>8
  <2>c. IsFiniteSet(C)
    BY <2>6
  <2> HIDE DEF A, B, C
  <2>11. CASE 1 \in C
    <3>1. Cardinality(C \ {1}) = Cardinality(C) - 1
      BY <2>c, <2>11, FS_RemoveElement
    <3> QED BY <2>0, <2>9, <2>10, <2>11, <3>1
  <2>12. CASE 1 \notin C
    <3>1. Cardinality(C \ {1}) = Cardinality(C)
      <4>1. C \ {1} = C
        BY <2>12
      <4> QED BY <4>1
    <3> QED BY <2>0, <2>9, <2>10, <2>12, <3>1
  <2> QED BY <2>11, <2>12
<1>5. ASSUME Head(w).kind # "list" PROVE Among(Tail(w), w)
  <2>1. \A i \in ListsAt(Tail(w)) : Before(Tail(w), i) \in Nat
    BY <1>1, BeforeType
  <2>2. \A i \in ListsAt(Tail(w)) : Before(w, i + 1) = Before(Tail(w), i)
    BY <1>4, <1>5, <2>1
  <2> QED BY <1>2, <2>2 DEF Among
<1>6. ASSUME Head(w).kind = "list"
      PROVE  \A i \in ListsAt(Tail(w)) : \E j \in ListsAt(w) :
               Tail(w)[i].events = w[j].events /\ Before(w, j) = Before(Tail(w), i) + 1
  BY <1>2, <1>4, <1>6
<1>7. Before(w, 1) = 0
  <2>1. {j \in ListsAt(w) : j < 1} = {}
    BY DEF ListsAt
  <2> QED BY <2>1, FS_EmptySet DEF Before
<1> QED BY <1>1, <1>3, <1>5, <1>6, <1>7

-----------------------------------------------------------------------------
(* What the lists contain. *)

\* A peer that can still play what arrives.
Reads(p) == sock[p] = "open" /\ (~broken \/ pc[p] = "receive")

\* The number of the frame in the current slot, and the slots of the frames before it.
FrameNow(p) == IF pc[p] = "receive" THEN Len(recorded[p]) ELSE Len(recorded[p]) + 1
SlotBefore(c, d, k) == IF k <= c THEN c - k ELSE (c - k) + d
SlotAfter(c, d) == IF c + 1 = d THEN 0 ELSE c + 1
Slot(p, n) == list[p][SlotBefore(current[p], delta[p], FrameNow(p) - n)]

\* The lists of a frame, p's own and the one it gets.
Both(p, ours, theirs) ==
  IF p = "server" THEN [server |-> ours, client |-> theirs]
                  ELSE [server |-> theirs, client |-> ours]

\* The list of frame n, on its way to p: the other peer has recorded it, and holds it
\* until it plays that frame; if it has played it already, the two lists differ only if
\* it has found so itself.
OnWay(p, n, e) ==
  LET q == Other(p) IN
  /\ Live(q) /\ n <= Len(recorded[q]) /\ Playback(e) = recorded[q][n]
  /\ Reads(q) /\ n > Read(q) => e = Slot(q, n)
  /\ Live(p) /\ n <= Read(q) =>
       (RegistersDiffer(Both(p, Slot(p, n), e)) <=> syncLost[q] /\ n = Read(q))
OnTheWay ==
  \A p \in Peers : Reads(p) =>
    \A i \in ListsAt(wire[p]) : OnWay(p, Read(p) + Before(wire[p], i) + 1, wire[p][i].events)

\* The slots of a peer hold what was recorded, back to the first frame it has not played.
BufferOf(p) ==
  /\ \A n \in 1 .. Len(recorded[p]) :
       n + delta[p] > FrameNow(p) => Playback(Slot(p, n)) = recorded[p][n]
  /\ pc[p] # "receive" => Playback(list[p][current[p]]) = typed[p]
  /\ pc[p] = "receive" => typed[p] = <<>>
  /\ Len(recorded[p]) > 0 => toPlay[p] = SlotAfter(current[p], delta[p])
Buffers == \A p \in Peers : Live(p) /\ Reads(p) => BufferOf(p)

Waiting ==
  \A p \in Peers : pc[p] = "receive" =>
    Live(p) /\ full[p] /\ Len(recorded[p]) = Len(played[p]) + delta[p]

PlayedSent == \A p \in Peers : Read(p) <= Sent(Other(p))
LostOnes == \A p \in Peers : syncLost[p] => Live(p) /\ sock[p] # "open" /\ Read(p) > 0
Agreement ==
  \A p \in Peers : syncLost[p] =>
    \/ Read(Other(p)) < Read(p)
    \/ Read(Other(p)) = Read(p) /\ syncLost[Other(p)]
OwnModes == mode["server"] # "client" /\ mode["client"] # "server_connected"
SlotsAreLists ==
  /\ \A p \in Peers : \A i \in DOMAIN list[p] : IsSeq(list[p][i])
  /\ DOMAIN typed = Peers

Contents ==
  /\ OnTheWay /\ Buffers /\ Waiting /\ PlayedSent /\ LostOnes /\ Agreement
  /\ SlotsAreLists

\* A peer with lists: the sizes and the current slot.
Ready(p) ==
  /\ delta[p] \in Nat \ {0, 1} /\ current[p] \in 0 .. delta[p] - 1
  /\ DOMAIN list[p] = 0 .. delta[p] - 1
  /\ Len(recorded[p]) \in Nat /\ Len(played[p]) \in Nat

\* Every peer that has lists is.
LEMMA ReadyIs ==
  ASSUME Types, NEW p \in Peers, list[p] # <<>>
  PROVE  Ready(p)
<1>1. delta[p] \in Nat \ {0, 1}
  BY NetplayAssumption DEF Types, FrameTypes
<1>2. current[p] \in 0 .. delta[p] - 1 /\ DOMAIN list[p] = 0 .. delta[p] - 1
  BY DEF Types, FrameTypes
<1>3. Len(recorded[p]) \in Nat /\ Len(played[p]) \in Nat
  BY Sequence DEF Types, HistoryTypes
<1> QED BY <1>1, <1>2, <1>3 DEF Ready

\* How far ahead of what it has played a peer is.
Ahead(p) ==
  /\ Ready(p) /\ Connected(p) /\ Read(p) = Len(played[p]) /\ Read(p) <= Len(recorded[p])
  /\ pc[p] = "receive" =>
       full[p] /\ FrameNow(p) = Len(recorded[p]) /\ FrameNow(p) = Read(p) + delta[p]
  /\ pc[p] # "receive" =>
       /\ pc[p] = "run" /\ FrameNow(p) = Len(recorded[p]) + 1
       /\ IF full[p] THEN FrameNow(p) = Read(p) + delta[p]
                     ELSE Read(p) = 0 /\ FrameNow(p) = current[p] + 1

\* A peer that plays is as far ahead as Pace and Waiting have it.
LEMMA AheadIs ==
  ASSUME Types, Phases, Pace, Waiting, NEW p \in Peers, Live(p), Reads(p)
  PROVE  Ahead(p)
<1>1. Connected(p) /\ Plays(p) /\ list[p] # <<>> /\ sock[p] = "open"
  BY DEF Phases, SessionsOrdered, Reads
<1>2. Ready(p) /\ Len(recorded[p]) \in Nat /\ Len(played[p]) \in Nat /\ delta[p] \in Nat \ {0, 1}
      /\ current[p] \in Nat
  BY <1>1, ReadyIs DEF Ready
<1>3. Read(p) = Len(played[p]) /\ Sent(p) = Len(recorded[p]) /\ full[p] \in BOOLEAN
  BY DEF Read, Sent, Types, StateTypes
<1>4. CASE pc[p] = "receive"
  <2>1. full[p] /\ Len(recorded[p]) = Len(played[p]) + delta[p]
    BY <1>4 DEF Waiting
  <2> QED BY <1>1, <1>2, <1>3, <1>4, <2>1 DEF Ahead, FrameNow
<1>5. CASE pc[p] = "run"
  <2>1. OnPace(p)
    BY <1>1, <1>5 DEF Pace, Playing, Reads
  <2>2. CASE full[p]
    <3>1. Len(recorded[p]) = Len(played[p]) + delta[p] - 1
      BY <1>3, <1>5, <2>1, <2>2 DEF OnPace
    <3> QED BY <1>1, <1>2, <1>3, <1>5, <2>2, <3>1 DEF Ahead, FrameNow
  <2>3. CASE ~full[p]
    <3>1. Read(p) = 0 /\ Len(recorded[p]) = current[p]
      BY <1>3, <1>5, <2>1, <2>3 DEF OnPace
    <3> QED BY <1>1, <1>2, <1>3, <1>5, <2>3, <3>1 DEF Ahead, FrameNow
  <2> QED BY <1>3, <2>2, <2>3
<1> QED BY <1>1, <1>4, <1>5 DEF Plays

\* The frames that a peer has recorded and not played are all in its slots.
LEMMA InSlots ==
  ASSUME NEW p, Ahead(p), NEW n \in Nat, n > Read(p)
  PROVE  n + delta[p] > FrameNow(p)
BY DEF Ahead, Ready

-----------------------------------------------------------------------------
(* The ring of slots. *)

\* The ring goes on after its last slot with the first.
LEMMA Wraps ==
  ASSUME NEW d \in Nat \ {0, 1}, NEW c \in 0 .. d - 1
  PROVE  /\ (c + 1) % d = SlotAfter(c, d) /\ SlotAfter(c, d) \in 0 .. d - 1
         /\ SlotAfter(c, d) # c
         /\ SlotBefore(SlotAfter(c, d), d, d - 1) = SlotAfter(SlotAfter(c, d), d)
<1>1. d % d = 0
  <2>1. \A x \in Nat \ {0} : x % x = 0
    BY SMTT(30)
  <2> QED BY <2>1
<1>2. c + 1 < d => (c + 1) % d = c + 1
  <2>1. c + 1 \in Nat /\ d \in Nat \ {0}
    OBVIOUS
  <2> QED BY <2>1, Ring
<1>3. c + 1 < d \/ c + 1 = d
  OBVIOUS
<1> QED BY <1>1, <1>2, <1>3 DEF SlotAfter, SlotBefore

\* The slots before a slot are others; going one slot on, they are one further back.
LEMMA Shifts ==
  ASSUME NEW d \in Nat \ {0, 1}, NEW c \in 0 .. d - 1, NEW k \in Nat
  PROVE  /\ SlotBefore(c, d, 0) = c
         /\ k < d => SlotBefore(c, d, k) \in 0 .. d - 1
         /\ 0 < k /\ k < d => SlotBefore(c, d, k) # c
BY DEF SlotBefore

\* Seen from the next slot.
LEMMA ShiftsOn ==
  ASSUME NEW d \in Nat \ {0, 1}, NEW c \in 0 .. d - 1, NEW k \in Nat, k + 1 < d
  PROVE  SlotBefore(SlotAfter(c, d), d, k + 1) = SlotBefore(c, d, k)
BY DEF SlotBefore, SlotAfter

\* What a step must leave alone for the slots to stay what they are.
SameSlots(p) ==
  /\ list'[p] = list[p] /\ delta'[p] = delta[p] /\ current'[p] = current[p]
  /\ FrameNow(p)' = FrameNow(p)

\* Then they do.
LEMMA SlotsStay == ASSUME NEW p, SameSlots(p), NEW n PROVE Slot(p, n)' = Slot(p, n)
BY DEF SameSlots, Slot

\* Changing the current slot changes no other one.
LEMMA SlotsBesides ==
  ASSUME Types, NEW p \in Peers, Ready(p), NEW x, list' = [list EXCEPT ![p][current[p]] = x],
         delta'[p] = delta[p], current'[p] = current[p], FrameNow(p)' = FrameNow(p),
         FrameNow(p) \in Nat
  PROVE  /\ \A n \in Nat : n < FrameNow(p) /\ n + delta[p] > FrameNow(p) =>
              Slot(p, n)' = Slot(p, n)
         /\ list'[p][current[p]] = x
         /\ \A q \in Peers : q # p => list'[q] = list[q]
<1>1. /\ list'[p] = [list[p] EXCEPT ![current[p]] = x]
      /\ \A q \in Peers : q # p => list'[q] = list[q]
  BY DEF Types, FrameTypes
<1>2. \A i : i # current[p] => list'[p][i] = list[p][i]
  BY <1>1
<1>3. ASSUME NEW n \in Nat, n < FrameNow(p), n + delta[p] > FrameNow(p)
      PROVE  Slot(p, n)' = Slot(p, n)
  <2> DEFINE k == FrameNow(p) - n
  <2>1. k \in Nat /\ 0 < k /\ k < delta[p]
    BY <1>3 DEF Ready
  <2>2. SlotBefore(current[p], delta[p], k) # current[p]
    BY <2>1, Shifts DEF Ready
  <2> QED BY <1>2, <2>2 DEF Slot
<1>4. list'[p][current[p]] = x
  BY <1>1 DEF Ready
<1> QED BY <1>1, <1>3, <1>4

\* network_prepare_next_frame goes one slot on and clears it.
LEMMA SlotsAdvance ==
  ASSUME Types, NEW p \in Peers, Ready(p), PrepareNextFrame(p),
         FrameNow(p) \in Nat, FrameNow(p)' = FrameNow(p) + 1
  PROVE  /\ \A n \in Nat : n <= FrameNow(p) /\ n + delta[p] > FrameNow(p) + 1 =>
              Slot(p, n)' = Slot(p, n)
         /\ Slot(p, FrameNow(p)) = list[p][current[p]]
         /\ list'[p][current'[p]] = <<>>
         /\ toPlay'[p] = SlotAfter(current'[p], delta'[p])
         /\ delta'[p] = delta[p]
         /\ \A q \in Peers : q # p => SameLists /\ list'[q] = list[q]
<1> DEFINE next == (current[p] + 1) % delta[p]
<1>1. next = SlotAfter(current[p], delta[p]) /\ next \in 0 .. delta[p] - 1
  BY Wraps DEF Ready
<1>2. (next + 1) % delta[p] = SlotAfter(next, delta[p])
  <2> HIDE DEF next
  <2> QED BY <1>1, Wraps DEF Ready
<1> HIDE DEF next
<1>3. /\ current' = [current EXCEPT ![p] = next]
      /\ toPlay' = [toPlay EXCEPT ![p] = (next + 1) % delta[p]]
      /\ list' = [list EXCEPT ![p][next] = <<>>] /\ delta' = delta
  BY DEF PrepareNextFrame, next
<1>4. /\ list'[p] = [list[p] EXCEPT ![next] = <<>>]
      /\ \A q \in Peers : q # p => list'[q] = list[q]
      /\ current'[p] = next /\ toPlay'[p] = (next + 1) % delta[p] /\ delta'[p] = delta[p]
  BY <1>3 DEF Types, FrameTypes
<1>5. \A i : i # next => list'[p][i] = list[p][i]
  BY <1>4
<1>6. ASSUME NEW n \in Nat, n <= FrameNow(p), n + delta[p] > FrameNow(p) + 1
      PROVE  Slot(p, n)' = Slot(p, n)
  <2> DEFINE k == FrameNow(p) - n
  <2>1. k \in Nat /\ k + 1 < delta[p] /\ 0 < k + 1 /\ FrameNow(p)' - n = k + 1 /\ k + 1 \in Nat
    BY <1>6 DEF Ready
  <2> HIDE DEF k
  <2>2. SlotBefore(next, delta[p], k + 1) = SlotBefore(current[p], delta[p], k)
    <3>1. SlotBefore(SlotAfter(current[p], delta[p]), delta[p], k + 1)
            = SlotBefore(current[p], delta[p], k)
      BY <2>1, ShiftsOn DEF Ready
    <3> QED BY <1>1, <3>1
  <2>3. SlotBefore(next, delta[p], k + 1) # next
    BY <1>1, <2>1, Shifts DEF Ready
  <2> QED BY <1>4, <1>5, <2>1, <2>2, <2>3 DEF Slot, k
<1>7. Slot(p, FrameNow(p)) = list[p][current[p]]
  <2>1. FrameNow(p) - FrameNow(p) = 0 /\ 0 \in Nat
    OBVIOUS
  <2>2. SlotBefore(current[p], delta[p], 0) = current[p]
    BY Shifts DEF Ready
  <2> QED BY <2>1, <2>2 DEF Slot
<1>8. list'[p][current'[p]] = <<>>
  BY <1>1, <1>4 DEF Ready
<1>9. SameLists
  BY SlotSet, <1>3 DEF Types
<1> QED BY <1>2, <1>4, <1>6, <1>7, <1>8, <1>9

-----------------------------------------------------------------------------
(* What the steps do to the contents. *)

\* A peer gets its lists, for a connection that has not given it any yet.
Starting(p) ==
  /\ \E d \in Deltas : InitLists(p, d)
  /\ ~Live(p) /\ pc[p] # "receive" /\ (broken => broken')
  /\ \A q \in Peers : Among(wire'[q], wire[q])

\* A step that touches no list, nor what was played of any; it may drop lists that are
\* on the way, but only to a peer that can no longer play them.
Quiet ==
  /\ UNCHANGED <<list, delta, current, toPlay, full, typed, recorded, played, session,
                 sessions, syncLost>>
  /\ \A p \in Peers :
       /\ pc'[p] = "receive" => pc[p] = "receive"
       /\ sock'[p] = "open" => sock[p] = "open" \/ ~Live(p)
       /\ Reads(p)' =>
            \/ /\ Reads(p) /\ Among(wire'[p], wire[p])
               /\ pc[p] = "receive" => pc'[p] = "receive"
            \/ ~Live(p) /\ wire'[p] = <<>>

ContentMoves(p) ==
  \/ \E e \in Inputs : GiveInput(p, e)
  \/ RecordSyncTest(p) \/ Hook(p) \/ HookSendFails(p) \/ ReceiveList(p)
  \/ Starting(p)

\* Sending a message that is not a list.
LEMMA SendsOther ==
  ASSUME NEW w, IsSeq(w), NEW e, e.kind # "list"
  PROVE  Among(Append(w, e), w) /\ Among(w \o <<e>>, w)
<1>1. Append(w, e) = w \o <<e>> /\ Among(w \o <<e>>, w)
  BY SendsOne
<1> QED BY <1>1

\* A step that gives a message other than a list.
LEMMA QuietSend ==
  ASSUME WireTypes, NEW p \in Peers, NEW m, m.kind # "list",
         \/ UNCHANGED wire
         \/ wire' = [wire EXCEPT ![p] = @ \o <<m>>]
         \/ wire' = [wire EXCEPT ![p] = Append(@, m)]
  PROVE  \A q \in Peers : Among(wire'[q], wire[q])
<1>1. IsSeq(wire[p])
  BY DEF WireTypes, Queue
<1>2. Among(wire[p] \o <<m>>, wire[p]) /\ Among(Append(wire[p], m), wire[p])
  BY <1>1, SendsOther
<1>3. \A q \in Peers : Among(wire[q], wire[q])
  BY AmongItself
<1> QED BY <1>2, <1>3 DEF WireTypes

\* A step that takes one.
LEMMA QuietTake ==
  ASSUME WireTypes, NEW p \in Peers, wire[p] # <<>>, Head(wire[p]).kind # "list",
         wire' = [wire EXCEPT ![p] = Tail(@)]
  PROVE  \A q \in Peers : Among(wire'[q], wire[q])
<1>1. IsSeq(wire[p])
  BY DEF WireTypes, Queue
<1>2. Among(Tail(wire[p]), wire[p])
  BY <1>1, Receives
<1>3. \A q \in Peers : Among(wire[q], wire[q])
  BY AmongItself
<1> QED BY <1>2, <1>3 DEF WireTypes

\* Nothing is among something else when nothing is sent or taken.
LEMMA AmongAll == \A q \in Peers : Among(wire[q], wire[q])
BY AmongItself

\* Every step is quiet, or one of those that are not.
LEMMA Steps ==
  ASSUME StateTypes, WireTypes, FrameTypes, AtPlaces, SessionsOrdered, Fresh, [Next]_vars
  PROVE  Quiet \/ ConnectClient \/ \E p \in Peers : ContentMoves(p)
<1> USE DEF Quiet, Reads, Live, StateTypes, Peers, Waits, Goto, Mishap, UserActs, Running,
            AtBoundary, Disconnect, CloseEnd, Closed, StopsListening, SendFails,
            ReceiveFails, Arrived, Connected, sockets, frames, machines, histories, counters
<1>a. Other("server") = "client" /\ Other("client") = "server"
  BY Others
<1>b. /\ pc["client"] \in {"download", "test", "delta", "receive"} => sock["client"] = "open"
      /\ pc["server"] \in {"echo", "receive"} => sock["server"] = "open"
  BY DEF AtPlaces
<1>c. \A q \in Peers : Among(wire[q], wire[q])
  BY AmongAll
<1>1. ASSUME NEW p \in Peers, StartServer(p) PROVE Quiet
  BY <1>1, <1>c DEF StartServer
<1>3. ASSUME NEW p \in Peers, UserDisconnects(p) PROVE Quiet
  BY <1>3, <1>c DEF UserDisconnects, WireTypes
<1>4. ASSUME NEW p \in Peers, Suspend(p) PROVE Quiet
  <2> DEFINE m == Message("marker")
  <2>1. wire' = wire \/ wire' = [wire EXCEPT ![Other(p)] = @ \o <<m>>]
    BY <1>4 DEF Suspend, Send
  <2>2. m.kind # "list" /\ Other(p) \in Peers
    BY <1>a DEF Message
  <2>3. /\ broken => broken'
        /\ UNCHANGED <<sock, pc, list, delta, current, toPlay, full, typed, recorded, played,
                       session, sessions, syncLost>>
    BY <1>4 DEF Suspend, Send
  <2> HIDE DEF m
  <2>4. \A q \in Peers : Among(wire'[q], wire[q])
    BY <2>1, <2>2, QuietSend
  <2> QED BY <2>3, <2>4
<1>6. CASE Break
  BY <1>6, <1>c DEF Break
<1>7. ASSUME NEW p \in Peers, Diverge(p) PROVE Quiet
  BY <1>7, <1>c DEF Diverge
<1>8. ASSUME NEW p \in Peers, LoseTrap(p) PROVE Quiet
  BY <1>8, <1>c DEF LoseTrap
<1>9. CASE Accept
  <2>1. ~broken => wire["server"] = <<>> /\ ~Live("server")
    BY <1>9 DEF Accept, Fresh, SessionsOrdered, Starts
  <2>2. ~Live("server")
    BY <1>9 DEF Accept, SessionsOrdered, Starts
  <2> QED BY <1>9, <1>c, <2>1, <2>2 DEF Accept
<1>10. CASE ServerConnectTrap
  <2> DEFINE t == <<Message("snapshot"), Message("settings"), Message("test")>>
  <2>1. wire' = wire \/ wire' = [wire EXCEPT !["client"] = @ \o t]
    BY <1>10, <1>a DEF ServerConnectTrap, Send
  <2>2. IsSeq(wire["client"])
    BY DEF WireTypes, Queue
  <2>3. Among(wire["client"] \o t, wire["client"])
    BY <2>2, SendsStart
  <2>4. /\ broken => broken'
        /\ pc["server"] = "run" /\ pc' = [pc EXCEPT !["server"] = "echo"]
        /\ UNCHANGED <<sock, list, delta, current, toPlay, full, typed, recorded, played,
                       session, sessions, syncLost>>
    BY <1>10 DEF ServerConnectTrap, Send
  <2> HIDE DEF t
  <2>5. \A q \in Peers : Among(wire'[q], wire[q])
    BY <1>c, <2>1, <2>3 DEF WireTypes
  <2> QED BY <2>4, <2>5
<1>11. CASE ServerSnapshotFails
  BY <1>11, <1>c DEF ServerSnapshotFails
<1>12. ASSUME ServerStarts PROVE Starting("server")
  <2> DEFINE rest == [wire EXCEPT !["server"] = Tail(wire["server"])]
  <2>1. /\ wire["server"] # <<>> /\ Head(wire["server"]).kind = "echo"
        /\ pc["server"] = "echo" /\ (broken => broken')
        /\ \E d \in Deltas : InitLists("server", d)
    BY <1>12 DEF ServerStarts
  <2>2. \E d \in Deltas :
          wire' = rest \/ wire' = [rest EXCEPT !["client"] = Append(@, DeltaMessage(d))]
    BY <1>12 DEF ServerStarts
  <2>3. IsSeq(wire["server"]) /\ IsSeq(wire["client"])
    BY DEF WireTypes, Queue
  <2>4. Among(Tail(wire["server"]), wire["server"])
    BY <2>1, <2>3, Receives
  <2>5. \A d \in Deltas : Among(Append(wire["client"], DeltaMessage(d)), wire["client"])
    <3>1. \A d \in Deltas : DeltaMessage(d).kind = "delta"
      BY DEF DeltaMessage, Message
    <3> QED BY <2>3, <3>1, SendsOther
  <2>6. \A q \in Peers : Among(wire'[q], wire[q])
    BY <1>c, <2>2, <2>4, <2>5 DEF WireTypes
  <2>7. ~Live("server")
    BY <2>1 DEF SessionsOrdered, Starts
  <2> QED BY <2>1, <2>6, <2>7 DEF Starting
<1>13. CASE Download
  <2>1. /\ wire["client"] # <<>> /\ Head(wire["client"]).kind = "snapshot"
        /\ wire' = [wire EXCEPT !["client"] = Tail(@)]
    BY <1>13 DEF Download, Take
  <2>2. \A q \in Peers : Among(wire'[q], wire[q])
    BY <2>1, QuietTake
  <2> QED BY <1>13, <2>2 DEF Download
<1>14. CASE DownloadFails
  BY <1>14, <1>c DEF DownloadFails, WireTypes
<1>15. CASE ClientConnectTrap
  BY <1>15, <1>c DEF ClientConnectTrap
<1>16. CASE LoadSnapshot
  <2>1. /\ wire["client"] # <<>> /\ Head(wire["client"]).kind = "settings"
        /\ wire' = [wire EXCEPT !["client"] = Tail(@)]
    BY <1>16 DEF LoadSnapshot, Take
  <2>2. \A q \in Peers : Among(wire'[q], wire[q])
    BY <2>1, QuietTake
  <2> QED BY <1>16, <2>2 DEF LoadSnapshot
<1>17. CASE LoadFails
  <2>1. \/ wire' = wire
        \/ /\ wire["client"] # <<>> /\ Head(wire["client"]).kind = "settings"
           /\ wire' = [wire EXCEPT !["client"] = Tail(@)]
    BY <1>17 DEF LoadFails, Take
  <2>2. \A q \in Peers : Among(wire'[q], wire[q])
    BY <1>c, <2>1, QuietTake
  <2> QED BY <1>17, <2>2 DEF LoadFails
<1>18. CASE Test
  <2> DEFINE rest == [wire EXCEPT !["client"] = Tail(wire["client"])]
  <2>1. /\ wire["client"] # <<>> /\ Head(wire["client"]).kind = "test"
        /\ wire' = rest \/ wire' = [rest EXCEPT !["server"] = Append(@, Message("echo"))]
    BY <1>18 DEF Test
  <2>2. IsSeq(wire["server"]) /\ IsSeq(wire["client"])
    BY DEF WireTypes, Queue
  <2>3. Among(Tail(wire["client"]), wire["client"])
    BY <2>1, <2>2, Receives
  <2>4. Among(Append(wire["server"], Message("echo")), wire["server"])
    <3>1. Message("echo").kind = "echo"
      BY DEF Message
    <3> QED BY <2>2, <3>1, SendsOther
  <2>5. \A q \in Peers : Among(wire'[q], wire[q])
    BY <1>c, <2>1, <2>3, <2>4 DEF WireTypes
  <2>6. /\ broken => broken'
        /\ pc["client"] = "test" /\ pc' = [pc EXCEPT !["client"] = "delta"]
        /\ UNCHANGED <<sock, list, delta, current, toPlay, full, typed, recorded, played,
                       session, sessions, syncLost>>
    BY <1>18 DEF Test
  <2> QED BY <2>5, <2>6
<1>19. ASSUME ClientStarts PROVE Starting("client")
  <2>1. /\ wire["client"] # <<>> /\ Head(wire["client"]).kind = "delta"
        /\ wire' = [wire EXCEPT !["client"] = Tail(@)]
        /\ pc["client"] = "delta" /\ broken' = broken
    BY <1>19 DEF ClientStarts, Take
  <2>2. \A q \in Peers : Among(wire'[q], wire[q])
    BY <2>1, QuietTake
  <2>3. Head(wire["client"]).delta \in Deltas
    BY <2>1, Taking DEF WireTypes
  <2>4. \E d \in Deltas : InitLists("client", d)
    BY <1>19, <2>3 DEF ClientStarts
  <2>5. ~Live("client")
    BY <2>1 DEF SessionsOrdered, Starts
  <2> QED BY <2>1, <2>2, <2>4, <2>5 DEF Starting
<1>20. ASSUME ClientStartsBlindly PROVE Starting("client")
  <2>1. /\ pc["client"] = "delta" /\ wire' = wire /\ broken' = broken
        /\ \E d \in Deltas : InitLists("client", d)
    BY <1>20 DEF ClientStartsBlindly
  <2>2. ~Live("client")
    BY <2>1 DEF SessionsOrdered, Starts
  <2> QED BY <1>c, <2>1, <2>2 DEF Starting
<1>21. ASSUME NEW p \in Peers, TestFails(p) PROVE Quiet
  BY <1>21, <1>c DEF TestFails
<1>25. ASSUME NEW p \in Peers, ReceiveMarker(p) PROVE Quiet
  <2>1. /\ wire[p] # <<>> /\ Head(wire[p]).kind = "marker"
        /\ wire' = [wire EXCEPT ![p] = Tail(@)]
    BY <1>25 DEF ReceiveMarker, Take
  <2>2. \A q \in Peers : Among(wire'[q], wire[q])
    BY <2>1, QuietTake
  <2> QED BY <1>25, <2>2 DEF ReceiveMarker
<1>27. ASSUME NEW p \in Peers, ReceiveFailed(p) PROVE Quiet
  BY <1>27, <1>c DEF ReceiveFailed, WireTypes
<1>28. ASSUME NEW p \in Peers, ReceiveBodyFailed(p) PROVE Quiet
  BY <1>28, <1>c DEF ReceiveBodyFailed, Take, WireTypes
<1>29. ASSUME NEW p \in Peers, CrashWithoutLists(p) PROVE Quiet
  BY <1>29, <1>c DEF CrashWithoutLists, WireTypes
<1>30. CASE UNCHANGED vars
  BY <1>30, <1>c DEF vars
<1>31. "server" \in Peers /\ "client" \in Peers
  OBVIOUS
<1> QED BY <1>1, <1>3, <1>4, <1>6, <1>7, <1>8, <1>9, <1>10, <1>11, <1>12,
         <1>13, <1>14, <1>15, <1>16, <1>17, <1>18, <1>19, <1>20, <1>21,
         <1>25, <1>27, <1>28, <1>29, <1>30, <1>31
         DEF Next, User, EnableClient, World, ServerHandshake, ClientHandshake, Frame,
             ContentMoves

\* What was recorded stays.
Extends(p) ==
  /\ Len(recorded[p]) <= Len(recorded'[p])
  /\ \A n \in 1 .. Len(recorded[p]) : recorded'[p][n] = recorded[p][n]

\* A list on its way to p stays what it was, for what a step does to the two peers.
LEMMA OnWayStays ==
  ASSUME NEW p \in Peers, NEW q \in Peers, q = Other(p), NEW n \in Nat \ {0}, NEW e,
         OnWay(p, n, e), Len(recorded[q]) \in Nat, Len(recorded'[q]) \in Nat,
         Live(q) => Live(q)' /\ Extends(q),
         Reads(q)' /\ n > Read(q)' => Reads(q) /\ n > Read(q) /\ Slot(q, n)' = Slot(q, n),
         Live(p)' /\ n <= Read(q)' =>
           /\ Live(p) /\ n <= Read(q) /\ Slot(p, n)' = Slot(p, n)
           /\ syncLost'[q] /\ n = Read(q)' <=> syncLost[q] /\ n = Read(q)
  PROVE  OnWay(p, n, e)'
<1>1. /\ Live(q) /\ n <= Len(recorded[q]) /\ Playback(e) = recorded[q][n]
      /\ Reads(q) /\ n > Read(q) => e = Slot(q, n)
      /\ Live(p) /\ n <= Read(q) =>
           (RegistersDiffer(Both(p, Slot(p, n), e)) <=> syncLost[q] /\ n = Read(q))
  BY DEF OnWay
<1>2. Live(q)' /\ n <= Len(recorded'[q]) /\ Playback(e) = recorded'[q][n]
  <2>1. n \in 1 .. Len(recorded[q])
    BY <1>1
  <2> QED BY <1>1, <2>1 DEF Extends
<1>3. Reads(q)' /\ n > Read(q)' => e = Slot(q, n)'
  BY <1>1
<1>4. Live(p)' /\ n <= Read(q)' =>
        (RegistersDiffer(Both(p, Slot(p, n), e))' <=> syncLost'[q] /\ n = Read(q)')
  <2> SUFFICES ASSUME Live(p)', n <= Read(q)'
               PROVE  RegistersDiffer(Both(p, Slot(p, n), e))' <=> syncLost'[q] /\ n = Read(q)'
    OBVIOUS
  <2>1. Both(p, Slot(p, n), e)' = Both(p, Slot(p, n), e)
    BY DEF Both
  <2>2. RegistersDiffer(Both(p, Slot(p, n), e))' = RegistersDiffer(Both(p, Slot(p, n), e))
    BY <2>1 DEF RegistersDiffer
  <2> QED BY <1>1, <2>2
<1> QED BY <1>2, <1>3, <1>4 DEF OnWay

\* A list that is on its way to p, as OnTheWay has it.
Listed(p, n, e) ==
  \E j \in ListsAt(wire[p]) : n = Read(p) + Before(wire[p], j) + 1 /\ e = wire[p][j].events

\* It is what OnTheWay says, and of a frame that p has not played.
LEMMA ListedIs ==
  ASSUME Types, NEW p \in Peers, OnTheWay, Reads(p), NEW n, NEW e, Listed(p, n, e)
  PROVE  /\ OnWay(p, n, e) /\ n \in Nat \ {0} /\ n > Read(p)
         /\ Live(Other(p)) /\ n <= Len(recorded[Other(p)])
<1> PICK j \in ListsAt(wire[p]) :
      n = Read(p) + Before(wire[p], j) + 1 /\ e = wire[p][j].events
  BY DEF Listed
<1>1. OnWay(p, n, e)
  BY DEF OnTheWay
<1>2. Read(p) \in Nat /\ Before(wire[p], j) \in Nat
  BY Sequence, BeforeType DEF Types, HistoryTypes, WireTypes, Queue, Read
<1> QED BY <1>1, <1>2 DEF OnWay

\* The lists on their way to p stay what they were, for what a step does to the peers.
LEMMA WireStays ==
  ASSUME Types, Types', NEW p \in Peers, NEW q \in Peers, q = Other(p), OnTheWay,
         Reads(p), Among(wire'[p], wire[p]), Read(p)' = Read(p),
         Live(q) => Live(q)' /\ Extends(q),
         \A n \in Nat \ {0} :
           Live(q) /\ n > Read(p) /\ n <= Len(recorded[q]) =>
             /\ Reads(q)' /\ n > Read(q)' =>
                  Reads(q) /\ n > Read(q) /\ Slot(q, n)' = Slot(q, n)
             /\ Live(p)' /\ n <= Read(q)' =>
                  /\ Live(p) /\ n <= Read(q) /\ Slot(p, n)' = Slot(p, n)
                  /\ syncLost'[q] /\ n = Read(q)' <=> syncLost[q] /\ n = Read(q)
  PROVE  \A i \in ListsAt(wire'[p]) :
           OnWay(p, Read(p) + Before(wire[p], i) + 1, wire[p][i].events)'
<1> TAKE i \in ListsAt(wire'[p])
<1>1. PICK j \in ListsAt(wire[p]) :
        wire'[p][i].events = wire[p][j].events /\ Before(wire'[p], i) = Before(wire[p], j)
  BY DEF Among
<1> PICK n : n = Read(p) + Before(wire[p], j) + 1
  OBVIOUS
<1> PICK e : e = wire[p][j].events
  OBVIOUS
<1>2. /\ OnWay(p, n, e) /\ n \in Nat \ {0} /\ n > Read(p)
      /\ Live(q) /\ n <= Len(recorded[q])
  BY ListedIs DEF Listed
<1>3. Len(recorded[q]) \in Nat /\ Len(recorded'[q]) \in Nat
  BY Sequence DEF Types, HistoryTypes
<1>4. (Read(p) + Before(wire[p], i) + 1)' = n /\ (wire[p][i].events)' = e
  BY <1>1
<1>5. OnWay(p, n, e)'
  BY <1>2, <1>3, OnWayStays
<1> QED BY <1>4, <1>5 DEF OnWay

\* Other peers.
LEMMA Two == \A p \in Peers : /\ Other(p) \in Peers /\ Other(p) # p /\ Other(Other(p)) = p
                              /\ \A q \in Peers : q = p \/ q = Other(p)
BY Others DEF Peers

\* A quiet step keeps the contents.
LEMMA QuietKeeps ==
  ASSUME Types, Types', Contents, Quiet
  PROVE  Contents'
<1>1. UNCHANGED <<list, delta, current, toPlay, full, typed, recorded, played, session,
                  sessions, syncLost>>
  BY DEF Quiet
<1>2. \A p \in Peers : Live(p)' = Live(p) /\ Read(p)' = Read(p) /\ Sent(p)' = Sent(p)
  BY <1>1 DEF Live, Read, Sent
<1>3. ASSUME NEW p \in Peers, Reads(p)', Live(p)
      PROVE  /\ Reads(p) /\ Among(wire'[p], wire[p]) /\ SameSlots(p)
             /\ (pc'[p] = "receive") = (pc[p] = "receive")
  <2>1. /\ Reads(p) /\ Among(wire'[p], wire[p])
        /\ (pc'[p] = "receive") = (pc[p] = "receive")
    BY <1>3 DEF Quiet
  <2> QED BY <1>1, <2>1 DEF SameSlots, FrameNow
<1>4. OnTheWay'
  <2> SUFFICES ASSUME NEW p \in Peers, Reads(p)'
               PROVE  \A i \in ListsAt(wire'[p]) :
                        OnWay(p, Read(p) + Before(wire[p], i) + 1, wire[p][i].events)'
    BY DEF OnTheWay
  <2>1. CASE wire'[p] = <<>>
    BY <2>1 DEF ListsAt
  <2>2. CASE wire'[p] # <<>>
    <3>1. Reads(p) /\ Among(wire'[p], wire[p])
      BY <2>2 DEF Quiet
    <3> PICK q \in Peers : q = Other(p)
      BY Two
    <3>2. Live(q) => Live(q)' /\ Extends(q)
      BY <1>1, <1>2, Sequence DEF Extends, Types, HistoryTypes
    <3>3. ASSUME NEW n \in Nat \ {0}, Live(q), n > Read(p), n <= Len(recorded[q])
          PROVE  /\ Reads(q)' /\ n > Read(q)' =>
                      Reads(q) /\ n > Read(q) /\ Slot(q, n)' = Slot(q, n)
                 /\ Live(p)' /\ n <= Read(q)' =>
                      /\ Live(p) /\ n <= Read(q) /\ Slot(p, n)' = Slot(p, n)
                      /\ syncLost'[q] /\ n = Read(q)' <=> syncLost[q] /\ n = Read(q)
      <4>1. Reads(q)' => Reads(q) /\ SameSlots(q)
        BY <1>3, <3>3
      <4>2. Live(p)' => Live(p) /\ SameSlots(p)
        BY <1>2, <1>3
      <4> QED BY <1>1, <1>2, <4>1, <4>2, SlotsStay
    <3> QED BY <1>2, <3>1, <3>2, <3>3, WireStays DEF Contents
  <2> QED BY <2>1, <2>2
<1>5. Buffers'
  <2> SUFFICES ASSUME NEW p \in Peers, Live(p)', Reads(p)' PROVE BufferOf(p)'
    BY DEF Buffers
  <2>1. /\ Live(p) /\ Reads(p) /\ SameSlots(p)
        /\ (pc'[p] = "receive") = (pc[p] = "receive")
    BY <1>2, <1>3
  <2>2. BufferOf(p)
    BY <2>1 DEF Contents, Buffers
  <2>3. \A n : Slot(p, n)' = Slot(p, n)
    BY <2>1, SlotsStay
  <2>4. \A n \in 1 .. Len(recorded'[p]) :
          n + delta'[p] > FrameNow(p)' => Playback(Slot(p, n)') = recorded'[p][n]
    BY <1>1, <2>1, <2>2, <2>3 DEF BufferOf, SameSlots
  <2>5. /\ pc'[p] # "receive" => Playback(list'[p][current'[p]]) = typed'[p]
        /\ pc'[p] = "receive" => typed'[p] = <<>>
        /\ Len(recorded'[p]) > 0 => toPlay'[p] = SlotAfter(current'[p], delta'[p])
    BY <1>1, <2>1, <2>2 DEF BufferOf
  <2> QED BY <2>4, <2>5 DEF BufferOf
<1>6. Waiting'
  BY <1>1, <1>2 DEF Quiet, Contents, Waiting
<1>7. PlayedSent'
  BY <1>2, Two DEF Contents, PlayedSent
<1>8. LostOnes'
  BY <1>1, <1>2 DEF Quiet, Contents, LostOnes
<1>9. Agreement'
  BY <1>1, <1>2, Two DEF Contents, Agreement
<1>10. SlotsAreLists'
  BY <1>1 DEF Contents, SlotsAreLists
<1> QED BY <1>4, <1>5, <1>6, <1>7, <1>8, <1>9, <1>10 DEF Contents

\* A new connection: nobody has lists for it, and nothing is on the way.
LEMMA ConnectKeeps ==
  ASSUME Types, Types', AtPlaces, Contents, ConnectClient
  PROVE  Contents'
<1>1. /\ wire' = [p \in Peers |-> <<>>] /\ sessions' = sessions + 1
      /\ syncLost' = [p \in Peers |-> FALSE] /\ pc' = [pc EXCEPT !["client"] = "download"]
      /\ UNCHANGED <<list, delta, current, toPlay, full, typed, recorded, played, session>>
      /\ sock["server"] # "open"
  BY DEF ConnectClient, frames, histories, Goto
<1>2. \A p \in Peers : ~Live(p)' /\ Read(p)' = 0 /\ Sent(p)' = 0
  <2>1. \A p \in Peers : session[p] # sessions + 1
    BY DEF Types, StateTypes
  <2> QED BY <1>1, <2>1 DEF Live, Read, Sent
<1>3. \A p \in Peers : ListsAt(wire'[p]) = {}
  BY <1>1 DEF ListsAt
<1>4. OnTheWay'
  BY <1>3 DEF OnTheWay
<1>5. Buffers' /\ PlayedSent' /\ LostOnes' /\ Agreement' /\ SlotsAreLists'
  BY <1>1, <1>2, Two DEF Buffers, PlayedSent, LostOnes, Agreement, Contents, SlotsAreLists
<1>6. Waiting'
  <2>1. pc'["client"] # "receive" /\ pc'["server"] # "receive"
    BY <1>1 DEF AtPlaces, Waits, Types, StateTypes, Peers
  <2> QED BY <2>1 DEF Waiting, Peers
<1> QED BY <1>4, <1>5, <1>6 DEF Contents

\* A peer that starts with empty lists has neither sent nor played anything, and the
\* other one has played nothing of it.
LEMMA StartKeeps ==
  ASSUME Types, Types', AtPlaces, Contents, NEW p \in Peers, Starting(p)
  PROVE  Contents'
<1> PICK d \in Deltas : InitLists(p, d)
  BY DEF Starting
<1>1. /\ list' = [list EXCEPT ![p] = [i \in 0 .. d - 1 |-> <<>>]]
      /\ delta' = [delta EXCEPT ![p] = d] /\ current' = [current EXCEPT ![p] = 0]
      /\ typed' = [typed EXCEPT ![p] = <<>>] /\ recorded' = [recorded EXCEPT ![p] = <<>>]
      /\ played' = [played EXCEPT ![p] = <<>>] /\ session' = [session EXCEPT ![p] = sessions]
      /\ full' = [full EXCEPT ![p] = FALSE]
      /\ pc' = [pc EXCEPT ![p] = "run"]
      /\ UNCHANGED <<toPlay, syncLost, sock, sessions>>
  BY DEF InitLists, Goto, machines, counters
<1>2. ~Live(p) /\ pc[p] # "receive" /\ (broken => broken')
      /\ \A q \in Peers : Among(wire'[q], wire[q])
  BY DEF Starting
<1> PICK q \in Peers : q = Other(p)
  BY Two
<1>3. q # p /\ Other(q) = p /\ \A r \in Peers : r = p \/ r = q
  BY Two
<1>4. Read(p) = 0 /\ Sent(p) = 0 /\ Live(p)' /\ Read(p)' = 0 /\ Sent(p)' = 0
  BY <1>1, <1>2 DEF Read, Sent, Live, Types, StateTypes, HistoryTypes
<1>5. /\ Live(q)' = Live(q) /\ Read(q)' = Read(q) /\ Sent(q)' = Sent(q)
      /\ list'[q] = list[q] /\ delta'[q] = delta[q] /\ current'[q] = current[q]
      /\ typed'[q] = typed[q] /\ recorded'[q] = recorded[q] /\ played'[q] = played[q]
      /\ toPlay'[q] = toPlay[q] /\ pc'[q] = pc[q] /\ full'[q] = full[q]
  <2>1. /\ session'[q] = session[q] /\ sessions' = sessions
        /\ list'[q] = list[q] /\ delta'[q] = delta[q] /\ current'[q] = current[q]
        /\ recorded'[q] = recorded[q] /\ played'[q] = played[q]
        /\ toPlay'[q] = toPlay[q] /\ pc'[q] = pc[q] /\ full'[q] = full[q]
    BY <1>1, <1>3 DEF Types, StateTypes, FrameTypes, HistoryTypes
  <2>2. typed'[q] = typed[q]
    BY <1>1, <1>3 DEF Contents, SlotsAreLists
  <2>3. Live(q)' = Live(q)
    BY <2>1 DEF Live
  <2>4. Read(q)' = Read(q) /\ Sent(q)' = Sent(q)
    BY <2>1, <2>3 DEF Read, Sent
  <2> QED BY <2>1, <2>2, <2>3, <2>4
<1>6. Read(q) = 0
  <2>1. Read(q) <= 0 /\ Read(q) \in Nat
    BY <1>3, <1>4, Sequence DEF Contents, PlayedSent, Types, HistoryTypes, Read
  <2> QED BY <2>1
<1>7. \A r \in Peers : (Reads(r)' => Reads(r)) /\ (r = q => FrameNow(r)' = FrameNow(r))
  <2>1. pc'[p] # "receive"
    BY <1>1 DEF Types, StateTypes
  <2>2. Reads(p)' => Reads(p)
    BY <1>1, <1>2, <2>1 DEF Reads
  <2>3. Reads(q)' => Reads(q)
    BY <1>1, <1>2, <1>5 DEF Reads
  <2>4. FrameNow(q)' = FrameNow(q)
    BY <1>5 DEF FrameNow
  <2> QED BY <1>3, <2>2, <2>3, <2>4
<1>8. OnTheWay'
  <2>1. ASSUME Reads(p)'
        PROVE  \A i \in ListsAt(wire'[p]) :
                 OnWay(p, Read(p) + Before(wire[p], i) + 1, wire[p][i].events)'
    <3>1. Live(q) => Live(q)' /\ Extends(q)
      BY <1>5, Sequence DEF Extends, Types, HistoryTypes
    <3>2. SameSlots(q)
      BY <1>5, <1>7 DEF SameSlots
    <3>3. \A n \in Nat \ {0} : ~ (n <= Read(q)')
      BY <1>5, <1>6
    <3>4. \A n : Slot(q, n)' = Slot(q, n)
      BY <3>2, SlotsStay
    <3> QED BY <1>2, <1>4, <1>5, <1>7, <2>1, <3>1, <3>3, <3>4, WireStays DEF Contents
  <2>2. ASSUME Reads(q)' PROVE ListsAt(wire'[q]) = {}
    <3>1. Reads(q)
      BY <1>7, <2>2
    <3>2. \A j \in ListsAt(wire[q]) : Live(p)
      BY <1>3, <3>1 DEF Contents, OnTheWay, OnWay
    <3>3. ListsAt(wire[q]) = {}
      BY <1>2, <3>2
    <3> QED BY <1>2, <3>3 DEF Among
  <2>3. ASSUME NEW r \in Peers, Reads(r)'
        PROVE  \A i \in ListsAt(wire'[r]) :
                 OnWay(r, Read(r) + Before(wire[r], i) + 1, wire[r][i].events)'
    BY <1>3, <2>1, <2>2, <2>3
  <2> QED BY <2>3 DEF OnTheWay
<1>9. Buffers'
  <2>1. BufferOf(p)'
    <3>1. recorded'[p] = <<>> /\ Len(recorded'[p]) = 0 /\ typed'[p] = <<>> /\ pc'[p] = "run"
      <4>1. recorded'[p] = <<>> /\ pc'[p] = "run" /\ Len(<<>>) = 0
        BY <1>1 DEF Types, StateTypes, HistoryTypes
      <4>2. typed'[p] = <<>>
        BY <1>1 DEF Contents, SlotsAreLists
      <4> QED BY <4>1, <4>2
    <3>2. list'[p][current'[p]] = <<>>
      <4>1. list'[p] = [i \in 0 .. d - 1 |-> <<>>] /\ current'[p] = 0
        BY <1>1 DEF Types, FrameTypes
      <4>2. 0 \in 0 .. d - 1
        BY NetplayAssumption
      <4> QED BY <4>1, <4>2
    <3> QED BY <3>1, <3>2, PlaybackNothing DEF BufferOf
  <2>2. ASSUME Live(q)', Reads(q)' PROVE BufferOf(q)'
    <3>1. BufferOf(q)
      BY <1>5, <1>7, <2>2 DEF Contents, Buffers
    <3>2. SameSlots(q)
      BY <1>5, <1>7 DEF SameSlots
    <3>3. \A n : Slot(q, n)' = Slot(q, n)
      BY <3>2, SlotsStay
    <3> QED BY <1>5, <1>7, <3>1, <3>3 DEF BufferOf
  <2> QED BY <1>3, <2>1, <2>2 DEF Buffers
<1>10. Waiting'
  <2>1. pc'[p] = "run"
    BY <1>1 DEF Types, StateTypes
  <2> QED BY <1>3, <1>5, <2>1 DEF Contents, Waiting
<1>11. PlayedSent'
  BY <1>3, <1>4, <1>5, <1>6 DEF Contents, PlayedSent
<1>12. ~syncLost[p] /\ ~syncLost[q]
  BY <1>2, <1>6 DEF Contents, LostOnes
<1>13. LostOnes' /\ Agreement'
  BY <1>1, <1>3, <1>12 DEF LostOnes, Agreement
<1>14. SlotsAreLists'
  <2>1. list'[p] = [i \in 0 .. d - 1 |-> <<>>]
    BY <1>1 DEF Types, FrameTypes
  <2>2. IsSeq(<<>>)
    BY EmptySeq DEF IsSeq
  <2>3. \A i \in DOMAIN list'[p] : IsSeq(list'[p][i])
    BY <2>1, <2>2
  <2>4. \A i \in DOMAIN list'[q] : IsSeq(list'[q][i])
    BY <1>5 DEF Contents, SlotsAreLists
  <2>5. DOMAIN typed' = Peers
    BY <1>1 DEF Contents, SlotsAreLists
  <2> QED BY <1>3, <2>3, <2>4, <2>5 DEF SlotsAreLists
<1> QED BY <1>8, <1>9, <1>10, <1>11, <1>13, <1>14 DEF Contents

\* A slot that is filled or cleared holds a list, as all the others.
LEMMA SlotListsKept ==
  ASSUME Types, SlotsAreLists, NEW p \in Peers, NEW i, NEW x, IsSeq(x),
         list' = [list EXCEPT ![p][i] = x]
  PROVE  \A q \in Peers : \A j \in DOMAIN list'[q] : IsSeq(list'[q][j])
<1>1. list'[p] = [list[p] EXCEPT ![i] = x] /\ \A q \in Peers : q # p => list'[q] = list[q]
  BY DEF Types, FrameTypes
<1>2. \A j \in DOMAIN list'[p] : IsSeq(list'[p][j])
  BY <1>1 DEF SlotsAreLists
<1>3. \A q \in Peers : q # p => \A j \in DOMAIN list'[q] : IsSeq(list'[q][j])
  BY <1>1 DEF SlotsAreLists
<1> QED BY <1>2, <1>3

\* What leaves the buffers of a peer what they were.
SameBuffers(p) ==
  /\ SameSlots(p) /\ typed'[p] = typed[p] /\ toPlay'[p] = toPlay[p]
  /\ recorded'[p] = recorded[p] /\ (pc'[p] = "receive") = (pc[p] = "receive")

\* Then they are what they were.
LEMMA BufferStays == ASSUME NEW p, SameBuffers(p), BufferOf(p) PROVE BufferOf(p)'
<1>1. \A n : Slot(p, n)' = Slot(p, n)
  BY SlotsStay DEF SameBuffers
<1> QED BY <1>1 DEF SameBuffers, SameSlots, BufferOf

-----------------------------------------------------------------------------
(* An input, and the test for sync, go into the current slot. *)
Adds(p, x) ==
  /\ pc[p] = "run" /\ list[p] # <<>>
  /\ list' = [list EXCEPT ![p][current[p]] = Append(@, x)]
  /\ typed' = IF x.what = "sync" THEN typed ELSE [typed EXCEPT ![p] = Append(@, x)]
  /\ UNCHANGED <<pc, sock, broken, wire, delta, current, toPlay, full, recorded, played,
                 session, sessions, syncLost>>

\* Both actions do that.
LEMMA InputAdds ==
  ASSUME AtPlaces, NEW p \in Peers, (\E e \in Inputs : GiveInput(p, e)) \/ RecordSyncTest(p)
  PROVE  \E x : Adds(p, x)
<1>1. ASSUME NEW e \in Inputs, GiveInput(p, e) PROVE Adds(p, Input(e))
  <2>1. Input(e).what # "sync"
    BY NetplayAssumption DEF Input
  <2> QED BY <1>1, <2>1 DEF GiveInput, Adds, Running, sockets, machines, UserActs
<1>2. ASSUME RecordSyncTest(p) PROVE \E x : Adds(p, x)
  <2> PICK shows \in {FALSE, drift[p]} :
        list' = [list EXCEPT ![p][current[p]] = Append(@, SyncTest(p, shows))]
    BY <1>2 DEF RecordSyncTest
  <2>1. SyncTest(p, shows).what = "sync"
    BY DEF SyncTest
  <2>2. Adds(p, SyncTest(p, shows))
    <3>1. pc[p] = "run" /\ list[p] # <<>>
      BY <1>2 DEF RecordSyncTest, Running, AtPlaces
    <3>2. UNCHANGED <<pc, sock, broken, wire, delta, current, toPlay, full, recorded, played,
                 session, sessions, syncLost, typed>>
      BY <1>2 DEF RecordSyncTest, sockets, machines, histories, counters
    <3> QED BY <2>1, <3>1, <3>2 DEF Adds
  <2> QED BY <2>2
<1> QED BY <1>1, <1>2

\* What is added is in the list of the frame that runs, and typed, or a test for sync;
\* the frames that are on their way or recorded are not touched.
LEMMA AddKeeps ==
  ASSUME Types, Types', Phases, Pace, Contents, NEW p \in Peers, NEW x, Adds(p, x)
  PROVE  Contents'
<1> PICK q \in Peers : q = Other(p)
  BY Two
<1>a. q # p /\ Other(q) = p /\ \A r \in Peers : r = p \/ r = q
  BY Two
<1>1. /\ pc[p] = "run" /\ list[p] # <<>>
      /\ UNCHANGED <<pc, sock, broken, wire, delta, current, toPlay, full, recorded, played,
                     session, sessions, syncLost>>
  BY DEF Adds
<1>2. \A r \in Peers : /\ Live(r)' = Live(r) /\ Read(r)' = Read(r) /\ Sent(r)' = Sent(r)
                       /\ FrameNow(r)' = FrameNow(r) /\ Reads(r)' = Reads(r)
  BY <1>1 DEF Live, Read, Sent, FrameNow, Reads
<1>3. Ready(p)
  BY <1>1, ReadyIs
<1> PICK l : l = Append(list[p][current[p]], x)
  OBVIOUS
<1>4. list' = [list EXCEPT ![p][current[p]] = l]
  BY DEF Adds
<1>5. FrameNow(p) = Len(recorded[p]) + 1 /\ FrameNow(p) \in Nat
  BY <1>1, <1>3 DEF FrameNow, Ready
<1>6. /\ \A n \in Nat : n < FrameNow(p) /\ n + delta[p] > FrameNow(p) =>
              Slot(p, n)' = Slot(p, n)
      /\ list'[p][current[p]] = l
      /\ list'[q] = list[q]
  BY <1>a, <1>1, <1>2, <1>3, <1>4, <1>5, SlotsBesides
<1>7. typed'[q] = typed[q] /\ SameSlots(q) /\ SameBuffers(q)
  <2>1. typed'[q] = typed[q]
    BY <1>a DEF Adds, Contents, SlotsAreLists
  <2> QED BY <1>1, <1>2, <1>6, <2>1 DEF SameSlots, SameBuffers
<1>8. ASSUME Live(p), Reads(p), NEW n \in Nat, n > Read(p), n <= Len(recorded[p])
      PROVE  Slot(p, n)' = Slot(p, n)
  <2>1. Ahead(p)
    BY <1>8, AheadIs DEF Contents
  <2>2. n + delta[p] > FrameNow(p)
    BY <1>8, <2>1, InSlots
  <2>3. n < FrameNow(p)
    BY <1>3, <1>5, <1>8 DEF Ready
  <2> QED BY <1>6, <2>2, <2>3
<1>9. OnTheWay'
  <2>1. ASSUME Reads(p)
        PROVE  \A i \in ListsAt(wire'[p]) :
                 OnWay(p, Read(p) + Before(wire[p], i) + 1, wire[p][i].events)'
    <3>1. Live(q) => Live(q)' /\ Extends(q)
      BY <1>1, <1>2, Sequence DEF Extends, Types, HistoryTypes
    <3>2. \A n : Slot(q, n)' = Slot(q, n)
      BY <1>7, SlotsStay
    <3>3. ASSUME NEW n \in Nat \ {0}, n > Read(p), Live(p), n <= Read(q)
          PROVE  Slot(p, n)' = Slot(p, n)
      <4>1. Read(q) <= Len(recorded[p])
        BY <1>a, <3>3 DEF Contents, PlayedSent, Sent
      <4>2. n <= Len(recorded[p]) /\ n \in Nat
        BY <1>3, <3>3, <4>1, Sequence DEF Ready, Read, Types, HistoryTypes
      <4> QED BY <1>8, <2>1, <3>3, <4>2
    <3>4. Among(wire'[p], wire[p])
      BY <1>1, AmongItself
    <3> QED BY <1>1, <1>2, <2>1, <3>1, <3>2, <3>3, <3>4, WireStays DEF Contents
  <2>2. ASSUME Reads(q)
        PROVE  \A i \in ListsAt(wire'[q]) :
                 OnWay(q, Read(q) + Before(wire[q], i) + 1, wire[q][i].events)'
    <3>1. Live(p) => Live(p)' /\ Extends(p)
      BY <1>1, <1>2, Sequence DEF Extends, Types, HistoryTypes
    <3>2. \A n : Slot(q, n)' = Slot(q, n)
      BY <1>7, SlotsStay
    <3>3. ASSUME NEW n \in Nat \ {0}, n > Read(p), Live(p), n <= Len(recorded[p]), Reads(p)
          PROVE  Slot(p, n)' = Slot(p, n)
      BY <1>8, <3>3
    <3>4. Among(wire'[q], wire[q])
      BY <1>1, AmongItself
    <3> QED BY <1>a, <1>1, <1>2, <2>2, <3>1, <3>2, <3>3, <3>4, WireStays DEF Contents
  <2>3. ASSUME NEW r \in Peers, Reads(r)'
        PROVE  \A i \in ListsAt(wire'[r]) :
                 OnWay(r, Read(r) + Before(wire[r], i) + 1, wire[r][i].events)'
    BY <1>a, <1>2, <2>1, <2>2, <2>3
  <2> QED BY <2>3 DEF OnTheWay
<1>10. Buffers'
  <2>1. ASSUME Live(p), Reads(p) PROVE BufferOf(p)'
    <3>1. BufferOf(p)
      BY <2>1 DEF Contents, Buffers
    <3>2. \A n \in 1 .. Len(recorded[p]) :
            n + delta[p] > FrameNow(p) => Playback(Slot(p, n)') = recorded[p][n]
      <4>1. \A n \in 1 .. Len(recorded[p]) : n \in Nat /\ n < FrameNow(p)
        BY <1>3, <1>5 DEF Ready
      <4> QED BY <1>6, <3>1, <4>1 DEF BufferOf
    <3>3. Playback(list'[p][current[p]]) = typed'[p]
      <4>1. Playback(list[p][current[p]]) = typed[p]
        BY <1>1, <3>1 DEF BufferOf
      <4>2. IsSeq(list[p][current[p]])
        BY <1>3 DEF Contents, SlotsAreLists, Ready
      <4>3. Playback(l) = IF x.what = "sync" THEN typed[p] ELSE Append(typed[p], x)
        BY <4>1, <4>2, PlaybackMore
      <4>4. typed'[p] = IF x.what = "sync" THEN typed[p] ELSE Append(typed[p], x)
        BY DEF Adds, Contents, SlotsAreLists
      <4> QED BY <1>6, <4>3, <4>4
    <3> QED BY <1>1, <1>2, <3>1, <3>2, <3>3 DEF BufferOf
  <2>2. ASSUME Live(q), Reads(q) PROVE BufferOf(q)'
    BY <1>7, <2>2, BufferStays DEF Contents, Buffers
  <2>3. ASSUME NEW r \in Peers, Live(r)', Reads(r)' PROVE BufferOf(r)'
    BY <1>a, <1>2, <2>1, <2>2, <2>3
  <2> QED BY <2>3 DEF Buffers
<1>11. Waiting'
  BY <1>1, <1>2 DEF Contents, Waiting
<1>12. PlayedSent'
  BY <1>2, Two DEF Contents, PlayedSent
<1>13. LostOnes' /\ Agreement'
  BY <1>1, <1>2, Two DEF Contents, LostOnes, Agreement
<1>14. SlotsAreLists'
  <2>1. IsSeq(l)
    BY <1>3, Sequence DEF Contents, SlotsAreLists, Ready
  <2>2. \A r \in Peers : \A j \in DOMAIN list'[r] : IsSeq(list'[r][j])
    BY <1>4, <2>1, SlotListsKept DEF Contents
  <2>3. DOMAIN typed' = Peers
    BY DEF Adds, Contents, SlotsAreLists
  <2> QED BY <2>2, <2>3 DEF SlotsAreLists
<1> QED BY <1>9, <1>10, <1>11, <1>12, <1>13, <1>14 DEF Contents

-----------------------------------------------------------------------------
(* The end of a frame. *)

\* What a hook does to the lists of its peer, whether its own list can be sent or not.
Closes(p) ==
  /\ pc[p] = "run" /\ list[p] # <<>> /\ Connected(p)
  /\ recorded' = [recorded EXCEPT ![p] = Append(@, typed[p])]
  /\ typed' = [typed EXCEPT ![p] = <<>>]
  /\ full' = [full EXCEPT ![p] = Fills(p)]
  /\ IF Fills(p) THEN UNCHANGED <<list, delta, current, toPlay>> ELSE PrepareNextFrame(p)
  /\ \A q \in Peers : q # p => pc'[q] = pc[q]
  /\ UNCHANGED <<syncLost, played, session, sessions>>

\* Both hooks do it.
LEMMA HookCloses ==
  ASSUME StateTypes, NEW p \in Peers, Hook(p) \/ HookSendFails(p)
  PROVE  Closes(p)
<1>1. CASE Hook(p)
  <2>1. \A q \in Peers : q # p => pc'[q] = pc[q]
    BY <1>1 DEF Hook, Goto, StateTypes
  <2> QED BY <1>1, <2>1
       DEF Closes, Hook, AtHook, AtBoundary, Running, CloseFrame, machines, counters
<1>2. CASE HookSendFails(p)
  <2>1. \A q \in Peers : q # p => pc'[q] = pc[q]
    BY <1>2 DEF HookSendFails, Disconnect, Goto, StateTypes
  <2> QED BY <1>2, <2>1
       DEF Closes, HookSendFails, AtHook, AtBoundary, Running, CloseFrame, machines, counters
<1> QED BY <1>1, <1>2

\* The frame that ends is recorded, and the rest stays.
Recorded(p) ==
  /\ Extends(p) /\ Len(recorded'[p]) = Len(recorded[p]) + 1
  /\ recorded'[p][Len(recorded[p]) + 1] = typed[p] /\ typed'[p] = <<>>
  /\ full'[p] = Fills(p) /\ delta'[p] = delta[p]
  /\ \A r \in Peers : Live(r)' = Live(r) /\ Read(r)' = Read(r) /\ Sent(r) <= Sent(r)'
  /\ SameBuffers(Other(p)) /\ Extends(Other(p)) /\ pc'[Other(p)] = pc[Other(p)]
  /\ full'[Other(p)] = full[Other(p)]
  /\ UNCHANGED <<syncLost, played, delta>>
  /\ SlotsAreLists'

\* So it is recorded.
LEMMA ClosesIs ==
  ASSUME Types, SlotsAreLists, NEW p \in Peers, Closes(p)
  PROVE  Recorded(p)
<1> PICK q \in Peers : q = Other(p)
  BY Two
<1>a. q # p /\ \A r \in Peers : r = p \/ r = q
  BY Two
<1>1. /\ recorded'[p] = Append(recorded[p], typed[p]) /\ recorded'[q] = recorded[q]
      /\ typed'[p] = <<>> /\ typed'[q] = typed[q] /\ DOMAIN typed' = Peers
      /\ full'[p] = Fills(p) /\ full'[q] = full[q] /\ pc'[q] = pc[q]
      /\ UNCHANGED <<syncLost, played, session, sessions, delta>>
  BY <1>a DEF Closes, PrepareNextFrame, Types, StateTypes, HistoryTypes, SlotsAreLists
<1>2. list'[q] = list[q] /\ current'[q] = current[q] /\ toPlay'[q] = toPlay[q]
  BY <1>a DEF Closes, PrepareNextFrame, Types, FrameTypes
<1>3. /\ Len(recorded'[p]) = Len(recorded[p]) + 1 /\ Len(recorded[p]) \in Nat
      /\ Len(recorded[q]) \in Nat
  BY <1>1, Sequence DEF Types, HistoryTypes
<1>4. /\ \A n \in 1 .. Len(recorded[p]) : recorded'[p][n] = recorded[p][n]
      /\ recorded'[p][Len(recorded[p]) + 1] = typed[p]
  <2> DEFINE S == Range(recorded[p]) \cup {typed[p]}
  <2>1. recorded[p] \in Seq(S) /\ typed[p] \in S
    BY SeqMonotonic DEF IsSeq, Types, HistoryTypes
  <2> QED BY <1>1, <2>1, AppendProperties
<1>5. Extends(p) /\ Extends(q)
  BY <1>1, <1>3, <1>4 DEF Extends
<1>6. \A r \in Peers : Live(r)' = Live(r) /\ Read(r)' = Read(r) /\ Sent(r) <= Sent(r)'
  <2>1. \A r \in Peers : Live(r)' = Live(r) /\ Read(r)' = Read(r)
    BY <1>1 DEF Live, Read
  <2>2. \A r \in Peers : Len(recorded[r]) <= Len(recorded'[r])
    BY <1>a, <1>1, <1>3
  <2> QED BY <2>1, <2>2 DEF Sent
<1>7. SameBuffers(q)
  BY <1>1, <1>2 DEF SameBuffers, SameSlots, FrameNow
<1>8. SlotsAreLists'
  <2>1. CASE Fills(p)
    BY <1>1, <2>1 DEF Closes, SlotsAreLists
  <2>2. CASE ~Fills(p)
    <3> PICK i : i = (current[p] + 1) % delta[p]
      OBVIOUS
    <3>1. list' = [list EXCEPT ![p][i] = <<>>]
      BY <2>2 DEF Closes, PrepareNextFrame
    <3>2. IsSeq(<<>>)
      BY EmptySeq DEF IsSeq
    <3>3. \A r \in Peers : \A j \in DOMAIN list'[r] : IsSeq(list'[r][j])
      BY <3>1, <3>2, SlotListsKept
    <3> QED BY <1>1, <3>3 DEF SlotsAreLists
  <2> QED BY <2>1, <2>2
<1> QED BY <1>1, <1>3, <1>4, <1>5, <1>6, <1>7, <1>8 DEF Recorded

\* A frame that ends stays in its slot, with those that are not played yet.
KeepsSlots(p) ==
  /\ \A n \in Nat : n <= Len(recorded[p]) /\ n + delta[p] > FrameNow(p)' =>
       Slot(p, n)' = Slot(p, n) /\ n + delta[p] > FrameNow(p)
  /\ \A n \in Nat : n > Read(p) /\ n <= Len(recorded[p]) => n + delta[p] > FrameNow(p)'
  /\ \A n \in Nat : n = Len(recorded[p]) + 1 => Slot(p, n)' = list[p][current[p]]

\* Whether the buffer was full with it or not.
LEMMA SlotsKept ==
  ASSUME Types, NEW p \in Peers, Closes(p), Recorded(p), Ahead(p), pc'[p] \in {"run", "receive"},
         pc'[p] = "receive" <=> Fills(p)
  PROVE  /\ KeepsSlots(p)
         /\ Fills(p) => Len(recorded'[p]) = Len(played'[p]) + delta'[p] /\ Len(recorded[p]) > 0
         /\ ~Fills(p) => /\ list'[p][current'[p]] = <<>>
                         /\ toPlay'[p] = SlotAfter(current'[p], delta'[p])
<1> PICK R \in Nat : R = Len(recorded[p])
  BY DEF Ahead, Ready
<1>1. /\ Ready(p) /\ pc[p] = "run" /\ FrameNow(p) = R + 1
      /\ Read(p) = Len(played[p]) /\ Read(p) <= R
      /\ IF full[p] THEN FrameNow(p) = Read(p) + delta[p]
                    ELSE Read(p) = 0 /\ FrameNow(p) = current[p] + 1
  BY DEF Ahead, Closes
<1>2. /\ delta[p] \in Nat \ {0, 1} /\ current[p] \in 0 .. delta[p] - 1 /\ Read(p) \in Nat
      /\ DOMAIN list[p] = 0 .. delta[p] - 1
  BY <1>1 DEF Ready
<1>3. Len(recorded'[p]) = R + 1 /\ played' = played /\ delta' = delta /\ Read(p)' = Read(p)
  BY DEF Recorded
<1>4. \A n \in Nat : n > Read(p) => n + delta[p] > FrameNow(p)
  BY InSlots
<1>5. CASE Fills(p)
  <2>1. FrameNow(p)' = R + 1 /\ list' = list /\ current' = current
    BY <1>3, <1>5 DEF FrameNow, Closes
  <2>2. SameSlots(p)
    BY <1>1, <1>3, <2>1 DEF SameSlots
  <2>3. \A n : Slot(p, n)' = Slot(p, n)
    BY <2>2, SlotsStay
  <2>4. Slot(p, R + 1) = list[p][current[p]]
    <3>1. (R + 1) - (R + 1) = 0 /\ 0 \in Nat
      OBVIOUS
    <3>2. SlotBefore(current[p], delta[p], 0) = current[p]
      BY <1>2, Shifts
    <3> QED BY <1>1, <3>1, <3>2 DEF Slot
  <2>5. R + 1 = Read(p) + delta[p] /\ R > 0
    BY <1>1, <1>2, <1>5 DEF Fills
  <2>6. KeepsSlots(p)
    <3>1. \A n : Slot(p, n)' = Slot(p, n) /\ FrameNow(p)' = FrameNow(p)
      BY <1>1, <2>1, <2>3
    <3>2. Slot(p, R + 1)' = list[p][current[p]]
      BY <2>3, <2>4
    <3> QED BY <1>1, <1>4, <3>1, <3>2 DEF KeepsSlots
  <2>7. Len(recorded'[p]) = Len(played'[p]) + delta'[p] /\ Len(recorded[p]) > 0
    BY <1>1, <1>3, <2>5
  <2> QED BY <1>5, <2>6, <2>7
<1>6. CASE ~Fills(p)
  <2>1. FrameNow(p)' = FrameNow(p) + 1 /\ PrepareNextFrame(p) /\ FrameNow(p) \in Nat
    <3>1. pc'[p] # "receive" /\ PrepareNextFrame(p)
      BY <1>6 DEF Closes
    <3> QED BY <1>1, <1>3, <3>1 DEF FrameNow
  <2>2. ~full[p] /\ current[p] # delta[p] - 1 /\ Read(p) = 0 /\ R + 1 = current[p] + 1
    BY <1>1, <1>6 DEF Fills
  <2>3. /\ \A n \in Nat : n <= FrameNow(p) /\ n + delta[p] > FrameNow(p) + 1 =>
              Slot(p, n)' = Slot(p, n)
        /\ Slot(p, FrameNow(p)) = list[p][current[p]]
        /\ list'[p][current'[p]] = <<>>
        /\ toPlay'[p] = SlotAfter(current'[p], delta'[p])
    BY <1>1, <2>1, SlotsAdvance
  <2>4. \A n \in Nat : n > 0 => n + delta[p] > R + 2
    BY <1>2, <2>2
  <2>5. KeepsSlots(p)
    <3>1. ASSUME NEW n \in Nat, n <= R, n + delta[p] > FrameNow(p)'
          PROVE  Slot(p, n)' = Slot(p, n) /\ n + delta[p] > FrameNow(p)
      <4>1. n <= FrameNow(p) /\ n + delta[p] > FrameNow(p) + 1
        BY <1>1, <2>1, <3>1
      <4>2. n + delta[p] > FrameNow(p)
        BY <1>2, <2>1, <4>1
      <4> QED BY <2>3, <4>1, <4>2
    <3>2. ASSUME NEW n \in Nat, n > Read(p), n <= R PROVE n + delta[p] > FrameNow(p)'
      BY <1>1, <2>1, <2>2, <2>4, <3>2
    <3>3. Slot(p, R + 1)' = list[p][current[p]]
      <4>1. R + 1 \in Nat /\ R + 1 <= FrameNow(p) /\ (R + 1) + delta[p] > FrameNow(p) + 1
        BY <1>1, <1>2
      <4>2. Slot(p, R + 1)' = Slot(p, R + 1)
        BY <2>3, <4>1
      <4>3. Slot(p, R + 1) = list[p][current[p]]
        BY <1>1, <2>3
      <4> QED BY <4>2, <4>3
    <3> QED BY <3>1, <3>2, <3>3 DEF KeepsSlots
  <2> QED BY <1>6, <2>3, <2>5
<1> QED BY <1>5, <1>6

\* The buffer of the peer whose frame ends.
LEMMA BufferGrows ==
  ASSUME Types, NEW p \in Peers, Closes(p), Recorded(p), Ahead(p), BufferOf(p),
         pc'[p] \in {"run", "receive"}, pc'[p] = "receive" <=> Fills(p)
  PROVE  BufferOf(p)'
<1> PICK R \in Nat : R = Len(recorded[p])
  BY DEF Ahead, Ready
<1>1. /\ KeepsSlots(p)
      /\ Fills(p) => Len(recorded'[p]) = Len(played'[p]) + delta'[p] /\ Len(recorded[p]) > 0
      /\ ~Fills(p) => /\ list'[p][current'[p]] = <<>>
                      /\ toPlay'[p] = SlotAfter(current'[p], delta'[p])
  BY SlotsKept
<1>2. /\ Len(recorded'[p]) = R + 1 /\ delta' = delta /\ typed'[p] = <<>>
      /\ \A n \in 1 .. R : recorded'[p][n] = recorded[p][n]
      /\ recorded'[p][R + 1] = typed[p]
  BY DEF Recorded, Extends
<1>3. pc[p] = "run" /\ Playback(list[p][current[p]]) = typed[p]
  BY DEF BufferOf, Closes
<1>4. ASSUME NEW n \in 1 .. R + 1, n + delta'[p] > FrameNow(p)'
      PROVE  Playback(Slot(p, n)') = recorded'[p][n]
  <2>1. CASE n = R + 1
    BY <1>1, <1>2, <1>3, <2>1 DEF KeepsSlots
  <2>2. CASE n # R + 1
    <3>1. n \in 1 .. R /\ n \in Nat /\ n <= R
      BY <2>2
    <3>2. Slot(p, n)' = Slot(p, n) /\ n + delta[p] > FrameNow(p)
      BY <1>1, <1>2, <1>4, <3>1 DEF KeepsSlots
    <3>3. Playback(Slot(p, n)) = recorded[p][n]
      BY <3>1, <3>2 DEF BufferOf
    <3> QED BY <1>2, <3>1, <3>2, <3>3
  <2> QED BY <2>1, <2>2
<1>5. pc'[p] # "receive" => Playback(list'[p][current'[p]]) = typed'[p]
  BY <1>1, <1>2, PlaybackNothing
<1>6. toPlay'[p] = SlotAfter(current'[p], delta'[p])
  <2>1. CASE Fills(p)
    <3>1. toPlay' = toPlay /\ current' = current /\ delta' = delta
      BY <2>1 DEF Closes
    <3>2. toPlay[p] = SlotAfter(current[p], delta[p])
      BY <1>1, <2>1 DEF BufferOf
    <3> QED BY <3>1, <3>2
  <2> QED BY <1>1, <2>1
<1>7. \A n \in 1 .. Len(recorded'[p]) :
        n + delta'[p] > FrameNow(p)' => Playback(Slot(p, n)') = recorded'[p][n]
  BY <1>2, <1>4
<1> QED BY <1>2, <1>5, <1>6, <1>7 DEF BufferOf

\* The list of a frame that ends is sent; it is the next one that the other peer plays.
LEMMA HookKeeps ==
  ASSUME Types, Types', Phases, Pace, Counts, Contents, NEW p \in Peers, Hook(p)
  PROVE  Contents'
<1> PICK q \in Peers : q = Other(p)
  BY Two
<1>a. q # p /\ Other(q) = p /\ \A r \in Peers : r = p \/ r = q
  BY Two
<1>1. Closes(p)
  BY HookCloses DEF Types
<1>2. Recorded(p)
  BY <1>1, ClosesIs DEF Contents
<1>3. /\ pc[p] = "run" /\ sock[p] = "open" /\ ~broken /\ sock' = sock
      /\ pc' = IF Fills(p) THEN [pc EXCEPT ![p] = "receive"] ELSE pc
  BY <1>1 DEF Hook, SendFails, Closes, Goto
<1>4. Live(p) /\ Reads(p) /\ Connected(p)
  BY <1>1, <1>3 DEF Phases, SessionsOrdered, Plays, Reads, Closes
<1>5. Ahead(p)
  BY <1>4, AheadIs DEF Contents
<1>6. BufferOf(p)
  BY <1>4 DEF Contents, Buffers
<1>7. pc'[p] \in {"run", "receive"} /\ (pc'[p] = "receive" <=> Fills(p))
  BY <1>3 DEF Types, StateTypes
<1> PICK R \in Nat : R = Len(recorded[p])
  BY <1>5 DEF Ahead, Ready
<1>8. /\ KeepsSlots(p)
      /\ Fills(p) => Len(recorded'[p]) = Len(played'[p]) + delta'[p] /\ Len(recorded[p]) > 0
      /\ ~Fills(p) => /\ list'[p][current'[p]] = <<>>
                      /\ toPlay'[p] = SlotAfter(current'[p], delta'[p])
  BY <1>1, <1>2, <1>5, <1>7, SlotsKept
<1>9. BufferOf(p)'
  BY <1>1, <1>2, <1>5, <1>6, <1>7, BufferGrows
<1>10. /\ \A r \in Peers : Live(r)' = Live(r) /\ Read(r)' = Read(r) /\ Sent(r) <= Sent(r)'
       /\ SameBuffers(q) /\ Extends(q) /\ Extends(p) /\ pc'[q] = pc[q] /\ full'[q] = full[q]
       /\ full'[p] = Fills(p)
       /\ syncLost' = syncLost /\ played' = played /\ delta' = delta
       /\ Len(recorded'[p]) = R + 1 /\ recorded'[p][R + 1] = typed[p]
  BY <1>2 DEF Recorded
<1>11. Sent(p) = R /\ Read(p) <= R /\ Read(p) \in Nat
  BY <1>4, <1>5 DEF Sent, Ahead, Ready
<1>12. /\ \A n : Slot(q, n)' = Slot(q, n)
       /\ \A n \in Nat : n > Read(p) /\ n <= R => Slot(p, n)' = Slot(p, n)
       /\ Slot(p, R + 1)' = list[p][current[p]]
  <2>1. SameSlots(q)
    BY <1>10 DEF SameBuffers
  <2>2. R + 1 \in Nat
    OBVIOUS
  <2> QED BY <1>8, <2>1, <2>2, SlotsStay DEF KeepsSlots
<1>13. Reads(q)' => Reads(q)
  BY <1>3, <1>10 DEF Reads
<1>14. /\ Len(recorded[p]) \in Nat /\ Len(recorded'[p]) \in Nat
       /\ Len(recorded[q]) \in Nat /\ Len(recorded'[q]) \in Nat
       /\ Read(q) \in Nat
  BY Sequence DEF Types, HistoryTypes, Read
<1> PICK m : m = ListMessage(list[p][current[p]])
  OBVIOUS
<1>15. m.kind = "list" /\ m.events = list[p][current[p]]
  BY DEF ListMessage, Message
<1>16. /\ wire'[p] = wire[p] /\ IsSeq(wire[q])
       /\ sock[q] = "open" => wire'[q] = wire[q] \o <<m>>
  <2>1. sock[q] = "open" => wire' = [wire EXCEPT ![q] = @ \o <<m>>]
    BY DEF Hook, Send
  <2>2. sock[q] # "open" => wire' = wire
    BY DEF Hook, Send
  <2> QED BY <1>a, <2>1, <2>2 DEF Types, WireTypes, Queue
<1>17. OnTheWay'
  <2>1. \A i \in ListsAt(wire'[p]) :
          OnWay(p, Read(p) + Before(wire[p], i) + 1, wire[p][i].events)'
    <3>1. Among(wire'[p], wire[p])
      BY <1>16, AmongItself
    <3>2. ASSUME NEW n \in Nat \ {0}, n > Read(p), n <= Read(q) PROVE Slot(p, n)' = Slot(p, n)
      <4>1. Read(q) <= R
        BY <1>a, <1>11 DEF Contents, PlayedSent
      <4> QED BY <1>12, <1>14, <3>2, <4>1
    <3> QED BY <1>4, <1>10, <1>12, <1>13, <3>1, <3>2, WireStays DEF Contents
  <2>2. ASSUME Reads(q)', NEW i \in ListsAt(wire'[q])
        PROVE  OnWay(q, Read(q) + Before(wire[q], i) + 1, wire[q][i].events)'
    <3>1. Reads(q) /\ sock[q] = "open" /\ wire'[q] = wire[q] \o <<m>>
      BY <1>3, <1>13, <1>16, <2>2 DEF Reads
    <3>2. \/ i \in ListsAt(wire[q]) /\ wire'[q][i] = wire[q][i]
               /\ Before(wire'[q], i) = Before(wire[q], i)
          \/ wire'[q][i] = m /\ Before(wire'[q], i) = Lists(wire[q])
      <4>1. \A j \in ListsAt(wire[q] \o <<m>>) :
              \/ j \in ListsAt(wire[q]) /\ (wire[q] \o <<m>>)[j] = wire[q][j]
                   /\ Before(wire[q] \o <<m>>, j) = Before(wire[q], j)
              \/ (wire[q] \o <<m>>)[j] = m /\ Before(wire[q] \o <<m>>, j) = Lists(wire[q])
        BY <1>16, SendsOne
      <4> QED BY <2>2, <3>1, <4>1
    <3> PICK n : n = (Read(q) + Before(wire[q], i) + 1)'
      OBVIOUS
    <3> PICK e : e = (wire[q][i].events)'
      OBVIOUS
    <3>3. Read(q)' = Read(q)
      BY <1>10
    <3>4. CASE i \in ListsAt(wire[q]) /\ wire'[q][i] = wire[q][i]
               /\ Before(wire'[q], i) = Before(wire[q], i)
      <4>1. Listed(q, n, e)
        BY <3>3, <3>4 DEF Listed
      <4>2. OnWay(q, n, e) /\ n \in Nat \ {0} /\ Live(p) /\ n <= R
        BY <1>a, <3>1, <4>1, ListedIs DEF Contents
      <4>3. Reads(p)' /\ n > Read(p)' => Reads(p) /\ n > Read(p) /\ Slot(p, n)' = Slot(p, n)
        BY <1>4, <1>10, <1>12, <4>2
      <4>4. Live(q)' /\ n <= Read(p)' =>
              /\ Live(q) /\ n <= Read(p) /\ Slot(q, n)' = Slot(q, n)
              /\ syncLost'[p] /\ n = Read(p)' <=> syncLost[p] /\ n = Read(p)
        BY <1>10, <1>12
      <4>5. OnWay(q, n, e)'
        BY <1>a, <1>4, <1>10, <1>14, <4>2, <4>3, <4>4, OnWayStays
      <4> QED BY <4>5 DEF OnWay
    <3>5. CASE wire'[q][i] = m /\ Before(wire'[q], i) = Lists(wire[q])
      <4>1. Read(q) + Lists(wire[q]) = R
        BY <1>a, <1>3, <1>11, <3>1 DEF Counts, Balance
      <4>2. n = R + 1
        <5>1. Lists(wire[q]) \in Nat
          BY <1>16, ListsType
        <5> QED BY <1>14, <3>3, <3>5, <4>1, <5>1
      <4>3. e = list[p][current[p]]
        BY <1>15, <3>5
      <4>4. Live(p)' /\ n <= Len(recorded'[p]) /\ Playback(e) = recorded'[p][n]
        <5>1. Playback(e) = typed[p]
          BY <1>3, <1>6, <4>3 DEF BufferOf
        <5> QED BY <1>4, <1>10, <4>2, <5>1
      <4>5. e = Slot(p, n)'
        BY <1>12, <4>2, <4>3
      <4>6. ~ (n <= Read(p)')
        BY <1>10, <1>11, <4>2
      <4>7. OnWay(q, n, e)'
        BY <1>a, <4>4, <4>5, <4>6 DEF OnWay
      <4> QED BY <4>7 DEF OnWay
    <3> QED BY <3>2, <3>4, <3>5
  <2>3. ASSUME NEW r \in Peers, Reads(r)'
        PROVE  \A i \in ListsAt(wire'[r]) :
                 OnWay(r, Read(r) + Before(wire[r], i) + 1, wire[r][i].events)'
    <3>1. CASE r = p
      BY <2>1, <3>1
    <3>2. CASE r = q
      BY <2>2, <2>3, <3>2
    <3> QED BY <1>a, <3>1, <3>2
  <2> QED BY <2>3 DEF OnTheWay
<1>18. Buffers'
  <2>1. ASSUME Live(q)', Reads(q)' PROVE BufferOf(q)'
    <3>1. BufferOf(q)
      BY <1>10, <1>13, <2>1 DEF Contents, Buffers
    <3> QED BY <1>10, <3>1, BufferStays
  <2> QED BY <1>a, <1>9, <2>1 DEF Buffers
<1>19. Waiting'
  <2>1. pc'[p] = "receive" => /\ Live(p)' /\ full'[p]
                              /\ Len(recorded'[p]) = Len(played'[p]) + delta'[p]
    BY <1>4, <1>7, <1>8, <1>10
  <2>2. recorded'[q] = recorded[q]
    BY <1>10 DEF SameBuffers
  <2>3. pc'[q] = "receive" => /\ Live(q)' /\ full'[q]
                              /\ Len(recorded'[q]) = Len(played'[q]) + delta'[q]
    BY <1>10, <2>2 DEF Contents, Waiting
  <2> QED BY <1>a, <2>1, <2>3 DEF Waiting
<1>20. PlayedSent'
  <2>1. Sent(p)' \in Nat /\ Sent(q)' \in Nat /\ Sent(p) \in Nat /\ Sent(q) \in Nat
    BY <1>14 DEF Sent
  <2>2. Read(p)' <= Sent(q)' /\ Read(q)' <= Sent(p)'
    BY <1>a, <1>10, <1>11, <1>14, <2>1 DEF Contents, PlayedSent
  <2> QED BY <1>a, <2>2 DEF PlayedSent
<1>21. LostOnes' /\ Agreement'
  BY <1>3, <1>10, Two DEF Contents, LostOnes, Agreement
<1>22. SlotsAreLists'
  BY <1>2 DEF Recorded
<1> QED BY <1>17, <1>18, <1>19, <1>20, <1>21, <1>22 DEF Contents

\* A list that cannot be sent: its peer plays no more.
LEMMA HookFailsKeeps ==
  ASSUME Types, Types', Phases, Pace, Contents, NEW p \in Peers, HookSendFails(p)
  PROVE  Contents'
<1> PICK q \in Peers : q = Other(p)
  BY Two
<1>a. q # p /\ Other(q) = p /\ \A r \in Peers : r = p \/ r = q
  BY Two
<1>1. Closes(p)
  BY HookCloses DEF Types
<1>2. Recorded(p)
  BY <1>1, ClosesIs DEF Contents
<1>3. /\ sock' = [sock EXCEPT ![p] = Closed(@)] /\ wire' = [wire EXCEPT ![p] = <<>>]
      /\ broken => broken'
      /\ \E place \in {"run", "aborted"} : pc' = [pc EXCEPT ![p] = place]
  BY DEF HookSendFails, Disconnect, CloseEnd, Goto
<1>4. sock[p] = "open" /\ broken
  <2>1. sock[p] = "open"
    BY <1>1 DEF Closes, Phases, AtPlaces
  <2> QED BY <2>1 DEF HookSendFails, SendFails
<1>5. sock'[p] = "closed" /\ sock'[q] = sock[q] /\ wire'[q] = wire[q] /\ broken'
      /\ pc'[p] # "receive" /\ pc'[q] = pc[q]
  BY <1>a, <1>3, <1>4 DEF Closed, Types, StateTypes, WireTypes
<1>6. ~Reads(p)' /\ (Reads(q)' => Reads(q))
  BY <1>5 DEF Reads
<1>7. /\ \A r \in Peers : Live(r)' = Live(r) /\ Read(r)' = Read(r) /\ Sent(r) <= Sent(r)'
      /\ SameBuffers(q) /\ Extends(p) /\ full'[q] = full[q]
      /\ syncLost' = syncLost /\ played' = played /\ delta' = delta
  BY <1>2 DEF Recorded
<1>8. \A n : Slot(q, n)' = Slot(q, n)
  BY <1>7, SlotsStay DEF SameBuffers
<1>9. OnTheWay'
  <2>1. ASSUME Reads(q)'
        PROVE  \A i \in ListsAt(wire'[q]) :
                 OnWay(q, Read(q) + Before(wire[q], i) + 1, wire[q][i].events)'
    <3>1. Among(wire'[q], wire[q])
      BY <1>5, AmongItself
    <3> QED BY <1>a, <1>6, <1>7, <1>8, <2>1, <3>1, WireStays DEF Contents
  <2>2. ASSUME NEW r \in Peers, Reads(r)'
        PROVE  \A i \in ListsAt(wire'[r]) :
                 OnWay(r, Read(r) + Before(wire[r], i) + 1, wire[r][i].events)'
    BY <1>a, <1>6, <2>1, <2>2
  <2> QED BY <2>2 DEF OnTheWay
<1>10. Buffers'
  <2>1. ASSUME Live(q)', Reads(q)' PROVE BufferOf(q)'
    <3>1. BufferOf(q)
      BY <1>6, <1>7, <2>1 DEF Contents, Buffers
    <3> QED BY <1>7, <3>1, BufferStays
  <2> QED BY <1>a, <1>6, <2>1 DEF Buffers
<1>11. Waiting'
  <2>1. recorded'[q] = recorded[q]
    BY <1>7 DEF SameBuffers
  <2>2. pc'[q] = "receive" => /\ Live(q)' /\ full'[q]
                              /\ Len(recorded'[q]) = Len(played'[q]) + delta'[q]
    BY <1>5, <1>7, <2>1 DEF Contents, Waiting
  <2> QED BY <1>a, <1>5, <2>2 DEF Waiting
<1>12. PlayedSent'
  <2>1. \A r \in Peers : /\ Sent(r)' \in Nat /\ Sent(r) \in Nat /\ Read(r) \in Nat
    BY Sequence DEF Types, HistoryTypes, Sent, Read
  <2>2. Read(p)' <= Sent(q)' /\ Read(q)' <= Sent(p)'
    BY <1>a, <1>7, <2>1 DEF Contents, PlayedSent
  <2> QED BY <1>a, <2>2 DEF PlayedSent
<1>13. LostOnes' /\ Agreement'
  BY <1>a, <1>5, <1>7 DEF Contents, LostOnes, Agreement
<1>14. SlotsAreLists'
  BY <1>2 DEF Recorded
<1> QED BY <1>9, <1>10, <1>11, <1>12, <1>13, <1>14 DEF Contents

-----------------------------------------------------------------------------
(* The list of the other peer. *)

\* What a peer plays when a list arrives: the first frame it has not played.
NextList(p, n, theirs) ==
  /\ pc[p] = "receive" /\ sock[p] = "open" /\ Live(p) /\ Reads(p) /\ Connected(p)
  /\ n = Len(played[p]) + 1 /\ Read(p) = Len(played[p])
  /\ n <= Len(recorded[p]) /\ FrameNow(p) = Len(recorded[p])
  /\ theirs = Head(wire[p]).events /\ Listed(p, n, theirs)
  /\ Playback(Slot(p, n)) = recorded[p][n]
  /\ PlayedLists(p) = Both(p, Slot(p, n), theirs)

\* frame_to_play is the slot of the frame whose list arrives.
LEMMA NextListIs ==
  ASSUME Types, Phases, Pace, Contents, OwnModes, NEW p \in Peers, ReceiveList(p)
  PROVE  NextList(p, Len(played[p]) + 1, Head(wire[p]).events)
<1> PICK n : n = Len(played[p]) + 1
  OBVIOUS
<1> PICK theirs : theirs = Head(wire[p]).events
  OBVIOUS
<1>1. pc[p] = "receive" /\ sock[p] = "open" /\ wire[p] # <<>> /\ Head(wire[p]).kind = "list"
  BY DEF ReceiveList, Arrived
<1>2. Live(p) /\ full[p] /\ Len(recorded[p]) = Len(played[p]) + delta[p] /\ Reads(p)
  BY <1>1 DEF Contents, Waiting, Reads
<1>3. Ahead(p) /\ BufferOf(p)
  BY <1>2, AheadIs DEF Contents, Buffers
<1>4. /\ Ready(p) /\ Read(p) = Len(played[p]) /\ FrameNow(p) = Len(recorded[p]) /\ Connected(p)
      /\ delta[p] \in Nat \ {0, 1} /\ current[p] \in 0 .. delta[p] - 1
      /\ Len(played[p]) \in Nat /\ Len(recorded[p]) \in Nat
  BY <1>1, <1>3 DEF Ahead, Ready
<1>5. n \in 1 .. Len(recorded[p]) /\ n + delta[p] > FrameNow(p)
      /\ FrameNow(p) - n = delta[p] - 1 /\ Len(recorded[p]) > 0
  BY <1>2, <1>4
<1>6. Playback(Slot(p, n)) = recorded[p][n]
  BY <1>3, <1>5 DEF BufferOf
<1>7. OurList(p) = Slot(p, n)
  <2>1. SlotBefore(current[p], delta[p], delta[p] - 1) = SlotAfter(current[p], delta[p])
    BY <1>4 DEF SlotBefore, SlotAfter
  <2>2. toPlay[p] = SlotAfter(current[p], delta[p])
    BY <1>3, <1>5 DEF BufferOf
  <2> QED BY <1>5, <2>1, <2>2 DEF OurList, Slot
<1>8. mode[p] = "server_connected" <=> p = "server"
  BY <1>4 DEF Connected, OwnModes, Peers
<1>9. PlayedLists(p) = Both(p, Slot(p, n), theirs)
  BY <1>7, <1>8 DEF PlayedLists, Both
<1>10. Listed(p, n, theirs)
  <2>1. IsSeq(wire[p])
    BY DEF Types, WireTypes, Queue
  <2>2. 1 \in ListsAt(wire[p]) /\ wire[p][1] = Head(wire[p]) /\ Before(wire[p], 1) = 0
    BY <1>1, <2>1, Receives
  <2>3. n = Read(p) + Before(wire[p], 1) + 1
    BY <1>4, <2>2
  <2> QED BY <2>2, <2>3 DEF Listed
<1>11. n <= Len(recorded[p])
  BY <1>5
<1> QED BY <1>1, <1>2, <1>4, <1>6, <1>9, <1>10, <1>11 DEF NextList

\* A list that arrives is played, with the peer's own list of the frame; and if the two
\* differ, the other peer finds so when it plays that frame, if it has not already.
LEMMA ReceiveKeeps ==
  ASSUME Types, Types', Phases, Pace, Contents, OwnModes, NEW p \in Peers, ReceiveList(p)
  PROVE  Contents'
<1> PICK q \in Peers : q = Other(p)
  BY Two
<1>a. q # p /\ Other(q) = p /\ \A r \in Peers : r = p \/ r = q
  BY Two
<1> PICK n : n = Len(played[p]) + 1
  OBVIOUS
<1> PICK theirs : theirs = Head(wire[p]).events
  OBVIOUS
<1>1. NextList(p, n, theirs)
  BY NextListIs
<1> PICK R : R = Len(recorded[p])
  OBVIOUS
<1> PICK ours : ours = Slot(p, n)
  OBVIOUS
<1> PICK differ : differ = RegistersDiffer(Both(p, ours, theirs))
  OBVIOUS
<1>2. /\ pc[p] = "receive" /\ sock[p] = "open" /\ Live(p) /\ Reads(p)
      /\ Read(p) + 1 = n /\ n <= R /\ FrameNow(p) = R
      /\ Listed(p, n, theirs)
  BY <1>1 DEF NextList
<1>3. OnWay(p, n, theirs) /\ n \in Nat \ {0} /\ Live(q) /\ n <= Len(recorded[q])
  BY <1>2, ListedIs DEF Contents
<1>4. /\ \A r \in Peers : Len(recorded[r]) \in Nat /\ Len(played[r]) \in Nat /\ Read(r) \in Nat
      /\ R \in Nat
  BY Sequence DEF Types, HistoryTypes, Read
<1>5. Ahead(p) /\ BufferOf(p) /\ Ready(p) /\ delta[p] \in Nat \ {0, 1} /\ R = Read(p) + delta[p]
  <2>1. Ahead(p) /\ BufferOf(p)
    BY <1>2, AheadIs DEF Contents, Buffers
  <2> QED BY <1>2, <2>1 DEF Ahead, Ready
\* The step.
<1>6. \/ /\ differ
         /\ Disconnect(p, "run", Tail(wire[p]) # <<>>)
         /\ syncLost' = [syncLost EXCEPT ![p] = TRUE]
      \/ /\ ~differ
         /\ wire' = [wire EXCEPT ![p] = Tail(@)] /\ pc' = [pc EXCEPT ![p] = "run"]
         /\ sock' = sock /\ broken' = broken /\ syncLost' = syncLost
  BY <1>1 DEF ReceiveList, NextList, Take, Goto
<1>7. /\ \E x : played' = [played EXCEPT ![p] = Append(@, x)]
      /\ PrepareNextFrame(p)
      /\ full' = full /\ typed' = typed /\ recorded' = recorded /\ session' = session
      /\ sessions' = sessions
  BY DEF ReceiveList, counters
<1>8. /\ pc'[q] = pc[q] /\ sock'[q] = sock[q] /\ wire'[q] = wire[q] /\ (broken => broken')
      /\ pc'[p] \in {"run", "aborted"} /\ syncLost'[q] = syncLost[q]
      /\ IF differ THEN sock'[p] = "closed" /\ syncLost'[p]
                   ELSE /\ sock'[p] = "open" /\ broken' = broken /\ wire'[p] = Tail(wire[p])
                        /\ syncLost' = syncLost
  <2>1. CASE differ
    <3>1. /\ \E place \in {"run", "aborted"} : pc' = [pc EXCEPT ![p] = place]
          /\ sock' = [sock EXCEPT ![p] = Closed(@)] /\ wire' = [wire EXCEPT ![p] = <<>>]
          /\ broken => broken'
          /\ syncLost' = [syncLost EXCEPT ![p] = TRUE]
      BY <1>6, <2>1 DEF Disconnect, CloseEnd, Goto
    <3> QED BY <1>a, <1>2, <2>1, <3>1 DEF Closed, Types, StateTypes, WireTypes
  <2>2. CASE ~differ
    BY <1>a, <1>2, <1>6, <2>2 DEF Types, StateTypes, WireTypes
  <2> QED BY <2>1, <2>2
<1>9. ~syncLost[p]
  BY <1>2 DEF Contents, LostOnes
<1>10. /\ played'[q] = played[q] /\ Len(played'[p]) = Len(played[p]) + 1
  BY <1>a, <1>7, Sequence DEF Types, HistoryTypes
<1>11. /\ \A r \in Peers : Live(r)' = Live(r) /\ Sent(r)' = Sent(r) /\ Extends(r)
       /\ Read(p)' = n /\ Read(q)' = Read(q)
  <2>1. \A r \in Peers : Live(r)' = Live(r) /\ Sent(r)' = Sent(r)
    BY <1>7 DEF Live, Sent
  <2>2. \A r \in Peers : Extends(r)
    BY <1>4, <1>7 DEF Extends
  <2>3. Read(p)' = n /\ Read(q)' = Read(q)
    BY <1>2, <1>10, <2>1 DEF Read
  <2> QED BY <2>1, <2>2, <2>3
<1>12. FrameNow(p)' = FrameNow(p) + 1 /\ FrameNow(p) \in Nat
  BY <1>2, <1>4, <1>7, <1>8 DEF FrameNow
<1>13. /\ \A m \in Nat : m <= R /\ m + delta[p] > R + 1 => Slot(p, m)' = Slot(p, m)
       /\ list'[p][current'[p]] = <<>>
       /\ toPlay'[p] = SlotAfter(current'[p], delta'[p])
       /\ delta'[p] = delta[p] /\ list'[q] = list[q]
  BY <1>a, <1>2, <1>5, <1>7, <1>12, SlotsAdvance
<1>14. \A m \in Nat : m > n /\ m <= R => Slot(p, m)' = Slot(p, m)
  BY <1>2, <1>3, <1>4, <1>5, <1>13
<1>15. SameBuffers(q) /\ \A m : Slot(q, m)' = Slot(q, m)
  <2>1. current'[q] = current[q] /\ toPlay'[q] = toPlay[q] /\ delta' = delta
    BY <1>a, <1>7 DEF PrepareNextFrame, Types, FrameTypes
  <2>2. SameBuffers(q)
    BY <1>7, <1>8, <1>13, <2>1 DEF SameBuffers, SameSlots, FrameNow
  <2>3. \A m : Slot(q, m)' = Slot(q, m)
    BY <2>2, SlotsStay DEF SameBuffers
  <2> QED BY <2>2, <2>3
<1>16. (Reads(q)' => Reads(q)) /\ (Reads(p)' => ~differ)
  BY <1>8 DEF Reads
\* The other peer and this frame.
<1>17. n <= Read(q) => (differ <=> syncLost[q] /\ n = Read(q))
  BY <1>2, <1>3 DEF OnWay
<1>18. Reads(q) /\ n > Read(q) => theirs = Slot(q, n)
  BY <1>3 DEF OnWay
<1>19. OnTheWay'
  <2>1. ASSUME Reads(p)', NEW i \in ListsAt(wire'[p])
        PROVE  OnWay(p, Read(p) + Before(wire[p], i) + 1, wire[p][i].events)'
    <3>1. ~differ /\ wire'[p] = Tail(wire[p]) /\ broken' = broken /\ syncLost' = syncLost
      BY <1>8, <1>16, <2>1
    <3>2. IsSeq(wire[p]) /\ wire[p] # <<>> /\ Head(wire[p]).kind = "list" /\ IsSeq(wire'[p])
      BY DEF ReceiveList, Arrived, Types, WireTypes, Queue
    <3>3. PICK j \in ListsAt(wire[p]) :
            /\ wire'[p][i].events = wire[p][j].events
            /\ Before(wire[p], j) = Before(wire'[p], i) + 1
      <4>1. \A k \in ListsAt(Tail(wire[p])) : \E j \in ListsAt(wire[p]) :
              /\ Tail(wire[p])[k].events = wire[p][j].events
              /\ Before(wire[p], j) = Before(Tail(wire[p]), k) + 1
        BY <3>2, Receives
      <4> QED BY <2>1, <3>1, <4>1
    <3> PICK m : m = Read(p) + Before(wire[p], j) + 1
      OBVIOUS
    <3> PICK e : e = wire[p][j].events
      OBVIOUS
    <3>4. /\ OnWay(p, m, e) /\ m \in Nat \ {0} /\ m <= Len(recorded[q])
      BY <1>2, ListedIs DEF Listed, Contents
    <3>5. Before(wire'[p], i) \in Nat
      BY <3>2, BeforeType
    <3>6. m > n /\ m = (Read(p) + Before(wire[p], i) + 1)'
      <4> PICK b \in Nat : b = Before(wire'[p], i)
        BY <3>5
      <4> PICK r \in Nat : r = Read(p)
        BY <1>4
      <4>1. m = r + (b + 1) + 1 /\ n = r + 1
        BY <1>2, <3>3
      <4>2. m = n + b + 1 /\ m > n
        BY <4>1
      <4> QED BY <1>11, <4>2
    <3>7. e = (wire[p][i].events)'
      BY <3>3
    <3>8. Reads(q)' /\ m > Read(q)' => Reads(q) /\ m > Read(q) /\ Slot(q, m)' = Slot(q, m)
      BY <1>11, <1>15, <1>16
    <3>9. Live(p)' /\ m <= Read(q)' =>
            /\ Live(p) /\ m <= Read(q) /\ Slot(p, m)' = Slot(p, m)
            /\ syncLost'[q] /\ m = Read(q)' <=> syncLost[q] /\ m = Read(q)
      <4>1. m <= Read(q) => m <= R
        <5>1. Read(q) <= R
          BY <1>a, <1>2 DEF Contents, PlayedSent, Sent
        <5> QED BY <1>4, <3>4, <5>1
      <4> QED BY <1>2, <1>11, <1>14, <3>1, <3>4, <3>6, <4>1
    <3>10. Live(q)' /\ Extends(q) /\ Len(recorded'[q]) \in Nat
      BY <1>3, <1>4, <1>7, <1>11
    <3>11. OnWay(p, m, e)'
      BY <1>4, <3>4, <3>8, <3>9, <3>10, OnWayStays
    <3> QED BY <3>6, <3>7, <3>11 DEF OnWay
  <2>2. ASSUME Reads(q)', NEW i \in ListsAt(wire'[q])
        PROVE  OnWay(q, Read(q) + Before(wire[q], i) + 1, wire[q][i].events)'
    <3>1. i \in ListsAt(wire[q]) /\ Reads(q) /\ wire'[q] = wire[q]
      BY <1>8, <1>16, <2>2
    <3> PICK m : m = Read(q) + Before(wire[q], i) + 1
      OBVIOUS
    <3> PICK e : e = wire[q][i].events
      OBVIOUS
    <3>2. /\ OnWay(q, m, e) /\ m \in Nat \ {0} /\ m <= R /\ m > Read(q)
      BY <1>a, <3>1, ListedIs DEF Listed, Contents
    <3>3. /\ Playback(e) = recorded[p][m]
          /\ m > Read(p) => e = Slot(p, m)
          /\ Live(q) /\ m <= Read(p) =>
               (RegistersDiffer(Both(q, Slot(q, m), e)) <=> syncLost[p] /\ m = Read(p))
      BY <1>a, <1>2, <3>2 DEF OnWay
    <3>4. Reads(p)' /\ m > Read(p)' => e = Slot(p, m)'
      <4>1. m > n => m > Read(p)
        BY <1>2, <1>4, <3>2
      <4> QED BY <1>11, <1>14, <3>2, <3>3, <4>1
    <3>5. Both(q, Slot(q, m), e)' = Both(q, Slot(q, m), e)
      BY <1>15 DEF Both
    <3>6. m <= n => (RegistersDiffer(Both(q, Slot(q, m), e)) <=> syncLost'[p] /\ m = n)
      <4>1. CASE m <= Read(p)
        <5>1. m # n
          BY <1>2, <1>4, <3>2, <4>1
        <5> QED BY <1>3, <1>9, <3>3, <4>1, <5>1
      <4>2. CASE m = n
        <5>1. m > Read(p)
          BY <1>2, <1>4, <4>2
        <5>2. e = ours /\ theirs = Slot(q, m)
          BY <1>18, <3>1, <3>2, <3>3, <4>2, <5>1
        <5>3. Both(q, Slot(q, m), e) = Both(p, ours, theirs)
          BY <1>a, <5>2 DEF Both, Peers
        <5>4. differ <=> syncLost'[p]
          BY <1>8, <1>9
        <5>5. RegistersDiffer(Both(q, Slot(q, m), e)) = differ
          BY <5>3
        <5> QED BY <4>2, <5>4, <5>5
      <4>3. m <= n => m <= Read(p) \/ m = n
        BY <1>2, <1>4, <3>2
      <4> QED BY <4>1, <4>2, <4>3
    <3>7. Live(q)' /\ m <= Read(p)' =>
            (RegistersDiffer(Both(q, Slot(q, m), e))' <=> syncLost'[p] /\ m = Read(p)')
      <4>1. RegistersDiffer(Both(q, Slot(q, m), e))' = RegistersDiffer(Both(q, Slot(q, m), e))
        BY <3>5 DEF RegistersDiffer
      <4> QED BY <1>11, <3>6, <4>1
    <3>8. Live(p)' /\ m <= Len(recorded'[p]) /\ Playback(e) = recorded'[p][m]
      BY <1>2, <1>7, <1>11, <3>2, <3>3
    <3>9. OnWay(q, m, e)'
      BY <1>a, <3>4, <3>7, <3>8 DEF OnWay
    <3>10. m = (Read(q) + Before(wire[q], i) + 1)' /\ e = (wire[q][i].events)'
      BY <1>11, <3>1
    <3> QED BY <3>9, <3>10 DEF OnWay
  <2>3. ASSUME NEW r \in Peers, Reads(r)'
        PROVE  \A i \in ListsAt(wire'[r]) :
                 OnWay(r, Read(r) + Before(wire[r], i) + 1, wire[r][i].events)'
    <3>1. CASE r = p
      BY <2>1, <2>3, <3>1
    <3>2. CASE r = q
      BY <2>2, <2>3, <3>2
    <3> QED BY <1>a, <3>1, <3>2
  <2> QED BY <2>3 DEF OnTheWay
<1>20. Buffers'
  <2>1. BufferOf(p)'
    <3>1. ASSUME NEW m \in 1 .. R, m + delta[p] > R + 1
          PROVE  Playback(Slot(p, m)') = recorded[p][m]
      <4>1. m \in Nat /\ m <= R /\ m + delta[p] > FrameNow(p)
        BY <1>2, <1>4, <1>5, <3>1
      <4> QED BY <1>5, <1>13, <3>1, <4>1 DEF BufferOf
    <3>2. typed[p] = <<>>
      BY <1>2, <1>5 DEF BufferOf
    <3>3. \A m \in 1 .. Len(recorded'[p]) :
            m + delta'[p] > FrameNow(p)' => Playback(Slot(p, m)') = recorded'[p][m]
      BY <1>2, <1>7, <1>12, <1>13, <3>1
    <3> QED BY <1>7, <1>8, <1>13, <3>2, <3>3, PlaybackNothing DEF BufferOf
  <2>2. ASSUME Live(q)', Reads(q)' PROVE BufferOf(q)'
    <3>1. BufferOf(q)
      BY <1>11, <1>16, <2>2 DEF Contents, Buffers
    <3> QED BY <1>15, <3>1, BufferStays
  <2> QED BY <1>a, <2>1, <2>2 DEF Buffers
<1>21. Waiting'
  <2>1. pc'[q] = "receive" => /\ Live(q)' /\ full'[q]
                              /\ Len(recorded'[q]) = Len(played'[q]) + delta'[q]
    BY <1>7, <1>8, <1>10, <1>11, <1>15 DEF Contents, Waiting, SameBuffers, SameSlots
  <2>2. pc'[p] # "receive"
    BY <1>8
  <2> QED BY <1>a, <2>1, <2>2 DEF Waiting
<1>22. PlayedSent'
  <2>1. Read(p)' <= Sent(q)'
    BY <1>3, <1>11 DEF Sent
  <2>2. Read(q)' <= Sent(p)'
    BY <1>a, <1>11 DEF Contents, PlayedSent
  <2> QED BY <1>a, <2>1, <2>2 DEF PlayedSent
<1>23. LostOnes'
  <2>1. syncLost'[p] => Live(p)' /\ sock'[p] # "open" /\ Read(p)' > 0
    BY <1>2, <1>3, <1>8, <1>9, <1>11
  <2>2. syncLost'[q] => Live(q)' /\ sock'[q] # "open" /\ Read(q)' > 0
    BY <1>8, <1>11 DEF Contents, LostOnes
  <2> QED BY <1>a, <2>1, <2>2 DEF LostOnes
<1>24. Agreement'
  <2>1. syncLost'[p] => Read(q)' < Read(p)' \/ (Read(q)' = Read(p)' /\ syncLost'[q])
    <3>1. syncLost'[p] => differ
      BY <1>8, <1>9
    <3>2. Read(q) < n \/ n <= Read(q)
      BY <1>3, <1>4
    <3> QED BY <1>8, <1>11, <1>17, <3>1, <3>2
  <2>2. syncLost'[q] => Read(p)' < Read(q)' \/ (Read(p)' = Read(q)' /\ syncLost'[p])
    <3>1. syncLost[q] => Read(p) < Read(q)
      BY <1>a, <1>9 DEF Contents, Agreement
    <3>2. syncLost[q] => n < Read(q) \/ n = Read(q)
      BY <1>2, <1>4, <3>1
    <3>3. syncLost[q] /\ n = Read(q) => syncLost'[p]
      <4>1. syncLost[q] /\ n = Read(q) => n <= Read(q)
        BY <1>4
      <4> QED BY <1>8, <1>17, <4>1
    <3> QED BY <1>8, <1>11, <3>2, <3>3
  <2> QED BY <1>a, <2>1, <2>2 DEF Agreement
<1>25. SlotsAreLists'
  <2> PICK i : i = (current[p] + 1) % delta[p]
    OBVIOUS
  <2>1. list' = [list EXCEPT ![p][i] = <<>>]
    BY <1>7 DEF PrepareNextFrame
  <2>2. IsSeq(<<>>)
    BY EmptySeq DEF IsSeq
  <2>3. \A r \in Peers : \A j \in DOMAIN list'[r] : IsSeq(list'[r][j])
    BY <2>1, <2>2, SlotListsKept DEF Contents
  <2> QED BY <1>7, <2>3 DEF Contents, SlotsAreLists
<1> QED BY <1>19, <1>20, <1>21, <1>22, <1>23, <1>24, <1>25 DEF Contents

\* The server is never a client, nor the client a server that is connected.
LEMMA OwnModesKept ==
  ASSUME StateTypes, OwnModes, [Next]_vars
  PROVE  OwnModes'
<1> USE DEF OwnModes, StateTypes, Peers
<1>1. ASSUME NEW p \in Peers, NEW after, NEW unread, Disconnect(p, after, unread) PROVE OwnModes'
  BY <1>1 DEF Disconnect
<1>2. CASE User
  <2>1. ASSUME NEW p \in Peers, StartServer(p) PROVE OwnModes'
    BY <2>1 DEF StartServer
  <2>2. ASSUME NEW p \in Peers, UserDisconnects(p) PROVE OwnModes'
    BY <1>1, <2>2 DEF UserDisconnects
  <2>3. CASE ConnectClient \/ (\E p \in Peers : Suspend(p))
             \/ (\E p \in Peers, e \in Inputs : GiveInput(p, e))
    BY <2>3 DEF ConnectClient, Suspend, GiveInput
  <2> QED BY <1>2, <2>1, <2>2, <2>3 DEF User, EnableClient
<1>3. CASE World
  BY <1>3 DEF World, Break, Diverge, LoseTrap
<1>4. CASE ServerHandshake
  BY <1>4 DEF ServerHandshake, Accept, ServerConnectTrap, ServerSnapshotFails, ServerStarts,
              InitLists
<1>5. CASE ClientHandshake
  BY <1>5 DEF ClientHandshake, Download, DownloadFails, ClientConnectTrap, LoadSnapshot,
              LoadFails, Test, ClientStarts, ClientStartsBlindly, InitLists
<1>6. ASSUME NEW p \in Peers, Frame(p) PROVE OwnModes'
  <2>1. CASE HookSendFails(p)
    BY <1>1, <2>1 DEF HookSendFails
  <2>2. CASE ReceiveList(p)
    BY <1>1, <2>2 DEF ReceiveList
  <2>3. CASE ReceiveFailed(p)
    BY <1>1, <2>3 DEF ReceiveFailed
  <2> QED BY <1>6, <2>1, <2>2, <2>3
       DEF Frame, TestFails, RecordSyncTest, Hook, ReceiveMarker, ReceiveBodyFailed,
           CrashWithoutLists
<1>7. CASE UNCHANGED vars
  BY <1>7 DEF vars
<1> QED BY <1>2, <1>3, <1>4, <1>5, <1>6, <1>7 DEF Next

\* At first there is nothing to be wrong.
LEMMA InitContents == Init => Contents /\ OwnModes
<1> SUFFICES ASSUME Init PROVE Contents /\ OwnModes
  OBVIOUS
<1>1. OwnModes
  BY DEF Init, OwnModes, Peers
<1>2. \A p \in Peers : sock[p] = "none" /\ pc[p] = "run" /\ ~syncLost[p] /\ list[p] = <<>>
                       /\ recorded[p] = <<>> /\ played[p] = <<>>
  BY DEF Init
<1>3. OnTheWay /\ Buffers /\ Waiting /\ LostOnes /\ Agreement
  BY <1>2 DEF OnTheWay, Buffers, Reads, Waiting, LostOnes, Agreement
<1>4. PlayedSent
  <2>1. \A p \in Peers : Read(p) = 0 /\ Sent(p) = 0
    BY <1>2 DEF Read, Sent
  <2> QED BY <2>1, Two DEF PlayedSent
<1>5. SlotsAreLists
  BY <1>2 DEF SlotsAreLists, Init
<1> QED BY <1>1, <1>3, <1>4, <1>5 DEF Contents

\* Every step keeps the contents.
LEMMA ContentsKept ==
  ASSUME IInv, IInv', Contents, OwnModes, [Next]_vars
  PROVE  Contents' /\ OwnModes'
<1>1. /\ Types /\ Types' /\ Phases /\ Pace /\ Counts
      /\ StateTypes /\ WireTypes /\ FrameTypes /\ AtPlaces /\ SessionsOrdered /\ Fresh
  BY DEF IInv, Types, Phases
<1>2. OwnModes'
  BY <1>1, OwnModesKept
<1>3. Quiet \/ ConnectClient \/ \E p \in Peers : ContentMoves(p)
  BY <1>1, Steps
<1>4. CASE Quiet
  BY <1>1, <1>4, <1>2, QuietKeeps
<1>5. CASE ConnectClient
  BY <1>1, <1>5, <1>2, ConnectKeeps
<1>6. ASSUME NEW p \in Peers, ContentMoves(p) PROVE Contents'
  <2>1. CASE (\E e \in Inputs : GiveInput(p, e)) \/ RecordSyncTest(p)
    <3> PICK x : Adds(p, x)
      BY <1>1, <2>1, InputAdds
    <3> QED BY <1>1, AddKeeps
  <2>2. CASE Hook(p)
    BY <1>1, <2>2, HookKeeps
  <2>3. CASE HookSendFails(p)
    BY <1>1, <2>3, HookFailsKeeps
  <2>4. CASE ReceiveList(p)
    BY <1>1, <2>4, ReceiveKeeps
  <2>5. CASE Starting(p)
    BY <1>1, <2>5, StartKeeps
  <2> QED BY <1>6, <2>1, <2>2, <2>3, <2>4, <2>5 DEF ContentMoves
<1> QED BY <1>2, <1>3, <1>4, <1>5, <1>6

\* Every list arrives as it was recorded and is played as the frame it was recorded
\* for: frame_to_play finds in frame_event_list the peer's own list of the very frame
\* that the next message holds, and network_prepare_next_frame clears no list that is
\* still to be played.
THEOREM ListsArriveAsRecorded == Spec => [](Contents /\ OwnModes)
<1>1. IInv /\ IInv' /\ Contents /\ OwnModes /\ [Next]_vars => (Contents /\ OwnModes)'
  BY ContentsKept
<1> QED BY <1>1, InitContents, NetplayInvariant, PTL DEF Spec

\* A peer whose network_hook_connected_receive finds the registers different and
\* disconnects is not left behind by the other one: that one plays no frame beyond it,
\* for it finds the same difference in the same frame or loses the connection first.
THEOREM BothStopOutOfSync == Spec => []OutOfSyncStopsBoth
<1>1. IInv /\ Contents => OutOfSyncStopsBoth
  <2> SUFFICES ASSUME IInv, Contents, NEW p \in Peers, SameSession, syncLost[p]
               PROVE  Len(played[Other(p)]) <= Len(played[p])
    BY DEF OutOfSyncStopsBoth
  <2>1. Live(p) /\ Other(p) \in Peers
    BY Two DEF Contents, LostOnes
  <2>2. Live(Other(p))
    BY <2>1 DEF SameSession, Live, Peers
  <2>3. Read(p) = Len(played[p]) /\ Read(Other(p)) = Len(played[Other(p)])
    BY <2>1, <2>2 DEF Read
  <2>4. Len(played[p]) \in Nat /\ Len(played[Other(p)]) \in Nat
    BY <2>1, Sequence DEF IInv, Types, HistoryTypes
  <2> QED BY <2>3, <2>4 DEF Contents, Agreement
<1> QED BY <1>1, ListsArriveAsRecorded, NetplayInvariant, PTL

\* Every step is one of the shared timeline, or none: the end of a frame records it, a
\* list that arrives plays one, new lists are a new game.
LEMMA TimelineStep ==
  ASSUME IInv, Contents, OwnModes, [Next]_vars
  PROVE  Timeline!Next \/ UNCHANGED <<recorded, played>>
<1>1. /\ Types /\ Phases /\ Pace /\ StateTypes /\ WireTypes
  BY DEF IInv, Types
<1>2. \/ UNCHANGED <<frames, recorded, played, hooks, session>>
      \/ \E p \in Peers : FrameMoves(p)
  BY <1>1, FramesMove
<1>3. ASSUME NEW p \in Peers, FrameMoves(p)
      PROVE  Timeline!Record(p) \/ Timeline!Play(p) \/ Timeline!Restart(p)
             \/ UNCHANGED <<recorded, played>>
  <2>1. CASE (\E e \in Inputs : GiveInput(p, e)) \/ RecordSyncTest(p)
    BY <2>1 DEF GiveInput, RecordSyncTest, histories
  <2>2. CASE Hook(p) \/ HookSendFails(p)
    <3>1. Closes(p)
      BY <1>1, <2>2, HookCloses
    <3>2. Recorded(p)
      BY <1>1, <3>1, ClosesIs DEF Contents
    <3>3. recorded' = [recorded EXCEPT ![p] = Append(@, typed[p])] /\ played' = played
      BY <3>1 DEF Closes
    <3>4. /\ Len(recorded'[p]) = Len(recorded[p]) + 1
          /\ recorded'[p][Len(recorded[p]) + 1] = typed[p]
      BY <3>2 DEF Recorded
    <3>5. Timeline!Record(p)
      BY <3>3, <3>4 DEF Timeline!Record
    <3> QED BY <3>5
  <2>3. CASE ReceiveList(p)
    <3> PICK n : n = Len(played[p]) + 1
      OBVIOUS
    <3> PICK theirs : theirs = Head(wire[p]).events
      OBVIOUS
    <3> PICK ours : ours = Slot(p, n)
      OBVIOUS
    <3>1. NextList(p, n, theirs)
      BY <1>1, <2>3, NextListIs
    <3>2. PlayedLists(p) = Both(p, ours, theirs) /\ Playback(ours) = recorded[p][n]
          /\ n <= Len(recorded[p])
      BY <3>1 DEF NextList
    <3>3. /\ Playback(theirs) = recorded[Other(p)][n] /\ n <= Len(recorded[Other(p)])
      <4>1. OnWay(p, n, theirs)
        BY <1>1, <3>1, ListedIs DEF Contents, NextList
      <4> QED BY <4>1 DEF OnWay
    <3>4. /\ recorded' = recorded
          /\ played' = [played EXCEPT ![p] =
               Append(@, [server |-> Playback(PlayedLists(p).server),
                          client |-> Playback(PlayedLists(p).client)])]
      BY <2>3 DEF ReceiveList
    <3>5. /\ Playback(PlayedLists(p).server) = recorded["server"][n]
          /\ Playback(PlayedLists(p).client) = recorded["client"][n]
      <4>1. CASE p = "server"
        BY <3>2, <3>3, <4>1, Others DEF Both
      <4>2. CASE p = "client"
        BY <3>2, <3>3, <4>2, Others DEF Both
      <4> QED BY <4>1, <4>2 DEF Peers
    <3>6. played' = [played EXCEPT ![p] =
             Append(@, [server |-> recorded["server"][n], client |-> recorded["client"][n]])]
      BY <3>4, <3>5
    <3>7. \A q \in Peers : n <= Len(recorded[q])
      BY <3>2, <3>3, Two
    <3>8. Timeline!Play(p)
      BY <3>4, <3>6, <3>7 DEF Timeline!Play, Timeline!Peers, Peers
    <3> QED BY <3>8
  <2>4. CASE \E d \in Deltas : InitLists(p, d)
    BY <2>4 DEF InitLists, Timeline!Restart
  <2> QED BY <1>3, <2>1, <2>2, <2>3, <2>4 DEF FrameMoves
<1> QED BY <1>2, <1>3 DEF Timeline!Next, Timeline!Peers, Peers

\* Netplay implements the shared timeline: each machine plays every frame once, in
\* order, with the lists that both peers recorded for it, whatever the delay, the
\* inputs, the failures and the sessions before.
THEOREM NetplayImplementsTimeline == Spec => ImplementsTimeline
<1>1. Init => Timeline!Init
  BY DEF Init, Timeline!Init, Timeline!Peers, Peers
<1>2. IInv /\ Contents /\ OwnModes /\ [Next]_vars => [Timeline!Next]_(Timeline!vars)
  BY TimelineStep DEF Timeline!vars
<1> QED BY <1>1, <1>2, ListsArriveAsRecorded, NetplayInvariant, PTL
         DEF Spec, ImplementsTimeline, Timeline!Spec

=============================================================================
