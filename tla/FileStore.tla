------------------------------ MODULE FileStore ------------------------------
(***************************************************************************)
(* What the file commands of a disk drive promise to a program, without    *)
(* blocks and without a block map.  A file reads back as it was sent, or   *)
(* the error channel tells; a command touches the file it names and no     *)
(* other; a file that is being replaced keeps its contents until the       *)
(* channel is closed; and a crash costs only the files under way, if the   *)
(* disk is validated before the next file is written.                      *)
(***************************************************************************)
EXTENDS Naturals, Sequences, Functions

CONSTANTS Name, Channel, Datum

VARIABLES
  files,     \* the directory: the names that exist, each closed with its data or not
  sessions,  \* per channel, what the program writes and what it has sent so far
  told,      \* the error channel holds an error
  torn,      \* a crash has left something to validate
  spoiled    \* files were written all the same, and nothing is promised any more

vars == <<files, sessions, told, torn, spoiled>>

Idle == [name |-> "none"]
Unclosed == [closed |-> FALSE, data |-> <<>>]
Closed(data) == [closed |-> TRUE, data |-> data]
Open == {c \in DOMAIN sessions : sessions[c] # Idle}
Written == {sessions[c].name : c \in Open}

Init ==
  /\ files = [n \in {} |-> Unclosed]
  /\ sessions = [c \in Channel |-> Idle]
  /\ told = FALSE /\ torn = FALSE /\ spoiled = FALSE

Leaves == UNCHANGED <<torn, spoiled>>

With(n, file) == [m \in DOMAIN files \cup {n} |-> IF m = n THEN file ELSE files[m]]
Without(n) == Restrict(files, DOMAIN files \ {n})

\* A channel is opened to write a file that is new, is continued or is replaced.
Create(n) == n \notin DOMAIN files /\ files' = With(n, Unclosed)
Extend(n) == n \in DOMAIN files \ Written /\ files' = With(n, Unclosed)
Replace(n) == n \in DOMAIN files \ Written /\ UNCHANGED files

Begin(c) ==
  /\ c \notin Open /\ sessions'[c] # Idle /\ ~told' /\ ~torn /\ Leaves
  /\ LET n == sessions'[c].name
         From(base) == sessions' = [sessions EXCEPT ![c] =
                         [name |-> n, data |-> base, whole |-> TRUE]]
     IN \/ From(<<>>) /\ (Create(n) \/ Replace(n))
        \/ Extend(n) /\ From(files[n].data)

\* What is sent is accepted, or refused, after which the file is not whole any more.
Send(c) ==
  /\ c \in Open /\ sessions'[c] # Idle
  /\ \/ /\ \E d \in Datum : sessions' = [sessions EXCEPT ![c].data = Append(@, d)]
        /\ sessions[c].whole /\ UNCHANGED told
     \/ sessions' = [sessions EXCEPT ![c].data = <<>>, ![c].whole = FALSE] /\ told'
     \/ ~sessions[c].whole /\ UNCHANGED <<sessions, told>>
  /\ UNCHANGED files /\ Leaves

\* What was sent is what is there, unless the program has been told otherwise.
Close(c) ==
  /\ c \in Open
  /\ sessions' = [sessions EXCEPT ![c] = Idle] /\ Leaves
  /\ LET n == sessions[c].name
         file == files'[n]
     IN /\ files' = With(n, Closed(file.data))
        /\ sessions[c].whole /\ file.data # sessions[c].data => told'

Remove(n) == files' = Without(n)
Move(n, m) == m \notin DOMAIN files /\ files' = [k \in (DOMAIN files \ {n}) \cup {m} |->
                                                IF k = m THEN files[n] ELSE files[k]]
Duplicate(m) ==
  /\ m \notin DOMAIN files /\ ~torn
  /\ \E n, o \in DOMAIN files : \E content \in {files[n].data, files[n].data \o files[o].data} :
       files[n].closed /\ files[o].closed /\ files' = With(m, Closed(content))

Command ==
  /\ UNCHANGED sessions /\ Leaves
  /\ \/ UNCHANGED files
     \/ \E n \in DOMAIN files \ Written :
          Remove(n) \/ \E m \in DOMAIN files' : Move(n, m)
     \/ \E m \in DOMAIN files' : Duplicate(m)

\* A file that nobody writes stays as it was, or is given up if it was never closed.
Stays(n, after) ==
  n \in DOMAIN files /\ IF n \in DOMAIN after THEN after[n] = files[n] ELSE ~files[n].closed

\* All channels are closed at once, which tells nobody of a file that no longer fits;
\* the disk may be validated then.
CloseAll ==
  /\ sessions' = [c \in Channel |-> Idle]
  /\ LET after == files'
     IN \A n \in DOMAIN files \cup DOMAIN after :
          IF n \in Written THEN n \in DOMAIN after /\ after[n].closed ELSE Stays(n, after)
  /\ torn' => torn
  /\ UNCHANGED spoiled

\* A file under way stays as it was, or is closed with what it has by then; a copy may be
\* there already.  The disk may have to be validated before the next file is written.
Crash ==
  /\ sessions' = [c \in Channel |-> Idle]
  /\ torn => torn'
  /\ UNCHANGED spoiled
  /\ \/ LET after == files'
        IN \A n \in DOMAIN files \cup DOMAIN after :
             IF n \in Written
             THEN n \in DOMAIN after /\ (after[n] = files[n] \/ after[n].closed)
             ELSE Stays(n, after)
     \/ \E m \in DOMAIN files' : Duplicate(m)

\* What comes of writing files to a disk that should have been validated.
Spoil == (torn \/ spoiled) /\ spoiled'

Next ==
  \/ \E c \in Channel : Begin(c) \/ Send(c) \/ Close(c)
  \/ Command \/ CloseAll \/ Crash \/ Spoil

Spec == Init /\ [][Next]_vars

=============================================================================
