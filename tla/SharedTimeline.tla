---------------------------- MODULE SharedTimeline ----------------------------
(***************************************************************************)
(* What netplay promises: two machines that live through the same inputs.  *)
(* Each peer records one list of inputs per frame; a frame is played on a  *)
(* machine only as a whole, when both peers have recorded it, the server's *)
(* list first; and no frame is skipped, repeated or played out of order.   *)
(***************************************************************************)
EXTENDS Naturals, Sequences

VARIABLES
  recorded,  \* per peer: the lists it has recorded, one for each frame
  played     \* per peer: what its machine has played, frame by frame

vars == <<recorded, played>>

Peers == {"server", "client"}

Init == recorded = [p \in Peers |-> <<>>] /\ played = [p \in Peers |-> <<>>]

\* A peer closes the list of a frame.
Record(p) ==
  /\ Len(recorded'[p]) = Len(recorded[p]) + 1
  /\ recorded' = [recorded EXCEPT ![p] = Append(@, recorded'[p][Len(@) + 1])]
  /\ UNCHANGED played

\* A machine plays the first frame it has not played.
Play(p) ==
  LET n == Len(played[p]) + 1 IN
  /\ \A q \in Peers : n <= Len(recorded[q])
  /\ played' = [played EXCEPT ![p] =
       Append(@, [server |-> recorded["server"][n], client |-> recorded["client"][n]])]
  /\ UNCHANGED recorded

\* A peer takes part in a new game.
Restart(p) ==
  /\ recorded' = [recorded EXCEPT ![p] = <<>>]
  /\ played' = [played EXCEPT ![p] = <<>>]

Next == \E p \in Peers : Record(p) \/ Play(p) \/ Restart(p)

Spec == Init /\ [][Next]_vars

=============================================================================
