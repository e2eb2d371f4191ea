------------------------------ MODULE DriveTime ------------------------------
(***************************************************************************)
(* What the emulation of the disk drives' CPUs promises: time without      *)
(* wrap-around, without warps and without a maximum length of a catch-up.  *)
(* Each drive owes cycles to the main CPU's clock (lag).  When it catches  *)
(* up it runs for exactly the cycles that its ratio to the main clock      *)
(* makes of them, keeps the fraction, and overruns by less than one        *)
(* instruction, which the next catch-up takes into account.                *)
(***************************************************************************)
EXTENDS Integers

CONSTANTS
  Units,            \* the disk units
  Frac,             \* the ratio factor/Frac is drive cycles per main cycle
  Factors,          \* the factors of the drives' speeds and the video standards
  Frame,            \* the longest the main CPU runs in one step
  SkipAfter,        \* a drive left alone for longer may skip the cycles
  MaxAhead          \* the longest instruction overruns by this much

VARIABLES
  on,               \* the drives that are emulated
  factor,           \* per drive, its ratio to the main clock
  lag,              \* per drive, main cycles it has not caught up with
  frac,             \* per drive, the fraction of a drive cycle it keeps
  ahead,            \* per drive, drive cycles it has run too many
  ran               \* per drive, the drive cycles it ran in this step

vars == <<on, factor, lag, frac, ahead, ran>>

Init ==
  /\ on \subseteq Units
  /\ factor \in [Units -> Factors]
  /\ lag = [u \in Units |-> 0] /\ frac = [u \in Units |-> 0]
  /\ ahead = [u \in Units |-> 0] /\ ran = [u \in Units |-> 0]

Rested(S) == \A u \in S : ran'[u] = 0

MainRuns ==
  /\ \E n \in 1..Frame :
       lag' = [u \in Units |-> IF u \in on THEN lag[u] + n ELSE 0]
  /\ Rested(Units)
  /\ UNCHANGED <<on, factor, frac, ahead>>

Runs(u) ==
  LET total == frac[u] + factor[u] * lag[u]
      due == total \div Frac
  IN /\ frac'[u] = total % Frac
     /\ ahead'[u] \in 0..MaxAhead
     /\ ran'[u] = ahead'[u] + due - ahead[u]
     /\ ran'[u] = 0 \/ ran'[u] > ahead'[u]

Skips(u) ==
  /\ lag[u] > SkipAfter
  /\ frac'[u] = frac[u] /\ ahead'[u] = ahead[u] /\ ran'[u] = 0

CatchUp(S) ==
  /\ lag' = [u \in Units |-> IF u \in S THEN 0 ELSE lag[u]]
  /\ \A u \in S : Runs(u) \/ Skips(u)
  /\ \A u \in Units \ S : frac'[u] = frac[u] /\ ahead'[u] = ahead[u]
  /\ Rested(Units \ S)
  /\ UNCHANGED <<on, factor>>

\* Drives that are switched on or off, or reset, begin at the present.
Restart(S) ==
  /\ on' \ S = on \ S
  /\ lag' = [u \in Units |-> IF u \in S THEN 0 ELSE lag[u]]
  /\ \A u \in Units \ S : ahead'[u] = ahead[u]
  /\ \A u \in S : ahead'[u] \in {0, ahead[u]}
  /\ Rested(Units)
  /\ UNCHANGED <<factor, frac>>

ChangeSpeed ==
  /\ factor' \in [Units -> Factors]
  /\ Rested(Units)
  /\ UNCHANGED <<on, lag, frac, ahead>>

Next ==
  \/ MainRuns
  \/ \E S \in SUBSET on : CatchUp(S)
  \/ \E S \in SUBSET Units : Restart(S)
  \/ ChangeSpeed

Spec == Init /\ [][Next]_vars
=============================================================================
