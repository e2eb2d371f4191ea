----------------------------- MODULE AlarmService -----------------------------
(***************************************************************************)
(* What the emulated devices expect of an alarm context: time is an        *)
(* unbounded cycle count that never goes back, every armed alarm has one   *)
(* due time on it, time does not pass a due alarm, and of the alarms that  *)
(* are due the earliest one fires.  Slots, cached minima and time warps are*)
(* invisible; of the 32-bit clock all that shows is that an alarm asked for*)
(* beyond Reach may fire early, as long as it is still beyond Reach.       *)
(***************************************************************************)
EXTENDS Integers

CONSTANTS Alarms, Idle, Reach

VARIABLES now,      \* machine cycles since power-up
          armed,    \* the alarms that are set
          due,      \* when each alarm is to fire (0 for an alarm that is not armed)
          firing    \* the alarm whose callback runs, or Idle

Init == /\ now = 0
        /\ armed \subseteq Alarms
        /\ due \in [Alarms -> Nat]
        /\ firing = Idle

Tick == /\ firing = Idle
        /\ \A a \in armed : now < due[a]
        /\ now' > now
        /\ UNCHANGED <<armed, due, firing>>

\* A callback may stall the CPU: time passes, and late alarms stay due.
Steal == /\ firing # Idle
         /\ now' > now
         /\ UNCHANGED <<armed, due, firing>>

\* Arming changes one alarm's due time, whether or not it was armed.
Arm == /\ \E a \in Alarms :
            /\ armed' = armed \cup {a}
            /\ due' \in [Alarms -> Nat]
            /\ \A b \in Alarms \ {a} : due'[b] = due[b]
       /\ UNCHANGED <<now, firing>>

Disarm == /\ \E a \in armed :
               /\ armed' = armed \ {a}
               /\ due' = [due EXCEPT ![a] = 0]
          /\ UNCHANGED <<now, firing>>

Fire == /\ firing = Idle
        /\ \E a \in armed :
             /\ \/ due[a] <= now /\ \A b \in armed : due[a] <= due[b]
                \/ due[a] > now + Reach
             /\ firing' = a
        /\ UNCHANGED <<now, armed, due>>

Return == /\ firing # Idle
          /\ firing' = Idle
          /\ UNCHANGED <<now, armed, due>>

Next == Tick \/ Steal \/ Arm \/ Disarm \/ Fire \/ Return

Spec == Init /\ [][Next]_<<now, armed, due, firing>>
===============================================================================
