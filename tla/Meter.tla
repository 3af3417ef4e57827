------------------------------- MODULE Meter -------------------------------
(***************************************************************************)
(* What a sampling component of cctop promises, whatever it samples: it    *)
(* settles on a set of keys once, and from then on every refresh shows,    *)
(* for each of them, how far its counter moved since the refresh before.   *)
(*                                                                         *)
(* A key keeps its last reading when a refresh brings none (the counter    *)
(* "did not move"), so an implementation may skip keys.                    *)
(***************************************************************************)
EXTENDS Counters

CONSTANT Key        \* what may be sampled

VARIABLES
    reading,        \* key -> the last reading of its counter
    shown           \* key -> what the screen says of it

vars == <<reading, shown>>

Init ==
    /\ reading = [k \in {} |-> 0]
    /\ shown = [k \in {} |-> 0]

\* The first reading.  What shown holds now is never displayed.
Start ==
    /\ DOMAIN reading = {}
    /\ DOMAIN reading' \subseteq Key
    /\ reading' \in [DOMAIN reading' -> Unsigned]
    /\ shown' \in [DOMAIN reading' -> Unsigned]

\* A refresh: the keys stay, shown is the distance between two readings.
Refresh ==
    /\ reading' \in [DOMAIN reading -> Unsigned]
    /\ shown' = [k \in DOMAIN reading |-> Minus(reading'[k], reading[k])]

Next == Start \/ Refresh

Spec == Init /\ [][Next]_vars

=============================================================================
