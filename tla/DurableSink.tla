----------------------------- MODULE DurableSink -----------------------------
(***************************************************************************)
(* What a deferred writer promises about the records handed to it: each is *)
(* stored once, and none is lost unless something excused it (the process  *)
(* died, a write was refused, a shutdown ran out of its budget).           *)
(***************************************************************************)
EXTENDS Naturals

CONSTANT Record \* the records that may be handed in

VARIABLES place,  \* where each record is
          excused \* the records that may be lost

vars == <<place, excused>>

Place == {"outside", "held", "stored", "lost"}

Init == place = [r \in Record |-> "outside"] /\ excused = {}

\* The records of S go from one of the places `from` to `to`; excuses only grow.
Move(S, from, to) ==
    /\ \A r \in S : place[r] \in from
    /\ place' = [r \in Record |-> IF r \in S THEN to ELSE place[r]]
    /\ excused \subseteq excused' /\ excused' \subseteq Record

Take(r) == Move({r}, {"outside"}, "held")
Store(S) == Move(S, {"outside", "held"}, "stored")
Lose(S) == Move(S, {"outside", "held"}, "lost") /\ S \subseteq excused'

Next == \/ \E r \in Record : Take(r)
        \/ \E S \in SUBSET Record : Store(S) \/ Lose(S)

Spec == Init /\ [][Next]_vars
=============================================================================
