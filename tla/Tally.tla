-------------------------------- MODULE Tally --------------------------------
(***************************************************************************)
(* Requests, and tables that count how often each has been written.        *)
(***************************************************************************)
EXTENDS Naturals, FiniteSets

CONSTANT Request \* the requests

ASSUME RequestsFinite == IsFiniteSet(Request)

Zero == [r \in Request |-> 0]
AddAll(counts, S) == [r \in Request |-> counts[r] + IF r \in S THEN 1 ELSE 0]
=============================================================================
