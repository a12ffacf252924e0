---------------------------- MODULE AccountSlots ----------------------------
(***************************************************************************)
(* What a lane promises an account about concurrency: at most `limit`      *)
(* exchanges that were admitted under a limit are in flight when another   *)
(* one is admitted under it.  The operator may change the limit at any     *)
(* time; 0 is no limit, and an exchange admitted under no limit is free.   *)
(***************************************************************************)
EXTENDS Naturals, FiniteSets

CONSTANTS Request, \* the requests that may want the account
          Limit    \* the limits the operator may set

VARIABLES limit,   \* the limit in force
          active   \* limited exchanges in flight

vars == <<limit, active>>

Init == limit \in Limit /\ active = {}

Start(r) ==
    /\ r \notin active
    /\ limit > 0 /\ Cardinality(active) < limit
    /\ active' = active \union {r} /\ UNCHANGED limit

End(r) == r \in active /\ active' = active \ {r} /\ UNCHANGED limit

Resize == limit' \in Limit /\ UNCHANGED active

Next == Resize \/ \E r \in Request : Start(r) \/ End(r)

Spec == Init /\ [][Next]_vars
=============================================================================
