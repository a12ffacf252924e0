------------------------------ MODULE MCFailover ------------------------------
(***************************************************************************)
(* Small instances of Failover.                                            *)
(***************************************************************************)
EXTENDS Failover

CONSTANTS a, b, c1, c2, s1, s2

TwoAccounts == <<a, b>>
BothModes == {"order", "spread"}
Ordered == {"order"}
Nobody == {}
Either == {"down", "spent"}
Primary == {a}
Backup == {b}
Both == {a, b}
===============================================================================
