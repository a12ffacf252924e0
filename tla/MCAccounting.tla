---------------------------- MODULE MCAccounting ----------------------------
(***************************************************************************)
(* Instances of Accounting for TLC.                                        *)
(***************************************************************************)
EXTENDS Accounting, TLC

Symmetry == Permutations(Request)

End(t, c, f) == [usage |-> [tokens |-> t, cost |-> c], failed |-> f]
\* An answer larger than its prompt, and a failure that cost nothing.
Outcomes == {End(2, 1, FALSE), End(0, 0, TRUE)}
=============================================================================
