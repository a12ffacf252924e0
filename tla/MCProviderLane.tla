--------------------------- MODULE MCProviderLane ---------------------------
(***************************************************************************)
(* Instances of ProviderLane for TLC.                                      *)
(***************************************************************************)
EXTENDS ProviderLane, TLC

Symmetry == Permutations(Request)

Size(m, n, w) == [max |-> m, rpm |-> n, wait |-> w]

\* How the wall clock is stepped: never, or back by more than a window and forwards.
NoJump == {}
Jumps == {-3, 2}

\* Slots and a rate together, with rows that wait; the operator lifts, sets and
\* raises the slot limit and moves the rate.
Limits == {Size(0, 2, 2), Size(1, 1, 1), Size(2, 2, 1)}
\* A row with both limits and a wait, and a rate-only row without.
Mixed == {Size(1, 1, 2), Size(0, 1, 0)}
\* Slots and a rate, and no wait.
Impatient == {Size(1, 1, 0)}
=============================================================================
