------------------------------- MODULE MCConfig -------------------------------
(***************************************************************************)
(* Instances of Config for TLC.                                            *)
(***************************************************************************)
EXTENDS Config, TLC

Symmetry == Permutations(Provider) \cup Permutations(Route) \cup Permutations(Profile)

\* Bind to a route with one backup behind it, or leave both empty.
Routings == {[route |-> r, backups |-> {p}] : r \in Route, p \in Provider}
            \cup {[route |-> None, backups |-> {}]}
=============================================================================
