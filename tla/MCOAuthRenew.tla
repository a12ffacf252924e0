---------------------------- MODULE MCOAuthRenew ----------------------------
(***************************************************************************)
(* Instances of OAuthRenew for TLC.                                        *)
(***************************************************************************)
EXTENDS OAuthRenew, TLC

Symmetry == Permutations(Request)

\* What the vendor hands out, and what the operator does at the console.
LongLived == {"fresh"}
SignsIn == {"in"}
SignsOut == {"out"}
SignsInOrOut == {"in", "out"}
=============================================================================
