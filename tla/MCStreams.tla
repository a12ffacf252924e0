------------------------------- MODULE MCStreams -------------------------------
(* Every leg that ends a block or a call, with two calls, and both shapes of      *)
(* delivery.                                                                      *)
EXTENDS StreamsInv

MCCall == {1, 2}
MCAll  == FromChat \union FromResponses \union FromClaude
MCFrames == [r \in MCAll |-> CASE r \in FromChat -> 4 [] r \in FromResponses -> 5 [] OTHER -> 6]
=============================================================================
