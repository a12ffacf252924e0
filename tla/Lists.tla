-------------------------------- MODULE Lists ---------------------------------
(***************************************************************************)
(* The loops of the code that keep part of a slice: for every element in   *)
(* order, append it to the result if it is wanted.                         *)
(***************************************************************************)
EXTENDS Integers, Sequences

Kept(s, wanted) ==
    LET upTo[i \in 0 .. Len(s)] ==
            IF i = 0 THEN <<>>
            ELSE IF s[i] \in wanted THEN Append(upTo[i - 1], s[i]) ELSE upTo[i - 1]
    IN upTo[Len(s)]
===============================================================================
