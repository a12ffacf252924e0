------------------------------- MODULE PassWire -------------------------------
(***************************************************************************)
(* A Claude stream forwarded as it comes.  `held` is the opening the       *)
(* writer keeps: what its first write carried.  A guarded stream goes      *)
(* frame by frame through claudeEmptyTurnGuard, for which `texted` says a  *)
(* block the client can read was opened.                                   *)
(***************************************************************************)
EXTENDS Wire

\* writeFrame: the closing frame of a turn that showed nothing becomes an error.
Guarded(t, e, guarded) == IF guarded /\ ~t.texted /\ e.ev \in {"whole", "over"} THEN Fail ELSE e

\* Mutant of PassFrame: the closing frame is forwarded whatever came before it.
PassFrameUnguarded(t, e, guarded, together) ==
    [Put(t, <<e>>)
        EXCEPT !.held = IF t.wire = <<>> THEN <<e>> ELSE @,
               !.begun = TRUE,
               !.texted = @ \/ (e.ev = "open" /\ e.kind # "think")]

\* One frame, that came `together` with those before it or in a read of its own.  The guard
\* writes every frame by itself.
PassFrame(t, e, guarded, together) ==
    LET out == Guarded(t, e, guarded)
        opening == t.wire = <<>> \/ (together /\ ~guarded /\ t.held = t.wire)
    IN [Put(t, <<out>>)
            EXCEPT !.held = IF opening THEN Append(@, out) ELSE @,
                   !.begun = TRUE,
                   !.texted = @ \/ (e.ev = "open" /\ e.kind # "think")]

\* closeInterruptedStream: the blocks the opening left open are closed, in some order,
\* then an error and message_stop.
PassCut(t, order, guarded) ==
    IF t.wire = <<>> THEN Ended(t, "cut")
    ELSE Ended(Put(t, [i \in DOMAIN order |-> Shut(order[i])]
                        \o <<Fail, Guarded(t, Over, guarded)>>), "cut")
PassOrders(t) == SetToSeqs(OpenBlocks(t.held))
=============================================================================
