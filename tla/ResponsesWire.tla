----------------------------- MODULE ResponsesWire -----------------------------
(***************************************************************************)
(* The converters that write a Responses stream: from Claude, behind a     *)
(* gate that opens with the first block a client can read, and from Chat.  *)
(* Custom and tool-search calls, whose input is written as the item ends,  *)
(* are left out.                                                           *)
(***************************************************************************)
EXTENDS Wire

\* From Claude every block has an entry, keyed by its upstream index.

ClaudeToResponsesStart(t, index, kind, c) ==
    LET u == IF kind = "think" THEN Started(t) ELSE Unveil(Started(t)) IN
    [Put(u, <<IF kind = "tool" THEN OpenTool(u.next, c) ELSE Open(u.next, kind)>>)
        EXCEPT !.next = @ + 1, !.tools = Append(@, NewTool(index, u.next))]

ClaudeToResponsesDelta(t, index, kind) ==
    LET i == ToolAt(t, index) IN
    IF HasTool(t, index) /\ t.tools[i].open THEN Put(t, <<Piece(t.tools[i].at, kind, 1)>>)
    ELSE t

\* closeBlock.
ClaudeToResponsesStop(t, index) ==
    LET i == ToolAt(t, index) IN
    IF HasTool(t, index) /\ t.tools[i].open THEN ShutTool(t, i) ELSE t

\* The blocks left open are closed; a completed turn that showed nothing is no answer; any
\* other is finalized, through the gate.
ClaudeToResponsesFinish(t, order, reason) ==
    LET u == ShutTools(Started(t), order) IN
    IF u.gated /\ reason # "cap" THEN Ended(u, "empty")
    ELSE Ended(Put(u, <<Whole>>), "none")

\* interrupt: nothing of a turn that was never visible.
ClaudeToResponsesCut(t, order) ==
    Ended(IF t.gated THEN t ELSE Put(ShutTools(t, order), <<Fail>>), "cut")

ClaudeToResponsesError(t) == Ended(Put(Unveil(Started(t)), <<Fail>>), "refused")

-----------------------------------------------------------------------------
\* From Chat there is one message item: `texted` once it was opened, "text" \in open while
\* it is.

\* closeMessageItem.
CloseMessage(t) ==
    IF "text" \in t.open
      THEN [Put(t, <<Shut(t.next)>>) EXCEPT !.open = {}, !.next = @ + 1]
      ELSE t

\* appendTextDelta: a message once opened is not opened again, closed or not, and its
\* text is written at the number that comes next.
AppendText(t) ==
    LET u == IF t.texted THEN t
             ELSE [Put(Started(t), <<Open(t.next, "text")>>)
                     EXCEPT !.texted = TRUE, !.open = {"text"}]
    IN Put(u, <<Piece(u.next, "text", 1)>>)

\* handleToolCallDelta, for a call named in its first piece.
AppendCall(t, c, n) ==
    LET v == CloseMessage(Started(t))
        u == IF HasTool(t, c) THEN t
             ELSE [Put(v, <<OpenTool(v.next, c)>>)
                     EXCEPT !.next = @ + 1, !.tools = Append(@, NewTool(c, v.next))]
        i == ToolAt(u, c)
    IN IF n = 0 THEN u
       ELSE [Put(u, <<Piece(u.tools[i].at, "tool", n)>>) EXCEPT !.tools[i].sent = @ + n]

\* Calls first, then text; reasoning is kept for the log.
ChatToResponses(t, chunk) ==
    LET u == IF chunk.call = 0 THEN t ELSE AppendCall(t, chunk.call, chunk.args)
    IN IF chunk.text THEN AppendText(u) ELSE u

HasOutput(t) == t.texted \/ t.tools # <<>>

ChatToResponsesFinish(t) ==
    IF HasOutput(t) THEN Ended(Put(ShutTools(CloseMessage(t), InOrder(t)), <<Whole>>), "none")
    ELSE Ended(t, "empty")

\* Mutant of ChatToResponsesCut: a turn of nothing but calls passes for silent.
ChatToResponsesCutText(t) == Ended(IF t.texted THEN Put(t, <<Fail>>) ELSE t, "cut")

\* closeInterruptedChatToResponsesStream: no item is closed.
ChatToResponsesCut(t) == Ended(IF HasOutput(t) THEN Put(t, <<Fail>>) ELSE t, "cut")

ChatToResponsesError(t) == Ended(Put(t, <<Fail>>), "refused")
=============================================================================
