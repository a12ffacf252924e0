------------------------------- MODULE ChatWire -------------------------------
(***************************************************************************)
(* The converters that write Chat chunks, from Claude and from Responses,  *)
(* and Gemini candidates, from Chat.  Text stands in no block; a tool call *)
(* opens under its index and is never shut.                                *)
(***************************************************************************)
EXTENDS Wire

Say(t, kind) == Put(Started(t), <<Piece(Loose, kind, 1)>>)
StartCall(t, c) ==
    LET u == Started(t) IN
    [Put(u, <<OpenTool(u.next, c)>>)
        EXCEPT !.next = @ + 1, !.tools = Append(@, NewTool(c, u.next))]
CallArgs(t, i, n) ==
    [Put(t, <<Piece(t.tools[i].at, "tool", n)>>) EXCEPT !.tools[i].sent = @ + n]

-----------------------------------------------------------------------------
\* From Claude: only a call writes as it starts, thinking writes nothing, and `texted`
\* says something visible was written.  "tool" \in open while a call's block is current.

ClaudeToChatStart(t, kind, c) ==
    IF kind = "tool"
      THEN [StartCall(t, c) EXCEPT !.open = {"tool"}, !.texted = TRUE]
      ELSE t

ClaudeToChatDelta(t, kind) ==
    CASE kind = "tool" /\ t.open # {} -> CallArgs(t, Len(t.tools), 1)
      [] kind = "text" -> [Say(t, "text") EXCEPT !.texted = TRUE]
      [] OTHER -> t

ClaudeToChatStop(t) == [t EXCEPT !.open = {}]

\* A completed turn without visible output is no answer.
ClaudeToChatFinish(t, reason) ==
    IF ~t.texted /\ reason # "cap" THEN Ended(t, "empty") ELSE Ended(Put(t, <<Whole>>), "none")

\* closeInterruptedChatStream.
ClaudeToChatCut(t) == Ended(IF t.texted THEN Put(t, <<Fail>>) ELSE t, "cut")

ClaudeToChatError(t) == Ended(Put(t, <<Fail>>), "refused")

-----------------------------------------------------------------------------
\* From Responses.

ResponsesToChatDelta(t, kind) ==
    [Say(t, kind) EXCEPT !.texted = @ \/ kind = "text"]

ResponsesToChatCall(t, c) == IF HasTool(t, c) THEN t ELSE StartCall(t, c)

ResponsesToChatArgs(t, c) == IF HasTool(t, c) THEN CallArgs(t, ToolAt(t, c), 1) ELSE t

\* emitToolStart and emitFullArgsIfMissing, for arguments.done and item.done and, over
\* every call, for the terminal event.
ResponsesToChatDone(t, c, all) ==
    LET u == ResponsesToChatCall(t, c)
        i == ToolAt(u, c)
    IN IF all = 0 \/ u.tools[i].sent > 0 THEN u ELSE CallArgs(u, i, all)

ResponsesToChatFinish(t) ==
    IF t.begun THEN Ended(Put(t, <<Whole>>), "none") ELSE Ended(t, "empty")

\* closeInterruptedResponsesToChatStream: reasoning alone is not told it was cut.
ResponsesToChatCut(t) ==
    Ended(IF t.texted \/ t.tools # <<>> THEN Put(t, <<Fail>>) ELSE t, "cut")

\* The error body is written as it is, not as an event.
ResponsesToChatError(t) == Ended(Put(t, <<Raw>>), "refused")

-----------------------------------------------------------------------------
\* To Gemini: every chunk is a candidate of its own.  A call is read only from the chunk
\* that names it, whose arguments have to be the whole of them; pieces without a name are
\* passed over.

ChatToGemini(t, chunk) ==
    LET named == chunk.call # 0 /\ ~HasTool(t, chunk.call)
        u == IF chunk.think THEN Say(t, "think") ELSE t
        v == IF chunk.text THEN Say(u, "text") ELSE u
    IN IF named THEN LET w == StartCall(v, chunk.call) IN CallArgs(w, Len(w.tools), chunk.args)
       ELSE v
NotJSON(t, chunk) == chunk.call # 0 /\ ~HasTool(t, chunk.call) /\ chunk.args > 0 /\ ~chunk.json

\* The finish reason rides a candidate; the body's end has no frame, cut or not.
ChatToGeminiReason(t) == Put(t, <<Whole>>)
ChatToGeminiFinish(t) == Ended(IF t.wire = <<>> THEN Put(t, <<Begin>>) ELSE t, "none")
=============================================================================
