------------------------------ MODULE ClaudeWire ------------------------------
(***************************************************************************)
(* The converters that write an Anthropic Messages stream: from Chat and   *)
(* from Responses.                                                         *)
(***************************************************************************)
EXTENDS Wire

\* closeTextBlock and closeThinkingBlock.
CloseBlock(t, kind) ==
    IF kind \in t.open
      THEN [Put(t, <<Shut(t.next)>>) EXCEPT !.open = @ \ {kind}, !.next = @ + 1]
      ELSE t
CloseBoth(t) == CloseBlock(CloseBlock(t, "think"), "text")

\* startTextBlock and startThinkingBlock: the other one is closed first.
Other(kind) == IF kind = "text" THEN "think" ELSE "text"
StartBlock(t, kind) ==
    LET u == CloseBlock(t, Other(kind)) IN
    IF kind \in t.open THEN t
    ELSE [Put(u, <<Open(u.next, kind)>>)
            EXCEPT !.open = @ \union {kind}, !.texted = @ \/ kind = "text"]
SayBlock(t, kind) ==
    LET u == StartBlock(t, kind) IN Put(u, <<Piece(u.next, kind, 1)>>)

StartTool(t, c) ==
    LET u == CloseBoth(t) IN
    IF \E i \in ToolOf(t, c) : t.tools[i].open THEN t
    ELSE [Put(u, <<OpenTool(u.next, c)>>)
            EXCEPT !.next = @ + 1, !.tools = Append(@, NewTool(c, u.next))]

ToolArgs(t, c, n) ==
    LET i == ToolAt(t, c) IN
    IF n = 0 \/ ~HasTool(t, c) THEN t
    ELSE [IF t.tools[i].open THEN Put(t, <<Piece(t.tools[i].at, "tool", n)>>) ELSE t
            EXCEPT !.tools[i].sent = @ + n]

\* Mutant of ChatToClaude: reasoning becomes a thinking block whenever it comes.
ChatToClaudeLateThinking(t, chunk) ==
    LET u == Started(t)
        v == IF chunk.think THEN SayBlock(u, "think") ELSE u
    IN IF chunk.call # 0 THEN ToolArgs(StartTool(v, chunk.call), chunk.call, chunk.args)
       ELSE IF chunk.text THEN SayBlock(v, "text") ELSE v

\* One chunk of a Chat stream: reasoning only before any text; a chunk with a tool call
\* is not read for text.
ChatToClaude(t, chunk) ==
    LET u == Started(t)
        v == IF chunk.think /\ ~u.texted THEN SayBlock(u, "think") ELSE u
    IN IF chunk.call # 0 THEN ToolArgs(StartTool(v, chunk.call), chunk.call, chunk.args)
       ELSE IF chunk.text THEN SayBlock(v, "text") ELSE v

\* The events of a Responses stream: deltas, ...
ResponsesToClaudeDelta(t, kind) == SayBlock(Started(t), kind)
\* ... a reasoning item that carries a thinking block of an earlier Claude turn, ...
ResponsesToClaudeSealed(t) ==
    LET u == CloseBoth(Started(t)) IN
    [Put(u, <<Open(u.next, "think")>>) EXCEPT !.open = @ \union {"think"}]
\* ... a call, its arguments in pieces, ...
ResponsesToClaudeCall(t, c) == StartTool(Started(t), c)
ResponsesToClaudeArgs(t, c) == ToolArgs(t, c, 1)

\* Mutant of ResponsesToClaudeSaid: the arguments are repeated whole.
ResponsesToClaudeSaidAgain(t, c, all) == ToolArgs(t, c, all)

\* ... and the whole of them again, of which only the tail is new, ...
ResponsesToClaudeSaid(t, c, all) ==
    IF HasTool(t, c) THEN ToolArgs(t, c, all - t.tools[ToolAt(t, c)].sent) ELSE t
\* ... once more as the item ends.
ResponsesToClaudeDone(t, c, all) ==
    LET u == ResponsesToClaudeSaid(t, c, all)
        i == ToolAt(u, c)
    IN IF HasTool(u, c) /\ u.tools[i].open THEN ShutTool(u, i) ELSE u

\* The body ended with its closing frame.  From Chat the tool blocks close in the order
\* they opened, from Responses in any.
ClaudeFinish(t, order) ==
    IF t.begun THEN Ended(Put(ShutTools(CloseBoth(t), order), <<Whole>>), "none")
    ELSE Ended(t, "empty")

\* closeInterruptedClaudeStream: the tool blocks, the open block, an error, and
\* message_stop; nothing of a turn that never began.
ClaudeCut(t, order) ==
    Ended(IF t.begun THEN Put(CloseBoth(ShutTools(t, order)), <<Fail, Over>>) ELSE t, "cut")

ChatToClaudeError(t) == Ended(Put(t, <<Fail>>), "refused")
ResponsesToClaudeError(t) == Ended(Put(Started(t), <<Fail>>), "refused")
=============================================================================
