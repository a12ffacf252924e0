-------------------------------- MODULE Streams --------------------------------
(***************************************************************************)
(* One streamed answer: the upstream sends its frames and its body ends,   *)
(* whole, cut or in an error; the converter of the route writes the        *)
(* client's stream frame by frame; and the attempt is shown, held back or  *)
(* retried.                                                                *)
(***************************************************************************)
EXTENDS ClaudeWire, ResponsesWire, ChatWire, PassWire, FiniteSets

CONSTANTS
    Routes,      \* the legs of this instance
    MaxFrames,   \* per leg, bound on the frames of an attempt
    MaxAttempts  \* maxUpstreamEmptyStreamAttempts

FromChat      == {"ChatToClaude", "ChatToResponses", "ChatToGemini"}
FromResponses == {"ResponsesToClaude", "ResponsesToChat"}
PassThrough   == {"ClaudePass", "ClaudeOAuthPass"}
FromClaude    == {"ClaudeToResponses", "ClaudeToChat"} \union PassThrough
ToBlocks      == {"ChatToClaude", "ResponsesToClaude", "ChatToResponses", "ClaudeToResponses"}
Retried       == (FromChat \union FromResponses \union FromClaude)
                   \ ({"ChatToClaude"} \union PassThrough)

ASSUME StreamAssumption ==
    /\ Routes \subseteq FromChat \union FromResponses \union FromClaude
    /\ IsFiniteSet(Call) /\ Call = 1 .. Cardinality(Call)
    /\ MaxFrames \in [Routes -> Nat] /\ MaxAttempts \in Nat \ {0}

VARIABLES
    route,       \* which protocol is read and which is written
    behindLoop,  \* the failover loop's writer is in front of the client
    up,          \* what the upstream has sent of this attempt
    t,           \* the converter's memory
    late,        \* the opening has been held for converterHoldLimit
    committed,   \* the client sees this attempt
    base,        \* what earlier attempts showed it
    attempt, ending

vars == <<route, behindLoop, up, t, late, committed, base, attempt, ending>>

Client == base \o (IF committed THEN t.wire ELSE <<>>)

NothingSent == [frames |-> 0, block |-> "none", index |-> 0, call |-> 0, args |-> [c \in Call |-> 0],
                called |-> {}, over |-> {}, said |-> {}, reason |-> "none"]
Fresh(r) == Memory(r = "ClaudeToResponses")

Init ==
    /\ route \in Routes
    /\ behindLoop \in BOOLEAN
    /\ up = NothingSent
    /\ t = Fresh(route)
    /\ late = FALSE /\ committed = FALSE
    /\ base = <<>> /\ attempt = 1 /\ ending = "none"

-----------------------------------------------------------------------------
\* Showing what was written.

\* turnIsRefusal.
Refusal(e) == e.ev \in {"fail", "raw"}
\* turnHasContent, on the frames of each protocol.
Content(e) ==
    CASE route \in {"ChatToClaude", "ResponsesToClaude"} -> e.ev \in {"piece", "whole"}
      [] route \in {"ChatToResponses", "ClaudeToResponses"} -> e.ev \in {"piece", "shut"}
      [] route = "ClaudeToChat" -> e.ev = "piece" /\ e.kind \in {"text", "tool"}
      [] route = "ResponsesToChat" ->
             (e.ev = "piece" /\ e.kind \in {"text", "tool"}) \/ (e.ev = "open")
      [] OTHER -> e.ev = "piece" /\ e.kind \in {"text", "think"}

Holding == behindLoop /\ route \notin PassThrough

\* deferredSSEWriter shows every byte; converterStreamWriter holds the turn until it has
\* content or is late, a refusal always.
Shown(u) ==
    LET new == SubSeq(u.wire, Len(t.wire) + 1, Len(u.wire)) IN
    \/ committed
    \/ IF Holding
         THEN \E i \in DOMAIN new : Content(new[i]) \/ (late /\ ~Refusal(new[i]))
         ELSE new # <<>>

\* converterStreamWriter.Finish: a held turn that is no refusal is let go.
ShownAtEnd(u) ==
    Shown(u) \/ (Holding /\ u.wire # <<>> /\ \A i \in DOMAIN u.wire : ~Refusal(u.wire[i]))

Running == ending = "none"

\* The frame was read and u is the converter's memory after it.
Frame(sent, u) ==
    /\ Running /\ up.reason = "none" /\ up.frames < MaxFrames[route]
    /\ up' = [sent EXCEPT !.frames = @ + 1]
    /\ t' = u /\ committed' = Shown(u)
    /\ UNCHANGED <<route, behindLoop, late, base, attempt, ending>>

-----------------------------------------------------------------------------
\* Chat upstream.

MayCall(c) == (c \in up.called \/ c = 1 + Cardinality(up.called)) /\ c \notin up.over
Chunks == [think : BOOLEAN, text : BOOLEAN, call : Call \union {0}, args : 0 .. 1, json : BOOLEAN]

ChatChunk(chunk) ==
    /\ route \in FromChat
    /\ ~(chunk.think /\ chunk.text)
    /\ chunk.call = 0 => chunk.args = 0 /\ (chunk.think \/ chunk.text)
    /\ chunk.call # 0 => MayCall(chunk.call)
    /\ chunk.json => route = "ChatToGemini" /\ chunk.args = 1 /\ chunk.call \notin up.called
    /\ ~(route = "ChatToGemini" /\ NotJSON(t, chunk))
    /\ Frame(IF chunk.call = 0 THEN up
             ELSE [up EXCEPT !.called = @ \union {chunk.call},
                             !.args[chunk.call] = @ + chunk.args,
                             !.over = IF chunk.json THEN @ \union {chunk.call} ELSE @],
             CASE route = "ChatToClaude"    -> ChatToClaude(t, chunk)
               [] route = "ChatToResponses" -> ChatToResponses(t, chunk)
               [] OTHER                     -> ChatToGemini(t, chunk))

-----------------------------------------------------------------------------
\* Claude upstream: one block after the other.

Kinds == {"text", "tool", "think"}

\* Where a read ends matters only to a stream forwarded without the guard.
Reads(together) == together => route = "ClaudePass"
\* The event a forwarded frame is.
Forwarded(e, together) == PassFrame(t, e, route = "ClaudeOAuthPass", together)

MessageStart ==
    /\ route \in FromClaude
    /\ up.frames = 0
    /\ Frame([up EXCEPT !.index = 1],
             CASE route = "ClaudeToResponses" -> Started(t)
               [] route = "ClaudeToChat"      -> t
               [] OTHER                       -> Forwarded(Begin, FALSE))

BlockStart(kind, together) ==
    LET c == Cardinality(up.called) + 1 IN
    /\ route \in FromClaude /\ Reads(together)
    /\ up.frames > 0 /\ up.block = "none"
    /\ kind = "tool" => c \in Call
    /\ Frame([up EXCEPT !.block = kind, !.call = IF kind = "tool" THEN c ELSE @,
                        !.called = IF kind = "tool" THEN @ \union {c} ELSE @],
             CASE route = "ClaudeToResponses" -> ClaudeToResponsesStart(t, up.index, kind, c)
               [] route = "ClaudeToChat"      -> ClaudeToChatStart(t, kind, c)
               [] OTHER -> Forwarded(IF kind = "tool" THEN OpenTool(up.index, c)
                                     ELSE Open(up.index, kind), together))

BlockDelta(together) ==
    /\ route \in FromClaude /\ Reads(together)
    /\ up.block # "none"
    /\ Frame(IF up.block = "tool" THEN [up EXCEPT !.args[up.call] = @ + 1] ELSE up,
             CASE route = "ClaudeToResponses" -> ClaudeToResponsesDelta(t, up.index, up.block)
               [] route = "ClaudeToChat"      -> ClaudeToChatDelta(t, up.block)
               [] OTHER -> Forwarded(Piece(up.index, up.block, 1), together))

BlockStop(together) ==
    /\ route \in FromClaude /\ Reads(together)
    /\ up.block # "none"
    /\ Frame([up EXCEPT !.block = "none", !.index = @ + 1],
             CASE route = "ClaudeToResponses" -> ClaudeToResponsesStop(t, up.index)
               [] route = "ClaudeToChat"      -> ClaudeToChatStop(t)
               [] OTHER -> Forwarded(Shut(up.index), together))

-----------------------------------------------------------------------------
\* Responses upstream: items in any interleaving.

ItemDelta(kind) ==
    /\ route \in FromResponses
    /\ Frame(up, IF route = "ResponsesToClaude" THEN ResponsesToClaudeDelta(t, kind)
                 ELSE ResponsesToChatDelta(t, kind))

SealedReasoning ==
    /\ route = "ResponsesToClaude"
    /\ Frame(up, ResponsesToClaudeSealed(t))

CallAdded(c) ==
    /\ route \in FromResponses
    /\ c = 1 + Cardinality(up.called)
    /\ Frame([up EXCEPT !.called = @ \union {c}],
             IF route = "ResponsesToClaude" THEN ResponsesToClaudeCall(t, c)
             ELSE ResponsesToChatCall(t, c))

CallDelta(c) ==
    /\ route \in FromResponses
    /\ c \in up.called \ up.said
    /\ Frame([up EXCEPT !.args[c] = @ + 1],
             IF route = "ResponsesToClaude" THEN ResponsesToClaudeArgs(t, c)
             ELSE ResponsesToChatArgs(t, c))

\* arguments.done and item.done repeat the arguments; a call without deltas has them only
\* there.
Complete(c, all) == all \in (IF up.args[c] = 0 /\ c \notin up.said THEN 0 .. 1 ELSE {up.args[c]})

CallSaid(c, all) ==
    /\ route \in FromResponses
    /\ c \in up.called \ up.said /\ Complete(c, all)
    /\ Frame([up EXCEPT !.said = @ \union {c}, !.args[c] = all],
             IF route = "ResponsesToClaude" THEN ResponsesToClaudeSaid(t, c, all)
             ELSE ResponsesToChatDone(t, c, all))

CallDone(c, all) ==
    /\ route \in FromResponses
    /\ c \in up.called \ up.over /\ Complete(c, all)
    /\ Frame([up EXCEPT !.said = @ \union {c}, !.over = @ \union {c}, !.args[c] = all],
             IF route = "ResponsesToClaude" THEN ResponsesToClaudeDone(t, c, all)
             ELSE ResponsesToChatDone(t, c, all))

-----------------------------------------------------------------------------
\* The closing frame, with the reason the turn stopped for.

Reasons == {"end", "cap"}

\* To Chat, the terminal event goes through the calls once more, in their order.
CompletedCalls ==
    LET upTo[c \in 0 .. Cardinality(up.called)] ==
            IF c = 0 THEN t ELSE ResponsesToChatDone(upTo[c - 1], c, up.args[c])
    IN upTo[Cardinality(up.called)]

ClosingFrame(reason, together) ==
    /\ Running /\ up.reason = "none" /\ Reads(together)
    /\ route \in FromClaude => up.frames > 0
    /\ up.block # "none" => route = "ClaudeToResponses"
    /\ up' = [up EXCEPT !.reason = reason]
    /\ t' = CASE route \in PassThrough       -> Forwarded(Whole, together)
              [] route = "ChatToGemini"      -> ChatToGeminiReason(t)
              [] route = "ResponsesToChat"   -> CompletedCalls
              [] OTHER -> t
    /\ committed' = Shown(t')
    /\ UNCHANGED <<route, behindLoop, late, base, attempt, ending>>

-----------------------------------------------------------------------------
\* The body ends.

\* Mutant of MayRetry: an attempt the client saw is asked again.
MayRetryShown(err, shown) ==
    err \in {"cut", "empty"} /\ route \in Retried /\ attempt < MaxAttempts

\* Mutant of MayRetry: one attempt too many.
MayRetryMore(err, shown) ==
    err \in {"cut", "empty"} /\ ~shown /\ route \in Retried /\ attempt <= MaxAttempts

\* finishConvertedProxy: only an attempt that reached nobody is asked again.
MayRetry(err, shown) ==
    err \in {"cut", "empty"} /\ ~shown /\ route \in Retried /\ attempt < MaxAttempts

Settle(e, how) ==
    LET shown == ShownAtEnd(e.t) IN
    /\ Running
    /\ IF MayRetry(e.err, shown)
         THEN /\ base' = base \o (IF shown THEN e.t.wire ELSE <<>>)
              /\ t' = Fresh(route) /\ up' = NothingSent
              /\ late' = FALSE /\ committed' = FALSE
              /\ attempt' = attempt + 1
              /\ UNCHANGED ending
         ELSE /\ t' = e.t /\ committed' = shown /\ ending' = how
              /\ UNCHANGED <<up, base, late, attempt>>
    /\ UNCHANGED <<route, behindLoop>>

\* The body ended with its closing frame.
EndWhole ==
    /\ up.reason # "none"
    /\ \E order \in AnyOrder(t) :
         Settle(CASE route = "ChatToClaude"      -> ClaudeFinish(t, InOrder(t))
                  [] route = "ResponsesToClaude" -> ClaudeFinish(t, order)
                  [] route = "ClaudeToResponses" -> ClaudeToResponsesFinish(t, order, up.reason)
                  [] route = "ChatToResponses"   -> ChatToResponsesFinish(t)
                  [] route = "ClaudeToChat"      -> ClaudeToChatFinish(t, up.reason)
                  [] route = "ResponsesToChat"   -> ResponsesToChatFinish(t)
                  [] route = "ChatToGemini"      -> ChatToGeminiFinish(t)
                  [] OTHER                       -> Ended(t, "none"), "whole")

\* It ended cleanly without one: cleanEOFInterruption, unless nothing at all was read.
EndClean ==
    /\ up.reason = "none"
    /\ \/ /\ route \in PassThrough
          /\ \E order \in PassOrders(t) :
               Settle(PassCut(t, order, route = "ClaudeOAuthPass"), "clean")
       \/ /\ route \notin PassThrough
          /\ \E order \in AnyOrder(t) :
               Settle(IF route = "ChatToGemini" THEN ChatToGeminiFinish(t)
                      ELSE IF up.frames = 0 THEN Ended(t, "empty")
                      ELSE CASE route \in {"ChatToClaude", "ResponsesToClaude"} -> ClaudeCut(t, order)
                             [] route = "ClaudeToResponses" -> ClaudeToResponsesCut(t, order)
                             [] route = "ChatToResponses"   -> ChatToResponsesCut(t)
                             [] route = "ClaudeToChat"      -> ClaudeToChatCut(t)
                             [] OTHER                       -> ResponsesToChatCut(t), "clean")

\* The read failed: the converters give up at scanner.Err, ClaudeToResponses and a
\* forwarded stream close what they wrote.
EndReset ==
    \/ /\ route \in PassThrough
       /\ \E order \in PassOrders(t) :
            Settle(PassCut(t, order, route = "ClaudeOAuthPass"), "reset")
    \/ /\ route = "ClaudeToResponses"
       /\ \E order \in AnyOrder(t) : Settle(ClaudeToResponsesCut(t, order), "reset")
    \/ /\ route \notin PassThrough \union {"ClaudeToResponses"}
       /\ Settle(Ended(t, "cut"), "reset")

\* An error frame; to Gemini, a call whose arguments are no JSON.
ErrorFrame ==
    /\ up.reason = "none"
    /\ route \in PassThrough => up.frames > 0
    /\ \/ /\ route \in PassThrough
          /\ LET u == Forwarded(Fail, FALSE) IN
             \E order \in PassOrders(u) :
               Settle(PassCut(u, order, route = "ClaudeOAuthPass"), "error")
       \/ /\ route \notin PassThrough
          /\ Settle(CASE route = "ChatToClaude"      -> ChatToClaudeError(t)
                      [] route = "ResponsesToClaude" -> ResponsesToClaudeError(t)
                      [] route = "ClaudeToResponses" -> ClaudeToResponsesError(t)
                      [] route = "ChatToResponses"   -> ChatToResponsesError(t)
                      [] route = "ClaudeToChat"      -> ClaudeToChatError(t)
                      [] route = "ResponsesToChat"   -> ResponsesToChatError(t)
                      [] OTHER                       -> Ended(t, "refused"), "error")

\* converterHoldLimit passes over a turn that has written its opening.
HoldLimit ==
    /\ Running /\ Holding /\ ~late /\ ~committed
    /\ \E i \in DOMAIN t.wire : ~Refusal(t.wire[i])
    /\ late' = TRUE
    /\ UNCHANGED <<route, behindLoop, up, t, committed, base, attempt, ending>>

\* A comment frame commits the headers of a direct answer: nobody asks again after it.
Heartbeat ==
    /\ Running /\ ~behindLoop /\ ~committed
    /\ committed' = TRUE
    /\ UNCHANGED <<route, behindLoop, up, t, late, base, attempt, ending>>

Next ==
    \/ \E chunk \in Chunks : ChatChunk(chunk)
    \/ MessageStart
    \/ \E kind \in Kinds, together \in BOOLEAN : BlockStart(kind, together)
    \/ \E together \in BOOLEAN : BlockDelta(together) \/ BlockStop(together)
    \/ \E kind \in {"text", "think"} : ItemDelta(kind)
    \/ SealedReasoning
    \/ \E c \in Call : CallAdded(c) \/ CallDelta(c)
    \/ \E c \in Call, all \in 0 .. MaxFrames[route] : CallSaid(c, all) \/ CallDone(c, all)
    \/ \E reason \in Reasons, together \in BOOLEAN : ClosingFrame(reason, together)
    \/ EndWhole \/ EndClean \/ EndReset \/ ErrorFrame
    \/ HoldLimit \/ Heartbeat

Spec == Init /\ [][Next]_vars

-----------------------------------------------------------------------------
\* The attempts stay within their number and everything a converter remembers of a call
\* belongs to a call of the upstream.
TypeOK ==
    /\ route \in Routes /\ behindLoop \in BOOLEAN /\ late \in BOOLEAN /\ committed \in BOOLEAN
    /\ attempt \in 1 .. MaxAttempts
    /\ ending \in {"none", "whole", "clean", "reset", "error"}
    /\ up.frames \in 0 .. MaxFrames[route] /\ up.called \subseteq Call /\ up.over \subseteq Call
    /\ up.args \in [Call -> Nat] /\ up.reason \in Reasons \union {"none"}
    /\ t.open \subseteq Kinds
    /\ \A i \in DOMAIN t.tools : t.tools[i].at < t.next

\* What a client's protocol refuses is not written: blocks open in order and shut once,
\* what grows is open, and to Claude no thinking opens behind text.  Text behind a call is
\* the exception of ChatToResponses (appendTextDelta).
WellFormed ==
    /\ route \notin PassThrough => Paired(Client)
    /\ route # "ChatToResponses" => GrowsOpen(Client)
    /\ route = "ChatToClaude" =>
         \A i, j \in DOMAIN Client :
            Client[i] = Open(Client[i].at, "text") /\ Client[j] = Open(Client[j].at, "think") => j < i

\* The client reads one reply: it begins once, and nothing is said after its end.
OneReply ==
    /\ Cardinality({i \in DOMAIN Client : Client[i].ev = "begin"}) <= 1
    /\ \A i, j \in DOMAIN Client :
         i < j /\ Client[i].ev \in {"whole", "fail", "raw"} =>
             Client[j].ev \notin {"begin", "open", "piece"}

\* An answer that ends as finished is finished: the upstream closed it, no block is open,
\* and every call has its arguments once, whole.  Gemini reads a call from one chunk.
CallAt(c) == {Client[i].at : i \in {j \in DOMAIN Client : Client[j] = OpenTool(Client[j].at, c)}}
FinishedIsWhole ==
    Says(Client, "whole") =>
        /\ up.reason # "none"
        /\ route \notin FromChat \ ToBlocks /\ route \notin {"ClaudeToChat", "ResponsesToChat"} =>
              OpenBlocks(Client) = {}
        /\ route # "ChatToGemini" =>
              \A c \in up.called : \E at \in CallAt(c) :
                  CallAt(c) = {at} /\ Amount(Client, at, "tool") = up.args[c]

\* The ends at which a client is told.  A body that just stops is told on every leg but to
\* Gemini, which has no frame for it.  A read that fails (scanner.Err) is told by a forwarded
\* stream and by ClaudeToResponses; the other converters return there with nothing written,
\* though stream_interruption_close.go:10-14 speaks of every converter.
TellReset == PassThrough \union {"ClaudeToResponses"}
Tells(how) ==
    route # "ChatToGemini" /\ (how = "clean" \/ (how = "reset" /\ route \in TellReset))

\* An answer the client can read part of, and whose body ended early in one of those ways,
\* carries the error event of its protocol.  To Claude a message_stop follows that event.
Readable(w) == \E i \in DOMAIN w : w[i].ev = "piece" /\ w[i].kind \in {"text", "tool"}
CutIsTold == Tells(ending) /\ Readable(Client) => Says(Client, "fail")

\* A Claude turn that thought, stopped of its own accord and said nothing is never a
\* finished answer: errThinkingOnlyEmptyResponse, claudeEmptyTurnGuard.
EmptyTurnIsNoAnswer ==
    route \in FromClaude \ {"ClaudePass"} /\ up.reason = "end" /\ Says(Client, "whole") =>
        \E i \in DOMAIN Client :
            \/ Client[i].ev = "open" /\ Client[i].kind # "think"
            \/ Client[i].ev = "piece"
=============================================================================
