----------------------------- MODULE StreamsInv -----------------------------
(***************************************************************************)
(* The inductive invariants of Streams.  IInv: what a client may be left   *)
(* with is a property of the list of events written to it, and each        *)
(* converter keeps a memory from which one more event, and the closing     *)
(* ones, keep that property.  JInv: that memory tallies with what the      *)
(* upstream sent of its calls.                                             *)
(***************************************************************************)
EXTENDS Streams

-----------------------------------------------------------------------------
\* What is said of a list of events.

\* The events.
Ev == [ev : {"begin", "open", "piece", "shut", "whole", "fail", "over", "raw"}, at : Int,
       kind : Kinds \union {"none"}, n : Int]

\* How a reply begins and ends.
OneBegin(w) == \A i \in DOMAIN w : w[i].ev = "begin" => i = 1
\* What ends a reply for its client: nothing is begun, opened or said behind it.
Ends == {"whole", "fail", "raw"}
NothingAfter(w) == \A i, j \in DOMAIN w :
    i < j /\ w[i].ev \in Ends => w[j].ev \notin {"begin", "open", "piece"}
\* The reply has not ended.
Calm(w) == \A i \in DOMAIN w : w[i].ev \notin Ends
Closes == {"shut", "whole", "fail", "over", "raw"}

\* To Claude, no thinking opens behind text.
ThinkFirst(w) == \A i, j \in DOMAIN w :
    w[i] = Open(w[i].at, "text") /\ w[j] = Open(w[j].at, "think") => j < i
\* No text block was opened.
NoText(w) == \A i \in DOMAIN w : w[i] # Open(w[i].at, "text")

\* Some event of a kind was written.
Seen(w, S) == \E i \in DOMAIN w : w[i] \in S

\* What of a turn counts as an answer, and what of it a client can read.
Visible == {e \in Ev : (e.ev = "open" /\ e.kind # "think") \/ e.ev = "piece"}
Heard == {e \in Ev : e.ev = "piece" /\ e.kind \in {"text", "tool"}}

\* An answer cut short says so.
Told(w) == Seen(w, Heard) => Says(w, "fail")

\* A turn that is finished showed something.
Answered(w) == Says(w, "whole") => Seen(w, Visible)

-----------------------------------------------------------------------------
\* The memory of a converter.

\* A call as a converter remembers it, and the memory itself.
Tool == [key : Int, at : Nat, open : BOOLEAN, sent : Int]
Mem == [wire : Seq(Ev), held : Seq(Ev), gated : BOOLEAN, begun : BOOLEAN, next : Nat,
        open : SUBSET Kinds, texted : BOOLEAN, tools : Seq(Tool)]

\* What a converter has written, shown or not.
Written(m) == IF m.gated THEN m.held ELSE m.wire
Veiled(m) == m.gated => m.wire = <<>>
\* Whether a text or a thinking block stands open at the next number.
Cur(m) == m.open \ {"tool"} # {}
Blocks(m) == {m.tools[i].at : i \in LiveTools(m)} \union (IF Cur(m) THEN {m.next} ELSE {})

\* A converter's memory agrees with what it wrote; `grows` if every piece it writes is
\* one of an open block.
Numbered(m) ==
    /\ \A at \in Names(Written(m), "open") : at <= m.next /\ (at = m.next => Cur(m))
    /\ \A i \in DOMAIN m.tools : m.tools[i].at < m.next
    /\ \A i, j \in DOMAIN m.tools : i < j => m.tools[i].at < m.tools[j].at
\* A converter in the middle of a reply.  `grows` is off for the one leg whose text goes on
\* behind a call.
Sane(m, grows) ==
    /\ m \in Mem /\ Veiled(m)
    /\ Paired(Written(m)) /\ OpenBlocks(Written(m)) = Blocks(m) /\ Numbered(m)
    /\ grows => GrowsOpen(Written(m))
    /\ OneBegin(Written(m)) /\ Calm(Written(m))
    /\ ~m.begun => Written(m) = <<>>

\* What is still true once the reply has ended.
Fine(m, grows) ==
    /\ m \in Mem /\ Veiled(m)
    /\ Paired(Written(m)) /\ (grows => GrowsOpen(Written(m)))
    /\ OneBegin(Written(m)) /\ NothingAfter(Written(m))
    /\ \A i \in DOMAIN m.tools : m.tools[i].at < m.next

-----------------------------------------------------------------------------
\* Leg by leg, in the middle of a reply.

\* Chat and Gemini: calls stay open, text stands in no block.
Chat(m) ==
    /\ Sane(m, TRUE) /\ m.open \subseteq {"tool"} /\ LiveTools(m) = DOMAIN m.tools
    /\ m.tools # <<>> => m.begun

\* To Chat from Claude.
ClaudeChat(m) ==
    /\ Chat(m) /\ (m.open # {} => m.tools # <<>>) /\ (m.begun <=> m.texted)
    /\ m.texted => Seen(Written(m), Visible)

\* To Chat from Responses.
ResponsesChat(m) ==
    Chat(m) /\ (Seen(Written(m), Heard) => m.texted \/ m.tools # <<>>)

\* To Claude: one of the text and the thinking block is open at most.  From Chat, no
\* thinking opens behind text and no call shuts before the end.
Claude(m, chat) ==
    /\ Sane(m, TRUE) /\ m.open \in {{}, {"text"}, {"think"}}
    /\ chat => /\ ThinkFirst(Written(m)) /\ (m.texted \/ NoText(Written(m)))
               /\ LiveTools(m) = DOMAIN m.tools

\* To Responses from Claude: every block has an entry; what stands behind the gate is
\* nothing a client can read.
Lidded(m) == Sane(m, TRUE) /\ m.open = {} /\ (~m.gated => m.held = <<>>)
Gated(m) == Lidded(m) /\ (~m.gated => Seen(Written(m), Visible))

\* To Responses from Chat: one message, its text written at the number that comes next
\* even when it is closed; calls stay open to the end.
Messages(m) ==
    /\ Sane(m, FALSE) /\ m.open \in {{}, {"text"}} /\ (m.open # {} => m.texted)
    /\ m.begun = (m.texted \/ m.tools # <<>>)
    /\ LiveTools(m) = DOMAIN m.tools

\* A forwarded stream.  The blocks are the upstream's: the one it is in is open, and those
\* that shut came before it.
PassFine(m) ==
    /\ m \in Mem /\ ~m.gated /\ m.tools = <<>>
    /\ GrowsOpen(m.wire) /\ OneBegin(m.wire) /\ NothingAfter(m.wire)
\* A forwarded stream in the middle of a reply.
PassSane(m, sent, guarded) ==
    /\ PassFine(m) /\ Calm(m.wire)
    /\ sent.index \in Nat
    /\ sent.block # "none" => sent.index \in OpenBlocks(m.wire)
    /\ \A at \in Names(m.wire, "shut") : at < sent.index
    /\ guarded /\ m.texted => Seen(m.wire, Visible)

-----------------------------------------------------------------------------
\* The first invariant.

\* What a converter's memory is while its upstream talks, leg by leg.
LegSane(r, m, sent) ==
    /\ r = "ChatToClaude" => Claude(m, TRUE)
    /\ r = "ResponsesToClaude" => Claude(m, FALSE)
    /\ r = "ClaudeToResponses" => Gated(m)
    /\ r = "ChatToResponses" => Messages(m)
    /\ r = "ClaudeToChat" => ClaudeChat(m)
    /\ r = "ResponsesToChat" => ResponsesChat(m)
    /\ r = "ChatToGemini" => Chat(m) /\ ~m.gated
    /\ r \in PassThrough => PassSane(m, sent, r = "ClaudeOAuthPass")

\* What it is at any time: what its client may have been shown.
Good(r, m) ==
    /\ m \in Mem /\ Veiled(m)
    /\ \A i \in DOMAIN m.tools : m.tools[i].at < m.next
    /\ OneBegin(Written(m)) /\ NothingAfter(Written(m))
    /\ r \notin PassThrough => Paired(Written(m))
    /\ r # "ChatToResponses" => GrowsOpen(Written(m))
    /\ r = "ChatToClaude" => ThinkFirst(Written(m))

\* The legs.
Legs == FromChat \union FromResponses \union FromClaude

\* The legs that hold an empty turn back.
Guards(r) == r \in FromClaude \ {"ClaudePass"}
Sent == [frames : Nat, block : Kinds \union {"none"}, index : Nat, call : Call \union {0},
         args : [Call -> Nat], called : SUBSET Call, over : SUBSET Call, said : SUBSET Call,
         reason : Reasons \union {"none"}]

\* The parts of the invariant: the attempt; what the upstream has sent; what the converter
\* remembers, leg by leg; and what an attempt is reported with.
Settings ==
    /\ route \in Routes /\ behindLoop \in BOOLEAN /\ late \in BOOLEAN /\ committed \in BOOLEAN
    /\ attempt \in 1 .. MaxAttempts
    /\ ending \in {"none", "whole", "clean", "reset", "error"}
    /\ base = <<>>
Frames ==
    /\ up \in Sent /\ up.frames <= MaxFrames[route]
    /\ up.block = "tool" => up.call \in Call
Memories ==
    /\ Good(route, t)
    /\ Running /\ up.frames = 0 /\ up.reason = "none" => t = Fresh(route) /\ up.block = "none"
    /\ Running /\ (up.reason = "none" \/ route \notin {"ChatToGemini"} \union PassThrough) =>
          LegSane(route, t, up)
    /\ Running /\ route = "ChatToGemini" => Fine(t, TRUE) /\ ~t.gated
    /\ Running /\ route \in PassThrough => PassFine(t)
Reports ==
    /\ Tells(ending) => Told(t.wire)
    /\ Guards(route) /\ up.reason = "end" => Answered(t.wire)
IInv == Settings /\ Frames /\ Memories /\ Reports

-----------------------------------------------------------------------------
\* What a client was told of calls, and what a converter remembers of them.

\* Where a call opened, and where arguments of calls were written.
CallsAt(w, c) == {w[i].at : i \in {j \in DOMAIN w : w[j] = OpenTool(w[j].at, c)}}
ToolPieces(w) == {w[i].at : i \in {j \in DOMAIN w : w[j].ev = "piece" /\ w[j].kind = "tool"}}

\* A list tallies with what the upstream sent: every call opened once, with as many pieces
\* as the upstream sent of its arguments, and no call but those.
Tallied(w, called, args) ==
    /\ \A c \in called : \E at \in CallsAt(w, c) : CallsAt(w, c) = {at} /\ Amount(w, at, "tool") = args[c]
    /\ \A c \in Call \ called : CallsAt(w, c) = {}
    /\ ToolPieces(w) \subseteq Names(w, "open")
    /\ \A c, d \in Call : c # d => CallsAt(w, c) \cap CallsAt(w, d) = {}

\* A memory keyed by the calls: an entry for each of them, at the number it opened under,
\* with what was passed of its arguments, and shut for none but those in `shut`.
Keyed(m, called, args, shut) ==
    /\ Tallied(Written(m), called, args)
    /\ \A i \in DOMAIN m.tools :
          /\ m.tools[i].key \in called
          /\ m.tools[i].at \in CallsAt(Written(m), m.tools[i].key)
          /\ m.tools[i].sent = args[m.tools[i].key]
          /\ m.tools[i].open \/ m.tools[i].key \in shut
    /\ \A i, j \in DOMAIN m.tools : m.tools[i].key = m.tools[j].key => i = j
    /\ \A c \in called : HasTool(m, c)

\* To Chat from Claude.  The call of the current block is the last.
Current(m, call) == m.open # {} /\ m.tools # <<>> /\ m.tools[Len(m.tools)].key = call

\* Keyed by the blocks instead: the entry of the open block, if it carries a call, is where
\* that call opened.
Indexed(m, sent) ==
    /\ Tallied(Written(m), sent.called, sent.args)
    /\ \A i \in DOMAIN m.tools :
          m.tools[i].key < sent.index \/ (m.tools[i].key = sent.index /\ sent.block # "none")
    /\ sent.block = "tool" =>
          /\ sent.call \in sent.called /\ HasTool(m, sent.index)
          /\ \A i \in ToolOf(m, sent.index) :
                m.tools[i].open /\ m.tools[i].at \in CallsAt(Written(m), sent.call)

\* Forwarded as it comes: the open block is the upstream's, and the numbers are too.
Forwards(w, sent) ==
    /\ Tallied(w, sent.called, sent.args)
    /\ OpenBlocks(w) = IF sent.block = "none" THEN {} ELSE {sent.index}
    /\ \A at \in Names(w, "shut") : at < sent.index
    /\ sent.block = "tool" => sent.call \in sent.called /\ sent.index \in CallsAt(w, sent.call)

-----------------------------------------------------------------------------
\* The second invariant.

\* What the client was told of the calls agrees with what the upstream sent of them, leg by
\* leg.  Only Claude's converter shuts calls before the end.
ByCall == {"ChatToClaude", "ResponsesToClaude", "ChatToResponses", "ResponsesToChat", "ClaudeToChat"}
ShutBefore(r, sent) == IF r = "ResponsesToClaude" THEN sent.over ELSE {}
LegCounts(r, m, sent) ==
    /\ r \in ByCall => Keyed(m, sent.called, sent.args, ShutBefore(r, sent))
    /\ r = "ClaudeToChat" /\ sent.block = "tool" => Current(m, sent.call)
    /\ r = "ClaudeToResponses" => Indexed(m, sent)
    /\ r \in PassThrough => Forwards(m.wire, sent)

\* The calls are numbered as they come, and one not yet named has no arguments.
Counted(sent) ==
    /\ sent.called = 1 .. Cardinality(sent.called)
    /\ \A c \in Call \ sent.called : sent.args[c] = 0
\* An answer that says it is whole is.
WholeIs(r, m, sent) == Says(m.wire, "whole") =>
    /\ sent.reason # "none"
    /\ r \notin {"ChatToGemini", "ClaudeToChat", "ResponsesToChat"} => OpenBlocks(m.wire) = {}
    /\ r # "ChatToGemini" => Tallied(m.wire, sent.called, sent.args)
JInv ==
    /\ Counted(up) /\ (route \in FromResponses => up.over \subseteq up.said \cap up.called)
    /\ Running => LegCounts(route, t, up)
    /\ WholeIs(route, t, up)
=============================================================================
