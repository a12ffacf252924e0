--------------------------------- MODULE Wire ---------------------------------
(***************************************************************************)
(* What a client reads off an event stream, whatever its protocol: the     *)
(* reply begins, blocks (content blocks, output items, tool calls) open,   *)
(* grow piece by piece and shut, and the reply ends whole or fails.  And   *)
(* the memory a stream converter keeps while it writes such a stream.      *)
(***************************************************************************)
EXTENDS Integers, Sequences, SequencesExt

CONSTANT Call \* the tool calls of a reply, numbered by their upstream

Event(ev, at, kind, n) == [ev |-> ev, at |-> at, kind |-> kind, n |-> n]

Begin         == Event("begin", -1, "none", 0)  \* message_start, response.created
Open(i, kind) == Event("open", i, kind, 0)
OpenTool(i, c) == Event("open", i, "tool", c)   \* a block that carries call c
Piece(i, kind, n) == Event("piece", i, kind, n) \* n pieces of the block's content
Shut(i)       == Event("shut", i, "none", 0)
Whole         == Event("whole", -1, "none", 0)  \* the protocol's own end of an answer
Fail          == Event("fail", -1, "none", 0)   \* the protocol's error event
Over          == Event("over", -1, "none", 0)   \* message_stop behind an error event
Raw           == Event("raw", -1, "none", 0)    \* bytes that are no event

Names(w, ev) == {w[i].at : i \in {j \in DOMAIN w : w[j].ev = ev}}
Says(w, ev) == \E i \in DOMAIN w : w[i].ev = ev
OpenBlocks(w) == Names(w, "open") \ Names(w, "shut")
Amount(w, at, kind) ==
    LET upTo[i \in 0 .. Len(w)] ==
            IF i = 0 THEN 0
            ELSE IF w[i] = Piece(at, kind, w[i].n) THEN upTo[i - 1] + w[i].n ELSE upTo[i - 1]
    IN upTo[Len(w)]

\* A block opens under a number above all before it and is shut at most once, after it
\* opened.
Paired(w) == \A i \in DOMAIN w :
    LET before == SubSeq(w, 1, i - 1) IN
    /\ w[i].ev = "open" => \A at \in Names(before, "open") : at < w[i].at
    /\ w[i].ev = "shut" => w[i].at \in OpenBlocks(before)

\* What grows is open; the text of Chat and Gemini stands in no block.
Loose == -1
GrowsOpen(w) == \A i \in DOMAIN w :
    w[i].ev = "piece" /\ w[i].at # Loose => w[i].at \in OpenBlocks(SubSeq(w, 1, i - 1))

-----------------------------------------------------------------------------
\* A converter's memory.  `next` is the next block number (blockIndex, outputIndex);
\* `open` is which of the text and the thinking block are open; a tool call (in
\* ClaudeToResponses every block) has an entry from its opening on, with what it has
\* passed of its arguments.  What is written while `gated` is held.

Memory(gated) ==
    [wire |-> <<>>, held |-> <<>>, gated |-> gated, begun |-> FALSE, next |-> 0,
     open |-> {}, texted |-> FALSE, tools |-> <<>>]

Put(t, events) ==
    IF t.gated THEN [t EXCEPT !.held = @ \o events] ELSE [t EXCEPT !.wire = @ \o events]
Unveil(t) == [t EXCEPT !.gated = FALSE, !.wire = @ \o t.held, !.held = <<>>]

Started(t) == IF t.begun THEN t ELSE [Put(t, <<Begin>>) EXCEPT !.begun = TRUE]

ToolOf(t, c) == {i \in DOMAIN t.tools : t.tools[i].key = c}
HasTool(t, c) == ToolOf(t, c) # {}
ToolAt(t, c) == CHOOSE i \in ToolOf(t, c) : TRUE
NewTool(c, at) == [key |-> c, at |-> at, open |-> TRUE, sent |-> 0]
LiveTools(t) == {i \in DOMAIN t.tools : t.tools[i].open}

\* The entries still open, in some order: what ranging over a map gives.
AnyOrder(t) == SetToSeqs(LiveTools(t))
\* The order they opened in, where none was shut yet.
InOrder(t) == [i \in DOMAIN t.tools |-> i]
ShutTools(t, order) ==
    [Put(t, [i \in DOMAIN order |-> Shut(t.tools[order[i]].at)])
        EXCEPT !.tools = [i \in DOMAIN @ |-> [@[i] EXCEPT !.open = FALSE]]]
ShutTool(t, i) == [Put(t, <<Shut(t.tools[i].at)>>) EXCEPT !.tools[i].open = FALSE]

\* What an attempt comes to: what was written, and the error it is reported with.
Ended(t, err) == [t |-> t, err |-> err]
=============================================================================
