--------------------------- MODULE StreamsProofs ---------------------------
(***************************************************************************)
(* Proofs about Streams, by the invariants of StreamsInv.  The lemmas go   *)
(* up from one event to one block, one converter's step, one action: first *)
(* for IInv, what a client may be left with; then for JInv, what of the    *)
(* calls it was told.                                                      *)
(***************************************************************************)
EXTENDS StreamsInv, ListFacts, FiniteSetTheorems, SequenceTheorems, TLAPS

-----------------------------------------------------------------------------
\* Event lists: what one event more does to what a client reads.

\* The kinds of event, and what they say.
LEMMA EventFacts ==
    /\ \A e \in {Begin, Whole, Fail, Over, Raw} : e \in Ev /\ e.ev \notin {"open", "shut", "piece"}
    /\ Begin.ev = "begin" /\ Whole.ev = "whole" /\ Fail.ev = "fail" /\ Over.ev = "over" /\ Raw.ev = "raw"
    /\ \A i \in Int : \A k \in Kinds : Open(i, k) \in Ev /\ Open(i, k).ev = "open" /\ Open(i, k).at = i
                                       /\ Open(i, k).kind = k
    /\ \A i, c \in Int : OpenTool(i, c) \in Ev /\ OpenTool(i, c).ev = "open" /\ OpenTool(i, c).at = i
                         /\ OpenTool(i, c).kind = "tool"
    /\ \A i, n \in Int : \A k \in Kinds : Piece(i, k, n) \in Ev /\ Piece(i, k, n).ev = "piece"
                                          /\ Piece(i, k, n).at = i /\ Piece(i, k, n).kind = k
    /\ \A i \in Int : Shut(i) \in Ev /\ Shut(i).ev = "shut" /\ Shut(i).at = i
BY DEF Ev, Kinds, Begin, Whole, Fail, Over, Raw, Open, OpenTool, Piece, Shut, Event

\* One event more.
LEMMA AppendFacts ==
    ASSUME NEW w \in Seq(Ev), NEW e \in Ev
    PROVE  /\ Append(w, e) \in Seq(Ev) /\ Len(w) \in Nat
           /\ DOMAIN w = 1 .. Len(w) /\ DOMAIN Append(w, e) = 1 .. Len(w) + 1
           /\ \A i \in 1 .. Len(w) : Append(w, e)[i] = w[i]
           /\ Append(w, e)[Len(w) + 1] = e
OBVIOUS

\* What stood before an event of the list stays what stood before it.
LEMMA EarlierFacts ==
    ASSUME NEW w \in Seq(Ev), NEW e \in Ev
    PROVE  /\ \A i \in 1 .. Len(w) : SubSeq(Append(w, e), 1, i - 1) = SubSeq(w, 1, i - 1)
           /\ SubSeq(Append(w, e), 1, Len(w)) = w
<1> DEFINE v == Append(w, e)
<1>1. /\ v \in Seq(Ev) /\ Len(v) = Len(w) + 1 /\ Len(w) \in Nat /\ \A i \in 1 .. Len(w) : v[i] = w[i]
  BY AppendFacts
<1> HIDE DEF v
<1>2. ASSUME NEW m \in 0 .. Len(w) PROVE SubSeq(v, 1, m) = [i \in 1 .. m |-> w[i]]
  BY <1>1
<1>3. ASSUME NEW m \in 0 .. Len(w) PROVE SubSeq(w, 1, m) = [i \in 1 .. m |-> w[i]]
  BY <1>1
<1>4. \A i \in 1 .. Len(w) : i - 1 \in 0 .. Len(w)  BY <1>1
<1>5. Len(w) \in 0 .. Len(w)  BY <1>1
<1>6. w = [i \in 1 .. Len(w) |-> w[i]]  BY <1>1
<1> QED  BY <1>2, <1>3, <1>4, <1>5, <1>6 DEF v

\* The numbers one kind of event carries, with one event more.
LEMMA NamesFacts ==
    ASSUME NEW w \in Seq(Ev), NEW e \in Ev, NEW k
    PROVE  Names(Append(w, e), k) = Names(w, k) \union (IF e.ev = k THEN {e.at} ELSE {})
<1> DEFINE v == Append(w, e)
<1>1. /\ DOMAIN w = 1 .. Len(w) /\ DOMAIN v = 1 .. Len(w) + 1 /\ Len(w) \in Nat
      /\ \A i \in 1 .. Len(w) : v[i] = w[i]
      /\ v[Len(w) + 1] = e
  BY AppendFacts
<1> HIDE DEF v
<1>2. \A i : i \in DOMAIN v <=> i \in DOMAIN w \/ i = Len(w) + 1  BY <1>1
<1>3. ASSUME NEW x PROVE x \in Names(v, k) <=> x \in Names(w, k) \/ (e.ev = k /\ x = e.at)
  <2>1. x \in Names(v, k) <=> \E i \in DOMAIN v : v[i].ev = k /\ v[i].at = x  BY DEF Names
  <2>2. x \in Names(w, k) <=> \E i \in DOMAIN w : w[i].ev = k /\ w[i].at = x  BY DEF Names
  <2> QED  BY <1>1, <1>2, <2>1, <2>2
<1>4. Names(v, k) = Names(w, k) \union (IF e.ev = k THEN {e.at} ELSE {})  BY <1>3
<1> QED  BY <1>4 DEF v

\* They are numbers.
LEMMA NamesNumbers == ASSUME NEW w \in Seq(Ev), NEW k PROVE Names(w, k) \subseteq Int
<1>1. \A i \in DOMAIN w : w[i] \in Ev  OBVIOUS
<1>2. \A i \in DOMAIN w : w[i].at \in Int  BY <1>1 DEF Ev
<1> QED  BY <1>2 DEF Names

\* What is shut was opened.
LEMMA ShutWasOpen == ASSUME NEW w \in Seq(Ev), Paired(w) PROVE Names(w, "shut") \subseteq Names(w, "open")
<1> SUFFICES ASSUME NEW i \in DOMAIN w, w[i].ev = "shut" PROVE w[i].at \in Names(w, "open")
  BY DEF Names
<1> DEFINE b == SubSeq(w, 1, i - 1)
<1>1. w[i].at \in OpenBlocks(b)  BY DEF Paired
<1>2. DOMAIN b \subseteq DOMAIN w /\ \A j \in DOMAIN b : b[j] = w[j]  OBVIOUS
<1> HIDE DEF b
<1> QED  BY <1>1, <1>2 DEF OpenBlocks, Names

\* What an event may be for blocks to stay paired, and which are open then.
Fits(w, e) ==
    /\ e.ev = "open" => \A at \in Names(w, "open") : at < e.at
    /\ e.ev = "shut" => e.at \in OpenBlocks(w)

\* An event that fits keeps the pairing, and opens or closes its own block only.
LEMMA PairedGrows ==
    ASSUME NEW w \in Seq(Ev), NEW e \in Ev, Paired(w), Fits(w, e)
    PROVE  /\ Paired(Append(w, e))
           /\ Names(Append(w, e), "open") = Names(w, "open") \union (IF e.ev = "open" THEN {e.at} ELSE {})
           /\ OpenBlocks(Append(w, e)) = IF e.ev = "open" THEN OpenBlocks(w) \union {e.at}
                                         ELSE IF e.ev = "shut" THEN OpenBlocks(w) \ {e.at} ELSE OpenBlocks(w)
<1> DEFINE v == Append(w, e)
<1>1. /\ DOMAIN w = 1 .. Len(w) /\ DOMAIN v = 1 .. Len(w) + 1 /\ Len(w) \in Nat
      /\ \A i \in 1 .. Len(w) : v[i] = w[i]
      /\ v[Len(w) + 1] = e
      /\ \A i \in 1 .. Len(w) : SubSeq(v, 1, i - 1) = SubSeq(w, 1, i - 1)
      /\ SubSeq(v, 1, Len(w)) = w /\ (Len(w) + 1) - 1 = Len(w)
  BY AppendFacts, EarlierFacts
<1>2. /\ Names(v, "open") = Names(w, "open") \union (IF e.ev = "open" THEN {e.at} ELSE {})
      /\ Names(v, "shut") = Names(w, "shut") \union (IF e.ev = "shut" THEN {e.at} ELSE {})
  BY NamesFacts
<1> HIDE DEF v
<1>3. Paired(v)
  <2> SUFFICES ASSUME NEW i \in DOMAIN v
               PROVE  LET before == SubSeq(v, 1, i - 1) IN
                      /\ v[i].ev = "open" => \A at \in Names(before, "open") : at < v[i].at
                      /\ v[i].ev = "shut" => v[i].at \in OpenBlocks(before)
    BY DEF Paired
  <2>1. CASE i \in 1 .. Len(w)  BY <1>1, <2>1 DEF Paired
  <2>2. CASE i = Len(w) + 1  BY <1>1, <2>2 DEF Fits
  <2> QED  BY <1>1, <2>1, <2>2
<1>4. Names(w, "shut") \subseteq Names(w, "open")  BY ShutWasOpen
<1>5. e.ev = "open" => e.at \notin Names(w, "open")
  <2>1. e.at \in Int  BY DEF Ev
  <2> QED  BY <2>1 DEF Fits
<1>6. OpenBlocks(v) = IF e.ev = "open" THEN OpenBlocks(w) \union {e.at}
                      ELSE IF e.ev = "shut" THEN OpenBlocks(w) \ {e.at} ELSE OpenBlocks(w)
  BY <1>2, <1>4, <1>5 DEF OpenBlocks
<1> QED  BY <1>2, <1>3, <1>6 DEF v

\* What grows is open.
GrowsBy(w, e) == e.ev = "piece" /\ e.at # Loose => e.at \in OpenBlocks(w)

\* A piece of an open block keeps that what grows is open.
LEMMA GrowsOpenGrows ==
    ASSUME NEW w \in Seq(Ev), NEW e \in Ev, GrowsOpen(w), GrowsBy(w, e)
    PROVE  GrowsOpen(Append(w, e))
<1> DEFINE v == Append(w, e)
<1>1. /\ DOMAIN w = 1 .. Len(w) /\ DOMAIN v = 1 .. Len(w) + 1 /\ Len(w) \in Nat
      /\ \A i \in 1 .. Len(w) : v[i] = w[i]
      /\ v[Len(w) + 1] = e
      /\ \A i \in 1 .. Len(w) : SubSeq(v, 1, i - 1) = SubSeq(w, 1, i - 1)
      /\ SubSeq(v, 1, Len(w)) = w /\ (Len(w) + 1) - 1 = Len(w)
  BY AppendFacts, EarlierFacts
<1> HIDE DEF v
<1>2. ASSUME NEW i \in DOMAIN v, v[i].ev = "piece", v[i].at # Loose
      PROVE  v[i].at \in OpenBlocks(SubSeq(v, 1, i - 1))
  <2>1. CASE i \in 1 .. Len(w)  BY <1>1, <1>2, <2>1 DEF GrowsOpen
  <2>2. CASE i = Len(w) + 1  BY <1>1, <1>2, <2>2 DEF GrowsBy
  <2> QED  BY <1>1, <2>1, <2>2
<1> QED  BY <1>2 DEF GrowsOpen, v

-----------------------------------------------------------------------------
\* How a reply begins and ends.

\* An event that neither begins nor speaks behind an end keeps the reply one reply.
LEMMA ReplyGrows ==
    ASSUME NEW w \in Seq(Ev), NEW e \in Ev, OneBegin(w), NothingAfter(w),
           e.ev = "begin" => w = <<>>
    PROVE  /\ OneBegin(Append(w, e))
           /\ Calm(w) \/ e.ev \in Closes => NothingAfter(Append(w, e))
           /\ Calm(w) /\ e.ev \notin Ends => Calm(Append(w, e))
<1> DEFINE v == Append(w, e)
<1>1. /\ DOMAIN w = 1 .. Len(w) /\ DOMAIN v = 1 .. Len(w) + 1 /\ Len(w) \in Nat
      /\ \A i \in 1 .. Len(w) : v[i] = w[i]
      /\ v[Len(w) + 1] = e
  BY AppendFacts
<1> HIDE DEF v
<1>2. OneBegin(v)
  <2> SUFFICES ASSUME NEW i \in DOMAIN v, v[i].ev = "begin" PROVE i = 1  BY DEF OneBegin
  <2>1. CASE i \in 1 .. Len(w)  BY <1>1, <2>1 DEF OneBegin
  <2>2. CASE i = Len(w) + 1
    <3>1. w = <<>>  BY <1>1, <2>2
    <3> QED  BY <2>2, <3>1
  <2> QED  BY <1>1, <2>1, <2>2
<1>3. ASSUME Calm(w) \/ e.ev \in Closes PROVE NothingAfter(v)
  <2> SUFFICES ASSUME NEW i \in DOMAIN v, NEW j \in DOMAIN v, i < j, v[i].ev \in Ends
               PROVE  v[j].ev \notin {"begin", "open", "piece"}
    BY DEF NothingAfter
  <2>1. i \in 1 .. Len(w)  BY <1>1
  <2>2. CASE j \in 1 .. Len(w)  BY <1>1, <2>1, <2>2 DEF NothingAfter
  <2>3. CASE j = Len(w) + 1
    <3>1. ~Calm(w)  BY <1>1, <2>1 DEF Calm
    <3> QED  BY <1>1, <1>3, <2>3, <3>1 DEF Closes
  <2> QED  BY <1>1, <2>2, <2>3
<1>4. ASSUME Calm(w), e.ev \notin Ends PROVE Calm(v)
  BY <1>1, <1>4 DEF Calm
<1> QED  BY <1>2, <1>3, <1>4 DEF v

\* Thinking that opens before any text keeps the order Claude's clients ask for.
LEMMA ThinkFirstGrows ==
    ASSUME NEW w \in Seq(Ev), NEW e \in Ev, ThinkFirst(w)
    PROVE  /\ NoText(w) \/ e # Open(e.at, "think") => ThinkFirst(Append(w, e))
           /\ NoText(w) /\ e # Open(e.at, "text") => NoText(Append(w, e))
<1> DEFINE v == Append(w, e)
<1>1. /\ DOMAIN w = 1 .. Len(w) /\ DOMAIN v = 1 .. Len(w) + 1 /\ Len(w) \in Nat
      /\ \A i \in 1 .. Len(w) : v[i] = w[i]
      /\ v[Len(w) + 1] = e
  BY AppendFacts
<1> HIDE DEF v
<1>2. ASSUME NoText(w) \/ e # Open(e.at, "think") PROVE ThinkFirst(v)
  <2> SUFFICES ASSUME NEW i \in DOMAIN v, NEW j \in DOMAIN v,
                      v[i] = Open(v[i].at, "text"), v[j] = Open(v[j].at, "think")
               PROVE  j < i
    BY DEF ThinkFirst
  <2>1. CASE i \in 1 .. Len(w) /\ j \in 1 .. Len(w)  BY <1>1, <2>1 DEF ThinkFirst
  <2>2. CASE i \in 1 .. Len(w) /\ j = Len(w) + 1
    <3>1. ~NoText(w)  BY <1>1, <2>2 DEF NoText
    <3> QED  BY <1>1, <1>2, <2>2, <3>1
  <2>3. CASE i = Len(w) + 1 /\ j \in 1 .. Len(w)  BY <1>1, <2>3
  <2>4. CASE i = Len(w) + 1 /\ j = Len(w) + 1
    <3>1. Open(e.at, "text").kind = "text" /\ Open(e.at, "think").kind = "think"  BY DEF Open, Event
    <3> QED  BY <1>1, <2>4, <3>1
  <2> QED  BY <1>1, <2>1, <2>2, <2>3, <2>4
<1>3. ASSUME NoText(w), e # Open(e.at, "text") PROVE NoText(v)
  BY <1>1, <1>3 DEF NoText
<1> QED  BY <1>2, <1>3 DEF v

\* What was seen stays seen.
LEMMA SeenGrows ==
    ASSUME NEW w \in Seq(Ev), NEW e \in Ev, NEW S
    PROVE  Seen(Append(w, e), S) <=> Seen(w, S) \/ e \in S
<1> DEFINE v == Append(w, e)
<1>1. /\ DOMAIN w = 1 .. Len(w) /\ DOMAIN v = 1 .. Len(w) + 1 /\ Len(w) \in Nat
      /\ \A i \in 1 .. Len(w) : v[i] = w[i]
      /\ v[Len(w) + 1] = e
  BY AppendFacts
<1> HIDE DEF v
<1>2. \A i : i \in DOMAIN v <=> i \in DOMAIN w \/ i = Len(w) + 1  BY <1>1
<1>3. Seen(v, S) <=> Seen(w, S) \/ e \in S  BY <1>1, <1>2 DEF Seen
<1> QED  BY <1>3 DEF v

-----------------------------------------------------------------------------
\* The memory of a converter.

\* u is m after one event more.
Same(m, u) == u.next = m.next /\ u.open = m.open /\ u.texted = m.texted /\ u.tools = m.tools
Became(m, u, e) ==
    /\ u \in Mem /\ u.gated = m.gated /\ Veiled(u) /\ u.begun
    /\ Written(u) = Append(Written(m), e)

\* The fields of a memory.
LEMMA MemFacts ==
    ASSUME NEW m \in Mem
    PROVE  /\ m.wire \in Seq(Ev) /\ m.held \in Seq(Ev) /\ m.gated \in BOOLEAN /\ m.begun \in BOOLEAN
           /\ m.next \in Nat /\ m.open \in SUBSET Kinds /\ m.texted \in BOOLEAN
           /\ m.tools \in Seq(Tool) /\ Written(m) \in Seq(Ev)
           /\ DOMAIN m.tools = 1 .. Len(m.tools) /\ Len(m.tools) \in Nat
           /\ \A i \in DOMAIN m.tools : m.tools[i] \in Tool
BY DEF Mem, Written

\* Putting one event is appending it.
LEMMA ConcatOne == ASSUME NEW s \in Seq(Ev), NEW e \in Ev PROVE s \o <<e>> = Append(s, e)
OBVIOUS

\* Put writes at the end of what was written, before the gate or behind it.
LEMMA PutMany ==
    ASSUME NEW m \in Mem, Veiled(m), NEW s \in Seq(Ev)
    PROVE  /\ Put(m, s) \in Mem /\ Veiled(Put(m, s)) /\ Same(m, Put(m, s))
           /\ Put(m, s).gated = m.gated /\ Put(m, s).begun = m.begun
           /\ Written(Put(m, s)) = Written(m) \o s
           /\ Put(m, s).wire = IF m.gated THEN m.wire ELSE m.wire \o s
           /\ m.gated => Put(m, s).wire = <<>>
<1>1. CASE m.gated
  <2> DEFINE h == m.held \o s
  <2>1. h \in Seq(Ev)  BY DEF Mem
  <2>2. Put(m, s) = [m EXCEPT !.held = h]  BY <1>1 DEF Put
  <2> HIDE DEF h
  <2>3. Put(m, s) \in Mem /\ Put(m, s).held = h /\ Put(m, s).gated = m.gated /\ Put(m, s).begun = m.begun
        /\ Put(m, s).wire = m.wire /\ Same(m, Put(m, s))
    BY <2>1, <2>2 DEF Mem, Same
  <2> QED  BY <1>1, <2>3 DEF Written, Veiled, h
<1>2. CASE ~m.gated
  <2> DEFINE h == m.wire \o s
  <2>1. h \in Seq(Ev)  BY DEF Mem
  <2>2. Put(m, s) = [m EXCEPT !.wire = h]  BY <1>2 DEF Put
  <2> HIDE DEF h
  <2>3. Put(m, s) \in Mem /\ Put(m, s).wire = h /\ Put(m, s).gated = m.gated /\ Put(m, s).begun = m.begun
        /\ Same(m, Put(m, s))
    BY <2>1, <2>2 DEF Mem, Same
  <2> QED  BY <1>2, <2>3 DEF Written, Veiled, h
<1> QED  BY <1>1, <1>2

\* Put of one event.
LEMMA PutOne ==
    ASSUME NEW m \in Mem, Veiled(m), NEW e \in Ev
    PROVE  /\ Put(m, <<e>>) \in Mem /\ Veiled(Put(m, <<e>>)) /\ Same(m, Put(m, <<e>>))
           /\ Put(m, <<e>>).gated = m.gated /\ Put(m, <<e>>).begun = m.begun
           /\ Written(Put(m, <<e>>)) = Append(Written(m), e)
           /\ m.begun => Became(m, Put(m, <<e>>), e)
<1>1. <<e>> \in Seq(Ev)  OBVIOUS
<1>2. Written(m) \o <<e>> = Append(Written(m), e)  BY MemFacts, ConcatOne
<1> DEFINE s == <<e>>
<1> HIDE DEF s
<1>3. /\ Put(m, s) \in Mem /\ Veiled(Put(m, s)) /\ Same(m, Put(m, s))
      /\ Put(m, s).gated = m.gated /\ Put(m, s).begun = m.begun
      /\ Written(Put(m, s)) = Written(m) \o s
  BY <1>1, PutMany DEF s
<1> QED  BY <1>2, <1>3 DEF Became, s

-----------------------------------------------------------------------------
\* One event at a time.  The parts of Sane that depend on the event alone, then one lemma
\* for each thing a converter does with its memory.
LEMMA SaneGrows ==
    ASSUME NEW m, NEW grows, Sane(m, grows), NEW u, NEW e \in Ev, Became(m, u, e),
           Fits(Written(m), e), grows => GrowsBy(Written(m), e),
           e.ev \notin Ends, e.ev = "begin" => Written(m) = <<>>,
           OpenBlocks(Append(Written(m), e)) = Blocks(u), Numbered(u)
    PROVE  Sane(u, grows)
<1> DEFINE w == Written(m)  v == Written(u)
<1>1. w \in Seq(Ev) /\ v = Append(w, e)  BY MemFacts DEF Sane, Became
<1>2. Paired(w) /\ OneBegin(w) /\ Calm(w) /\ NothingAfter(w) /\ (grows => GrowsOpen(w))
  BY DEF Sane, Calm, NothingAfter
<1>3. Fits(w, e) /\ (grows => GrowsBy(w, e)) /\ (e.ev = "begin" => w = <<>>) /\ OpenBlocks(v) = Blocks(u)
  BY <1>1
<1>4. u \in Mem /\ Veiled(u) /\ u.begun  BY DEF Became
<1> HIDE DEF w, v
<1>5. Paired(v)  BY <1>1, <1>2, <1>3, PairedGrows
<1>6. grows => GrowsOpen(v)  BY <1>1, <1>2, <1>3, GrowsOpenGrows
<1>7. OneBegin(v) /\ Calm(v)  BY <1>1, <1>2, <1>3, ReplyGrows
<1> QED  BY <1>3, <1>4, <1>5, <1>6, <1>7 DEF Sane, v

\* What a written event leaves open.
LEMMA AfterEvent ==
    ASSUME NEW m, NEW grows, Sane(m, grows), NEW e \in Ev, Fits(Written(m), e)
    PROVE  /\ Names(Append(Written(m), e), "open")
                = Names(Written(m), "open") \union (IF e.ev = "open" THEN {e.at} ELSE {})
           /\ OpenBlocks(Append(Written(m), e))
                = IF e.ev = "open" THEN Blocks(m) \union {e.at}
                  ELSE IF e.ev = "shut" THEN Blocks(m) \ {e.at} ELSE Blocks(m)
<1> DEFINE w == Written(m)
<1>1. w \in Seq(Ev) /\ Paired(w) /\ OpenBlocks(w) = Blocks(m)  BY MemFacts DEF Sane
<1>2. Fits(w, e)  OBVIOUS
<1> HIDE DEF w
<1>3. Names(Append(w, e), "open") = Names(w, "open") \union (IF e.ev = "open" THEN {e.at} ELSE {})
      /\ OpenBlocks(Append(w, e)) = IF e.ev = "open" THEN OpenBlocks(w) \union {e.at}
                                    ELSE IF e.ev = "shut" THEN OpenBlocks(w) \ {e.at} ELSE OpenBlocks(w)
  BY <1>1, <1>2, PairedGrows
<1> QED  BY <1>1, <1>3 DEF w

\* The next block number stands above every block opened.
LEMMA FreshNumber ==
    ASSUME NEW m, NEW grows, Sane(m, grows), ~Cur(m), NEW e \in Ev, e.ev = "open", e.at = m.next
    PROVE  Fits(Written(m), e) /\ GrowsBy(Written(m), e)
<1>1. \A at \in Names(Written(m), "open") : at <= m.next /\ at # m.next /\ at \in Int
  <2>1. Written(m) \in Seq(Ev)  BY MemFacts DEF Sane
  <2>2. Names(Written(m), "open") \subseteq Int  BY <2>1, NamesNumbers
  <2> QED  BY <2>2 DEF Sane, Numbered
<1>2. m.next \in Nat  BY MemFacts DEF Sane
<1> QED  BY <1>1, <1>2 DEF Fits, GrowsBy

\* A piece, or the opening: no block opens or shuts.
LEMMA SanePiece ==
    ASSUME NEW m, NEW grows, Sane(m, grows), NEW u, NEW e \in Ev, Became(m, u, e), Same(m, u),
           e.ev \in {"piece", "begin"}, e.ev = "begin" => Written(m) = <<>>,
           grows /\ e.ev = "piece" => e.at = Loose \/ e.at \in Blocks(m)
    PROVE  Sane(u, grows)
<1>1. Fits(Written(m), e)  BY DEF Fits
<1>2. grows => GrowsBy(Written(m), e)  BY DEF GrowsBy, Sane
<1>3. Blocks(u) = Blocks(m) /\ (Cur(u) <=> Cur(m)) /\ u.next = m.next /\ u.tools = m.tools
  BY DEF Same, Blocks, LiveTools, Cur
<1>4. /\ Names(Written(u), "open") = Names(Written(m), "open")
      /\ OpenBlocks(Append(Written(m), e)) = Blocks(u)
  BY <1>1, <1>3, AfterEvent DEF Became
<1>5. Numbered(u)  BY <1>3, <1>4 DEF Numbered, Sane
<1>6. e.ev \notin Ends  BY DEF Ends
<1> QED  BY <1>1, <1>2, <1>4, <1>5, <1>6, SaneGrows

\* A text or thinking block opens at the next number.
LEMMA SaneOpenCur ==
    ASSUME NEW m, NEW grows, Sane(m, grows), NEW u, NEW e \in Ev, Became(m, u, e), ~Cur(m), Cur(u),
           e.ev = "open", e.at = m.next, u.next = m.next, u.tools = m.tools
    PROVE  Sane(u, grows)
<1>1. Fits(Written(m), e) /\ GrowsBy(Written(m), e)  BY FreshNumber
<1>2. Blocks(u) = Blocks(m) \union {m.next}  BY DEF Blocks, LiveTools
<1>3. /\ Names(Written(u), "open") = Names(Written(m), "open") \union {m.next}
      /\ OpenBlocks(Append(Written(m), e)) = Blocks(u)
  BY <1>1, <1>2, AfterEvent DEF Became
<1>4. m.next \in Nat  BY MemFacts DEF Sane
<1>5. Numbered(u)
  <2>1. \A at \in Names(Written(u), "open") : at <= u.next /\ (at = u.next => Cur(u))
    BY <1>3, <1>4 DEF Numbered, Sane
  <2> QED  BY <2>1 DEF Numbered, Sane
<1>6. e.ev \notin Ends  BY DEF Ends
<1> QED  BY <1>1, <1>3, <1>5, <1>6, SaneGrows

\* It shuts, and its number is used up.
LEMMA SaneShutCur ==
    ASSUME NEW m, NEW grows, Sane(m, grows), NEW u, NEW e \in Ev, Became(m, u, e), Cur(m), ~Cur(u),
           e.ev = "shut", e.at = m.next, u.next = m.next + 1, u.tools = m.tools
    PROVE  Sane(u, grows)
<1>1. m.next \in Nat /\ \A i \in DOMAIN m.tools : m.tools[i].at \in Nat
  BY MemFacts DEF Sane, Tool
<1>2. m.next \in Blocks(m)  BY DEF Blocks
<1>3. Fits(Written(m), e) /\ GrowsBy(Written(m), e)  BY <1>2 DEF Fits, GrowsBy, Sane
<1>4. \A i \in DOMAIN m.tools : m.tools[i].at < m.next /\ m.tools[i].at # m.next
  BY <1>1 DEF Sane, Numbered
<1>5. Blocks(u) = Blocks(m) \ {m.next}
  <2>1. LiveTools(u) = LiveTools(m) /\ LiveTools(m) \subseteq DOMAIN m.tools  BY DEF LiveTools
  <2> QED  BY <1>4, <2>1 DEF Blocks
<1>6. /\ Names(Written(u), "open") = Names(Written(m), "open")
      /\ OpenBlocks(Append(Written(m), e)) = Blocks(u)
  BY <1>3, <1>5, AfterEvent DEF Became
<1>7. Numbered(u)
  <2>1. \A at \in Names(Written(m), "open") : at \in Int
    <3>1. Written(m) \in Seq(Ev)  BY MemFacts DEF Sane
    <3> QED  BY <3>1, NamesNumbers
  <2>2. \A at \in Names(Written(u), "open") : at <= u.next /\ (at = u.next => Cur(u))
    BY <1>1, <1>6, <2>1 DEF Numbered, Sane
  <2>3. \A i \in DOMAIN u.tools : u.tools[i].at < u.next
    BY <1>1, <1>4
  <2> QED  BY <2>2, <2>3 DEF Numbered, Sane
<1>8. e.ev \notin Ends  BY DEF Ends
<1> QED  BY <1>3, <1>6, <1>7, <1>8, SaneGrows

\* A block with an entry of its own opens at the next number, which is used up.
LEMMA SaneOpenTool ==
    ASSUME NEW m, NEW grows, Sane(m, grows), NEW u, NEW e \in Ev, Became(m, u, e), ~Cur(m), ~Cur(u),
           e.ev = "open", e.at = m.next, u.next = m.next + 1,
           NEW c \in Int, u.tools = Append(m.tools, NewTool(c, m.next))
    PROVE  Sane(u, grows)
<1> DEFINE n == Len(m.tools)
<1>1. /\ m.next \in Nat /\ n \in Nat /\ DOMAIN m.tools = 1 .. n
      /\ \A i \in 1 .. n : m.tools[i] \in Tool /\ m.tools[i].at \in Nat
      /\ m.tools \in Seq(Tool)
  BY MemFacts DEF Sane, Tool
<1>2. NewTool(c, m.next) \in Tool /\ NewTool(c, m.next).at = m.next /\ NewTool(c, m.next).open
  BY <1>1 DEF NewTool, Tool
<1>3. /\ DOMAIN u.tools = 1 .. n + 1 /\ u.tools[n + 1] = NewTool(c, m.next)
      /\ \A i \in 1 .. n : u.tools[i] = m.tools[i]
  BY <1>1, <1>2
<1> HIDE DEF n
<1>4. Fits(Written(m), e) /\ GrowsBy(Written(m), e)  BY FreshNumber
<1>5. Blocks(u) = Blocks(m) \union {m.next}
  <2>1. LiveTools(u) = LiveTools(m) \union {n + 1}
    <3>1. \A i : i \in 1 .. n + 1 <=> i \in 1 .. n \/ i = n + 1  BY <1>1
    <3> QED  BY <1>1, <1>2, <1>3, <3>1 DEF LiveTools
  <2>2. LiveTools(m) \subseteq 1 .. n  BY <1>1 DEF LiveTools
  <2>3. {u.tools[i].at : i \in LiveTools(u)} = {m.tools[i].at : i \in LiveTools(m)} \union {m.next}
    <3> DEFINE L == LiveTools(m)  K == LiveTools(u)
    <3>1. K = L \union {n + 1} /\ L \subseteq 1 .. n  BY <2>1, <2>2
    <3> HIDE DEF L, K
    <3>2. \A i \in L : u.tools[i].at = m.tools[i].at  BY <1>3, <3>1
    <3>3. u.tools[n + 1].at = m.next  BY <1>2, <1>3
    <3>4. {u.tools[i].at : i \in K} = {m.tools[i].at : i \in L} \union {m.next}
      BY <3>1, <3>2, <3>3
    <3> QED  BY <3>4 DEF L, K
  <2> QED  BY <2>3 DEF Blocks
<1>6. /\ Names(Written(u), "open") = Names(Written(m), "open") \union {m.next}
      /\ OpenBlocks(Append(Written(m), e)) = Blocks(u)
  BY <1>4, <1>5, AfterEvent DEF Became
<1>7. Numbered(u)
  <2>1. \A at \in Names(Written(m), "open") : at \in Int
    <3>1. Written(m) \in Seq(Ev)  BY MemFacts DEF Sane
    <3> QED  BY <3>1, NamesNumbers
  <2>2. \A at \in Names(Written(u), "open") : at <= u.next /\ (at = u.next => Cur(u))
    BY <1>1, <1>6, <2>1 DEF Numbered, Sane
  <2>3. \A i \in DOMAIN u.tools : i \in 1 .. n \/ i = n + 1  BY <1>1, <1>3
  <2>4. \A i \in 1 .. n : m.tools[i].at < m.next  BY <1>1 DEF Numbered, Sane
  <2>5. \A i \in DOMAIN u.tools : u.tools[i].at < u.next
    BY <1>1, <1>2, <1>3, <2>3, <2>4
  <2>6. ASSUME NEW i \in DOMAIN u.tools, NEW j \in DOMAIN u.tools, i < j
        PROVE  u.tools[i].at < u.tools[j].at
    <3>1. i \in 1 .. n  BY <1>1, <1>3, <2>6
    <3>2. CASE j \in 1 .. n  BY <1>1, <1>3, <2>6, <3>1, <3>2 DEF Numbered, Sane
    <3>3. CASE j = n + 1  BY <1>2, <1>3, <2>4, <3>1, <3>3
    <3> QED  BY <2>3, <3>2, <3>3
  <2> QED  BY <2>2, <2>5, <2>6 DEF Numbered
<1>8. e.ev \notin Ends  BY DEF Ends
<1> QED  BY <1>4, <1>6, <1>7, <1>8, SaneGrows

\* The rest of what a converter does with its memory.

\* The entry i shuts its block.
LEMMA SaneShutTool ==
    ASSUME NEW m, NEW grows, Sane(m, grows), m.begun, NEW i \in LiveTools(m)
    PROVE  /\ Sane(ShutTool(m, i), grows) /\ Became(m, ShutTool(m, i), Shut(m.tools[i].at))
           /\ ShutTool(m, i).next = m.next /\ ShutTool(m, i).open = m.open
           /\ ShutTool(m, i).texted = m.texted
           /\ ShutTool(m, i).tools = [m.tools EXCEPT ![i].open = FALSE]
<1> DEFINE e == Shut(m.tools[i].at)
           p == Put(m, <<e>>)
           u == ShutTool(m, i)
           ts == [m.tools EXCEPT ![i].open = FALSE]
<1>1. /\ m \in Mem /\ Veiled(m) /\ i \in DOMAIN m.tools /\ m.tools[i].open
      /\ \A j \in DOMAIN m.tools : m.tools[j] \in Tool /\ m.tools[j].at \in Nat
      /\ m.tools \in Seq(Tool) /\ DOMAIN m.tools = 1 .. Len(m.tools) /\ Len(m.tools) \in Nat
  BY MemFacts DEF Sane, LiveTools, Tool
<1>2. e \in Ev /\ e.ev = "shut" /\ e.at = m.tools[i].at  BY <1>1, EventFacts
<1>3. ts \in Seq(Tool) /\ DOMAIN ts = DOMAIN m.tools
      /\ (\A j \in DOMAIN m.tools : ts[j].at = m.tools[j].at
                                    /\ (ts[j].open <=> m.tools[j].open /\ j # i))
  <2>1. \A j \in DOMAIN m.tools : ts[j] = IF j = i THEN [m.tools[i] EXCEPT !.open = FALSE] ELSE m.tools[j]
    BY <1>1
  <2>2. [m.tools[i] EXCEPT !.open = FALSE] \in Tool /\ [m.tools[i] EXCEPT !.open = FALSE].at = m.tools[i].at
        /\ ~[m.tools[i] EXCEPT !.open = FALSE].open
    BY <1>1 DEF Tool
  <2>3. ts \in [1 .. Len(m.tools) -> Tool]  BY <1>1, <2>1, <2>2
  <2>4. ts \in Seq(Tool) /\ DOMAIN ts = DOMAIN m.tools  BY <1>1, <2>3
  <2> QED  BY <1>1, <2>1, <2>2, <2>4
<1>4. u = [p EXCEPT !.tools[i].open = FALSE]  BY DEF ShutTool
<1> HIDE DEF e
<1>5. p \in Mem /\ Veiled(p) /\ Same(m, p) /\ p.gated = m.gated /\ p.begun = m.begun
      /\ Written(p) = Append(Written(m), e) /\ Became(m, p, e)
  BY <1>1, <1>2, PutOne
<1> HIDE DEF p, u, ts
<1>6. u = [p EXCEPT !.tools = ts]  BY <1>4, <1>5 DEF Same, ts, Mem
<1>7. /\ u \in Mem /\ u.wire = p.wire /\ u.held = p.held /\ u.gated = p.gated /\ u.begun = p.begun
      /\ u.next = m.next /\ u.open = m.open /\ u.texted = m.texted /\ u.tools = ts
  BY <1>3, <1>5, <1>6 DEF Mem, Same
<1>8. Became(m, u, e)  BY <1>5, <1>7 DEF Became, Veiled, Written
<1>9. m.tools[i].at \in Blocks(m)  BY DEF Blocks
<1>10. Fits(Written(m), e) /\ GrowsBy(Written(m), e)  BY <1>2, <1>9 DEF Fits, GrowsBy, Sane
<1>11. Blocks(u) = Blocks(m) \ {e.at}
  <2>1. LiveTools(u) = LiveTools(m) \ {i}  BY <1>3, <1>7 DEF LiveTools
  <2>2. \A j, k \in DOMAIN m.tools : j # k => m.tools[j].at # m.tools[k].at
    <3>1. \A j, k \in DOMAIN m.tools : j < k => m.tools[j].at < m.tools[k].at  BY DEF Sane, Numbered
    <3> QED  BY <1>1, <3>1
  <2>3. m.next # m.tools[i].at  BY <1>1 DEF Sane, Numbered
  <2>4. Cur(u) <=> Cur(m)  BY <1>7 DEF Cur
  <2>5. LiveTools(m) \subseteq DOMAIN m.tools  BY DEF LiveTools
  <2>6. {u.tools[j].at : j \in LiveTools(u)} = {m.tools[j].at : j \in LiveTools(m)} \ {m.tools[i].at}
    <3> DEFINE L == LiveTools(m)
    <3>1. L \subseteq DOMAIN m.tools /\ i \in L /\ \A j \in L : u.tools[j].at = m.tools[j].at
      BY <1>3, <1>7, <2>5
    <3>2. LiveTools(u) = L \ {i}  BY <2>1
    <3> HIDE DEF L
    <3>3. {u.tools[j].at : j \in L \ {i}} = {m.tools[j].at : j \in L} \ {m.tools[i].at}
      BY <2>2, <3>1
    <3> QED  BY <3>2, <3>3 DEF L
  <2> QED  BY <1>2, <1>7, <2>3, <2>4, <2>6 DEF Blocks
<1>12. /\ Names(Written(u), "open") = Names(Written(m), "open")
       /\ OpenBlocks(Append(Written(m), e)) = Blocks(u)
  BY <1>2, <1>8, <1>10, <1>11, AfterEvent DEF Became
<1>13. Numbered(u)
  <2>1. Cur(u) <=> Cur(m)  BY <1>7 DEF Cur
  <2> QED  BY <1>3, <1>7, <1>12, <2>1 DEF Numbered, Sane
<1>14. e.ev \notin Ends /\ e.ev # "begin"  BY <1>2 DEF Ends
<1>15. Sane(u, grows)  BY <1>2, <1>8, <1>10, <1>12, <1>13, <1>14, SaneGrows
<1> QED  BY <1>7, <1>8, <1>15 DEF e, u, ts

\* Memory that is only marked otherwise.
LEMMA SaneMarked ==
    ASSUME NEW m, NEW grows, Sane(m, grows), NEW u \in Mem,
           u.wire = m.wire, u.held = m.held, u.gated = m.gated, u.begun = m.begun, u.next = m.next,
           Cur(u) <=> Cur(m), DOMAIN u.tools = DOMAIN m.tools,
           \A i \in DOMAIN m.tools : u.tools[i].at = m.tools[i].at /\ u.tools[i].open = m.tools[i].open
    PROVE  Sane(u, grows) /\ Written(u) = Written(m) /\ Blocks(u) = Blocks(m)
<1>1. Written(u) = Written(m) /\ Veiled(u)  BY DEF Written, Veiled, Sane
<1>2. LiveTools(u) = LiveTools(m)  BY DEF LiveTools
<1>3. {u.tools[i].at : i \in LiveTools(u)} = {m.tools[i].at : i \in LiveTools(m)}
  <2>1. LiveTools(m) \subseteq DOMAIN m.tools  BY DEF LiveTools
  <2> QED  BY <1>2, <2>1
<1>4. Blocks(u) = Blocks(m)  BY <1>3 DEF Blocks
<1>5. Numbered(u)  BY <1>1 DEF Numbered, Sane
<1> QED  BY <1>1, <1>4, <1>5 DEF Sane

\* What was passed of the arguments of an entry.
SentTo(m, i, n) == [m EXCEPT !.tools[i].sent = n]

\* What a call has passed of its arguments is in no invariant.
LEMMA SaneSent ==
    ASSUME NEW m, NEW grows, Sane(m, grows), NEW i \in DOMAIN m.tools, NEW n \in Int,
           NEW u, u = SentTo(m, i, n)
    PROVE  /\ Sane(u, grows) /\ Written(u) = Written(m) /\ Blocks(u) = Blocks(m)
           /\ u.gated = m.gated /\ u.begun = m.begun /\ u.next = m.next /\ u.open = m.open
           /\ u.texted = m.texted /\ u.tools = [m.tools EXCEPT ![i].sent = n]
<1> DEFINE ts == [m.tools EXCEPT ![i].sent = n]
<1>1. /\ m \in Mem /\ \A j \in DOMAIN m.tools : m.tools[j] \in Tool
      /\ DOMAIN m.tools = 1 .. Len(m.tools) /\ Len(m.tools) \in Nat
  BY MemFacts DEF Sane
<1>2. /\ ts \in Seq(Tool) /\ DOMAIN ts = DOMAIN m.tools
      /\ \A j \in DOMAIN m.tools : ts[j].at = m.tools[j].at /\ ts[j].open = m.tools[j].open
  <2>1. \A j \in DOMAIN m.tools : ts[j] = IF j = i THEN [m.tools[i] EXCEPT !.sent = n] ELSE m.tools[j]
    BY <1>1
  <2>2. [m.tools[i] EXCEPT !.sent = n] \in Tool /\ [m.tools[i] EXCEPT !.sent = n].at = m.tools[i].at
        /\ [m.tools[i] EXCEPT !.sent = n].open = m.tools[i].open
    BY <1>1 DEF Tool
  <2>3. ts \in [1 .. Len(m.tools) -> Tool]  BY <1>1, <2>1, <2>2
  <2>4. ts \in Seq(Tool) /\ DOMAIN ts = DOMAIN m.tools  BY <1>1, <2>3
  <2> QED  BY <1>1, <2>1, <2>2, <2>4
<1>3. u = [m EXCEPT !.tools = ts]  BY <1>1 DEF Mem, SentTo
<1> HIDE DEF ts
<1>4. /\ u \in Mem /\ u.wire = m.wire /\ u.held = m.held /\ u.gated = m.gated /\ u.begun = m.begun
      /\ u.next = m.next /\ u.open = m.open /\ u.texted = m.texted /\ u.tools = ts
  BY <1>1, <1>2, <1>3 DEF Mem
<1>5. Cur(u) <=> Cur(m)  BY <1>4 DEF Cur
<1>6. Sane(u, grows) /\ Written(u) = Written(m) /\ Blocks(u) = Blocks(m)
  BY <1>2, <1>4, <1>5, SaneMarked
<1> QED  BY <1>4, <1>6 DEF ts

\* The reply begins.
LEMMA SaneStarted ==
    ASSUME NEW m, NEW grows, Sane(m, grows)
    PROVE  /\ Sane(Started(m), grows) /\ Started(m).begun /\ Same(m, Started(m))
           /\ Started(m).gated = m.gated
           /\ Written(Started(m)) = IF m.begun THEN Written(m) ELSE <<Begin>>
<1>1. CASE m.begun
  <2>1. Started(m) = m  BY <1>1 DEF Started
  <2> QED  BY <1>1, <2>1 DEF Same
<1>2. CASE ~m.begun
  <2> DEFINE p == Put(m, <<Begin>>)
             u == [p EXCEPT !.begun = TRUE]
  <2>1. Started(m) = u  BY <1>2 DEF Started
  <2>2. Begin \in Ev /\ Begin.ev = "begin"  BY EventFacts
  <2>3. m \in Mem /\ Veiled(m) /\ Written(m) = <<>>  BY <1>2 DEF Sane
  <2>4. p \in Mem /\ Veiled(p) /\ Same(m, p) /\ p.gated = m.gated
        /\ Written(p) = Append(Written(m), Begin)
    BY <2>2, <2>3, PutOne
  <2> HIDE DEF p
  <2>5. /\ u \in Mem /\ u.wire = p.wire /\ u.held = p.held /\ u.gated = p.gated /\ u.begun
        /\ Same(p, u)
    BY <2>4 DEF Mem, Same
  <2> HIDE DEF u
  <2>6. Became(m, u, Begin) /\ Same(m, u)
    BY <2>4, <2>5 DEF Became, Veiled, Written, Same
  <2>7. Sane(u, grows)  BY <2>2, <2>3, <2>6, SanePiece
  <2>8. Written(u) = <<Begin>>  BY <2>3, <2>6 DEF Became
  <2> QED  BY <1>2, <2>1, <2>5, <2>6, <2>7, <2>8 DEF Became
<1> QED  BY <1>1, <1>2

\* The gate opens: what was held is shown.
LEMMA SaneUnveil ==
    ASSUME NEW m, NEW grows, Sane(m, grows), m.gated
    PROVE  /\ Sane(Unveil(m), grows) /\ ~Unveil(m).gated /\ Unveil(m).begun = m.begun
           /\ Same(m, Unveil(m)) /\ Written(Unveil(m)) = Written(m)
<1> DEFINE u == Unveil(m)
<1>1. m \in Mem /\ m.wire = <<>> /\ m.held \in Seq(Ev)  BY MemFacts DEF Sane, Veiled
<1>2. m.wire \o m.held = m.held /\ <<>> \in Seq(Ev)  BY <1>1
<1>3. u = [m EXCEPT !.gated = FALSE, !.wire = m.held, !.held = <<>>]  BY <1>2 DEF Unveil
<1>4. u \in Mem /\ ~u.gated /\ u.wire = m.held /\ u.begun = m.begun /\ Same(m, u)
  BY <1>1, <1>2, <1>3 DEF Mem, Same
<1> HIDE DEF u
<1>5. Written(u) = Written(m) /\ Veiled(u)  BY <1>4 DEF Written, Veiled
<1>6. Blocks(u) = Blocks(m) /\ (Cur(u) <=> Cur(m))  BY <1>4 DEF Blocks, Cur, LiveTools, Same
<1>7. Numbered(u)  BY <1>4, <1>5, <1>6 DEF Numbered, Sane, Same
<1>8. Sane(u, grows)  BY <1>4, <1>5, <1>6, <1>7 DEF Sane
<1> QED  BY <1>4, <1>5, <1>8 DEF u

-----------------------------------------------------------------------------
\* Shutting the calls, in whatever order.

\* Memory that reads the same: what was written, and which blocks are open.
LEMMA SaneAlike ==
    ASSUME NEW m, NEW grows, Sane(m, grows), NEW u \in Mem, Veiled(u), Written(u) = Written(m),
           u.begun = m.begun, u.next = m.next, Cur(u) <=> Cur(m), DOMAIN u.tools = DOMAIN m.tools,
           \A i \in DOMAIN m.tools : u.tools[i].at = m.tools[i].at /\ u.tools[i].open = m.tools[i].open
    PROVE  Sane(u, grows)
<1>1. LiveTools(u) = LiveTools(m)  BY DEF LiveTools
<1>2. {u.tools[i].at : i \in LiveTools(u)} = {m.tools[i].at : i \in LiveTools(m)}
  <2>1. LiveTools(m) \subseteq DOMAIN m.tools  BY DEF LiveTools
  <2> QED  BY <1>1, <2>1
<1>3. Blocks(u) = Blocks(m)  BY <1>2 DEF Blocks
<1>4. Numbered(u)  BY DEF Numbered, Sane
<1> QED  BY <1>3, <1>4 DEF Sane

\* Whoever has a block open has begun.
LEMMA LiveBegan == ASSUME NEW m, NEW grows, Sane(m, grows), Blocks(m) # {} PROVE m.begun
<1>1. OpenBlocks(<<>>) = {}  BY DEF OpenBlocks, Names
<1> QED  BY <1>1 DEF Sane

\* An order that goes through the entries still open, each once.
Listing(m, order) == \E n \in Nat :
    /\ order \in [1 .. n -> LiveTools(m)]
    /\ \A i, j \in 1 .. n : order[i] = order[j] => i = j
    /\ \A x \in LiveTools(m) : \E i \in 1 .. n : order[i] = x

\* Ranging over the map of open entries meets each of them once.
LEMMA AnyOrderLists == ASSUME NEW m \in Mem, NEW order \in AnyOrder(m) PROVE Listing(m, order)
<1> DEFINE L == LiveTools(m)  n == Cardinality(L)
<1>1. L \subseteq 1 .. Len(m.tools) /\ Len(m.tools) \in Nat  BY MemFacts DEF LiveTools
<1>2. IsFiniteSet(1 .. Len(m.tools))  BY <1>1, FS_Interval
<1>3. IsFiniteSet(L) /\ n \in Nat  BY <1>1, <1>2, FS_Subset, FS_CardinalityType
<1>4. order \in [1 .. n -> L] /\ \A i, j \in 1 .. n : i # j => order[i] # order[j]
  BY DEF AnyOrder, SetToSeqs
<1>5. Cardinality(1 .. n) = n  BY <1>3, FS_Interval
<1> HIDE DEF L, n
<1>6. order \in Injection(1 .. n, L)  BY <1>4 DEF Injection, IsInjective
<1>7. order \in Surjection(1 .. n, L)  BY <1>3, <1>5, <1>6, FS_Injection DEF n
<1>8. \A x \in L : \E i \in 1 .. n : order[i] = x  BY <1>7 DEF Surjection
<1> QED  BY <1>3, <1>4, <1>8 DEF Listing, L

\* So does going through them in the order they opened in.
LEMMA InOrderLists ==
    ASSUME NEW m \in Mem, LiveTools(m) = DOMAIN m.tools PROVE Listing(m, InOrder(m))
<1>1. DOMAIN m.tools = 1 .. Len(m.tools) /\ Len(m.tools) \in Nat  BY MemFacts
<1> DEFINE n == Len(m.tools)
<1>2. InOrder(m) \in [1 .. n -> LiveTools(m)] /\ \A i \in 1 .. n : InOrder(m)[i] = i
  BY <1>1 DEF InOrder
<1>3. LiveTools(m) = 1 .. n  BY <1>1
<1> QED  BY <1>1, <1>2, <1>3 DEF Listing

\* What the blocks' shutting writes.
Shuts(m, order, n) == [k \in 1 .. n |-> Shut(m.tools[order[k]].at)]

\* u is m after the first n of them have shut.
ShutBy(m, order, n, grows, u) ==
    /\ Sane(u, grows) /\ u.begun = m.begun /\ u.gated = m.gated
    /\ Written(u) = Written(m) \o Shuts(m, order, n)
    /\ u.next = m.next /\ u.open = m.open
    /\ DOMAIN u.tools = DOMAIN m.tools
    /\ \A i \in DOMAIN m.tools :
          /\ u.tools[i].at = m.tools[i].at
          /\ u.tools[i].open <=> m.tools[i].open /\ \A k \in 1 .. n : order[k] # i
    /\ ThinkFirst(Written(m)) => ThinkFirst(Written(u))
    /\ NoText(Written(m)) => NoText(Written(u))

\* Nothing shut yet.
LEMMA ShutByNone == ASSUME NEW m, NEW grows, Sane(m, grows), NEW order PROVE ShutBy(m, order, 0, grows, m)
<1>1. Written(m) \in Seq(Ev)  BY MemFacts DEF Sane
<1>2. Shuts(m, order, 0) = <<>>  BY DEF Shuts
<1>3. Written(m) \o <<>> = Written(m)  BY <1>1
<1>4. 1 .. 0 = {}  OBVIOUS
<1> QED  BY <1>2, <1>3, <1>4 DEF ShutBy

\* One block more is shut.
LEMMA ShutByNext ==
    ASSUME NEW m, NEW grows, Sane(m, grows), NEW order, NEW n \in Nat, NEW u,
           ShutBy(m, order, n, grows, u), NEW i \in LiveTools(m), order[n + 1] = i,
           \A k \in 1 .. n : order[k] \in LiveTools(m) /\ order[k] # i
    PROVE  \E v : ShutBy(m, order, n + 1, grows, v)
<1> DEFINE e == Shut(u.tools[i].at)  v == ShutTool(u, i)
<1>1. /\ Sane(u, grows) /\ u.begun = m.begun /\ u.gated = m.gated
      /\ u.next = m.next /\ u.open = m.open /\ DOMAIN u.tools = DOMAIN m.tools
      /\ i \in DOMAIN m.tools /\ u.tools[i].at = m.tools[i].at
      /\ u.tools[i].open
  BY DEF ShutBy, LiveTools
<1>2. i \in LiveTools(u)  BY <1>1 DEF LiveTools
<1>3. u.begun  BY <1>1, <1>2, LiveBegan DEF Blocks
<1>4. /\ Sane(v, grows) /\ Became(u, v, e) /\ v.next = u.next /\ v.open = u.open
      /\ v.tools = [u.tools EXCEPT ![i].open = FALSE]
  BY <1>1, <1>2, <1>3, SaneShutTool
<1>5. u.tools[i].at \in Int /\ \A j \in DOMAIN u.tools : u.tools[j] \in Tool
  <2>1. \A j \in DOMAIN u.tools : u.tools[j] \in Tool  BY <1>1, MemFacts DEF Sane
  <2> QED  BY <1>1, <2>1 DEF Tool
<1>6. e \in Ev /\ e.ev = "shut" /\ e = Shut(m.tools[i].at)  BY <1>1, <1>5, EventFacts
<1> HIDE DEF e, v
<1>7. Written(v) = Written(m) \o Shuts(m, order, n + 1)
  <2>1. /\ Written(m) \in Seq(Ev) /\ Written(u) = Written(m) \o Shuts(m, order, n)
    BY MemFacts DEF Sane, ShutBy
  <2>2. /\ Shuts(m, order, n) = [k \in 1 .. n |-> Shut(m.tools[order[k]].at)]
        /\ Shuts(m, order, n + 1) = [k \in 1 .. n + 1 |-> Shut(m.tools[order[k]].at)]
    BY DEF Shuts
  <2>3. \A k \in 1 .. n : Shut(m.tools[order[k]].at) \in Ev
    <3>1. \A j \in DOMAIN m.tools : m.tools[j].at \in Int  BY MemFacts DEF Sane, Tool
    <3>2. LiveTools(m) \subseteq DOMAIN m.tools  BY DEF LiveTools
    <3> QED  BY <3>1, <3>2, EventFacts
  <2> DEFINE s == Shuts(m, order, n)  s2 == Shuts(m, order, n + 1)
  <2>4. s \in [1 .. n -> Ev] /\ s2 = [k \in 1 .. n + 1 |-> IF k = n + 1 THEN e ELSE s[k]]
    <3>1. s \in [1 .. n -> Ev]  BY <2>2, <2>3
    <3>2. \A k \in 1 .. n + 1 : k = n + 1 \/ k \in 1 .. n  OBVIOUS
    <3>3. \A k \in 1 .. n + 1 : Shut(m.tools[order[k]].at) = IF k = n + 1 THEN e ELSE s[k]
      BY <1>6, <2>2, <3>2
    <3> QED  BY <2>2, <3>1, <3>3
  <2> HIDE DEF s, s2
  <2>5. s \in Seq(Ev) /\ Len(s) = n  BY <2>4
  <2>6. s2 = Append(s, e)  BY <1>6, <2>4, <2>5
  <2>7. \A w \in Seq(Ev) : w \o Append(s, e) = Append(w \o s, e)  BY <1>6, <2>5
  <2>8. Written(v) = Append(Written(m) \o s, e)  BY <1>4, <2>1 DEF Became, s
  <2> QED  BY <2>1, <2>6, <2>7, <2>8 DEF s2
<1>8. DOMAIN v.tools = DOMAIN m.tools
      /\ \A j \in DOMAIN m.tools : v.tools[j].at = m.tools[j].at
                                   /\ (v.tools[j].open <=> u.tools[j].open /\ j # i)
  <2>1. \A j \in DOMAIN u.tools : v.tools[j] = IF j = i THEN [u.tools[i] EXCEPT !.open = FALSE] ELSE u.tools[j]
    BY <1>1, <1>4
  <2>2. \A j \in DOMAIN u.tools : v.tools[j].at = u.tools[j].at /\ (v.tools[j].open <=> u.tools[j].open /\ j # i)
    BY <1>5, <2>1 DEF Tool
  <2>3. \A j \in DOMAIN m.tools : u.tools[j].at = m.tools[j].at  BY DEF ShutBy
  <2>4. DOMAIN v.tools = DOMAIN u.tools  BY <1>4
  <2> QED  BY <1>1, <2>2, <2>3, <2>4
<1>9. \A j \in DOMAIN m.tools :
         v.tools[j].open <=> m.tools[j].open /\ \A k \in 1 .. n + 1 : order[k] # j
  <2>1. \A j \in DOMAIN m.tools : u.tools[j].open <=> m.tools[j].open /\ \A k \in 1 .. n : order[k] # j
    BY DEF ShutBy
  <2>2. 1 .. n + 1 = 1 .. n \union {n + 1}  OBVIOUS
  <2> QED  BY <1>8, <2>1, <2>2
<1>10. /\ ThinkFirst(Written(u)) => ThinkFirst(Written(v))
       /\ NoText(Written(u)) => NoText(Written(v))
  <2>1. Written(u) \in Seq(Ev) /\ Written(v) = Append(Written(u), e)  BY <1>1, <1>4, MemFacts DEF Sane, Became
  <2>2. e # Open(e.at, "think") /\ e # Open(e.at, "text")  BY <1>6 DEF Open, Event
  <2>3. ASSUME NEW w \in Seq(Ev) PROVE (ThinkFirst(w) => ThinkFirst(Append(w, e))) /\ (NoText(w) => NoText(Append(w, e)))
    <3>1. NoText(w) => ThinkFirst(w)  BY DEF NoText, ThinkFirst
    <3> QED  BY <1>6, <2>2, <3>1, ThinkFirstGrows
  <2> QED  BY <2>1, <2>3
<1>11. v.begun = m.begun /\ v.gated = m.gated  BY <1>1, <1>3, <1>4 DEF Became
<1>12. ShutBy(m, order, n + 1, grows, v)
  BY <1>1, <1>4, <1>7, <1>8, <1>9, <1>10, <1>11 DEF ShutBy
<1> QED  BY <1>12

\* All the entries still open shut their blocks.
LEMMA SaneShutTools ==
    ASSUME NEW m, NEW grows, Sane(m, grows), NEW order, Listing(m, order)
    PROVE  LET u == ShutTools(m, order) IN
           /\ Sane(u, grows) /\ u.begun = m.begun /\ u.gated = m.gated
           /\ u.next = m.next /\ u.open = m.open /\ u.texted = m.texted /\ LiveTools(u) = {}
           /\ ThinkFirst(Written(m)) => ThinkFirst(Written(u))
           /\ NoText(Written(m)) => NoText(Written(u))
           /\ \A Z : Seen(Written(m), Z) => Seen(Written(u), Z)
<1>1. PICK n \in Nat : /\ order \in [1 .. n -> LiveTools(m)]
                       /\ \A i, j \in 1 .. n : order[i] = order[j] => i = j
                       /\ \A x \in LiveTools(m) : \E i \in 1 .. n : order[i] = x
  BY DEF Listing
<1> DEFINE S == {k \in Nat : k <= n => \E u : ShutBy(m, order, k, grows, u)}
<1>2. 0 \in S
  <2>1. ShutBy(m, order, 0, grows, m)  BY ShutByNone
  <2> QED  BY <2>1
<1>3. ASSUME NEW k \in Nat, k \in S PROVE k + 1 \in S
  <2> SUFFICES ASSUME k + 1 <= n PROVE \E v : ShutBy(m, order, k + 1, grows, v)  OBVIOUS
  <2>1. k <= n /\ k + 1 \in 1 .. n /\ \A j \in 1 .. k : j \in 1 .. n /\ j # k + 1  OBVIOUS
  <2>2. PICK u : ShutBy(m, order, k, grows, u)  BY <1>3, <2>1
  <2>3. order[k + 1] \in LiveTools(m) /\ \A j \in 1 .. k : order[j] \in LiveTools(m) /\ order[j] # order[k + 1]
    BY <1>1, <2>1
  <2> QED  BY <2>2, <2>3, ShutByNext
<1> HIDE DEF S
<1>4. n \in S  BY <1>2, <1>3, Inductive
<1>5. PICK x : ShutBy(m, order, n, grows, x)  BY <1>4 DEF S
<1> DEFINE s == Shuts(m, order, n)
           p == Put(m, s)
           ts == [i \in DOMAIN p.tools |-> [p.tools[i] EXCEPT !.open = FALSE]]
           u == ShutTools(m, order)
<1>6. u = [p EXCEPT !.tools = ts]
  <2>1. DOMAIN order = 1 .. n  BY <1>1
  <2> QED  BY <2>1 DEF ShutTools, Shuts
<1>7. /\ m \in Mem /\ Veiled(m) /\ DOMAIN m.tools = 1 .. Len(m.tools) /\ Len(m.tools) \in Nat
      /\ \A i \in DOMAIN m.tools : m.tools[i] \in Tool /\ m.tools[i].at \in Int
  BY MemFacts DEF Sane, Tool
<1>8. s \in Seq(Ev)
  <2>1. LiveTools(m) \subseteq DOMAIN m.tools  BY DEF LiveTools
  <2>2. \A k \in 1 .. n : Shut(m.tools[order[k]].at) \in Ev  BY <1>1, <1>7, <2>1, EventFacts
  <2>3. s \in [1 .. n -> Ev]  BY <2>2 DEF Shuts
  <2> QED  BY <2>3
<1> HIDE DEF s
<1>9. /\ p \in Mem /\ Veiled(p) /\ p.next = m.next /\ p.open = m.open /\ p.texted = m.texted /\ p.tools = m.tools
      /\ p.gated = m.gated /\ p.begun = m.begun /\ Written(p) = Written(m) \o s
  BY <1>7, <1>8, PutMany DEF Same
<1> HIDE DEF p, u
<1>10. /\ ts \in Seq(Tool) /\ DOMAIN ts = DOMAIN m.tools
       /\ \A i \in DOMAIN m.tools : ts[i].at = m.tools[i].at /\ ~ts[i].open
  <2>1. \A i \in DOMAIN m.tools : [m.tools[i] EXCEPT !.open = FALSE] \in Tool
                                  /\ [m.tools[i] EXCEPT !.open = FALSE].at = m.tools[i].at
                                  /\ ~[m.tools[i] EXCEPT !.open = FALSE].open
    BY <1>7 DEF Tool
  <2>2. ts = [i \in DOMAIN m.tools |-> [m.tools[i] EXCEPT !.open = FALSE]]  BY <1>9
  <2>3. ts \in [1 .. Len(m.tools) -> Tool]  BY <1>7, <2>1, <2>2
  <2> DEFINE l == Len(m.tools)
  <2>4. ts \in [1 .. l -> Tool] /\ l \in Nat  BY <1>7, <2>3
  <2> HIDE DEF l, ts
  <2>5. ts \in Seq(Tool)  BY <2>4
  <2> QED  BY <2>1, <2>2, <2>5
<1> HIDE DEF ts
<1>11. /\ u \in Mem /\ u.wire = p.wire /\ u.held = p.held /\ u.gated = p.gated /\ u.begun = p.begun
       /\ u.next = p.next /\ u.open = p.open /\ u.texted = p.texted /\ u.tools = ts
  BY <1>6, <1>9, <1>10 DEF Mem
<1>12. Written(u) = Written(m) \o s /\ Veiled(u)  BY <1>9, <1>11 DEF Written, Veiled
<1>13. LiveTools(u) = {}  BY <1>10, <1>11 DEF LiveTools
<1>14. \A i \in DOMAIN m.tools : x.tools[i].at = m.tools[i].at /\ ~x.tools[i].open
  <2>1. \A i \in DOMAIN m.tools :
          /\ x.tools[i].at = m.tools[i].at
          /\ x.tools[i].open <=> m.tools[i].open /\ \A k \in 1 .. n : order[k] # i
    BY <1>5 DEF ShutBy
  <2> QED  BY <1>1, <2>1 DEF LiveTools
<1>15. /\ Sane(x, grows) /\ x.begun = m.begun /\ x.next = m.next /\ x.open = m.open
       /\ DOMAIN x.tools = DOMAIN m.tools /\ Written(x) = Written(m) \o s
       /\ ThinkFirst(Written(m)) => ThinkFirst(Written(x))
       /\ NoText(Written(m)) => NoText(Written(x))
  BY <1>5 DEF ShutBy, s
<1>16. \A i \in DOMAIN x.tools : u.tools[i].at = x.tools[i].at /\ u.tools[i].open = x.tools[i].open
  <2>1. \A i \in DOMAIN m.tools : x.tools[i].open \in BOOLEAN /\ ts[i].open \in BOOLEAN
    <3>1. x \in Mem  BY <1>15 DEF Sane
    <3>2. \A i \in DOMAIN x.tools : x.tools[i] \in Tool  BY <3>1, MemFacts
    <3>3. \A i \in DOMAIN ts : ts[i] \in Tool  BY <1>10
    <3> QED  BY <1>10, <1>15, <3>2, <3>3 DEF Tool
  <2> QED  BY <1>10, <1>11, <1>14, <1>15, <2>1
<1>17. Sane(u, grows)
  <2>1. Cur(u) <=> Cur(x)  BY <1>9, <1>11, <1>15 DEF Cur
  <2>2. DOMAIN u.tools = DOMAIN x.tools  BY <1>10, <1>11, <1>15
  <2> QED  BY <1>9, <1>11, <1>12, <1>15, <1>16, <2>1, <2>2, SaneAlike
<1>18. \A Z : Seen(Written(m), Z) => Seen(Written(u), Z)
  <2> DEFINE w == Written(m)
  <2>1. w \in Seq(Ev) /\ Written(u) = w \o s  BY <1>7, <1>12, MemFacts
  <2> HIDE DEF w
  <2>2. ASSUME NEW i \in DOMAIN w PROVE i \in DOMAIN (w \o s) /\ (w \o s)[i] = w[i]
    BY <1>8, <2>1, <2>2
  <2> QED  BY <2>1, <2>2 DEF Seen, w
<1> QED  BY <1>9, <1>11, <1>12, <1>13, <1>15, <1>17, <1>18 DEF u

-----------------------------------------------------------------------------
\* The end of a reply; Chat.

\* A memory in the middle of a reply is one a client may be left with.
LEMMA SaneIsFine == ASSUME NEW m, NEW grows, Sane(m, grows) PROVE Fine(m, grows)
BY DEF Sane, Fine, Calm, NothingAfter, Numbered

\* The events that close a reply.
Closing == {Whole, Fail, Over, Raw}

\* What closes a reply fits behind anything.
LEMMA ClosingFacts ==
    ASSUME NEW e \in Closing
    PROVE  e \in Ev /\ e.ev \in Closes /\ e.ev \notin {"begin", "open", "piece", "shut"}
           /\ \A w : Fits(w, e) /\ GrowsBy(w, e)
BY EventFacts DEF Closing, Closes, Fits, GrowsBy

\* A closing event behind a memory.
LEMMA FineCloses ==
    ASSUME NEW m, NEW grows, Fine(m, grows), NEW e \in Closing
    PROVE  LET u == Put(m, <<e>>) IN
           /\ Fine(u, grows) /\ u.gated = m.gated /\ u.begun = m.begun /\ Same(m, u)
           /\ Written(u) = Append(Written(m), e)
           /\ ThinkFirst(Written(m)) => ThinkFirst(Written(u))
<1> DEFINE u == Put(m, <<e>>)  w == Written(m)
<1>1. e \in Ev /\ e.ev \in Closes /\ e.ev \notin {"begin", "open", "piece", "shut"} /\ Fits(w, e) /\ GrowsBy(w, e)
  BY ClosingFacts
<1>2. m \in Mem /\ Veiled(m) /\ w \in Seq(Ev)  BY MemFacts DEF Fine
<1>3. /\ u \in Mem /\ Veiled(u) /\ Same(m, u) /\ u.gated = m.gated /\ u.begun = m.begun
      /\ Written(u) = Append(w, e)
  BY <1>1, <1>2, PutOne
<1>4. Paired(w) /\ (grows => GrowsOpen(w)) /\ OneBegin(w) /\ NothingAfter(w)  BY DEF Fine
<1>5. e # Open(e.at, "think")  BY <1>1 DEF Open, Event
<1> HIDE DEF u, w
<1>6. Paired(Append(w, e))  BY <1>1, <1>2, <1>4, PairedGrows
<1>7. grows => GrowsOpen(Append(w, e))  BY <1>1, <1>2, <1>4, GrowsOpenGrows
<1>8. OneBegin(Append(w, e)) /\ NothingAfter(Append(w, e))  BY <1>1, <1>2, <1>4, ReplyGrows
<1>9. ThinkFirst(w) => ThinkFirst(Append(w, e))  BY <1>1, <1>2, <1>5, ThinkFirstGrows
<1>10. \A i \in DOMAIN u.tools : u.tools[i].at < u.next  BY <1>3 DEF Fine, Same
<1>11. Fine(u, grows)  BY <1>3, <1>6, <1>7, <1>8, <1>10 DEF Fine
<1> QED  BY <1>3, <1>9, <1>11 DEF u, w

\* Two events more are one event more, twice.
LEMMA TwoMore ==
    ASSUME NEW w \in Seq(Ev), NEW a \in Ev, NEW b \in Ev
    PROVE  (w \o <<a>>) \o <<b>> = w \o <<a, b>>
<1>1. <<a>> \in Seq(Ev) /\ <<b>> \in Seq(Ev)  OBVIOUS
<1>4. <<a>> \o <<b>> = <<a, b>>
  <2> DEFINE s == Append(<<a>>, b)  r == <<a, b>>
  <2>1. <<a>> \o <<b>> = s  BY <1>1, ConcatOne
  <2>2. s \in Seq(Ev) /\ r \in Seq(Ev) /\ Len(s) = 2 /\ Len(r) = 2  OBVIOUS
  <2>3. s[1] = a /\ r[1] = a /\ s[2] = b /\ r[2] = b  OBVIOUS
  <2> HIDE DEF s, r
  <2>4. \A i \in 1 .. Len(s) : i = 1 \/ i = 2  BY <2>2
  <2>5. s = r  BY <2>2, <2>3, <2>4, SeqEqual
  <2> QED  BY <2>1, <2>5 DEF r
<1> DEFINE x == <<a>>  y == <<b>>
<1> HIDE DEF x, y
<1>2. x \in Seq(Ev) /\ y \in Seq(Ev)  BY <1>1 DEF x, y
<1>3. (w \o x) \o y = w \o (x \o y)  BY <1>2, ConcatAssociative
<1> QED  BY <1>3, <1>4 DEF x, y

\* The error and the stop behind it: what closeInterruptedClaudeStream writes.
LEMMA FineCut ==
    ASSUME NEW m, NEW grows, Fine(m, grows)
    PROVE  LET u == Put(m, <<Fail, Over>>) IN
           /\ Fine(u, grows) /\ u.gated = m.gated /\ Same(m, u)
           /\ Written(u) = Append(Append(Written(m), Fail), Over)
           /\ ThinkFirst(Written(m)) => ThinkFirst(Written(u))
<1> DEFINE p == Put(m, <<Fail>>)  q == Put(p, <<Over>>)
<1>1. Fail \in Closing /\ Over \in Closing  BY DEF Closing
<1>2. /\ Fine(p, grows) /\ p.gated = m.gated /\ Same(m, p) /\ Written(p) = Append(Written(m), Fail)
      /\ ThinkFirst(Written(m)) => ThinkFirst(Written(p))
  BY <1>1, FineCloses
<1> HIDE DEF p
<1>3. /\ Fine(q, grows) /\ q.gated = p.gated /\ Same(p, q) /\ Written(q) = Append(Written(p), Over)
      /\ ThinkFirst(Written(p)) => ThinkFirst(Written(q))
  BY <1>1, <1>2, FineCloses
<1>4. q = Put(m, <<Fail, Over>>)
  <2>1. m \in Mem /\ Fail \in Ev /\ Over \in Ev  BY EventFacts DEF Fine
  <2>2. \A w \in Seq(Ev) : (w \o <<Fail>>) \o <<Over>> = w \o <<Fail, Over>>  BY <2>1, TwoMore
  <2>3. m.wire \in Seq(Ev) /\ m.held \in Seq(Ev)  BY <2>1, MemFacts
  <2>4. CASE m.gated  BY <2>1, <2>2, <2>3, <2>4 DEF Put, p, Mem
  <2>5. CASE ~m.gated  BY <2>1, <2>2, <2>3, <2>5 DEF Put, p, Mem
  <2> QED  BY <2>4, <2>5
<1> QED  BY <1>2, <1>3, <1>4 DEF Same

\* Beginning a reply shows no event but the beginning.
LEMMA StartedSeen ==
    ASSUME NEW m, NEW grows, Sane(m, grows), NEW S, Begin \notin S
    PROVE  Seen(Written(Started(m)), S) <=> Seen(Written(m), S)
<1>1. CASE m.begun
  <2>1. Started(m) = m  BY <1>1 DEF Started
  <2> QED  BY <2>1
<1>2. CASE ~m.begun
  <2>1. Written(Started(m)) = <<Begin>> /\ Written(m) = <<>>  BY <1>2, SaneStarted DEF Sane
  <2> QED  BY <2>1 DEF Seen
<1> QED  BY <1>1, <1>2

-----------------------------------------------------------------------------
\* Chat and Gemini.

\* Text and thinking to Chat.
LEMMA ChatSays ==
    ASSUME NEW m, Chat(m), NEW kind \in Kinds
    PROVE  LET u == Say(m, kind) IN
           /\ Chat(u) /\ u.begun /\ u.gated = m.gated /\ Same(m, u)
           /\ Written(u) = Append(Written(Started(m)), Piece(Loose, kind, 1))
<1> DEFINE s == Started(m)  e == Piece(Loose, kind, 1)  u == Say(m, kind)
<1>1. Sane(s, TRUE) /\ s.begun /\ Same(m, s) /\ s.gated = m.gated  BY SaneStarted DEF Chat
<1>2. e \in Ev /\ e.ev = "piece" /\ e.at = Loose  BY EventFacts DEF Loose
<1>3. u = Put(s, <<e>>)  BY DEF Say
<1> HIDE DEF s, e, u
<1>4. /\ Became(s, u, e) /\ Same(s, u) /\ u.gated = s.gated /\ Written(u) = Append(Written(s), e)
  BY <1>1, <1>2, <1>3, PutOne DEF Sane
<1>5. Sane(u, TRUE)  BY <1>1, <1>2, <1>4, SanePiece
<1>6. Same(m, u) /\ u.begun /\ u.gated = m.gated  BY <1>1, <1>4 DEF Same, Became
<1>7. Chat(u)  BY <1>5, <1>6 DEF Chat, Same, LiveTools
<1> QED  BY <1>4, <1>6, <1>7 DEF u, s, e

\* A call to Chat opens under the next index.
LEMMA ChatStarts ==
    ASSUME NEW m, Chat(m), NEW c \in Int
    PROVE  LET u == StartCall(m, c) IN
           /\ Chat(u) /\ u.begun /\ u.gated = m.gated /\ u.open = m.open /\ u.texted = m.texted
           /\ u.tools = Append(m.tools, NewTool(c, m.next))
           /\ Written(u) = Append(Written(Started(m)), OpenTool(m.next, c))
<1> DEFINE s == Started(m)  e == OpenTool(s.next, c)  p == Put(s, <<e>>)  u == StartCall(m, c)
           ts == Append(s.tools, NewTool(c, s.next))
<1>1. Sane(s, TRUE) /\ s.begun /\ Same(m, s) /\ s.gated = m.gated  BY SaneStarted DEF Chat
<1>2. s \in Mem /\ s.next \in Nat /\ s.tools \in Seq(Tool) /\ NewTool(c, s.next) \in Tool
  <2>1. s \in Mem /\ s.next \in Nat /\ s.tools \in Seq(Tool)  BY <1>1, MemFacts DEF Sane
  <2> QED  BY <2>1 DEF NewTool, Tool
<1>3. e \in Ev /\ e.ev = "open" /\ e.at = s.next  BY <1>2, EventFacts
<1>4. u = [p EXCEPT !.next = @ + 1, !.tools = Append(@, NewTool(c, s.next))]  BY DEF StartCall
<1>5. ts \in Seq(Tool)  BY <1>2
<1> HIDE DEF s, e, u, ts
<1>6. /\ p \in Mem /\ Veiled(p) /\ Same(s, p) /\ p.gated = s.gated /\ p.begun /\ Written(p) = Append(Written(s), e)
  BY <1>1, <1>3, PutOne DEF Sane
<1> HIDE DEF p
<1>7. u = [p EXCEPT !.next = s.next + 1, !.tools = ts]  BY <1>4, <1>6 DEF Same, ts
<1>8. /\ u \in Mem /\ u.wire = p.wire /\ u.held = p.held /\ u.gated = p.gated /\ u.begun = p.begun
      /\ u.next = s.next + 1 /\ u.open = p.open /\ u.texted = p.texted /\ u.tools = ts
  <2>1. p \in Mem /\ ts \in Seq(Tool) /\ s.next + 1 \in Nat  BY <1>2, <1>5, <1>6
  <2> QED  BY <1>7, <2>1 DEF Mem
<1>9. Became(s, u, e) /\ Written(u) = Append(Written(s), e)
  BY <1>6, <1>8 DEF Became, Written, Veiled
<1>10. ~Cur(s) /\ ~Cur(u) /\ u.open = m.open /\ u.texted = m.texted
  BY <1>1, <1>6, <1>8 DEF Chat, Cur, Same
<1>11. Sane(u, TRUE)  BY <1>1, <1>3, <1>8, <1>9, <1>10, SaneOpenTool DEF ts
<1>12. LiveTools(u) = DOMAIN u.tools
  <2>1. s.tools = m.tools /\ LiveTools(m) = DOMAIN m.tools  BY <1>1 DEF Same, Chat
  <2>2. \A i \in DOMAIN s.tools : s.tools[i].open  BY <2>1 DEF LiveTools
  <2>3. NewTool(c, s.next).open  BY DEF NewTool
  <2>4. \A i \in DOMAIN ts : ts[i].open
    <3> DEFINE k == NewTool(c, s.next)  l == s.tools
    <3>1. l \in Seq(Tool) /\ k \in Tool /\ k.open /\ \A i \in DOMAIN l : l[i].open  BY <1>2, <2>2, <2>3
    <3> HIDE DEF k, l
    <3>2. \A i \in DOMAIN Append(l, k) : Append(l, k)[i] = k \/ (i \in DOMAIN l /\ Append(l, k)[i] = l[i])
      BY <3>1
    <3>3. \A i \in DOMAIN Append(l, k) : Append(l, k)[i].open  BY <3>1, <3>2
    <3> QED  BY <3>3 DEF ts, k, l
  <2> QED  BY <1>8, <2>4 DEF LiveTools
<1>13. Chat(u)  BY <1>6, <1>8, <1>10, <1>11, <1>12 DEF Chat
<1>14. ts = Append(m.tools, NewTool(c, m.next)) /\ e = OpenTool(m.next, c) /\ u.gated = m.gated
  BY <1>1, <1>6, <1>8 DEF Same, ts, e
<1> QED  BY <1>6, <1>8, <1>9, <1>10, <1>13, <1>14 DEF u, s

\* Its arguments are pieces of it.
LEMMA ChatArgs ==
    ASSUME NEW m, Chat(m), NEW i \in DOMAIN m.tools, NEW n \in Int
    PROVE  LET u == CallArgs(m, i, n) IN
           /\ Chat(u) /\ u.begun /\ u.gated = m.gated /\ u.open = m.open /\ u.texted = m.texted
           /\ DOMAIN u.tools = DOMAIN m.tools
           /\ \A j \in DOMAIN m.tools :
                 /\ u.tools[j].key = m.tools[j].key /\ u.tools[j].at = m.tools[j].at
                 /\ u.tools[j].sent = IF j = i THEN m.tools[i].sent + n ELSE m.tools[j].sent
           /\ Written(u) = Append(Written(m), Piece(m.tools[i].at, "tool", n))
<1> DEFINE e == Piece(m.tools[i].at, "tool", n)  p == Put(m, <<e>>)  u == CallArgs(m, i, n)
<1>1. m.begun /\ m.tools[i] \in Tool /\ i \in LiveTools(m)
  <2>1. m.tools # <<>>  OBVIOUS
  <2> QED  BY <2>1, MemFacts DEF Chat, Sane
<1>2. m.tools[i].at \in Int /\ m.tools[i].at \in Blocks(m) /\ m.tools[i].sent \in Int
  BY <1>1 DEF Tool, Blocks
<1>3. e \in Ev /\ e.ev = "piece" /\ e.at = m.tools[i].at
  <2>1. "tool" \in Kinds  BY DEF Kinds
  <2> QED  BY <1>2, <2>1, EventFacts
<1>4. u = [p EXCEPT !.tools[i].sent = @ + n]  BY DEF CallArgs
<1> HIDE DEF e, u
<1>5. /\ p \in Mem /\ Became(m, p, e) /\ Same(m, p) /\ p.gated = m.gated /\ Written(p) = Append(Written(m), e)
  BY <1>1, <1>3, PutOne DEF Chat, Sane
<1> HIDE DEF p
<1>6. Sane(p, TRUE)  BY <1>1, <1>2, <1>3, <1>5, SanePiece DEF Chat
<1> DEFINE k == m.tools[i].sent + n
<1>7. i \in DOMAIN p.tools /\ p.tools = m.tools /\ k \in Int  BY <1>2, <1>5 DEF Same
<1>8. u = SentTo(p, i, k)  BY <1>4, <1>7 DEF SentTo
<1> HIDE DEF k
<1>9. /\ Sane(u, TRUE) /\ Written(u) = Written(p) /\ u.gated = p.gated /\ u.begun = p.begun
      /\ u.open = p.open /\ u.texted = p.texted /\ u.tools = [p.tools EXCEPT ![i].sent = k]
  <2>1. Sane(u, TRUE)  BY <1>6, <1>7, <1>8, SaneSent
  <2>2. u = [p EXCEPT !.tools = [p.tools EXCEPT ![i].sent = k]]  BY <1>7, <1>8 DEF SentTo
  <2>3. /\ u.wire = p.wire /\ u.held = p.held /\ u.gated = p.gated /\ u.begun = p.begun
        /\ u.open = p.open /\ u.texted = p.texted /\ u.tools = [p.tools EXCEPT ![i].sent = k]
    BY <1>5, <2>2 DEF Mem
  <2> QED  BY <2>1, <2>3 DEF Written
<1>10. u.tools = [m.tools EXCEPT ![i].sent = @ + n]  BY <1>7, <1>9 DEF k
<1>11. /\ DOMAIN u.tools = DOMAIN m.tools
       /\ \A j \in DOMAIN m.tools :
             /\ u.tools[j].key = m.tools[j].key /\ u.tools[j].at = m.tools[j].at
             /\ u.tools[j].sent = IF j = i THEN m.tools[i].sent + n ELSE m.tools[j].sent
             /\ u.tools[j].open = m.tools[j].open
  <2>1. DOMAIN u.tools = DOMAIN m.tools  BY <1>10
  <2>2. \A j \in DOMAIN m.tools : u.tools[j] = IF j = i THEN [m.tools[i] EXCEPT !.sent = @ + n] ELSE m.tools[j]
    BY <1>10
  <2>3. LET x == [m.tools[i] EXCEPT !.sent = @ + n] IN
        x.open = m.tools[i].open /\ x.key = m.tools[i].key /\ x.at = m.tools[i].at /\ x.sent = m.tools[i].sent + n
    BY <1>1 DEF Tool
  <2> QED  BY <2>1, <2>2, <2>3
<1>12. Chat(u) /\ u.begun /\ u.gated = m.gated /\ u.open = m.open /\ u.texted = m.texted
  <2>1. LiveTools(u) = DOMAIN u.tools  BY <1>11 DEF Chat, LiveTools
  <2> QED  BY <1>5, <1>9, <2>1 DEF Chat, Became, Same
<1> QED  BY <1>5, <1>9, <1>11, <1>12 DEF u, e

\* The marks of what is open and what was said change no event.
LEMMA ChatMarked ==
    ASSUME NEW m, Chat(m), NEW u \in Mem, u.wire = m.wire, u.held = m.held, u.gated = m.gated,
           u.begun = m.begun, u.next = m.next, u.tools = m.tools, u.open \subseteq {"tool"}
    PROVE  Chat(u) /\ Written(u) = Written(m)
<1>1. ~Cur(u) /\ ~Cur(m)  BY DEF Cur, Chat
<1>2. Sane(u, TRUE) /\ Written(u) = Written(m)  BY <1>1, SaneMarked DEF Chat
<1> QED  BY <1>2 DEF Chat, LiveTools

\* Which events a client can read.
LEMMA VisibleFacts ==
    /\ Begin \notin Visible /\ Begin \notin Heard
    /\ \A i, c \in Int : OpenTool(i, c) \in Visible /\ OpenTool(i, c) \notin Heard
    /\ \A i, n \in Int : \A k \in Kinds : Piece(i, k, n) \in Visible
                                          /\ (Piece(i, k, n) \in Heard <=> k \in {"text", "tool"})
    /\ \A i \in Int : \A k \in Kinds : (Open(i, k) \in Visible <=> k # "think") /\ Open(i, k) \notin Heard
BY EventFacts DEF Visible, Heard

\* A block of Claude starts.
LEMMA ClaudeToChatStarts ==
    ASSUME NEW m, ClaudeChat(m), NEW kind \in Kinds, NEW c, kind = "tool" => c \in Int
    PROVE  ClaudeChat(ClaudeToChatStart(m, kind, c))
<1>1. CASE kind # "tool"  BY <1>1 DEF ClaudeToChatStart
<1>2. CASE kind = "tool"
  <2> DEFINE p == StartCall(m, c)  u == [p EXCEPT !.open = {"tool"}, !.texted = TRUE]
             w == Written(Started(m))  e == OpenTool(m.next, c)
  <2>1. c \in Int /\ Chat(m)  BY <1>2 DEF ClaudeChat
  <2>2. ClaudeToChatStart(m, kind, c) = u  BY <1>2 DEF ClaudeToChatStart
  <2>3. /\ Chat(p) /\ p.begun /\ p.tools = Append(m.tools, NewTool(c, m.next))
        /\ Written(p) = Append(w, e)
    BY <2>1, ChatStarts
  <2>4. m.next \in Int /\ m.tools \in Seq(Tool) /\ w \in Seq(Ev)
    BY <2>1, SaneStarted, MemFacts DEF Chat, Sane
  <2> HIDE DEF p, w
  <2>5. p \in Mem /\ {"tool"} \in SUBSET Kinds  BY <2>3 DEF Chat, Sane, Kinds
  <2>6. /\ u \in Mem /\ u.wire = p.wire /\ u.held = p.held /\ u.gated = p.gated /\ u.begun = p.begun
        /\ u.next = p.next /\ u.tools = p.tools /\ u.open = {"tool"} /\ u.texted
    BY <2>5 DEF Mem
  <2> HIDE DEF u
  <2>7. Chat(u) /\ Written(u) = Written(p)  BY <2>3, <2>6, ChatMarked
  <2>8. e \in Ev /\ e \in Visible  BY <2>1, <2>4, EventFacts, VisibleFacts
  <2> HIDE DEF e
  <2>9. Seen(Written(u), Visible)  BY <2>3, <2>4, <2>7, <2>8, SeenGrows
  <2>10. u.tools # <<>>  BY <2>3, <2>4, <2>6
  <2> QED  BY <2>2, <2>3, <2>6, <2>7, <2>9, <2>10 DEF ClaudeChat
<1> QED  BY <1>1, <1>2

\* It carries arguments.
LEMMA ClaudeChatArgs ==
    ASSUME NEW m, ClaudeChat(m), NEW i \in DOMAIN m.tools, NEW n \in Int
    PROVE  ClaudeChat(CallArgs(m, i, n))
<1> DEFINE u == CallArgs(m, i, n)  e == Piece(m.tools[i].at, "tool", n)
<1>1. Chat(m) /\ Written(m) \in Seq(Ev) /\ m.tools[i] \in Tool /\ m.tools # <<>>
  BY MemFacts DEF ClaudeChat, Chat, Sane
<1>2. m.begun /\ m.texted  BY <1>1 DEF ClaudeChat, Chat
<1>3. /\ Chat(u) /\ u.begun /\ u.open = m.open /\ u.texted = m.texted
      /\ DOMAIN u.tools = DOMAIN m.tools /\ Written(u) = Append(Written(m), e)
  BY <1>1, ChatArgs
<1>4. e \in Ev
  <2>1. m.tools[i].at \in Int /\ "tool" \in Kinds  BY <1>1 DEF Tool, Kinds
  <2> QED  BY <2>1, EventFacts
<1> HIDE DEF u, e
<1>5. i \in DOMAIN u.tools  BY <1>3
<1>6. u.tools # <<>>  BY <1>5
<1>7. Seen(Written(u), Visible)  BY <1>1, <1>2, <1>3, <1>4, SeenGrows DEF ClaudeChat
<1> QED  BY <1>2, <1>3, <1>6, <1>7 DEF ClaudeChat, u

\* It grows.
LEMMA ClaudeToChatDeltas ==
    ASSUME NEW m, ClaudeChat(m), NEW kind \in Kinds
    PROVE  ClaudeChat(ClaudeToChatDelta(m, kind))
<1> DEFINE v == ClaudeToChatDelta(m, kind)
<1>1. CASE kind = "tool" /\ m.open # {}
  <2> DEFINE i == Len(m.tools)
  <2>1. i \in DOMAIN m.tools
    <3>1. m.tools # <<>> /\ m.tools \in Seq(Tool)  BY <1>1, MemFacts DEF ClaudeChat, Chat, Sane
    <3> QED  BY <3>1
  <2>2. v = CallArgs(m, i, 1) /\ 1 \in Int  BY <1>1 DEF ClaudeToChatDelta
  <2> HIDE DEF i, v
  <2> QED  BY <2>1, <2>2, ClaudeChatArgs DEF v
<1>2. CASE kind = "text"
  <2> DEFINE p == Say(m, kind)  u == [p EXCEPT !.texted = TRUE]
             w == Written(Started(m))  e == Piece(Loose, kind, 1)
  <2>1. v = u  BY <1>2 DEF ClaudeToChatDelta
  <2>2. Chat(m) /\ w \in Seq(Ev)  BY SaneStarted, MemFacts DEF ClaudeChat, Chat, Sane
  <2>3. Chat(p) /\ p.begun /\ Same(m, p) /\ Written(p) = Append(w, e)  BY <2>2, ChatSays
  <2>4. e \in Ev /\ e \in Visible
    <3>1. Loose \in Int  BY DEF Loose
    <3> QED  BY <3>1, EventFacts, VisibleFacts
  <2> HIDE DEF p, w, e
  <2>5. p \in Mem  BY <2>3 DEF Chat, Sane
  <2>6. /\ u \in Mem /\ u.wire = p.wire /\ u.held = p.held /\ u.gated = p.gated /\ u.begun = p.begun
        /\ u.next = p.next /\ u.tools = p.tools /\ u.open = p.open /\ u.texted
    BY <2>5 DEF Mem
  <2> HIDE DEF u
  <2>7. Chat(u) /\ Written(u) = Written(p)
    <3>1. p.open \subseteq {"tool"}  BY <2>3 DEF Chat
    <3> QED  BY <2>3, <2>6, <3>1, ChatMarked
  <2>8. Seen(Written(u), Visible)  BY <2>2, <2>3, <2>4, <2>7, SeenGrows
  <2>9. u.open = m.open /\ u.tools = m.tools  BY <2>3, <2>6 DEF Same
  <2> QED  BY <2>1, <2>3, <2>6, <2>7, <2>8, <2>9 DEF ClaudeChat
<1>3. CASE ~(kind = "tool" /\ m.open # {}) /\ kind # "text"
  BY <1>3 DEF ClaudeToChatDelta
<1> QED  BY <1>1, <1>2, <1>3

\* It stops.
LEMMA ClaudeToChatStops == ASSUME NEW m, ClaudeChat(m) PROVE ClaudeChat(ClaudeToChatStop(m))
<1> DEFINE u == [m EXCEPT !.open = {}]
<1>1. m \in Mem  BY DEF ClaudeChat, Chat, Sane
<1>2. /\ u \in Mem /\ u.wire = m.wire /\ u.held = m.held /\ u.gated = m.gated /\ u.begun = m.begun
      /\ u.next = m.next /\ u.tools = m.tools /\ u.open = {} /\ u.texted = m.texted
  BY <1>1 DEF Mem
<1>3. ClaudeToChatStop(m) = u  BY DEF ClaudeToChatStop
<1> HIDE DEF u
<1>4. Chat(u) /\ Written(u) = Written(m)  BY <1>2, ChatMarked DEF ClaudeChat
<1> QED  BY <1>2, <1>3, <1>4 DEF ClaudeChat

-----------------------------------------------------------------------------
\* To Chat from Responses.

\* Text or reasoning of a Responses answer.
LEMMA ResponsesToChatDeltas ==
    ASSUME NEW m, ResponsesChat(m), NEW kind \in {"text", "think"}
    PROVE  ResponsesChat(ResponsesToChatDelta(m, kind))
<1> DEFINE p == Say(m, kind)  u == [p EXCEPT !.texted = @ \/ kind = "text"]
           w == Written(Started(m))  e == Piece(Loose, kind, 1)
<1>1. Chat(m) /\ w \in Seq(Ev) /\ kind \in Kinds /\ Loose \in Int
  BY SaneStarted, MemFacts DEF ResponsesChat, Chat, Sane, Kinds, Loose
<1>2. Chat(p) /\ Same(m, p) /\ Written(p) = Append(w, e)  BY <1>1, ChatSays
<1>3. e \in Ev /\ (e \in Heard <=> kind = "text")  BY <1>1, EventFacts, VisibleFacts
<1>4. Seen(w, Heard) <=> Seen(Written(m), Heard)
  BY StartedSeen, VisibleFacts DEF ResponsesChat, Chat
<1>5. ResponsesToChatDelta(m, kind) = u  BY DEF ResponsesToChatDelta
<1> HIDE DEF p, w, e
<1>6. p \in Mem /\ p.open \subseteq {"tool"}  BY <1>2 DEF Chat, Sane
<1>7. /\ u \in Mem /\ u.wire = p.wire /\ u.held = p.held /\ u.gated = p.gated /\ u.begun = p.begun
      /\ u.next = p.next /\ u.tools = p.tools /\ u.open = p.open /\ (u.texted <=> p.texted \/ kind = "text")
  BY <1>6 DEF Mem
<1> HIDE DEF u
<1>8. Chat(u) /\ Written(u) = Append(w, e)  BY <1>2, <1>6, <1>7, ChatMarked
<1>9. Seen(Written(u), Heard) => Seen(Written(m), Heard) \/ kind = "text"
  BY <1>1, <1>3, <1>4, <1>8, SeenGrows
<1>10. p.texted = m.texted /\ p.tools = m.tools  BY <1>2 DEF Same
<1>11. Seen(Written(m), Heard) => m.texted \/ m.tools # <<>>  BY DEF ResponsesChat
<1>12. Seen(Written(u), Heard) => u.texted \/ u.tools # <<>>  BY <1>7, <1>9, <1>10, <1>11
<1> QED  BY <1>5, <1>8, <1>12 DEF ResponsesChat

\* A call of it, added once.
LEMMA ResponsesToChatCalls ==
    ASSUME NEW m, ResponsesChat(m), NEW c \in Int
    PROVE  LET u == ResponsesToChatCall(m, c) IN ResponsesChat(u) /\ HasTool(u, c)
<1>1. CASE HasTool(m, c)  BY <1>1 DEF ResponsesToChatCall
<1>2. CASE ~HasTool(m, c)
  <2> DEFINE u == StartCall(m, c)
  <2>1. Chat(m) /\ m.tools \in Seq(Tool) /\ m.next \in Nat  BY MemFacts DEF ResponsesChat, Chat, Sane
  <2>2. ResponsesToChatCall(m, c) = u  BY <1>2 DEF ResponsesToChatCall
  <2>3. Chat(u) /\ u.tools = Append(m.tools, NewTool(c, m.next))  BY <2>1, ChatStarts
  <2> HIDE DEF u
  <2>4. NewTool(c, m.next) \in Tool /\ NewTool(c, m.next).key = c  BY <2>1 DEF NewTool, Tool
  <2>5. /\ Len(m.tools) + 1 \in DOMAIN u.tools /\ u.tools[Len(m.tools) + 1] = NewTool(c, m.next)
        /\ u.tools # <<>>
    BY <2>1, <2>3, <2>4
  <2>6. HasTool(u, c)  BY <2>4, <2>5 DEF HasTool, ToolOf
  <2> QED  BY <2>2, <2>3, <2>5, <2>6 DEF ResponsesChat
<1> QED  BY <1>1, <1>2

\* The entry ToolAt finds is of that call.
LEMMA ToolAtFacts == ASSUME NEW m, NEW c, HasTool(m, c)
                     PROVE  ToolAt(m, c) \in DOMAIN m.tools /\ m.tools[ToolAt(m, c)].key = c
<1>1. ToolAt(m, c) \in ToolOf(m, c)  BY DEF HasTool, ToolAt
<1> QED  BY <1>1 DEF ToolOf

\* Arguments of a call that was added.
LEMMA ResponsesChatArgs ==
    ASSUME NEW m, ResponsesChat(m), NEW i \in DOMAIN m.tools, NEW n \in Int
    PROVE  ResponsesChat(CallArgs(m, i, n))
<1> DEFINE u == CallArgs(m, i, n)
<1>1. Chat(u) /\ DOMAIN u.tools = DOMAIN m.tools  BY ChatArgs DEF ResponsesChat
<1>2. i \in DOMAIN u.tools  BY <1>1
<1>3. u.tools # <<>>  BY <1>2
<1> QED  BY <1>1, <1>3 DEF ResponsesChat

\* A delta of them.
LEMMA ResponsesToChatArguments ==
    ASSUME NEW m, ResponsesChat(m), NEW c \in Int
    PROVE  ResponsesChat(ResponsesToChatArgs(m, c))
BY ToolAtFacts, ResponsesChatArgs DEF ResponsesToChatArgs

\* And the arguments repeated at the end, passed unless some were.
LEMMA ResponsesToChatDones ==
    ASSUME NEW m, ResponsesChat(m), NEW c \in Int, NEW all \in Int
    PROVE  ResponsesChat(ResponsesToChatDone(m, c, all))
<1> DEFINE u == ResponsesToChatCall(m, c)  i == ToolAt(u, c)
<1>1. ResponsesChat(u) /\ HasTool(u, c)  BY ResponsesToChatCalls
<1>2. i \in DOMAIN u.tools  BY <1>1, ToolAtFacts
<1>3. ResponsesChat(CallArgs(u, i, all))  BY <1>1, <1>2, ResponsesChatArgs
<1> QED  BY <1>1, <1>3 DEF ResponsesToChatDone

-----------------------------------------------------------------------------
\* To Gemini.
LEMMA ChatToGeminis ==
    ASSUME NEW m, Chat(m), NEW chunk, chunk.call \in Int, chunk.args \in Int
    PROVE  Chat(ChatToGemini(m, chunk)) /\ ChatToGemini(m, chunk).gated = m.gated
<1> DEFINE u == IF chunk.think THEN Say(m, "think") ELSE m
           v == IF chunk.text THEN Say(u, "text") ELSE u
           w == StartCall(v, chunk.call)
<1>1. "think" \in Kinds /\ "text" \in Kinds  BY DEF Kinds
<1>2. Chat(u) /\ u.gated = m.gated  BY <1>1, ChatSays
<1>3. Chat(v) /\ v.gated = m.gated
  <2> HIDE DEF u
  <2> QED  BY <1>1, <1>2, ChatSays
<1> HIDE DEF u, v
<1>4. Chat(w) /\ w.gated = m.gated /\ w.tools = Append(v.tools, NewTool(chunk.call, v.next))
  BY <1>1, <1>3, ChatStarts
<1>5. Len(w.tools) \in DOMAIN w.tools
  <2>1. v.tools \in Seq(Tool) /\ v.next \in Nat  BY <1>3, MemFacts DEF Chat, Sane
  <2>2. NewTool(chunk.call, v.next) \in Tool  BY <1>1, <2>1 DEF NewTool, Tool
  <2> QED  BY <1>4, <2>1, <2>2
<1> HIDE DEF w
<1>6. Chat(CallArgs(w, Len(w.tools), chunk.args)) /\ CallArgs(w, Len(w.tools), chunk.args).gated = w.gated
  BY <1>1, <1>4, <1>5, ChatArgs
<1>7. ChatToGemini(m, chunk) \in {v, CallArgs(w, Len(w.tools), chunk.args)}
  BY DEF ChatToGemini, u, v, w
<1> QED  BY <1>3, <1>4, <1>6, <1>7

-----------------------------------------------------------------------------
\* Claude.

\* An event is written and the rest of the memory set.
LEMMA BecameBy ==
    ASSUME NEW m \in Mem, Veiled(m), m.begun, NEW e \in Ev, NEW p, p = Put(m, <<e>>), NEW u \in Mem,
           u.wire = p.wire, u.held = p.held, u.gated = p.gated, u.begun = p.begun
    PROVE  Became(m, u, e) /\ u.gated = m.gated
<1>1. p \in Mem /\ Veiled(p) /\ p.gated = m.gated /\ p.begun = m.begun /\ Written(p) = Append(Written(m), e)
  BY PutOne
<1> QED  BY <1>1 DEF Became, Veiled, Written

\* The parts of it that depend on the last event.
LEMMA ClaudeGrows ==
    ASSUME NEW m, NEW chat, Claude(m, chat), NEW u, NEW e \in Ev, Became(m, u, e), Sane(u, TRUE),
           u.open \in {{}, {"text"}, {"think"}},
           chat => /\ e = Open(e.at, "think") => ~m.texted
                   /\ e = Open(e.at, "text") => u.texted
                   /\ m.texted => u.texted
                   /\ LiveTools(u) = DOMAIN u.tools
    PROVE  Claude(u, chat)
<1>1. Written(m) \in Seq(Ev) /\ Written(u) = Append(Written(m), e)  BY MemFacts DEF Claude, Sane, Became
<1>2. CASE ~chat  BY <1>2 DEF Claude
<1>3. CASE chat
  <2> DEFINE w == Written(m)
  <2>1. ThinkFirst(w) /\ (m.texted \/ NoText(w))  BY <1>3 DEF Claude
  <2>2. e = Open(e.at, "think") => NoText(w)  BY <1>3, <2>1
  <2>3. w \in Seq(Ev)  BY <1>1
  <2> HIDE DEF w
  <2>4. ThinkFirst(Append(w, e))  BY <2>1, <2>2, <2>3, ThinkFirstGrows
  <2>5. u.texted \/ NoText(Append(w, e))
    <3>1. CASE e = Open(e.at, "text") \/ m.texted  BY <1>3, <3>1
    <3>2. CASE ~(e = Open(e.at, "text") \/ m.texted)  BY <2>1, <2>3, <3>2, ThinkFirstGrows
    <3> QED  BY <3>1, <3>2
  <2> QED  BY <1>1, <1>3, <2>4, <2>5 DEF Claude, w
<1> QED  BY <1>2, <1>3

\* An event that opens no text or thinking block.
LEMMA ClaudeKeeps ==
    ASSUME NEW m, NEW chat, Claude(m, chat), NEW u, NEW e \in Ev, Became(m, u, e), Sane(u, TRUE),
           e.ev # "open", Same(m, u)
    PROVE  Claude(u, chat)
<1>1. e # Open(e.at, "think") /\ e # Open(e.at, "text")  BY DEF Open, Event
<1>2. u.open = m.open /\ u.texted = m.texted /\ LiveTools(u) = LiveTools(m) /\ u.tools = m.tools
  BY DEF Same, LiveTools
<1>3. u.open \in {{}, {"text"}, {"think"}} /\ (chat => LiveTools(u) = DOMAIN u.tools)
  BY <1>2 DEF Claude
<1> QED  BY <1>1, <1>2, <1>3, ClaudeGrows

\* message_start, once.
LEMMA ClaudeStarts ==
    ASSUME NEW m, NEW chat, Claude(m, chat)
    PROVE  LET u == Started(m) IN
           /\ Claude(u, chat) /\ u.begun /\ u.gated = m.gated /\ u.open = m.open
           /\ u.tools = m.tools /\ u.next = m.next /\ u.texted = m.texted
<1> DEFINE u == Started(m)
<1>1. Sane(u, TRUE) /\ u.begun /\ u.gated = m.gated /\ Same(m, u)
      /\ Written(u) = IF m.begun THEN Written(m) ELSE <<Begin>>
  BY SaneStarted DEF Claude
<1> HIDE DEF u
<1>2. u.open = m.open /\ u.tools = m.tools /\ u.next = m.next /\ u.texted = m.texted
  BY <1>1 DEF Same
<1>3. LiveTools(u) = LiveTools(m)  BY <1>2 DEF LiveTools
<1>4. ThinkFirst(<<Begin>>) /\ NoText(<<Begin>>)
  <2>1. \A i : Begin # Open(i, "text")  BY EventFacts DEF Begin, Open, Event
  <2> QED  BY <2>1 DEF ThinkFirst, NoText
<1>5. Claude(u, chat)  BY <1>1, <1>2, <1>3, <1>4 DEF Claude
<1> QED  BY <1>1, <1>2, <1>5 DEF u

\* A text or thinking block shuts.
LEMMA ClaudeCloses ==
    ASSUME NEW m, NEW chat, Claude(m, chat), m.begun, NEW kind \in {"text", "think"}
    PROVE  LET u == CloseBlock(m, kind) IN
           /\ Claude(u, chat) /\ u.begun /\ u.gated = m.gated /\ u.open = m.open \ {kind}
           /\ u.tools = m.tools /\ u.texted = m.texted
<1>1. CASE kind \notin m.open
  <2>1. CloseBlock(m, kind) = m /\ m.open = m.open \ {kind}  BY <1>1 DEF CloseBlock
  <2> QED  BY <2>1
<1>2. CASE kind \in m.open
  <2> DEFINE e == Shut(m.next)  p == Put(m, <<e>>)  u == CloseBlock(m, kind)
             o == m.open \ {kind}  n == m.next + 1
  <2>1. m \in Mem /\ Veiled(m) /\ Sane(m, TRUE) /\ m.next \in Nat /\ m.texted \in BOOLEAN
        /\ m.tools \in Seq(Tool) /\ m.open \in SUBSET Kinds
    BY MemFacts DEF Claude, Sane
  <2>2. e \in Ev /\ e.ev = "shut" /\ e.at = m.next  BY <2>1, EventFacts
  <2>3. p \in Mem /\ Same(m, p)  BY <2>1, <2>2, PutOne
  <2>4. u = [p EXCEPT !.open = o, !.next = n]  BY <1>2, <2>3 DEF CloseBlock, Same
  <2>5. o \in SUBSET Kinds /\ n \in Nat  BY <2>1
  <2>7. o = {} /\ Cur(m)  BY <1>2 DEF Claude, Cur
  <2> HIDE DEF e, p, u, o, n
  <2>8. /\ u \in Mem /\ u.wire = p.wire /\ u.held = p.held /\ u.gated = p.gated /\ u.begun = p.begun
        /\ u.next = n /\ u.open = o /\ u.texted = p.texted /\ u.tools = p.tools
    BY <2>3, <2>4, <2>5 DEF Mem
  <2>9. /\ Became(m, u, e) /\ u.gated = m.gated /\ u.next = n /\ u.open = o /\ u.texted = m.texted
        /\ u.tools = m.tools
    BY <2>1, <2>2, <2>3, <2>8, BecameBy DEF p, Same
  <2>10. ~Cur(u) /\ u.next = m.next + 1  BY <2>7, <2>9 DEF Cur, n
  <2>11. Sane(u, TRUE)  BY <2>1, <2>2, <2>7, <2>9, <2>10, SaneShutCur
  <2>12. e # Open(e.at, "think") /\ e # Open(e.at, "text")  BY <2>2 DEF Open, Event
  <2>13. u.open \in {{}, {"text"}, {"think"}}  BY <2>7, <2>9
  <2>14. LiveTools(u) = LiveTools(m) /\ DOMAIN u.tools = DOMAIN m.tools  BY <2>9 DEF LiveTools
  <2>15. chat => LiveTools(u) = DOMAIN u.tools  BY <2>14 DEF Claude
  <2>16. Claude(u, chat)  BY <2>2, <2>9, <2>11, <2>12, <2>13, <2>15, ClaudeGrows
  <2> QED  BY <2>9, <2>16 DEF u, o, Became
<1> QED  BY <1>1, <1>2

\* Both shut.
LEMMA ClaudeClosesBoth ==
    ASSUME NEW m, NEW chat, Claude(m, chat), m.begun
    PROVE  LET u == CloseBoth(m) IN
           /\ Claude(u, chat) /\ u.begun /\ u.gated = m.gated /\ u.open = {}
           /\ u.tools = m.tools /\ u.texted = m.texted
<1> DEFINE p == CloseBlock(m, "think")  u == CloseBlock(p, "text")
<1>1. /\ Claude(p, chat) /\ p.begun /\ p.gated = m.gated /\ p.open = m.open \ {"think"}
      /\ p.tools = m.tools /\ p.texted = m.texted
  BY ClaudeCloses
<1> HIDE DEF p
<1>2. /\ Claude(u, chat) /\ u.begun /\ u.gated = p.gated /\ u.open = p.open \ {"text"}
      /\ u.tools = p.tools /\ u.texted = p.texted
  BY <1>1, ClaudeCloses
<1>3. u = CloseBoth(m)  BY DEF CloseBoth, p
<1> HIDE DEF u
<1>4. (m.open \ {"think"}) \ {"text"} = {}
  <2>1. m.open \in {{}, {"text"}, {"think"}}  BY DEF Claude
  <2> QED  BY <2>1
<1> QED  BY <1>1, <1>2, <1>3, <1>4

\* A text or a thinking block opens.
LEMMA ClaudeOpens ==
    ASSUME NEW m, NEW chat, Claude(m, chat), NEW kind \in {"text", "think"},
           m.open = {}, chat /\ kind = "think" => ~m.texted,
           NEW u, Became(m, u, Open(m.next, kind)), u.open = {kind}, u.next = m.next, u.tools = m.tools,
           u.texted <=> m.texted \/ kind = "text"
    PROVE  Claude(u, chat)
<1> DEFINE e == Open(m.next, kind)
<1>1. Sane(m, TRUE) /\ m.next \in Nat /\ kind \in Kinds  BY MemFacts DEF Claude, Sane, Kinds
<1>3. e \in Ev /\ e.ev = "open" /\ e.at = m.next /\ e.kind = kind  BY <1>1, EventFacts
<1>5. Became(m, u, e)  OBVIOUS
<1> HIDE DEF e
<1>6. ~Cur(m) /\ Cur(u)  BY DEF Cur
<1>7. Sane(u, TRUE)  BY <1>1, <1>3, <1>5, <1>6, SaneOpenCur
<1>8. LiveTools(u) = LiveTools(m) /\ DOMAIN u.tools = DOMAIN m.tools  BY <1>5 DEF LiveTools
<1>9. chat => LiveTools(u) = DOMAIN u.tools  BY <1>8 DEF Claude
<1>10. (e = Open(e.at, "think") => kind = "think") /\ (e = Open(e.at, "text") => kind = "text")
  <2>1. \A i, k : Open(i, k).kind = k  BY DEF Open, Event
  <2> QED  BY <1>3, <2>1
<1>11. u.open \in {{}, {"text"}, {"think"}}  OBVIOUS
<1>12. chat => /\ e = Open(e.at, "think") => ~m.texted
               /\ e = Open(e.at, "text") => u.texted
               /\ m.texted => u.texted
               /\ LiveTools(u) = DOMAIN u.tools
  BY <1>9, <1>10
<1> QED  BY <1>3, <1>5, <1>7, <1>11, <1>12, ClaudeGrows

\* A block opens, the other one shuts.
LEMMA ClaudeStartsBlock ==
    ASSUME NEW m, NEW chat, Claude(m, chat), m.begun, NEW kind \in {"text", "think"},
           chat /\ kind = "think" => ~m.texted
    PROVE  LET u == StartBlock(m, kind) IN
           Claude(u, chat) /\ u.begun /\ u.gated = m.gated /\ u.open = {kind}
<1>1. CASE kind \in m.open
  <2>1. StartBlock(m, kind) = m  BY <1>1 DEF StartBlock
  <2>2. m.open = {kind}  BY <1>1 DEF Claude
  <2> QED  BY <2>1, <2>2
<1>2. CASE kind \notin m.open
  <2> DEFINE v == CloseBlock(m, Other(kind))  e == Open(v.next, kind)  p == Put(v, <<e>>)
             u == StartBlock(m, kind)  x == v.texted \/ kind = "text"
  <2>1. Other(kind) \in {"text", "think"} /\ m.open \ {Other(kind)} = {}
    BY <1>2 DEF Other, Claude
  <2>2. /\ Claude(v, chat) /\ v.begun /\ v.gated = m.gated /\ v.open = {} /\ v.texted = m.texted
    BY <2>1, ClaudeCloses
  <2>3. v \in Mem /\ Veiled(v) /\ v.next \in Nat /\ kind \in Kinds /\ v.texted \in BOOLEAN
    BY <2>2, MemFacts DEF Claude, Sane, Kinds
  <2>4. e \in Ev  BY <2>3, EventFacts
  <2> HIDE DEF v
  <2>5. p \in Mem /\ Same(v, p) /\ p.gated = v.gated  BY <2>3, <2>4, PutOne
  <2>6. u = [p EXCEPT !.open = {kind}, !.texted = x]  BY <1>2, <2>2, <2>5 DEF StartBlock, Same, v
  <2>7. {kind} \in SUBSET Kinds /\ x \in BOOLEAN  BY <2>3
  <2> HIDE DEF e, p, u, x
  <2>8. /\ u \in Mem /\ u.wire = p.wire /\ u.held = p.held /\ u.gated = p.gated /\ u.begun = p.begun
        /\ u.next = p.next /\ u.open = {kind} /\ u.texted = x /\ u.tools = p.tools
    BY <2>5, <2>6, <2>7 DEF Mem
  <2>9. Became(v, u, e) /\ u.gated = v.gated  BY <2>2, <2>3, <2>4, <2>8, BecameBy DEF p
  <2>10. u.next = v.next /\ u.tools = v.tools /\ (u.texted <=> v.texted \/ kind = "text")
    BY <2>5, <2>8 DEF Same, x
  <2>11. Claude(u, chat)  BY <2>2, <2>8, <2>9, <2>10, ClaudeOpens DEF e
  <2> QED  BY <2>2, <2>8, <2>9, <2>11 DEF u, Became
<1> QED  BY <1>1, <1>2

\* Text or thinking in a block of its own.
LEMMA ClaudeSays ==
    ASSUME NEW m, NEW chat, Claude(m, chat), m.begun, NEW kind \in {"text", "think"},
           chat /\ kind = "think" => ~m.texted
    PROVE  LET u == SayBlock(m, kind) IN Claude(u, chat) /\ u.begun /\ u.gated = m.gated
<1> DEFINE v == StartBlock(m, kind)  e == Piece(v.next, kind, 1)  u == SayBlock(m, kind)
<1>1. Claude(v, chat) /\ v.begun /\ v.gated = m.gated /\ v.open = {kind}  BY ClaudeStartsBlock
<1>2. v \in Mem /\ Veiled(v) /\ v.next \in Nat /\ kind \in Kinds /\ Sane(v, TRUE)
  BY <1>1, MemFacts DEF Claude, Sane, Kinds
<1>3. e \in Ev /\ e.ev = "piece" /\ e.at = v.next  BY <1>2, EventFacts
<1>4. u = Put(v, <<e>>)  BY DEF SayBlock
<1> HIDE DEF v, e, u
<1>5. Became(v, u, e) /\ Same(v, u) /\ u.gated = v.gated /\ u.begun  BY <1>1, <1>2, <1>3, <1>4, PutOne DEF Became
<1>6. v.next \in Blocks(v)  BY <1>1 DEF Blocks, Cur
<1>7. Sane(u, TRUE)  BY <1>2, <1>3, <1>5, <1>6, SanePiece
<1>8. Claude(u, chat)  BY <1>1, <1>3, <1>5, <1>7, ClaudeKeeps
<1> QED  BY <1>1, <1>5, <1>8 DEF u

\* Sealed reasoning opens a thinking block without a piece.
LEMMA ClaudeSeals ==
    ASSUME NEW m, Claude(m, FALSE) PROVE Claude(ResponsesToClaudeSealed(m), FALSE)
<1> DEFINE v == CloseBoth(Started(m))  e == Open(v.next, "think")  p == Put(v, <<e>>)
           u == ResponsesToClaudeSealed(m)  o == {"think"}
<1>1. Claude(v, FALSE) /\ v.begun /\ v.open = {}  BY ClaudeStarts, ClaudeClosesBoth
<1>2. v \in Mem /\ Veiled(v) /\ v.next \in Nat  BY <1>1, MemFacts DEF Claude, Sane
<1>3. e \in Ev /\ o \in SUBSET Kinds
  <2>1. "think" \in Kinds  BY DEF Kinds
  <2> QED  BY <1>2, <2>1, EventFacts
<1>4. u = [p EXCEPT !.open = @ \union {"think"}]  BY DEF ResponsesToClaudeSealed
<1> HIDE DEF v, e, u
<1>5. p \in Mem /\ Same(v, p)  BY <1>2, <1>3, PutOne
<1> HIDE DEF p
<1>6. u = [p EXCEPT !.open = o]  BY <1>1, <1>4, <1>5 DEF Same
<1> HIDE DEF o
<1>7. /\ u \in Mem /\ u.wire = p.wire /\ u.held = p.held /\ u.gated = p.gated /\ u.begun = p.begun
      /\ u.next = p.next /\ u.open = o /\ u.texted = p.texted /\ u.tools = p.tools
  BY <1>3, <1>5, <1>6 DEF Mem
<1>8. Became(v, u, e)  BY <1>1, <1>2, <1>3, <1>7, BecameBy DEF p
<1>9. u.next = v.next /\ u.tools = v.tools /\ u.open = {"think"} /\ (u.texted <=> v.texted \/ "think" = "text")
  BY <1>5, <1>7 DEF Same, o
<1>10. Claude(u, FALSE)  BY <1>1, <1>8, <1>9, ClaudeOpens DEF e
<1> QED  BY <1>10 DEF u

\* A call opens once the other blocks are shut.
LEMMA ClaudeStartsTool ==
    ASSUME NEW m, NEW chat, Claude(m, chat), m.begun, NEW c \in Int
    PROVE  LET u == StartTool(m, c) IN Claude(u, chat) /\ u.begun /\ u.gated = m.gated
<1>1. CASE \E i \in ToolOf(m, c) : m.tools[i].open
  <2>1. StartTool(m, c) = m  BY <1>1 DEF StartTool
  <2> QED  BY <2>1
<1>2. CASE ~\E i \in ToolOf(m, c) : m.tools[i].open
  <2> DEFINE v == CloseBoth(m)  e == OpenTool(v.next, c)  p == Put(v, <<e>>)  u == StartTool(m, c)
             n == v.next + 1  k == NewTool(c, v.next)  ts == Append(v.tools, k)
  <2>1. Claude(v, chat) /\ v.begun /\ v.gated = m.gated /\ v.open = {}  BY ClaudeClosesBoth
  <2>2. v \in Mem /\ Veiled(v) /\ v.next \in Nat /\ Sane(v, TRUE) /\ v.tools \in Seq(Tool)
    BY <2>1, MemFacts DEF Claude, Sane
  <2>3. e \in Ev /\ e.ev = "open" /\ e.at = v.next /\ e.kind = "tool"  BY <2>2, EventFacts
  <2>4. k \in Tool /\ k.open  BY <2>2 DEF NewTool, Tool
  <2> HIDE DEF k
  <2>5. n \in Nat /\ ts \in Seq(Tool)  BY <2>2, <2>4
  <2>6. p \in Mem /\ Same(v, p)  BY <2>2, <2>3, PutOne
  <2>7. u = [p EXCEPT !.next = n, !.tools = ts]  BY <1>2, <2>6 DEF StartTool, Same, k
  <2> HIDE DEF v, e, p, u, n, ts
  <2>8. /\ u \in Mem /\ u.wire = p.wire /\ u.held = p.held /\ u.gated = p.gated /\ u.begun = p.begun
        /\ u.next = n /\ u.open = p.open /\ u.texted = p.texted /\ u.tools = ts
    BY <2>5, <2>6, <2>7 DEF Mem
  <2>9. Became(v, u, e) /\ u.gated = v.gated  BY <2>1, <2>2, <2>3, <2>8, BecameBy DEF p
  <2>10. u.open = {} /\ u.texted = v.texted /\ u.next = v.next + 1 /\ u.tools = Append(v.tools, NewTool(c, v.next))
    BY <2>1, <2>6, <2>8 DEF Same, n, ts, k
  <2>11. ~Cur(v) /\ ~Cur(u)  BY <2>1, <2>10 DEF Cur
  <2>12. Sane(u, TRUE)  BY <2>2, <2>3, <2>9, <2>10, <2>11, SaneOpenTool
  <2>13. chat => LiveTools(u) = DOMAIN u.tools
    <3> SUFFICES ASSUME chat PROVE \A i \in DOMAIN u.tools : u.tools[i].open  BY DEF LiveTools
    <3>1. \A i \in DOMAIN v.tools : v.tools[i].open  BY <2>1 DEF Claude, LiveTools
    <3> DEFINE l == v.tools
    <3>2. l \in Seq(Tool) /\ \A i \in DOMAIN l : l[i].open  BY <2>2, <3>1
    <3>3. u.tools = Append(l, k)  BY <2>8 DEF ts
    <3> HIDE DEF l
    <3>4. \A i \in DOMAIN Append(l, k) : Append(l, k)[i] = k \/ (i \in DOMAIN l /\ Append(l, k)[i] = l[i])
      BY <2>4, <3>2
    <3> QED  BY <2>4, <3>2, <3>3, <3>4
  <2>14. e # Open(e.at, "think") /\ e # Open(e.at, "text")  BY <2>3 DEF Open, Event
  <2>15. u.open \in {{}, {"text"}, {"think"}}  BY <2>10
  <2>16. chat => /\ e = Open(e.at, "think") => ~v.texted
                 /\ e = Open(e.at, "text") => u.texted
                 /\ v.texted => u.texted
                 /\ LiveTools(u) = DOMAIN u.tools
    BY <2>10, <2>13, <2>14
  <2>17. Claude(u, chat)  BY <2>1, <2>3, <2>9, <2>12, <2>15, <2>16, ClaudeGrows
  <2> QED  BY <2>1, <2>9, <2>17 DEF u, Became
<1> QED  BY <1>1, <1>2

\* What was passed of the arguments is only remembered.
LEMMA ClaudeSent ==
    ASSUME NEW m, NEW chat, Claude(m, chat), NEW i \in DOMAIN m.tools, NEW n \in Int,
           NEW u, u = SentTo(m, i, n)
    PROVE  Claude(u, chat) /\ u.begun = m.begun /\ u.gated = m.gated
<1>1. Sane(u, TRUE) /\ m \in Mem
  <2>1. Sane(m, TRUE) /\ m \in Mem  BY DEF Claude, Sane
  <2>2. Sane(u, TRUE)  BY <2>1, SaneSent
  <2> QED  BY <2>1, <2>2
<1>2. u = [m EXCEPT !.tools = [m.tools EXCEPT ![i].sent = n]]  BY DEF SentTo
<1>3. /\ u.wire = m.wire /\ u.held = m.held /\ u.gated = m.gated /\ u.begun = m.begun
      /\ u.open = m.open /\ u.texted = m.texted /\ u.tools = [m.tools EXCEPT ![i].sent = n]
  BY <1>1, <1>2 DEF Mem
<1>4. LiveTools(u) = LiveTools(m) /\ DOMAIN u.tools = DOMAIN m.tools
  <2>1. DOMAIN u.tools = DOMAIN m.tools  BY <1>3
  <2>2. \A j \in DOMAIN m.tools : u.tools[j] = IF j = i THEN [m.tools[i] EXCEPT !.sent = n] ELSE m.tools[j]
    BY <1>3
  <2>3. m.tools[i] \in Tool  BY <1>1, MemFacts
  <2>4. [m.tools[i] EXCEPT !.sent = n].open = m.tools[i].open  BY <2>3 DEF Tool
  <2> QED  BY <2>1, <2>2, <2>4 DEF LiveTools
<1>5. Written(u) = Written(m)  BY <1>3 DEF Written
<1> QED  BY <1>1, <1>3, <1>4, <1>5 DEF Claude

\* It carries arguments while it is open.
LEMMA ClaudeArgs ==
    ASSUME NEW m, NEW chat, Claude(m, chat), NEW c, NEW n \in Int
    PROVE  LET u == ToolArgs(m, c, n) IN Claude(u, chat) /\ u.begun = m.begun /\ u.gated = m.gated
<1> DEFINE u == ToolArgs(m, c, n)  i == ToolAt(m, c)
<1>1. CASE n = 0 \/ ~HasTool(m, c)
  <2>1. u = m  BY <1>1 DEF ToolArgs
  <2> QED  BY <2>1
<1>2. CASE ~(n = 0 \/ ~HasTool(m, c))
  <2>1. i \in DOMAIN m.tools  BY <1>2, ToolAtFacts
  <2> DEFINE e == Piece(m.tools[i].at, "tool", n)
             p == IF m.tools[i].open THEN Put(m, <<e>>) ELSE m
             k == p.tools[i].sent + n
  <2>2. m \in Mem /\ Veiled(m) /\ Sane(m, TRUE) /\ m.tools[i] \in Tool  BY <2>1, MemFacts DEF Claude, Sane
  <2>3. e \in Ev /\ e.ev = "piece" /\ e.at = m.tools[i].at
    <3>1. m.tools[i].at \in Int /\ "tool" \in Kinds  BY <2>2 DEF Tool, Kinds
    <3> QED  BY <3>1, EventFacts
  <2>4. u = SentTo(p, i, k)  BY <1>2 DEF ToolArgs, SentTo
  <2> HIDE DEF i, e
  <2>5. Claude(p, chat) /\ p.begun = m.begun /\ p.gated = m.gated /\ p.tools = m.tools
    <3>1. CASE ~m.tools[i].open  BY <3>1
    <3>2. CASE m.tools[i].open
      <4> DEFINE q == Put(m, <<e>>)
      <4>1. i \in LiveTools(m)  BY <2>1, <3>2 DEF LiveTools
      <4>2. m.tools[i].at \in Blocks(m)  BY <4>1 DEF Blocks
      <4>3. m.begun  BY <2>2, <4>2, LiveBegan
      <4>4. /\ Became(m, q, e) /\ Same(m, q) /\ q.gated = m.gated /\ q.begun = m.begun
        BY <2>2, <2>3, <4>3, PutOne
      <4> HIDE DEF q
      <4>5. Sane(q, TRUE)  BY <2>2, <2>3, <4>2, <4>4, SanePiece
      <4>6. Claude(q, chat)  BY <2>3, <4>4, <4>5, ClaudeKeeps
      <4>7. p = q  BY <3>2 DEF q
      <4> HIDE DEF p
      <4> QED  BY <4>4, <4>6, <4>7 DEF Same
    <3> QED  BY <3>1, <3>2
  <2> HIDE DEF p, u
  <2>6. k \in Int /\ i \in DOMAIN p.tools  BY <2>1, <2>2, <2>5 DEF Tool
  <2> HIDE DEF k
  <2>7. Claude(u, chat) /\ u.begun = p.begun /\ u.gated = p.gated  BY <2>4, <2>5, <2>6, ClaudeSent
  <2> QED  BY <2>5, <2>7 DEF u
<1> QED  BY <1>1, <1>2

\* One chunk from Chat.
LEMMA ChatToClaudeSteps ==
    ASSUME NEW m, Claude(m, TRUE), NEW chunk, chunk.call \in Int, chunk.args \in Int
    PROVE  LET u == ChatToClaude(m, chunk) IN Claude(u, TRUE) /\ u.gated = m.gated
<1> DEFINE s == Started(m)
           v == IF chunk.think /\ ~s.texted THEN SayBlock(s, "think") ELSE s
           w == StartTool(v, chunk.call)
           x == ToolArgs(w, chunk.call, chunk.args)
           y == SayBlock(v, "text")
<1>1. Claude(s, TRUE) /\ s.begun /\ s.gated = m.gated  BY ClaudeStarts
<1>2. ChatToClaude(m, chunk) = IF chunk.call # 0 THEN x ELSE IF chunk.text THEN y ELSE v
  BY DEF ChatToClaude
<1> HIDE DEF s
<1>3. Claude(v, TRUE) /\ v.begun /\ v.gated = m.gated
  <2>1. CASE chunk.think /\ ~s.texted  BY <1>1, <2>1, ClaudeSays
  <2>2. CASE ~(chunk.think /\ ~s.texted)  BY <1>1, <2>2
  <2> QED  BY <2>1, <2>2
<1> HIDE DEF v
<1>4. Claude(w, TRUE) /\ w.gated = m.gated  BY <1>3, ClaudeStartsTool
<1> HIDE DEF w
<1>5. Claude(x, TRUE) /\ x.gated = m.gated  BY <1>4, ClaudeArgs
<1>6. Claude(y, TRUE) /\ y.gated = m.gated
  <2>1. "text" \in {"text", "think"} /\ "text" # "think"  OBVIOUS
  <2> QED  BY <1>3, <2>1, ClaudeSays
<1> HIDE DEF x, y
<1> QED  BY <1>2, <1>3, <1>5, <1>6

\* One event from Responses.
LEMMA ResponsesToClaudeSteps ==
    ASSUME NEW m, Claude(m, FALSE)
    PROVE  /\ \A kind \in {"text", "think"} : Claude(ResponsesToClaudeDelta(m, kind), FALSE)
           /\ Claude(ResponsesToClaudeSealed(m), FALSE)
           /\ \A c \in Int : /\ Claude(ResponsesToClaudeCall(m, c), FALSE)
                             /\ Claude(ResponsesToClaudeArgs(m, c), FALSE)
<1> DEFINE s == Started(m)
<1>1. Claude(s, FALSE) /\ s.begun  BY ClaudeStarts
<1>2. ASSUME NEW kind \in {"text", "think"} PROVE Claude(ResponsesToClaudeDelta(m, kind), FALSE)
  <2>1. ResponsesToClaudeDelta(m, kind) = SayBlock(s, kind)  BY DEF ResponsesToClaudeDelta
  <2> HIDE DEF s
  <2>2. Claude(SayBlock(s, kind), FALSE)  BY <1>1, ClaudeSays
  <2> QED  BY <2>1, <2>2
<1>3. ASSUME NEW c \in Int
      PROVE Claude(ResponsesToClaudeCall(m, c), FALSE) /\ Claude(ResponsesToClaudeArgs(m, c), FALSE)
  <2>1. ResponsesToClaudeCall(m, c) = StartTool(s, c)  BY DEF ResponsesToClaudeCall
  <2> HIDE DEF s
  <2>2. Claude(StartTool(s, c), FALSE)  BY <1>1, ClaudeStartsTool
  <2>3. 1 \in Int  OBVIOUS
  <2>4. Claude(ResponsesToClaudeArgs(m, c), FALSE)  BY <2>3, ClaudeArgs DEF ResponsesToClaudeArgs
  <2> QED  BY <2>1, <2>2, <2>4
<1> QED  BY <1>2, <1>3, ClaudeSeals

\* arguments.done passes what the deltas left out.
LEMMA ResponsesToClaudeSaids ==
    ASSUME NEW m, Claude(m, FALSE), NEW c, NEW all \in Int
    PROVE  Claude(ResponsesToClaudeSaid(m, c, all), FALSE)
<1>1. CASE ~HasTool(m, c)  BY <1>1 DEF ResponsesToClaudeSaid
<1>2. CASE HasTool(m, c)
  <2> DEFINE n == all - m.tools[ToolAt(m, c)].sent
  <2>1. m.tools[ToolAt(m, c)] \in Tool  BY <1>2, ToolAtFacts, MemFacts DEF Claude, Sane
  <2>2. n \in Int  BY <2>1 DEF Tool
  <2>3. ResponsesToClaudeSaid(m, c, all) = ToolArgs(m, c, n)  BY <1>2 DEF ResponsesToClaudeSaid
  <2> HIDE DEF n
  <2> QED  BY <2>2, <2>3, ClaudeArgs
<1> QED  BY <1>1, <1>2

\* item.done does, and shuts the call.
LEMMA ResponsesToClaudeDones ==
    ASSUME NEW m, Claude(m, FALSE), NEW c, NEW all \in Int
    PROVE  Claude(ResponsesToClaudeDone(m, c, all), FALSE)
<1> DEFINE v == ResponsesToClaudeSaid(m, c, all)  i == ToolAt(v, c)
<1>1. Claude(v, FALSE)  BY ResponsesToClaudeSaids
<1>2. ResponsesToClaudeDone(m, c, all) = IF HasTool(v, c) /\ v.tools[i].open THEN ShutTool(v, i) ELSE v
  BY DEF ResponsesToClaudeDone
<1> HIDE DEF v
<1>3. CASE HasTool(v, c) /\ v.tools[i].open
  <2>1. i \in LiveTools(v)  BY <1>3, ToolAtFacts DEF LiveTools
  <2>2. Sane(v, TRUE) /\ v.begun
    <3>1. Blocks(v) # {}  BY <2>1 DEF Blocks
    <3> QED  BY <1>1, <3>1, LiveBegan DEF Claude
  <2> HIDE DEF i
  <2>3. Sane(ShutTool(v, i), TRUE) /\ ShutTool(v, i).open = v.open  BY <2>1, <2>2, SaneShutTool
  <2>4. Claude(ShutTool(v, i), FALSE)  BY <1>1, <2>3 DEF Claude
  <2> QED  BY <1>2, <1>3, <2>4 DEF i
<1>4. CASE ~(HasTool(v, c) /\ v.tools[i].open)  BY <1>1, <1>2, <1>4
<1> QED  BY <1>3, <1>4

-----------------------------------------------------------------------------
\* The ends of a Claude answer.

\* What is left of the order of blocks when a tool block has shut before them.
LEMMA ThinkCloses ==
    ASSUME NEW m, Claude(m, FALSE), m.begun, ThinkFirst(Written(m)), NEW kind \in {"text", "think"}
    PROVE  ThinkFirst(Written(CloseBlock(m, kind)))
<1> DEFINE e == Shut(m.next)  p == Put(m, <<e>>)  u == CloseBlock(m, kind)
<1>1. CASE kind \notin m.open  BY <1>1 DEF CloseBlock
<1>2. CASE kind \in m.open
  <2>1. m \in Mem /\ Veiled(m) /\ m.next \in Nat /\ Written(m) \in Seq(Ev)  BY MemFacts DEF Claude, Sane
  <2>2. e \in Ev /\ e # Open(e.at, "think")
    <3>1. e \in Ev /\ e.ev = "shut"  BY <2>1, EventFacts
    <3> QED  BY <3>1 DEF Open, Event
  <2>3. u = [p EXCEPT !.open = @ \ {kind}, !.next = @ + 1]  BY <1>2 DEF CloseBlock
  <2> HIDE DEF e, u
  <2>4. p \in Mem /\ Written(p) = Append(Written(m), e)  BY <2>1, <2>2, PutOne
  <2> HIDE DEF p
  <2>5. u.wire = p.wire /\ u.held = p.held /\ u.gated = p.gated  BY <2>3, <2>4 DEF Mem
  <2>6. Written(u) = Append(Written(m), e)  BY <2>4, <2>5 DEF Written
  <2>7. ThinkFirst(Written(u))  BY <2>1, <2>2, <2>6, ThinkFirstGrows
  <2> QED  BY <2>7 DEF u
<1> QED  BY <1>1, <1>2

\* Shutting both blocks opens no thinking.
LEMMA ThinkClosesBoth ==
    ASSUME NEW m, Claude(m, FALSE), m.begun, ThinkFirst(Written(m))
    PROVE  ThinkFirst(Written(CloseBoth(m)))
<1> DEFINE v == CloseBlock(m, "think")
<1>1. Claude(v, FALSE) /\ v.begun /\ ThinkFirst(Written(v))
  <2>1. "think" \in {"text", "think"}  OBVIOUS
  <2> QED  BY <2>1, ClaudeCloses, ThinkCloses
<1>2. CloseBoth(m) = CloseBlock(v, "text")  BY DEF CloseBoth
<1> HIDE DEF v
<1> QED
  <2>1. "text" \in {"text", "think"}  OBVIOUS
  <2> QED  BY <1>1, <1>2, <2>1, ThinkCloses

\* What a Claude stream is after its end.
ClaudeOver(m, u, chat) ==
    Fine(u, TRUE) /\ u.gated = m.gated /\ (chat => ThinkFirst(Written(u)))

\* The end of a Claude answer, in whatever order the calls are shut.
LEMMA ClaudeFinishes ==
    ASSUME NEW m, NEW chat, Claude(m, chat), NEW order, Listing(m, order)
    PROVE  ClaudeOver(m, ClaudeFinish(m, order).t, chat)
<1>1. CASE ~m.begun
  <2>1. ClaudeFinish(m, order).t = m  BY <1>1 DEF ClaudeFinish, Ended
  <2>2. Fine(m, TRUE)
    <3>1. Sane(m, TRUE)  BY DEF Claude
    <3> QED  BY <3>1, SaneIsFine
  <2> QED  BY <2>1, <2>2 DEF ClaudeOver, Claude
<1>2. CASE m.begun
  <2> DEFINE v == CloseBoth(m)  w == ShutTools(v, order)  u == Put(w, <<Whole>>)
  <2>1. Claude(v, chat) /\ v.gated = m.gated /\ v.tools = m.tools  BY <1>2, ClaudeClosesBoth
  <2>2. ClaudeFinish(m, order).t = u  BY <1>2 DEF ClaudeFinish, Ended
  <2> HIDE DEF v
  <2>3. Listing(v, order)  BY <2>1 DEF Listing, LiveTools
  <2>4. Sane(v, TRUE) /\ (chat => ThinkFirst(Written(v)))  BY <2>1 DEF Claude
  <2>5. Sane(w, TRUE) /\ w.gated = v.gated /\ (chat => ThinkFirst(Written(w)))  BY <2>3, <2>4, SaneShutTools
  <2> HIDE DEF w
  <2>6. Fine(w, TRUE)  BY <2>5, SaneIsFine
  <2>7. Whole \in Closing  BY DEF Closing
  <2>8. Fine(u, TRUE) /\ u.gated = w.gated /\ (chat => ThinkFirst(Written(u)))
    BY <2>5, <2>6, <2>7, FineCloses
  <2> QED  BY <2>1, <2>2, <2>5, <2>8 DEF ClaudeOver
<1> QED  BY <1>1, <1>2

\* Of nothing nothing was read.
LEMMA NothingHeard == Told(<<>>) /\ \A S : ~Seen(<<>>, S)
BY DEF Told, Seen

\* An error event tells the cut.
LEMMA FailSays ==
    ASSUME NEW w \in Seq(Ev)
    PROVE  Says(Append(w, Fail), "fail") /\ Told(Append(w, Fail)) /\ Told(Append(Append(w, Fail), Over))
<1>1. Fail \in Ev /\ Over \in Ev /\ Fail.ev = "fail"  BY EventFacts
<1> DEFINE v == Append(w, Fail)
<1>2. v \in Seq(Ev) /\ Len(w) \in Nat /\ DOMAIN v = 1 .. Len(w) + 1 /\ v[Len(w) + 1] = Fail
  BY <1>1, AppendFacts
<1>3. Says(v, "fail")
  <2>1. Len(w) + 1 \in DOMAIN v  BY <1>2
  <2> QED  BY <1>1, <1>2, <2>1 DEF Says
<1> HIDE DEF v
<1>4. Says(Append(v, Over), "fail")
  <2>1. PICK i \in DOMAIN v : v[i].ev = "fail"  BY <1>3 DEF Says
  <2>2. i \in DOMAIN Append(v, Over) /\ Append(v, Over)[i] = v[i]  BY <1>1, <1>2, <2>1, AppendFacts
  <2> QED  BY <2>1, <2>2 DEF Says
<1> QED  BY <1>3, <1>4 DEF Told, v

\* A Claude answer cut short.
LEMMA ClaudeCuts ==
    ASSUME NEW m, NEW chat, Claude(m, chat), NEW order, Listing(m, order)
    PROVE  LET u == ClaudeCut(m, order).t IN ClaudeOver(m, u, chat) /\ Told(Written(u))
<1>1. Sane(m, TRUE) /\ m \in Mem  BY DEF Claude, Sane
<1>2. CASE ~m.begun
  <2>1. ClaudeCut(m, order).t = m  BY <1>2 DEF ClaudeCut, Ended
  <2>2. Fine(m, TRUE)  BY <1>1, SaneIsFine
  <2>3. Written(m) = <<>>  BY <1>2 DEF Claude, Sane
  <2> QED  BY <2>1, <2>2, <2>3, NothingHeard DEF ClaudeOver, Claude
<1>3. CASE m.begun
  <2> DEFINE v == ShutTools(m, order)  w == CloseBoth(v)  u == Put(w, <<Fail, Over>>)
  <2>1. ClaudeCut(m, order).t = u  BY <1>3 DEF ClaudeCut, Ended
  <2>2. /\ Sane(v, TRUE) /\ v.begun /\ v.gated = m.gated /\ v.open = m.open
        /\ chat => ThinkFirst(Written(v))
    <3>1. chat => ThinkFirst(Written(m))  BY DEF Claude
    <3> QED  BY <1>1, <1>3, <3>1, SaneShutTools
  <2> HIDE DEF v
  <2>3. Claude(v, FALSE)  BY <2>2 DEF Claude
  <2>4. Claude(w, FALSE) /\ w.gated = v.gated /\ (chat => ThinkFirst(Written(w)))
    BY <2>2, <2>3, ClaudeClosesBoth, ThinkClosesBoth
  <2> HIDE DEF w
  <2>5. Fine(w, TRUE) /\ Written(w) \in Seq(Ev)
    <3>1. Sane(w, TRUE) /\ w \in Mem  BY <2>4 DEF Claude, Sane
    <3> QED  BY <3>1, SaneIsFine, MemFacts
  <2>6. /\ Fine(u, TRUE) /\ u.gated = w.gated /\ (chat => ThinkFirst(Written(u)))
        /\ Written(u) = Append(Append(Written(w), Fail), Over)
    BY <2>4, <2>5, FineCut
  <2>7. Told(Written(u))  BY <2>5, <2>6, FailSays
  <2> QED  BY <2>1, <2>2, <2>4, <2>6, <2>7 DEF ClaudeOver
<1> QED  BY <1>2, <1>3

\* A Claude answer that is refused.
LEMMA ClaudeErrors ==
    ASSUME NEW m, NEW chat, Claude(m, chat)
    PROVE  /\ ClaudeOver(m, ChatToClaudeError(m).t, chat)
           /\ ClaudeOver(m, ResponsesToClaudeError(m).t, chat)
           /\ ClaudeOver(m, m, chat)
<1>1. ASSUME NEW v, Claude(v, chat), v.gated = m.gated
      PROVE  ClaudeOver(m, v, chat) /\ ClaudeOver(m, Put(v, <<Fail>>), chat)
  <2>1. Fine(v, TRUE) /\ (chat => ThinkFirst(Written(v)))
    <3>1. Sane(v, TRUE) /\ (chat => ThinkFirst(Written(v)))  BY <1>1 DEF Claude
    <3> QED  BY <3>1, SaneIsFine
  <2>2. Fail \in Closing  BY DEF Closing
  <2> DEFINE u == Put(v, <<Fail>>)
  <2>3. Fine(u, TRUE) /\ u.gated = v.gated /\ (chat => ThinkFirst(Written(u)))  BY <2>1, <2>2, FineCloses
  <2> HIDE DEF u
  <2>4. ClaudeOver(m, u, chat)  BY <1>1, <2>3 DEF ClaudeOver
  <2> QED  BY <1>1, <2>1, <2>4 DEF ClaudeOver, u
<1>2. Claude(Started(m), chat) /\ Started(m).gated = m.gated  BY ClaudeStarts
<1>3. /\ ChatToClaudeError(m).t = Put(m, <<Fail>>)
      /\ ResponsesToClaudeError(m).t = Put(Started(m), <<Fail>>)
  BY DEF ChatToClaudeError, ResponsesToClaudeError, Ended
<1> QED  BY <1>1, <1>2, <1>3

-----------------------------------------------------------------------------
\* Responses, from Claude: behind the gate.

\* Once the gate is open nothing is held.
LEMMA HeldStays ==
    ASSUME NEW m \in Mem, ~m.gated
    PROVE  /\ \A s : Put(m, s).held = m.held
           /\ Started(m).held = m.held
           /\ \A i : ShutTool(m, i).held = m.held
           /\ \A order : ShutTools(m, order).held = m.held
<1>1. ASSUME NEW s PROVE Put(m, s).held = m.held /\ DOMAIN Put(m, s) = DOMAIN m
  <2> DEFINE h == m.wire \o s
  <2>1. Put(m, s) = [m EXCEPT !.wire = h]  BY DEF Put
  <2> HIDE DEF h
  <2> QED  BY <2>1 DEF Mem
<1>2. "held" \in DOMAIN m  BY DEF Mem
<1>3. Started(m).held = m.held
  <2> DEFINE p == Put(m, <<Begin>>)
  <2>1. p.held = m.held /\ "held" \in DOMAIN p  BY <1>1, <1>2
  <2>2. Started(m) = IF m.begun THEN m ELSE [p EXCEPT !.begun = TRUE]  BY DEF Started
  <2> HIDE DEF p
  <2> QED  BY <2>1, <2>2
<1>4. ASSUME NEW i PROVE ShutTool(m, i).held = m.held
  <2> DEFINE p == Put(m, <<Shut(m.tools[i].at)>>)
  <2>1. p.held = m.held /\ "held" \in DOMAIN p  BY <1>1, <1>2
  <2>2. ShutTool(m, i) = [p EXCEPT !.tools[i].open = FALSE]  BY DEF ShutTool
  <2> HIDE DEF p
  <2> QED  BY <2>1, <2>2
<1>5. ASSUME NEW order PROVE ShutTools(m, order).held = m.held
  <2> DEFINE p == Put(m, [i \in DOMAIN order |-> Shut(m.tools[order[i]].at)])
             ts == [i \in DOMAIN p.tools |-> [p.tools[i] EXCEPT !.open = FALSE]]
  <2>1. p.held = m.held /\ "held" \in DOMAIN p  BY <1>1, <1>2
  <2>2. ShutTools(m, order) = [p EXCEPT !.tools = ts]  BY DEF ShutTools
  <2> HIDE DEF p, ts
  <2> QED  BY <2>1, <2>2
<1> QED  BY <1>1, <1>3, <1>4, <1>5

\* response.created, once.
LEMMA GatedStarts ==
    ASSUME NEW m, Gated(m)
    PROVE  Gated(Started(m)) /\ Started(m).begun /\ Started(m).gated = m.gated /\ Same(m, Started(m))
<1> DEFINE u == Started(m)
<1>1. Sane(m, TRUE) /\ m \in Mem  BY DEF Gated, Lidded, Sane
<1>2. Sane(u, TRUE) /\ u.begun /\ Same(m, u) /\ u.gated = m.gated  BY <1>1, SaneStarted
<1>3. Seen(Written(u), Visible) <=> Seen(Written(m), Visible)  BY <1>1, StartedSeen, VisibleFacts
<1>4. ~m.gated => u.held = m.held  BY <1>1, HeldStays
<1> HIDE DEF u
<1>5. u.open = m.open  BY <1>2 DEF Same
<1>6. Gated(u)  BY <1>2, <1>3, <1>4, <1>5 DEF Gated, Lidded
<1> QED  BY <1>2, <1>6 DEF u

\* The gate opens: what was held is what was written.
LEMMA LiddedOpens ==
    ASSUME NEW m, Lidded(m)
    PROVE  LET u == Unveil(m) IN Lidded(u) /\ ~u.gated /\ u.begun = m.begun /\ Same(m, u)
<1>1. Sane(m, TRUE) /\ m \in Mem  BY DEF Lidded, Sane
<1>2. CASE m.gated
  <2> DEFINE u == Unveil(m)
  <2>1. Sane(u, TRUE) /\ ~u.gated /\ u.begun = m.begun /\ Same(m, u)  BY <1>1, <1>2, SaneUnveil
  <2>2. u.held = <<>>
    <3> DEFINE h == m.wire \o m.held
    <3>1. u = [m EXCEPT !.gated = FALSE, !.wire = h, !.held = <<>>]  BY DEF Unveil
    <3> HIDE DEF u, h
    <3> QED  BY <1>1, <3>1 DEF Mem
  <2> HIDE DEF u
  <2>3. Lidded(u)  BY <2>1, <2>2 DEF Lidded, Same
  <2> QED  BY <2>1, <2>3 DEF u
<1>3. CASE ~m.gated
  <2>1. m.held = <<>> /\ m.wire \in Seq(Ev)  BY <1>1, <1>3 DEF Lidded, Mem
  <2>2. m.wire \o m.held = m.wire  BY <2>1
  <2>3. Unveil(m) = [m EXCEPT !.gated = FALSE, !.wire = m.wire, !.held = <<>>]  BY <2>2 DEF Unveil
  <2>4. Unveil(m) = m  BY <1>1, <1>3, <2>1, <2>3 DEF Mem
  <2> QED  BY <1>3, <2>4 DEF Same
<1> QED  BY <1>2, <1>3

\* An item opens, and the gate with it unless it is thinking.
LEMMA ClaudeToResponsesStarts ==
    ASSUME NEW m, Gated(m), NEW index \in Int, NEW kind \in Kinds, NEW c, kind = "tool" => c \in Int
    PROVE  Gated(ClaudeToResponsesStart(m, index, kind, c))
<1> DEFINE s == Started(m)  v == IF kind = "think" THEN s ELSE Unveil(s)
           e == IF kind = "tool" THEN OpenTool(v.next, c) ELSE Open(v.next, kind)
           p == Put(v, <<e>>)  n == v.next + 1  k == NewTool(index, v.next)
           ts == Append(v.tools, k)  u == ClaudeToResponsesStart(m, index, kind, c)
<1>1. Gated(s) /\ s.begun  BY GatedStarts
<1>2. Lidded(v) /\ v.begun /\ (kind # "think" => ~v.gated) /\ (kind = "think" => Gated(v))
  <2>1. CASE kind = "think"  BY <1>1, <2>1 DEF Gated
  <2>2. CASE kind # "think"
    <3> HIDE DEF s
    <3> QED  BY <1>1, <2>2, LiddedOpens DEF Gated
  <2> QED  BY <2>1, <2>2
<1>3. u = [p EXCEPT !.next = @ + 1, !.tools = Append(@, NewTool(index, v.next))]
  BY DEF ClaudeToResponsesStart
<1> HIDE DEF s, v
<1>4. v \in Mem /\ Veiled(v) /\ v.next \in Nat /\ Sane(v, TRUE) /\ v.tools \in Seq(Tool) /\ v.open = {}
  BY <1>2, MemFacts DEF Lidded, Sane
<1>5. e \in Ev /\ e.ev = "open" /\ e.at = v.next  BY <1>4, EventFacts
<1>6. kind # "think" => e \in Visible
  <2>1. kind # "think" /\ kind # "tool" => Open(v.next, kind) \in Visible  BY <1>4, VisibleFacts
  <2>2. kind = "tool" => OpenTool(v.next, c) \in Visible  BY <1>4, VisibleFacts
  <2> QED  BY <2>1, <2>2
<1>7. k \in Tool  BY <1>4 DEF NewTool, Tool
<1> HIDE DEF k
<1>8. n \in Nat /\ ts \in Seq(Tool)  BY <1>4, <1>7
<1> HIDE DEF e
<1>9. p \in Mem /\ Same(v, p)  BY <1>4, <1>5, PutOne
<1>10. ~v.gated => p.held = v.held  BY <1>4, HeldStays
<1>11. u = [p EXCEPT !.next = n, !.tools = ts]  BY <1>3, <1>9 DEF Same, k
<1> HIDE DEF p, u, n, ts
<1>12. /\ u \in Mem /\ u.wire = p.wire /\ u.held = p.held /\ u.gated = p.gated /\ u.begun = p.begun
       /\ u.next = n /\ u.open = p.open /\ u.texted = p.texted /\ u.tools = ts
  BY <1>8, <1>9, <1>11 DEF Mem
<1>13. Became(v, u, e) /\ u.gated = v.gated  BY <1>2, <1>4, <1>5, <1>12, BecameBy DEF p
<1>14. u.open = {} /\ u.next = v.next + 1 /\ u.tools = Append(v.tools, NewTool(index, v.next))
  BY <1>4, <1>9, <1>12 DEF Same, n, ts, k
<1>15. ~Cur(v) /\ ~Cur(u)  BY <1>4, <1>14 DEF Cur
<1>16. Sane(u, TRUE)  BY <1>4, <1>5, <1>13, <1>14, <1>15, SaneOpenTool
<1>17. Lidded(u)  BY <1>2, <1>10, <1>12, <1>13, <1>14, <1>16 DEF Lidded
<1>18. ~u.gated => Seen(Written(u), Visible)
  <2>1. ~u.gated => e \in Visible \/ Seen(Written(v), Visible)  BY <1>2, <1>6, <1>13 DEF Gated
  <2>2. Written(u) = Append(Written(v), e) /\ Written(v) \in Seq(Ev)  BY <1>4, <1>13, MemFacts DEF Became
  <2> QED  BY <1>5, <2>1, <2>2, SeenGrows
<1> QED  BY <1>17, <1>18 DEF Gated, u

\* An event that belongs to an open block.
LEMMA GatedGrows ==
    ASSUME NEW m, Gated(m), NEW u, NEW e \in Ev, Became(m, u, e), Sane(u, TRUE), u.open = m.open,
           ~m.gated => u.held = m.held
    PROVE  Gated(u)
<1>1. Written(u) = Append(Written(m), e) /\ Written(m) \in Seq(Ev) /\ u.gated = m.gated
  BY MemFacts DEF Became, Gated, Lidded, Sane
<1>2. Seen(Written(m), Visible) => Seen(Written(u), Visible)  BY <1>1, SeenGrows
<1> QED  BY <1>1, <1>2 DEF Gated, Lidded

\* It grows.
LEMMA ClaudeToResponsesDeltas ==
    ASSUME NEW m, Gated(m), NEW index, NEW kind \in Kinds
    PROVE  Gated(ClaudeToResponsesDelta(m, index, kind))
<1> DEFINE i == ToolAt(m, index)  e == Piece(m.tools[i].at, kind, 1)  u == Put(m, <<e>>)
<1>1. CASE ~(HasTool(m, index) /\ m.tools[i].open)  BY <1>1 DEF ClaudeToResponsesDelta
<1>2. CASE HasTool(m, index) /\ m.tools[i].open
  <2>1. ClaudeToResponsesDelta(m, index, kind) = u  BY <1>2 DEF ClaudeToResponsesDelta
  <2>2. i \in LiveTools(m) /\ i \in DOMAIN m.tools  BY <1>2, ToolAtFacts DEF LiveTools
  <2> HIDE DEF i
  <2>3. m \in Mem /\ Veiled(m) /\ Sane(m, TRUE) /\ m.tools[i] \in Tool
    BY <2>2, MemFacts DEF Gated, Lidded, Sane
  <2>4. e \in Ev /\ e.ev = "piece" /\ e.at = m.tools[i].at  BY <2>3, EventFacts DEF Tool
  <2>5. m.tools[i].at \in Blocks(m)  BY <2>2 DEF Blocks
  <2>6. m.begun  BY <2>3, <2>5, LiveBegan
  <2> HIDE DEF e
  <2>7. Became(m, u, e) /\ Same(m, u)  BY <2>3, <2>4, <2>6, PutOne
  <2>8. ~m.gated => u.held = m.held  BY <2>3, HeldStays
  <2> HIDE DEF u
  <2>9. Sane(u, TRUE)  BY <2>3, <2>4, <2>5, <2>7, SanePiece
  <2>10. Gated(u)  BY <2>4, <2>7, <2>8, <2>9, GatedGrows DEF Same
  <2> QED  BY <2>1, <2>10
<1> QED  BY <1>1, <1>2

\* It shuts.
LEMMA ClaudeToResponsesStops ==
    ASSUME NEW m, Gated(m), NEW index PROVE Gated(ClaudeToResponsesStop(m, index))
<1> DEFINE i == ToolAt(m, index)  e == Shut(m.tools[i].at)  u == ShutTool(m, i)
<1>1. CASE ~(HasTool(m, index) /\ m.tools[i].open)  BY <1>1 DEF ClaudeToResponsesStop
<1>2. CASE HasTool(m, index) /\ m.tools[i].open
  <2>1. ClaudeToResponsesStop(m, index) = u  BY <1>2 DEF ClaudeToResponsesStop
  <2>2. i \in LiveTools(m) /\ i \in DOMAIN m.tools  BY <1>2, ToolAtFacts DEF LiveTools
  <2> HIDE DEF i
  <2>3. m \in Mem /\ Sane(m, TRUE) /\ m.tools[i] \in Tool  BY <2>2, MemFacts DEF Gated, Lidded, Sane
  <2>4. e \in Ev  BY <2>3, EventFacts DEF Tool
  <2>5. m.tools[i].at \in Blocks(m)  BY <2>2 DEF Blocks
  <2>6. m.begun  BY <2>3, <2>5, LiveBegan
  <2>7. Sane(u, TRUE) /\ Became(m, u, e) /\ u.open = m.open  BY <2>2, <2>3, <2>6, SaneShutTool
  <2>8. ~m.gated => u.held = m.held  BY <2>3, HeldStays
  <2> HIDE DEF u, e
  <2>9. Gated(u)  BY <2>4, <2>7, <2>8, GatedGrows
  <2> QED  BY <2>1, <2>9
<1> QED  BY <1>1, <1>2

\* What has not ended does not say that it has.
LEMMA CalmFacts ==
    /\ ~Says(<<>>, "whole") /\ Calm(<<>>)
    /\ \A w \in Seq(Ev) : Calm(w) => ~Says(w, "whole") /\ ~Says(Append(w, Fail), "whole")
<1>1. ASSUME NEW w \in Seq(Ev), Calm(w) PROVE ~Says(w, "whole") /\ ~Says(Append(w, Fail), "whole")
  <2>1. Fail \in Ev /\ Fail.ev = "fail"  BY EventFacts
  <2>2. ~Says(w, "whole")  BY <1>1 DEF Says, Calm, Ends
  <2>3. \A i \in DOMAIN Append(w, Fail) : (i \in DOMAIN w /\ Append(w, Fail)[i] = w[i])
                                          \/ Append(w, Fail)[i] = Fail
    BY <1>1, <2>1, AppendFacts
  <2>4. ~Says(Append(w, Fail), "whole")  BY <1>1, <2>1, <2>3 DEF Says, Calm, Ends
  <2> QED  BY <2>2, <2>4
<1> QED  BY <1>1 DEF Says, Calm

\* Nothing of a gated answer is on the wire, and all of another.
LEMMA ShownIsWritten ==
    ASSUME NEW m, Veiled(m)
    PROVE  m.wire = IF m.gated THEN <<>> ELSE Written(m)
BY DEF Veiled, Written

\* The end of a Responses answer: an empty turn stays behind the gate.
LEMMA ClaudeToResponsesFinishes ==
    ASSUME NEW m, Gated(m), NEW order, Listing(m, order), NEW reason
    PROVE  LET u == ClaudeToResponsesFinish(m, order, reason).t IN
           Fine(u, TRUE) /\ (reason = "end" => Answered(u.wire))
<1> DEFINE s == Started(m)  v == ShutTools(s, order)  p == Put(v, <<Whole>>)
           u == ClaudeToResponsesFinish(m, order, reason).t
<1>1. Gated(s) /\ s.tools = m.tools /\ Sane(s, TRUE)  BY GatedStarts DEF Same, Gated, Lidded
<1>2. u = IF v.gated /\ reason # "cap" THEN v ELSE p  BY DEF ClaudeToResponsesFinish, Ended
<1> HIDE DEF s
<1>3. Listing(s, order)  BY <1>1 DEF Listing, LiveTools
<1>4. Sane(v, TRUE) /\ v.gated = s.gated /\ (Seen(Written(s), Visible) => Seen(Written(v), Visible))
  BY <1>1, <1>3, SaneShutTools
<1> HIDE DEF v
<1>5. Fine(v, TRUE) /\ v \in Mem /\ Written(v) \in Seq(Ev)
  <2>1. v \in Mem  BY <1>4 DEF Sane
  <2> QED  BY <1>4, <2>1, SaneIsFine, MemFacts
<1>6. Fine(p, TRUE) /\ p.gated = v.gated /\ Written(p) = Append(Written(v), Whole)
  <2>1. Whole \in Closing  BY DEF Closing
  <2> QED  BY <1>5, <2>1, FineCloses
<1> HIDE DEF p
<1>7. ~v.gated => Seen(Written(v), Visible)  BY <1>1, <1>4 DEF Gated
<1>8. ~p.gated => Seen(Written(p), Visible)  BY <1>5, <1>6, <1>7, EventFacts, SeenGrows
<1>9. Veiled(v) /\ Veiled(p)  BY <1>5, <1>6 DEF Fine
<1>10. Answered(v.wire) /\ Answered(p.wire)
  <2>1. Answered(<<>>)  BY CalmFacts DEF Answered
  <2>2. v.gated => v.wire = <<>>  BY <1>9 DEF Veiled
  <2>3. p.gated => p.wire = <<>>  BY <1>9 DEF Veiled
  <2>4. ~v.gated => v.wire = Written(v)  BY DEF Written
  <2>5. ~p.gated => p.wire = Written(p)  BY DEF Written
  <2> QED  BY <1>7, <1>8, <2>1, <2>2, <2>3, <2>4, <2>5 DEF Answered
<1> HIDE DEF u
<1> QED  BY <1>2, <1>5, <1>6, <1>10 DEF u

\* A Responses answer cut short.
LEMMA ClaudeToResponsesCuts ==
    ASSUME NEW m, Gated(m), NEW order, Listing(m, order)
    PROVE  LET u == ClaudeToResponsesCut(m, order).t IN
           Fine(u, TRUE) /\ Answered(u.wire) /\ Told(u.wire)
<1> DEFINE v == ShutTools(m, order)  p == Put(v, <<Fail>>)
<1>1. Sane(m, TRUE)  BY DEF Gated, Lidded
<1>2. CASE m.gated
  <2>1. ClaudeToResponsesCut(m, order).t = m  BY <1>2 DEF ClaudeToResponsesCut, Ended
  <2>2. Fine(m, TRUE)  BY <1>1, SaneIsFine
  <2>3. m.wire = <<>>  BY <1>1, <1>2 DEF Sane, Veiled
  <2> QED  BY <2>1, <2>2, <2>3, NothingHeard, CalmFacts DEF Answered
<1>3. CASE ~m.gated
  <2>1. ClaudeToResponsesCut(m, order).t = p  BY <1>3 DEF ClaudeToResponsesCut, Ended
  <2>2. Sane(v, TRUE) /\ v.gated = m.gated  BY <1>1, SaneShutTools
  <2> HIDE DEF v
  <2>3. Fine(v, TRUE) /\ v \in Mem /\ Written(v) \in Seq(Ev) /\ Calm(Written(v))
    <3>1. v \in Mem /\ Calm(Written(v))  BY <2>2 DEF Sane
    <3> QED  BY <2>2, <3>1, SaneIsFine, MemFacts
  <2>4. Fine(p, TRUE) /\ p.gated = v.gated /\ Written(p) = Append(Written(v), Fail)
    <3>1. Fail \in Closing  BY DEF Closing
    <3> QED  BY <2>3, <3>1, FineCloses
  <2> HIDE DEF p
  <2>5. p.wire = Append(Written(v), Fail)  BY <1>3, <2>2, <2>4 DEF Written
  <2>6. Told(p.wire) /\ Answered(p.wire)  BY <2>3, <2>5, FailSays, CalmFacts DEF Answered
  <2> QED  BY <2>1, <2>4, <2>6
<1> QED  BY <1>2, <1>3

\* A Responses answer that is refused.
LEMMA ClaudeToResponsesErrors ==
    ASSUME NEW m, Gated(m) PROVE Fine(ClaudeToResponsesError(m).t, TRUE)
<1> DEFINE s == Started(m)  v == Unveil(s)
<1>1. ClaudeToResponsesError(m).t = Put(v, <<Fail>>)  BY DEF ClaudeToResponsesError, Ended
<1>2. Lidded(s)  BY GatedStarts DEF Gated
<1> HIDE DEF s
<1>3. Lidded(v)  BY <1>2, LiddedOpens
<1> HIDE DEF v
<1>4. Fine(v, TRUE)
  <2>1. Sane(v, TRUE)  BY <1>3 DEF Lidded
  <2> QED  BY <2>1, SaneIsFine
<1>5. Fail \in Closing  BY DEF Closing
<1> QED  BY <1>1, <1>4, <1>5, FineCloses

-----------------------------------------------------------------------------
\* Responses, from Chat.

\* What a step has to show of the memory it leaves.
LEMMA MessagesBy ==
    ASSUME NEW u, Sane(u, FALSE), u.begun, u.open \in {{}, {"text"}}, u.open # {} => u.texted,
           u.texted \/ u.tools # <<>>, LiveTools(u) = DOMAIN u.tools
    PROVE  Messages(u)
<1>1. u.begun \in BOOLEAN /\ u.texted \in BOOLEAN  BY MemFacts DEF Sane
<1> QED  BY <1>1 DEF Messages

\* The message item shuts.
LEMMA MessageCloses ==
    ASSUME NEW m, Sane(m, FALSE), m.open \in {{}, {"text"}}, m.open # {} => m.texted, m.begun,
           LiveTools(m) = DOMAIN m.tools
    PROVE  LET u == CloseMessage(m) IN
           /\ Sane(u, FALSE) /\ u.begun /\ u.gated = m.gated /\ u.open = {} /\ u.texted = m.texted
           /\ u.tools = m.tools
<1>1. CASE "text" \notin m.open
  <2>1. CloseMessage(m) = m /\ m.open = {}  BY <1>1 DEF CloseMessage
  <2> QED  BY <2>1
<1>2. CASE "text" \in m.open
  <2> DEFINE e == Shut(m.next)  p == Put(m, <<e>>)  u == CloseMessage(m)  n == m.next + 1  o == {}
  <2>1. m \in Mem /\ Veiled(m) /\ m.next \in Nat /\ m.open \in SUBSET Kinds  BY MemFacts DEF Sane
  <2>2. e \in Ev /\ e.ev = "shut" /\ e.at = m.next  BY <2>1, EventFacts
  <2>3. p \in Mem /\ Same(m, p)  BY <2>1, <2>2, PutOne
  <2>4. u = [p EXCEPT !.open = o, !.next = n]  BY <1>2, <2>3 DEF CloseMessage, Same
  <2>5. o \in SUBSET Kinds /\ n \in Nat  BY <2>1
  <2>6. Cur(m)  BY <1>2 DEF Cur
  <2> HIDE DEF e, p, u, o, n
  <2>7. /\ u \in Mem /\ u.wire = p.wire /\ u.held = p.held /\ u.gated = p.gated /\ u.begun = p.begun
        /\ u.next = n /\ u.open = o /\ u.texted = p.texted /\ u.tools = p.tools
    BY <2>3, <2>4, <2>5 DEF Mem
  <2>8. /\ Became(m, u, e) /\ u.gated = m.gated /\ u.texted = m.texted /\ u.tools = m.tools
    BY <2>1, <2>2, <2>3, <2>7, BecameBy DEF p, Same
  <2>9. ~Cur(u) /\ u.next = m.next + 1  BY <2>7 DEF Cur, n, o
  <2>10. Sane(u, FALSE)  BY <2>2, <2>6, <2>8, <2>9, SaneShutCur
  <2> QED  BY <2>7, <2>8, <2>10 DEF u, o, Became
<1> QED  BY <1>1, <1>2

\* appendTextDelta, text behind a call included.
LEMMA TextAppends ==
    ASSUME NEW m, Messages(m) PROVE Messages(AppendText(m))
<1>1. ASSUME NEW u, Messages(u), u.texted PROVE Messages(Put(u, <<Piece(u.next, "text", 1)>>))
  <2> DEFINE e == Piece(u.next, "text", 1)  p == Put(u, <<e>>)
  <2>1. Sane(u, FALSE) /\ u \in Mem /\ Veiled(u) /\ u.begun /\ u.next \in Int
    <3>1. Sane(u, FALSE) /\ u \in Mem /\ Veiled(u) /\ u.begun  BY <1>1 DEF Messages, Sane
    <3>2. u.next \in Int  BY <3>1, MemFacts
    <3> QED  BY <3>1, <3>2
  <2>2. e \in Ev /\ e.ev = "piece"
    <3>1. "text" \in Kinds  BY DEF Kinds
    <3> QED  BY <2>1, <3>1, EventFacts
  <2> HIDE DEF e
  <2>3. Became(u, p, e) /\ Same(u, p) /\ p.begun = u.begun  BY <2>1, <2>2, PutOne
  <2> HIDE DEF p
  <2>4. Sane(p, FALSE)  BY <2>1, <2>2, <2>3, SanePiece
  <2>5. p.open = u.open /\ p.texted = u.texted /\ p.tools = u.tools  BY <2>3 DEF Same
  <2>6. LiveTools(p) = DOMAIN p.tools /\ p.open \in {{}, {"text"}} /\ p.texted
    BY <1>1, <2>5 DEF LiveTools, Messages
  <2>7. Messages(p)  BY <2>1, <2>3, <2>4, <2>6, MessagesBy
  <2> QED  BY <2>7 DEF p, e
<1>2. CASE m.texted
  <2>1. AppendText(m) = Put(m, <<Piece(m.next, "text", 1)>>)  BY <1>2 DEF AppendText
  <2> QED  BY <1>1, <1>2, <2>1
<1>3. CASE ~m.texted
  <2> DEFINE s == Started(m)  e == Open(m.next, "text")  p == Put(s, <<e>>)
             o == {"text"}  u == [p EXCEPT !.texted = TRUE, !.open = o]
  <2>1. AppendText(m) = Put(u, <<Piece(u.next, "text", 1)>>)  BY <1>3 DEF AppendText
  <2>2. Sane(m, FALSE) /\ m.open = {} /\ LiveTools(m) = DOMAIN m.tools  BY <1>3 DEF Messages
  <2>3. Sane(s, FALSE) /\ s.begun /\ Same(m, s)  BY <2>2, SaneStarted
  <2> HIDE DEF s
  <2>4. s \in Mem /\ Veiled(s) /\ s.next = m.next /\ s.next \in Int /\ s.open = {} /\ s.tools = m.tools
    <3>1. s \in Mem /\ Veiled(s)  BY <2>3 DEF Sane
    <3> QED  BY <2>2, <2>3, <3>1, MemFacts DEF Same
  <2>5. e \in Ev /\ e.ev = "open" /\ e.at = s.next /\ o \in SUBSET Kinds
    <3>1. "text" \in Kinds  BY DEF Kinds
    <3> QED  BY <2>4, <3>1, EventFacts
  <2> HIDE DEF e
  <2>6. p \in Mem /\ Same(s, p)  BY <2>4, <2>5, PutOne
  <2> HIDE DEF p, o
  <2>7. /\ u \in Mem /\ u.wire = p.wire /\ u.held = p.held /\ u.gated = p.gated /\ u.begun = p.begun
        /\ u.next = p.next /\ u.open = o /\ u.texted /\ u.tools = p.tools
    BY <2>5, <2>6 DEF Mem
  <2> HIDE DEF u
  <2>8. Became(s, u, e)  BY <2>3, <2>4, <2>5, <2>7, BecameBy DEF p
  <2>9. u.open = {"text"} /\ u.next = s.next /\ u.tools = s.tools  BY <2>6, <2>7 DEF o, Same
  <2>10. ~Cur(s) /\ Cur(u)  BY <2>4, <2>9 DEF Cur
  <2>11. Sane(u, FALSE)  BY <2>3, <2>5, <2>8, <2>9, <2>10, SaneOpenCur
  <2>12. LiveTools(u) = DOMAIN u.tools  BY <2>2, <2>4, <2>9 DEF LiveTools
  <2>13. Messages(u)  BY <2>7, <2>8, <2>9, <2>11, <2>12, MessagesBy DEF Became
  <2> QED  BY <1>1, <2>1, <2>7, <2>13
<1> QED  BY <1>2, <1>3

\* One entry more, open like the others.
LEMMA LiveAppends ==
    ASSUME NEW m, NEW l \in Seq(Tool), l = m.tools, LiveTools(m) = DOMAIN m.tools,
           NEW k \in Tool, k.open, NEW u, u.tools = Append(l, k)
    PROVE  LiveTools(u) = DOMAIN u.tools
<1>1. \A i \in DOMAIN l : l[i].open  BY DEF LiveTools
<1>2. \A i \in DOMAIN Append(l, k) : Append(l, k)[i] = k \/ (i \in DOMAIN l /\ Append(l, k)[i] = l[i])
  OBVIOUS
<1> QED  BY <1>1, <1>2 DEF LiveTools

\* A call opens behind the message item.
LEMMA CallOpens ==
    ASSUME NEW m, Messages(m), NEW c \in Int, ~HasTool(m, c)
    PROVE  LET v == CloseMessage(Started(m))
               u == [Put(v, <<OpenTool(v.next, c)>>)
                        EXCEPT !.next = @ + 1, !.tools = Append(@, NewTool(c, v.next))]
           IN Messages(u) /\ HasTool(u, c)
<1> DEFINE s == Started(m)  v == CloseMessage(s)  e == OpenTool(v.next, c)  p == Put(v, <<e>>)
           n == v.next + 1  k == NewTool(c, v.next)  ts == Append(v.tools, k)
           u == [p EXCEPT !.next = @ + 1, !.tools = Append(@, NewTool(c, v.next))]
<1>1. Sane(m, FALSE) /\ LiveTools(m) = DOMAIN m.tools  BY DEF Messages
<1>2. Sane(s, FALSE) /\ s.begun /\ Same(m, s)  BY <1>1, SaneStarted
<1> HIDE DEF s
<1>3. s.open \in {{}, {"text"}} /\ (s.open # {} => s.texted) /\ LiveTools(s) = DOMAIN s.tools
  BY <1>1, <1>2 DEF Same, LiveTools, Messages
<1>4. /\ Sane(v, FALSE) /\ v.begun /\ v.open = {} /\ v.tools = s.tools
  BY <1>2, <1>3, MessageCloses
<1> HIDE DEF v
<1>5. v \in Mem /\ Veiled(v) /\ v.next \in Nat /\ v.tools \in Seq(Tool)
  <2>1. v \in Mem /\ Veiled(v)  BY <1>4 DEF Sane
  <2> QED  BY <2>1, MemFacts
<1>6. e \in Ev /\ e.ev = "open" /\ e.at = v.next  BY <1>5, EventFacts
<1>7. k \in Tool /\ k.open /\ k.key = c  BY <1>5 DEF NewTool, Tool
<1> HIDE DEF k
<1>8. n \in Nat /\ ts \in Seq(Tool)  BY <1>5, <1>7
<1> HIDE DEF e
<1>9. p \in Mem /\ Same(v, p)  BY <1>5, <1>6, PutOne
<1>10. u = [p EXCEPT !.next = n, !.tools = ts]  BY <1>9 DEF Same, k
<1> HIDE DEF p, u, n, ts
<1>11. /\ u \in Mem /\ u.wire = p.wire /\ u.held = p.held /\ u.gated = p.gated /\ u.begun = p.begun
       /\ u.next = n /\ u.open = p.open /\ u.texted = p.texted /\ u.tools = ts
  BY <1>8, <1>9, <1>10 DEF Mem
<1>12. Became(v, u, e)  BY <1>4, <1>5, <1>6, <1>11, BecameBy DEF p
<1>13. u.open = {} /\ u.next = v.next + 1 /\ u.tools = Append(v.tools, NewTool(c, v.next))
  BY <1>4, <1>9, <1>11 DEF Same, n, ts, k
<1>14. ~Cur(v) /\ ~Cur(u)  BY <1>4, <1>13 DEF Cur
<1>15. Sane(u, FALSE)  BY <1>4, <1>6, <1>12, <1>13, <1>14, SaneOpenTool
<1>16. LiveTools(u) = DOMAIN u.tools
  <2>1. LiveTools(v) = DOMAIN v.tools  BY <1>3, <1>4 DEF LiveTools
  <2>2. u.tools = Append(v.tools, k)  BY <1>11 DEF ts
  <2> QED  BY <1>5, <1>7, <2>1, <2>2, LiveAppends
<1>17. HasTool(u, c) /\ u.tools # <<>>
  <2> DEFINE l == v.tools  j == Len(l) + 1
  <2>1. u.tools = Append(l, k) /\ l \in Seq(Tool)  BY <1>5, <1>11 DEF ts
  <2> HIDE DEF l
  <2>2. j \in DOMAIN u.tools /\ u.tools[j] = k  BY <1>7, <2>1
  <2> HIDE DEF j
  <2> QED  BY <1>7, <2>2 DEF HasTool, ToolOf
<1>18. Messages(u)  BY <1>12, <1>13, <1>15, <1>16, <1>17, MessagesBy DEF Became
<1> QED  BY <1>17, <1>18 DEF u, p, e, v, s

\* It carries arguments.
LEMMA CallGrows ==
    ASSUME NEW m, Messages(m), NEW i \in DOMAIN m.tools, NEW n \in Int
    PROVE  Messages([Put(m, <<Piece(m.tools[i].at, "tool", n)>>) EXCEPT !.tools[i].sent = @ + n])
<1> DEFINE e == Piece(m.tools[i].at, "tool", n)  p == Put(m, <<e>>)  k == p.tools[i].sent + n
           u == [p EXCEPT !.tools[i].sent = @ + n]
<1>1. Sane(m, FALSE) /\ m \in Mem /\ Veiled(m) /\ m.tools # <<>> /\ m.begun
  <2>1. m.tools # <<>>  OBVIOUS
  <2>2. Sane(m, FALSE) /\ m.begun  BY <2>1 DEF Messages
  <2>3. m \in Mem /\ Veiled(m)  BY <2>2 DEF Sane
  <2> QED  BY <2>1, <2>2, <2>3
<1>2. m.tools[i] \in Tool  BY <1>1, MemFacts
<1>3. e \in Ev /\ e.ev = "piece"
  <2>1. m.tools[i].at \in Int /\ "tool" \in Kinds  BY <1>2 DEF Tool, Kinds
  <2> QED  BY <2>1, EventFacts
<1>4. u = SentTo(p, i, k)  BY DEF SentTo
<1> HIDE DEF e, u
<1>5. Became(m, p, e) /\ Same(m, p) /\ p.begun = m.begun  BY <1>1, <1>3, PutOne
<1> HIDE DEF p
<1>6. Sane(p, FALSE)  BY <1>1, <1>3, <1>5, SanePiece
<1>7. i \in DOMAIN p.tools /\ p.tools = m.tools  BY <1>5 DEF Same
<1>8. k \in Int  BY <1>2, <1>7 DEF Tool
<1> HIDE DEF k
<1>9. /\ Sane(u, FALSE) /\ u.begun = p.begun /\ u.open = p.open /\ u.texted = p.texted
      /\ u.tools = [p.tools EXCEPT ![i].sent = k]
  <2>1. Sane(u, FALSE)  BY <1>4, <1>6, <1>7, <1>8, SaneSent
  <2>2. u = [p EXCEPT !.tools = [p.tools EXCEPT ![i].sent = k]]  BY <1>4 DEF SentTo
  <2>3. p \in Mem  BY <1>6 DEF Sane
  <2>4. u.begun = p.begun /\ u.open = p.open /\ u.texted = p.texted
        /\ u.tools = [p.tools EXCEPT ![i].sent = k]
    BY <2>2, <2>3 DEF Mem
  <2> QED  BY <2>1, <2>4
<1>10. LiveTools(u) = DOMAIN u.tools
  <2>1. DOMAIN u.tools = DOMAIN m.tools  BY <1>7, <1>9
  <2>2. \A j \in DOMAIN m.tools : u.tools[j] = IF j = i THEN [m.tools[i] EXCEPT !.sent = k] ELSE m.tools[j]
    BY <1>7, <1>9
  <2>3. [m.tools[i] EXCEPT !.sent = k].open = m.tools[i].open  BY <1>2 DEF Tool
  <2>4. \A j \in DOMAIN m.tools : m.tools[j].open  BY DEF Messages, LiveTools
  <2> QED  BY <2>1, <2>2, <2>3, <2>4 DEF LiveTools
<1>11. u.open \in {{}, {"text"}} /\ (u.open # {} => u.texted)
  BY <1>5, <1>9 DEF Same, Messages
<1>12. u.tools # <<>>
  <2>1. i \in DOMAIN u.tools  BY <1>7, <1>9
  <2> QED  BY <2>1
<1>13. Messages(u)  BY <1>1, <1>5, <1>9, <1>10, <1>11, <1>12, MessagesBy
<1> QED  BY <1>13 DEF u, p, e

\* handleToolCallDelta.
LEMMA CallAppends ==
    ASSUME NEW m, Messages(m), NEW c \in Int, NEW n \in Int
    PROVE  Messages(AppendCall(m, c, n))
<1> DEFINE v == CloseMessage(Started(m))
           o == [Put(v, <<OpenTool(v.next, c)>>)
                        EXCEPT !.next = @ + 1, !.tools = Append(@, NewTool(c, v.next))]
           u == IF HasTool(m, c) THEN m ELSE o
           i == ToolAt(u, c)
           x == [Put(u, <<Piece(u.tools[i].at, "tool", n)>>) EXCEPT !.tools[i].sent = @ + n]
<1>1. AppendCall(m, c, n) = IF n = 0 THEN u ELSE x  BY DEF AppendCall
<1>2. Messages(u) /\ HasTool(u, c)
  <2>1. CASE HasTool(m, c)  BY <2>1
  <2>2. CASE ~HasTool(m, c)
    <3>1. Messages(o) /\ HasTool(o, c)  BY <2>2, CallOpens
    <3> HIDE DEF o
    <3> QED  BY <2>2, <3>1
  <2> QED  BY <2>1, <2>2
<1> HIDE DEF u
<1>3. i \in DOMAIN u.tools  BY <1>2, ToolAtFacts
<1> HIDE DEF i
<1>4. Messages(x)  BY <1>2, <1>3, CallGrows
<1> HIDE DEF x
<1> QED  BY <1>1, <1>2, <1>4

\* One chunk.
LEMMA ChatToResponsesSteps ==
    ASSUME NEW m, Messages(m), NEW chunk, chunk.call \in Int, chunk.args \in Int
    PROVE  Messages(ChatToResponses(m, chunk))
<1> DEFINE u == IF chunk.call = 0 THEN m ELSE AppendCall(m, chunk.call, chunk.args)
<1>1. Messages(u)  BY CallAppends
<1>2. ChatToResponses(m, chunk) = IF chunk.text THEN AppendText(u) ELSE u  BY DEF ChatToResponses
<1> HIDE DEF u
<1> QED  BY <1>1, <1>2, TextAppends

-----------------------------------------------------------------------------
\* The ends of the converted answers.

\* An end, with nothing more to say of it.
LEMMA EndedFine ==
    ASSUME NEW m, NEW grows, Sane(m, grows)
    PROVE  /\ Fine(m, grows) /\ Answered(Written(m)) /\ m \in Mem /\ Written(m) \in Seq(Ev)
           /\ \A e \in Closing : /\ Fine(Put(m, <<e>>), grows)
                                 /\ Written(Put(m, <<e>>)) = Append(Written(m), e)
           /\ Told(Written(Put(m, <<Fail>>))) /\ Answered(Written(Put(m, <<Fail>>)))
<1>1. m \in Mem /\ Calm(Written(m))  BY DEF Sane
<1>2. Fine(m, grows) /\ Written(m) \in Seq(Ev)  BY <1>1, SaneIsFine, MemFacts
<1>3. Answered(Written(m))  BY <1>1, <1>2, CalmFacts DEF Answered
<1>4. ASSUME NEW e \in Closing
      PROVE  Fine(Put(m, <<e>>), grows) /\ Written(Put(m, <<e>>)) = Append(Written(m), e)
  BY <1>2, FineCloses
<1>5. Fail \in Closing  BY DEF Closing
<1>6. Written(Put(m, <<Fail>>)) = Append(Written(m), Fail)  BY <1>4, <1>5
<1>7. Told(Append(Written(m), Fail)) /\ Answered(Append(Written(m), Fail))
  BY <1>1, <1>2, FailSays, CalmFacts DEF Answered
<1> QED  BY <1>1, <1>2, <1>3, <1>4, <1>6, <1>7

\* What has not begun has told nothing.
LEMMA NotBegun == ASSUME NEW m, NEW grows, Sane(m, grows), ~m.begun PROVE Told(Written(m))
BY NothingHeard DEF Sane

\* The end of the answer.
LEMMA ChatToResponsesFinishes ==
    ASSUME NEW m, Messages(m) PROVE Fine(ChatToResponsesFinish(m).t, FALSE)
<1> DEFINE v == CloseMessage(m)  w == ShutTools(v, InOrder(m))
<1>1. Sane(m, FALSE) /\ LiveTools(m) = DOMAIN m.tools  BY DEF Messages
<1>2. CASE ~HasOutput(m)
  <2>1. ChatToResponsesFinish(m).t = m  BY <1>2 DEF ChatToResponsesFinish, Ended
  <2> QED  BY <1>1, <2>1, SaneIsFine
<1>3. CASE HasOutput(m)
  <2>1. ChatToResponsesFinish(m).t = Put(w, <<Whole>>)  BY <1>3 DEF ChatToResponsesFinish, Ended
  <2>2. m.begun  BY <1>3 DEF Messages, HasOutput
  <2>3. Sane(v, FALSE) /\ v.tools = m.tools  BY <1>1, <2>2, MessageCloses DEF Messages
  <2>4. LiveTools(v) = DOMAIN v.tools /\ InOrder(m) = InOrder(v)
    BY <1>1, <2>3 DEF LiveTools, InOrder
  <2> HIDE DEF v
  <2>5. Listing(v, InOrder(v))
    <3>1. v \in Mem  BY <2>3 DEF Sane
    <3> QED  BY <2>4, <3>1, InOrderLists
  <2>6. Sane(w, FALSE)  BY <2>3, <2>4, <2>5, SaneShutTools
  <2> HIDE DEF w
  <2>7. Whole \in Closing  BY DEF Closing
  <2> QED  BY <2>1, <2>6, <2>7, EndedFine
<1> QED  BY <1>2, <1>3

\* It is cut.
LEMMA ChatToResponsesCuts ==
    ASSUME NEW m, Messages(m)
    PROVE  LET u == ChatToResponsesCut(m).t IN Fine(u, FALSE) /\ Told(Written(u))
<1>1. Sane(m, FALSE)  BY DEF Messages
<1>2. CASE ~HasOutput(m)
  <2>1. ChatToResponsesCut(m).t = m  BY <1>2 DEF ChatToResponsesCut, Ended
  <2>2. ~m.begun  BY <1>2 DEF Messages, HasOutput
  <2> QED  BY <1>1, <2>1, <2>2, SaneIsFine, NotBegun
<1>3. CASE HasOutput(m)
  <2>1. ChatToResponsesCut(m).t = Put(m, <<Fail>>)  BY <1>3 DEF ChatToResponsesCut, Ended
  <2>2. Fail \in Closing  BY DEF Closing
  <2> QED  BY <1>1, <2>1, <2>2, EndedFine
<1> QED  BY <1>2, <1>3

\* It is refused.
LEMMA ChatToResponsesErrors ==
    ASSUME NEW m, Messages(m) PROVE Fine(ChatToResponsesError(m).t, FALSE)
<1>1. ChatToResponsesError(m).t = Put(m, <<Fail>>)  BY DEF ChatToResponsesError, Ended
<1>2. Sane(m, FALSE) /\ Fail \in Closing  BY DEF Messages, Closing
<1> QED  BY <1>1, <1>2, EndedFine

-----------------------------------------------------------------------------
\* The ends of the Chat legs.
LEMMA ClaudeToChatEnds ==
    ASSUME NEW m, ClaudeChat(m), NEW reason
    PROVE  /\ LET u == ClaudeToChatFinish(m, reason).t IN
              Fine(u, TRUE) /\ (reason = "end" => Answered(Written(u)))
           /\ LET u == ClaudeToChatCut(m).t IN Fine(u, TRUE) /\ Told(Written(u)) /\ Answered(Written(u))
           /\ Fine(ClaudeToChatError(m).t, TRUE)
<1>1. Sane(m, TRUE) /\ Whole \in Closing /\ Fail \in Closing  BY DEF ClaudeChat, Chat, Closing
<1>2. Fine(m, TRUE) /\ Answered(Written(m)) /\ Written(m) \in Seq(Ev)  BY <1>1, EndedFine
<1> DEFINE p == Put(m, <<Whole>>)  q == Put(m, <<Fail>>)
<1>3. Fine(p, TRUE) /\ Written(p) = Append(Written(m), Whole)  BY <1>1, EndedFine
<1>4. Fine(q, TRUE) /\ Told(Written(q)) /\ Answered(Written(q))  BY <1>1, EndedFine
<1>5. ClaudeToChatFinish(m, reason).t = IF ~m.texted /\ reason # "cap" THEN m ELSE p
  BY DEF ClaudeToChatFinish, Ended
<1>6. ClaudeToChatCut(m).t = IF m.texted THEN q ELSE m  BY DEF ClaudeToChatCut, Ended
<1>7. ClaudeToChatError(m).t = q  BY DEF ClaudeToChatError, Ended
<1> HIDE DEF p, q
<1>8. m.texted => Answered(Written(p))
  <2>1. m.texted => Seen(Written(m), Visible)  BY DEF ClaudeChat
  <2>2. Whole \in Ev  BY EventFacts
  <2>3. m.texted => Seen(Written(p), Visible)  BY <1>2, <1>3, <2>1, <2>2, SeenGrows
  <2> QED  BY <2>3 DEF Answered
<1>9. ~m.texted => Told(Written(m))
  <2>1. ~m.texted => ~m.begun  BY DEF ClaudeChat
  <2> QED  BY <1>1, <2>1, NotBegun
<1>10. Fine(ClaudeToChatFinish(m, reason).t, TRUE)
       /\ (reason = "end" => Answered(Written(ClaudeToChatFinish(m, reason).t)))
  BY <1>2, <1>3, <1>5, <1>8
<1>11. /\ Fine(ClaudeToChatCut(m).t, TRUE) /\ Told(Written(ClaudeToChatCut(m).t))
       /\ Answered(Written(ClaudeToChatCut(m).t))
  BY <1>2, <1>4, <1>6, <1>9
<1> QED  BY <1>4, <1>7, <1>10, <1>11

\* The three ends of a Responses answer to Chat.
LEMMA ResponsesToChatEnds ==
    ASSUME NEW m, ResponsesChat(m)
    PROVE  /\ Fine(ResponsesToChatFinish(m).t, TRUE)
           /\ LET u == ResponsesToChatCut(m).t IN Fine(u, TRUE) /\ Told(Written(u))
           /\ Fine(ResponsesToChatError(m).t, TRUE)
<1>1. Sane(m, TRUE) /\ Whole \in Closing /\ Fail \in Closing /\ Raw \in Closing
  BY DEF ResponsesChat, Chat, Closing
<1>2. Fine(m, TRUE)  BY <1>1, EndedFine
<1> DEFINE p == Put(m, <<Whole>>)  q == Put(m, <<Fail>>)  r == Put(m, <<Raw>>)
<1>3. Fine(p, TRUE) /\ Fine(r, TRUE)  BY <1>1, EndedFine
<1>4. Fine(q, TRUE) /\ Told(Written(q))  BY <1>1, EndedFine
<1>5. ResponsesToChatFinish(m).t = IF m.begun THEN p ELSE m  BY DEF ResponsesToChatFinish, Ended
<1>6. ResponsesToChatCut(m).t = IF m.texted \/ m.tools # <<>> THEN q ELSE m
  BY DEF ResponsesToChatCut, Ended
<1>7. ResponsesToChatError(m).t = r  BY DEF ResponsesToChatError, Ended
<1> HIDE DEF p, q, r
<1>8. ~(m.texted \/ m.tools # <<>>) => Told(Written(m))  BY DEF ResponsesChat, Told
<1>9. Fine(ResponsesToChatFinish(m).t, TRUE)  BY <1>2, <1>3, <1>5
<1>10. Fine(ResponsesToChatCut(m).t, TRUE) /\ Told(Written(ResponsesToChatCut(m).t))
  BY <1>2, <1>4, <1>6, <1>8
<1> QED  BY <1>3, <1>7, <1>9, <1>10

\* The terminal event's pass over the calls.
LEMMA AllCallsCompleted ==
    ASSUME ResponsesChat(t), Cardinality(up.called) \in Nat,
           \A c \in 1 .. Cardinality(up.called) : up.args[c] \in Int
    PROVE  ResponsesChat(CompletedCalls)
<1> DEFINE N == Cardinality(up.called)
           F == CHOOSE f : f = [c \in 0 .. N |->
                   IF c = 0 THEN t ELSE ResponsesToChatDone(f[c - 1], c, up.args[c])]
           X == {m \in Mem : ResponsesChat(m)}
           step == [p \in X \X (1 .. N) |-> ResponsesToChatDone(p[1], p[2], up.args[p[2]])]
<1>1. CompletedCalls = F[N]  BY DEF CompletedCalls
<1>2. N \in Nat /\ \A c \in 1 .. N : up.args[c] \in Int  OBVIOUS
<1>3. t \in X  BY DEF ResponsesChat, Chat, Sane
<1>4. ASSUME NEW m \in X, NEW c \in 1 .. N PROVE ResponsesToChatDone(m, c, up.args[c]) \in X
  <2>1. c \in Int /\ up.args[c] \in Int /\ ResponsesChat(m)  BY <1>2
  <2>2. ResponsesChat(ResponsesToChatDone(m, c, up.args[c]))  BY <2>1, ResponsesToChatDones
  <2> QED  BY <2>2 DEF ResponsesChat, Chat, Sane
<1> HIDE DEF X, N
<1>5. step \in [X \X (1 .. N) -> X]  BY <1>4
<1>6. \A m \in X, c \in 1 .. N : step[<<m, c>>] = ResponsesToChatDone(m, c, up.args[c])  OBVIOUS
<1> HIDE DEF step
<1>7. PICK f : IsFold(f, X, N, t, step)
  <2>1. Foldable(X, N, t, step)  BY <1>2, <1>3, <1>5 DEF Foldable
  <2> QED  BY <2>1, FoldedUp
<1>8. f \in [0 .. N -> X] /\ f[0] = t /\ \A c \in 1 .. N : f[c] = step[<<f[c - 1], c>>]
  BY <1>7 DEF IsFold
<1>9. ASSUME NEW c \in 1 .. N PROVE f[c] = ResponsesToChatDone(f[c - 1], c, up.args[c])
  <2>1. c - 1 \in 0 .. N  BY <1>2
  <2>2. f[c - 1] \in X  BY <1>8, <2>1
  <2> QED  BY <1>6, <1>8, <2>2
<1>10. f = [c \in 0 .. N |-> IF c = 0 THEN t ELSE ResponsesToChatDone(f[c - 1], c, up.args[c])]
  <2>1. \A c \in 0 .. N : c = 0 \/ c \in 1 .. N  BY <1>2
  <2>2. \A c \in 0 .. N : f[c] = IF c = 0 THEN t ELSE ResponsesToChatDone(f[c - 1], c, up.args[c])
    BY <1>8, <1>9, <2>1
  <2> QED  BY <1>8, <2>2
<1>11. F = [c \in 0 .. N |-> IF c = 0 THEN t ELSE ResponsesToChatDone(F[c - 1], c, up.args[c])]
  BY <1>10
<1> HIDE DEF F
<1>12. 0 \in 0 .. N /\ \A c \in 1 .. N : c \in 0 .. N /\ c # 0  BY <1>2
<1>13. F[0] = t /\ \A c \in 1 .. N : F[c] = ResponsesToChatDone(F[c - 1], c, up.args[c])
  BY <1>11, <1>12
<1> DEFINE S == {n \in Nat : n <= N => F[n] \in X}
<1>14. 0 \in S  BY <1>3, <1>13
<1>15. ASSUME NEW n \in Nat, n \in S PROVE n + 1 \in S
  <2> SUFFICES ASSUME n + 1 <= N PROVE F[n + 1] \in X  OBVIOUS
  <2>1. n + 1 \in 1 .. N /\ F[n] \in X /\ (n + 1) - 1 = n  BY <1>2, <1>15
  <2>2. F[n + 1] = ResponsesToChatDone(F[n], n + 1, up.args[n + 1])  BY <1>13, <2>1
  <2> QED  BY <1>4, <2>1, <2>2
<1> HIDE DEF S
<1>16. N \in S  BY <1>2, <1>14, <1>15, Inductive
<1>17. F[N] \in X  BY <1>2, <1>16 DEF S
<1> QED  BY <1>1, <1>17 DEF X, F, N

-----------------------------------------------------------------------------
\* To Gemini there is no end but the reason.
LEMMA ChatToGeminiEnds ==
    ASSUME NEW m, Chat(m)
    PROVE  Fine(ChatToGeminiReason(m), TRUE) /\ Fine(m, TRUE)
<1>1. Sane(m, TRUE) /\ Whole \in Closing  BY DEF Chat, Closing
<1> QED  BY <1>1, EndedFine DEF ChatToGeminiReason

\* The end of an answer to Gemini.
LEMMA ChatToGeminiFinishes ==
    ASSUME NEW m, Fine(m, TRUE), ~m.gated PROVE Fine(ChatToGeminiFinish(m).t, TRUE)
<1>1. CASE m.wire # <<>>  BY <1>1 DEF ChatToGeminiFinish, Ended
<1>2. CASE m.wire = <<>>
  <2> DEFINE u == Put(m, <<Begin>>)
  <2>1. ChatToGeminiFinish(m).t = u  BY <1>2 DEF ChatToGeminiFinish, Ended
  <2>2. m \in Mem /\ Veiled(m) /\ Written(m) = <<>> /\ <<>> \in Seq(Ev)  BY <1>2 DEF Fine, Written
  <2>3. Begin \in Ev /\ Begin.ev = "begin"  BY EventFacts
  <2>4. u \in Mem /\ Veiled(u) /\ Same(m, u) /\ Written(u) = Append(<<>>, Begin)
    BY <2>2, <2>3, PutOne
  <2> HIDE DEF u
  <2>5. Paired(<<>>) /\ GrowsOpen(<<>>) /\ OneBegin(<<>>) /\ NothingAfter(<<>>)
        /\ Calm(<<>>)
    BY DEF Paired, GrowsOpen, OneBegin, NothingAfter, Calm
  <2>6. Fits(<<>>, Begin) /\ GrowsBy(<<>>, Begin)  BY <2>3 DEF Fits, GrowsBy
  <2>7. Paired(Written(u)) /\ GrowsOpen(Written(u))
    BY <2>2, <2>3, <2>4, <2>5, <2>6, PairedGrows, GrowsOpenGrows
  <2>8. OneBegin(Written(u)) /\ NothingAfter(Written(u))  BY <2>2, <2>3, <2>4, <2>5, ReplyGrows
  <2>9. \A i \in DOMAIN u.tools : u.tools[i].at < u.next  BY <2>4 DEF Same, Fine
  <2> QED  BY <2>1, <2>4, <2>7, <2>8, <2>9 DEF Fine
<1> QED  BY <1>1, <1>2

-----------------------------------------------------------------------------
\* Forwarded streams.

\* Several events that close, behind a stream.
LEMMA ConcatFacts ==
    ASSUME NEW w \in Seq(Ev), NEW s \in Seq(Ev), NEW v, v = w \o s
    PROVE  /\ v \in Seq(Ev) /\ Len(w) \in Nat /\ DOMAIN w = 1 .. Len(w) /\ DOMAIN v = 1 .. Len(v)
           /\ Len(v) \in Nat /\ Len(w) <= Len(v)
           /\ \A i \in 1 .. Len(w) : v[i] = w[i] /\ i \in 1 .. Len(v)
           /\ \A i \in 1 .. Len(v) : i > Len(w) => i - Len(w) \in DOMAIN s /\ v[i] = s[i - Len(w)]
           /\ \A i \in DOMAIN s : Len(w) + i \in 1 .. Len(v) /\ v[Len(w) + i] = s[i]
           /\ \A i \in 1 .. Len(w) : SubSeq(v, 1, i - 1) = SubSeq(w, 1, i - 1)
<1>1. /\ v \in Seq(Ev) /\ Len(v) = Len(w) + Len(s) /\ Len(w) \in Nat /\ Len(s) \in Nat
      /\ DOMAIN s = 1 .. Len(s)
      /\ \A i \in 1 .. Len(w) + Len(s) : v[i] = IF i <= Len(w) THEN w[i] ELSE s[i - Len(w)]
  BY ConcatProperties
<1>2. \A i \in 1 .. Len(w) : v[i] = w[i] /\ i \in 1 .. Len(v)  BY <1>1
<1>3. ASSUME NEW i \in 1 .. Len(w) PROVE SubSeq(v, 1, i - 1) = SubSeq(w, 1, i - 1)
  <2> DEFINE m == i - 1
  <2>1. m \in 0 .. Len(w) /\ 1 .. m \subseteq 1 .. Len(w)  BY <1>1
  <2> HIDE DEF m
  <2>2. SubSeq(v, 1, m) = [j \in 1 .. m |-> w[j]]  BY <1>1, <1>2, <2>1
  <2>3. SubSeq(w, 1, m) = [j \in 1 .. m |-> w[j]]  BY <1>1, <2>1
  <2> QED  BY <2>2, <2>3 DEF m
<1> QED  BY <1>1, <1>2, <1>3

\* A row of closing events behind a forwarded stream.
LEMMA ManyClose ==
    ASSUME NEW w \in Seq(Ev), GrowsOpen(w), OneBegin(w), NothingAfter(w),
           NEW s \in Seq(Ev), \A i \in DOMAIN s : s[i].ev \in Closes
    PROVE  /\ GrowsOpen(w \o s) /\ OneBegin(w \o s) /\ NothingAfter(w \o s)
           /\ \A Z : Seen(w, Z) => Seen(w \o s, Z)
           /\ Says(s, "fail") => Says(w \o s, "fail")
           /\ (\A i \in DOMAIN s : s[i].ev # "whole") /\ Says(w \o s, "whole") => Says(w, "whole")
<1> DEFINE v == w \o s  l == Len(w)
<1>1. /\ v \in Seq(Ev) /\ l \in Nat /\ DOMAIN w = 1 .. l /\ DOMAIN v = 1 .. Len(v)
      /\ Len(v) \in Nat /\ l <= Len(v)
      /\ \A i \in 1 .. l : v[i] = w[i] /\ i \in 1 .. Len(v)
      /\ \A i \in 1 .. Len(v) : i > l => i - l \in DOMAIN s /\ v[i] = s[i - l]
      /\ \A i \in DOMAIN s : l + i \in 1 .. Len(v) /\ v[l + i] = s[i]
      /\ \A i \in 1 .. l : SubSeq(v, 1, i - 1) = SubSeq(w, 1, i - 1)
  BY ConcatFacts
<1> HIDE DEF v, l
<1>2. \A i \in DOMAIN v : i \in 1 .. l \/ (i > l /\ v[i].ev \in Closes)  BY <1>1
<1>3. GrowsOpen(v)
  <2> SUFFICES ASSUME NEW i \in DOMAIN v, v[i].ev = "piece", v[i].at # Loose
               PROVE  v[i].at \in OpenBlocks(SubSeq(v, 1, i - 1))
    BY DEF GrowsOpen
  <2>1. i \in 1 .. l  BY <1>2 DEF Closes
  <2> QED  BY <1>1, <2>1 DEF GrowsOpen
<1>4. OneBegin(v)  BY <1>1, <1>2 DEF OneBegin, Closes
<1>5. NothingAfter(v)
  <2> SUFFICES ASSUME NEW i \in DOMAIN v, NEW j \in DOMAIN v, i < j, v[i].ev \in Ends
               PROVE  v[j].ev \notin {"begin", "open", "piece"}
    BY DEF NothingAfter
  <2>1. CASE j \in 1 .. l
    <3>1. i \in 1 .. l  BY <1>1, <2>1
    <3> QED  BY <1>1, <2>1, <3>1 DEF NothingAfter
  <2>2. CASE v[j].ev \in Closes  BY <2>2 DEF Closes
  <2> QED  BY <1>2, <2>1, <2>2
<1>6. ASSUME NEW Z, Seen(w, Z) PROVE Seen(v, Z)
  <2>1. PICK i \in DOMAIN w : w[i] \in Z  BY <1>6 DEF Seen
  <2> QED  BY <1>1, <2>1 DEF Seen
<1>7. ASSUME Says(s, "fail") PROVE Says(v, "fail")
  <2>1. PICK i \in DOMAIN s : s[i].ev = "fail"  BY <1>7 DEF Says
  <2>2. l + i \in DOMAIN v /\ v[l + i].ev = "fail"  BY <1>1, <2>1
  <2> QED  BY <2>2 DEF Says
<1>8. ASSUME \A i \in DOMAIN s : s[i].ev # "whole", Says(v, "whole") PROVE Says(w, "whole")
  <2>1. PICK i \in DOMAIN v : v[i].ev = "whole"  BY <1>8 DEF Says
  <2>2. i \in 1 .. l  BY <1>1, <1>8, <2>1
  <2> QED  BY <1>1, <2>1, <2>2 DEF Says
<1> QED  BY <1>3, <1>4, <1>5, <1>6, <1>7, <1>8 DEF v

\* A frame forwarded, or the end the guard puts in its place.
LEMMA PassWrites ==
    ASSUME NEW m \in Mem, ~m.gated, NEW e \in Ev, NEW guarded, NEW together
    PROVE  LET u == PassFrame(m, e, guarded, together) IN
           /\ Guarded(m, e, guarded) \in Ev
           /\ u \in Mem /\ ~u.gated /\ u.tools = m.tools
           /\ u.wire = Append(m.wire, Guarded(m, e, guarded))
           /\ u.texted <=> m.texted \/ (e.ev = "open" /\ e.kind # "think")
<1> DEFINE x == Guarded(m, e, guarded)
           opening == m.wire = <<>> \/ (together /\ ~guarded /\ m.held = m.wire)
           h == IF opening THEN Append(m.held, x) ELSE m.held
           b == m.texted \/ (e.ev = "open" /\ e.kind # "think")
           p == Put(m, <<x>>)  u == PassFrame(m, e, guarded, together)
<1>1. x \in Ev  BY EventFacts DEF Guarded
<1>2. m.held \in Seq(Ev) /\ m.texted \in BOOLEAN  BY MemFacts
<1> HIDE DEF x
<1>3. h \in Seq(Ev) /\ b \in BOOLEAN  BY <1>1, <1>2
<1>4. Veiled(m)  BY DEF Veiled
<1>5. p \in Mem /\ p.gated = m.gated /\ Same(m, p) /\ Written(p) = Append(Written(m), x) /\ p.held = m.held
  BY <1>1, <1>4, PutOne, HeldStays
<1>6. u = [p EXCEPT !.held = IF opening THEN Append(@, x) ELSE @, !.begun = TRUE,
                    !.texted = @ \/ (e.ev = "open" /\ e.kind # "think")]
  BY DEF PassFrame, x
<1> HIDE DEF p, opening, u
<1>7. u = [p EXCEPT !.held = h, !.begun = TRUE, !.texted = b]  BY <1>5, <1>6 DEF Same
<1> HIDE DEF h, b
<1>8. /\ u \in Mem /\ u.wire = p.wire /\ u.gated = p.gated /\ u.tools = p.tools /\ u.texted = b
  BY <1>3, <1>5, <1>7 DEF Mem
<1>9. p.wire = Append(m.wire, x)  BY <1>5 DEF Written
<1> QED  BY <1>1, <1>5, <1>8, <1>9 DEF u, x, b, Same

\* One frame of a turn.
LEMMA PassGrows ==
    ASSUME NEW m, NEW sent, NEW guarded, PassSane(m, sent, guarded), NEW together,
           NEW e \in Ev, e.ev \in {"begin", "open", "piece", "shut"},
           e.ev = "begin" => m.wire = <<>>, GrowsBy(m.wire, e),
           NEW after, after.index \in Nat,
           \A at \in Names(Append(m.wire, e), "shut") : at < after.index,
           after.block # "none" => after.index \in OpenBlocks(Append(m.wire, e))
    PROVE  PassSane(PassFrame(m, e, guarded, together), after, guarded)
<1> DEFINE u == PassFrame(m, e, guarded, together)
<1>1. m \in Mem /\ ~m.gated /\ m.wire \in Seq(Ev)
  <2>1. m \in Mem /\ ~m.gated  BY DEF PassSane, PassFine
  <2> QED  BY <2>1, MemFacts
<1>2. Guarded(m, e, guarded) = e  BY DEF Guarded
<1>3. /\ u \in Mem /\ ~u.gated /\ u.tools = m.tools /\ u.wire = Append(m.wire, e)
      /\ u.texted <=> m.texted \/ (e.ev = "open" /\ e.kind # "think")
  BY <1>1, <1>2, PassWrites
<1> HIDE DEF u
<1>4. GrowsOpen(u.wire)  BY <1>1, <1>3, GrowsOpenGrows DEF PassSane, PassFine
<1>5. OneBegin(u.wire) /\ NothingAfter(u.wire) /\ Calm(u.wire)
  BY <1>1, <1>3, ReplyGrows DEF PassSane, PassFine, Ends
<1>6. ASSUME guarded, u.texted PROVE Seen(u.wire, Visible)
  <2>1. Seen(m.wire, Visible) \/ e \in Visible  BY <1>3, <1>6 DEF PassSane, Visible
  <2> QED  BY <1>1, <1>3, <2>1, SeenGrows
<1> QED  BY <1>3, <1>4, <1>5, <1>6 DEF PassSane, PassFine, u

\* message_start forwarded.
LEMMA PassBegins ==
    ASSUME NEW m, NEW sent, NEW guarded, PassSane(m, sent, guarded), m.wire = <<>>, NEW together,
           NEW after, after.index \in Nat, after.block = "none"
    PROVE  PassSane(PassFrame(m, Begin, guarded, together), after, guarded)
<1>1. Begin \in Ev /\ Begin.ev = "begin"  BY EventFacts
<1>2. GrowsBy(m.wire, Begin)  BY <1>1 DEF GrowsBy
<1>3. <<>> \in Seq(Ev) /\ Names(<<>>, "shut") = {}  BY DEF Names
<1>4. Names(Append(m.wire, Begin), "shut") = {}
  <2>1. Names(Append(<<>>, Begin), "shut")
          = Names(<<>>, "shut") \union (IF Begin.ev = "shut" THEN {Begin.at} ELSE {})
    BY <1>1, <1>3, NamesFacts
  <2> QED  BY <1>1, <1>3, <2>1
<1> QED  BY <1>1, <1>2, <1>4, PassGrows

\* A block forwarded as it opens.
LEMMA PassOpens ==
    ASSUME NEW m, NEW sent, NEW guarded, PassSane(m, sent, guarded), NEW together,
           NEW e \in Ev, e.ev = "open", e.at = sent.index,
           NEW after, after.index = sent.index
    PROVE  PassSane(PassFrame(m, e, guarded, together), after, guarded)
<1>1. m.wire \in Seq(Ev) /\ sent.index \in Nat
  <2>1. m \in Mem  BY DEF PassSane, PassFine
  <2>2. m.wire \in Seq(Ev)  BY <2>1, MemFacts
  <2> QED  BY <2>2 DEF PassSane
<1>2. GrowsBy(m.wire, e)  BY DEF GrowsBy
<1> DEFINE w == Append(m.wire, e)
<1>3. Names(w, "shut") = Names(m.wire, "shut")
  <2>1. Names(w, "shut") = Names(m.wire, "shut") \union (IF e.ev = "shut" THEN {e.at} ELSE {})
    BY <1>1, NamesFacts
  <2> HIDE DEF w
  <2> QED  BY <2>1
<1>4. Names(w, "open") = Names(m.wire, "open") \union {e.at}  BY <1>1, NamesFacts
<1>5. e.at \notin Names(m.wire, "shut")  BY <1>1 DEF PassSane
<1>6. after.index \in OpenBlocks(w)  BY <1>3, <1>4, <1>5 DEF OpenBlocks
<1>7. \A at \in Names(w, "shut") : at < after.index  BY <1>3 DEF PassSane
<1> HIDE DEF w
<1> QED  BY <1>1, <1>2, <1>6, <1>7, PassGrows DEF w

\* A piece of it.
LEMMA PassPieces ==
    ASSUME NEW m, NEW sent, NEW guarded, PassSane(m, sent, guarded), NEW together,
           sent.block # "none", NEW e \in Ev, e.ev = "piece", e.at = sent.index,
           NEW after, after.index = sent.index, after.block = sent.block
    PROVE  PassSane(PassFrame(m, e, guarded, together), after, guarded)
<1>1. m.wire \in Seq(Ev) /\ sent.index \in Nat
  <2>1. m \in Mem  BY DEF PassSane, PassFine
  <2>2. m.wire \in Seq(Ev)  BY <2>1, MemFacts
  <2> QED  BY <2>2 DEF PassSane
<1>2. GrowsBy(m.wire, e)  BY DEF GrowsBy, PassSane
<1> DEFINE w == Append(m.wire, e)
<1>3. Names(w, "shut") = Names(m.wire, "shut") /\ Names(w, "open") = Names(m.wire, "open")
  <2>1. Names(w, "shut") = Names(m.wire, "shut") \union (IF e.ev = "shut" THEN {e.at} ELSE {})
    BY <1>1, NamesFacts
  <2>2. Names(w, "open") = Names(m.wire, "open") \union (IF e.ev = "open" THEN {e.at} ELSE {})
    BY <1>1, NamesFacts
  <2> HIDE DEF w
  <2> QED  BY <2>1, <2>2
<1>4. after.index \in OpenBlocks(w) /\ \A at \in Names(w, "shut") : at < after.index
  BY <1>3 DEF OpenBlocks, PassSane
<1> HIDE DEF w
<1> QED  BY <1>1, <1>2, <1>4, PassGrows DEF w

\* Its stop.
LEMMA PassShuts ==
    ASSUME NEW m, NEW sent, NEW guarded, PassSane(m, sent, guarded), NEW together,
           NEW after, after.index = sent.index + 1, after.block = "none"
    PROVE  PassSane(PassFrame(m, Shut(sent.index), guarded, together), after, guarded)
<1> DEFINE e == Shut(sent.index)
<1>1. m.wire \in Seq(Ev) /\ sent.index \in Nat /\ Names(m.wire, "shut") \subseteq Int
  <2>1. m \in Mem  BY DEF PassSane, PassFine
  <2>2. m.wire \in Seq(Ev)  BY <2>1, MemFacts
  <2> QED  BY <2>2, NamesNumbers DEF PassSane
<1>2. e \in Ev /\ e.ev = "shut" /\ e.at = sent.index  BY <1>1, EventFacts
<1>3. GrowsBy(m.wire, e)  BY <1>2 DEF GrowsBy
<1> HIDE DEF e
<1>4. Names(Append(m.wire, e), "shut") = Names(m.wire, "shut") \union {sent.index}
  BY <1>1, <1>2, NamesFacts
<1>5. \A at \in Names(m.wire, "shut") : at < sent.index  BY DEF PassSane
<1>6. \A at \in Names(Append(m.wire, e), "shut") : at < after.index  BY <1>1, <1>4, <1>5
<1>7. after.index \in Nat  BY <1>1
<1>8. PassSane(PassFrame(m, e, guarded, together), after, guarded)
  BY <1>2, <1>3, <1>6, <1>7, PassGrows
<1> QED  BY <1>8 DEF e

\* The closing frame, or an error frame, forwarded.
LEMMA PassCloses ==
    ASSUME NEW m, NEW sent, NEW guarded, PassSane(m, sent, guarded), NEW e \in {Whole, Fail},
           NEW together
    PROVE  LET u == PassFrame(m, e, guarded, together) IN
           PassFine(u) /\ (guarded => Answered(u.wire))
<1> DEFINE x == Guarded(m, e, guarded)  u == PassFrame(m, e, guarded, together)
<1>1. PassFine(m) /\ Calm(m.wire) /\ (guarded /\ m.texted => Seen(m.wire, Visible))  BY DEF PassSane
<1>2. m \in Mem /\ ~m.gated /\ m.wire \in Seq(Ev)
  <2>1. m \in Mem /\ ~m.gated  BY <1>1 DEF PassFine
  <2> QED  BY <2>1, MemFacts
<1>3. e \in Ev /\ x \in {Whole, Fail} /\ (guarded /\ ~m.texted => x = Fail)
  <2>1. Whole.ev = "whole" /\ Fail.ev = "fail" /\ Whole \in Ev /\ Fail \in Ev  BY EventFacts
  <2> QED  BY <2>1 DEF Guarded
<1>4. x \in Ev /\ x.ev \in Closes /\ x.ev \notin {"begin", "open", "piece", "shut"} /\ GrowsBy(m.wire, x)
  <2>1. x \in Closing  BY <1>3 DEF Closing
  <2> QED  BY <2>1, ClosingFacts
<1>5. u \in Mem /\ ~u.gated /\ u.tools = m.tools /\ u.wire = Append(m.wire, x)
  BY <1>2, <1>3, PassWrites
<1> HIDE DEF u, x
<1>6. GrowsOpen(u.wire)  BY <1>1, <1>2, <1>4, <1>5, GrowsOpenGrows DEF PassFine
<1>7. OneBegin(u.wire) /\ NothingAfter(u.wire)  BY <1>1, <1>2, <1>4, <1>5, ReplyGrows DEF PassFine
<1>8. PassFine(u)  BY <1>1, <1>5, <1>6, <1>7 DEF PassFine
<1>9. ASSUME guarded PROVE Answered(u.wire)
  <2>1. CASE m.texted
    <3>1. Seen(u.wire, Visible)  BY <1>1, <1>2, <1>4, <1>5, <1>9, <2>1, SeenGrows
    <3> QED  BY <3>1 DEF Answered
  <2>2. CASE ~m.texted
    <3>1. u.wire = Append(m.wire, Fail)  BY <1>3, <1>5, <1>9, <2>2
    <3>2. ~Says(u.wire, "whole")  BY <1>1, <1>2, <3>1, CalmFacts
    <3> QED  BY <3>2 DEF Answered
  <2> QED  BY <2>1, <2>2
<1> QED  BY <1>8, <1>9 DEF u

\* The body ended before its time.
LEMMA OrdersList ==
    ASSUME NEW m \in Mem, NEW order \in PassOrders(m)
    PROVE  \E n \in Nat : order \in [1 .. n -> Int]
<1> DEFINE w == m.held  L == OpenBlocks(w)  n == Cardinality(L)
<1>1. w \in Seq(Ev)  BY MemFacts
<1>2. L \subseteq Int /\ IsFiniteSet(L)
  <2> DEFINE D == {j \in DOMAIN w : w[j].ev = "open"}
  <2>1. IsFiniteSet(DOMAIN w)
    <3>1. DOMAIN w = 1 .. Len(w) /\ Len(w) \in Nat  BY <1>1
    <3> QED  BY <3>1, FS_Interval
  <2>2. IsFiniteSet(D)  BY <2>1, FS_Subset
  <2>3. Names(w, "open") = {w[i].at : i \in D}  BY DEF Names
  <2> DEFINE T == Names(w, "open")  f == [i \in D |-> w[i].at]
  <2> HIDE DEF D
  <2>7. f \in Surjection(D, T)  BY <2>3 DEF Surjection
  <2> HIDE DEF T, f
  <2>4. IsFiniteSet(T)  BY <2>2, <2>7, FS_Surjection
  <2>5. L \subseteq Names(w, "open")  BY DEF OpenBlocks
  <2>6. Names(w, "open") \subseteq Int  BY <1>1, NamesNumbers
  <2> HIDE DEF L
  <2> QED  BY <2>4, <2>5, <2>6, FS_Subset DEF T
<1>3. n \in Nat  BY <1>2, FS_CardinalityType
<1>4. order \in [1 .. n -> L]  BY DEF PassOrders, SetToSeqs
<1> HIDE DEF L, n
<1> QED  BY <1>2, <1>3, <1>4

\* A forwarded stream cut short: the blocks of its opening shut, then the error.
LEMMA PassCuts ==
    ASSUME NEW m, PassFine(m), NEW order \in PassOrders(m), NEW guarded
    PROVE  LET u == PassCut(m, order, guarded).t IN
           PassFine(u) /\ Told(u.wire) /\ (Answered(m.wire) => Answered(u.wire))
<1>1. m \in Mem /\ ~m.gated /\ m.wire \in Seq(Ev) /\ Veiled(m)
  <2>1. m \in Mem /\ ~m.gated  BY DEF PassFine
  <2>2. m.wire \in Seq(Ev)  BY <2>1, MemFacts
  <2> QED  BY <2>1, <2>2 DEF Veiled
<1>2. CASE m.wire = <<>>
  <2>1. PassCut(m, order, guarded).t = m  BY <1>2 DEF PassCut, Ended
  <2> QED  BY <1>2, <2>1, NothingHeard
<1>3. CASE m.wire # <<>>
  <2> DEFINE x == Guarded(m, Over, guarded)  a == [i \in DOMAIN order |-> Shut(order[i])]
             b == <<Fail, x>>  s == a \o b  u == Put(m, s)
  <2>1. PassCut(m, order, guarded).t = u  BY <1>3 DEF PassCut, Ended
  <2>2. PICK n \in Nat : order \in [1 .. n -> Int]  BY <1>1, OrdersList
  <2>3. a \in Seq(Ev) /\ Len(a) = n /\ \A i \in 1 .. n : a[i].ev = "shut"
    <3>1. \A i \in 1 .. n : Shut(order[i]) \in Ev /\ Shut(order[i]).ev = "shut"  BY <2>2, EventFacts
    <3>2. a \in [1 .. n -> Ev] /\ \A i \in 1 .. n : a[i] = Shut(order[i])  BY <2>2, <3>1
    <3> HIDE DEF a
    <3> QED  BY <2>2, <3>1, <3>2
  <2> HIDE DEF a
  <2>4. x \in {Over, Fail} /\ Over \in Ev /\ Fail \in Ev /\ Over.ev = "over" /\ Fail.ev = "fail"
    BY EventFacts DEF Guarded
  <2> HIDE DEF x
  <2>5. b \in Seq(Ev) /\ Len(b) = 2 /\ b[1] = Fail /\ b[2] = x  BY <2>4
  <2> HIDE DEF b
  <2>6. /\ s \in Seq(Ev) /\ Len(s) = n + 2 /\ DOMAIN s = 1 .. n + 2
        /\ \A i \in 1 .. n + 2 : s[i] = IF i <= n THEN a[i] ELSE b[i - n]
    <3>1. /\ s \in Seq(Ev) /\ Len(s) = Len(a) + Len(b)
          /\ \A i \in 1 .. Len(a) + Len(b) : s[i] = IF i <= Len(a) THEN a[i] ELSE b[i - Len(a)]
      BY <2>3, <2>5, ConcatProperties
    <3> HIDE DEF s
    <3> QED  BY <2>2, <2>3, <2>5, <3>1
  <2> HIDE DEF s
  <2>7. \A i \in DOMAIN s : s[i].ev \in Closes /\ s[i].ev # "whole"
    <3> SUFFICES ASSUME NEW i \in DOMAIN s PROVE s[i].ev \in Closes /\ s[i].ev # "whole"  OBVIOUS
    <3>1. CASE i <= n
      <4>1. i \in 1 .. n /\ s[i] = a[i]  BY <2>2, <2>6, <3>1
      <4> QED  BY <2>3, <4>1 DEF Closes
    <3>2. CASE ~(i <= n)
      <4>1. s[i] = b[i - n] /\ (i - n = 1 \/ i - n = 2)  BY <2>2, <2>6, <3>2
      <4>2. s[i] \in {Over, Fail}  BY <2>4, <2>5, <4>1
      <4> QED  BY <2>4, <4>2 DEF Closes
    <3> QED  BY <3>1, <3>2
  <2>8. Says(s, "fail")
    <3>1. n + 1 \in DOMAIN s /\ s[n + 1] = b[1]
      <4>1. n + 1 \in 1 .. n + 2 /\ ~(n + 1 <= n) /\ (n + 1) - n = 1  BY <2>2
      <4> QED  BY <2>6, <4>1
    <3> QED  BY <2>4, <2>5, <3>1 DEF Says
  <2>9. /\ u \in Mem /\ ~u.gated /\ u.tools = m.tools /\ u.wire = m.wire \o s
    <3>1. u \in Mem /\ Same(m, u) /\ Written(u) = Written(m) \o s /\ u.gated = m.gated
      BY <1>1, <2>6, PutMany
    <3> HIDE DEF u
    <3>2. Written(m) = m.wire /\ Written(u) = u.wire  BY <1>1, <3>1 DEF Written
    <3> QED  BY <1>1, <3>1, <3>2 DEF Same
  <2> HIDE DEF u
  <2>10. /\ GrowsOpen(u.wire) /\ OneBegin(u.wire) /\ NothingAfter(u.wire) /\ Says(u.wire, "fail")
         /\ Says(u.wire, "whole") => Says(m.wire, "whole")
         /\ Seen(m.wire, Visible) => Seen(u.wire, Visible)
    <3> DEFINE w == m.wire
    <3>1. w \in Seq(Ev) /\ GrowsOpen(w) /\ OneBegin(w) /\ NothingAfter(w) /\ u.wire = w \o s
      BY <1>1, <2>9 DEF PassFine
    <3> HIDE DEF w
    <3>2. /\ GrowsOpen(w \o s) /\ OneBegin(w \o s) /\ NothingAfter(w \o s)
          /\ \A Z : Seen(w, Z) => Seen(w \o s, Z)
          /\ Says(s, "fail") => Says(w \o s, "fail")
          /\ (\A i \in DOMAIN s : s[i].ev # "whole") /\ Says(w \o s, "whole") => Says(w, "whole")
      BY <2>6, <2>7, <3>1, ManyClose
    <3> QED  BY <2>7, <2>8, <3>1, <3>2 DEF w
  <2>11. PassFine(u)  BY <2>9, <2>10 DEF PassFine
  <2> QED  BY <2>1, <2>10, <2>11 DEF Told, Answered
<1> QED  BY <1>2, <1>3

-----------------------------------------------------------------------------
\* The invariant.

\* The legs by name.
LEMMA LegsAre ==
    /\ Legs = {"ChatToClaude", "ChatToResponses", "ChatToGemini", "ResponsesToClaude", "ResponsesToChat",
               "ClaudeToResponses", "ClaudeToChat", "ClaudePass", "ClaudeOAuthPass"}
    /\ PassThrough = {"ClaudePass", "ClaudeOAuthPass"}
    /\ Routes \subseteq Legs
BY StreamAssumption DEF Legs, FromChat, FromResponses, FromClaude, PassThrough

\* Once the reply has ended, what was written is good for the leg.
LEMMA FineIsGood ==
    ASSUME NEW r, r \notin PassThrough, NEW m, Fine(m, r # "ChatToResponses"),
           r = "ChatToClaude" => ThinkFirst(Written(m))
    PROVE  Good(r, m)
BY DEF Fine, Good

\* The same for a forwarded stream.
LEMMA PassIsGood == ASSUME NEW r \in PassThrough, NEW m, PassFine(m) PROVE Good(r, m)
<1>1. m \in Mem /\ ~m.gated /\ m.tools = <<>> /\ GrowsOpen(m.wire) /\ OneBegin(m.wire) /\ NothingAfter(m.wire)
  BY DEF PassFine
<1>2. Veiled(m) /\ Written(m) = m.wire  BY <1>1 DEF Veiled, Written
<1>3. r # "ChatToClaude"  BY LegsAre
<1>4. \A i \in DOMAIN m.tools : m.tools[i].at < m.next
  <2>1. DOMAIN <<>> = {}  OBVIOUS
  <2> QED  BY <1>1, <2>1
<1> QED  BY <1>1, <1>2, <1>3, <1>4 DEF Good

\* While the upstream talks the memory is good, and nothing has been finished.
LEMMA LegIsGood ==
    ASSUME NEW r \in Legs, NEW m, NEW sent, LegSane(r, m, sent)
    PROVE  /\ Good(r, m) /\ Answered(m.wire)
           /\ r = "ChatToGemini" => Fine(m, TRUE) /\ ~m.gated
           /\ r \in PassThrough => PassFine(m)
<1>1. CASE r \in PassThrough
  <2>1. PassFine(m) /\ Calm(m.wire)  BY <1>1 DEF LegSane, PassSane
  <2>2. m.wire \in Seq(Ev)
    <3>1. m \in Mem  BY <2>1 DEF PassFine
    <3> QED  BY <3>1, MemFacts
  <2>3. Answered(m.wire)  BY <2>1, <2>2, CalmFacts DEF Answered
  <2>4. r # "ChatToGemini"  BY <1>1, LegsAre
  <2> QED  BY <1>1, <2>1, <2>3, <2>4, PassIsGood
<1>2. CASE r \notin PassThrough
  <2>1. Sane(m, r # "ChatToResponses") /\ (r = "ChatToClaude" => ThinkFirst(Written(m)))
    <3>1. CASE r = "ChatToClaude"  BY <3>1 DEF LegSane, Claude
    <3>2. CASE r = "ResponsesToClaude"  BY <3>2 DEF LegSane, Claude
    <3>3. CASE r = "ClaudeToResponses"  BY <3>3 DEF LegSane, Gated, Lidded
    <3>4. CASE r = "ChatToResponses"  BY <3>4 DEF LegSane, Messages
    <3>5. CASE r = "ClaudeToChat"  BY <3>5 DEF LegSane, ClaudeChat, Chat
    <3>6. CASE r = "ResponsesToChat"  BY <3>6 DEF LegSane, ResponsesChat, Chat
    <3>7. CASE r = "ChatToGemini"  BY <3>7 DEF LegSane, Chat
    <3> QED  BY <1>2, <3>1, <3>2, <3>3, <3>4, <3>5, <3>6, <3>7, LegsAre
  <2>2. Fine(m, r # "ChatToResponses") /\ Answered(Written(m))  BY <2>1, EndedFine
  <2>3. Good(r, m)  BY <1>2, <2>1, <2>2, FineIsGood
  <2>4. Answered(m.wire)
    <3>1. m.wire = IF m.gated THEN <<>> ELSE Written(m)
      <4>1. Veiled(m)  BY <2>1 DEF Sane
      <4> QED  BY <4>1, ShownIsWritten
    <3>2. Answered(<<>>)  BY CalmFacts DEF Answered
    <3> QED  BY <2>2, <3>1, <3>2
  <2>5. r = "ChatToGemini" => Fine(m, TRUE) /\ ~m.gated
    <3> SUFFICES ASSUME r = "ChatToGemini" PROVE Fine(m, TRUE) /\ ~m.gated  OBVIOUS
    <3>1. Chat(m) /\ ~m.gated  BY DEF LegSane
    <3> QED  BY <3>1, ChatToGeminiEnds
  <2> QED  BY <1>2, <2>3, <2>4, <2>5
<1> QED  BY <1>1, <1>2

\* A converter that has read nothing.
LEMMA FreshIsSane ==
    ASSUME NEW r \in Legs
    PROVE  LegSane(r, Fresh(r), NothingSent) /\ Fresh(r).wire = <<>>
<1> DEFINE m == Fresh(r)
<1>1. m = [wire |-> <<>>, held |-> <<>>, gated |-> (r = "ClaudeToResponses"), begun |-> FALSE,
           next |-> 0, open |-> {}, texted |-> FALSE, tools |-> <<>>]
  BY DEF Fresh, Memory
<1> HIDE DEF m
<1>2. /\ m.wire = <<>> /\ m.held = <<>> /\ m.gated = (r = "ClaudeToResponses") /\ m.begun = FALSE
      /\ m.next = 0 /\ m.open = {} /\ m.texted = FALSE /\ m.tools = <<>>
  BY <1>1
<1>3. m \in Mem
  <2>1. (r = "ClaudeToResponses") \in BOOLEAN /\ {} \in SUBSET Kinds /\ 0 \in Nat
        /\ <<>> \in Seq(Ev) /\ <<>> \in Seq(Tool)
    OBVIOUS
  <2> QED  BY <1>1, <2>1 DEF Mem
<1>4. Written(m) = <<>> /\ Veiled(m) /\ LiveTools(m) = {} /\ DOMAIN m.tools = {} /\ ~Cur(m)
  BY <1>2 DEF Written, Veiled, LiveTools, Cur
<1>5. Blocks(m) = {}  BY <1>4 DEF Blocks
<1>6. /\ Paired(<<>>) /\ GrowsOpen(<<>>) /\ OneBegin(<<>>) /\ NothingAfter(<<>>) /\ Calm(<<>>)
      /\ OpenBlocks(<<>>) = {} /\ Names(<<>>, "open") = {} /\ Names(<<>>, "shut") = {}
      /\ ThinkFirst(<<>>) /\ NoText(<<>>) /\ ~Seen(<<>>, Visible) /\ ~Seen(<<>>, Heard)
  BY DEF Paired, GrowsOpen, OneBegin, NothingAfter, Calm, OpenBlocks, Names, ThinkFirst, NoText, Seen
<1>7. Numbered(m)  BY <1>4, <1>6 DEF Numbered
<1>8. Sane(m, TRUE) /\ Sane(m, FALSE)  BY <1>3, <1>4, <1>5, <1>6, <1>7 DEF Sane
<1>9. Claude(m, TRUE) /\ Claude(m, FALSE)  BY <1>2, <1>4, <1>6, <1>8 DEF Claude
<1>10. r = "ClaudeToResponses" => Gated(m)  BY <1>2, <1>8 DEF Gated, Lidded
<1>11. Messages(m)  BY <1>2, <1>4, <1>8 DEF Messages
<1>12. Chat(m)  BY <1>2, <1>4, <1>8 DEF Chat
<1>13. ClaudeChat(m) /\ ResponsesChat(m)  BY <1>2, <1>4, <1>6, <1>12 DEF ClaudeChat, ResponsesChat
<1>14. r # "ClaudeToResponses" => ~m.gated  BY <1>2
<1>15. r \in PassThrough => PassSane(m, NothingSent, r = "ClaudeOAuthPass")
  <2>1. r \in PassThrough => r # "ClaudeToResponses"  BY LegsAre
  <2>2. r \in PassThrough => PassFine(m)  BY <1>2, <1>3, <1>6, <1>14, <2>1 DEF PassFine
  <2>3. NothingSent.index = 0 /\ NothingSent.block = "none"  BY DEF NothingSent
  <2> QED  BY <1>2, <1>6, <2>2, <2>3 DEF PassSane
<1> QED  BY <1>2, <1>9, <1>10, <1>11, <1>12, <1>13, <1>14, <1>15 DEF LegSane, m

\* An upstream that has sent nothing.
LEMMA NothingSentIsSent ==
    NothingSent \in Sent /\ NothingSent.frames = 0 /\ NothingSent.block = "none" /\ NothingSent.reason = "none"
BY DEF NothingSent, Sent, Reasons, Kinds

\* The invariant holds where the program starts.
LEMMA InitHolds == ASSUME Init PROVE IInv
<1>1. route \in Legs /\ route \in Routes  BY LegsAre DEF Init
<1>2. t = Fresh(route) /\ up = NothingSent /\ ending = "none"  BY DEF Init
<1>3. LegSane(route, t, up)  BY <1>1, <1>2, FreshIsSane
<1>4. Settings
  <2>1. MaxAttempts \in Nat \ {0}  BY StreamAssumption
  <2>2. 1 \in 1 .. MaxAttempts  BY <2>1
  <2>3. attempt \in 1 .. MaxAttempts  BY <2>2 DEF Init
  <2> QED  BY <1>1, <2>3 DEF Init, Settings
<1>5. Frames
  <2>1. MaxFrames[route] \in Nat  BY <1>1, StreamAssumption
  <2> QED  BY <1>2, <2>1, NothingSentIsSent DEF Frames
<1>6. Memories  BY <1>1, <1>2, <1>3, LegIsGood, NothingSentIsSent DEF Memories
<1>7. Reports  BY <1>1, <1>2, <1>3, LegIsGood DEF Reports, Tells
<1> QED  BY <1>4, <1>5, <1>6, <1>7 DEF IInv

-----------------------------------------------------------------------------
\* Shown or not.
LEMMA ShownIsBoolean == ASSUME NEW u PROVE Shown(u) \in BOOLEAN /\ ShownAtEnd(u) \in BOOLEAN
BY DEF Shown, ShownAtEnd

\* One frame read: the memory that follows it is the leg's again.
LEMMA FrameKeeps ==
    ASSUME IInv, NEW sent \in Sent, NEW u, Frame(sent, u), NEW after,
           after = [sent EXCEPT !.frames = @ + 1], sent.frames = up.frames, sent.reason = "none",
           sent.block = "tool" => sent.call \in Call, LegSane(route, u, after)
    PROVE  IInv'
<1>1. route \in Legs  BY LegsAre DEF IInv, Settings
<1>2. /\ Running /\ up.frames < MaxFrames[route] /\ up' = after /\ t' = u /\ committed' = Shown(u)
      /\ route' = route /\ behindLoop' = behindLoop /\ late' = late /\ base' = base
      /\ attempt' = attempt /\ ending' = ending
  BY DEF Frame
<1>3. MaxFrames[route] \in Nat /\ up.frames \in Nat  BY StreamAssumption DEF IInv, Settings, Frames, Sent
<1>4. /\ after \in Sent /\ after.frames = up.frames + 1 /\ after.reason = "none"
      /\ after.block = sent.block /\ after.call = sent.call
  BY <1>3 DEF Sent
<1>5. Settings'  BY <1>2, ShownIsBoolean DEF IInv, Settings
<1>6. Frames'  BY <1>2, <1>3, <1>4 DEF Frames
<1>7. Memories'
  <2>1. after.frames # 0  BY <1>3, <1>4
  <2> QED  BY <1>1, <1>2, <2>1, LegIsGood DEF Memories, Running
<1>8. Reports'  BY <1>1, <1>2, LegIsGood DEF Reports, Running, Tells
<1> QED  BY <1>5, <1>6, <1>7, <1>8 DEF IInv

\* The body ended: the attempt is reported, or asked again.
LEMMA SettleKeeps ==
    ASSUME IInv, NEW e, NEW how \in {"whole", "clean", "reset", "error"}, Settle(e, how), Good(route, e.t),
           Tells(how) => Told(e.t.wire),
           Guards(route) /\ up.reason = "end" => Answered(e.t.wire)
    PROVE  IInv'
<1> DEFINE shown == ShownAtEnd(e.t)
<1>1. route \in Legs /\ route' = route /\ behindLoop' = behindLoop /\ Running
  BY LegsAre DEF IInv, Settings, Settle
<1>2. shown \in BOOLEAN  BY ShownIsBoolean
<1>3. CASE MayRetry(e.err, shown)
  <2>1. /\ base' = base \o (IF shown THEN e.t.wire ELSE <<>>) /\ t' = Fresh(route)
        /\ up' = NothingSent /\ late' = FALSE /\ committed' = FALSE /\ attempt' = attempt + 1
        /\ ending' = ending
    BY <1>3 DEF Settle
  <2>2. ~shown /\ attempt < MaxAttempts  BY <1>3 DEF MayRetry
  <2> HIDE DEF shown
  <2>3. base' = <<>>  BY <2>1, <2>2 DEF IInv, Settings
  <2>4. LegSane(route, t', up')  BY <1>1, <2>1, FreshIsSane
  <2>5. Settings'
    <3>1. MaxAttempts \in Nat \ {0}  BY StreamAssumption
    <3>2. attempt \in 1 .. MaxAttempts  BY DEF IInv, Settings
    <3>3. attempt' \in 1 .. MaxAttempts  BY <2>1, <2>2, <3>1, <3>2
    <3> QED  BY <1>1, <2>1, <2>3, <3>3 DEF IInv, Settings
  <2>6. Frames'
    <3>1. MaxFrames[route] \in Nat  BY StreamAssumption DEF IInv, Settings
    <3> QED  BY <1>1, <2>1, <3>1, NothingSentIsSent DEF Frames
  <2>7. Memories'  BY <1>1, <2>1, <2>4, LegIsGood, NothingSentIsSent DEF Memories
  <2>8. Reports'  BY <1>1, <2>1, <2>4, LegIsGood DEF Reports, Running, Tells
  <2> QED  BY <2>5, <2>6, <2>7, <2>8 DEF IInv
<1>4. CASE ~MayRetry(e.err, shown)
  <2>1. /\ t' = e.t /\ committed' = shown /\ ending' = how /\ up' = up /\ base' = base
        /\ late' = late /\ attempt' = attempt
    BY <1>4 DEF Settle
  <2> HIDE DEF shown
  <2>2. Settings'  BY <1>1, <1>2, <2>1 DEF IInv, Settings
  <2>3. Frames'  BY <1>1, <2>1 DEF IInv, Frames
  <2>4. Memories'  BY <1>1, <2>1 DEF Memories, Running
  <2>5. Reports'  BY <1>1, <2>1 DEF Reports, Tells
  <2> QED  BY <2>2, <2>3, <2>4, <2>5 DEF IInv
<1> QED  BY <1>3, <1>4

-----------------------------------------------------------------------------
\* Every step keeps it.

\* The calls are the first numbers.
LEMMA CallNumbers ==
    /\ Cardinality(Call) \in Nat /\ IsFiniteSet(Call) /\ Call \subseteq Nat \ {0}
    /\ \A S \in SUBSET Call : IsFiniteSet(S) /\ Cardinality(S) \in 0 .. Cardinality(Call)
<1>1. IsFiniteSet(Call) /\ Call = 1 .. Cardinality(Call)  BY StreamAssumption
<1>2. Cardinality(Call) \in Nat  BY <1>1, FS_CardinalityType
<1>3. ASSUME NEW S \in SUBSET Call PROVE IsFiniteSet(S) /\ Cardinality(S) \in 0 .. Cardinality(Call)
  <2>1. IsFiniteSet(S) /\ Cardinality(S) <= Cardinality(Call)  BY <1>1, FS_Subset
  <2>2. Cardinality(S) \in Nat  BY <2>1, FS_CardinalityType
  <2> QED  BY <1>2, <2>1, <2>2
<1>4. Call \subseteq Nat \ {0}
  <2> DEFINE n == Cardinality(Call)
  <2>1. Call = 1 .. n  BY <1>1
  <2> HIDE DEF n
  <2> QED  BY <2>1
<1> QED  BY <1>1, <1>2, <1>3, <1>4

\* What is known while frames are read.
LEMMA WhileRead ==
    ASSUME IInv, NEW sent, NEW u, Frame(sent, u)
    PROVE  /\ Running /\ up.reason = "none" /\ up \in Sent /\ route \in Legs /\ LegSane(route, t, up)
           /\ up.block = "tool" => up.call \in Call
<1>1. Running /\ up.reason = "none"  BY DEF Frame
<1> QED  BY <1>1, LegsAre DEF IInv, Settings, Frames, Memories

\* What an upstream's frame marks leaves the rest as it was.
LEMMA SentFacts ==
    ASSUME NEW s \in Sent
    PROVE  /\ s.frames \in Nat /\ s.index \in Nat /\ s.call \in Call \union {0} /\ s.args \in [Call -> Nat]
           /\ s.block \in Kinds \union {"none"} /\ s.called \in SUBSET Call /\ s.over \in SUBSET Call
           /\ s.said \in SUBSET Call
           /\ LET a == [s EXCEPT !.frames = @ + 1] IN a.index = s.index /\ a.block = s.block
BY DEF Sent

\* Chat upstream: one chunk.
LEMMA ChatChunkKeeps == ASSUME IInv, NEW chunk \in Chunks, ChatChunk(chunk) PROVE IInv'
<1> DEFINE k == chunk.call
           a == [up.args EXCEPT ![k] = @ + chunk.args]
           o == IF chunk.json THEN up.over \union {k} ELSE up.over
           c == up.called \union {k}
           marked == [up EXCEPT !.called = c, !.args = a, !.over = o]
           sent == IF k = 0 THEN up ELSE marked
           u == CASE route = "ChatToClaude"    -> ChatToClaude(t, chunk)
                  [] route = "ChatToResponses" -> ChatToResponses(t, chunk)
                  [] OTHER                     -> ChatToGemini(t, chunk)
<1>1. chunk.call \in Call \union {0} /\ chunk.args \in 0 .. 1 /\ chunk.call \in Int /\ chunk.args \in Int
  <2>1. chunk.call \in Call \union {0} /\ chunk.args \in 0 .. 1  BY DEF Chunks
  <2>2. Call \subseteq Nat  BY CallNumbers
  <2>3. CASE chunk.call = 0  BY <2>1, <2>3
  <2>4. CASE chunk.call \in Call
    <3>1. chunk.call \in Nat  BY <2>2, <2>4
    <3>2. chunk.call \in Int  BY <3>1
    <3>3. chunk.args \in Int  BY <2>1
    <3> QED  BY <2>1, <3>2, <3>3
  <2> QED  BY <2>1, <2>3, <2>4
<1>2. route \in FromChat /\ Frame(sent, u)
  <2>1. sent = IF k = 0 THEN up
               ELSE [up EXCEPT !.called = @ \union {k}, !.args[k] = @ + chunk.args,
                               !.over = IF chunk.json THEN @ \union {k} ELSE @]
    OBVIOUS
  <2> HIDE DEF sent, u
  <2> QED  BY <2>1 DEF ChatChunk, sent, u
<1>3. up \in Sent /\ up.reason = "none" /\ LegSane(route, t, up) /\ (up.block = "tool" => up.call \in Call)
  BY <1>2, WhileRead
<1>4. k # 0 => k \in Call  BY <1>1
<1>5. k # 0 => a \in [Call -> Nat] /\ o \in SUBSET Call /\ c \in SUBSET Call
  <2>1. up.args \in [Call -> Nat] /\ up.over \in SUBSET Call /\ up.called \in SUBSET Call
    BY <1>3, SentFacts
  <2> SUFFICES ASSUME k # 0 PROVE a \in [Call -> Nat] /\ o \in SUBSET Call /\ c \in SUBSET Call  OBVIOUS
  <2>2. a \in [Call -> Nat]
    <3>1. up.args[k] + chunk.args \in Nat  BY <1>1, <1>4, <2>1
    <3> QED  BY <1>4, <2>1, <3>1
  <2>3. o \in SUBSET Call /\ c \in SUBSET Call  BY <1>4, <2>1
  <2> QED  BY <2>2, <2>3
<1> HIDE DEF a, o, c, k
<1>6. k # 0 => /\ marked \in Sent /\ marked.frames = up.frames /\ marked.reason = up.reason
               /\ marked.block = up.block /\ marked.call = up.call
  BY <1>3, <1>5 DEF Sent
<1> HIDE DEF marked
<1>7. /\ sent \in Sent /\ sent.frames = up.frames /\ sent.reason = "none"
      /\ sent.block = "tool" => sent.call \in Call
  BY <1>3, <1>6
<1>8. ASSUME NEW after PROVE LegSane(route, u, after)
  <2>1. CASE route = "ChatToClaude"
    <3>1. Claude(t, TRUE)  BY <1>3, <2>1 DEF LegSane
    <3>2. Claude(ChatToClaude(t, chunk), TRUE)  BY <1>1, <3>1, ChatToClaudeSteps
    <3> QED  BY <2>1, <3>2, LegsAre DEF LegSane
  <2>2. CASE route = "ChatToResponses"
    <3>1. Messages(t)  BY <1>3, <2>2 DEF LegSane
    <3>2. Messages(ChatToResponses(t, chunk))  BY <1>1, <3>1, ChatToResponsesSteps
    <3> QED  BY <2>2, <3>2, LegsAre DEF LegSane
  <2>3. CASE route = "ChatToGemini"
    <3>1. Chat(t) /\ ~t.gated  BY <1>3, <2>3 DEF LegSane
    <3>2. Chat(ChatToGemini(t, chunk)) /\ ~ChatToGemini(t, chunk).gated  BY <1>1, <3>1, ChatToGeminis
    <3> QED  BY <2>3, <3>2, LegsAre DEF LegSane
  <2> QED  BY <1>2, <2>1, <2>2, <2>3 DEF FromChat
<1> HIDE DEF sent, u
<1> QED  BY <1>2, <1>7, <1>8, FrameKeeps

-----------------------------------------------------------------------------
\* Claude upstream.
LEMMA MessageStartKeeps == ASSUME IInv, MessageStart PROVE IInv'
<1> DEFINE sent == [up EXCEPT !.index = 1]
           u == CASE route = "ClaudeToResponses" -> Started(t)
                  [] route = "ClaudeToChat"      -> t
                  [] OTHER                       -> Forwarded(Begin, FALSE)
<1>1. route \in FromClaude /\ up.frames = 0 /\ Frame(sent, u)  BY DEF MessageStart
<1>2. /\ up \in Sent /\ up.reason = "none" /\ LegSane(route, t, up) /\ Running
      /\ route \in Legs
  BY <1>1, WhileRead
<1>3. t = Fresh(route) /\ up.block = "none"  BY <1>1, <1>2 DEF IInv, Memories
<1>4. t.wire = <<>>  BY <1>2, <1>3, FreshIsSane
<1>5. 1 \in Nat  OBVIOUS
<1>6. /\ sent \in Sent /\ sent.frames = up.frames /\ sent.reason = "none"
      /\ sent.block = "none" /\ sent.index = 1
  BY <1>2, <1>3, <1>5 DEF Sent
<1> HIDE DEF sent
<1>7. ASSUME NEW after, after = [sent EXCEPT !.frames = @ + 1] PROVE LegSane(route, u, after)
  <2>1. CASE route = "ClaudeToResponses"
    <3>1. Gated(Started(t))  BY <1>2, <2>1, GatedStarts DEF LegSane
    <3> QED  BY <2>1, <3>1, LegsAre DEF LegSane
  <2>2. CASE route = "ClaudeToChat"
    <3>1. ClaudeChat(t)  BY <1>2, <2>2 DEF LegSane
    <3> QED  BY <2>2, <3>1, LegsAre DEF LegSane
  <2>3. CASE route \in PassThrough
    <3> DEFINE g == route = "ClaudeOAuthPass"
    <3>1. PassSane(t, up, g)  BY <1>2, <2>3 DEF LegSane
    <3>2. after.index = 1 /\ after.block = "none"  BY <1>6, <1>7, SentFacts
    <3>3. u = PassFrame(t, Begin, g, FALSE)  BY <2>3, LegsAre DEF Forwarded
    <3> HIDE DEF g, u
    <3>4. PassSane(u, after, g)  BY <1>4, <1>5, <3>1, <3>2, <3>3, PassBegins
    <3> QED  BY <2>3, <3>4, LegsAre DEF LegSane, g
  <2> QED  BY <1>1, <2>1, <2>2, <2>3 DEF FromClaude
<1> HIDE DEF u
<1>8. sent.block = "tool" => sent.call \in Call  BY <1>6
<1> QED  BY <1>1, <1>6, <1>7, <1>8, FrameKeeps

\* content_block_start.
LEMMA BlockStartKeeps ==
    ASSUME IInv, NEW kind \in Kinds, NEW together \in BOOLEAN, BlockStart(kind, together) PROVE IInv'
<1> DEFINE c == Cardinality(up.called) + 1
           x == IF kind = "tool" THEN c ELSE up.call
           s == IF kind = "tool" THEN up.called \union {c} ELSE up.called
           sent == [up EXCEPT !.block = kind, !.call = x, !.called = s]
           e == IF kind = "tool" THEN OpenTool(up.index, c) ELSE Open(up.index, kind)
           u == CASE route = "ClaudeToResponses" -> ClaudeToResponsesStart(t, up.index, kind, c)
                  [] route = "ClaudeToChat"      -> ClaudeToChatStart(t, kind, c)
                  [] OTHER -> Forwarded(e, together)
<1>1. route \in FromClaude /\ (kind = "tool" => c \in Call) /\ Frame(sent, u)
  <2>1. sent = [up EXCEPT !.block = kind, !.call = IF kind = "tool" THEN c ELSE @,
                        !.called = IF kind = "tool" THEN @ \union {c} ELSE @]
    OBVIOUS
  <2> HIDE DEF sent, u
  <2> QED  BY <2>1 DEF BlockStart, u, sent
<1>2. up \in Sent /\ up.reason = "none" /\ LegSane(route, t, up)  BY <1>1, WhileRead
<1>3. kind = "tool" => c \in Int  BY <1>1, CallNumbers
<1> HIDE DEF c
<1>4. x \in Call \union {0} /\ s \in SUBSET Call /\ (kind = "tool" => x \in Call)
  BY <1>1, <1>2, SentFacts
<1> HIDE DEF x, s
<1>5. /\ sent \in Sent /\ sent.frames = up.frames /\ sent.reason = "none"
      /\ sent.block = kind /\ sent.index = up.index /\ sent.call = x
  BY <1>2, <1>4 DEF Sent
<1> HIDE DEF sent
<1>6. up.index \in Int  BY <1>2, SentFacts
<1>7. e \in Ev /\ e.ev = "open" /\ e.at = up.index  BY <1>3, <1>6, EventFacts
<1>8. ASSUME NEW after, after = [sent EXCEPT !.frames = @ + 1] PROVE LegSane(route, u, after)
  <2>1. CASE route = "ClaudeToResponses"
    <3>1. Gated(t)  BY <1>2, <2>1 DEF LegSane
    <3>2. Gated(ClaudeToResponsesStart(t, up.index, kind, c))  BY <1>3, <1>6, <3>1, ClaudeToResponsesStarts
    <3> QED  BY <2>1, <3>2, LegsAre DEF LegSane
  <2>2. CASE route = "ClaudeToChat"
    <3>1. ClaudeChat(t)  BY <1>2, <2>2 DEF LegSane
    <3>2. ClaudeChat(ClaudeToChatStart(t, kind, c))  BY <1>3, <3>1, ClaudeToChatStarts
    <3> QED  BY <2>2, <3>2, LegsAre DEF LegSane
  <2>3. CASE route \in PassThrough
    <3> DEFINE g == route = "ClaudeOAuthPass"
    <3>1. PassSane(t, up, g)  BY <1>2, <2>3 DEF LegSane
    <3>2. after.index = up.index  BY <1>5, <1>8, SentFacts
    <3>3. u = PassFrame(t, e, g, together)  BY <2>3, LegsAre DEF Forwarded
    <3> HIDE DEF g, u, e
    <3>4. PassSane(u, after, g)  BY <1>7, <3>1, <3>2, <3>3, PassOpens
    <3> QED  BY <2>3, <3>4, LegsAre DEF LegSane, g
  <2> QED  BY <1>1, <2>1, <2>2, <2>3 DEF FromClaude
<1> HIDE DEF u
<1>9. sent.block = "tool" => sent.call \in Call  BY <1>4, <1>5
<1> QED  BY <1>1, <1>5, <1>8, <1>9, FrameKeeps

\* content_block_delta.
LEMMA BlockDeltaKeeps ==
    ASSUME IInv, NEW together \in BOOLEAN, BlockDelta(together) PROVE IInv'
<1> DEFINE a == [up.args EXCEPT ![up.call] = @ + 1]
           marked == [up EXCEPT !.args = a]
           sent == IF up.block = "tool" THEN marked ELSE up
           e == Piece(up.index, up.block, 1)
           u == CASE route = "ClaudeToResponses" -> ClaudeToResponsesDelta(t, up.index, up.block)
                  [] route = "ClaudeToChat"      -> ClaudeToChatDelta(t, up.block)
                  [] OTHER -> Forwarded(e, together)
<1>1. route \in FromClaude /\ up.block # "none" /\ Frame(sent, u)
  <2>1. sent = IF up.block = "tool" THEN [up EXCEPT !.args[up.call] = @ + 1] ELSE up
    OBVIOUS
  <2> HIDE DEF sent, u
  <2> QED  BY <2>1 DEF BlockDelta, u, sent
<1>2. /\ up \in Sent /\ up.reason = "none" /\ LegSane(route, t, up)
      /\ up.block = "tool" => up.call \in Call
  BY <1>1, WhileRead
<1>3. up.block \in Kinds /\ up.index \in Int /\ up.args \in [Call -> Nat]  BY <1>1, <1>2, SentFacts
<1>4. up.block = "tool" => a \in [Call -> Nat]
  <2> SUFFICES ASSUME up.block = "tool" PROVE a \in [Call -> Nat]  OBVIOUS
  <2>1. up.args[up.call] + 1 \in Nat  BY <1>2, <1>3
  <2> QED  BY <1>2, <1>3, <2>1
<1> HIDE DEF a
<1>5. up.block = "tool" => /\ marked \in Sent /\ marked.frames = up.frames /\ marked.reason = "none"
                           /\ marked.block = up.block /\ marked.index = up.index /\ marked.call = up.call
  BY <1>2, <1>4 DEF Sent
<1> HIDE DEF marked
<1>6. /\ sent \in Sent /\ sent.frames = up.frames /\ sent.reason = "none"
      /\ sent.block = up.block /\ sent.index = up.index /\ sent.call = up.call
  BY <1>2, <1>5
<1> HIDE DEF sent
<1>7. e \in Ev /\ e.ev = "piece" /\ e.at = up.index  BY <1>3, EventFacts
<1>8. ASSUME NEW after, after = [sent EXCEPT !.frames = @ + 1] PROVE LegSane(route, u, after)
  <2>1. CASE route = "ClaudeToResponses"
    <3>1. Gated(t)  BY <1>2, <2>1 DEF LegSane
    <3>2. Gated(ClaudeToResponsesDelta(t, up.index, up.block))  BY <1>3, <3>1, ClaudeToResponsesDeltas
    <3> QED  BY <2>1, <3>2, LegsAre DEF LegSane
  <2>2. CASE route = "ClaudeToChat"
    <3>1. ClaudeChat(t)  BY <1>2, <2>2 DEF LegSane
    <3>2. ClaudeChat(ClaudeToChatDelta(t, up.block))  BY <1>3, <3>1, ClaudeToChatDeltas
    <3> QED  BY <2>2, <3>2, LegsAre DEF LegSane
  <2>3. CASE route \in PassThrough
    <3> DEFINE g == route = "ClaudeOAuthPass"
    <3>1. PassSane(t, up, g)  BY <1>2, <2>3 DEF LegSane
    <3>2. after.index = up.index /\ after.block = up.block  BY <1>6, <1>8, SentFacts
    <3>3. u = PassFrame(t, e, g, together)  BY <2>3, LegsAre DEF Forwarded
    <3> HIDE DEF g, u, e
    <3>4. PassSane(u, after, g)  BY <1>1, <1>7, <3>1, <3>2, <3>3, PassPieces
    <3> QED  BY <2>3, <3>4, LegsAre DEF LegSane, g
  <2> QED  BY <1>1, <2>1, <2>2, <2>3 DEF FromClaude
<1> HIDE DEF u
<1>9. sent.block = "tool" => sent.call \in Call  BY <1>2, <1>6
<1> QED  BY <1>1, <1>6, <1>8, <1>9, FrameKeeps

\* content_block_stop.
LEMMA BlockStopKeeps ==
    ASSUME IInv, NEW together \in BOOLEAN, BlockStop(together) PROVE IInv'
<1> DEFINE n == up.index + 1
           sent == [up EXCEPT !.block = "none", !.index = n]
           e == Shut(up.index)
           u == CASE route = "ClaudeToResponses" -> ClaudeToResponsesStop(t, up.index)
                  [] route = "ClaudeToChat"      -> ClaudeToChatStop(t)
                  [] OTHER -> Forwarded(e, together)
<1>1. route \in FromClaude /\ Frame(sent, u)
  <2>1. sent = [up EXCEPT !.block = "none", !.index = @ + 1]  OBVIOUS
  <2> HIDE DEF sent, u
  <2> QED  BY <2>1 DEF BlockStop, u, sent
<1>2. up \in Sent /\ up.reason = "none" /\ LegSane(route, t, up)  BY <1>1, WhileRead
<1>3. n \in Nat  BY <1>2, SentFacts
<1> HIDE DEF n
<1>4. /\ sent \in Sent /\ sent.frames = up.frames /\ sent.reason = "none"
      /\ sent.block = "none" /\ sent.index = n
  BY <1>2, <1>3 DEF Sent
<1> HIDE DEF sent
<1>5. ASSUME NEW after, after = [sent EXCEPT !.frames = @ + 1] PROVE LegSane(route, u, after)
  <2>1. CASE route = "ClaudeToResponses"
    <3>1. Gated(t)  BY <1>2, <2>1 DEF LegSane
    <3>2. Gated(ClaudeToResponsesStop(t, up.index))  BY <3>1, ClaudeToResponsesStops
    <3> QED  BY <2>1, <3>2, LegsAre DEF LegSane
  <2>2. CASE route = "ClaudeToChat"
    <3>1. ClaudeChat(t)  BY <1>2, <2>2 DEF LegSane
    <3>2. ClaudeChat(ClaudeToChatStop(t))  BY <3>1, ClaudeToChatStops
    <3> QED  BY <2>2, <3>2, LegsAre DEF LegSane
  <2>3. CASE route \in PassThrough
    <3> DEFINE g == route = "ClaudeOAuthPass"
    <3>1. PassSane(t, up, g)  BY <1>2, <2>3 DEF LegSane
    <3>2. after.index = up.index + 1 /\ after.block = "none"  BY <1>4, <1>5, SentFacts DEF n
    <3>3. u = PassFrame(t, e, g, together)  BY <2>3, LegsAre DEF Forwarded
    <3> HIDE DEF g, u
    <3>4. PassSane(u, after, g)  BY <3>1, <3>2, <3>3, PassShuts
    <3> QED  BY <2>3, <3>4, LegsAre DEF LegSane, g
  <2> QED  BY <1>1, <2>1, <2>2, <2>3 DEF FromClaude
<1> HIDE DEF u
<1>6. sent.block = "tool" => sent.call \in Call  BY <1>4
<1> QED  BY <1>1, <1>4, <1>5, <1>6, FrameKeeps

-----------------------------------------------------------------------------
\* Responses upstream.
LEMMA ItemKeeps ==
    ASSUME IInv, route \in FromResponses, NEW sent \in Sent, NEW u, Frame(sent, u),
           sent.frames = up.frames, sent.reason = up.reason, sent.block = up.block, sent.call = up.call,
           route = "ResponsesToClaude" /\ Claude(t, FALSE) => Claude(u, FALSE),
           route = "ResponsesToChat" /\ ResponsesChat(t) => ResponsesChat(u)
    PROVE  IInv'
<1>1. up \in Sent /\ up.reason = "none" /\ LegSane(route, t, up) /\ (up.block = "tool" => up.call \in Call)
  BY WhileRead
<1>2. ASSUME NEW after PROVE LegSane(route, u, after)
  <2>1. CASE route = "ResponsesToClaude"
    <3>1. Claude(u, FALSE)  BY <1>1, <2>1 DEF LegSane
    <3> QED  BY <2>1, <3>1, LegsAre DEF LegSane
  <2>2. CASE route = "ResponsesToChat"
    <3>1. ResponsesChat(u)  BY <1>1, <2>2 DEF LegSane
    <3> QED  BY <2>2, <3>1, LegsAre DEF LegSane
  <2> QED  BY <2>1, <2>2 DEF FromResponses
<1> QED  BY <1>1, <1>2, FrameKeeps

\* Text and reasoning.
LEMMA ItemDeltaKeeps == ASSUME IInv, NEW kind \in {"text", "think"}, ItemDelta(kind) PROVE IInv'
<1> DEFINE u == IF route = "ResponsesToClaude" THEN ResponsesToClaudeDelta(t, kind)
                ELSE ResponsesToChatDelta(t, kind)
<1>1. route \in FromResponses /\ Frame(up, u)  BY DEF ItemDelta
<1>2. up \in Sent  BY <1>1, WhileRead
<1>3. route = "ResponsesToClaude" /\ Claude(t, FALSE) => Claude(u, FALSE)  BY ResponsesToClaudeSteps
<1>4. route = "ResponsesToChat" /\ ResponsesChat(t) => ResponsesChat(u)  BY ResponsesToChatDeltas
<1> HIDE DEF u
<1> QED  BY <1>1, <1>2, <1>3, <1>4, ItemKeeps

\* Encrypted reasoning.
LEMMA SealedReasoningKeeps == ASSUME IInv, SealedReasoning PROVE IInv'
<1> DEFINE u == ResponsesToClaudeSealed(t)
<1>1. route = "ResponsesToClaude" /\ Frame(up, u)  BY DEF SealedReasoning
<1>2. up \in Sent  BY <1>1, WhileRead
<1>3. Claude(t, FALSE) => Claude(u, FALSE)  BY ResponsesToClaudeSteps
<1> HIDE DEF u
<1>4. route \in FromResponses  BY <1>1 DEF FromResponses
<1> QED  BY <1>1, <1>2, <1>3, <1>4, ItemKeeps

\* A function call is added.
LEMMA CallAddedKeeps == ASSUME IInv, NEW c \in Call, CallAdded(c) PROVE IInv'
<1> DEFINE k == up.called \union {c}
           sent == [up EXCEPT !.called = k]
           u == IF route = "ResponsesToClaude" THEN ResponsesToClaudeCall(t, c)
                ELSE ResponsesToChatCall(t, c)
<1>1. route \in FromResponses /\ Frame(sent, u)
  <2>1. sent = [up EXCEPT !.called = @ \union {c}]  OBVIOUS
  <2> HIDE DEF sent, u
  <2> QED  BY <2>1 DEF CallAdded, u, sent
<1>2. up \in Sent  BY <1>1, WhileRead
<1>3. k \in SUBSET Call  BY <1>2, SentFacts
<1> HIDE DEF k
<1>4. /\ sent \in Sent /\ sent.frames = up.frames /\ sent.reason = up.reason
      /\ sent.block = up.block /\ sent.call = up.call
  BY <1>2, <1>3 DEF Sent
<1>5. c \in Int  BY CallNumbers
<1>6. route = "ResponsesToClaude" /\ Claude(t, FALSE) => Claude(u, FALSE)
  BY <1>5, ResponsesToClaudeSteps
<1>7. route = "ResponsesToChat" /\ ResponsesChat(t) => ResponsesChat(u)
  BY <1>5, ResponsesToChatCalls
<1> HIDE DEF u, sent
<1> QED  BY <1>1, <1>4, <1>6, <1>7, ItemKeeps

\* It gets arguments.
LEMMA CallDeltaKeeps == ASSUME IInv, NEW c \in Call, CallDelta(c) PROVE IInv'
<1> DEFINE a == [up.args EXCEPT ![c] = @ + 1]
           sent == [up EXCEPT !.args = a]
           u == IF route = "ResponsesToClaude" THEN ResponsesToClaudeArgs(t, c)
                ELSE ResponsesToChatArgs(t, c)
<1>1. route \in FromResponses /\ Frame(sent, u)
  <2>1. sent = [up EXCEPT !.args[c] = @ + 1]  OBVIOUS
  <2> HIDE DEF sent, u
  <2> QED  BY <2>1 DEF CallDelta, u, sent
<1>2. up \in Sent  BY <1>1, WhileRead
<1>3. a \in [Call -> Nat]
  <2>1. up.args \in [Call -> Nat]  BY <1>2, SentFacts
  <2>2. up.args[c] + 1 \in Nat  BY <2>1
  <2> QED  BY <2>1, <2>2
<1> HIDE DEF a
<1>4. /\ sent \in Sent /\ sent.frames = up.frames /\ sent.reason = up.reason
      /\ sent.block = up.block /\ sent.call = up.call
  BY <1>2, <1>3 DEF Sent
<1>5. c \in Int  BY CallNumbers
<1>6. route = "ResponsesToClaude" /\ Claude(t, FALSE) => Claude(u, FALSE)
  BY <1>5, ResponsesToClaudeSteps
<1>7. route = "ResponsesToChat" /\ ResponsesChat(t) => ResponsesChat(u)
  BY <1>5, ResponsesToChatArguments
<1> HIDE DEF u, sent
<1> QED  BY <1>1, <1>4, <1>6, <1>7, ItemKeeps

\* Its arguments are repeated whole.
LEMMA CallSaidKeeps ==
    ASSUME IInv, NEW c \in Call, NEW all \in 0 .. MaxFrames[route], CallSaid(c, all) PROVE IInv'
<1> DEFINE a == [up.args EXCEPT ![c] = all]
           k == up.said \union {c}
           sent == [up EXCEPT !.said = k, !.args = a]
           u == IF route = "ResponsesToClaude" THEN ResponsesToClaudeSaid(t, c, all)
                ELSE ResponsesToChatDone(t, c, all)
<1>1. route \in FromResponses /\ Frame(sent, u)
  <2>1. sent = [up EXCEPT !.said = @ \union {c}, !.args[c] = all]  OBVIOUS
  <2> HIDE DEF sent, u
  <2> QED  BY <2>1 DEF CallSaid, u, sent
<1>2. up \in Sent  BY <1>1, WhileRead
<1>3. all \in Nat /\ all \in Int
  <2>1. MaxFrames[route] \in Nat  BY StreamAssumption DEF IInv, Settings
  <2> QED  BY <2>1
<1>4. a \in [Call -> Nat] /\ k \in SUBSET Call
  <2>1. up.args \in [Call -> Nat] /\ up.said \in SUBSET Call  BY <1>2, SentFacts
  <2> QED  BY <1>3, <2>1
<1> HIDE DEF a, k
<1>5. /\ sent \in Sent /\ sent.frames = up.frames /\ sent.reason = up.reason
      /\ sent.block = up.block /\ sent.call = up.call
  BY <1>2, <1>4 DEF Sent
<1>6. c \in Int  BY CallNumbers
<1>7. route = "ResponsesToClaude" /\ Claude(t, FALSE) => Claude(u, FALSE)
  BY <1>3, ResponsesToClaudeSaids
<1>8. route = "ResponsesToChat" /\ ResponsesChat(t) => ResponsesChat(u)
  BY <1>3, <1>6, ResponsesToChatDones
<1> HIDE DEF u, sent
<1> QED  BY <1>1, <1>5, <1>7, <1>8, ItemKeeps

\* Its item is done.
LEMMA CallDoneKeeps ==
    ASSUME IInv, NEW c \in Call, NEW all \in 0 .. MaxFrames[route], CallDone(c, all) PROVE IInv'
<1> DEFINE a == [up.args EXCEPT ![c] = all]
           k == up.said \union {c}
           o == up.over \union {c}
           sent == [up EXCEPT !.said = k, !.over = o, !.args = a]
           u == IF route = "ResponsesToClaude" THEN ResponsesToClaudeDone(t, c, all)
                ELSE ResponsesToChatDone(t, c, all)
<1>1. route \in FromResponses /\ Frame(sent, u)
  <2>1. sent = [up EXCEPT !.said = @ \union {c}, !.over = @ \union {c}, !.args[c] = all]  OBVIOUS
  <2> HIDE DEF sent, u
  <2> QED  BY <2>1 DEF CallDone, u, sent
<1>2. up \in Sent  BY <1>1, WhileRead
<1>3. all \in Nat /\ all \in Int
  <2>1. MaxFrames[route] \in Nat  BY StreamAssumption DEF IInv, Settings
  <2> QED  BY <2>1
<1>4. a \in [Call -> Nat] /\ k \in SUBSET Call /\ o \in SUBSET Call
  <2>1. up.args \in [Call -> Nat] /\ up.said \in SUBSET Call /\ up.over \in SUBSET Call
    BY <1>2, SentFacts
  <2> QED  BY <1>3, <2>1
<1> HIDE DEF a, k, o
<1>5. /\ sent \in Sent /\ sent.frames = up.frames /\ sent.reason = up.reason
      /\ sent.block = up.block /\ sent.call = up.call
  BY <1>2, <1>4 DEF Sent
<1>6. c \in Int  BY CallNumbers
<1>7. route = "ResponsesToClaude" /\ Claude(t, FALSE) => Claude(u, FALSE)
  BY <1>3, ResponsesToClaudeDones
<1>8. route = "ResponsesToChat" /\ ResponsesChat(t) => ResponsesChat(u)
  BY <1>3, <1>6, ResponsesToChatDones
<1> HIDE DEF u, sent
<1> QED  BY <1>1, <1>5, <1>7, <1>8, ItemKeeps

-----------------------------------------------------------------------------
\* The closing frame.
LEMMA ClosingFrameKeeps ==
    ASSUME IInv, NEW reason \in Reasons, NEW together \in BOOLEAN, ClosingFrame(reason, together)
    PROVE  IInv'
<1> DEFINE u == CASE route \in PassThrough     -> Forwarded(Whole, together)
                  [] route = "ChatToGemini"    -> ChatToGeminiReason(t)
                  [] route = "ResponsesToChat" -> CompletedCalls
                  [] OTHER -> t
           sent == [up EXCEPT !.reason = reason]
<1>1. /\ Running /\ up.reason = "none" /\ up' = sent /\ t' = u /\ committed' = Shown(t')
      /\ route' = route /\ behindLoop' = behindLoop /\ late' = late /\ base' = base
      /\ attempt' = attempt /\ ending' = ending
  BY DEF ClosingFrame
<1>2. route \in Legs /\ LegSane(route, t, up) /\ up \in Sent /\ up.frames <= MaxFrames[route]
      /\ (up.block = "tool" => up.call \in Call)
  BY <1>1, LegsAre DEF IInv, Settings, Frames, Memories
<1>3. /\ sent \in Sent /\ sent.reason = reason /\ sent.reason # "none" /\ sent.frames = up.frames
      /\ sent.block = up.block /\ sent.call = up.call
  BY <1>2 DEF Sent, Reasons
<1> HIDE DEF sent
<1>4. CASE route \in PassThrough
  <2> DEFINE g == route = "ClaudeOAuthPass"
  <2>1. u = PassFrame(t, Whole, g, together)
    <3>1. u = Forwarded(Whole, together)  BY <1>4, LegsAre
    <3> QED  BY <3>1 DEF Forwarded
  <2>2. PassSane(t, up, g)  BY <1>2, <1>4 DEF LegSane
  <2> HIDE DEF u, g
  <2>3. PassFine(u) /\ (g => Answered(u.wire))  BY <2>1, <2>2, PassCloses
  <2>4. Good(route, u)  BY <1>4, <2>3, PassIsGood
  <2>5. Guards(route) => Answered(u.wire)  BY <1>4, <2>3, LegsAre DEF Guards, g
  <2>6. route # "ChatToGemini"  BY <1>4, LegsAre
  <2>7. Settings'  BY <1>1, ShownIsBoolean DEF IInv, Settings
  <2>8. Frames'  BY <1>1, <1>2, <1>3 DEF Frames
  <2>9. Memories'  BY <1>1, <1>3, <1>4, <2>3, <2>4, <2>6 DEF Memories
  <2>10. Reports'  BY <1>1, <2>5 DEF Reports, Running, Tells
  <2> QED  BY <2>7, <2>8, <2>9, <2>10 DEF IInv
<1>5. CASE route = "ChatToGemini"
  <2>1. u = ChatToGeminiReason(t)
    <3>1. route \notin PassThrough  BY <1>5, LegsAre
    <3> QED  BY <1>5, <3>1
  <2>2. Chat(t) /\ ~t.gated  BY <1>2, <1>5 DEF LegSane
  <2> HIDE DEF u
  <2>3. Fine(u, TRUE)  BY <2>1, <2>2, ChatToGeminiEnds
  <2>4. ~u.gated
    <3>1. u = Put(t, <<Whole>>) /\ t \in Mem  BY <2>1, <2>2 DEF ChatToGeminiReason, Chat, Sane
    <3> QED  BY <2>2, <3>1 DEF Put, Mem
  <2>5. Good(route, u)
    <3>1. (route # "ChatToResponses") = TRUE /\ route \notin PassThrough /\ route # "ChatToClaude"
      BY <1>5, LegsAre
    <3>2. Fine(u, route # "ChatToResponses")  BY <2>3, <3>1
    <3> QED  BY <3>1, <3>2, FineIsGood
  <2>6. route \notin PassThrough /\ ~Guards(route)
    BY <1>5, LegsAre DEF Guards, FromClaude
  <2>7. Settings'  BY <1>1, ShownIsBoolean DEF IInv, Settings
  <2>8. Frames'  BY <1>1, <1>2, <1>3 DEF Frames
  <2>9. Memories'  BY <1>1, <1>3, <1>5, <2>3, <2>4, <2>5, <2>6 DEF Memories
  <2>10. Reports'  BY <1>1, <2>6 DEF Reports, Running, Tells
  <2> QED  BY <2>7, <2>8, <2>9, <2>10 DEF IInv
<1>6. CASE route \notin {"ChatToGemini"} \union PassThrough
  <2>1. LegSane(route, u, sent)
    <3>1. CASE route = "ResponsesToChat"
      <4>1. ResponsesChat(t)  BY <1>2, <3>1 DEF LegSane
      <4>2. Cardinality(up.called) \in Nat /\ \A c \in 1 .. Cardinality(up.called) : up.args[c] \in Int
        <5> DEFINE n == Cardinality(up.called)
        <5>1. up.called \in SUBSET Call /\ up.args \in [Call -> Nat]  BY <1>2, SentFacts
        <5>2. Cardinality(Call) \in Nat /\ n \in 0 .. Cardinality(Call)  BY <5>1, CallNumbers
        <5>3. Call = 1 .. Cardinality(Call)  BY StreamAssumption
        <5> HIDE DEF n
        <5>4. 1 .. n \subseteq 1 .. Cardinality(Call)  BY <5>2
        <5>5. \A c \in 1 .. n : c \in Call  BY <5>3, <5>4
        <5>6. \A c \in 1 .. n : up.args[c] \in Int
          <6>1. \A c \in Call : up.args[c] \in Nat  BY <5>1
          <6>2. Nat \subseteq Int  OBVIOUS
          <6> QED  BY <5>5, <6>1, <6>2
        <5>7. n \in Nat  BY <5>2
        <5> QED  BY <5>6, <5>7 DEF n
      <4>3. ResponsesChat(CompletedCalls)  BY <4>1, <4>2, AllCallsCompleted
      <4>4. u = CompletedCalls  BY <1>6, <3>1
      <4> HIDE DEF u
      <4> QED  BY <1>6, <3>1, <4>3, <4>4 DEF LegSane
    <3>2. CASE route # "ResponsesToChat"
      <4>1. u = t  BY <1>6, <3>2
      <4> HIDE DEF u
      <4> QED  BY <1>2, <1>6, <4>1 DEF LegSane
    <3> QED  BY <3>1, <3>2
  <2> HIDE DEF u
  <2>2. Good(route, u) /\ Answered(u.wire)  BY <1>2, <2>1, LegIsGood
  <2>7. Settings'  BY <1>1, ShownIsBoolean DEF IInv, Settings
  <2>8. Frames'  BY <1>1, <1>2, <1>3 DEF Frames
  <2>9. Memories'  BY <1>1, <1>3, <1>6, <2>1, <2>2 DEF Memories
  <2>10. Reports'  BY <1>1, <2>2 DEF Reports, Running, Tells
  <2> QED  BY <2>7, <2>8, <2>9, <2>10 DEF IInv
<1> QED  BY <1>4, <1>5, <1>6

-----------------------------------------------------------------------------
\* What is known of the memory when the body ends.
LEMMA AtEnd ==
    ASSUME IInv, Running
    PROVE  /\ route \in Legs /\ Good(route, t) /\ t \in Mem
           /\ up.reason = "none" \/ route \notin {"ChatToGemini"} \union PassThrough => LegSane(route, t, up)
           /\ route = "ChatToGemini" => Fine(t, TRUE) /\ ~t.gated
           /\ route \in PassThrough => PassFine(t)
           /\ Guards(route) /\ up.reason = "end" => Answered(t.wire)
BY LegsAre DEF IInv, Settings, Memories, Reports, Good

\* What a converter has written to the end may be reported.
Settled(u, how) ==
    /\ Good(route, u)
    /\ Tells(how) => Told(u.wire)
    /\ Guards(route) /\ up.reason = "end" => Answered(u.wire)

\* A memory fit to be left may be reported.
LEMMA FineSettles ==
    ASSUME route \notin PassThrough, NEW u, Fine(u, route # "ChatToResponses"),
           route = "ChatToClaude" => ThinkFirst(Written(u)), NEW how,
           Tells(how) => Told(u.wire) \/ Told(Written(u)),
           Guards(route) /\ up.reason = "end" => Answered(u.wire) \/ Answered(Written(u))
    PROVE  Settled(u, how)
<1>1. Good(route, u)  BY FineIsGood
<1>2. u.wire = IF u.gated THEN <<>> ELSE Written(u)
  <2>1. Veiled(u)  BY DEF Fine
  <2> QED  BY <2>1, ShownIsWritten
<1>3. Answered(<<>>) /\ Told(<<>>)  BY CalmFacts, NothingHeard DEF Answered
<1>4. (Told(Written(u)) => Told(u.wire)) /\ (Answered(Written(u)) => Answered(u.wire))
  BY <1>2, <1>3
<1> QED  BY <1>1, <1>4 DEF Settled

\* The legs that hold an empty turn back.
LEMMA GuardedLegs ==
    /\ Guards(route) <=> route \in {"ClaudeToResponses", "ClaudeToChat", "ClaudeOAuthPass"}
    /\ "ClaudeToChat" \notin PassThrough /\ "ClaudeToResponses" \notin PassThrough
    /\ "ClaudeOAuthPass" \in PassThrough
BY DEF Guards, FromClaude, PassThrough

\* A Claude answer to its end.
LEMMA ClaudeOverSettles ==
    ASSUME NEW m, NEW u, ClaudeOver(m, u, route = "ChatToClaude"), NEW how,
           route \in {"ChatToClaude", "ResponsesToClaude"}, how = "clean" => Told(Written(u))
    PROVE  Settled(u, how)
<1>1. Fine(u, TRUE) /\ (route = "ChatToClaude" => ThinkFirst(Written(u)))  BY DEF ClaudeOver
<1>2. route \notin PassThrough /\ ~Guards(route) /\ route # "ChatToResponses"
  BY LegsAre, GuardedLegs
<1>3. Fine(u, route # "ChatToResponses")
  <2>1. (route # "ChatToResponses") = TRUE  BY <1>2
  <2> QED  BY <1>1, <2>1
<1>4. Tells(how) => how = "clean"  BY LegsAre DEF Tells, TellReset
<1> QED  BY <1>1, <1>2, <1>3, <1>4, FineSettles

\* The body ended with its closing frame.
LEMMA EndWholeKeeps == ASSUME IInv, EndWhole PROVE IInv'
<1>1. PICK order \in AnyOrder(t) :
         Settle(CASE route = "ChatToClaude"      -> ClaudeFinish(t, InOrder(t))
                  [] route = "ResponsesToClaude" -> ClaudeFinish(t, order)
                  [] route = "ClaudeToResponses" -> ClaudeToResponsesFinish(t, order, up.reason)
                  [] route = "ChatToResponses"   -> ChatToResponsesFinish(t)
                  [] route = "ClaudeToChat"      -> ClaudeToChatFinish(t, up.reason)
                  [] route = "ResponsesToChat"   -> ResponsesToChatFinish(t)
                  [] route = "ChatToGemini"      -> ChatToGeminiFinish(t)
                  [] OTHER                       -> Ended(t, "none"), "whole")
  BY DEF EndWhole
<1> DEFINE e == CASE route = "ChatToClaude"      -> ClaudeFinish(t, InOrder(t))
                  [] route = "ResponsesToClaude" -> ClaudeFinish(t, order)
                  [] route = "ClaudeToResponses" -> ClaudeToResponsesFinish(t, order, up.reason)
                  [] route = "ChatToResponses"   -> ChatToResponsesFinish(t)
                  [] route = "ClaudeToChat"      -> ClaudeToChatFinish(t, up.reason)
                  [] route = "ResponsesToChat"   -> ResponsesToChatFinish(t)
                  [] route = "ChatToGemini"      -> ChatToGeminiFinish(t)
                  [] OTHER                       -> Ended(t, "none")
<1>2. Settle(e, "whole") /\ Running  BY <1>1 DEF Settle
<1>3. Listing(t, order)  BY <1>2, AtEnd, AnyOrderLists
<1>4. Settled(e.t, "whole")
  <2>1. CASE route = "ChatToClaude"
    <3>1. e = ClaudeFinish(t, InOrder(t))  BY <2>1
    <3>2. LegSane(route, t, up)  BY <1>2, <2>1, AtEnd, LegsAre
    <3>3. Claude(t, TRUE)  BY <2>1, <3>2 DEF LegSane
    <3>4. LiveTools(t) = DOMAIN t.tools  BY <3>3 DEF Claude
    <3>5. Listing(t, InOrder(t))  BY <1>2, <3>4, AtEnd, InOrderLists
    <3> HIDE DEF e
    <3>6. ClaudeOver(t, e.t, TRUE)  BY <3>1, <3>3, <3>5, ClaudeFinishes
    <3>7. (route = "ChatToClaude") = TRUE  BY <2>1
    <3>8. ClaudeOver(t, e.t, route = "ChatToClaude")  BY <3>6, <3>7
    <3> QED  BY <2>1, <3>8, ClaudeOverSettles
  <2>2. CASE route = "ResponsesToClaude"
    <3>1. e = ClaudeFinish(t, order)  BY <2>2
    <3>2. LegSane(route, t, up)  BY <1>2, <2>2, AtEnd, LegsAre
    <3>3. Claude(t, FALSE)  BY <2>2, <3>2 DEF LegSane
    <3> HIDE DEF e
    <3>6. ClaudeOver(t, e.t, FALSE)  BY <1>3, <3>1, <3>3, ClaudeFinishes
    <3>7. (route = "ChatToClaude") = FALSE  BY <2>2
    <3>8. ClaudeOver(t, e.t, route = "ChatToClaude")  BY <3>6, <3>7
    <3> QED  BY <2>2, <3>8, ClaudeOverSettles
  <2>3. CASE route = "ClaudeToResponses"
    <3>1. e = ClaudeToResponsesFinish(t, order, up.reason)  BY <2>3
    <3>2. LegSane(route, t, up)  BY <1>2, <2>3, AtEnd, LegsAre
    <3>3. Gated(t)  BY <2>3, <3>2 DEF LegSane
    <3> HIDE DEF e
    <3>4. Fine(e.t, TRUE) /\ (up.reason = "end" => Answered(e.t.wire))
      BY <1>3, <3>1, <3>3, ClaudeToResponsesFinishes
    <3>5. Fine(e.t, route # "ChatToResponses")
      <4>1. (route # "ChatToResponses") = TRUE  BY <2>3
      <4> QED  BY <3>4, <4>1
    <3> QED  BY <2>3, <3>4, <3>5, FineSettles, LegsAre DEF Tells
  <2>4. CASE route = "ChatToResponses"
    <3>1. e = ChatToResponsesFinish(t)  BY <2>4
    <3>2. LegSane(route, t, up)  BY <1>2, <2>4, AtEnd, LegsAre
    <3>3. Messages(t)  BY <2>4, <3>2 DEF LegSane
    <3> HIDE DEF e
    <3>4. Fine(e.t, FALSE)  BY <3>1, <3>3, ChatToResponsesFinishes
    <3>5. Fine(e.t, route # "ChatToResponses") /\ ~Guards(route)
      <4>1. (route # "ChatToResponses") = FALSE  BY <2>4
      <4> QED  BY <2>4, <3>4, <4>1, GuardedLegs
    <3> QED  BY <2>4, <3>5, FineSettles, LegsAre DEF Tells
  <2>5. CASE route = "ClaudeToChat"
    <3>1. e = ClaudeToChatFinish(t, up.reason)  BY <2>5
    <3>2. LegSane(route, t, up)  BY <1>2, <2>5, AtEnd, LegsAre
    <3>3. ClaudeChat(t)  BY <2>5, <3>2 DEF LegSane
    <3> HIDE DEF e
    <3>4. Fine(e.t, TRUE) /\ (up.reason = "end" => Answered(Written(e.t)))
      BY <3>1, <3>3, ClaudeToChatEnds
    <3>5. Fine(e.t, route # "ChatToResponses")
      <4>1. (route # "ChatToResponses") = TRUE  BY <2>5
      <4> QED  BY <3>4, <4>1
    <3> QED  BY <2>5, <3>4, <3>5, FineSettles, LegsAre DEF Tells
  <2>6. CASE route = "ResponsesToChat"
    <3>1. e = ResponsesToChatFinish(t)  BY <2>6
    <3>2. LegSane(route, t, up)  BY <1>2, <2>6, AtEnd, LegsAre
    <3>3. ResponsesChat(t)  BY <2>6, <3>2 DEF LegSane
    <3> HIDE DEF e
    <3>4. Fine(e.t, TRUE)  BY <3>1, <3>3, ResponsesToChatEnds
    <3>5. Fine(e.t, route # "ChatToResponses") /\ ~Guards(route)
      <4>1. (route # "ChatToResponses") = TRUE  BY <2>6
      <4> QED  BY <2>6, <3>4, <4>1, GuardedLegs
    <3> QED  BY <2>6, <3>5, FineSettles, LegsAre DEF Tells
  <2>7. CASE route = "ChatToGemini"
    <3>1. e = ChatToGeminiFinish(t)  BY <2>7
    <3>2. Fine(t, TRUE) /\ ~t.gated  BY <1>2, <2>7, AtEnd
    <3> HIDE DEF e
    <3>4. Fine(e.t, TRUE)  BY <3>1, <3>2, ChatToGeminiFinishes
    <3>5. Fine(e.t, route # "ChatToResponses") /\ ~Guards(route)
      <4>1. (route # "ChatToResponses") = TRUE  BY <2>7
      <4> QED  BY <2>7, <3>4, <4>1, GuardedLegs
    <3> QED  BY <2>7, <3>5, FineSettles, LegsAre DEF Tells
  <2>8. CASE route \in PassThrough
    <3>1. e = Ended(t, "none")  BY <2>8, LegsAre
    <3> HIDE DEF e
    <3>2. e.t = t  BY <3>1 DEF Ended
    <3>3. Good(route, t) /\ (Guards(route) /\ up.reason = "end" => Answered(t.wire))
      BY <1>2, AtEnd
    <3> QED  BY <3>2, <3>3 DEF Settled, Tells
  <2> HIDE DEF e
  <2> QED  BY <1>2, <2>1, <2>2, <2>3, <2>4, <2>5, <2>6, <2>7, <2>8, AtEnd, LegsAre
<1> HIDE DEF e
<1> QED  BY <1>2, <1>4, SettleKeeps DEF Settled, Tells

\* What a converter has written when it reports the attempt.
Reported(u, how, grows) ==
    /\ Fine(u, grows)
    /\ Tells(how) => Told(u.wire) \/ Told(Written(u))
    /\ Guards(route) /\ up.reason = "end" => Answered(u.wire) \/ Answered(Written(u))

\* The legs to Responses, Chat and Gemini.
LEMMA FineSettlesAs ==
    ASSUME NEW u, NEW how, Reported(u, how, TRUE),
           route \in {"ClaudeToResponses", "ClaudeToChat", "ResponsesToChat", "ChatToGemini"}
    PROVE  Settled(u, how)
<1>1. (route # "ChatToResponses") = TRUE /\ route \notin PassThrough /\ route # "ChatToClaude"
  BY LegsAre
<1>2. Fine(u, route # "ChatToResponses")  BY <1>1 DEF Reported
<1> QED  BY <1>1, <1>2, FineSettles DEF Reported

\* The leg from Chat to Responses, whose text may follow its calls.
LEMMA MessagesSettle ==
    ASSUME NEW u, NEW how, Reported(u, how, FALSE), route = "ChatToResponses"
    PROVE  Settled(u, how)
<1>1. (route # "ChatToResponses") = FALSE /\ route \notin PassThrough
  BY LegsAre
<1>2. Fine(u, route # "ChatToResponses")  BY <1>1 DEF Reported
<1> QED  BY <1>1, <1>2, FineSettles DEF Reported

\* A forwarded stream.
LEMMA PassSettles ==
    ASSUME IInv, Running, route \in PassThrough, NEW m, PassFine(m),
           Guards(route) /\ up.reason = "end" => Answered(m.wire), NEW order \in PassOrders(m),
           NEW how
    PROVE  Settled(PassCut(m, order, route = "ClaudeOAuthPass").t, how)
<1> DEFINE g == route = "ClaudeOAuthPass"
           u == PassCut(m, order, g).t
<1> HIDE DEF g
<1>1. PassFine(u) /\ Told(u.wire) /\ (Answered(m.wire) => Answered(u.wire))  BY PassCuts
<1>2. Good(route, u)  BY <1>1, PassIsGood
<1>3. Settled(u, how)  BY <1>1, <1>2 DEF Settled
<1> QED  BY <1>3 DEF g

\* Nothing was read and nothing was written.
LEMMA EmptySettles ==
    ASSUME IInv, Running, up.frames = 0, up.reason = "none", NEW how PROVE Settled(t, how)
<1>1. t = Fresh(route) /\ route \in Legs /\ Good(route, t)
  BY LegsAre DEF IInv, Settings, Memories
<1>2. t.wire = <<>>  BY <1>1, FreshIsSane
<1> QED  BY <1>1, <1>2, CalmFacts, NothingHeard DEF Settled, Answered

\* The body ended without its closing frame.
LEMMA EndCleanKeeps == ASSUME IInv, EndClean PROVE IInv'
<1>1. CASE route \in PassThrough
  <2>1. PICK order \in PassOrders(t) : Settle(PassCut(t, order, route = "ClaudeOAuthPass"), "clean")
    BY <1>1 DEF EndClean
  <2>2. Running  BY <2>1 DEF Settle
  <2> DEFINE e == PassCut(t, order, route = "ClaudeOAuthPass")
  <2>3. PassFine(t) /\ (Guards(route) /\ up.reason = "end" => Answered(t.wire))
    BY <1>1, <2>2, AtEnd
  <2>4. Settled(e.t, "clean")  BY <1>1, <2>2, <2>3, PassSettles
  <2>5. Settle(e, "clean")  BY <2>1
  <2> HIDE DEF e
  <2> QED  BY <2>4, <2>5, SettleKeeps DEF Settled
<1>2. CASE route \notin PassThrough
  <2> DEFINE F(order) ==
               IF route = "ChatToGemini" THEN ChatToGeminiFinish(t)
               ELSE IF up.frames = 0 THEN Ended(t, "empty")
               ELSE CASE route \in {"ChatToClaude", "ResponsesToClaude"} -> ClaudeCut(t, order)
                      [] route = "ClaudeToResponses" -> ClaudeToResponsesCut(t, order)
                      [] route = "ChatToResponses"   -> ChatToResponsesCut(t)
                      [] route = "ClaudeToChat"      -> ClaudeToChatCut(t)
                      [] OTHER                       -> ResponsesToChatCut(t)
  <2>1. PICK order \in AnyOrder(t) : Settle(F(order), "clean")  BY <1>2 DEF EndClean
  <2> DEFINE e == F(order)
  <2>2. Settle(e, "clean") /\ Running /\ up.reason = "none"  BY <2>1 DEF Settle, EndClean
  <2>3. route \in Legs /\ LegSane(route, t, up) /\ Listing(t, order)
    BY <2>2, AtEnd, AnyOrderLists
  <2>4. Settled(e.t, "clean")
    <3>1. CASE route = "ChatToGemini"
      <4>1. e = ChatToGeminiFinish(t)  BY <3>1
      <4>2. Fine(t, TRUE) /\ ~t.gated  BY <2>2, <3>1, AtEnd
      <4> HIDE DEF e
      <4>3. Fine(e.t, TRUE)  BY <4>1, <4>2, ChatToGeminiFinishes
      <4>4. ~Guards(route)  BY <3>1, GuardedLegs, LegsAre
      <4>5. Reported(e.t, "clean", TRUE)
        BY <3>1, <4>3, <4>4 DEF Reported, Tells
      <4> QED  BY <3>1, <4>5, FineSettlesAs
    <3>2. CASE route # "ChatToGemini" /\ up.frames = 0
      <4>1. e = Ended(t, "empty")  BY <3>2
      <4> HIDE DEF e
      <4>2. e.t = t  BY <4>1 DEF Ended
      <4> QED  BY <2>2, <3>2, <4>2, EmptySettles
    <3>3. CASE up.frames # 0 /\ route = "ChatToClaude"
      <4>1. e = ClaudeCut(t, order)  BY <3>3
      <4>2. Claude(t, TRUE)  BY <2>3, <3>3 DEF LegSane
      <4> HIDE DEF e
      <4>3. ClaudeOver(t, e.t, TRUE) /\ Told(Written(e.t))  BY <2>3, <4>1, <4>2, ClaudeCuts
      <4>4. (route = "ChatToClaude") = TRUE  BY <3>3
      <4>5. ClaudeOver(t, e.t, route = "ChatToClaude")  BY <4>3, <4>4
      <4> QED  BY <3>3, <4>3, <4>5, ClaudeOverSettles
    <3>4. CASE up.frames # 0 /\ route = "ResponsesToClaude"
      <4>1. e = ClaudeCut(t, order)  BY <3>4
      <4>2. Claude(t, FALSE)  BY <2>3, <3>4 DEF LegSane
      <4> HIDE DEF e
      <4>3. ClaudeOver(t, e.t, FALSE) /\ Told(Written(e.t))  BY <2>3, <4>1, <4>2, ClaudeCuts
      <4>4. (route = "ChatToClaude") = FALSE  BY <3>4
      <4>5. ClaudeOver(t, e.t, route = "ChatToClaude")  BY <4>3, <4>4
      <4> QED  BY <3>4, <4>3, <4>5, ClaudeOverSettles
    <3>5. CASE up.frames # 0 /\ route = "ClaudeToResponses"
      <4>1. e = ClaudeToResponsesCut(t, order)  BY <3>5
      <4>2. Gated(t)  BY <2>3, <3>5 DEF LegSane
      <4> HIDE DEF e
      <4>3. Fine(e.t, TRUE) /\ Answered(e.t.wire) /\ Told(e.t.wire)
        BY <2>3, <4>1, <4>2, ClaudeToResponsesCuts
      <4>5. Reported(e.t, "clean", TRUE)
        BY <3>5, <4>3 DEF Reported
      <4> QED  BY <3>5, <4>5, FineSettlesAs
    <3>6. CASE up.frames # 0 /\ route = "ChatToResponses"
      <4>1. e = ChatToResponsesCut(t)  BY <3>6
      <4>2. Messages(t)  BY <2>3, <3>6 DEF LegSane
      <4> HIDE DEF e
      <4>3. Fine(e.t, FALSE) /\ Told(Written(e.t))  BY <4>1, <4>2, ChatToResponsesCuts
      <4>5. Reported(e.t, "clean", FALSE)
        BY <3>6, <4>3, GuardedLegs DEF Reported
      <4> QED  BY <3>6, <4>5, MessagesSettle
    <3>7. CASE up.frames # 0 /\ route = "ClaudeToChat"
      <4>1. e = ClaudeToChatCut(t)  BY <3>7
      <4>2. ClaudeChat(t)  BY <2>3, <3>7 DEF LegSane
      <4> HIDE DEF e
      <4>3. Fine(e.t, TRUE) /\ Told(Written(e.t)) /\ Answered(Written(e.t))
        BY <4>1, <4>2, ClaudeToChatEnds
      <4>5. Reported(e.t, "clean", TRUE)
        BY <3>7, <4>3 DEF Reported
      <4> QED  BY <3>7, <4>5, FineSettlesAs
    <3>8. CASE up.frames # 0 /\ route = "ResponsesToChat"
      <4>1. e = ResponsesToChatCut(t)  BY <3>8
      <4>2. ResponsesChat(t)  BY <2>3, <3>8 DEF LegSane
      <4> HIDE DEF e
      <4>3. Fine(e.t, TRUE) /\ Told(Written(e.t))  BY <4>1, <4>2, ResponsesToChatEnds
      <4>4. ~Guards(route)  BY <3>8, GuardedLegs, LegsAre
      <4>5. Reported(e.t, "clean", TRUE)
        BY <3>8, <4>3, <4>4 DEF Reported
      <4> QED  BY <3>8, <4>5, FineSettlesAs
    <3> HIDE DEF e
    <3> QED  BY <1>2, <2>3, <3>1, <3>2, <3>3, <3>4, <3>5, <3>6, <3>7, <3>8, LegsAre
  <2> HIDE DEF e
  <2> QED  BY <2>2, <2>4, SettleKeeps DEF Settled
<1> QED  BY <1>1, <1>2

\* The read failed.
LEMMA EndResetKeeps == ASSUME IInv, EndReset PROVE IInv'
<1>1. CASE route \in PassThrough
  <2>1. PICK order \in PassOrders(t) : Settle(PassCut(t, order, route = "ClaudeOAuthPass"), "reset")
    BY <1>1, LegsAre DEF EndReset
  <2>2. Running  BY <2>1 DEF Settle
  <2> DEFINE e == PassCut(t, order, route = "ClaudeOAuthPass")
  <2>3. PassFine(t) /\ (Guards(route) /\ up.reason = "end" => Answered(t.wire))
    BY <1>1, <2>2, AtEnd
  <2>4. Settled(e.t, "reset")  BY <1>1, <2>2, <2>3, PassSettles
  <2>5. Settle(e, "reset")  BY <2>1
  <2> HIDE DEF e
  <2> QED  BY <2>4, <2>5, SettleKeeps DEF Settled
<1>2. CASE route = "ClaudeToResponses"
  <2>1. PICK order \in AnyOrder(t) : Settle(ClaudeToResponsesCut(t, order), "reset")
    BY <1>2, LegsAre DEF EndReset
  <2> DEFINE e == ClaudeToResponsesCut(t, order)
  <2>2. Settle(e, "reset") /\ Running  BY <2>1 DEF Settle
  <2>3. LegSane(route, t, up) /\ Listing(t, order)
    BY <1>2, <2>2, AtEnd, AnyOrderLists, LegsAre
  <2>4. Gated(t)  BY <1>2, <2>3 DEF LegSane
  <2>5. Fine(e.t, TRUE) /\ Answered(e.t.wire) /\ Told(e.t.wire)  BY <2>3, <2>4, ClaudeToResponsesCuts
  <2> HIDE DEF e
  <2>6. Reported(e.t, "reset", TRUE)  BY <1>2, <2>5 DEF Reported
  <2>7. Settled(e.t, "reset")  BY <1>2, <2>6, FineSettlesAs
  <2> QED  BY <2>2, <2>7, SettleKeeps DEF Settled
<1>3. CASE route \notin PassThrough \union {"ClaudeToResponses"}
  <2> DEFINE e == Ended(t, "cut")
  <2>1. Settle(e, "reset")  BY <1>3 DEF EndReset
  <2>2. Running  BY <2>1 DEF Settle
  <2>3. e.t = t  BY DEF Ended
  <2> HIDE DEF e
  <2>4. Settled(e.t, "reset")  BY <1>3, <2>2, <2>3, AtEnd DEF Settled, Tells, TellReset
  <2> QED  BY <2>1, <2>4, SettleKeeps DEF Settled
<1> QED  BY <1>1, <1>2, <1>3

\* An error frame.
LEMMA ErrorFrameKeeps == ASSUME IInv, ErrorFrame PROVE IInv'
<1>1. CASE route \in PassThrough
  <2> DEFINE u == Forwarded(Fail, FALSE)
             g == route = "ClaudeOAuthPass"
  <2>1. PICK order \in PassOrders(u) : Settle(PassCut(u, order, g), "error")
    BY <1>1 DEF ErrorFrame
  <2>2. Running /\ up.reason = "none"  BY <2>1 DEF Settle, ErrorFrame
  <2>3. PassFine(u)
    <3>1. PassSane(t, up, g)
      <4>1. LegSane(route, t, up)  BY <2>2, AtEnd
      <4> QED  BY <1>1, <4>1 DEF LegSane
    <3>2. u = PassFrame(t, Fail, g, FALSE)  BY DEF Forwarded
    <3> HIDE DEF u, g
    <3> QED  BY <3>1, <3>2, PassCloses
  <2> DEFINE e == PassCut(u, order, g)
  <2>4. Settle(e, "error")  BY <2>1
  <2> HIDE DEF u
  <2>5. Settled(e.t, "error")  BY <1>1, <2>2, <2>3, PassSettles
  <2> HIDE DEF e
  <2> QED  BY <2>4, <2>5, SettleKeeps DEF Settled
<1>2. CASE route \notin PassThrough
  <2> DEFINE e == CASE route = "ChatToClaude"      -> ChatToClaudeError(t)
                    [] route = "ResponsesToClaude" -> ResponsesToClaudeError(t)
                    [] route = "ClaudeToResponses" -> ClaudeToResponsesError(t)
                    [] route = "ChatToResponses"   -> ChatToResponsesError(t)
                    [] route = "ClaudeToChat"      -> ClaudeToChatError(t)
                    [] route = "ResponsesToChat"   -> ResponsesToChatError(t)
                    [] OTHER                       -> Ended(t, "refused")
  <2>1. Settle(e, "error") /\ up.reason = "none"  BY <1>2 DEF ErrorFrame
  <2>2. Running  BY <2>1 DEF Settle
  <2>3. route \in Legs /\ LegSane(route, t, up) /\ Good(route, t)  BY <2>1, <2>2, AtEnd
  <2>4. Settled(e.t, "error")
    <3>1. CASE route = "ChatToClaude"
      <4>1. e = ChatToClaudeError(t)  BY <3>1
      <4>2. Claude(t, TRUE)  BY <2>3, <3>1 DEF LegSane
      <4> HIDE DEF e
      <4>3. ClaudeOver(t, e.t, TRUE)  BY <4>1, <4>2, ClaudeErrors
      <4>4. (route = "ChatToClaude") = TRUE  BY <3>1
      <4>5. ClaudeOver(t, e.t, route = "ChatToClaude")  BY <4>3, <4>4
      <4> QED  BY <3>1, <4>5, ClaudeOverSettles
    <3>2. CASE route = "ResponsesToClaude"
      <4>1. e = ResponsesToClaudeError(t)  BY <3>2
      <4>2. Claude(t, FALSE)  BY <2>3, <3>2 DEF LegSane
      <4> HIDE DEF e
      <4>3. ClaudeOver(t, e.t, FALSE)  BY <4>1, <4>2, ClaudeErrors
      <4>4. (route = "ChatToClaude") = FALSE  BY <3>2
      <4>5. ClaudeOver(t, e.t, route = "ChatToClaude")  BY <4>3, <4>4
      <4> QED  BY <3>2, <4>5, ClaudeOverSettles
    <3>3. CASE route = "ClaudeToResponses"
      <4>1. e = ClaudeToResponsesError(t)  BY <3>3
      <4>2. Gated(t)  BY <2>3, <3>3 DEF LegSane
      <4> HIDE DEF e
      <4>3. Fine(e.t, TRUE)  BY <4>1, <4>2, ClaudeToResponsesErrors
      <4>5. Reported(e.t, "error", TRUE)
        BY <2>1, <3>3, <4>3 DEF Reported, Tells
      <4> QED  BY <3>3, <4>5, FineSettlesAs
    <3>4. CASE route = "ChatToResponses"
      <4>1. e = ChatToResponsesError(t)  BY <3>4
      <4>2. Messages(t)  BY <2>3, <3>4 DEF LegSane
      <4> HIDE DEF e
      <4>3. Fine(e.t, FALSE)  BY <4>1, <4>2, ChatToResponsesErrors
      <4>5. Reported(e.t, "error", FALSE)
        BY <3>4, <4>3, GuardedLegs DEF Reported, Tells
      <4> QED  BY <3>4, <4>5, MessagesSettle
    <3>5. CASE route = "ClaudeToChat"
      <4>1. e = ClaudeToChatError(t)  BY <3>5
      <4>2. ClaudeChat(t)  BY <2>3, <3>5 DEF LegSane
      <4> HIDE DEF e
      <4>3. Fine(e.t, TRUE)  BY <4>1, <4>2, ClaudeToChatEnds
      <4>5. Reported(e.t, "error", TRUE)
        BY <2>1, <3>5, <4>3 DEF Reported, Tells
      <4> QED  BY <3>5, <4>5, FineSettlesAs
    <3>6. CASE route = "ResponsesToChat"
      <4>1. e = ResponsesToChatError(t)  BY <3>6
      <4>2. ResponsesChat(t)  BY <2>3, <3>6 DEF LegSane
      <4> HIDE DEF e
      <4>3. Fine(e.t, TRUE)  BY <4>1, <4>2, ResponsesToChatEnds
      <4>5. Reported(e.t, "error", TRUE)
        BY <2>1, <3>6, <4>3 DEF Reported, Tells
      <4> QED  BY <3>6, <4>5, FineSettlesAs
    <3>7. CASE route = "ChatToGemini"
      <4>1. e = Ended(t, "refused")  BY <3>7
      <4> HIDE DEF e
      <4>2. e.t = t  BY <4>1 DEF Ended
      <4> QED  BY <2>1, <2>3, <4>2 DEF Settled, Tells
    <3> HIDE DEF e
    <3> QED  BY <1>2, <2>3, <3>1, <3>2, <3>3, <3>4, <3>5, <3>6, <3>7, LegsAre
  <2> HIDE DEF e
  <2> QED  BY <2>1, <2>4, SettleKeeps DEF Settled
<1> QED  BY <1>1, <1>2

-----------------------------------------------------------------------------
\* The hold runs out, a comment goes out, or nothing happens.
LEMMA WaitingKeeps == ASSUME IInv, HoldLimit \/ Heartbeat \/ UNCHANGED vars PROVE IInv'
<1>1. /\ route' = route /\ behindLoop' = behindLoop /\ up' = up /\ t' = t /\ base' = base
      /\ attempt' = attempt /\ ending' = ending
      /\ late' \in BOOLEAN /\ committed' \in BOOLEAN
  BY DEF IInv, Settings, HoldLimit, Heartbeat, vars
<1>2. Settings'  BY <1>1 DEF IInv, Settings
<1>3. Frames'  BY <1>1 DEF IInv, Frames
<1>4. Memories'  BY <1>1 DEF IInv, Memories, Running
<1>5. Reports'  BY <1>1 DEF IInv, Reports, Tells
<1> QED  BY <1>2, <1>3, <1>4, <1>5 DEF IInv

\* Every step keeps the invariant.
LEMMA NextKeeps == ASSUME IInv, [Next]_vars PROVE IInv'
<1>1. ASSUME NEW chunk \in Chunks, ChatChunk(chunk) PROVE IInv'  BY <1>1, ChatChunkKeeps
<1>2. CASE MessageStart  BY <1>2, MessageStartKeeps
<1>3. ASSUME NEW kind \in Kinds, NEW together \in BOOLEAN, BlockStart(kind, together) PROVE IInv'
  BY <1>3, BlockStartKeeps
<1>4. ASSUME NEW together \in BOOLEAN, BlockDelta(together) PROVE IInv'  BY <1>4, BlockDeltaKeeps
<1>5. ASSUME NEW together \in BOOLEAN, BlockStop(together) PROVE IInv'  BY <1>5, BlockStopKeeps
<1>6. ASSUME NEW kind \in {"text", "think"}, ItemDelta(kind) PROVE IInv'  BY <1>6, ItemDeltaKeeps
<1>7. CASE SealedReasoning  BY <1>7, SealedReasoningKeeps
<1>8. ASSUME NEW c \in Call, CallAdded(c) PROVE IInv'  BY <1>8, CallAddedKeeps
<1>9. ASSUME NEW c \in Call, CallDelta(c) PROVE IInv'  BY <1>9, CallDeltaKeeps
<1>10. ASSUME NEW c \in Call, NEW all \in 0 .. MaxFrames[route], CallSaid(c, all) PROVE IInv'
  BY <1>10, CallSaidKeeps
<1>11. ASSUME NEW c \in Call, NEW all \in 0 .. MaxFrames[route], CallDone(c, all) PROVE IInv'
  BY <1>11, CallDoneKeeps
<1>12. ASSUME NEW reason \in Reasons, NEW together \in BOOLEAN, ClosingFrame(reason, together)
       PROVE  IInv'
  BY <1>12, ClosingFrameKeeps
<1>13. CASE EndWhole  BY <1>13, EndWholeKeeps
<1>14. CASE EndClean  BY <1>14, EndCleanKeeps
<1>15. CASE EndReset  BY <1>15, EndResetKeeps
<1>16. CASE ErrorFrame  BY <1>16, ErrorFrameKeeps
<1>17. CASE HoldLimit \/ Heartbeat \/ UNCHANGED vars  BY <1>17, WaitingKeeps
<1> QED  BY <1>1, <1>2, <1>3, <1>4, <1>5, <1>6, <1>7, <1>8, <1>9, <1>10, <1>11, <1>12, <1>13,
            <1>14, <1>15, <1>16, <1>17 DEF Next

\* Every state of a streamed answer is one of IInv: the frames and endings of every leg in
\* streamOpenAIChatToClaudeEvents and its siblings keep it, a retried attempt
\* (finishConvertedProxy) starts from it again.
THEOREM IInvHolds == Spec => []IInv
<1>1. Init => IInv  BY InitHolds
<1>2. IInv /\ [Next]_vars => IInv'  BY NextKeeps
<1> QED  BY <1>1, <1>2, PTL DEF Spec

-----------------------------------------------------------------------------
\* What the client is told of the calls: how much of a block was passed.

\* What of a block's content was passed, up to each event of the list.
Sums(w, at, kind) ==
    CHOOSE f : f = [i \in 0 .. Len(w) |->
            IF i = 0 THEN 0
            ELSE IF w[i] = Piece(at, kind, w[i].n) THEN f[i - 1] + w[i].n ELSE f[i - 1]]

\* The sums exist, one for each beginning of the list.
LEMMA SumsFacts ==
    ASSUME NEW w \in Seq(Ev), NEW at, NEW kind
    PROVE  /\ Amount(w, at, kind) = Sums(w, at, kind)[Len(w)] /\ Len(w) \in Nat
           /\ \A i \in 0 .. Len(w) : Sums(w, at, kind)[i] \in Int
           /\ Sums(w, at, kind)[0] = 0
           /\ \A i \in 1 .. Len(w) :
                 Sums(w, at, kind)[i] = IF w[i] = Piece(at, kind, w[i].n)
                                        THEN Sums(w, at, kind)[i - 1] + w[i].n
                                        ELSE Sums(w, at, kind)[i - 1]
<1> DEFINE N == Len(w)
           F == Sums(w, at, kind)
           step == [p \in Int \X (1 .. N) |->
                      IF w[p[2]] = Piece(at, kind, w[p[2]].n) THEN p[1] + w[p[2]].n ELSE p[1]]
<1>1. Amount(w, at, kind) = F[N]  BY DEF Amount, Sums
<1>2. N \in Nat /\ DOMAIN w = 1 .. N  OBVIOUS
<1>3. \A i \in 1 .. N : w[i].n \in Int
  <2>1. \A i \in 1 .. N : w[i] \in Ev  BY <1>2
  <2> QED  BY <2>1 DEF Ev
<1> HIDE DEF N
<1>4. step \in [Int \X (1 .. N) -> Int]  BY <1>3
<1>5. \A x \in Int, i \in 1 .. N :
         step[<<x, i>>] = IF w[i] = Piece(at, kind, w[i].n) THEN x + w[i].n ELSE x
  OBVIOUS
<1> HIDE DEF step
<1>6. PICK f : IsFold(f, Int, N, 0, step)
  <2>1. Foldable(Int, N, 0, step)  BY <1>2, <1>4 DEF Foldable
  <2> QED  BY <2>1, FoldedUp
<1>7. f \in [0 .. N -> Int] /\ f[0] = 0 /\ \A i \in 1 .. N : f[i] = step[<<f[i - 1], i>>]
  BY <1>6 DEF IsFold
<1>8. \A i \in 1 .. N : i - 1 \in 0 .. N /\ i \in 0 .. N /\ i # 0  BY <1>2
<1>9. \A i \in 1 .. N :
         f[i] = IF w[i] = Piece(at, kind, w[i].n) THEN f[i - 1] + w[i].n ELSE f[i - 1]
  <2> TAKE i \in 1 .. N
  <2>1. f[i - 1] \in Int  BY <1>7, <1>8
  <2> QED  BY <1>5, <1>7, <2>1
<1>10. f = [i \in 0 .. N |->
              IF i = 0 THEN 0
              ELSE IF w[i] = Piece(at, kind, w[i].n) THEN f[i - 1] + w[i].n ELSE f[i - 1]]
  <2>1. \A i \in 0 .. N : i = 0 \/ i \in 1 .. N  BY <1>2
  <2>2. \A i \in 0 .. N :
           f[i] = IF i = 0 THEN 0
                  ELSE IF w[i] = Piece(at, kind, w[i].n) THEN f[i - 1] + w[i].n ELSE f[i - 1]
    BY <1>7, <1>9, <2>1
  <2> QED  BY <1>7, <2>2
<1>11. F = [i \in 0 .. N |->
              IF i = 0 THEN 0
              ELSE IF w[i] = Piece(at, kind, w[i].n) THEN F[i - 1] + w[i].n ELSE F[i - 1]]
  BY <1>10 DEF Sums, N
<1> HIDE DEF F
<1>12. 0 \in 0 .. N  BY <1>2
<1>13. F[0] = 0 /\ \A i \in 1 .. N :
         F[i] = IF w[i] = Piece(at, kind, w[i].n) THEN F[i - 1] + w[i].n ELSE F[i - 1]
  BY <1>8, <1>11, <1>12
<1> DEFINE S == {n \in Nat : n <= N => F[n] \in Int}
<1>14. 0 \in S  BY <1>13
<1>15. ASSUME NEW n \in Nat, n \in S PROVE n + 1 \in S
  <2> SUFFICES ASSUME n + 1 <= N PROVE F[n + 1] \in Int  OBVIOUS
  <2>1. n + 1 \in 1 .. N /\ F[n] \in Int /\ (n + 1) - 1 = n  BY <1>2, <1>15
  <2>2. w[n + 1].n \in Int  BY <1>3, <2>1
  <2>3. F[n + 1] = IF w[n + 1] = Piece(at, kind, w[n + 1].n) THEN F[n] + w[n + 1].n ELSE F[n]
    BY <1>13, <2>1
  <2> QED  BY <2>1, <2>2, <2>3
<1> HIDE DEF S
<1>16. \A n \in Nat : n \in S  BY <1>14, <1>15, Inductive
<1>17. \A n \in 0 .. N : F[n] \in Int  BY <1>2, <1>16 DEF S
<1> QED  BY <1>1, <1>2, <1>13, <1>17 DEF F, N

\* One event more adds its pieces to its own block.
LEMMA AmountGrows ==
    ASSUME NEW w \in Seq(Ev), NEW e \in Ev, NEW at, NEW kind
    PROVE  /\ Amount(w, at, kind) \in Int
           /\ Amount(Append(w, e), at, kind)
                = IF e = Piece(at, kind, e.n) THEN Amount(w, at, kind) + e.n ELSE Amount(w, at, kind)
<1> DEFINE v == Append(w, e)
           N == Len(w)
           F == Sums(w, at, kind)
           G == Sums(v, at, kind)
<1>1. v \in Seq(Ev) /\ Len(v) = N + 1 /\ v[N + 1] = e /\ N \in Nat /\ \A i \in 1 .. N : v[i] = w[i]
  BY AppendFacts
<1>2. /\ Amount(w, at, kind) = F[N] /\ (\A i \in 0 .. N : F[i] \in Int) /\ F[0] = 0
      /\ \A i \in 1 .. N : F[i] = IF w[i] = Piece(at, kind, w[i].n) THEN F[i - 1] + w[i].n ELSE F[i - 1]
  BY SumsFacts
<1> HIDE DEF v
<1>3. /\ Amount(v, at, kind) = G[Len(v)] /\ G[0] = 0
      /\ \A i \in 1 .. Len(v) :
            G[i] = IF v[i] = Piece(at, kind, v[i].n) THEN G[i - 1] + v[i].n ELSE G[i - 1]
  BY <1>1, SumsFacts
<1> HIDE DEF F, G, N
<1> DEFINE S == {n \in Nat : n <= N => G[n] = F[n]}
<1>4. 0 \in S  BY <1>2, <1>3
<1>5. ASSUME NEW n \in Nat, n \in S PROVE n + 1 \in S
  <2> SUFFICES ASSUME n + 1 <= N PROVE G[n + 1] = F[n + 1]  OBVIOUS
  <2>1. n + 1 \in 1 .. N /\ n + 1 \in 1 .. Len(v) /\ G[n] = F[n] /\ (n + 1) - 1 = n
    BY <1>1, <1>5
  <2>2. v[n + 1] = w[n + 1]  BY <1>1, <2>1
  <2>3. G[n + 1] = IF v[n + 1] = Piece(at, kind, v[n + 1].n) THEN G[n] + v[n + 1].n ELSE G[n]
    BY <1>3, <2>1
  <2>4. F[n + 1] = IF w[n + 1] = Piece(at, kind, w[n + 1].n) THEN F[n] + w[n + 1].n ELSE F[n]
    BY <1>2, <2>1
  <2> QED  BY <2>1, <2>2, <2>3, <2>4
<1> HIDE DEF S
<1>6. N \in S  BY <1>1, <1>4, <1>5, Inductive
<1>7. G[N] = F[N] /\ N \in 0 .. N  BY <1>1, <1>6 DEF S
<1>8. N + 1 \in 1 .. Len(v) /\ (N + 1) - 1 = N  BY <1>1
<1>9. G[N + 1] = IF v[N + 1] = Piece(at, kind, v[N + 1].n) THEN G[N] + v[N + 1].n ELSE G[N]
  BY <1>3, <1>8
<1>10. G[N + 1] = IF e = Piece(at, kind, e.n) THEN F[N] + e.n ELSE F[N]
  BY <1>1, <1>7, <1>9
<1>11. Amount(v, at, kind) = G[N + 1]  BY <1>1, <1>3
<1> QED  BY <1>2, <1>7, <1>10, <1>11 DEF v

\* Of a block without a piece nothing was passed.
LEMMA AmountNone ==
    ASSUME NEW w \in Seq(Ev), NEW at, NEW kind,
           \A i \in DOMAIN w : w[i] # Piece(at, kind, w[i].n)
    PROVE  Amount(w, at, kind) = 0
<1> DEFINE N == Len(w)
           F == Sums(w, at, kind)
<1>1. /\ Amount(w, at, kind) = F[N] /\ F[0] = 0 /\ N \in Nat /\ DOMAIN w = 1 .. N
      /\ \A i \in 1 .. N : F[i] = IF w[i] = Piece(at, kind, w[i].n) THEN F[i - 1] + w[i].n ELSE F[i - 1]
  BY SumsFacts
<1> HIDE DEF F, N
<1> DEFINE S == {n \in Nat : n <= N => F[n] = 0}
<1>2. 0 \in S  BY <1>1
<1>3. ASSUME NEW n \in Nat, n \in S PROVE n + 1 \in S
  <2> SUFFICES ASSUME n + 1 <= N PROVE F[n + 1] = 0  OBVIOUS
  <2>1. n + 1 \in 1 .. N /\ F[n] = 0 /\ (n + 1) - 1 = n  BY <1>1, <1>3
  <2> QED  BY <1>1, <2>1
<1> HIDE DEF S
<1>4. N \in S  BY <1>1, <1>2, <1>3, Inductive
<1> QED  BY <1>1, <1>4 DEF S

-----------------------------------------------------------------------------
\* The tally.

\* Nothing of a call tells v from w.
SameCalls(v, w) ==
    /\ \A c : CallsAt(w, c) = CallsAt(v, c)
    /\ \A at : Amount(w, at, "tool") = Amount(v, at, "tool")
    /\ ToolPieces(w) = ToolPieces(v)
    /\ Names(v, "open") \subseteq Names(w, "open")

\* Where calls opened, with one event more.
LEMMA CallsFacts ==
    ASSUME NEW w \in Seq(Ev), NEW e \in Ev
    PROVE  /\ \A c : CallsAt(Append(w, e), c)
                      = CallsAt(w, c) \union (IF e = OpenTool(e.at, c) THEN {e.at} ELSE {})
           /\ ToolPieces(Append(w, e))
                = ToolPieces(w) \union (IF e.ev = "piece" /\ e.kind = "tool" THEN {e.at} ELSE {})
           /\ \A c : CallsAt(w, c) \subseteq Names(w, "open")
<1> DEFINE v == Append(w, e)
<1>1. /\ DOMAIN w = 1 .. Len(w) /\ DOMAIN v = 1 .. Len(w) + 1 /\ Len(w) \in Nat
      /\ \A i \in 1 .. Len(w) : v[i] = w[i]
      /\ v[Len(w) + 1] = e
  BY AppendFacts
<1> HIDE DEF v
<1>2. \A i : i \in DOMAIN v <=> i \in DOMAIN w \/ i = Len(w) + 1  BY <1>1
<1>3. ASSUME NEW c PROVE CallsAt(v, c) = CallsAt(w, c) \union (IF e = OpenTool(e.at, c) THEN {e.at} ELSE {})
  <2>1. ASSUME NEW x PROVE x \in CallsAt(v, c) <=> x \in CallsAt(w, c) \/ (e = OpenTool(e.at, c) /\ x = e.at)
    <3>1. x \in CallsAt(v, c) <=> \E i \in DOMAIN v : v[i] = OpenTool(v[i].at, c) /\ v[i].at = x
      BY DEF CallsAt
    <3>2. x \in CallsAt(w, c) <=> \E i \in DOMAIN w : w[i] = OpenTool(w[i].at, c) /\ w[i].at = x
      BY DEF CallsAt
    <3> QED  BY <1>1, <1>2, <3>1, <3>2
  <2> QED  BY <2>1
<1>4. ToolPieces(v) = ToolPieces(w) \union (IF e.ev = "piece" /\ e.kind = "tool" THEN {e.at} ELSE {})
  <2>1. ASSUME NEW x
        PROVE  x \in ToolPieces(v) <=> x \in ToolPieces(w) \/ (e.ev = "piece" /\ e.kind = "tool" /\ x = e.at)
    <3>1. x \in ToolPieces(v) <=> \E i \in DOMAIN v : v[i].ev = "piece" /\ v[i].kind = "tool" /\ v[i].at = x
      BY DEF ToolPieces
    <3>2. x \in ToolPieces(w) <=> \E i \in DOMAIN w : w[i].ev = "piece" /\ w[i].kind = "tool" /\ w[i].at = x
      BY DEF ToolPieces
    <3> QED  BY <1>1, <1>2, <3>1, <3>2
  <2> QED  BY <2>1
<1>5. ASSUME NEW c, NEW x \in CallsAt(w, c) PROVE x \in Names(w, "open")
  <2>1. PICK i \in DOMAIN w : w[i] = OpenTool(w[i].at, c) /\ w[i].at = x  BY <1>5 DEF CallsAt
  <2>2. OpenTool(x, c).ev = "open"  BY DEF OpenTool, Event
  <2> QED  BY <2>1, <2>2 DEF Names
<1> QED  BY <1>3, <1>4, <1>5 DEF v

\* An event of no call.
LEMMA QuietOne ==
    ASSUME NEW w \in Seq(Ev), NEW e \in Ev, e.kind # "tool" PROVE SameCalls(w, Append(w, e))
<1>1. \A c : e # OpenTool(e.at, c)  BY DEF OpenTool, Event
<1>2. \A at : e # Piece(at, "tool", e.n)  BY DEF Piece, Event
<1> DEFINE v == Append(w, e)
<1>3. \A at : Amount(v, at, "tool") = Amount(w, at, "tool")  BY <1>2, AmountGrows
<1>4. Names(w, "open") \subseteq Names(v, "open")  BY NamesFacts
<1>5. /\ \A c : CallsAt(v, c) = CallsAt(w, c) \union (IF e = OpenTool(e.at, c) THEN {e.at} ELSE {})
      /\ ToolPieces(v) = ToolPieces(w) \union (IF e.ev = "piece" /\ e.kind = "tool" THEN {e.at} ELSE {})
  BY CallsFacts
<1> HIDE DEF v
<1>6. \A c : CallsAt(v, c) = CallsAt(w, c)  BY <1>1, <1>5
<1>7. ToolPieces(v) = ToolPieces(w)  BY <1>5
<1>8. SameCalls(w, v)  BY <1>3, <1>4, <1>6, <1>7 DEF SameCalls
<1> QED  BY <1>8 DEF v

\* One after the other.
LEMMA SameCallsAgain ==
    /\ \A w : SameCalls(w, w)
    /\ \A u, v, w : SameCalls(u, v) /\ SameCalls(v, w) => SameCalls(u, w)
BY DEF SameCalls

\* A row of them.
LEMMA QuietMany ==
    ASSUME NEW w \in Seq(Ev), NEW s \in Seq(Ev), \A i \in DOMAIN s : s[i].kind # "tool"
    PROVE  SameCalls(w, w \o s) /\ w \o s \in Seq(Ev)
<1> DEFINE N == Len(s)
           upTo(n) == w \o SubSeq(s, 1, n)
<1>1. N \in Nat /\ DOMAIN s = 1 .. N /\ \A i \in 1 .. N : s[i] \in Ev  OBVIOUS
<1>2. ASSUME NEW n \in Nat, n <= N PROVE SubSeq(s, 1, n) \in Seq(Ev)
  <2>1. SubSeq(s, 1, n) = [i \in 1 .. n |-> s[i]]  BY <1>1, <1>2
  <2>2. \A i \in 1 .. n : i \in 1 .. N  BY <1>1, <1>2
  <2>3. [i \in 1 .. n |-> s[i]] \in [1 .. n -> Ev]  BY <1>1, <2>2
  <2> QED  BY <1>2, <2>1, <2>3
<1>3. ASSUME NEW n \in Nat, n + 1 <= N PROVE upTo(n + 1) = Append(upTo(n), s[n + 1])
  <2>1. SubSeq(s, 1, n + 1) = Append(SubSeq(s, 1, n), s[n + 1])
    BY <1>1, <1>3
  <2>2. SubSeq(s, 1, n) \in Seq(Ev) /\ s[n + 1] \in Ev
    <3>1. n <= N /\ n + 1 \in 1 .. N  BY <1>1, <1>3
    <3> QED  BY <1>1, <1>2, <3>1
  <2> DEFINE x == SubSeq(s, 1, n)  y == s[n + 1]
  <2> HIDE DEF x, y
  <2>3. \A p \in Seq(Ev), q \in Ev : w \o Append(p, q) = Append(w \o p, q)  OBVIOUS
  <2> QED  BY <2>1, <2>2, <2>3 DEF x, y
<1> DEFINE S == {n \in Nat : n <= N => SameCalls(w, upTo(n)) /\ upTo(n) \in Seq(Ev)}
<1>4. upTo(0) = w  OBVIOUS
<1>5. upTo(N) = w \o s
  <2>1. SubSeq(s, 1, N) = s  BY <1>1
  <2> QED  BY <2>1
<1> HIDE DEF upTo, N
<1>6. 0 \in S  BY <1>4, SameCallsAgain
<1>7. ASSUME NEW n \in Nat, n \in S PROVE n + 1 \in S
  <2> SUFFICES ASSUME n + 1 <= N PROVE SameCalls(w, upTo(n + 1)) /\ upTo(n + 1) \in Seq(Ev)  OBVIOUS
  <2>1. SameCalls(w, upTo(n)) /\ upTo(n) \in Seq(Ev)  BY <1>1, <1>7
  <2>2. n + 1 \in 1 .. N  BY <1>1
  <2>3. s[n + 1] \in Ev /\ s[n + 1].kind # "tool"  BY <1>1, <2>2
  <2>4. upTo(n + 1) = Append(upTo(n), s[n + 1])  BY <1>3
  <2>5. SameCalls(upTo(n), upTo(n + 1)) /\ upTo(n + 1) \in Seq(Ev)
    <3> DEFINE x == upTo(n)  y == s[n + 1]
    <3>1. x \in Seq(Ev) /\ y \in Ev /\ y.kind # "tool"  BY <2>1, <2>3
    <3> HIDE DEF x, y
    <3>2. SameCalls(x, Append(x, y)) /\ Append(x, y) \in Seq(Ev)  BY <3>1, QuietOne, AppendFacts
    <3> QED  BY <2>4, <3>2 DEF x, y
  <2> QED  BY <2>1, <2>5, SameCallsAgain
<1> HIDE DEF S
<1>8. N \in S  BY <1>1, <1>6, <1>7, Inductive
<1>9. N <= N  BY <1>1
<1>10. SameCalls(w, upTo(N)) /\ upTo(N) \in Seq(Ev)  BY <1>8, <1>9 DEF S
<1> QED  BY <1>5, <1>10

\* What is of no call keeps the tally.
LEMMA TalliedSame ==
    ASSUME NEW v, NEW w, NEW called, NEW args, Tallied(v, called, args), SameCalls(v, w)
    PROVE  Tallied(w, called, args)
BY DEF Tallied, SameCalls

\* Nothing tallies with nothing.
LEMMA NothingTallies == ASSUME NEW args PROVE Tallied(<<>>, {}, args)
BY DEF Tallied, CallsAt, ToolPieces, Names

\* A call opens under a number of its own.
LEMMA TalliedOpens ==
    ASSUME NEW w \in Seq(Ev), NEW called \in SUBSET Call, NEW args, Tallied(w, called, args),
           NEW c \in Call \ called, args[c] = 0, NEW at \in Int, at \notin Names(w, "open")
    PROVE  Tallied(Append(w, OpenTool(at, c)), called \union {c}, args)
<1> DEFINE e == OpenTool(at, c)
           v == Append(w, e)
<1>1. e \in Ev /\ e.ev = "open" /\ e.at = at /\ e.kind = "tool"
  <2>1. c \in Int  BY CallNumbers
  <2> QED  BY <2>1, EventFacts
<1>2. \A d : e = OpenTool(e.at, d) <=> d = c  BY <1>1 DEF OpenTool, Event
<1>3. \A x : e # Piece(x, "tool", e.n)  BY <1>1 DEF Piece, Event
<1> HIDE DEF e
<1>4. \A d : CallsAt(v, d) = CallsAt(w, d) \union (IF d = c THEN {at} ELSE {})  BY <1>1, <1>2, CallsFacts
<1>5. \A x : Amount(v, x, "tool") = Amount(w, x, "tool")  BY <1>1, <1>3, AmountGrows
<1>6. ToolPieces(v) = ToolPieces(w)  BY <1>1, CallsFacts
<1>7. Names(v, "open") = Names(w, "open") \union {at}  BY <1>1, NamesFacts
<1>8. \A d : at \notin CallsAt(w, d)  BY <1>1, CallsFacts
<1>9. Amount(w, at, "tool") = 0
  <2>1. at \notin ToolPieces(w)  BY DEF Tallied
  <2>2. \A i \in DOMAIN w : w[i] # Piece(at, "tool", w[i].n)  BY <2>1 DEF ToolPieces, Piece, Event
  <2> QED  BY <2>2, AmountNone
<1> HIDE DEF v
<1>10. ASSUME NEW d \in called \union {c}
       PROVE  \E x \in CallsAt(v, d) : CallsAt(v, d) = {x} /\ Amount(v, x, "tool") = args[d]
  <2>1. CASE d = c
    <3>1. CallsAt(w, c) = {}  BY DEF Tallied
    <3>2. CallsAt(v, c) = {at}  BY <1>4, <3>1
    <3> QED  BY <1>5, <1>9, <2>1, <3>2
  <2>2. CASE d \in called /\ d # c
    <3>1. CallsAt(v, d) = CallsAt(w, d)  BY <1>4, <2>2
    <3> QED  BY <1>5, <2>2, <3>1 DEF Tallied
  <2> QED  BY <2>1, <2>2
<1>11. \A d \in Call \ (called \union {c}) : CallsAt(v, d) = {}  BY <1>4 DEF Tallied
<1>12. ToolPieces(v) \subseteq Names(v, "open")  BY <1>6, <1>7 DEF Tallied
<1>13. ASSUME NEW x \in Call, NEW y \in Call, x # y PROVE CallsAt(v, x) \cap CallsAt(v, y) = {}
  BY <1>4, <1>8, <1>13 DEF Tallied
<1>14. Tallied(v, called \union {c}, args)  BY <1>10, <1>11, <1>12, <1>13 DEF Tallied
<1> QED  BY <1>14 DEF v, e

\* A call grows by what the upstream sent of its arguments.
LEMMA TalliedGrows ==
    ASSUME NEW w \in Seq(Ev), NEW called \in SUBSET Call, NEW args, Tallied(w, called, args),
           NEW c \in called, NEW at \in CallsAt(w, c), NEW n \in Int, NEW more,
           more[c] = args[c] + n, \A d \in called : d # c => more[d] = args[d]
    PROVE  Tallied(Append(w, Piece(at, "tool", n)), called, more)
<1> DEFINE e == Piece(at, "tool", n)
           v == Append(w, e)
<1>0. at \in Int /\ at \in Names(w, "open")
  <2>1. CallsAt(w, c) \subseteq Names(w, "open")
    <3>1. Begin \in Ev  BY EventFacts
    <3> QED  BY <3>1, CallsFacts
  <2> QED  BY <2>1, NamesNumbers
<1>1. e \in Ev /\ e.ev = "piece" /\ e.at = at /\ e.kind = "tool" /\ e.n = n
  <2>1. "tool" \in Kinds  BY DEF Kinds
  <2> QED  BY <1>0, <2>1, EventFacts DEF Piece, Event
<1>2. \A x, d : e # OpenTool(x, d)  BY <1>1 DEF OpenTool, Event
<1>3. \A x : e = Piece(x, "tool", e.n) <=> x = at  BY <1>1 DEF Piece, Event
<1> HIDE DEF e
<1>4. \A d : CallsAt(v, d) = CallsAt(w, d)
  <2>1. \A d : CallsAt(v, d) = CallsAt(w, d) \union (IF e = OpenTool(e.at, d) THEN {e.at} ELSE {})
    BY <1>1, CallsFacts
  <2> HIDE DEF v
  <2> QED  BY <1>2, <2>1
<1>5. \A x : Amount(v, x, "tool") = IF x = at THEN Amount(w, x, "tool") + n ELSE Amount(w, x, "tool")
  BY <1>1, <1>3, AmountGrows
<1>6. ToolPieces(v) = ToolPieces(w) \union {at}  BY <1>1, CallsFacts
<1>7. Names(v, "open") = Names(w, "open")
  <2>1. Names(v, "open") = Names(w, "open") \union (IF e.ev = "open" THEN {e.at} ELSE {})
    BY <1>1, NamesFacts
  <2>2. e.ev # "open"  BY <1>1
  <2> HIDE DEF v
  <2> QED  BY <2>1, <2>2
<1> HIDE DEF v
<1>8. ASSUME NEW d \in called
      PROVE  \E x \in CallsAt(v, d) : CallsAt(v, d) = {x} /\ Amount(v, x, "tool") = more[d]
  <2>1. PICK x \in CallsAt(w, d) : CallsAt(w, d) = {x} /\ Amount(w, x, "tool") = args[d]  BY DEF Tallied
  <2>2. CASE d = c
    <3>1. x = at  BY <2>1, <2>2
    <3> QED  BY <1>4, <1>5, <2>1, <2>2, <3>1
  <2>3. CASE d # c
    <3>1. CallsAt(w, d) \cap CallsAt(w, c) = {}  BY <2>3 DEF Tallied
    <3>2. x # at  BY <2>1, <3>1
    <3> QED  BY <1>4, <1>5, <2>1, <2>3, <3>2
  <2> QED  BY <2>2, <2>3
<1>9. /\ \A d \in Call \ called : CallsAt(v, d) = {}
      /\ \A x, y \in Call : x # y => CallsAt(v, x) \cap CallsAt(v, y) = {}
  BY <1>4 DEF Tallied
<1>10. ToolPieces(v) \subseteq Names(v, "open")  BY <1>0, <1>6, <1>7 DEF Tallied
<1>11. Tallied(v, called, more)  BY <1>8, <1>9, <1>10 DEF Tallied
<1> QED  BY <1>11 DEF v, e

-----------------------------------------------------------------------------
\* What is of no call.

\* u is m after events of no call.
Silent(m, u) ==
    /\ u \in Mem /\ Veiled(u)
    /\ SameCalls(Written(m), Written(u)) /\ u.tools = m.tools

\* One after the other.
LEMMA SilentAgain ==
    /\ \A m \in Mem : Veiled(m) => Silent(m, m)
    /\ \A m, u, v : Silent(m, u) /\ Silent(u, v) => Silent(m, v)
<1>1. \A m \in Mem : Veiled(m) => Silent(m, m)  BY SameCallsAgain DEF Silent
<1>2. \A m, u, v : Silent(m, u) /\ Silent(u, v) => Silent(m, v)  BY SameCallsAgain DEF Silent
<1> QED  BY <1>1, <1>2

\* A row of events of no call is written.
LEMMA SilentPut ==
    ASSUME NEW m \in Mem, Veiled(m), NEW s \in Seq(Ev), \A i \in DOMAIN s : s[i].kind # "tool"
    PROVE  Silent(m, Put(m, s)) /\ Same(m, Put(m, s)) /\ Put(m, s).gated = m.gated
           /\ Put(m, s).begun = m.begun
<1> DEFINE u == Put(m, s)
<1>1. /\ u \in Mem /\ Veiled(u) /\ Same(m, u) /\ Written(u) = Written(m) \o s /\ u.gated = m.gated
      /\ u.begun = m.begun
  BY PutMany
<1>2. Written(m) \in Seq(Ev)  BY MemFacts
<1>3. SameCalls(Written(m), Written(m) \o s)  BY <1>2, QuietMany
<1> HIDE DEF u
<1>4. Silent(m, u)  BY <1>1, <1>3 DEF Silent, Same
<1> QED  BY <1>1, <1>4 DEF u

\* One such event.
LEMMA SilentOne ==
    ASSUME NEW m \in Mem, Veiled(m), NEW e \in Ev, e.kind # "tool"
    PROVE  Silent(m, Put(m, <<e>>)) /\ Same(m, Put(m, <<e>>)) /\ Put(m, <<e>>).gated = m.gated
           /\ Put(m, <<e>>).begun = m.begun
<1>1. <<e>> \in Seq(Ev) /\ \A i \in DOMAIN <<e>> : <<e>>[i].kind # "tool"  OBVIOUS
<1> QED  BY <1>1, SilentPut

\* The kinds of what is written of no call.
LEMMA QuietKinds ==
    /\ \A e \in {Begin, Whole, Fail, Over, Raw} : e.kind # "tool"
    /\ \A i : Shut(i).kind # "tool"
    /\ \A i, k, n : k # "tool" => Open(i, k).kind # "tool" /\ Piece(i, k, n).kind # "tool"
BY DEF Begin, Whole, Fail, Over, Raw, Shut, Open, Piece, Event

\* The marks of a memory are of no call.
LEMMA SilentMarked ==
    ASSUME NEW m, NEW p, Silent(m, p), NEW o \in SUBSET Kinds, NEW n \in Nat, NEW x \in BOOLEAN
    PROVE  /\ Silent(m, [p EXCEPT !.begun = TRUE]) /\ Silent(m, [p EXCEPT !.open = o])
           /\ Silent(m, [p EXCEPT !.texted = x])
           /\ Silent(m, [p EXCEPT !.open = o, !.next = n])
           /\ Silent(m, [p EXCEPT !.open = o, !.texted = x])
<1>1. p \in Mem /\ Veiled(p) /\ SameCalls(Written(m), Written(p)) /\ p.tools = m.tools  BY DEF Silent
<1>2. ASSUME NEW u \in Mem, u.wire = p.wire, u.held = p.held, u.gated = p.gated, u.tools = p.tools
      PROVE  Silent(m, u)
  <2>1. Written(u) = Written(p) /\ Veiled(u)  BY <1>1, <1>2 DEF Written, Veiled
  <2> QED  BY <1>1, <1>2, <2>1 DEF Silent
<1>3. Silent(m, [p EXCEPT !.begun = TRUE])
  <2> DEFINE u == [p EXCEPT !.begun = TRUE]
  <2>1. u \in Mem /\ u.wire = p.wire /\ u.held = p.held /\ u.gated = p.gated /\ u.tools = p.tools
    BY <1>1 DEF Mem
  <2> HIDE DEF u
  <2> QED  BY <1>2, <2>1 DEF u
<1>4. Silent(m, [p EXCEPT !.open = o])
  <2> DEFINE u == [p EXCEPT !.open = o]
  <2>1. u \in Mem /\ u.wire = p.wire /\ u.held = p.held /\ u.gated = p.gated /\ u.tools = p.tools
    BY <1>1 DEF Mem
  <2> HIDE DEF u
  <2> QED  BY <1>2, <2>1 DEF u
<1>5. Silent(m, [p EXCEPT !.texted = x])
  <2> DEFINE u == [p EXCEPT !.texted = x]
  <2>1. u \in Mem /\ u.wire = p.wire /\ u.held = p.held /\ u.gated = p.gated /\ u.tools = p.tools
    BY <1>1 DEF Mem
  <2> HIDE DEF u
  <2> QED  BY <1>2, <2>1 DEF u
<1>6. Silent(m, [p EXCEPT !.open = o, !.next = n])
  <2> DEFINE u == [p EXCEPT !.open = o, !.next = n]
  <2>1. u \in Mem /\ u.wire = p.wire /\ u.held = p.held /\ u.gated = p.gated /\ u.tools = p.tools
    BY <1>1 DEF Mem
  <2> HIDE DEF u
  <2> QED  BY <1>2, <2>1 DEF u
<1>7. Silent(m, [p EXCEPT !.open = o, !.texted = x])
  <2> DEFINE u == [p EXCEPT !.open = o, !.texted = x]
  <2>1. u \in Mem /\ u.wire = p.wire /\ u.held = p.held /\ u.gated = p.gated /\ u.tools = p.tools
    BY <1>1 DEF Mem
  <2> HIDE DEF u
  <2> QED  BY <1>2, <2>1 DEF u
<1> QED  BY <1>3, <1>4, <1>5, <1>6, <1>7

\* What the converters write of no call: the reply's beginning, text, thinking, and the
\* message item.
LEMMA SilentStarted == ASSUME NEW m \in Mem, Veiled(m) PROVE Silent(m, Started(m)) /\ Started(m).gated = m.gated
<1>1. CASE m.begun  BY <1>1, SilentAgain DEF Started
<1>2. CASE ~m.begun
  <2> DEFINE p == Put(m, <<Begin>>)
  <2>1. Begin \in Ev /\ Begin.kind # "tool"  BY EventFacts, QuietKinds
  <2>2. Silent(m, p) /\ p.gated = m.gated  BY <2>1, SilentOne
  <2> HIDE DEF p
  <2>3. {} \in SUBSET Kinds /\ 0 \in Nat /\ TRUE \in BOOLEAN  OBVIOUS
  <2>4. Silent(m, [p EXCEPT !.begun = TRUE])  BY <2>2, <2>3, SilentMarked
  <2>5. [p EXCEPT !.begun = TRUE].gated = p.gated  BY <2>2 DEF Silent, Mem
  <2> QED  BY <1>2, <2>2, <2>4, <2>5 DEF Started, p
<1> QED  BY <1>1, <1>2

\* A text or thinking block shuts.
LEMMA SilentCloses == ASSUME NEW m \in Mem, Veiled(m), NEW kind PROVE Silent(m, CloseBlock(m, kind))
<1>1. CASE kind \notin m.open  BY <1>1, SilentAgain DEF CloseBlock
<1>2. CASE kind \in m.open
  <2> DEFINE e == Shut(m.next)  p == Put(m, <<e>>)  o == p.open \ {kind}  n == p.next + 1
  <2>1. m.next \in Int  BY MemFacts
  <2>2. e \in Ev /\ e.kind # "tool"  BY <2>1, EventFacts, QuietKinds
  <2> HIDE DEF e
  <2>3. Silent(m, p)  BY <2>2, SilentOne
  <2> HIDE DEF p
  <2>4. o \in SUBSET Kinds /\ n \in Nat /\ TRUE \in BOOLEAN  BY <2>3, MemFacts DEF Silent
  <2>5. CloseBlock(m, kind) = [p EXCEPT !.open = o, !.next = n]  BY <1>2 DEF CloseBlock, p, e
  <2> HIDE DEF o, n
  <2>6. Silent(m, [p EXCEPT !.open = o, !.next = n])  BY <2>3, <2>4, SilentMarked
  <2> QED  BY <2>5, <2>6
<1> QED  BY <1>1, <1>2

\* Both shut.
LEMMA SilentClosesBoth == ASSUME NEW m \in Mem, Veiled(m) PROVE Silent(m, CloseBoth(m))
<1> DEFINE p == CloseBlock(m, "think")
<1>1. Silent(m, p)  BY SilentCloses
<1> HIDE DEF p
<1>2. Silent(p, CloseBlock(p, "text"))  BY <1>1, SilentCloses DEF Silent
<1> QED  BY <1>1, <1>2, SilentAgain DEF CloseBoth, p

\* A block opens, the other one shuts.
LEMMA SilentStartsBlock ==
    ASSUME NEW m \in Mem, Veiled(m), NEW kind \in {"text", "think"} PROVE Silent(m, StartBlock(m, kind))
<1>1. CASE kind \in m.open  BY <1>1, SilentAgain DEF StartBlock
<1>2. CASE kind \notin m.open
  <2> DEFINE v == CloseBlock(m, Other(kind))  e == Open(v.next, kind)  p == Put(v, <<e>>)
             o == p.open \union {kind}  x == p.texted \/ kind = "text"
  <2>1. Silent(m, v)  BY SilentCloses
  <2> HIDE DEF v
  <2>2. v \in Mem /\ Veiled(v) /\ v.next \in Int /\ kind \in Kinds  BY <2>1, MemFacts DEF Silent, Kinds
  <2>3. e \in Ev /\ e.kind # "tool"  BY <2>2, EventFacts, QuietKinds
  <2> HIDE DEF e
  <2>4. Silent(v, p)  BY <2>2, <2>3, SilentOne
  <2> HIDE DEF p
  <2>5. o \in SUBSET Kinds /\ x \in BOOLEAN /\ 0 \in Nat  BY <2>2, <2>4, MemFacts DEF Silent
  <2>6. StartBlock(m, kind) = [p EXCEPT !.open = o, !.texted = x]  BY <1>2 DEF StartBlock, p, e, v
  <2> HIDE DEF o, x
  <2>7. Silent(v, [p EXCEPT !.open = o, !.texted = x])  BY <2>4, <2>5, SilentMarked
  <2> QED  BY <2>1, <2>6, <2>7, SilentAgain
<1> QED  BY <1>1, <1>2

\* Text or thinking in a block of its own.
LEMMA SilentSays ==
    ASSUME NEW m \in Mem, Veiled(m), NEW kind \in {"text", "think"} PROVE Silent(m, SayBlock(m, kind))
<1> DEFINE v == StartBlock(m, kind)  e == Piece(v.next, kind, 1)
<1>1. Silent(m, v)  BY SilentStartsBlock
<1> HIDE DEF v
<1>2. v \in Mem /\ Veiled(v) /\ v.next \in Int /\ kind \in Kinds  BY <1>1, MemFacts DEF Silent, Kinds
<1>3. e \in Ev /\ e.kind # "tool"  BY <1>2, EventFacts, QuietKinds
<1> HIDE DEF e
<1>4. Silent(v, Put(v, <<e>>))  BY <1>2, <1>3, SilentOne
<1> QED  BY <1>1, <1>4, SilentAgain DEF SayBlock, v, e

\* Sealed reasoning.
LEMMA SilentSeals == ASSUME NEW m \in Mem, Veiled(m) PROVE Silent(m, ResponsesToClaudeSealed(m))
<1> DEFINE v == CloseBoth(Started(m))  e == Open(v.next, "think")  p == Put(v, <<e>>)
           o == p.open \union {"think"}
<1>1. Silent(m, v)
  <2> DEFINE s == Started(m)
  <2>1. Silent(m, s)  BY SilentStarted
  <2> HIDE DEF s
  <2>2. Silent(s, CloseBoth(s))  BY <2>1, SilentClosesBoth DEF Silent
  <2> QED  BY <2>1, <2>2, SilentAgain DEF s
<1> HIDE DEF v
<1>2. v \in Mem /\ Veiled(v) /\ v.next \in Int /\ "think" \in Kinds  BY <1>1, MemFacts DEF Silent, Kinds
<1>3. e \in Ev /\ e.kind # "tool"  BY <1>2, EventFacts, QuietKinds
<1> HIDE DEF e
<1>4. Silent(v, p)  BY <1>2, <1>3, SilentOne
<1> HIDE DEF p
<1>5. o \in SUBSET Kinds /\ 0 \in Nat /\ TRUE \in BOOLEAN  BY <1>2, <1>4, MemFacts DEF Silent
<1>6. ResponsesToClaudeSealed(m) = [p EXCEPT !.open = o]  BY DEF ResponsesToClaudeSealed, p, e, v
<1> HIDE DEF o
<1>7. Silent(v, [p EXCEPT !.open = o])  BY <1>4, <1>5, SilentMarked
<1> QED  BY <1>1, <1>6, <1>7, SilentAgain

\* The gate opens.
LEMMA SilentUnveils == ASSUME NEW m \in Mem, Veiled(m) PROVE m.gated => Silent(m, Unveil(m))
<1> SUFFICES ASSUME m.gated PROVE Silent(m, Unveil(m))  OBVIOUS
<1> DEFINE u == Unveil(m)
<1>1. m.wire = <<>> /\ m.held \in Seq(Ev)  BY MemFacts DEF Veiled
<1>2. m.wire \o m.held = m.held /\ <<>> \in Seq(Ev)  BY <1>1
<1>3. u = [m EXCEPT !.gated = FALSE, !.wire = m.held, !.held = <<>>]  BY <1>2 DEF Unveil
<1>4. u \in Mem /\ ~u.gated /\ u.wire = m.held /\ u.tools = m.tools  BY <1>1, <1>2, <1>3 DEF Mem
<1> HIDE DEF u
<1>5. Written(u) = Written(m) /\ Veiled(u)  BY <1>4 DEF Written, Veiled
<1>6. Silent(m, u)  BY <1>4, <1>5, SameCallsAgain DEF Silent
<1> QED  BY <1>6 DEF u

\* The message item shuts.
LEMMA SilentMessage == ASSUME NEW m \in Mem, Veiled(m) PROVE Silent(m, CloseMessage(m))
<1>1. CASE "text" \notin m.open  BY <1>1, SilentAgain DEF CloseMessage
<1>2. CASE "text" \in m.open
  <2> DEFINE e == Shut(m.next)  p == Put(m, <<e>>)  n == p.next + 1
  <2>1. m.next \in Int  BY MemFacts
  <2>2. e \in Ev /\ e.kind # "tool"  BY <2>1, EventFacts, QuietKinds
  <2> HIDE DEF e
  <2>3. Silent(m, p)  BY <2>2, SilentOne
  <2> HIDE DEF p
  <2>4. {} \in SUBSET Kinds /\ n \in Nat /\ TRUE \in BOOLEAN  BY <2>3, MemFacts DEF Silent
  <2>5. CloseMessage(m) = [p EXCEPT !.open = {}, !.next = n]  BY <1>2 DEF CloseMessage, p, e
  <2> HIDE DEF n
  <2>6. Silent(m, [p EXCEPT !.open = {}, !.next = n])  BY <2>3, <2>4, SilentMarked
  <2> QED  BY <2>5, <2>6
<1> QED  BY <1>1, <1>2

\* appendTextDelta.
LEMMA SilentAppends == ASSUME NEW m \in Mem, Veiled(m) PROVE Silent(m, AppendText(m))
<1> DEFINE s == Started(m)  e == Open(m.next, "text")  p == Put(s, <<e>>)
           u == IF m.texted THEN m ELSE [p EXCEPT !.texted = TRUE, !.open = {"text"}]
           f == Piece(u.next, "text", 1)
<1>1. m.next \in Int /\ "text" \in Kinds  BY MemFacts DEF Kinds
<1>2. Silent(m, u)
  <2>1. CASE m.texted  BY <2>1, SilentAgain
  <2>2. CASE ~m.texted
    <3>1. Silent(m, s)  BY SilentStarted
    <3> HIDE DEF s
    <3>2. e \in Ev /\ e.kind # "tool"  BY <1>1, EventFacts, QuietKinds
    <3> HIDE DEF e
    <3>3. Silent(s, p)  BY <3>1, <3>2, SilentOne DEF Silent
    <3> HIDE DEF p
    <3>4. Silent(m, p)  BY <3>1, <3>3, SilentAgain
    <3>5. {"text"} \in SUBSET Kinds /\ 0 \in Nat /\ TRUE \in BOOLEAN  BY <1>1
    <3>6. [p EXCEPT !.texted = TRUE, !.open = {"text"}] = [p EXCEPT !.open = {"text"}, !.texted = TRUE]
      BY <3>4 DEF Silent, Mem
    <3>7. Silent(m, [p EXCEPT !.open = {"text"}, !.texted = TRUE])  BY <3>4, <3>5, SilentMarked
    <3> QED  BY <2>2, <3>6, <3>7
  <2> QED  BY <2>1, <2>2
<1>3. AppendText(m) = Put(u, <<f>>)  BY DEF AppendText
<1> HIDE DEF u
<1>4. u \in Mem /\ Veiled(u) /\ u.next \in Int  BY <1>2, MemFacts DEF Silent
<1>5. f \in Ev /\ f.kind # "tool"  BY <1>1, <1>4, EventFacts, QuietKinds
<1> HIDE DEF f
<1>6. Silent(u, Put(u, <<f>>))  BY <1>4, <1>5, SilentOne
<1> QED  BY <1>2, <1>3, <1>6, SilentAgain

\* A piece that stands in no block.
LEMMA SilentLoose ==
    ASSUME NEW m \in Mem, Veiled(m), NEW kind \in {"text", "think"} PROVE Silent(m, Say(m, kind))
<1> DEFINE s == Started(m)  e == Piece(Loose, kind, 1)
<1>1. Silent(m, s)  BY SilentStarted
<1> HIDE DEF s
<1>2. e \in Ev /\ e.kind # "tool"
  <2>1. Loose \in Int /\ kind \in Kinds  BY DEF Loose, Kinds
  <2> QED  BY <2>1, EventFacts, QuietKinds
<1> HIDE DEF e
<1>3. Silent(s, Put(s, <<e>>))  BY <1>1, <1>2, SilentOne DEF Silent
<1> QED  BY <1>1, <1>3, SilentAgain DEF Say, s, e

-----------------------------------------------------------------------------
\* The entries of a converter, in step with the calls.

\* A converter's memory and what the upstream sent of calls, in step.
InStep(m, called, args, shut) ==
    /\ m \in Mem /\ Veiled(m) /\ called \in SUBSET Call /\ args \in [Call -> Nat]
    /\ Keyed(m, called, args, shut)
\* n pieces more of call c.
Grown(args, more, c, n) ==
    /\ more \in [Call -> Nat] /\ more[c] = args[c] + n
    /\ \A d \in Call : d # c => more[d] = args[d]
\* Call c is opened under the next number.
CallOpened(m, c) == [Put(m, <<OpenTool(m.next, c)>>)
                       EXCEPT !.next = @ + 1, !.tools = Append(@, NewTool(c, m.next))]
\* With it, u is in step; its last entry is the call's.
OpenedAs(u, called, args, shut, c) ==
    /\ InStep(u, called \union {c}, args, shut)
    /\ u.tools # <<>> /\ u.tools[Len(u.tools)].key = c

\* What is of no call keeps the entries.
LEMMA KeyedSilent ==
    ASSUME NEW m, NEW u, NEW called, NEW args, NEW shut, Keyed(m, called, args, shut), Silent(m, u)
    PROVE  Keyed(u, called, args, shut)
<1>1. u.tools = m.tools /\ SameCalls(Written(m), Written(u))  BY DEF Silent
<1>2. Tallied(Written(u), called, args)  BY <1>1, TalliedSame DEF Keyed
<1>3. \A c : CallsAt(Written(u), c) = CallsAt(Written(m), c)  BY <1>1 DEF SameCalls
<1>4. \A c : HasTool(u, c) <=> HasTool(m, c)  BY <1>1 DEF HasTool, ToolOf
<1> QED  BY <1>1, <1>2, <1>3, <1>4 DEF Keyed

\* Only the arguments of the calls matter, and what may be shut may be more.
LEMMA KeyedAlike ==
    ASSUME NEW m, NEW called, NEW args, NEW shut, Keyed(m, called, args, shut),
           NEW more, \A c \in called : more[c] = args[c], NEW wider, shut \subseteq wider
    PROVE  Keyed(m, called, more, wider)
<1>1. Tallied(Written(m), called, more)  BY DEF Keyed, Tallied
<1> QED  BY <1>1 DEF Keyed

\* Without calls, without entries.
LEMMA NothingKeyed ==
    ASSUME NEW m, Written(m) = <<>>, m.tools = <<>>, NEW args, NEW shut
    PROVE  Keyed(m, {}, args, shut)
BY NothingTallies DEF Keyed

\* The entry of a call.
LEMMA KeyedFinds ==
    ASSUME NEW m, NEW called, NEW args, NEW shut, Keyed(m, called, args, shut), NEW c
    PROVE  /\ c \in called <=> HasTool(m, c)
           /\ \A i \in DOMAIN m.tools : m.tools[i].key = c => i = ToolAt(m, c)
           /\ c \in called => /\ ToolAt(m, c) \in DOMAIN m.tools /\ m.tools[ToolAt(m, c)].key = c
                              /\ m.tools[ToolAt(m, c)].sent = args[c]
                              /\ m.tools[ToolAt(m, c)].open \/ c \in shut
<1>1. c \in called => HasTool(m, c)  BY DEF Keyed
<1>2. HasTool(m, c) => ToolAt(m, c) \in DOMAIN m.tools /\ m.tools[ToolAt(m, c)].key = c
  BY ToolAtFacts
<1>3. HasTool(m, c) => c \in called  BY <1>2 DEF Keyed
<1>4. \A i \in DOMAIN m.tools : m.tools[i].key = c => HasTool(m, c)  BY DEF HasTool, ToolOf
<1>5. \A i \in DOMAIN m.tools : m.tools[i].key = c => i = ToolAt(m, c)  BY <1>2, <1>4 DEF Keyed
<1>6. HasTool(m, c) => /\ m.tools[ToolAt(m, c)].sent = args[c]
                       /\ m.tools[ToolAt(m, c)].open \/ c \in shut
  BY <1>2 DEF Keyed
<1> QED  BY <1>1, <1>2, <1>3, <1>5, <1>6

\* A call opens under a number of its own and gets its entry.
LEMMA KeyedOpens ==
    ASSUME NEW m, NEW called, NEW args, NEW shut, InStep(m, called, args, shut),
           NEW c \in Call \ called, args[c] = 0,
           NEW grows, Sane(m, grows), ~Cur(m), NEW u, u = CallOpened(m, c)
    PROVE  OpenedAs(u, called, args, shut, c)
<1> DEFINE e == OpenTool(m.next, c)  p == Put(m, <<e>>)  k == NewTool(c, m.next)
           n == p.next + 1  ts == Append(p.tools, k)
<1>0. /\ m \in Mem /\ Veiled(m) /\ called \in SUBSET Call /\ Keyed(m, called, args, shut)
      /\ args \in [Call -> Nat] /\ m.next \notin Names(Written(m), "open")
  BY DEF InStep, Sane, Numbered
<1>1. /\ m.next \in Nat /\ m.next \in Int /\ c \in Int /\ m.tools \in Seq(Tool) /\ Written(m) \in Seq(Ev)
      /\ DOMAIN m.tools = 1 .. Len(m.tools) /\ Len(m.tools) \in Nat
  <2>1. c \in Nat  BY CallNumbers
  <2>2. m.next \in Nat  BY <1>0, MemFacts
  <2> QED  BY <1>0, <2>1, <2>2, MemFacts
<1>2. e \in Ev  BY <1>1, EventFacts
<1>3. p \in Mem /\ Veiled(p) /\ p.tools = m.tools /\ p.next = m.next
      /\ Written(p) = Append(Written(m), e)
  BY <1>0, <1>2, PutOne DEF Same
<1>4. k \in Tool /\ k.key = c /\ k.at = m.next /\ k.open /\ k.sent = 0  BY <1>1 DEF NewTool, Tool
<1>5. u = [p EXCEPT !.next = n, !.tools = ts]  BY DEF CallOpened
<1> HIDE DEF k, p, e
<1>6. n \in Nat /\ ts \in Seq(Tool) /\ ts = Append(m.tools, k)  BY <1>1, <1>3, <1>4
<1> HIDE DEF n, ts
<1>7. /\ u \in Mem /\ u.wire = p.wire /\ u.held = p.held /\ u.gated = p.gated /\ u.tools = ts
  BY <1>3, <1>5, <1>6 DEF Mem
<1>8. Veiled(u) /\ Written(u) = Append(Written(m), e)  BY <1>3, <1>7 DEF Veiled, Written
<1>9. Tallied(Written(u), called \union {c}, args)
  <2> DEFINE w == Written(m)  at == m.next
  <2>1. Tallied(w, called, args)  BY <1>0 DEF Keyed
  <2>2. w \in Seq(Ev) /\ at \in Int /\ at \notin Names(w, "open")  BY <1>0, <1>1
  <2> HIDE DEF w, at
  <2>3. Tallied(Append(w, OpenTool(at, c)), called \union {c}, args)  BY <1>0, <2>1, <2>2, TalliedOpens
  <2> QED  BY <1>8, <2>3 DEF w, at, e
<1>10. /\ \A d : CallsAt(Written(m), d) \subseteq CallsAt(Written(u), d)
       /\ m.next \in CallsAt(Written(u), c)
  <2>1. \A d : CallsAt(Written(u), d)
                 = CallsAt(Written(m), d) \union (IF e = OpenTool(e.at, d) THEN {e.at} ELSE {})
    <3> DEFINE w == Written(m)
    <3>1. w \in Seq(Ev)  BY <1>1
    <3> HIDE DEF w
    <3>2. \A d : CallsAt(Append(w, e), d)
                   = CallsAt(w, d) \union (IF e = OpenTool(e.at, d) THEN {e.at} ELSE {})
      BY <1>2, <3>1, CallsFacts
    <3> QED  BY <1>8, <3>2 DEF w
  <2>2. e.at = m.next /\ e = OpenTool(e.at, c)  BY DEF e, OpenTool, Event
  <2> QED  BY <2>1, <2>2
<1>11. /\ Len(ts) = Len(m.tools) + 1 /\ DOMAIN ts = 1 .. Len(m.tools) + 1
       /\ ts[Len(m.tools) + 1] = k /\ \A i \in 1 .. Len(m.tools) : ts[i] = m.tools[i]
  BY <1>1, <1>4, <1>6
<1>12. \A i \in DOMAIN ts : i \in DOMAIN m.tools \/ i = Len(m.tools) + 1  BY <1>1, <1>11
<1>13. \A i \in DOMAIN m.tools : m.tools[i].key \in called  BY <1>0 DEF Keyed
<1>14. ASSUME NEW i \in DOMAIN ts
       PROVE  /\ ts[i].key \in called \union {c}
              /\ ts[i].at \in CallsAt(Written(u), ts[i].key)
              /\ ts[i].sent = args[ts[i].key]
              /\ ts[i].open \/ ts[i].key \in shut
  <2>1. CASE i \in DOMAIN m.tools  BY <1>0, <1>1, <1>10, <1>11, <2>1 DEF Keyed
  <2>2. CASE i = Len(m.tools) + 1  BY <1>4, <1>10, <1>11, <2>2
  <2> QED  BY <1>12, <2>1, <2>2
<1>15. ASSUME NEW i \in DOMAIN ts, NEW j \in DOMAIN ts, ts[i].key = ts[j].key PROVE i = j
  <2>1. CASE i \in DOMAIN m.tools /\ j \in DOMAIN m.tools  BY <1>0, <1>1, <1>11, <1>15, <2>1 DEF Keyed
  <2>2. CASE i = Len(m.tools) + 1 /\ j = Len(m.tools) + 1  BY <2>2
  <2>3. CASE i \in DOMAIN m.tools /\ j = Len(m.tools) + 1  BY <1>1, <1>4, <1>11, <1>13, <1>15, <2>3
  <2>4. CASE i = Len(m.tools) + 1 /\ j \in DOMAIN m.tools  BY <1>1, <1>4, <1>11, <1>13, <1>15, <2>4
  <2> QED  BY <1>12, <2>1, <2>2, <2>3, <2>4
<1>16. ASSUME NEW d \in called \union {c} PROVE \E i \in DOMAIN ts : ts[i].key = d
  <2>1. CASE d = c
    <3>1. Len(m.tools) + 1 \in DOMAIN ts  BY <1>1, <1>11
    <3> QED  BY <1>4, <1>11, <2>1, <3>1
  <2>2. CASE d \in called
    <3>1. HasTool(m, d)  BY <1>0, <2>2 DEF Keyed
    <3>2. PICK i \in DOMAIN m.tools : m.tools[i].key = d  BY <3>1 DEF HasTool, ToolOf
    <3>3. i \in 1 .. Len(m.tools) /\ i \in DOMAIN ts  BY <1>1, <1>11, <3>2
    <3> QED  BY <1>11, <3>2, <3>3
  <2> QED  BY <2>1, <2>2
<1>17. \A d \in called \union {c} : HasTool(u, d)  BY <1>7, <1>16 DEF HasTool, ToolOf
<1>18. Keyed(u, called \union {c}, args, shut)  BY <1>7, <1>9, <1>14, <1>15, <1>17 DEF Keyed
<1>19. u.tools # <<>> /\ u.tools[Len(u.tools)].key = c  BY <1>1, <1>4, <1>7, <1>11
<1>20. called \union {c} \in SUBSET Call  BY <1>0
<1> QED  BY <1>0, <1>7, <1>8, <1>18, <1>19, <1>20 DEF InStep, OpenedAs

\* Arguments are written at the number of the call and counted in its entry.
LEMMA KeyedArgs ==
    ASSUME NEW m, NEW called, NEW args, NEW shut, InStep(m, called, args, shut),
           NEW i \in DOMAIN m.tools, NEW n \in Int, NEW more, Grown(args, more, m.tools[i].key, n)
    PROVE  LET u == CallArgs(m, i, n) IN
           /\ InStep(u, called, more, shut)
           /\ u.open = m.open /\ u.texted = m.texted /\ Len(u.tools) = Len(m.tools)
           /\ \A j \in DOMAIN m.tools : u.tools[j].key = m.tools[j].key
<1> DEFINE at == m.tools[i].at  c == m.tools[i].key  e == Piece(at, "tool", n)  p == Put(m, <<e>>)
           k == p.tools[i].sent + n  u == CallArgs(m, i, n)
<1>0. /\ m \in Mem /\ Veiled(m) /\ called \in SUBSET Call /\ Keyed(m, called, args, shut)
      /\ more \in [Call -> Nat] /\ more[c] = args[c] + n
      /\ \A d \in called : d # c => more[d] = args[d]
  BY DEF InStep, Grown
<1>1. /\ m.tools[i] \in Tool /\ at \in Int /\ c \in called /\ at \in CallsAt(Written(m), c)
      /\ m.tools[i].sent = args[c] /\ Written(m) \in Seq(Ev) /\ m.tools[i].sent \in Int
      /\ DOMAIN m.tools = 1 .. Len(m.tools) /\ Len(m.tools) \in Nat
  <2>1. m.tools[i] \in Tool /\ Written(m) \in Seq(Ev)  BY <1>0, MemFacts
  <2>2. at \in Int /\ m.tools[i].sent \in Int  BY <2>1 DEF Tool
  <2>3. c \in called /\ at \in CallsAt(Written(m), c) /\ m.tools[i].sent = args[c]  BY <1>0 DEF Keyed
  <2> QED  BY <1>0, <2>1, <2>2, <2>3, MemFacts
<1>2. e \in Ev
  <2>1. "tool" \in Kinds  BY DEF Kinds
  <2> QED  BY <1>1, <2>1, EventFacts
<1>3. p \in Mem /\ Veiled(p) /\ p.tools = m.tools /\ p.open = m.open /\ p.texted = m.texted
      /\ Written(p) = Append(Written(m), e)
  BY <1>0, <1>2, PutOne DEF Same
<1>4. u = SentTo(p, i, k)  BY DEF CallArgs, SentTo
<1> HIDE DEF p, u
<1>5. k = args[c] + n /\ k \in Int /\ i \in DOMAIN p.tools  BY <1>1, <1>3
<1> HIDE DEF k
<1>6. u = [p EXCEPT !.tools = [p.tools EXCEPT ![i].sent = k]]  BY <1>4 DEF SentTo
<1> DEFINE ts == [p.tools EXCEPT ![i].sent = k]
<1>7. /\ ts \in Seq(Tool) /\ DOMAIN ts = DOMAIN m.tools /\ Len(ts) = Len(m.tools)
      /\ \A j \in DOMAIN m.tools :
            /\ ts[j].at = m.tools[j].at /\ ts[j].key = m.tools[j].key /\ ts[j].open = m.tools[j].open
            /\ ts[j].sent = IF j = i THEN k ELSE m.tools[j].sent
  <2>1. \A j \in DOMAIN m.tools : ts[j] = IF j = i THEN [m.tools[i] EXCEPT !.sent = k] ELSE m.tools[j]
    BY <1>1, <1>3
  <2>2. /\ [m.tools[i] EXCEPT !.sent = k] \in Tool /\ [m.tools[i] EXCEPT !.sent = k].at = m.tools[i].at
        /\ [m.tools[i] EXCEPT !.sent = k].open = m.tools[i].open
        /\ [m.tools[i] EXCEPT !.sent = k].key = m.tools[i].key
        /\ [m.tools[i] EXCEPT !.sent = k].sent = k
    BY <1>1, <1>5 DEF Tool
  <2>3. \A j \in DOMAIN m.tools : m.tools[j] \in Tool  BY <1>0, MemFacts
  <2>4. DOMAIN ts = DOMAIN m.tools  BY <1>3
  <2> HIDE DEF ts
  <2>5. \A j \in 1 .. Len(m.tools) : ts[j] \in Tool  BY <1>1, <2>1, <2>2, <2>3
  <2> DEFINE l == Len(m.tools)
  <2>6. ts = [j \in 1 .. l |-> ts[j]]
    <3>1. p.tools \in Seq(Tool)  BY <1>3, MemFacts
    <3>2. DOMAIN ts = 1 .. l  BY <1>1, <2>4
    <3>3. ts = [j \in DOMAIN ts |-> ts[j]]  BY DEF ts
    <3> QED  BY <3>2, <3>3
  <2>7. l \in Nat  BY <1>1
  <2> HIDE DEF l
  <2>8. ts \in [1 .. l -> Tool]  BY <2>5, <2>6 DEF l
  <2>9. ts \in Seq(Tool) /\ Len(ts) = l  BY <2>7, <2>8
  <2> QED  BY <2>1, <2>2, <2>4, <2>9 DEF l
<1>8. u = [p EXCEPT !.tools = ts]  BY <1>6
<1> HIDE DEF ts
<1>9. /\ u \in Mem /\ u.wire = p.wire /\ u.held = p.held /\ u.gated = p.gated /\ u.tools = ts
      /\ u.open = p.open /\ u.texted = p.texted
  BY <1>3, <1>7, <1>8 DEF Mem
<1>10. Veiled(u) /\ Written(u) = Append(Written(m), e)  BY <1>3, <1>9 DEF Veiled, Written
<1>11. Tallied(Written(u), called, more)
  <2>1. more[c] = args[c] + n /\ \A d \in called : d # c => more[d] = args[d]  BY <1>0
  <2>2. Tallied(Written(m), called, args)  BY <1>0 DEF Keyed
  <2> HIDE DEF c, at
  <2> QED  BY <1>0, <1>1, <1>10, <2>1, <2>2, TalliedGrows DEF e
<1>12. \A d : CallsAt(Written(u), d) = CallsAt(Written(m), d)
  <2>1. \A d : CallsAt(Written(u), d)
                 = CallsAt(Written(m), d) \union (IF e = OpenTool(e.at, d) THEN {e.at} ELSE {})
    BY <1>1, <1>2, <1>10, CallsFacts
  <2>2. \A d : e # OpenTool(e.at, d)  BY DEF e, Piece, OpenTool, Event
  <2> QED  BY <2>1, <2>2
<1>13. ASSUME NEW j \in DOMAIN m.tools PROVE ts[j].sent = more[ts[j].key]
  <2>1. CASE j = i  BY <1>0, <1>5, <1>7, <2>1
  <2>2. CASE j # i
    <3>1. m.tools[j].key # c /\ m.tools[j].key \in called /\ m.tools[j].sent = args[m.tools[j].key]
      BY <1>0, <2>2 DEF Keyed
    <3> QED  BY <1>0, <1>7, <2>2, <3>1
  <2> QED  BY <2>1, <2>2
<1>14. \A j \in DOMAIN u.tools :
          /\ u.tools[j].key \in called
          /\ u.tools[j].at \in CallsAt(Written(u), u.tools[j].key)
          /\ u.tools[j].sent = more[u.tools[j].key]
          /\ u.tools[j].open \/ u.tools[j].key \in shut
  BY <1>0, <1>7, <1>9, <1>12, <1>13 DEF Keyed
<1>15. \A x, y \in DOMAIN u.tools : u.tools[x].key = u.tools[y].key => x = y
  BY <1>0, <1>7, <1>9 DEF Keyed
<1>16. \A d \in called : HasTool(u, d)
  <2>1. \A d \in called : \E j \in DOMAIN m.tools : m.tools[j].key = d  BY <1>0 DEF Keyed, HasTool, ToolOf
  <2> QED  BY <1>7, <1>9, <2>1 DEF HasTool, ToolOf
<1>17. Keyed(u, called, more, shut)  BY <1>11, <1>14, <1>15, <1>16 DEF Keyed
<1> QED  BY <1>0, <1>3, <1>7, <1>9, <1>10, <1>17 DEF u, InStep

\* In step, and an event of no call.
LEMMA KeptSilent ==
    ASSUME NEW m, NEW called, NEW args, NEW shut, InStep(m, called, args, shut), NEW u, Silent(m, u)
    PROVE  InStep(u, called, args, shut)
<1>1. Keyed(u, called, args, shut)  BY KeyedSilent DEF InStep
<1> QED  BY <1>1 DEF InStep, Silent

\* In step, and nothing more of a call.
LEMMA KeptAlike ==
    ASSUME NEW m, NEW called, NEW args, NEW shut, InStep(m, called, args, shut), NEW c \in Call,
           NEW more, Grown(args, more, c, 0)
    PROVE  InStep(m, called, more, shut)
<1>1. \A d \in called : more[d] = args[d] /\ args[d] \in Nat  BY DEF InStep, Grown
<1>2. Keyed(m, called, more, shut)  BY <1>1, KeyedAlike DEF InStep
<1> QED  BY <1>2 DEF InStep, Grown

\* In step, and more calls that may be shut.
LEMMA KeptWider ==
    ASSUME NEW m, NEW called, NEW args, NEW shut, InStep(m, called, args, shut), NEW wider,
           shut \subseteq wider
    PROVE  InStep(m, called, args, wider)
<1>1. Keyed(m, called, args, wider)  BY KeyedAlike DEF InStep
<1> QED  BY <1>1 DEF InStep

\* A call is shut.
LEMMA KeptShuts ==
    ASSUME NEW m, NEW called, NEW args, NEW shut, InStep(m, called, args, shut), NEW i \in DOMAIN m.tools
    PROVE  InStep(ShutTool(m, i), called, args, shut \union {m.tools[i].key})
<1> DEFINE e == Shut(m.tools[i].at)  p == Put(m, <<e>>)  u == ShutTool(m, i)
           ts == [m.tools EXCEPT ![i].open = FALSE]
<1>1. /\ m \in Mem /\ Veiled(m) /\ called \in SUBSET Call /\ Keyed(m, called, args, shut)
      /\ args \in [Call -> Nat]
  BY DEF InStep
<1>2. /\ m.tools[i] \in Tool /\ DOMAIN m.tools = 1 .. Len(m.tools) /\ Len(m.tools) \in Nat
      /\ \A j \in DOMAIN m.tools : m.tools[j] \in Tool
  BY <1>1, MemFacts
<1>3. e \in Ev /\ e.kind # "tool"
  <2>1. m.tools[i].at \in Int  BY <1>2 DEF Tool
  <2> QED  BY <2>1, EventFacts, QuietKinds
<1> HIDE DEF e
<1>4. Silent(m, p) /\ p.tools = m.tools  BY <1>1, <1>3, SilentOne DEF Same
<1>5. u = [p EXCEPT !.tools[i].open = FALSE]  BY DEF ShutTool, e
<1> HIDE DEF p, u
<1>6. u = [p EXCEPT !.tools = ts]  BY <1>4, <1>5
<1>7. /\ ts \in Seq(Tool) /\ DOMAIN ts = DOMAIN m.tools
      /\ \A j \in DOMAIN m.tools :
            /\ ts[j].at = m.tools[j].at /\ ts[j].key = m.tools[j].key /\ ts[j].sent = m.tools[j].sent
            /\ j # i => ts[j].open = m.tools[j].open
  <2>1. \A j \in DOMAIN m.tools : ts[j] = IF j = i THEN [m.tools[i] EXCEPT !.open = FALSE] ELSE m.tools[j]
    BY <1>2
  <2>2. /\ [m.tools[i] EXCEPT !.open = FALSE] \in Tool /\ [m.tools[i] EXCEPT !.open = FALSE].at = m.tools[i].at
        /\ [m.tools[i] EXCEPT !.open = FALSE].key = m.tools[i].key
        /\ [m.tools[i] EXCEPT !.open = FALSE].sent = m.tools[i].sent
    BY <1>2 DEF Tool
  <2>3. DOMAIN ts = DOMAIN m.tools  OBVIOUS
  <2> HIDE DEF ts
  <2> DEFINE l == Len(m.tools)
  <2>4. \A j \in 1 .. l : ts[j] \in Tool  BY <1>2, <2>1, <2>2
  <2>5. ts = [j \in 1 .. l |-> ts[j]]
    <3>1. DOMAIN ts = 1 .. l  BY <1>2, <2>3
    <3>2. ts = [j \in DOMAIN ts |-> ts[j]]  BY DEF ts
    <3> QED  BY <3>1, <3>2
  <2>6. l \in Nat  BY <1>2
  <2> HIDE DEF l
  <2>7. ts \in [1 .. l -> Tool]  BY <2>4, <2>5
  <2>8. ts \in Seq(Tool)  BY <2>6, <2>7
  <2> QED  BY <2>1, <2>2, <2>3, <2>8
<1> HIDE DEF ts
<1>8. p \in Mem /\ Veiled(p)  BY <1>4 DEF Silent
<1>9. /\ u \in Mem /\ u.wire = p.wire /\ u.held = p.held /\ u.gated = p.gated /\ u.tools = ts
  BY <1>6, <1>7, <1>8 DEF Mem
<1>10. Veiled(u) /\ Written(u) = Written(p)  BY <1>8, <1>9 DEF Veiled, Written
<1>11. Keyed(p, called, args, shut)  BY <1>1, <1>4, KeyedSilent
<1>12. Tallied(Written(u), called, args)  BY <1>10, <1>11 DEF Keyed
<1>13. \A j \in DOMAIN u.tools :
          /\ u.tools[j].key \in called
          /\ u.tools[j].at \in CallsAt(Written(u), u.tools[j].key)
          /\ u.tools[j].sent = args[u.tools[j].key]
          /\ u.tools[j].open \/ u.tools[j].key \in shut \union {m.tools[i].key}
  BY <1>4, <1>7, <1>9, <1>10, <1>11 DEF Keyed
<1>14. \A x, y \in DOMAIN u.tools : u.tools[x].key = u.tools[y].key => x = y
  BY <1>1, <1>7, <1>9 DEF Keyed
<1>15. \A d \in called : HasTool(u, d)
  <2>1. \A d \in called : \E j \in DOMAIN m.tools : m.tools[j].key = d  BY <1>1 DEF Keyed, HasTool, ToolOf
  <2> QED  BY <1>7, <1>9, <2>1 DEF HasTool, ToolOf
<1>16. Keyed(u, called, args, shut \union {m.tools[i].key})  BY <1>12, <1>13, <1>14, <1>15 DEF Keyed
<1> QED  BY <1>1, <1>9, <1>10, <1>16 DEF InStep, u

-----------------------------------------------------------------------------
\* Every converter's steps keep it in step.  Claude first.

\* To Claude: a call opens, grows, and is shut.
LEMMA StepStartsTool ==
    ASSUME NEW m, NEW chat, Claude(m, chat), m.begun, NEW called, NEW args, NEW shut,
           InStep(m, called, args, shut), NEW c \in Call, c \notin shut, c \notin called => args[c] = 0
    PROVE  InStep(StartTool(m, c), called \union {c}, args, shut)
<1>1. /\ c \in called <=> HasTool(m, c)
      /\ c \in called => /\ ToolAt(m, c) \in DOMAIN m.tools /\ m.tools[ToolAt(m, c)].key = c
                         /\ m.tools[ToolAt(m, c)].open
  BY KeyedFinds DEF InStep
<1>2. CASE c \in called
  <2>1. \E i \in ToolOf(m, c) : m.tools[i].open  BY <1>1, <1>2 DEF ToolOf
  <2>2. StartTool(m, c) = m  BY <2>1 DEF StartTool
  <2>3. called \union {c} = called  BY <1>2
  <2> QED  BY <2>2, <2>3
<1>3. CASE c \notin called
  <2> DEFINE v == CloseBoth(m)
  <2>1. ToolOf(m, c) = {}  BY <1>1, <1>3 DEF HasTool
  <2>2. StartTool(m, c) = CallOpened(v, c)  BY <2>1 DEF StartTool, CallOpened
  <2>3. Claude(v, chat) /\ v.open = {}  BY ClaudeClosesBoth
  <2>4. Silent(m, v)  BY SilentClosesBoth DEF InStep
  <2> HIDE DEF v
  <2>5. InStep(v, called, args, shut)  BY <2>4, KeptSilent
  <2>6. Sane(v, TRUE) /\ ~Cur(v)  BY <2>3 DEF Claude, Cur
  <2>7. OpenedAs(CallOpened(v, c), called, args, shut, c)  BY <1>3, <2>5, <2>6, KeyedOpens
  <2> QED  BY <2>2, <2>7 DEF OpenedAs
<1> QED  BY <1>2, <1>3

\* To Claude, it grows.
LEMMA StepToolArgs ==
    ASSUME NEW m, NEW called, NEW args, NEW shut, InStep(m, called, args, shut),
           NEW c \in called, c \notin shut, NEW n \in Int, NEW more, Grown(args, more, c, n)
    PROVE  InStep(ToolArgs(m, c, n), called, more, shut)
<1> DEFINE i == ToolAt(m, c)
<1>1. HasTool(m, c) /\ i \in DOMAIN m.tools /\ m.tools[i].key = c /\ m.tools[i].open
  BY KeyedFinds DEF InStep
<1>2. CASE n = 0
  <2>1. ToolArgs(m, c, n) = m  BY <1>2 DEF ToolArgs
  <2>2. c \in Call  BY DEF InStep
  <2> QED  BY <1>2, <2>1, <2>2, KeptAlike
<1>3. CASE n # 0
  <2>1. ToolArgs(m, c, n) = CallArgs(m, i, n)  BY <1>1, <1>3 DEF ToolArgs, CallArgs
  <2> HIDE DEF i
  <2>2. Grown(args, more, m.tools[i].key, n)  BY <1>1
  <2> QED  BY <1>1, <2>1, <2>2, KeyedArgs
<1> QED  BY <1>2, <1>3

\* The arguments said again: n pieces were left out.
LEMMA StepSaid ==
    ASSUME NEW m, NEW called, NEW args, NEW shut, InStep(m, called, args, shut),
           NEW c \in called, c \notin shut, NEW all \in Nat, NEW more, Grown(args, more, c, all - args[c])
    PROVE  InStep(ResponsesToClaudeSaid(m, c, all), called, more, shut)
<1>1. HasTool(m, c) /\ m.tools[ToolAt(m, c)].sent = args[c]  BY KeyedFinds DEF InStep
<1>2. ResponsesToClaudeSaid(m, c, all) = ToolArgs(m, c, all - args[c])
  BY <1>1 DEF ResponsesToClaudeSaid
<1>3. all - args[c] \in Int
  <2>1. args[c] \in Nat  BY DEF InStep
  <2> QED  BY <2>1
<1> QED  BY <1>2, <1>3, StepToolArgs

\* item.done passes what the deltas left out and shuts the call.
LEMMA StepDone ==
    ASSUME NEW m, NEW called, NEW args, NEW shut, InStep(m, called, args, shut),
           NEW c \in called, c \notin shut, NEW all \in Nat, NEW more, Grown(args, more, c, all - args[c])
    PROVE  InStep(ResponsesToClaudeDone(m, c, all), called, more, shut \union {c})
<1> DEFINE u == ResponsesToClaudeSaid(m, c, all)  i == ToolAt(u, c)
<1>1. InStep(u, called, more, shut)  BY StepSaid
<1>2. ResponsesToClaudeDone(m, c, all) = IF HasTool(u, c) /\ u.tools[i].open THEN ShutTool(u, i) ELSE u
  BY DEF ResponsesToClaudeDone
<1> HIDE DEF u
<1>3. HasTool(u, c) /\ i \in DOMAIN u.tools /\ u.tools[i].key = c /\ u.tools[i].open
  BY <1>1, KeyedFinds DEF InStep
<1> HIDE DEF i
<1>4. InStep(ShutTool(u, i), called, more, shut \union {c})  BY <1>1, <1>3, KeptShuts
<1> QED  BY <1>2, <1>3, <1>4

\* One chunk from Chat to Claude.
LEMMA StepChatToClaude ==
    ASSUME NEW m, Claude(m, TRUE), NEW chunk \in Chunks, NEW called, NEW args, InStep(m, called, args, {})
    PROVE  LET u == ChatToClaude(m, chunk) IN
           /\ chunk.call = 0 => InStep(u, called, args, {})
           /\ \A more : /\ chunk.call \in Call /\ Grown(args, more, chunk.call, chunk.args)
                        /\ chunk.call # 0 /\ (chunk.call \notin called => args[chunk.call] = 0)
                        => InStep(u, called \union {chunk.call}, more, {})
<1> DEFINE s == Started(m)
           v == IF chunk.think /\ ~s.texted THEN SayBlock(s, "think") ELSE s
           w == StartTool(v, chunk.call)
           x == ToolArgs(w, chunk.call, chunk.args)
           y == SayBlock(v, "text")
<1>0. chunk.args \in Int  BY DEF Chunks
<1>1. Claude(s, TRUE) /\ s.begun  BY ClaudeStarts
<1>2. ChatToClaude(m, chunk) = IF chunk.call # 0 THEN x ELSE IF chunk.text THEN y ELSE v
  BY DEF ChatToClaude
<1>3. InStep(s, called, args, {})
  <2>1. Silent(m, s)  BY SilentStarted DEF InStep
  <2> QED  BY <2>1, KeptSilent
<1> HIDE DEF s
<1>4. Claude(v, TRUE) /\ v.begun /\ InStep(v, called, args, {})
  <2>1. CASE chunk.think /\ ~s.texted
    <3> DEFINE z == SayBlock(s, "think")
    <3>1. Claude(z, TRUE) /\ z.begun  BY <1>1, <2>1, ClaudeSays
    <3>2. Silent(s, z)  BY <1>3, SilentSays DEF InStep
    <3> HIDE DEF z
    <3>3. InStep(z, called, args, {})  BY <1>3, <3>2, KeptSilent
    <3> QED  BY <2>1, <3>1, <3>3 DEF z
  <2>2. CASE ~(chunk.think /\ ~s.texted)  BY <1>1, <1>3, <2>2
  <2> QED  BY <2>1, <2>2
<1> HIDE DEF v
<1>5. InStep(y, called, args, {})
  <2>1. Silent(v, y)  BY <1>4, SilentSays DEF InStep
  <2> HIDE DEF y
  <2> QED  BY <1>4, <2>1, KeptSilent
<1> HIDE DEF y
<1>6. ASSUME NEW more, chunk.call \in Call, Grown(args, more, chunk.call, chunk.args),
             chunk.call \notin called => args[chunk.call] = 0
      PROVE  InStep(x, called \union {chunk.call}, more, {})
  <2> DEFINE k == chunk.call  n == chunk.args
  <2>0. k \in Call /\ n \in Int /\ Grown(args, more, k, n) /\ (k \notin called => args[k] = 0)
    BY <1>0, <1>6
  <2> HIDE DEF k, n
  <2>1. InStep(StartTool(v, k), called \union {k}, args, {})
    BY <1>4, <2>0, StepStartsTool
  <2> DEFINE z == StartTool(v, k)  d == called \union {k}
  <2>2. k \in d  OBVIOUS
  <2> HIDE DEF z, d
  <2>3. InStep(ToolArgs(z, k, n), d, more, {})  BY <2>0, <2>1, <2>2, StepToolArgs DEF z, d
  <2> QED  BY <2>3 DEF z, d, k, n
<1> HIDE DEF x
<1> QED  BY <1>2, <1>4, <1>5, <1>6

\* To Chat: a call opens and grows, and the arguments repeated at the end are passed only
\* if none were.
LEMMA StepStartsCall ==
    ASSUME NEW m, Chat(m), NEW called, NEW args, NEW shut, InStep(m, called, args, shut),
           NEW c \in Call \ called, args[c] = 0
    PROVE  OpenedAs(StartCall(m, c), called, args, shut, c)
<1> DEFINE s == Started(m)
<1>1. StartCall(m, c) = CallOpened(s, c)  BY DEF StartCall, CallOpened
<1>2. Sane(s, TRUE) /\ Same(m, s)  BY SaneStarted DEF Chat
<1>3. Silent(m, s)  BY SilentStarted DEF InStep
<1> HIDE DEF s
<1>4. ~Cur(s)  BY <1>2 DEF Chat, Cur, Same
<1>5. InStep(s, called, args, shut)  BY <1>3, KeptSilent
<1> DEFINE u == StartCall(m, c)
<1> HIDE DEF u
<1>6. u = CallOpened(s, c)  BY <1>1 DEF u
<1>7. OpenedAs(u, called, args, shut, c)  BY <1>2, <1>4, <1>5, <1>6, KeyedOpens
<1> QED  BY <1>7 DEF u

\* The arguments repeated at the end, passed unless some were.
LEMMA StepChatDone ==
    ASSUME NEW m, NEW called, NEW args, NEW shut, InStep(m, called, args, shut),
           NEW c \in called, NEW all \in Nat, all = args[c] \/ args[c] = 0,
           NEW more, Grown(args, more, c, all - args[c])
    PROVE  /\ InStep(ResponsesToChatDone(m, c, all), called, more, shut)
           /\ all = args[c] => ResponsesToChatDone(m, c, all) = m
<1> DEFINE i == ToolAt(m, c)
<1>1. HasTool(m, c) /\ i \in DOMAIN m.tools /\ m.tools[i].key = c /\ m.tools[i].sent = args[c]
  BY KeyedFinds DEF InStep
<1>2. args[c] \in Nat /\ c \in Call  BY DEF InStep
<1>3. ResponsesToChatCall(m, c) = m  BY <1>1 DEF ResponsesToChatCall
<1>4. ResponsesToChatDone(m, c, all)
        = IF all = 0 \/ m.tools[i].sent > 0 THEN m ELSE CallArgs(m, i, all)
  BY <1>3 DEF ResponsesToChatDone
<1> HIDE DEF i
<1>5. CASE all = args[c]
  <2>1. all = 0 \/ m.tools[i].sent > 0  BY <1>1, <1>2, <1>5
  <2>2. all - args[c] = 0  BY <1>2, <1>5
  <2>3. InStep(m, called, more, shut)  BY <1>2, <2>2, KeptAlike
  <2> QED  BY <1>4, <2>1, <2>3
<1>6. CASE all # args[c]
  <2>1. args[c] = 0 /\ all # 0 /\ ~(m.tools[i].sent > 0) /\ all - args[c] = all /\ all \in Int
    BY <1>1, <1>2, <1>6
  <2>2. Grown(args, more, m.tools[i].key, all)  BY <1>1, <2>1
  <2>3. InStep(CallArgs(m, i, all), called, more, shut)  BY <1>1, <2>1, <2>2, KeyedArgs
  <2> QED  BY <1>4, <1>6, <2>1, <2>3
<1> QED  BY <1>5, <1>6

\* Text or reasoning of a Responses answer.
LEMMA SilentDelta ==
    ASSUME NEW m \in Mem, Veiled(m), NEW kind \in {"text", "think"}
    PROVE  Silent(m, ResponsesToChatDelta(m, kind)) /\ Silent(m, [Say(m, kind) EXCEPT !.texted = TRUE])
<1> DEFINE p == Say(m, kind)  x == p.texted \/ kind = "text"
<1>1. Silent(m, p)  BY SilentLoose
<1>2. ResponsesToChatDelta(m, kind) = [p EXCEPT !.texted = x]  BY DEF ResponsesToChatDelta
<1> HIDE DEF p
<1>3. p.texted \in BOOLEAN /\ {} \in SUBSET Kinds /\ 0 \in Nat /\ TRUE \in BOOLEAN
  BY <1>1, MemFacts DEF Silent
<1>4. x \in BOOLEAN  BY <1>3
<1> HIDE DEF x
<1>5. Silent(m, [p EXCEPT !.texted = x]) /\ Silent(m, [p EXCEPT !.texted = TRUE])
  BY <1>1, <1>3, <1>4, SilentMarked
<1> QED  BY <1>2, <1>5 DEF p

-----------------------------------------------------------------------------
\* Chat from Claude, and Responses from Chat.

\* A block of Claude starts.
LEMMA StepChatStart ==
    ASSUME NEW m, Chat(m), NEW called, NEW args, NEW shut, InStep(m, called, args, shut),
           NEW c \in Call \ called, args[c] = 0
    PROVE  LET u == ClaudeToChatStart(m, "tool", c) IN
           InStep(u, called \union {c}, args, shut) /\ Current(u, c)
<1> DEFINE p == StartCall(m, c)  u == ClaudeToChatStart(m, "tool", c)
<1>1. InStep(p, called \union {c}, args, shut) /\ p.tools # <<>> /\ p.tools[Len(p.tools)].key = c
  <2>1. OpenedAs(p, called, args, shut, c)  BY StepStartsCall
  <2> QED  BY <2>1 DEF OpenedAs
<1>2. u = [p EXCEPT !.open = {"tool"}, !.texted = TRUE]  BY DEF ClaudeToChatStart
<1> HIDE DEF p, u
<1>3. p \in Mem /\ Veiled(p)  BY <1>1 DEF InStep
<1>4. {"tool"} \in SUBSET Kinds /\ TRUE \in BOOLEAN /\ 0 \in Nat  BY DEF Kinds
<1>5. Silent(p, u)
  <2>1. Silent(p, p)  BY <1>3, SilentAgain
  <2> QED  BY <1>2, <1>4, <2>1, SilentMarked
<1>6. InStep(u, called \union {c}, args, shut)  BY <1>1, <1>5, KeptSilent
<1>7. u.tools = p.tools /\ u.open = {"tool"}  BY <1>2, <1>3 DEF Mem
<1> QED  BY <1>1, <1>6, <1>7 DEF Current, u

\* It carries arguments.
LEMMA StepChatArgs ==
    ASSUME NEW m, NEW called, NEW args, NEW shut, InStep(m, called, args, shut),
           NEW c, Current(m, c), NEW more, Grown(args, more, c, 1)
    PROVE  LET u == ClaudeToChatDelta(m, "tool") IN
           InStep(u, called, more, shut) /\ Current(u, c)
<1> DEFINE i == Len(m.tools)  u == ClaudeToChatDelta(m, "tool")
<1>1. m \in Mem /\ m.tools \in Seq(Tool)  BY MemFacts DEF InStep
<1>2. i \in DOMAIN m.tools /\ m.tools[i].key = c /\ m.open # {}  BY <1>1 DEF Current
<1>3. u = CallArgs(m, i, 1)  BY <1>2 DEF ClaudeToChatDelta
<1> HIDE DEF i, u
<1>4. /\ InStep(u, called, more, shut) /\ u.open = m.open /\ Len(u.tools) = Len(m.tools)
      /\ \A j \in DOMAIN m.tools : u.tools[j].key = m.tools[j].key
  BY <1>2, <1>3, KeyedArgs
<1>5. u.tools # <<>>
  <2>1. Len(u.tools) # 0  BY <1>1, <1>2, <1>4 DEF i
  <2> QED  BY <2>1
<1>6. u.tools[Len(u.tools)].key = c  BY <1>2, <1>4 DEF i
<1>7. Current(u, c)  BY <1>2, <1>4, <1>5, <1>6 DEF Current
<1> QED  BY <1>4, <1>7 DEF u

\* Text and thinking are of no call.
LEMMA SilentChatDelta ==
    ASSUME NEW m \in Mem, Veiled(m), NEW kind \in Kinds \ {"tool"}
    PROVE  Silent(m, ClaudeToChatDelta(m, kind))
<1>1. CASE kind = "text"
  <2>1. ClaudeToChatDelta(m, kind) = [Say(m, "text") EXCEPT !.texted = TRUE]
    BY <1>1 DEF ClaudeToChatDelta
  <2> QED  BY <2>1, SilentDelta
<1>2. CASE kind # "text"
  <2>1. ClaudeToChatDelta(m, kind) = m  BY <1>2 DEF ClaudeToChatDelta
  <2> QED  BY <2>1, SilentAgain
<1> QED  BY <1>1, <1>2

\* A block that stops is of no call, since calls stay open to the end.
LEMMA SilentChatStop == ASSUME NEW m \in Mem, Veiled(m) PROVE Silent(m, ClaudeToChatStop(m))
<1>1. Silent(m, m) /\ {} \in SUBSET Kinds /\ 0 \in Nat /\ TRUE \in BOOLEAN  BY SilentAgain
<1>2. Silent(m, [m EXCEPT !.open = {}])  BY <1>1, SilentMarked
<1> QED  BY <1>2 DEF ClaudeToChatStop

\* To Responses from Chat.
LEMMA StepAppendCall ==
    ASSUME NEW m, Messages(m), NEW called, NEW args, NEW shut, InStep(m, called, args, shut),
           NEW c \in Call, c \notin called => args[c] = 0, NEW n \in Int, NEW more, Grown(args, more, c, n)
    PROVE  InStep(AppendCall(m, c, n), called \union {c}, more, shut)
<1> DEFINE s == Started(m)  v == CloseMessage(s)
           u == IF HasTool(m, c) THEN m ELSE CallOpened(v, c)
           i == ToolAt(u, c)  d == called \union {c}
<1>1. AppendCall(m, c, n) = IF n = 0 THEN u ELSE CallArgs(u, i, n)
  BY DEF AppendCall, CallArgs, CallOpened
<1>2. InStep(u, d, args, shut)
  <2>1. c \in called <=> HasTool(m, c)  BY KeyedFinds DEF InStep
  <2>2. CASE c \in called
    <3>1. u = m /\ d = called  BY <2>1, <2>2
    <3> QED  BY <3>1
  <2>3. CASE c \notin called
    <3>1. Sane(s, FALSE) /\ s.begun /\ Same(m, s)  BY SaneStarted DEF Messages
    <3>2. Silent(m, s)  BY SilentStarted DEF InStep
    <3> HIDE DEF s
    <3>3. Sane(v, FALSE) /\ v.open = {}
      <4>1. s.open \in {{}, {"text"}} /\ (s.open # {} => s.texted) /\ LiveTools(s) = DOMAIN s.tools
        BY <3>1 DEF Messages, Same, LiveTools
      <4> QED  BY <3>1, <4>1, MessageCloses
    <3>4. Silent(s, v)  BY <3>2, SilentMessage DEF Silent
    <3> HIDE DEF v
    <3>5. InStep(v, called, args, shut)  BY <3>2, <3>4, SilentAgain, KeptSilent
    <3>6. ~Cur(v)  BY <3>3 DEF Cur
    <3> DEFINE x == CallOpened(v, c)
    <3>7. x = CallOpened(v, c)  OBVIOUS
    <3> HIDE DEF x
    <3>8. InStep(x, called \union {c}, args, shut)
      <4>1. OpenedAs(x, called, args, shut, c)  BY <2>3, <3>3, <3>5, <3>6, <3>7, KeyedOpens
      <4> QED  BY <4>1 DEF OpenedAs
    <3> QED  BY <2>1, <2>3, <3>8 DEF x
  <2> QED  BY <2>2, <2>3
<1>3. c \in d  OBVIOUS
<1> HIDE DEF u, d
<1>4. CASE n = 0
  <2>1. InStep(u, d, more, shut)  BY <1>2, <1>4, KeptAlike
  <2> QED  BY <1>1, <1>4, <2>1 DEF d
<1>5. CASE n # 0
  <2>1. i \in DOMAIN u.tools /\ u.tools[i].key = c  BY <1>2, <1>3, KeyedFinds DEF InStep
  <2> HIDE DEF i
  <2>2. Grown(args, more, u.tools[i].key, n)  BY <2>1
  <2>3. InStep(CallArgs(u, i, n), d, more, shut)  BY <1>2, <2>1, <2>2, KeyedArgs
  <2> QED  BY <1>1, <1>5, <2>3 DEF d
<1> QED  BY <1>4, <1>5

\* One chunk from Chat to Responses.
LEMMA StepChatToResponses ==
    ASSUME NEW m, Messages(m), NEW chunk \in Chunks, NEW called, NEW args, NEW shut,
           InStep(m, called, args, shut)
    PROVE  LET u == ChatToResponses(m, chunk) IN
           /\ chunk.call = 0 => InStep(u, called, args, shut)
           /\ \A more : /\ chunk.call \in Call /\ Grown(args, more, chunk.call, chunk.args)
                        /\ chunk.call # 0 /\ (chunk.call \notin called => args[chunk.call] = 0)
                        => InStep(u, called \union {chunk.call}, more, shut)
<1> DEFINE k == chunk.call  n == chunk.args
<1>0. n \in Int  BY DEF Chunks
<1>1. ChatToResponses(m, chunk)
        = IF k = 0 THEN IF chunk.text THEN AppendText(m) ELSE m
          ELSE IF chunk.text THEN AppendText(AppendCall(m, k, n)) ELSE AppendCall(m, k, n)
  BY DEF ChatToResponses
<1>2. ASSUME NEW x, NEW d, NEW a, InStep(x, d, a, shut) PROVE InStep(AppendText(x), d, a, shut)
  <2>1. Silent(x, AppendText(x))  BY <1>2, SilentAppends DEF InStep
  <2> QED  BY <1>2, <2>1, KeptSilent
<1> HIDE DEF k, n
<1>3. k = 0 => InStep(ChatToResponses(m, chunk), called, args, shut)
  <2>1. InStep(AppendText(m), called, args, shut)  BY <1>2
  <2> QED  BY <1>1, <2>1
<1>4. ASSUME NEW more, k \in Call, Grown(args, more, k, n), k # 0, k \notin called => args[k] = 0
      PROVE  InStep(ChatToResponses(m, chunk), called \union {k}, more, shut)
  <2> DEFINE y == AppendCall(m, k, n)  d == called \union {k}
  <2>1. InStep(y, d, more, shut)  BY <1>0, <1>4, StepAppendCall
  <2>2. ChatToResponses(m, chunk) = IF chunk.text THEN AppendText(y) ELSE y  BY <1>1, <1>4
  <2> HIDE DEF y, d
  <2>3. InStep(AppendText(y), d, more, shut)  BY <1>2, <2>1
  <2>4. InStep(ChatToResponses(m, chunk), d, more, shut)  BY <2>1, <2>2, <2>3
  <2> QED  BY <2>4 DEF d
<1> QED  BY <1>3, <1>4 DEF k, n

-----------------------------------------------------------------------------
\* Responses from Claude: entries keyed by the blocks.

\* The gate opens: what it held is shown.
LEMMA SilentLid == ASSUME NEW m, Lidded(m) PROVE Silent(m, Unveil(m))
<1>1. m \in Mem /\ Veiled(m)  BY DEF Lidded, Sane
<1>2. CASE m.gated  BY <1>1, <1>2, SilentUnveils
<1>3. CASE ~m.gated
  <2>1. m.held = <<>> /\ m.wire \in Seq(Ev)  BY <1>1, <1>3 DEF Lidded, Mem
  <2>2. m.wire \o m.held = m.wire  BY <2>1
  <2>3. Unveil(m) = [m EXCEPT !.gated = FALSE, !.wire = m.wire, !.held = <<>>]  BY <2>2 DEF Unveil
  <2>4. Unveil(m) = m  BY <1>1, <1>3, <2>1, <2>3 DEF Mem
  <2> QED  BY <1>1, <2>4, SilentAgain
<1> QED  BY <1>2, <1>3

\* A block opens under the next number.
BlockOpened(m, e, index) ==
    [Put(m, <<e>>) EXCEPT !.next = @ + 1, !.tools = Append(@, NewTool(index, m.next))]

\* What that writes.
LEMMA BlockOpens ==
    ASSUME NEW m \in Mem, Veiled(m), NEW e \in Ev, NEW index \in Int, NEW u, u = BlockOpened(m, e, index)
    PROVE  /\ Written(u) = Append(Written(m), e) /\ Written(m) \in Seq(Ev) /\ m.next \in Int
           /\ DOMAIN m.tools = 1 .. Len(m.tools) /\ Len(m.tools) \in Nat
           /\ DOMAIN u.tools = 1 .. Len(m.tools) + 1
           /\ \A i \in 1 .. Len(m.tools) : u.tools[i] = m.tools[i] /\ m.tools[i].key \in Int
           /\ LET k == u.tools[Len(m.tools) + 1] IN k.key = index /\ k.at = m.next /\ k.open
<1> DEFINE p == Put(m, <<e>>)  k == NewTool(index, m.next)  n == p.next + 1  ts == Append(p.tools, k)
<1>1. /\ m.next \in Nat /\ m.next \in Int /\ m.tools \in Seq(Tool) /\ Written(m) \in Seq(Ev)
      /\ DOMAIN m.tools = 1 .. Len(m.tools) /\ Len(m.tools) \in Nat
      /\ \A i \in DOMAIN m.tools : m.tools[i] \in Tool
  <2>1. m.next \in Nat  BY MemFacts
  <2> QED  BY <2>1, MemFacts
<1>2. p \in Mem /\ p.tools = m.tools /\ p.next = m.next /\ Written(p) = Append(Written(m), e)
  BY PutOne DEF Same
<1>3. k \in Tool /\ k.key = index /\ k.at = m.next /\ k.open  BY <1>1 DEF NewTool, Tool
<1>4. u = [p EXCEPT !.next = n, !.tools = ts]  BY DEF BlockOpened
<1> HIDE DEF k, p
<1>5. n \in Nat /\ ts \in Seq(Tool) /\ ts = Append(m.tools, k)  BY <1>1, <1>2, <1>3
<1> HIDE DEF n, ts
<1>6. u.wire = p.wire /\ u.held = p.held /\ u.gated = p.gated /\ u.tools = ts
  BY <1>2, <1>4, <1>5 DEF Mem
<1>7. Written(u) = Append(Written(m), e)  BY <1>2, <1>6 DEF Written
<1>8. /\ DOMAIN ts = 1 .. Len(m.tools) + 1
      /\ ts[Len(m.tools) + 1] = k /\ \A i \in 1 .. Len(m.tools) : ts[i] = m.tools[i]
  BY <1>1, <1>3, <1>5
<1>9. \A i \in 1 .. Len(m.tools) : m.tools[i].key \in Int
  <2>1. \A i \in 1 .. Len(m.tools) : m.tools[i] \in Tool  BY <1>1
  <2> QED  BY <2>1 DEF Tool
<1> QED  BY <1>1, <1>3, <1>6, <1>7, <1>8, <1>9

\* content_block_start, to Responses: the item of a call is its call's.
LEMMA IndexedStarts ==
    ASSUME NEW m, Gated(m), NEW sent, Indexed(m, sent), sent.block = "none", sent.index \in Nat,
           sent.called \in SUBSET Call, NEW kind \in Kinds, NEW c,
           kind = "tool" => c \in Call \ sent.called /\ sent.args[c] = 0,
           NEW after, after.index = sent.index, after.block = kind, after.args = sent.args,
           kind = "tool" => after.called = sent.called \union {c} /\ after.call = c,
           kind # "tool" => after.called = sent.called
    PROVE  Indexed(ClaudeToResponsesStart(m, sent.index, kind, c), after)
<1> DEFINE s == Started(m)  v == IF kind = "think" THEN s ELSE Unveil(s)
           e == IF kind = "tool" THEN OpenTool(v.next, c) ELSE Open(v.next, kind)
           u == ClaudeToResponsesStart(m, sent.index, kind, c)  l == Len(v.tools)
<1>1. m \in Mem /\ Veiled(m) /\ sent.index \in Int  BY DEF Gated, Lidded, Sane
<1>2. Silent(m, s) /\ Lidded(s)  BY <1>1, SilentStarted, GatedStarts DEF Gated
<1>3. u = BlockOpened(v, e, sent.index)  BY DEF ClaudeToResponsesStart, BlockOpened
<1> HIDE DEF u
<1>4. Silent(m, v) /\ Lidded(v)
  <2> HIDE DEF s
  <2>1. CASE kind = "think"  BY <1>2, <2>1
  <2>2. CASE kind # "think"  BY <1>2, <2>2, SilentLid, LiddedOpens, SilentAgain
  <2> QED  BY <2>1, <2>2
<1> HIDE DEF v
<1>5. v \in Mem /\ Veiled(v) /\ v.tools = m.tools /\ SameCalls(Written(m), Written(v))
  BY <1>4 DEF Silent
<1>6. v.next \in Int /\ v.next \notin Names(Written(v), "open")
  <2>1. v.next \in Nat  BY <1>5, MemFacts
  <2> QED  BY <1>4, <2>1 DEF Lidded, Sane, Numbered, Cur
<1>7. kind = "tool" => c \in Int
  <2>1. Call \subseteq Nat \ {0}  BY CallNumbers
  <2>2. kind = "tool" => c \in Nat \ {0}  BY <2>1
  <2> QED  BY <2>2
<1>8. e \in Ev /\ (kind # "tool" => e.kind # "tool") /\ (kind = "tool" => e = OpenTool(v.next, c) /\ e.at = v.next)
  BY <1>6, <1>7, EventFacts, QuietKinds
<1> HIDE DEF e
<1>9. /\ Written(u) = Append(Written(v), e) /\ Written(v) \in Seq(Ev)
      /\ DOMAIN v.tools = 1 .. l /\ l \in Nat /\ DOMAIN u.tools = 1 .. l + 1
      /\ \A i \in 1 .. l : u.tools[i] = v.tools[i] /\ v.tools[i].key \in Int
      /\ u.tools[l + 1].key = sent.index /\ u.tools[l + 1].at = v.next /\ u.tools[l + 1].open
  <2> DEFINE x == sent.index
  <2>1. v \in Mem /\ Veiled(v) /\ e \in Ev /\ x \in Int /\ u = BlockOpened(v, e, x)
    BY <1>1, <1>3, <1>5, <1>8
  <2> HIDE DEF x
  <2>2. /\ Written(u) = Append(Written(v), e) /\ Written(v) \in Seq(Ev)
        /\ DOMAIN v.tools = 1 .. Len(v.tools) /\ Len(v.tools) \in Nat
        /\ DOMAIN u.tools = 1 .. Len(v.tools) + 1
        /\ \A i \in 1 .. Len(v.tools) : u.tools[i] = v.tools[i] /\ v.tools[i].key \in Int
        /\ LET k == u.tools[Len(v.tools) + 1] IN k.key = x /\ k.at = v.next /\ k.open
    BY <2>1, BlockOpens
  <2> QED  BY <2>2 DEF x
<1> HIDE DEF l
<1> DEFINE w == Written(v)
<1>10. Tallied(w, sent.called, sent.args)  BY <1>5, TalliedSame DEF Indexed
<1>11. w \in Seq(Ev) /\ v.next \notin Names(w, "open") /\ Written(u) = Append(w, e)  BY <1>6, <1>9
<1> HIDE DEF w
<1>12. Tallied(Written(u), after.called, after.args)
  <2>1. CASE kind # "tool"
    <3>1. SameCalls(w, Append(w, e))  BY <1>8, <1>11, <2>1, QuietOne
    <3>2. Tallied(Append(w, e), sent.called, sent.args)  BY <1>10, <3>1, TalliedSame
    <3> QED  BY <1>11, <2>1, <3>2
  <2>2. CASE kind = "tool"
    <3> DEFINE d == sent.called  a == sent.args  at == v.next
    <3>1. /\ c \in Call \ d /\ a[c] = 0 /\ d \in SUBSET Call /\ Tallied(w, d, a) /\ at \in Int
          /\ at \notin Names(w, "open")
      BY <1>6, <1>10, <1>11, <2>2
    <3> HIDE DEF d, a, at
    <3>2. Tallied(Append(w, OpenTool(at, c)), d \union {c}, a)  BY <1>11, <3>1, TalliedOpens
    <3> QED  BY <1>8, <1>11, <2>2, <3>2 DEF d, a, at
  <2> QED  BY <2>1, <2>2
<1>13. \A i \in DOMAIN v.tools : v.tools[i].key < sent.index  BY <1>5 DEF Indexed
<1>14. \A i \in DOMAIN u.tools :
          u.tools[i].key < after.index \/ (u.tools[i].key = after.index /\ after.block # "none")
  <2>1. kind # "none"  BY DEF Kinds
  <2>2. \A i \in DOMAIN u.tools : i \in 1 .. l \/ i = l + 1  BY <1>9
  <2> QED  BY <1>9, <1>13, <2>1, <2>2
<1>15. ASSUME kind = "tool"
       PROVE  /\ c \in after.called /\ HasTool(u, sent.index)
              /\ \A i \in ToolOf(u, sent.index) :
                    u.tools[i].open /\ u.tools[i].at \in CallsAt(Written(u), c)
  <2>1. l + 1 \in DOMAIN u.tools  BY <1>9
  <2>2. HasTool(u, sent.index)  BY <1>9, <2>1 DEF HasTool, ToolOf
  <2>3. \A i \in ToolOf(u, sent.index) : i = l + 1
    <3>1. \A i \in DOMAIN u.tools : i \in 1 .. l \/ i = l + 1  BY <1>9
    <3>2. \A i \in 1 .. l : v.tools[i].key < sent.index  BY <1>9, <1>13
    <3>3. \A i \in 1 .. l : v.tools[i].key # sent.index  BY <1>1, <1>9, <3>2
    <3>4. \A i \in 1 .. l : u.tools[i].key # sent.index  BY <1>9, <3>3
    <3> QED  BY <3>1, <3>4 DEF ToolOf
  <2>4. v.next \in CallsAt(Written(u), c)
    <3>1. CallsAt(Append(w, e), c)
            = CallsAt(w, c) \union (IF e = OpenTool(e.at, c) THEN {e.at} ELSE {})
      BY <1>8, <1>11, CallsFacts
    <3> QED  BY <1>8, <1>11, <1>15, <3>1
  <2> QED  BY <1>9, <1>15, <2>2, <2>3, <2>4
<1>16. Indexed(u, after)  BY <1>12, <1>14, <1>15 DEF Indexed
<1> QED  BY <1>16 DEF u

\* The block grows: a piece of arguments is one of its call.
LEMMA IndexedDeltas ==
    ASSUME NEW m, Gated(m), NEW sent, Indexed(m, sent), sent.block \in Kinds,
           sent.called \in SUBSET Call,
           NEW after, after.index = sent.index, after.block = sent.block, after.call = sent.call,
           after.called = sent.called,
           sent.block = "tool" => Grown(sent.args, after.args, sent.call, 1),
           sent.block # "tool" => after.args = sent.args
    PROVE  Indexed(ClaudeToResponsesDelta(m, sent.index, sent.block), after)
<1> DEFINE i == ToolAt(m, sent.index)  at == m.tools[i].at  e == Piece(at, sent.block, 1)
           u == ClaudeToResponsesDelta(m, sent.index, sent.block)  w == Written(m)
<1>1. m \in Mem /\ Veiled(m) /\ w \in Seq(Ev)
  <2>1. m \in Mem /\ Veiled(m)  BY DEF Gated, Lidded, Sane
  <2> QED  BY <2>1, MemFacts
<1>2. HasTool(m, sent.index) => i \in DOMAIN m.tools /\ m.tools[i].key = sent.index /\ i \in ToolOf(m, sent.index)
  BY ToolAtFacts DEF ToolOf
<1>3. u = IF HasTool(m, sent.index) /\ m.tools[i].open THEN Put(m, <<e>>) ELSE m
  BY DEF ClaudeToResponsesDelta
<1> HIDE DEF i, u
<1>4. sent.block = "tool" =>
         /\ HasTool(m, sent.index) /\ m.tools[i].open /\ at \in CallsAt(w, sent.call)
         /\ sent.call \in sent.called
  BY <1>2 DEF Indexed
<1>5. CASE ~(HasTool(m, sent.index) /\ m.tools[i].open)
  <2>1. sent.block # "tool" /\ u = m  BY <1>3, <1>4, <1>5
  <2> QED  BY <2>1 DEF Indexed, u
<1>6. CASE HasTool(m, sent.index) /\ m.tools[i].open
  <2>1. at \in Int
    <3>1. m.tools[i] \in Tool  BY <1>1, <1>2, <1>6, MemFacts
    <3> QED  BY <3>1 DEF Tool
  <2> HIDE DEF at
  <2>2. e \in Ev /\ (sent.block # "tool" => e.kind # "tool")  BY <2>1, EventFacts, QuietKinds
  <2>3. \A x, c : e # OpenTool(x, c)  BY DEF Piece, OpenTool, Event
  <2>4. sent.block = "tool" => e = Piece(at, "tool", 1)  OBVIOUS
  <2> HIDE DEF e
  <2>5. Written(u) = Append(w, e) /\ u.tools = m.tools  BY <1>1, <1>3, <1>6, <2>2, PutOne DEF Same
  <2> HIDE DEF w
  <2>6. \A c : CallsAt(Append(w, e), c) = CallsAt(w, c)
    <3>1. \A c : CallsAt(Append(w, e), c) = CallsAt(w, c) \union (IF e = OpenTool(e.at, c) THEN {e.at} ELSE {})
      BY <1>1, <2>2, CallsFacts
    <3> QED  BY <2>3, <3>1
  <2>7. Tallied(w, sent.called, sent.args)  BY DEF Indexed, w
  <2>8. Tallied(Written(u), after.called, after.args)
    <3>1. CASE sent.block # "tool"
      <4>1. SameCalls(w, Append(w, e))  BY <1>1, <2>2, <3>1, QuietOne
      <4>2. Tallied(Append(w, e), sent.called, sent.args)  BY <2>7, <4>1, TalliedSame
      <4> QED  BY <2>5, <3>1, <4>2
    <3>2. CASE sent.block = "tool"
      <4> DEFINE d == sent.called  a == sent.args  b == after.args  c == sent.call
      <4>1. /\ d \in SUBSET Call /\ Tallied(w, d, a) /\ c \in d /\ at \in CallsAt(w, c)
            /\ b[c] = a[c] + 1 /\ \A x \in d : x # c => b[x] = a[x]
        BY <1>4, <2>7, <3>2 DEF Grown
      <4> HIDE DEF d, a, b, c
      <4>2. Tallied(Append(w, Piece(at, "tool", 1)), d, b)  BY <1>1, <4>1, TalliedGrows
      <4> QED  BY <2>4, <2>5, <3>2, <4>2 DEF d, b
    <3> QED  BY <3>1, <3>2
  <2>9. HasTool(u, sent.index) <=> HasTool(m, sent.index)  BY <2>5 DEF HasTool, ToolOf
  <2>10. ToolOf(u, sent.index) = ToolOf(m, sent.index)  BY <2>5 DEF ToolOf
  <2>11. \A c : CallsAt(Written(u), c) = CallsAt(Written(m), c)  BY <2>5, <2>6 DEF w
  <2>12. Indexed(u, after)  BY <2>5, <2>8, <2>9, <2>10, <2>11 DEF Indexed
  <2> QED  BY <2>12 DEF u
<1> QED  BY <1>5, <1>6

\* It is shut.
LEMMA IndexedStops ==
    ASSUME NEW m, Gated(m), NEW sent, Indexed(m, sent), sent.index \in Nat,
           NEW after, after.index = sent.index + 1, after.block = "none",
           after.called = sent.called, after.args = sent.args
    PROVE  Indexed(ClaudeToResponsesStop(m, sent.index), after)
<1> DEFINE i == ToolAt(m, sent.index)  e == Shut(m.tools[i].at)
           u == ClaudeToResponsesStop(m, sent.index)  w == Written(m)  x == ShutTool(m, i)
<1>1. m \in Mem /\ Veiled(m) /\ w \in Seq(Ev) /\ Sane(m, TRUE)
  <2>1. m \in Mem /\ Veiled(m) /\ Sane(m, TRUE)  BY DEF Gated, Lidded, Sane
  <2> QED  BY <2>1, MemFacts
<1>2. HasTool(m, sent.index) => i \in DOMAIN m.tools  BY ToolAtFacts
<1>3. u = IF HasTool(m, sent.index) /\ m.tools[i].open THEN x ELSE m
  BY DEF ClaudeToResponsesStop
<1> HIDE DEF i, u
<1>4. /\ SameCalls(Written(m), Written(u)) /\ DOMAIN u.tools = DOMAIN m.tools
      /\ \A j \in DOMAIN m.tools : u.tools[j].key = m.tools[j].key
  <2>1. CASE ~(HasTool(m, sent.index) /\ m.tools[i].open)  BY <1>3, <2>1, SameCallsAgain
  <2>2. CASE HasTool(m, sent.index) /\ m.tools[i].open
    <3> DEFINE p == Put(m, <<e>>)  ts == [m.tools EXCEPT ![i].open = FALSE]
    <3>1. e \in Ev /\ e.kind # "tool"
      <4>1. m.tools[i] \in Tool  BY <1>1, <1>2, <2>2, MemFacts
      <4>2. m.tools[i].at \in Int  BY <4>1 DEF Tool
      <4> QED  BY <4>2, EventFacts, QuietKinds
    <3> HIDE DEF e
    <3>2. Silent(m, p) /\ p.tools = m.tools  BY <1>1, <3>1, SilentOne DEF Same
    <3>3. x = [p EXCEPT !.tools[i].open = FALSE]  BY DEF ShutTool, e
    <3> HIDE DEF p, x
    <3>4. x = [p EXCEPT !.tools = ts]  BY <3>2, <3>3
    <3>5. DOMAIN ts = DOMAIN m.tools /\ \A j \in DOMAIN m.tools : ts[j].key = m.tools[j].key
      <4>1. \A j \in DOMAIN m.tools : ts[j] = IF j = i THEN [m.tools[i] EXCEPT !.open = FALSE] ELSE m.tools[j]
        OBVIOUS
      <4>2. m.tools[i] \in Tool  BY <1>1, <1>2, <2>2, MemFacts
      <4>3. [m.tools[i] EXCEPT !.open = FALSE].key = m.tools[i].key  BY <4>2 DEF Tool
      <4> QED  BY <4>1, <4>3
    <3> HIDE DEF ts
    <3>6. x.wire = p.wire /\ x.held = p.held /\ x.gated = p.gated /\ x.tools = ts
      <4>1. p \in Mem  BY <3>2 DEF Silent
      <4> QED  BY <3>4, <4>1 DEF Mem
    <3>7. Written(x) = Written(p)  BY <3>6 DEF Written
    <3> QED  BY <1>3, <2>2, <3>2, <3>5, <3>6, <3>7 DEF Silent
  <2> QED  BY <2>1, <2>2
<1>5. Tallied(Written(u), after.called, after.args)  BY <1>4, TalliedSame DEF Indexed
<1>6. \A j \in DOMAIN m.tools : m.tools[j].key \in Int
  <2>1. \A j \in DOMAIN m.tools : m.tools[j] \in Tool  BY <1>1, MemFacts
  <2> QED  BY <2>1 DEF Tool
<1>7. \A j \in DOMAIN m.tools : m.tools[j].key < sent.index \/ m.tools[j].key = sent.index
  BY DEF Indexed
<1>8. \A j \in DOMAIN u.tools : u.tools[j].key < after.index  BY <1>4, <1>6, <1>7
<1>9. Indexed(u, after)  BY <1>5, <1>8 DEF Indexed
<1> QED  BY <1>9 DEF u

\* What is of no call disturbs nothing.
LEMMA IndexedSilent ==
    ASSUME NEW m, NEW sent, Indexed(m, sent), NEW u, Silent(m, u), sent.block = "none",
           NEW after, after.block = "none", after.called = sent.called, after.args = sent.args,
           after.index = sent.index \/ u.tools = <<>>
    PROVE  Indexed(u, after)
<1>1. u.tools = m.tools /\ SameCalls(Written(m), Written(u))  BY DEF Silent
<1>2. Tallied(Written(u), after.called, after.args)  BY <1>1, TalliedSame DEF Indexed
<1>3. DOMAIN <<>> = {}  OBVIOUS
<1>4. \A i \in DOMAIN u.tools : u.tools[i].key < after.index  BY <1>1, <1>3 DEF Indexed
<1> QED  BY <1>2, <1>4 DEF Indexed

-----------------------------------------------------------------------------
\* Forwarded streams and the tally.

\* The marks of what was forwarded change no event.
LEMMA ForwardsMarks ==
    ASSUME NEW w \in Seq(Ev), NEW sent, Forwards(w, sent), sent.block = "none", sent.index \in Int,
           NEW e \in Ev, e.ev \notin {"open", "shut"}, e.kind # "tool",
           NEW after, after.index \in Int, after.index >= sent.index, after.block = "none",
           after.called = sent.called, after.args = sent.args
    PROVE  Forwards(Append(w, e), after)
<1> DEFINE v == Append(w, e)
<1>1. SameCalls(w, v)  BY QuietOne
<1>2. /\ Names(v, "open") = Names(w, "open") \union (IF e.ev = "open" THEN {e.at} ELSE {})
      /\ Names(v, "shut") = Names(w, "shut") \union (IF e.ev = "shut" THEN {e.at} ELSE {})
      /\ Names(w, "shut") \subseteq Int
  BY NamesFacts, NamesNumbers
<1> HIDE DEF v
<1>3. Names(v, "open") = Names(w, "open") /\ Names(v, "shut") = Names(w, "shut")  BY <1>2
<1>4. Tallied(v, after.called, after.args)  BY <1>1, TalliedSame DEF Forwards
<1>5. OpenBlocks(v) = {}  BY <1>3 DEF OpenBlocks, Forwards
<1>6. \A at \in Names(v, "shut") : at < after.index  BY <1>2, <1>3 DEF Forwards
<1> QED  BY <1>4, <1>5, <1>6 DEF Forwards, v

\* A block forwarded as it opens.
LEMMA ForwardsOpens ==
    ASSUME NEW w \in Seq(Ev), NEW sent, Forwards(w, sent), sent.block = "none", sent.index \in Int,
           sent.called \in SUBSET Call, NEW kind \in Kinds, NEW c,
           kind = "tool" => c \in Call \ sent.called /\ sent.args[c] = 0,
           NEW e, e = IF kind = "tool" THEN OpenTool(sent.index, c) ELSE Open(sent.index, kind),
           NEW after, after.index = sent.index, after.block = kind, after.args = sent.args,
           kind = "tool" => after.called = sent.called \union {c} /\ after.call = c,
           kind # "tool" => after.called = sent.called
    PROVE  Forwards(Append(w, e), after)
<1> DEFINE v == Append(w, e)  x == sent.index
<1>0. kind = "tool" => c \in Int
  <2>1. Call \subseteq Nat \ {0}  BY CallNumbers
  <2>2. kind = "tool" => c \in Nat \ {0}  BY <2>1
  <2> QED  BY <2>2
<1>1. e \in Ev /\ e.ev = "open" /\ e.at = x /\ (kind # "tool" => e.kind # "tool")
  BY <1>0, EventFacts, QuietKinds
<1>2. /\ Names(v, "open") = Names(w, "open") \union (IF e.ev = "open" THEN {e.at} ELSE {})
      /\ Names(v, "shut") = Names(w, "shut") \union (IF e.ev = "shut" THEN {e.at} ELSE {})
      /\ Names(w, "shut") \subseteq Int
  BY <1>1, NamesFacts, NamesNumbers
<1>3. kind = "tool" => x \in CallsAt(v, c)
  <2>1. CallsAt(v, c) = CallsAt(w, c) \union (IF e = OpenTool(e.at, c) THEN {e.at} ELSE {})
    BY <1>1, CallsFacts
  <2> HIDE DEF v
  <2> QED  BY <1>1, <2>1
<1> HIDE DEF v
<1>4. Names(v, "open") = Names(w, "open") \union {x} /\ Names(v, "shut") = Names(w, "shut")
  BY <1>1, <1>2
<1>5. x \notin Names(w, "shut")  BY <1>2 DEF Forwards
<1>6. OpenBlocks(w) = {}  BY DEF Forwards
<1>7. x \notin Names(w, "open")  BY <1>5, <1>6 DEF OpenBlocks
<1>8. OpenBlocks(v) = {x}  BY <1>4, <1>5, <1>6 DEF OpenBlocks
<1>9. Tallied(v, after.called, after.args)
  <2>1. Tallied(w, sent.called, sent.args)  BY DEF Forwards
  <2>2. CASE kind # "tool"
    <3>1. SameCalls(w, v)  BY <1>1, <2>2, QuietOne DEF v
    <3> QED  BY <2>1, <2>2, <3>1, TalliedSame
  <2>3. CASE kind = "tool"
    <3> DEFINE d == sent.called  a == sent.args
    <3>1. /\ c \in Call \ d /\ a[c] = 0 /\ d \in SUBSET Call /\ Tallied(w, d, a) /\ x \in Int
      BY <2>1, <2>3
    <3> HIDE DEF d, a, x
    <3>2. Tallied(Append(w, OpenTool(x, c)), d \union {c}, a)  BY <1>7, <3>1, TalliedOpens
    <3> QED  BY <2>3, <3>2 DEF v, d, a, x
  <2> QED  BY <2>2, <2>3
<1>10. kind # "none"  BY DEF Kinds
<1>11. \A at \in Names(v, "shut") : at < x  BY <1>4 DEF Forwards
<1> QED  BY <1>3, <1>8, <1>9, <1>10, <1>11 DEF Forwards, v

\* A piece of it.
LEMMA ForwardsPieces ==
    ASSUME NEW w \in Seq(Ev), NEW sent, Forwards(w, sent), sent.block \in Kinds, sent.index \in Int,
           sent.called \in SUBSET Call, NEW e, e = Piece(sent.index, sent.block, 1),
           NEW after, after.index = sent.index, after.block = sent.block, after.call = sent.call,
           after.called = sent.called,
           sent.block = "tool" => Grown(sent.args, after.args, sent.call, 1),
           sent.block # "tool" => after.args = sent.args
    PROVE  Forwards(Append(w, e), after)
<1> DEFINE v == Append(w, e)  x == sent.index
<1>1. e \in Ev /\ e.ev = "piece" /\ (sent.block # "tool" => e.kind # "tool")
  BY EventFacts, QuietKinds
<1>2. /\ Names(v, "open") = Names(w, "open") \union (IF e.ev = "open" THEN {e.at} ELSE {})
      /\ Names(v, "shut") = Names(w, "shut") \union (IF e.ev = "shut" THEN {e.at} ELSE {})
  BY <1>1, NamesFacts
<1>3. \A c : CallsAt(v, c) = CallsAt(w, c)
  <2>1. \A c : CallsAt(v, c) = CallsAt(w, c) \union (IF e = OpenTool(e.at, c) THEN {e.at} ELSE {})
    BY <1>1, CallsFacts
  <2> HIDE DEF v
  <2>2. \A y, c : e # OpenTool(y, c)  BY DEF Piece, OpenTool, Event
  <2> QED  BY <2>1, <2>2
<1> HIDE DEF v
<1>4. Names(v, "open") = Names(w, "open") /\ Names(v, "shut") = Names(w, "shut")  BY <1>1, <1>2
<1>5. OpenBlocks(v) = OpenBlocks(w)  BY <1>4 DEF OpenBlocks
<1>6. Tallied(v, after.called, after.args)
  <2>1. Tallied(w, sent.called, sent.args)  BY DEF Forwards
  <2>2. CASE sent.block # "tool"
    <3>1. SameCalls(w, v)  BY <1>1, <2>2, QuietOne DEF v
    <3> QED  BY <2>1, <2>2, <3>1, TalliedSame
  <2>3. CASE sent.block = "tool"
    <3> DEFINE d == sent.called  a == sent.args  b == after.args  c == sent.call
    <3>1. /\ d \in SUBSET Call /\ Tallied(w, d, a) /\ c \in d /\ x \in CallsAt(w, c)
          /\ b[c] = a[c] + 1 /\ \A y \in d : y # c => b[y] = a[y]
      BY <2>1, <2>3 DEF Grown, Forwards
    <3>2. v = Append(w, Piece(x, "tool", 1))  BY <2>3 DEF v
    <3> HIDE DEF d, a, b, c, x
    <3>3. Tallied(Append(w, Piece(x, "tool", 1)), d, b)  BY <3>1, TalliedGrows
    <3> QED  BY <3>2, <3>3 DEF d, b
  <2> QED  BY <2>2, <2>3
<1> QED  BY <1>3, <1>4, <1>5, <1>6 DEF Forwards, v

\* Its stop.
LEMMA ForwardsShuts ==
    ASSUME NEW w \in Seq(Ev), NEW sent, Forwards(w, sent), sent.block # "none", sent.index \in Int,
           NEW e, e = Shut(sent.index),
           NEW after, after.index = sent.index + 1, after.block = "none",
           after.called = sent.called, after.args = sent.args
    PROVE  Forwards(Append(w, e), after)
<1> DEFINE v == Append(w, e)  x == sent.index
<1>1. e \in Ev /\ e.ev = "shut" /\ e.at = x /\ e.kind # "tool"
  BY EventFacts, QuietKinds
<1>2. /\ Names(v, "open") = Names(w, "open") \union (IF e.ev = "open" THEN {e.at} ELSE {})
      /\ Names(v, "shut") = Names(w, "shut") \union (IF e.ev = "shut" THEN {e.at} ELSE {})
      /\ Names(w, "shut") \subseteq Int
  BY <1>1, NamesFacts, NamesNumbers
<1>3. SameCalls(w, v)  BY <1>1, QuietOne
<1> HIDE DEF v
<1>4. Names(v, "open") = Names(w, "open") /\ Names(v, "shut") = Names(w, "shut") \union {x}  BY <1>1, <1>2
<1>5. OpenBlocks(w) = {x}  BY DEF Forwards
<1>6. OpenBlocks(v) = {}  BY <1>4, <1>5 DEF OpenBlocks
<1>7. Tallied(v, after.called, after.args)  BY <1>3, TalliedSame DEF Forwards
<1>8. \A at \in Names(v, "shut") : at < after.index
  <2>1. \A at \in Names(w, "shut") : at < x  BY DEF Forwards
  <2> QED  BY <1>2, <1>4, <2>1
<1> QED  BY <1>6, <1>7, <1>8 DEF Forwards, v

-----------------------------------------------------------------------------
\* The second invariant, while the upstream talks.

\* Of what the upstream sent, only what it sent of calls and blocks matters.
LEMMA CountsAlike ==
    ASSUME NEW r, NEW m, NEW sent, LegCounts(r, m, sent), NEW after,
           after.called = sent.called, after.args = sent.args, after.over = sent.over,
           after.block = sent.block, after.index = sent.index, after.call = sent.call
    PROVE  LegCounts(r, m, after)
<1>1. ShutBefore(r, after) = ShutBefore(r, sent)  BY DEF ShutBefore
<1>2. r = "ClaudeToResponses" => Indexed(m, after)  BY DEF LegCounts, Indexed
<1>3. r \in PassThrough => Forwards(m.wire, after)  BY DEF LegCounts, Forwards
<1> QED  BY <1>1, <1>2, <1>3 DEF LegCounts

\* What a converter has written agrees with its memory.
LEMMA SaneLeg ==
    ASSUME NEW r \in Legs \ PassThrough, NEW m, NEW sent, LegSane(r, m, sent)
    PROVE  Sane(m, r # "ChatToResponses")
<1>1. CASE r = "ChatToClaude"  BY <1>1 DEF LegSane, Claude
<1>2. CASE r = "ResponsesToClaude"  BY <1>2 DEF LegSane, Claude
<1>3. CASE r = "ClaudeToResponses"  BY <1>3 DEF LegSane, Gated, Lidded
<1>4. CASE r = "ChatToResponses"  BY <1>4 DEF LegSane, Messages
<1>5. CASE r = "ClaudeToChat"  BY <1>5 DEF LegSane, ClaudeChat, Chat
<1>6. CASE r = "ResponsesToChat"  BY <1>6 DEF LegSane, ResponsesChat, Chat
<1>7. CASE r = "ChatToGemini"  BY <1>7 DEF LegSane, Chat
<1> QED  BY <1>1, <1>2, <1>3, <1>4, <1>5, <1>6, <1>7, LegsAre

\* While the upstream talks nothing is whole.
LEMMA LegCalm == ASSUME NEW r \in Legs, NEW m, NEW sent, LegSane(r, m, sent) PROVE ~Says(m.wire, "whole")
<1>1. CASE r \in PassThrough
  <2>1. Calm(m.wire)  BY <1>1 DEF LegSane, PassSane
  <2> QED  BY <2>1 DEF Calm, Says, Ends
<1>2. CASE r \notin PassThrough
  <2>1. Sane(m, r # "ChatToResponses")  BY <1>2, SaneLeg
  <2>2. m.wire = IF m.gated THEN <<>> ELSE Written(m)
    <3>1. Veiled(m)  BY <2>1 DEF Sane
    <3> QED  BY <3>1, ShownIsWritten
  <2>3. Calm(Written(m))  BY <2>1 DEF Sane
  <2>4. Calm(m.wire)  BY <2>2, <2>3, CalmFacts
  <2> QED  BY <2>4 DEF Calm, Says, Ends
<1> QED  BY <1>1, <1>2

\* A converter that has read nothing.
LEMMA FreshCounts ==
    ASSUME NEW r \in Legs
    PROVE  /\ LegCounts(r, Fresh(r), NothingSent) /\ Counted(NothingSent) /\ WholeIs(r, Fresh(r), NothingSent)
           /\ NothingSent.over \subseteq NothingSent.said \cap NothingSent.called
<1> DEFINE m == Fresh(r)
<1>1. /\ m.wire = <<>> /\ m.held = <<>> /\ m.tools = <<>>  BY DEF Fresh, Memory
<1> HIDE DEF m
<1>2. Written(m) = <<>> /\ DOMAIN m.tools = {}  BY <1>1 DEF Written
<1>3. /\ NothingSent.called = {} /\ NothingSent.block = "none" /\ NothingSent.over = {}
      /\ NothingSent.args = [c \in Call |-> 0]
  BY DEF NothingSent
<1>4. \A args, shut : Keyed(m, {}, args, shut)  BY <1>1, <1>2, NothingKeyed
<1>5. \A args : Tallied(<<>>, {}, args)  BY NothingTallies
<1>6. Indexed(m, NothingSent)  BY <1>2, <1>3, <1>5 DEF Indexed
<1>7. OpenBlocks(<<>>) = {} /\ Names(<<>>, "shut") = {}  BY DEF OpenBlocks, Names
<1>8. Forwards(m.wire, NothingSent)  BY <1>1, <1>3, <1>5, <1>7 DEF Forwards
<1>9. LegCounts(r, m, NothingSent)  BY <1>3, <1>4, <1>6, <1>8 DEF LegCounts
<1>10. Counted(NothingSent)
  <2>1. Cardinality({}) = 0  BY FS_EmptySet
  <2>2. 1 .. 0 = {}  OBVIOUS
  <2> QED  BY <1>3, <2>1, <2>2 DEF Counted
<1>11. WholeIs(r, m, NothingSent)  BY <1>1, CalmFacts DEF WholeIs
<1> QED  BY <1>3, <1>9, <1>10, <1>11 DEF m

\* The counts hold where the program starts.
LEMMA InitCounts == ASSUME Init PROVE JInv
<1>1. route \in Legs  BY LegsAre DEF Init
<1>2. t = Fresh(route) /\ up = NothingSent  BY DEF Init
<1> QED  BY <1>1, <1>2, FreshCounts DEF JInv

\* One frame read.
LEMMA FrameCounts ==
    ASSUME IInv, IInv', JInv, NEW sent \in Sent, NEW u, Frame(sent, u), sent.reason = "none",
           Counted(sent), route \in FromResponses => sent.over \subseteq sent.said \cap sent.called,
           LegCounts(route, u, sent)
    PROVE  JInv'
<1> DEFINE after == [sent EXCEPT !.frames = @ + 1]
<1>1. Running /\ up' = after /\ t' = u /\ route' = route /\ ending' = ending
  BY DEF Frame
<1>2. /\ after.called = sent.called /\ after.args = sent.args /\ after.over = sent.over
      /\ after.block = sent.block /\ after.index = sent.index /\ after.call = sent.call
      /\ after.said = sent.said /\ after.reason = sent.reason
  BY DEF Sent
<1> HIDE DEF after
<1>3. LegCounts(route, u, after)  BY <1>2, CountsAlike
<1>4. Counted(after)  BY <1>2 DEF Counted
<1>5. ~Says(u.wire, "whole")
  <2>1. Running' /\ up'.reason = "none"  BY <1>1, <1>2 DEF Running
  <2>2. LegSane(route', t', up')  BY <2>1 DEF IInv, Memories
  <2>3. route \in Legs  BY LegsAre DEF IInv, Settings
  <2> QED  BY <1>1, <2>2, <2>3, LegCalm
<1>6. WholeIs(route, u, after)  BY <1>5 DEF WholeIs
<1>7. Counted(up') /\ LegCounts(route', t', up') /\ WholeIs(route', t', up')
      /\ (route' \in FromResponses => up'.over \subseteq up'.said \cap up'.called)
  BY <1>1, <1>2, <1>3, <1>4, <1>6
<1> QED  BY <1>7 DEF JInv

\* The body ended.
LEMMA SettleCounts ==
    ASSUME IInv, JInv, NEW e, NEW how \in {"whole", "clean", "reset", "error"}, Settle(e, how),
           WholeIs(route, e.t, up)
    PROVE  JInv'
<1>1. route \in Legs /\ route' = route  BY LegsAre DEF IInv, Settings, Settle
<1>2. CASE MayRetry(e.err, ShownAtEnd(e.t))
  <2>1. t' = Fresh(route) /\ up' = NothingSent  BY <1>2 DEF Settle
  <2>2. /\ LegCounts(route', t', up') /\ Counted(up') /\ WholeIs(route', t', up')
        /\ up'.over \subseteq up'.said \cap up'.called
    BY <1>1, <2>1, FreshCounts
  <2> QED  BY <2>2 DEF JInv
<1>3. CASE ~MayRetry(e.err, ShownAtEnd(e.t))
  <2>1. t' = e.t /\ up' = up /\ ending' = how  BY <1>3 DEF Settle
  <2>2. ~Running'  BY <2>1 DEF Running
  <2>3. /\ Counted(up') /\ WholeIs(route', t', up')
        /\ route' \in FromResponses => up'.over \subseteq up'.said \cap up'.called
    BY <1>1, <2>1 DEF JInv
  <2> QED  BY <2>2, <2>3 DEF JInv
<1> QED  BY <1>2, <1>3

\* While frames are read.
LEMMA WhileCounted ==
    ASSUME IInv, JInv, Running, up.reason = "none"
    PROVE  /\ up \in Sent /\ route \in Legs /\ Counted(up) /\ LegCounts(route, t, up) /\ LegSane(route, t, up)
           /\ t \in Mem /\ Veiled(t)
           /\ route \in ByCall => InStep(t, up.called, up.args, ShutBefore(route, up))
<1>1. /\ up \in Sent /\ route \in Legs /\ Counted(up) /\ LegCounts(route, t, up) /\ LegSane(route, t, up)
      /\ t \in Mem /\ Veiled(t)
  BY LegsAre DEF IInv, JInv, Settings, Frames, Memories, Good
<1>2. up.called \in SUBSET Call /\ up.args \in [Call -> Nat]  BY <1>1, SentFacts
<1> QED  BY <1>1, <1>2 DEF LegCounts, InStep

\* The next call.
LEMMA CallCounted ==
    ASSUME NEW sent \in Sent, Counted(sent), NEW c \in Call, c = 1 + Cardinality(sent.called)
    PROVE  /\ c \notin sent.called /\ sent.args[c] = 0
           /\ sent.called \union {c} = 1 .. Cardinality(sent.called \union {c})
<1> DEFINE s == sent.called  n == Cardinality(s)
<1>1. s \in SUBSET Call  BY SentFacts
<1>2. IsFiniteSet(s) /\ n \in Nat /\ s = 1 .. n
  <2>1. IsFiniteSet(s) /\ n \in 0 .. Cardinality(Call) /\ Cardinality(Call) \in Nat  BY <1>1, CallNumbers
  <2> QED  BY <2>1 DEF Counted
<1>3. c = n + 1  BY <1>2
<1> HIDE DEF n
<1>4. c \notin s  BY <1>2, <1>3
<1>5. Cardinality(s \union {c}) = n + 1  BY <1>2, <1>4, FS_AddElement DEF n
<1>6. s \union {c} = 1 .. n + 1
  <2>1. 1 .. n + 1 = (1 .. n) \union {n + 1}  BY <1>2
  <2> QED  BY <1>2, <1>3, <2>1
<1>7. sent.args[c] = 0  BY <1>4 DEF Counted
<1> QED  BY <1>4, <1>5, <1>6, <1>7

\* The arguments of one call are counted on.
LEMMA GrownFacts ==
    ASSUME NEW args \in [Call -> Nat], NEW c \in Call
    PROVE  /\ \A n \in Nat : Grown(args, [args EXCEPT ![c] = @ + n], c, n)
           /\ \A all \in Nat : Grown(args, [args EXCEPT ![c] = all], c, all - args[c])
<1>1. args[c] \in Nat  OBVIOUS
<1>2. ASSUME NEW n \in Nat PROVE Grown(args, [args EXCEPT ![c] = @ + n], c, n)
  <2>1. args[c] + n \in Nat  BY <1>1
  <2> QED  BY <2>1 DEF Grown
<1>3. ASSUME NEW all \in Nat PROVE Grown(args, [args EXCEPT ![c] = all], c, all - args[c])
  <2>1. args[c] + (all - args[c]) = all  BY <1>1
  <2> QED  BY <2>1 DEF Grown
<1> QED  BY <1>2, <1>3

\* What is of no call keeps the legs that remember calls counted.
LEMMA SilentCounts ==
    ASSUME NEW r \in ByCall, r # "ClaudeToChat", NEW m, NEW u, NEW sent, LegCounts(r, m, sent), Silent(m, u)
    PROVE  LegCounts(r, u, sent)
<1>1. Keyed(u, sent.called, sent.args, ShutBefore(r, sent))  BY KeyedSilent DEF LegCounts
<1> QED  BY <1>1, LegsAre DEF LegCounts, ByCall

\* Chat upstream: one chunk.
LEMMA ChatChunkCounts == ASSUME IInv, IInv', JInv, NEW chunk \in Chunks, ChatChunk(chunk) PROVE JInv'
<1> DEFINE k == chunk.call  n == chunk.args
           a == [up.args EXCEPT ![k] = @ + n]
           o == IF chunk.json THEN up.over \union {k} ELSE up.over
           c == up.called \union {k}
           marked == [up EXCEPT !.called = c, !.args = a, !.over = o]
           sent == IF k = 0 THEN up ELSE marked
           u == CASE route = "ChatToClaude"    -> ChatToClaude(t, chunk)
                  [] route = "ChatToResponses" -> ChatToResponses(t, chunk)
                  [] OTHER                     -> ChatToGemini(t, chunk)
<1>1. route \in FromChat /\ Frame(sent, u) /\ (k # 0 => MayCall(k))
  <2>1. sent = IF k = 0 THEN up
               ELSE [up EXCEPT !.called = @ \union {k}, !.args[k] = @ + chunk.args,
                               !.over = IF chunk.json THEN @ \union {k} ELSE @]
    OBVIOUS
  <2> HIDE DEF sent, u
  <2> QED  BY <2>1 DEF ChatChunk, sent, u
<1>2. n \in Nat /\ (k # 0 => k \in Call)  BY DEF Chunks
<1>3. /\ up \in Sent /\ up.reason = "none" /\ Counted(up) /\ LegCounts(route, t, up) /\ LegSane(route, t, up)
      /\ route \in ByCall => InStep(t, up.called, up.args, ShutBefore(route, up))
  <2>1. Running /\ up.reason = "none"  BY <1>1, WhileRead
  <2> QED  BY <2>1, WhileCounted
<1>4. up.args \in [Call -> Nat] /\ up.over \in SUBSET Call /\ up.called \in SUBSET Call
  BY <1>3, SentFacts
<1>5. ASSUME k # 0
      PROVE  /\ Grown(up.args, a, k, n) /\ o \in SUBSET Call /\ c \in SUBSET Call /\ a \in [Call -> Nat]
             /\ c = 1 .. Cardinality(c) /\ (k \notin up.called => up.args[k] = 0)
  <2>1. k \in Call  BY <1>2, <1>5
  <2>2. Grown(up.args, a, k, n)  BY <1>2, <1>4, <2>1, GrownFacts
  <2>3. o \in SUBSET Call /\ c \in SUBSET Call  BY <1>4, <2>1
  <2>4. c = 1 .. Cardinality(c) /\ (k \notin up.called => up.args[k] = 0)
    <3>1. CASE k \in up.called
      <4>1. c = up.called  BY <3>1
      <4> QED  BY <1>3, <3>1, <4>1 DEF Counted
    <3>2. CASE k \notin up.called
      <4>1. k = 1 + Cardinality(up.called)  BY <1>1, <1>5, <3>2 DEF MayCall
      <4> QED  BY <1>3, <2>1, <4>1, CallCounted
    <3> QED  BY <3>1, <3>2
  <2> QED  BY <2>2, <2>3, <2>4 DEF Grown
<1> HIDE DEF a, o
<1>6. k # 0 => /\ marked \in Sent /\ marked.reason = "none" /\ marked.called = c /\ marked.args = a
  <2> HIDE DEF c, k
  <2> QED  BY <1>3, <1>5 DEF Sent
<1> HIDE DEF marked
<1>7. k # 0 => Counted(marked)
  <2> SUFFICES ASSUME k # 0 PROVE Counted(marked)  OBVIOUS
  <2>1. \A d \in Call \ c : a[d] = 0
    <3>1. \A d \in Call : d # k => a[d] = up.args[d]  BY <1>5 DEF Grown
    <3> QED  BY <1>3, <3>1 DEF Counted
  <2> QED  BY <1>5, <1>6, <2>1 DEF Counted
<1>8. sent \in Sent /\ sent.reason = "none" /\ Counted(sent)  BY <1>3, <1>6, <1>7
<1>9. /\ route = "ChatToClaude" => Keyed(u, sent.called, sent.args, {})
      /\ route = "ChatToResponses" => Keyed(u, sent.called, sent.args, {})
  <2>1. ASSUME route = "ChatToClaude" PROVE Keyed(u, sent.called, sent.args, {})
    <3>1. Claude(t, TRUE) /\ InStep(t, up.called, up.args, {})
      BY <1>3, <2>1 DEF LegSane, ByCall, ShutBefore
    <3> DEFINE v == ChatToClaude(t, chunk)
    <3>2. /\ k = 0 => InStep(v, up.called, up.args, {})
          /\ \A more : /\ k \in Call /\ Grown(up.args, more, k, n)
                       /\ k # 0 /\ (k \notin up.called => up.args[k] = 0)
                       => InStep(v, up.called \union {k}, more, {})
      BY <3>1, StepChatToClaude
    <3>3. u = v  BY <2>1
    <3> HIDE DEF v, u, k, n
    <3>4. CASE k = 0  BY <3>2, <3>3, <3>4 DEF InStep
    <3>5. CASE k # 0
      <4>1. InStep(v, c, a, {})  BY <1>2, <1>5, <3>2, <3>5 DEF k
      <4> QED  BY <1>6, <3>3, <3>5, <4>1 DEF InStep
    <3> QED  BY <3>4, <3>5
  <2>2. ASSUME route = "ChatToResponses" PROVE Keyed(u, sent.called, sent.args, {})
    <3>1. Messages(t) /\ InStep(t, up.called, up.args, {})
      BY <1>3, <2>2 DEF LegSane, ByCall, ShutBefore
    <3> DEFINE v == ChatToResponses(t, chunk)
    <3>2. /\ k = 0 => InStep(v, up.called, up.args, {})
          /\ \A more : /\ k \in Call /\ Grown(up.args, more, k, n)
                       /\ k # 0 /\ (k \notin up.called => up.args[k] = 0)
                       => InStep(v, up.called \union {k}, more, {})
      BY <3>1, StepChatToResponses
    <3>3. u = v  BY <2>2
    <3> HIDE DEF v, u, k, n
    <3>4. CASE k = 0  BY <3>2, <3>3, <3>4 DEF InStep
    <3>5. CASE k # 0
      <4>1. InStep(v, c, a, {})  BY <1>2, <1>5, <3>2, <3>5 DEF k
      <4> QED  BY <1>6, <3>3, <3>5, <4>1 DEF InStep
    <3> QED  BY <3>4, <3>5
  <2> QED  BY <2>1, <2>2
<1> HIDE DEF u, sent
<1>10. LegCounts(route, u, sent)  BY <1>1, <1>9, LegsAre DEF LegCounts, FromChat, ByCall, ShutBefore
<1>11. route \notin FromResponses  BY <1>1 DEF FromChat, FromResponses
<1> QED  BY <1>1, <1>8, <1>10, <1>11, FrameCounts

-----------------------------------------------------------------------------
\* Claude upstream, counted.

\* Claude upstream.
LEMMA MessageStartCounts == ASSUME IInv, IInv', JInv, MessageStart PROVE JInv'
<1> DEFINE sent == [up EXCEPT !.index = 1]
           u == CASE route = "ClaudeToResponses" -> Started(t)
                  [] route = "ClaudeToChat"      -> t
                  [] OTHER                       -> Forwarded(Begin, FALSE)
<1>1. route \in FromClaude /\ up.frames = 0 /\ Frame(sent, u)  BY DEF MessageStart
<1>2. Running /\ up.reason = "none"  BY <1>1, WhileRead
<1>3. /\ up \in Sent /\ route \in Legs /\ Counted(up) /\ LegCounts(route, t, up) /\ t \in Mem /\ Veiled(t)
      /\ LegSane(route, t, up)
  BY <1>2, WhileCounted
<1>4. t = Fresh(route) /\ up.block = "none"  BY <1>1, <1>2 DEF IInv, Memories
<1>5. t.wire = <<>> /\ t.tools = <<>>  BY <1>4 DEF Fresh, Memory
<1>6. /\ sent \in Sent /\ sent.reason = "none" /\ sent.block = "none" /\ sent.index = 1
      /\ sent.called = up.called /\ sent.args = up.args /\ sent.over = up.over
  <2>1. 1 \in Nat  OBVIOUS
  <2> QED  BY <1>2, <1>3, <1>4, <2>1 DEF Sent
<1> HIDE DEF sent
<1>7. Counted(sent)  BY <1>3, <1>6 DEF Counted
<1>8. LegCounts(route, u, sent)
  <2>1. CASE route = "ClaudeToResponses"
    <3>1. Silent(t, Started(t))  BY <1>3, SilentStarted
    <3>2. Indexed(t, up)  BY <1>3, <2>1 DEF LegCounts
    <3>3. Started(t).tools = <<>>  BY <1>5, <3>1 DEF Silent
    <3>4. Indexed(Started(t), sent)  BY <1>4, <1>6, <3>1, <3>2, <3>3, IndexedSilent
    <3> QED  BY <2>1, <3>4, LegsAre DEF LegCounts, ByCall
  <2>2. CASE route = "ClaudeToChat"
    <3>1. Keyed(t, up.called, up.args, {})  BY <1>3, <2>2 DEF LegCounts, ByCall, ShutBefore
    <3> QED  BY <1>6, <2>2, <3>1, LegsAre DEF LegCounts, ByCall, ShutBefore
  <2>3. CASE route \in PassThrough
    <3> DEFINE w == t.wire  g == route = "ClaudeOAuthPass"  no == FALSE
    <3>1. Forwards(w, up) /\ w \in Seq(Ev)  BY <1>3, <2>3, MemFacts DEF LegCounts
    <3>2. Names(<<>>, "shut") = {}  BY DEF Names
    <3>3. Forwards(w, sent)  BY <1>4, <1>5, <1>6, <3>1, <3>2 DEF Forwards
    <3>4. u = PassFrame(t, Begin, g, no)  BY <2>3, LegsAre DEF Forwarded
    <3>5. ~t.gated  BY <1>3, <2>3 DEF LegSane, PassSane, PassFine
    <3>6. Begin \in Ev /\ Begin.ev = "begin" /\ Begin.kind # "tool"  BY EventFacts, QuietKinds
    <3>7. Guarded(t, Begin, g) = Begin  BY <3>6 DEF Guarded
    <3> HIDE DEF u, g, no
    <3>8. u.wire = Append(w, Begin)  BY <1>3, <3>4, <3>5, <3>6, <3>7, PassWrites
    <3> HIDE DEF w
    <3>9. 1 \in Int /\ 1 >= 1  OBVIOUS
    <3>10. Forwards(Append(w, Begin), sent)  BY <1>6, <3>1, <3>3, <3>6, <3>9, ForwardsMarks
    <3> QED  BY <2>3, <3>8, <3>10, LegsAre DEF LegCounts, ByCall
  <2> QED  BY <1>1, <2>1, <2>2, <2>3 DEF FromClaude
<1> HIDE DEF u
<1>9. route \notin FromResponses  BY <1>1, LegsAre DEF FromClaude, FromResponses
<1> QED  BY <1>1, <1>6, <1>7, <1>8, <1>9, FrameCounts

\* content_block_start.
LEMMA BlockStartCounts ==
    ASSUME IInv, IInv', JInv, NEW kind \in Kinds, NEW together \in BOOLEAN, BlockStart(kind, together)
    PROVE  JInv'
<1> DEFINE c == Cardinality(up.called) + 1
           x == IF kind = "tool" THEN c ELSE up.call
           s == IF kind = "tool" THEN up.called \union {c} ELSE up.called
           sent == [up EXCEPT !.block = kind, !.call = x, !.called = s]
           e == IF kind = "tool" THEN OpenTool(up.index, c) ELSE Open(up.index, kind)
           u == CASE route = "ClaudeToResponses" -> ClaudeToResponsesStart(t, up.index, kind, c)
                  [] route = "ClaudeToChat"      -> ClaudeToChatStart(t, kind, c)
                  [] OTHER -> Forwarded(e, together)
<1>1. route \in FromClaude /\ (kind = "tool" => c \in Call) /\ Frame(sent, u) /\ up.block = "none"
  <2>1. sent = [up EXCEPT !.block = kind, !.call = IF kind = "tool" THEN c ELSE @,
                        !.called = IF kind = "tool" THEN @ \union {c} ELSE @]
    OBVIOUS
  <2> HIDE DEF sent, u
  <2> QED  BY <2>1 DEF BlockStart, u, sent
<1>2. Running /\ up.reason = "none"  BY <1>1, WhileRead
<1>3. /\ up \in Sent /\ route \in Legs /\ Counted(up) /\ LegCounts(route, t, up) /\ t \in Mem /\ Veiled(t)
      /\ LegSane(route, t, up) /\ (route \in ByCall => InStep(t, up.called, up.args, ShutBefore(route, up)))
  BY <1>2, WhileCounted
<1>4. up.called \in SUBSET Call /\ up.index \in Nat /\ up.index \in Int
  <2>1. up.called \in SUBSET Call /\ up.index \in Nat  BY <1>3, SentFacts
  <2> QED  BY <2>1
<1>5. kind = "tool" => /\ c \in Call \ up.called /\ up.args[c] = 0
                       /\ up.called \union {c} = 1 .. Cardinality(up.called \union {c})
  <2> SUFFICES ASSUME kind = "tool"
               PROVE  /\ c \in Call \ up.called /\ up.args[c] = 0
                      /\ up.called \union {c} = 1 .. Cardinality(up.called \union {c})
    OBVIOUS
  <2>1. c = 1 + Cardinality(up.called)
    <3>1. Cardinality(up.called) \in 0 .. Cardinality(Call) /\ Cardinality(Call) \in Nat  BY <1>4, CallNumbers
    <3> QED  BY <3>1
  <2>2. c \in Call  BY <1>1
  <2> HIDE DEF c
  <2> QED  BY <1>3, <2>1, <2>2, CallCounted
<1> HIDE DEF c
<1>6. x \in Call \union {0} /\ s \in SUBSET Call  BY <1>3, <1>4, <1>5, SentFacts
<1>7. s = 1 .. Cardinality(s)  BY <1>3, <1>5 DEF Counted
<1> HIDE DEF x, s
<1>8. /\ sent \in Sent /\ sent.reason = "none" /\ sent.block = kind /\ sent.index = up.index
      /\ sent.call = x /\ sent.called = s /\ sent.args = up.args /\ sent.over = up.over
  BY <1>2, <1>3, <1>6 DEF Sent
<1> HIDE DEF sent
<1>9. /\ kind = "tool" => sent.called = up.called \union {c} /\ sent.call = c
      /\ kind # "tool" => sent.called = up.called
  BY <1>8 DEF s, x
<1>10. Counted(sent)
  <2>1. up.called \subseteq s  BY DEF s
  <2> QED  BY <1>3, <1>7, <1>8, <2>1 DEF Counted
<1>11. LegCounts(route, u, sent)
  <2>1. CASE route = "ClaudeToResponses"
    <3>1. Indexed(t, up) /\ Gated(t)  BY <1>3, <2>1 DEF LegCounts, LegSane
    <3>2. Indexed(ClaudeToResponsesStart(t, up.index, kind, c), sent)
      BY <1>1, <1>4, <1>5, <1>8, <1>9, <3>1, IndexedStarts
    <3> QED  BY <2>1, <3>2, LegsAre DEF LegCounts, ByCall
  <2>2. CASE route = "ClaudeToChat"
    <3> DEFINE v == ClaudeToChatStart(t, kind, c)
    <3>1. InStep(t, up.called, up.args, {}) /\ Chat(t)
      BY <1>3, <2>2 DEF LegSane, ClaudeChat, ByCall, ShutBefore
    <3>2. u = v  BY <2>2
    <3> HIDE DEF u
    <3>3. Keyed(v, sent.called, sent.args, {}) /\ (kind = "tool" => Current(v, sent.call))
      <4>1. CASE kind = "tool"
        <5>1. InStep(v, up.called \union {c}, up.args, {}) /\ Current(v, c)
          BY <1>5, <3>1, <4>1, StepChatStart
        <5> HIDE DEF v
        <5> QED  BY <1>8, <1>9, <4>1, <5>1 DEF InStep
      <4>2. CASE kind # "tool"
        <5>1. v = t  BY <4>2 DEF ClaudeToChatStart
        <5> HIDE DEF v
        <5> QED  BY <1>8, <1>9, <3>1, <4>2, <5>1 DEF InStep
      <4> QED  BY <4>1, <4>2
    <3> HIDE DEF v
    <3> QED  BY <1>8, <2>2, <3>2, <3>3, LegsAre DEF LegCounts, ByCall, ShutBefore
  <2>3. CASE route \in PassThrough
    <3> DEFINE w == t.wire  g == route = "ClaudeOAuthPass"
    <3>1. Forwards(w, up) /\ w \in Seq(Ev)  BY <1>3, <2>3, MemFacts DEF LegCounts
    <3>2. ~t.gated  BY <1>3, <2>3 DEF LegSane, PassSane, PassFine
    <3>3. u = PassFrame(t, e, g, together)  BY <2>3, LegsAre DEF Forwarded
    <3>4. e \in Ev /\ e.ev = "open"
      <4>1. kind = "tool" => c \in Int
        <5>1. Call \subseteq Nat \ {0}  BY CallNumbers
        <5>2. kind = "tool" => c \in Nat \ {0}  BY <1>5, <5>1
        <5> QED  BY <5>2
      <4> QED  BY <1>4, <4>1, EventFacts
    <3>5. Forwards(Append(w, e), sent)
      <4>1. e = IF kind = "tool" THEN OpenTool(up.index, c) ELSE Open(up.index, kind)  OBVIOUS
      <4> HIDE DEF w, e
      <4> QED  BY <1>1, <1>4, <1>5, <1>8, <1>9, <3>1, <4>1, ForwardsOpens
    <3>6. Guarded(t, e, g) = e  BY <3>4 DEF Guarded
    <3> HIDE DEF u, g, e
    <3>7. u.wire = Append(w, e)  BY <1>3, <3>2, <3>3, <3>4, <3>6, PassWrites
    <3> HIDE DEF w
    <3> QED  BY <2>3, <3>5, <3>7, LegsAre DEF LegCounts, ByCall
  <2> QED  BY <1>1, <2>1, <2>2, <2>3 DEF FromClaude
<1> HIDE DEF u
<1>12. route \notin FromResponses  BY <1>1, LegsAre DEF FromClaude, FromResponses
<1> QED  BY <1>1, <1>8, <1>10, <1>11, <1>12, FrameCounts

\* content_block_delta.
LEMMA BlockDeltaCounts ==
    ASSUME IInv, IInv', JInv, NEW together \in BOOLEAN, BlockDelta(together) PROVE JInv'
<1> DEFINE a == [up.args EXCEPT ![up.call] = @ + 1]
           marked == [up EXCEPT !.args = a]
           sent == IF up.block = "tool" THEN marked ELSE up
           e == Piece(up.index, up.block, 1)
           u == CASE route = "ClaudeToResponses" -> ClaudeToResponsesDelta(t, up.index, up.block)
                  [] route = "ClaudeToChat"      -> ClaudeToChatDelta(t, up.block)
                  [] OTHER -> Forwarded(e, together)
<1>1. route \in FromClaude /\ up.block # "none" /\ Frame(sent, u)
  <2>1. sent = IF up.block = "tool" THEN [up EXCEPT !.args[up.call] = @ + 1] ELSE up
    OBVIOUS
  <2> HIDE DEF sent, u
  <2> QED  BY <2>1 DEF BlockDelta, u, sent
<1>2. Running /\ up.reason = "none" /\ (up.block = "tool" => up.call \in Call)  BY <1>1, WhileRead
<1>3. /\ up \in Sent /\ route \in Legs /\ Counted(up) /\ LegCounts(route, t, up) /\ t \in Mem /\ Veiled(t)
      /\ LegSane(route, t, up) /\ (route \in ByCall => InStep(t, up.called, up.args, ShutBefore(route, up)))
  BY <1>2, WhileCounted
<1>4. /\ up.called \in SUBSET Call /\ up.index \in Nat /\ up.index \in Int /\ up.args \in [Call -> Nat]
      /\ up.block \in Kinds
  <2>1. up.called \in SUBSET Call /\ up.index \in Nat /\ up.args \in [Call -> Nat]
    BY <1>3, SentFacts
  <2>2. up.block \in Kinds  BY <1>1, <1>3, SentFacts
  <2> QED  BY <2>1, <2>2
<1>5. up.block = "tool" => Grown(up.args, a, up.call, 1) /\ a \in [Call -> Nat]
  <2> SUFFICES ASSUME up.block = "tool" PROVE Grown(up.args, a, up.call, 1)  BY DEF Grown
  <2> DEFINE c == up.call  one == 1
  <2>1. c \in Call /\ one \in Nat  BY <1>2
  <2> HIDE DEF c, one
  <2>2. Grown(up.args, [up.args EXCEPT ![c] = @ + one], c, one)  BY <1>4, <2>1, GrownFacts
  <2> QED  BY <2>2 DEF c, one
<1> HIDE DEF a
<1>6. up.block = "tool" => up.call \in up.called
  <2> SUFFICES ASSUME up.block = "tool" PROVE up.call \in up.called  OBVIOUS
  <2>1. CASE route = "ClaudeToResponses"  BY <1>3, <2>1 DEF LegCounts, Indexed
  <2>2. CASE route \in PassThrough  BY <1>3, <2>2 DEF LegCounts, Forwards
  <2>3. CASE route = "ClaudeToChat"
    <3>1. Current(t, up.call) /\ Keyed(t, up.called, up.args, {})
      BY <1>3, <2>3 DEF LegCounts, ByCall, ShutBefore
    <3>2. Len(t.tools) \in DOMAIN t.tools
      <4>1. t.tools \in Seq(Tool) /\ t.tools # <<>>  BY <1>3, <3>1, MemFacts DEF Current
      <4> QED  BY <4>1
    <3> QED  BY <3>1, <3>2 DEF Current, Keyed
  <2> QED  BY <1>1, <2>1, <2>2, <2>3 DEF FromClaude
<1>7. up.block = "tool" => /\ marked \in Sent /\ marked.reason = "none" /\ marked.args = a
                           /\ marked.block = up.block /\ marked.index = up.index /\ marked.call = up.call
                           /\ marked.called = up.called /\ marked.over = up.over
  BY <1>2, <1>3, <1>5 DEF Sent
<1> HIDE DEF marked
<1>8. /\ sent \in Sent /\ sent.reason = "none" /\ sent.block = up.block /\ sent.index = up.index
      /\ sent.call = up.call /\ sent.called = up.called /\ sent.over = up.over
      /\ up.block = "tool" => sent.args = a
      /\ up.block # "tool" => sent.args = up.args
  BY <1>2, <1>3, <1>7
<1> HIDE DEF sent
<1>9. up.block = "tool" => Grown(up.args, sent.args, up.call, 1)  BY <1>5, <1>8
<1>10. Counted(sent)
  <2>1. CASE up.block # "tool"  BY <1>3, <1>8, <2>1 DEF Counted
  <2>2. CASE up.block = "tool"
    <3>1. \A c \in Call \ up.called : sent.args[c] = up.args[c]  BY <1>6, <1>9, <2>2 DEF Grown
    <3> QED  BY <1>3, <1>8, <3>1 DEF Counted
  <2> QED  BY <2>1, <2>2
<1>11. LegCounts(route, u, sent)
  <2>1. CASE route = "ClaudeToResponses"
    <3>1. Indexed(t, up) /\ Gated(t)  BY <1>3, <2>1 DEF LegCounts, LegSane
    <3>2. Indexed(ClaudeToResponsesDelta(t, up.index, up.block), sent)
      BY <1>4, <1>8, <1>9, <3>1, IndexedDeltas
    <3> QED  BY <2>1, <3>2, LegsAre DEF LegCounts, ByCall
  <2>2. CASE route = "ClaudeToChat"
    <3> DEFINE v == ClaudeToChatDelta(t, up.block)
    <3>1. InStep(t, up.called, up.args, {})
      BY <1>3, <2>2 DEF ByCall, ShutBefore
    <3>2. u = v  BY <2>2
    <3> HIDE DEF u
    <3>3. Keyed(v, sent.called, sent.args, {}) /\ (up.block = "tool" => Current(v, sent.call))
      <4>1. CASE up.block = "tool"
        <5>1. Current(t, up.call)  BY <1>3, <2>2, <4>1 DEF LegCounts
        <5>2. InStep(v, up.called, sent.args, {}) /\ Current(v, up.call)
          BY <1>9, <3>1, <4>1, <5>1, StepChatArgs
        <5> HIDE DEF v
        <5> QED  BY <1>8, <5>2 DEF InStep
      <4>2. CASE up.block # "tool"
        <5>1. up.block \in Kinds \ {"tool"}  BY <1>4, <4>2
        <5>2. Silent(t, v)  BY <1>3, <5>1, SilentChatDelta
        <5> HIDE DEF v
        <5>3. InStep(v, up.called, up.args, {})  BY <3>1, <5>2, KeptSilent
        <5> QED  BY <1>8, <4>2, <5>3 DEF InStep
      <4> QED  BY <4>1, <4>2
    <3> HIDE DEF v
    <3> QED  BY <1>8, <2>2, <3>2, <3>3, LegsAre DEF LegCounts, ByCall, ShutBefore
  <2>3. CASE route \in PassThrough
    <3> DEFINE w == t.wire  g == route = "ClaudeOAuthPass"
    <3>1. Forwards(w, up) /\ w \in Seq(Ev)  BY <1>3, <2>3, MemFacts DEF LegCounts
    <3>2. ~t.gated  BY <1>3, <2>3 DEF LegSane, PassSane, PassFine
    <3>3. u = PassFrame(t, e, g, together)  BY <2>3, LegsAre DEF Forwarded
    <3>4. e \in Ev /\ e.ev = "piece"  BY <1>4, EventFacts
    <3>5. Forwards(Append(w, e), sent)
      <4>1. e = Piece(up.index, up.block, 1)  OBVIOUS
      <4> HIDE DEF w, e
      <4> QED  BY <1>4, <1>8, <1>9, <3>1, <4>1, ForwardsPieces
    <3>6. Guarded(t, e, g) = e  BY <3>4 DEF Guarded
    <3> HIDE DEF u, g, e
    <3>7. u.wire = Append(w, e)  BY <1>3, <3>2, <3>3, <3>4, <3>6, PassWrites
    <3> HIDE DEF w
    <3> QED  BY <2>3, <3>5, <3>7, LegsAre DEF LegCounts, ByCall
  <2> QED  BY <1>1, <2>1, <2>2, <2>3 DEF FromClaude
<1> HIDE DEF u
<1>12. route \notin FromResponses  BY <1>1, LegsAre DEF FromClaude, FromResponses
<1> QED  BY <1>1, <1>8, <1>10, <1>11, <1>12, FrameCounts

\* content_block_stop.
LEMMA BlockStopCounts ==
    ASSUME IInv, IInv', JInv, NEW together \in BOOLEAN, BlockStop(together) PROVE JInv'
<1> DEFINE n == up.index + 1
           sent == [up EXCEPT !.block = "none", !.index = n]
           e == Shut(up.index)
           u == CASE route = "ClaudeToResponses" -> ClaudeToResponsesStop(t, up.index)
                  [] route = "ClaudeToChat"      -> ClaudeToChatStop(t)
                  [] OTHER -> Forwarded(e, together)
<1>1. route \in FromClaude /\ up.block # "none" /\ Frame(sent, u)
  <2>1. sent = [up EXCEPT !.block = "none", !.index = @ + 1]  OBVIOUS
  <2> HIDE DEF sent, u
  <2> QED  BY <2>1 DEF BlockStop, u, sent
<1>2. Running /\ up.reason = "none"  BY <1>1, WhileRead
<1>3. /\ up \in Sent /\ route \in Legs /\ Counted(up) /\ LegCounts(route, t, up) /\ t \in Mem /\ Veiled(t)
      /\ LegSane(route, t, up) /\ (route \in ByCall => InStep(t, up.called, up.args, ShutBefore(route, up)))
  BY <1>2, WhileCounted
<1>4. up.index \in Nat /\ up.index \in Int /\ n \in Nat
  <2>1. up.index \in Nat  BY <1>3, SentFacts
  <2> QED  BY <2>1
<1> HIDE DEF n
<1>5. /\ sent \in Sent /\ sent.reason = "none" /\ sent.block = "none" /\ sent.index = n
      /\ sent.called = up.called /\ sent.args = up.args /\ sent.over = up.over
  BY <1>2, <1>3, <1>4 DEF Sent
<1> HIDE DEF sent
<1>6. sent.index = up.index + 1  BY <1>5 DEF n
<1>7. Counted(sent)  BY <1>3, <1>5 DEF Counted
<1>8. LegCounts(route, u, sent)
  <2>1. CASE route = "ClaudeToResponses"
    <3>1. Indexed(t, up) /\ Gated(t)  BY <1>3, <2>1 DEF LegCounts, LegSane
    <3>2. Indexed(ClaudeToResponsesStop(t, up.index), sent)
      BY <1>4, <1>5, <1>6, <3>1, IndexedStops
    <3> QED  BY <2>1, <3>2, LegsAre DEF LegCounts, ByCall
  <2>2. CASE route = "ClaudeToChat"
    <3> DEFINE v == ClaudeToChatStop(t)
    <3>1. InStep(t, up.called, up.args, {})  BY <1>3, <2>2 DEF ByCall, ShutBefore
    <3>2. Silent(t, v)  BY <1>3, SilentChatStop
    <3>3. u = v  BY <2>2
    <3> HIDE DEF u, v
    <3>4. InStep(v, up.called, up.args, {})  BY <3>1, <3>2, KeptSilent
    <3>5. Keyed(v, sent.called, sent.args, {})  BY <1>5, <3>4 DEF InStep
    <3> QED  BY <1>5, <2>2, <3>3, <3>5, LegsAre DEF LegCounts, ByCall, ShutBefore
  <2>3. CASE route \in PassThrough
    <3> DEFINE w == t.wire  g == route = "ClaudeOAuthPass"
    <3>1. Forwards(w, up) /\ w \in Seq(Ev)  BY <1>3, <2>3, MemFacts DEF LegCounts
    <3>2. ~t.gated  BY <1>3, <2>3 DEF LegSane, PassSane, PassFine
    <3>3. u = PassFrame(t, e, g, together)  BY <2>3, LegsAre DEF Forwarded
    <3>4. e \in Ev /\ e.ev = "shut"  BY <1>4, EventFacts
    <3>5. Forwards(Append(w, e), sent)
      <4>1. e = Shut(up.index)  OBVIOUS
      <4> HIDE DEF w, e
      <4> QED  BY <1>1, <1>4, <1>5, <1>6, <3>1, <4>1, ForwardsShuts
    <3>6. Guarded(t, e, g) = e  BY <3>4 DEF Guarded
    <3> HIDE DEF u, g, e
    <3>7. u.wire = Append(w, e)  BY <1>3, <3>2, <3>3, <3>4, <3>6, PassWrites
    <3> HIDE DEF w
    <3> QED  BY <2>3, <3>5, <3>7, LegsAre DEF LegCounts, ByCall
  <2> QED  BY <1>1, <2>1, <2>2, <2>3 DEF FromClaude
<1> HIDE DEF u
<1>9. route \notin FromResponses  BY <1>1, LegsAre DEF FromClaude, FromResponses
<1> QED  BY <1>1, <1>5, <1>7, <1>8, <1>9, FrameCounts

-----------------------------------------------------------------------------
\* Responses upstream, counted.

\* Responses upstream.
LEMMA ItemCounts ==
    ASSUME IInv, IInv', JInv, route \in FromResponses, NEW sent \in Sent, NEW u, Frame(sent, u),
           sent.reason = "none", Counted(sent), sent.over \subseteq sent.said \cap sent.called,
           Keyed(u, sent.called, sent.args, ShutBefore(route, sent))
    PROVE  JInv'
<1>1. LegCounts(route, u, sent)  BY LegsAre DEF LegCounts, FromResponses, ByCall
<1> QED  BY <1>1, FrameCounts

\* What a Responses frame finds.
LEMMA ItemFinds ==
    ASSUME IInv, JInv, route \in FromResponses, Running, up.reason = "none"
    PROVE  /\ up \in Sent /\ Counted(up) /\ t \in Mem /\ Veiled(t)
           /\ up.over \subseteq up.said \cap up.called
           /\ up.args \in [Call -> Nat] /\ up.called \in SUBSET Call /\ up.said \in SUBSET Call
           /\ up.over \in SUBSET Call
           /\ InStep(t, up.called, up.args, ShutBefore(route, up))
           /\ route = "ResponsesToClaude" => Claude(t, FALSE)
           /\ route = "ResponsesToChat" => Chat(t)
<1>1. /\ up \in Sent /\ Counted(up) /\ t \in Mem /\ Veiled(t) /\ LegSane(route, t, up)
      /\ route \in ByCall => InStep(t, up.called, up.args, ShutBefore(route, up))
  BY WhileCounted
<1>2. route \in ByCall  BY DEF FromResponses, ByCall
<1>3. up.over \subseteq up.said \cap up.called  BY DEF JInv
<1>4. /\ up.args \in [Call -> Nat] /\ up.called \in SUBSET Call /\ up.said \in SUBSET Call
      /\ up.over \in SUBSET Call
  BY <1>1, SentFacts
<1>5. /\ route = "ResponsesToClaude" => Claude(t, FALSE)
      /\ route = "ResponsesToChat" => Chat(t)
  BY <1>1 DEF LegSane, ResponsesChat
<1> QED  BY <1>1, <1>2, <1>3, <1>4, <1>5

\* Text and reasoning.
LEMMA ItemDeltaCounts == ASSUME IInv, IInv', JInv, NEW kind \in {"text", "think"}, ItemDelta(kind) PROVE JInv'
<1> DEFINE u == IF route = "ResponsesToClaude" THEN ResponsesToClaudeDelta(t, kind)
                ELSE ResponsesToChatDelta(t, kind)
<1>1. route \in FromResponses /\ Frame(up, u)  BY DEF ItemDelta
<1>2. Running /\ up.reason = "none"  BY <1>1 DEF Frame
<1>3. /\ up \in Sent /\ Counted(up) /\ t \in Mem /\ Veiled(t)
      /\ up.over \subseteq up.said \cap up.called
      /\ InStep(t, up.called, up.args, ShutBefore(route, up))
  BY <1>1, <1>2, ItemFinds
<1>4. Silent(t, ResponsesToClaudeDelta(t, kind))
  <2>1. Silent(t, Started(t))  BY <1>3, SilentStarted
  <2>2. Silent(Started(t), SayBlock(Started(t), kind))  BY <2>1, SilentSays DEF Silent
  <2> QED  BY <2>1, <2>2, SilentAgain DEF ResponsesToClaudeDelta
<1>5. Silent(t, ResponsesToChatDelta(t, kind))  BY <1>3, SilentDelta
<1>6. Silent(t, u)  BY <1>4, <1>5
<1> HIDE DEF u
<1>7. Keyed(u, up.called, up.args, ShutBefore(route, up))  BY <1>3, <1>6, KeptSilent DEF InStep
<1> QED  BY <1>1, <1>2, <1>3, <1>7, ItemCounts

\* Encrypted reasoning.
LEMMA SealedReasoningCounts == ASSUME IInv, IInv', JInv, SealedReasoning PROVE JInv'
<1> DEFINE u == ResponsesToClaudeSealed(t)
<1>1. route \in FromResponses /\ Frame(up, u)  BY DEF SealedReasoning, FromResponses
<1>2. Running /\ up.reason = "none"  BY <1>1 DEF Frame
<1>3. /\ up \in Sent /\ Counted(up) /\ t \in Mem /\ Veiled(t)
      /\ up.over \subseteq up.said \cap up.called
      /\ InStep(t, up.called, up.args, ShutBefore(route, up))
  BY <1>1, <1>2, ItemFinds
<1>4. Silent(t, u)  BY <1>3, SilentSeals
<1> HIDE DEF u
<1>5. Keyed(u, up.called, up.args, ShutBefore(route, up))  BY <1>3, <1>4, KeptSilent DEF InStep
<1> QED  BY <1>1, <1>2, <1>3, <1>5, ItemCounts

\* A function call is added.
LEMMA CallAddedCounts == ASSUME IInv, IInv', JInv, NEW c \in Call, CallAdded(c) PROVE JInv'
<1> DEFINE k == up.called \union {c}
           sent == [up EXCEPT !.called = k]
           u == IF route = "ResponsesToClaude" THEN ResponsesToClaudeCall(t, c)
                ELSE ResponsesToChatCall(t, c)
<1>1. route \in FromResponses /\ Frame(sent, u) /\ c = 1 + Cardinality(up.called)
  <2>1. sent = [up EXCEPT !.called = @ \union {c}]  OBVIOUS
  <2> HIDE DEF sent, u
  <2> QED  BY <2>1 DEF CallAdded, u, sent
<1>2. Running /\ up.reason = "none"  BY <1>1 DEF Frame
<1>3. /\ up \in Sent /\ Counted(up) /\ t \in Mem /\ Veiled(t)
      /\ up.over \subseteq up.said \cap up.called /\ up.called \in SUBSET Call
      /\ InStep(t, up.called, up.args, ShutBefore(route, up))
      /\ route = "ResponsesToClaude" => Claude(t, FALSE)
      /\ route = "ResponsesToChat" => Chat(t)
  BY <1>1, <1>2, ItemFinds
<1>4. c \notin up.called /\ up.args[c] = 0 /\ k = 1 .. Cardinality(k)  BY <1>1, <1>3, CallCounted
<1>5. k \in SUBSET Call  BY <1>3
<1>6. InStep(u, k, up.args, ShutBefore(route, up))
  <2>1. CASE route = "ResponsesToClaude"
    <3> DEFINE v == Started(t)  w == StartTool(v, c)  o == up.over  a == up.args
    <3>1. Silent(t, v) /\ Claude(v, FALSE) /\ v.begun  BY <1>3, <2>1, SilentStarted, ClaudeStarts
    <3>2. InStep(v, up.called, a, o)  BY <1>3, <2>1, <3>1, KeptSilent DEF ShutBefore
    <3>3. c \notin o  BY <1>3, <1>4
    <3>4. a[c] = 0  BY <1>4
    <3> HIDE DEF v, o, a
    <3>5. InStep(w, k, a, o)  BY <3>1, <3>2, <3>3, <3>4, StepStartsTool
    <3>6. u = w  BY <2>1 DEF ResponsesToClaudeCall, v
    <3> QED  BY <2>1, <3>5, <3>6 DEF ShutBefore, o, a
  <2>2. CASE route = "ResponsesToChat"
    <3>1. ~HasTool(t, c)  BY <1>3, <1>4, KeyedFinds DEF InStep
    <3>2. u = StartCall(t, c)  BY <2>2, <3>1 DEF ResponsesToChatCall
    <3>3. Chat(t) /\ c \in Call \ up.called  BY <1>3, <1>4, <2>2
    <3> HIDE DEF u, k
    <3>4. OpenedAs(StartCall(t, c), up.called, up.args, ShutBefore(route, up), c)
      BY <1>3, <1>4, <3>3, StepStartsCall
    <3> QED  BY <3>2, <3>4 DEF OpenedAs, k
  <2> QED  BY <1>1, <2>1, <2>2 DEF FromResponses
<1> HIDE DEF k, u
<1>7. /\ sent \in Sent /\ sent.reason = "none" /\ sent.called = k /\ sent.args = up.args
      /\ sent.over = up.over /\ sent.said = up.said
  BY <1>2, <1>3, <1>5 DEF Sent
<1> HIDE DEF sent
<1>8. sent.over \subseteq sent.said \cap sent.called  BY <1>3, <1>7 DEF k
<1>9. Counted(sent)
  <2>1. \A d \in Call \ k : up.args[d] = 0  BY <1>3 DEF Counted, k
  <2> QED  BY <1>4, <1>7, <2>1 DEF Counted
<1>10. Keyed(u, sent.called, sent.args, ShutBefore(route, sent))
  BY <1>6, <1>7 DEF InStep, ShutBefore
<1> QED  BY <1>1, <1>7, <1>8, <1>9, <1>10, ItemCounts

\* It gets arguments.
LEMMA CallDeltaCounts == ASSUME IInv, IInv', JInv, NEW c \in Call, CallDelta(c) PROVE JInv'
<1> DEFINE a == [up.args EXCEPT ![c] = @ + 1]
           sent == [up EXCEPT !.args = a]
           u == IF route = "ResponsesToClaude" THEN ResponsesToClaudeArgs(t, c)
                ELSE ResponsesToChatArgs(t, c)
<1>1. route \in FromResponses /\ Frame(sent, u) /\ c \in up.called \ up.said
  <2>1. sent = [up EXCEPT !.args[c] = @ + 1]  OBVIOUS
  <2> HIDE DEF sent, u
  <2> QED  BY <2>1 DEF CallDelta, u, sent
<1>2. Running /\ up.reason = "none"  BY <1>1 DEF Frame
<1>3. /\ up \in Sent /\ Counted(up) /\ t \in Mem /\ Veiled(t)
      /\ up.over \subseteq up.said \cap up.called /\ up.args \in [Call -> Nat]
      /\ InStep(t, up.called, up.args, ShutBefore(route, up))
  BY <1>1, <1>2, ItemFinds
<1>4. Grown(up.args, a, c, 1)  BY <1>3, GrownFacts
<1> HIDE DEF a
<1>5. InStep(u, up.called, a, ShutBefore(route, up))
  <2> DEFINE o == ShutBefore(route, up)
  <2>1. CASE route = "ResponsesToClaude"
    <3>1. c \notin o /\ c \in up.called /\ InStep(t, up.called, up.args, o)
      BY <1>1, <1>3 DEF ShutBefore
    <3>2. u = ToolArgs(t, c, 1)  BY <2>1 DEF ResponsesToClaudeArgs
    <3> HIDE DEF u, o
    <3>3. InStep(ToolArgs(t, c, 1), up.called, a, o)  BY <1>4, <3>1, StepToolArgs
    <3> QED  BY <3>2, <3>3 DEF o
  <2>2. CASE route = "ResponsesToChat"
    <3> DEFINE i == ToolAt(t, c)  v == CallArgs(t, i, 1)
    <3>1. HasTool(t, c) /\ i \in DOMAIN t.tools /\ t.tools[i].key = c
      BY <1>1, <1>3, KeyedFinds DEF InStep
    <3>2. u = v  BY <2>2, <3>1 DEF ResponsesToChatArgs
    <3> HIDE DEF u, i
    <3>3. InStep(v, up.called, a, o)
      <4>1. Grown(up.args, a, t.tools[i].key, 1)  BY <1>4, <3>1
      <4>2. InStep(t, up.called, up.args, o)  BY <1>3
      <4> HIDE DEF o
      <4> QED  BY <3>1, <4>1, <4>2, KeyedArgs
    <3> QED  BY <3>2, <3>3
  <2> QED  BY <1>1, <2>1, <2>2 DEF FromResponses
<1> HIDE DEF u
<1>6. /\ sent \in Sent /\ sent.reason = "none" /\ sent.called = up.called /\ sent.args = a
      /\ sent.over = up.over /\ sent.said = up.said
  <2>1. a \in [Call -> Nat]  BY <1>4 DEF Grown
  <2> QED  BY <1>2, <1>3, <2>1 DEF Sent
<1> HIDE DEF sent
<1>7. sent.over \subseteq sent.said \cap sent.called  BY <1>3, <1>6
<1>8. Counted(sent)  BY <1>1, <1>3, <1>4, <1>6 DEF Counted, Grown
<1>9. Keyed(u, sent.called, sent.args, ShutBefore(route, sent))
  BY <1>5, <1>6 DEF InStep, ShutBefore
<1> QED  BY <1>1, <1>6, <1>7, <1>8, <1>9, ItemCounts

\* The arguments repeated whole: those counted so far, or all of a call without deltas.
LEMMA CompleteFacts ==
    ASSUME up.args \in [Call -> Nat], NEW c \in Call, NEW all, Complete(c, all)
    PROVE  /\ all \in Nat /\ (all = up.args[c] \/ up.args[c] = 0)
           /\ Grown(up.args, [up.args EXCEPT ![c] = all], c, all - up.args[c])
<1>1. all \in Nat /\ (all = up.args[c] \/ up.args[c] = 0)  BY DEF Complete
<1>2. Grown(up.args, [up.args EXCEPT ![c] = all], c, all - up.args[c])  BY <1>1, GrownFacts
<1> QED  BY <1>1, <1>2

\* Its arguments are repeated whole.
LEMMA CallSaidCounts ==
    ASSUME IInv, IInv', JInv, NEW c \in Call, NEW all, CallSaid(c, all) PROVE JInv'
<1> DEFINE a == [up.args EXCEPT ![c] = all]
           k == up.said \union {c}
           sent == [up EXCEPT !.said = k, !.args = a]
           u == IF route = "ResponsesToClaude" THEN ResponsesToClaudeSaid(t, c, all)
                ELSE ResponsesToChatDone(t, c, all)
<1>1. route \in FromResponses /\ Frame(sent, u) /\ c \in up.called \ up.said /\ Complete(c, all)
  <2>1. sent = [up EXCEPT !.said = @ \union {c}, !.args[c] = all]  OBVIOUS
  <2> HIDE DEF sent, u
  <2> QED  BY <2>1 DEF CallSaid, u, sent
<1>2. Running /\ up.reason = "none"  BY <1>1 DEF Frame
<1>3. /\ up \in Sent /\ Counted(up) /\ t \in Mem /\ Veiled(t)
      /\ up.over \subseteq up.said \cap up.called /\ up.args \in [Call -> Nat]
      /\ up.said \in SUBSET Call
      /\ InStep(t, up.called, up.args, ShutBefore(route, up))
  BY <1>1, <1>2, ItemFinds
<1>4. /\ all \in Nat /\ (all = up.args[c] \/ up.args[c] = 0)
      /\ Grown(up.args, a, c, all - up.args[c])
  BY <1>1, <1>3, CompleteFacts
<1> HIDE DEF a
<1>5. InStep(u, up.called, a, ShutBefore(route, up))
  <2> DEFINE o == ShutBefore(route, up)
  <2>1. CASE route = "ResponsesToClaude"
    <3>1. c \notin o /\ c \in up.called /\ InStep(t, up.called, up.args, o)
      BY <1>1, <1>3, <2>1 DEF ShutBefore
    <3>2. u = ResponsesToClaudeSaid(t, c, all)  BY <2>1
    <3> HIDE DEF u, o
    <3>3. InStep(ResponsesToClaudeSaid(t, c, all), up.called, a, o)  BY <1>4, <3>1, StepSaid
    <3> QED  BY <3>2, <3>3 DEF o
  <2>2. CASE route = "ResponsesToChat"
    <3>1. c \in up.called /\ InStep(t, up.called, up.args, o)  BY <1>1, <1>3
    <3>2. u = ResponsesToChatDone(t, c, all)  BY <2>2
    <3> HIDE DEF u, o
    <3>3. InStep(ResponsesToChatDone(t, c, all), up.called, a, o)  BY <1>4, <3>1, StepChatDone
    <3> QED  BY <3>2, <3>3 DEF o
  <2> QED  BY <1>1, <2>1, <2>2 DEF FromResponses
<1> HIDE DEF u
<1>6. k \in SUBSET Call /\ up.over \subseteq k \cap up.called  BY <1>3
<1> HIDE DEF k
<1>7. /\ sent \in Sent /\ sent.reason = "none" /\ sent.called = up.called /\ sent.args = a
      /\ sent.over = up.over /\ sent.said = k
  <2>1. a \in [Call -> Nat]  BY <1>4 DEF Grown
  <2> QED  BY <1>2, <1>3, <1>6, <2>1 DEF Sent
<1> HIDE DEF sent
<1>8. sent.over \subseteq sent.said \cap sent.called  BY <1>6, <1>7
<1>9. Counted(sent)  BY <1>1, <1>3, <1>4, <1>7 DEF Counted, Grown
<1>10. Keyed(u, sent.called, sent.args, ShutBefore(route, sent))
  BY <1>5, <1>7 DEF InStep, ShutBefore
<1> QED  BY <1>1, <1>7, <1>8, <1>9, <1>10, ItemCounts

\* Its item is done.
LEMMA CallDoneCounts ==
    ASSUME IInv, IInv', JInv, NEW c \in Call, NEW all, CallDone(c, all) PROVE JInv'
<1> DEFINE a == [up.args EXCEPT ![c] = all]
           k == up.said \union {c}
           x == up.over \union {c}
           sent == [up EXCEPT !.said = k, !.over = x, !.args = a]
           u == IF route = "ResponsesToClaude" THEN ResponsesToClaudeDone(t, c, all)
                ELSE ResponsesToChatDone(t, c, all)
<1>1. route \in FromResponses /\ Frame(sent, u) /\ c \in up.called \ up.over /\ Complete(c, all)
  <2>1. sent = [up EXCEPT !.said = @ \union {c}, !.over = @ \union {c}, !.args[c] = all]  OBVIOUS
  <2> HIDE DEF sent, u
  <2> QED  BY <2>1 DEF CallDone, u, sent
<1>2. Running /\ up.reason = "none"  BY <1>1 DEF Frame
<1>3. /\ up \in Sent /\ Counted(up) /\ t \in Mem /\ Veiled(t)
      /\ up.over \subseteq up.said \cap up.called /\ up.args \in [Call -> Nat]
      /\ up.said \in SUBSET Call /\ up.over \in SUBSET Call
      /\ InStep(t, up.called, up.args, ShutBefore(route, up))
  BY <1>1, <1>2, ItemFinds
<1>4. /\ all \in Nat /\ (all = up.args[c] \/ up.args[c] = 0)
      /\ Grown(up.args, a, c, all - up.args[c])
  BY <1>1, <1>3, CompleteFacts
<1> HIDE DEF a
<1>5. /\ route = "ResponsesToClaude" => InStep(u, up.called, a, x)
      /\ route = "ResponsesToChat" => InStep(u, up.called, a, {})
  <2>1. ASSUME route = "ResponsesToClaude" PROVE InStep(u, up.called, a, x)
    <3> DEFINE o == up.over
    <3>1. c \notin o /\ c \in up.called /\ InStep(t, up.called, up.args, o)
      BY <1>1, <1>3, <2>1 DEF ShutBefore
    <3>2. u = ResponsesToClaudeDone(t, c, all)  BY <2>1
    <3> HIDE DEF u, o
    <3>3. InStep(ResponsesToClaudeDone(t, c, all), up.called, a, o \union {c})  BY <1>4, <3>1, StepDone
    <3> QED  BY <3>2, <3>3 DEF o
  <2>2. ASSUME route = "ResponsesToChat" PROVE InStep(u, up.called, a, {})
    <3> DEFINE o == {}
    <3>1. c \in up.called /\ InStep(t, up.called, up.args, o)  BY <1>1, <1>3, <2>2 DEF ShutBefore
    <3>2. u = ResponsesToChatDone(t, c, all)  BY <2>2
    <3> HIDE DEF u, o
    <3>3. InStep(ResponsesToChatDone(t, c, all), up.called, a, o)  BY <1>4, <3>1, StepChatDone
    <3> QED  BY <3>2, <3>3 DEF o
  <2> QED  BY <2>1, <2>2
<1> HIDE DEF u
<1>6. k \in SUBSET Call /\ x \in SUBSET Call /\ x \subseteq k \cap up.called  BY <1>1, <1>3
<1> HIDE DEF k, x
<1>7. /\ sent \in Sent /\ sent.reason = "none" /\ sent.called = up.called /\ sent.args = a
      /\ sent.over = x /\ sent.said = k
  <2>1. a \in [Call -> Nat]  BY <1>4 DEF Grown
  <2> QED  BY <1>2, <1>3, <1>6, <2>1 DEF Sent
<1> HIDE DEF sent
<1>8. sent.over \subseteq sent.said \cap sent.called  BY <1>6, <1>7
<1>9. Counted(sent)  BY <1>1, <1>3, <1>4, <1>7 DEF Counted, Grown
<1>10. Keyed(u, sent.called, sent.args, ShutBefore(route, sent))
  BY <1>1, <1>5, <1>7 DEF InStep, ShutBefore, FromResponses
<1> QED  BY <1>1, <1>7, <1>8, <1>9, <1>10, ItemCounts

\* The terminal event goes over calls that have all their arguments: it adds nothing.
LEMMA CompletedAlready ==
    ASSUME IInv, JInv, Running, up.reason = "none", route = "ResponsesToChat" PROVE CompletedCalls = t
<1> DEFINE N == Cardinality(up.called)
           F == CHOOSE f : f = [c \in 0 .. N |->
                   IF c = 0 THEN t ELSE ResponsesToChatDone(f[c - 1], c, up.args[c])]
<1>1. CompletedCalls = F[N]  BY DEF CompletedCalls
<1>2. /\ Counted(up) /\ up.args \in [Call -> Nat] /\ up.called \in SUBSET Call
      /\ InStep(t, up.called, up.args, {})
  <2>1. route \in FromResponses  BY DEF FromResponses
  <2> QED  BY <2>1, ItemFinds DEF ShutBefore
<1>3. N \in Nat /\ up.called = 1 .. N
  <2>1. N \in 0 .. Cardinality(Call) /\ Cardinality(Call) \in Nat  BY <1>2, CallNumbers
  <2> QED  BY <1>2, <2>1 DEF Counted
<1> HIDE DEF N
<1>4. ASSUME NEW c \in 1 .. N PROVE ResponsesToChatDone(t, c, up.args[c]) = t
  <2> DEFINE a == up.args  all == a[c]  k == up.called  o == {}
  <2>1. c \in Call /\ c \in k  BY <1>2, <1>3
  <2>2. all \in Nat /\ all - a[c] = 0 /\ all = a[c]  BY <1>2, <2>1
  <2>3. Grown(a, a, c, all - a[c])  BY <1>2, <2>1, <2>2 DEF Grown
  <2>4. InStep(t, k, a, o)  BY <1>2
  <2> HIDE DEF a, all, k, o
  <2>5. ResponsesToChatDone(t, c, all) = t  BY <2>1, <2>2, <2>3, <2>4, StepChatDone
  <2> QED  BY <2>5 DEF all, a
<1>5. F = [c \in 0 .. N |-> IF c = 0 THEN t ELSE ResponsesToChatDone(F[c - 1], c, up.args[c])]
  <2> DEFINE g == [c \in 0 .. N |-> t]
             G == [c \in 0 .. N |-> IF c = 0 THEN t ELSE ResponsesToChatDone(g[c - 1], c, up.args[c])]
  <2>1. ASSUME NEW c \in 0 .. N
        PROVE  (IF c = 0 THEN t ELSE ResponsesToChatDone(g[c - 1], c, up.args[c])) = t
    <3>1. CASE c = 0  BY <3>1
    <3>2. CASE c # 0
      <4>1. c \in 1 .. N /\ c - 1 \in 0 .. N  BY <1>3, <3>2
      <4>2. g[c - 1] = t  BY <4>1
      <4> HIDE DEF g
      <4> QED  BY <1>4, <3>2, <4>1, <4>2
    <3> QED  BY <3>1, <3>2
  <2>2. g = G
    <3> HIDE DEF g
    <3>1. \A c \in 0 .. N : G[c] = t  BY <2>1
    <3> QED  BY <3>1 DEF g
  <2> HIDE DEF g
  <2> QED  BY <2>2
<1> HIDE DEF F
<1> DEFINE S == {n \in Nat : n <= N => F[n] = t}
<1>6. 0 \in S
  <2>1. 0 \in 0 .. N  BY <1>3
  <2> QED  BY <1>5, <2>1
<1>7. ASSUME NEW n \in S PROVE n + 1 \in S
  <2> SUFFICES ASSUME n + 1 <= N PROVE F[n + 1] = t  OBVIOUS
  <2>1. n + 1 \in 0 .. N /\ n + 1 \in 1 .. N /\ n + 1 # 0 /\ (n + 1) - 1 = n  BY <1>3
  <2>2. F[n] = t  BY <1>3
  <2>3. F[n + 1] = ResponsesToChatDone(F[n], n + 1, up.args[n + 1])  BY <1>5, <2>1
  <2> QED  BY <1>4, <2>1, <2>2, <2>3
<1>8. \A n \in S : n \in Nat  OBVIOUS
<1> HIDE DEF S
<1>9. N \in S  BY <1>3, <1>6, <1>7, <1>8, Inductive
<1> QED  BY <1>1, <1>3, <1>9 DEF S

\* The closing frame, forwarded: what was opened is shut and told whole.
LEMMA WholeForwards ==
    ASSUME NEW m, NEW sent, NEW g, PassSane(m, sent, g), Forwards(m.wire, sent), sent.block = "none",
           sent.index \in Nat, NEW together, NEW after, after.index = sent.index,
           after.block = "none", after.called = sent.called, after.args = sent.args,
           NEW u, u = PassFrame(m, Whole, g, together)
    PROVE  /\ Forwards(u.wire, after) /\ OpenBlocks(u.wire) = {}
           /\ Tallied(u.wire, after.called, after.args)
<1> DEFINE e == Guarded(m, Whole, g)
<1>1. m \in Mem /\ ~m.gated  BY DEF PassSane, PassFine
<1>2. m.wire \in Seq(Ev)  BY <1>1, MemFacts
<1>3. Whole \in Ev  BY EventFacts
<1>4. u.wire = Append(m.wire, e) /\ e \in Ev  BY <1>1, <1>3, PassWrites
<1>5. e \in {Whole, Fail}  BY DEF Guarded
<1>6. e.ev \notin {"open", "shut"} /\ e.kind # "tool"  BY <1>5, EventFacts, QuietKinds
<1> DEFINE w == m.wire
<1> HIDE DEF e, w
<1>7. sent.index \in Int /\ after.index \in Int /\ after.index >= sent.index  OBVIOUS
<1>8. Forwards(Append(w, e), after)  BY <1>2, <1>4, <1>6, <1>7, ForwardsMarks DEF w
<1>9. Forwards(u.wire, after)  BY <1>4, <1>8 DEF w
<1> QED  BY <1>9 DEF Forwards

\* The closing frame.
LEMMA ClosingFrameCounts ==
    ASSUME IInv, JInv, NEW reason \in Reasons, NEW together \in BOOLEAN, ClosingFrame(reason, together)
    PROVE  JInv'
<1> DEFINE u == CASE route \in PassThrough     -> Forwarded(Whole, together)
                  [] route = "ChatToGemini"    -> ChatToGeminiReason(t)
                  [] route = "ResponsesToChat" -> CompletedCalls
                  [] OTHER -> t
           sent == [up EXCEPT !.reason = reason]
<1>1. /\ Running /\ up.reason = "none" /\ up' = sent /\ t' = u /\ route' = route
      /\ up.block # "none" => route = "ClaudeToResponses"
  BY DEF ClosingFrame
<1>2. /\ up \in Sent /\ route \in Legs /\ Counted(up) /\ LegCounts(route, t, up)
      /\ LegSane(route, t, up)
  BY <1>1, WhileCounted
<1>3. /\ sent.reason # "none" /\ sent.called = up.called /\ sent.args = up.args
      /\ sent.over = up.over /\ sent.said = up.said
      /\ sent.block = up.block /\ sent.index = up.index /\ sent.call = up.call
  BY <1>2 DEF Sent, Reasons
<1> HIDE DEF sent
<1>4. LegCounts(route, u, sent) /\ WholeIs(route, u, sent)
  <2>1. CASE route \in PassThrough
    <3> DEFINE g == route = "ClaudeOAuthPass"
    <3>1. u = PassFrame(t, Whole, g, together)
      <4>1. u = Forwarded(Whole, together)  BY <2>1, LegsAre
      <4> QED  BY <4>1 DEF Forwarded
    <3>2. PassSane(t, up, g) /\ Forwards(t.wire, up)  BY <1>2, <2>1 DEF LegSane, LegCounts
    <3>3. up.block = "none" /\ up.index \in Nat
      <4>1. route # "ClaudeToResponses"  BY <2>1, LegsAre
      <4> QED  BY <1>1, <1>2, <4>1, SentFacts
    <3> HIDE DEF u, g
    <3>4. /\ Forwards(u.wire, sent) /\ OpenBlocks(u.wire) = {}
          /\ Tallied(u.wire, sent.called, sent.args)
      BY <1>3, <3>1, <3>2, <3>3, WholeForwards
    <3>5. LegCounts(route, u, sent)  BY <2>1, <3>4, LegsAre DEF LegCounts, ByCall
    <3> QED  BY <1>3, <3>4, <3>5 DEF WholeIs
  <2>2. CASE route = "ChatToGemini"
    <3>1. LegCounts(route, u, sent)  BY <2>2, LegsAre DEF LegCounts, ByCall
    <3> HIDE DEF u
    <3> QED  BY <1>3, <2>2, <3>1 DEF WholeIs
  <2>3. CASE route \notin {"ChatToGemini"} \union PassThrough
    <3>1. u = t
      <4>1. CASE route = "ResponsesToChat"
        <5>1. u = CompletedCalls  BY <2>3, <4>1
        <5> HIDE DEF u
        <5> QED  BY <1>1, <4>1, <5>1, CompletedAlready
      <4>2. CASE route # "ResponsesToChat"  BY <2>3, <4>2
      <4> QED  BY <4>1, <4>2
    <3> HIDE DEF u
    <3>2. LegCounts(route, t, sent)  BY <1>2, <1>3, CountsAlike
    <3>3. ~Says(t.wire, "whole")  BY <1>2, LegCalm
    <3> QED  BY <3>1, <3>2, <3>3 DEF WholeIs
  <2> QED  BY <2>1, <2>2, <2>3
<1> HIDE DEF u
<1>5. Counted(sent) /\ (route \in FromResponses => sent.over \subseteq sent.said \cap sent.called)
  BY <1>2, <1>3 DEF Counted, JInv
<1>6. /\ Counted(up') /\ LegCounts(route', t', up') /\ WholeIs(route', t', up')
      /\ route' \in FromResponses => up'.over \subseteq up'.said \cap up'.called
  BY <1>1, <1>4, <1>5
<1> QED  BY <1>6 DEF JInv

-----------------------------------------------------------------------------
\* The ends.  A reply that is not finished owes nothing.

\* A reply that was never finished.
Unfinished(m) == m \in Mem /\ Veiled(m) /\ ~Says(Written(m), "whole")

\* Of such a reply nothing is asked, whatever but the end is put behind it.
LEMMA UnfinishedFacts ==
    ASSUME NEW m, Unfinished(m)
    PROVE  /\ \A e \in Ev : e.ev # "whole" => Unfinished(Put(m, <<e>>))
           /\ ~Says(m.wire, "whole")
           /\ \A r, sent : WholeIs(r, m, sent)
<1>1. m \in Mem /\ Veiled(m) /\ Written(m) \in Seq(Ev) /\ ~Says(Written(m), "whole")
  <2>1. m \in Mem  BY DEF Unfinished
  <2> QED  BY <2>1, MemFacts DEF Unfinished
<1>2. ASSUME NEW e \in Ev, e.ev # "whole" PROVE Unfinished(Put(m, <<e>>))
  <2> DEFINE u == Put(m, <<e>>)  w == Written(m)
  <2>1. u \in Mem /\ Veiled(u) /\ Written(u) = Append(w, e)  BY <1>1, PutOne
  <2> HIDE DEF u, w
  <2>2. ~Says(Append(w, e), "whole")
    <3>1. /\ DOMAIN w = 1 .. Len(w) /\ DOMAIN Append(w, e) = 1 .. Len(w) + 1 /\ Len(w) \in Nat
          /\ \A i \in 1 .. Len(w) : Append(w, e)[i] = w[i]
          /\ Append(w, e)[Len(w) + 1] = e
      BY <1>1, AppendFacts DEF w
    <3>2. ~Says(w, "whole")  BY <1>1 DEF w
    <3>3. ASSUME NEW i \in DOMAIN Append(w, e) PROVE Append(w, e)[i].ev # "whole"
      <4>1. CASE i \in 1 .. Len(w)  BY <3>1, <3>2, <4>1 DEF Says
      <4>2. CASE i = Len(w) + 1  BY <1>2, <3>1, <4>2
      <4> QED  BY <3>1, <4>1, <4>2
    <3> QED  BY <3>3 DEF Says
  <2> QED  BY <2>1, <2>2 DEF Unfinished, u
<1>3. ~Says(m.wire, "whole")
  <2>1. m.wire = IF m.gated THEN <<>> ELSE Written(m)  BY <1>1, ShownIsWritten
  <2> QED  BY <1>1, <2>1, CalmFacts
<1> QED  BY <1>2, <1>3 DEF WholeIs

\* A reply in the middle is one.
LEMMA SaneIsUnfinished == ASSUME NEW m, NEW grows, Sane(m, grows) PROVE Unfinished(m)
BY DEF Sane, Calm, Says, Ends, Unfinished

\* The reply fails, or is written as no event.
LEMMA FailIsUnfinished ==
    ASSUME NEW m, NEW grows, Sane(m, grows), NEW e \in {Begin, Fail, Raw}
    PROVE  Unfinished(Put(m, <<e>>))
<1>1. Unfinished(m)  BY SaneIsUnfinished
<1>2. e \in Ev /\ e.ev # "whole"  BY EventFacts
<1> QED  BY <1>1, <1>2, UnfinishedFacts

\* A Claude answer cut short or refused is one.
LEMMA ClaudeUnfinished ==
    ASSUME NEW m, NEW chat, Claude(m, chat)
    PROVE  /\ \A order : Listing(m, order) => Unfinished(ClaudeCut(m, order).t)
           /\ Unfinished(ChatToClaudeError(m).t) /\ Unfinished(ResponsesToClaudeError(m).t)
<1>1. Sane(m, TRUE)  BY DEF Claude
<1>2. ASSUME NEW order, Listing(m, order) PROVE Unfinished(ClaudeCut(m, order).t)
  <2>1. CASE ~m.begun
    <3>1. ClaudeCut(m, order).t = m  BY <2>1 DEF ClaudeCut, Ended
    <3> QED  BY <1>1, <3>1, SaneIsUnfinished
  <2>2. CASE m.begun
    <3> DEFINE v == ShutTools(m, order)  w == CloseBoth(v)  u == Put(w, <<Fail, Over>>)
    <3>1. ClaudeCut(m, order).t = u  BY <2>2 DEF ClaudeCut, Ended
    <3>2. Sane(v, TRUE) /\ v.begun /\ v.open = m.open  BY <1>1, <1>2, <2>2, SaneShutTools
    <3> HIDE DEF v
    <3>3. Claude(v, FALSE)  BY <3>2 DEF Claude
    <3>4. Claude(w, FALSE)  BY <3>2, <3>3, ClaudeClosesBoth
    <3> HIDE DEF w
    <3>5. Sane(w, TRUE)  BY <3>4 DEF Claude
    <3>6. Fine(w, TRUE) /\ Calm(Written(w)) /\ Written(w) \in Seq(Ev)
      <4>1. w \in Mem /\ Calm(Written(w))  BY <3>5 DEF Sane
      <4> QED  BY <3>5, <4>1, SaneIsFine, MemFacts
    <3>7. Fine(u, TRUE) /\ Written(u) = Append(Append(Written(w), Fail), Over)  BY <3>6, FineCut
    <3> HIDE DEF u
    <3>8. ~Says(Written(u), "whole")
      <4> DEFINE x == Written(w)  y == Append(x, Fail)  z == Append(y, Over)
      <4>1. Fail \in Ev /\ Over \in Ev /\ Fail.ev # "whole" /\ Over.ev # "whole"  BY EventFacts
      <4>2. x \in Seq(Ev) /\ \A i \in DOMAIN x : x[i].ev # "whole"  BY <3>6 DEF Calm, Ends
      <4> HIDE DEF x
      <4>3. y \in Seq(Ev) /\ \A i \in DOMAIN y : y[i].ev # "whole"
        <5>1. /\ y \in Seq(Ev) /\ Len(x) \in Nat /\ DOMAIN x = 1 .. Len(x) /\ DOMAIN y = 1 .. Len(x) + 1
              /\ \A i \in 1 .. Len(x) : y[i] = x[i]
              /\ y[Len(x) + 1] = Fail
          BY <4>1, <4>2, AppendFacts
        <5> HIDE DEF y
        <5> QED  BY <4>1, <4>2, <5>1
      <4> HIDE DEF y
      <4>4. \A i \in DOMAIN z : z[i].ev # "whole"
        <5>1. /\ Len(y) \in Nat /\ DOMAIN y = 1 .. Len(y) /\ DOMAIN z = 1 .. Len(y) + 1
              /\ \A i \in 1 .. Len(y) : z[i] = y[i]
              /\ z[Len(y) + 1] = Over
          BY <4>1, <4>3, AppendFacts
        <5> HIDE DEF z
        <5> QED  BY <4>1, <4>3, <5>1
      <4>5. Written(u) = z  BY <3>7 DEF x, y
      <4> HIDE DEF z
      <4> QED  BY <4>4, <4>5 DEF Says
    <3> QED  BY <3>1, <3>7, <3>8 DEF Fine, Unfinished
  <2> QED  BY <2>1, <2>2
<1>3. Unfinished(Put(m, <<Fail>>))  BY <1>1, FailIsUnfinished
<1>4. Unfinished(Put(Started(m), <<Fail>>))
  <2>1. Sane(Started(m), TRUE)  BY <1>1, SaneStarted
  <2> QED  BY <2>1, FailIsUnfinished
<1>5. /\ ChatToClaudeError(m).t = Put(m, <<Fail>>)
      /\ ResponsesToClaudeError(m).t = Put(Started(m), <<Fail>>)
  BY DEF ChatToClaudeError, ResponsesToClaudeError, Ended
<1> QED  BY <1>2, <1>3, <1>4, <1>5

\* So is a Responses answer from Claude.
LEMMA GatedUnfinished ==
    ASSUME NEW m, Gated(m)
    PROVE  /\ \A order : Listing(m, order) => Unfinished(ClaudeToResponsesCut(m, order).t)
           /\ Unfinished(ClaudeToResponsesError(m).t)
<1>1. Sane(m, TRUE)  BY DEF Gated, Lidded
<1>2. ASSUME NEW order, Listing(m, order) PROVE Unfinished(ClaudeToResponsesCut(m, order).t)
  <2> DEFINE v == ShutTools(m, order)
  <2>1. ClaudeToResponsesCut(m, order).t = IF m.gated THEN m ELSE Put(v, <<Fail>>)
    BY DEF ClaudeToResponsesCut, Ended
  <2>2. Sane(v, TRUE)  BY <1>1, <1>2, SaneShutTools
  <2> HIDE DEF v
  <2>3. Unfinished(m) /\ Unfinished(Put(v, <<Fail>>))
    BY <1>1, <2>2, SaneIsUnfinished, FailIsUnfinished
  <2> QED  BY <2>1, <2>3
<1>3. Unfinished(ClaudeToResponsesError(m).t)
  <2> DEFINE v == Unveil(Started(m))
  <2>1. ClaudeToResponsesError(m).t = Put(v, <<Fail>>)  BY DEF ClaudeToResponsesError, Ended
  <2>2. Sane(v, TRUE)
    <3>1. Lidded(Started(m))  BY GatedStarts DEF Gated
    <3>2. Lidded(v)  BY <3>1, LiddedOpens
    <3> QED  BY <3>2 DEF Lidded
  <2> HIDE DEF v
  <2> QED  BY <2>1, <2>2, FailIsUnfinished
<1> QED  BY <1>2, <1>3

\* The converters that write Chat chunks or Gemini candidates, and the one from Chat to
\* Responses, fail by one event.
LEMMA OthersUnfinished ==
    ASSUME NEW m, NEW grows, Sane(m, grows)
    PROVE  /\ Unfinished(ChatToResponsesCut(m).t) /\ Unfinished(ChatToResponsesError(m).t)
           /\ Unfinished(ClaudeToChatCut(m).t) /\ Unfinished(ClaudeToChatError(m).t)
           /\ Unfinished(ResponsesToChatCut(m).t) /\ Unfinished(ResponsesToChatError(m).t)
           /\ Unfinished(ChatToGeminiFinish(m).t) /\ Unfinished(m)
<1>1. Unfinished(m)  BY SaneIsUnfinished
<1>2. Unfinished(Put(m, <<Fail>>)) /\ Unfinished(Put(m, <<Raw>>)) /\ Unfinished(Put(m, <<Begin>>))
  BY FailIsUnfinished
<1>3. /\ ChatToResponsesCut(m).t \in {m, Put(m, <<Fail>>)}
      /\ ChatToResponsesError(m).t = Put(m, <<Fail>>)
      /\ ClaudeToChatCut(m).t \in {m, Put(m, <<Fail>>)}
      /\ ClaudeToChatError(m).t = Put(m, <<Fail>>)
      /\ ResponsesToChatCut(m).t \in {m, Put(m, <<Fail>>)}
      /\ ResponsesToChatError(m).t = Put(m, <<Raw>>)
      /\ ChatToGeminiFinish(m).t \in {m, Put(m, <<Begin>>)}
  BY DEF ChatToResponsesCut, ChatToResponsesError, ClaudeToChatCut, ClaudeToChatError,
         ResponsesToChatCut, ResponsesToChatError, ChatToGeminiFinish, Ended
<1> QED  BY <1>1, <1>2, <1>3

-----------------------------------------------------------------------------
\* A reply that is.

\* The reply is finished.
LEMMA FinishIsWhole ==
    ASSUME NEW m \in Mem, Veiled(m), NEW r, NEW sent, sent.reason # "none",
           Tallied(Written(m), sent.called, sent.args),
           r \notin {"ChatToGemini", "ClaudeToChat", "ResponsesToChat"} => OpenBlocks(Written(m)) = {}
    PROVE  WholeIs(r, Put(m, <<Whole>>), sent)
<1> DEFINE u == Put(m, <<Whole>>)  w == Written(m)  v == Append(w, Whole)
<1>1. Whole \in Ev /\ Whole.ev \notin {"open", "shut"} /\ Whole.kind # "tool"  BY EventFacts, QuietKinds
<1>2. u \in Mem /\ Veiled(u) /\ Written(u) = v  BY <1>1, PutOne
<1>3. w \in Seq(Ev)  BY MemFacts
<1>4. u.wire = IF u.gated THEN <<>> ELSE Written(u)  BY <1>2, ShownIsWritten
<1> HIDE DEF u
<1>5. u.wire = <<>> \/ u.wire = v  BY <1>2, <1>4
<1>6. Tallied(v, sent.called, sent.args)
  <2>1. SameCalls(w, v)  BY <1>1, <1>3, QuietOne
  <2> QED  BY <2>1, TalliedSame
<1>7. OpenBlocks(v) = OpenBlocks(w)
  <2>1. Names(v, "open") = Names(w, "open") /\ Names(v, "shut") = Names(w, "shut")
    <3> DEFINE e == Whole
    <3>1. e \in Ev /\ e.ev # "open" /\ e.ev # "shut"  BY <1>1
    <3> HIDE DEF e, w
    <3>2. \A k : Names(Append(w, e), k) = Names(w, k) \union (IF e.ev = k THEN {e.at} ELSE {})
      BY <1>3, <3>1, NamesFacts
    <3> QED  BY <3>1, <3>2 DEF e
  <2> QED  BY <2>1 DEF OpenBlocks
<1> HIDE DEF w, v
<1>8. CASE u.wire = <<>>  BY <1>8, CalmFacts DEF WholeIs, u
<1>9. CASE u.wire = v  BY <1>6, <1>7, <1>9 DEF WholeIs, u, w
<1> QED  BY <1>5, <1>8, <1>9

\* Shutting blocks is of no call, and leaves none open.
LEMMA ShutToolsSame ==
    ASSUME NEW m, NEW grows, Sane(m, grows), NEW order, Listing(m, order)
    PROVE  SameCalls(Written(m), Written(ShutTools(m, order)))
<1> DEFINE s == [i \in DOMAIN order |-> Shut(m.tools[order[i]].at)]
           p == Put(m, s)  u == ShutTools(m, order)
<1>1. PICK n \in Nat : order \in [1 .. n -> LiveTools(m)]  BY DEF Listing
<1>2. m \in Mem /\ Veiled(m)  BY DEF Sane
<1>3. s \in Seq(Ev) /\ \A i \in DOMAIN s : s[i].kind # "tool"
  <2>1. ASSUME NEW i \in 1 .. n
        PROVE  Shut(m.tools[order[i]].at) \in Ev /\ Shut(m.tools[order[i]].at).kind # "tool"
    <3>1. order[i] \in DOMAIN m.tools  BY <1>1 DEF LiveTools
    <3>2. m.tools[order[i]] \in Tool  BY <1>2, <3>1, MemFacts
    <3>3. m.tools[order[i]].at \in Int  BY <3>2 DEF Tool
    <3> QED  BY <3>3, EventFacts, QuietKinds
  <2>2. s \in [1 .. n -> Ev] /\ \A i \in 1 .. n : s[i].kind # "tool"
    <3>1. DOMAIN order = 1 .. n  BY <1>1
    <3> QED  BY <2>1, <3>1
  <2> HIDE DEF s
  <2> QED  BY <1>1, <2>2
<1> HIDE DEF s
<1>4. Written(p) = Written(m) \o s /\ p \in Mem  BY <1>2, <1>3, PutMany
<1>5. Written(u) = Written(p)
  <2> DEFINE ts == [i \in DOMAIN p.tools |-> [p.tools[i] EXCEPT !.open = FALSE]]
  <2>1. u = [p EXCEPT !.tools = ts]  BY DEF ShutTools, s
  <2> HIDE DEF p, ts, u
  <2>2. u.gated = p.gated /\ u.wire = p.wire /\ u.held = p.held  BY <1>4, <2>1 DEF Mem
  <2> QED  BY <2>2 DEF Written
<1>6. Written(m) \in Seq(Ev)  BY <1>2, MemFacts
<1>7. SameCalls(Written(m), Written(m) \o s)  BY <1>3, <1>6, QuietMany
<1> QED  BY <1>4, <1>5, <1>7

\* No entry open and no block: nothing is open for the client.
LEMMA NothingOpen ==
    ASSUME NEW m, NEW grows, Sane(m, grows), LiveTools(m) = {}, m.open = {}
    PROVE  OpenBlocks(Written(m)) = {}
<1>1. ~Cur(m)  BY DEF Cur
<1>2. Blocks(m) = {}  BY <1>1 DEF Blocks
<1> QED  BY <1>2 DEF Sane

\* The blocks still open are shut, and the reply is finished.
LEMMA ShutIsWhole ==
    ASSUME NEW m, NEW grows, Sane(m, grows), m.open = {}, NEW order, Listing(m, order),
           NEW r, NEW sent, sent.reason # "none", Tallied(Written(m), sent.called, sent.args)
    PROVE  WholeIs(r, Put(ShutTools(m, order), <<Whole>>), sent)
<1> DEFINE v == ShutTools(m, order)
<1>1. Sane(v, grows) /\ v.open = {} /\ LiveTools(v) = {}  BY SaneShutTools
<1>2. SameCalls(Written(m), Written(v))  BY ShutToolsSame
<1> HIDE DEF v
<1>3. Tallied(Written(v), sent.called, sent.args)  BY <1>2, TalliedSame
<1>4. OpenBlocks(Written(v)) = {}  BY <1>1, NothingOpen
<1>5. v \in Mem /\ Veiled(v)  BY <1>1 DEF Sane
<1>6. WholeIs(r, Put(v, <<Whole>>), sent)  BY <1>3, <1>4, <1>5, FinishIsWhole
<1> QED  BY <1>6 DEF v

\* The end of a Claude answer.
LEMMA ClaudeIsWhole ==
    ASSUME NEW m, NEW chat, Claude(m, chat), NEW order, Listing(m, order),
           NEW r, NEW sent, sent.reason # "none", Tallied(Written(m), sent.called, sent.args)
    PROVE  WholeIs(r, ClaudeFinish(m, order).t, sent)
<1>1. CASE ~m.begun
  <2>1. ClaudeFinish(m, order).t = m  BY <1>1 DEF ClaudeFinish, Ended
  <2>2. Sane(m, TRUE)  BY DEF Claude
  <2>3. Unfinished(m)  BY <2>2, SaneIsUnfinished
  <2>4. WholeIs(r, m, sent)  BY <2>3, UnfinishedFacts
  <2> QED  BY <2>1, <2>4
<1>2. CASE m.begun
  <2> DEFINE v == CloseBoth(m)
  <2>1. Claude(v, chat) /\ v.open = {} /\ v.tools = m.tools  BY <1>2, ClaudeClosesBoth
  <2>2. Silent(m, v)
    <3>1. m \in Mem /\ Veiled(m)  BY DEF Claude, Sane
    <3> QED  BY <3>1, SilentClosesBoth
  <2>3. ClaudeFinish(m, order).t = Put(ShutTools(v, order), <<Whole>>)
    BY <1>2 DEF ClaudeFinish, Ended
  <2> HIDE DEF v
  <2>4. Listing(v, order)  BY <2>1 DEF Listing, LiveTools
  <2>5. Sane(v, TRUE)  BY <2>1 DEF Claude
  <2>6. Tallied(Written(v), sent.called, sent.args)
    <3>1. SameCalls(Written(m), Written(v))  BY <2>2 DEF Silent
    <3> QED  BY <3>1, TalliedSame
  <2> QED  BY <2>1, <2>3, <2>4, <2>5, <2>6, ShutIsWhole
<1> QED  BY <1>1, <1>2

\* The end of a Responses answer from Claude.
LEMMA GatedIsWhole ==
    ASSUME NEW m, Gated(m), NEW order, Listing(m, order), NEW reason,
           NEW r, NEW sent, sent.reason # "none", Tallied(Written(m), sent.called, sent.args)
    PROVE  WholeIs(r, ClaudeToResponsesFinish(m, order, reason).t, sent)
<1> DEFINE s == Started(m)  v == ShutTools(s, order)  p == Put(v, <<Whole>>)
<1>1. Gated(s) /\ s.tools = m.tools  BY GatedStarts DEF Same
<1>2. Sane(s, TRUE) /\ s.open = {}  BY <1>1 DEF Gated, Lidded
<1>3. Silent(m, s)
  <2>1. m \in Mem /\ Veiled(m)  BY DEF Gated, Lidded, Sane
  <2> QED  BY <2>1, SilentStarted
<1>4. ClaudeToResponsesFinish(m, order, reason).t = IF v.gated /\ reason # "cap" THEN v ELSE p
  BY DEF ClaudeToResponsesFinish, Ended
<1> HIDE DEF s
<1>5. Listing(s, order)  BY <1>1 DEF Listing, LiveTools
<1>6. Tallied(Written(s), sent.called, sent.args)
  <2>1. SameCalls(Written(m), Written(s))  BY <1>3 DEF Silent
  <2> QED  BY <2>1, TalliedSame
<1>7. WholeIs(r, p, sent)  BY <1>2, <1>5, <1>6, ShutIsWhole
<1>8. WholeIs(r, v, sent)
  <2>1. Sane(v, TRUE)  BY <1>2, <1>5, SaneShutTools
  <2> HIDE DEF v
  <2>2. Unfinished(v)  BY <2>1, SaneIsUnfinished
  <2> QED  BY <2>2, UnfinishedFacts
<1> HIDE DEF v, p
<1> QED  BY <1>4, <1>7, <1>8

\* The end of a Responses answer from Chat.
LEMMA MessagesAreWhole ==
    ASSUME NEW m, Messages(m),
           NEW r, NEW sent, sent.reason # "none", Tallied(Written(m), sent.called, sent.args)
    PROVE  WholeIs(r, ChatToResponsesFinish(m).t, sent)
<1>1. Sane(m, FALSE) /\ LiveTools(m) = DOMAIN m.tools /\ m \in Mem /\ Veiled(m)
  BY DEF Messages, Sane
<1>2. CASE ~HasOutput(m)
  <2>1. ChatToResponsesFinish(m).t = m  BY <1>2 DEF ChatToResponsesFinish, Ended
  <2>2. Unfinished(m)  BY <1>1, SaneIsUnfinished
  <2>3. WholeIs(r, m, sent)  BY <2>2, UnfinishedFacts
  <2> QED  BY <2>1, <2>3
<1>3. CASE HasOutput(m)
  <2> DEFINE v == CloseMessage(m)
  <2>1. ChatToResponsesFinish(m).t = Put(ShutTools(v, InOrder(m)), <<Whole>>)
    BY <1>3 DEF ChatToResponsesFinish, Ended
  <2>2. m.begun  BY <1>3 DEF Messages, HasOutput
  <2>3. Sane(v, FALSE) /\ v.tools = m.tools /\ v.open = {}  BY <1>1, <2>2, MessageCloses DEF Messages
  <2>4. Silent(m, v)  BY <1>1, SilentMessage
  <2> HIDE DEF v
  <2>5. LiveTools(v) = DOMAIN v.tools /\ InOrder(m) = InOrder(v)
    BY <1>1, <2>3 DEF LiveTools, InOrder
  <2>6. Listing(v, InOrder(v))
    <3>1. v \in Mem  BY <2>3 DEF Sane
    <3> QED  BY <2>5, <3>1, InOrderLists
  <2>7. Tallied(Written(v), sent.called, sent.args)
    <3>1. SameCalls(Written(m), Written(v))  BY <2>4 DEF Silent
    <3> QED  BY <3>1, TalliedSame
  <2>8. WholeIs(r, Put(ShutTools(v, InOrder(v)), <<Whole>>), sent)
    BY <2>3, <2>6, <2>7, ShutIsWhole
  <2> QED  BY <2>1, <2>5, <2>8
<1> QED  BY <1>2, <1>3

\* The end of a Chat answer.
LEMMA ChatIsWhole ==
    ASSUME NEW m, NEW grows, Sane(m, grows), NEW r \in {"ClaudeToChat", "ResponsesToChat"},
           NEW sent, sent.reason # "none", Tallied(Written(m), sent.called, sent.args)
    PROVE  /\ \A reason : WholeIs(r, ClaudeToChatFinish(m, reason).t, sent)
           /\ WholeIs(r, ResponsesToChatFinish(m).t, sent)
<1> DEFINE p == Put(m, <<Whole>>)
<1>1. m \in Mem /\ Veiled(m)  BY DEF Sane
<1>2. WholeIs(r, p, sent)  BY <1>1, FinishIsWhole
<1>3. WholeIs(r, m, sent)
  <2>1. Unfinished(m)  BY SaneIsUnfinished
  <2> QED  BY <2>1, UnfinishedFacts
<1>4. /\ \A reason : ClaudeToChatFinish(m, reason).t \in {m, p}
      /\ ResponsesToChatFinish(m).t \in {m, p}
  BY DEF ClaudeToChatFinish, ResponsesToChatFinish, Ended
<1> HIDE DEF p
<1> QED  BY <1>2, <1>3, <1>4

-----------------------------------------------------------------------------
\* The body ends.

\* The end of a body.
LEMMA NamesGrow ==
    ASSUME NEW w \in Seq(Ev), NEW s \in Seq(Ev), \A i \in DOMAIN s : s[i].ev # "open"
    PROVE  OpenBlocks(w \o s) \subseteq OpenBlocks(w)
<1> DEFINE v == w \o s
<1>1. /\ Len(w) \in Nat /\ DOMAIN w = 1 .. Len(w) /\ DOMAIN v = 1 .. Len(v) /\ Len(v) \in Nat
      /\ \A i \in 1 .. Len(w) : v[i] = w[i] /\ i \in 1 .. Len(v)
      /\ \A i \in 1 .. Len(v) : i > Len(w) => i - Len(w) \in DOMAIN s /\ v[i] = s[i - Len(w)]
  BY ConcatFacts
<1> HIDE DEF v
<1>2. Names(v, "open") \subseteq Names(w, "open")
  <2> SUFFICES ASSUME NEW i \in DOMAIN v, v[i].ev = "open" PROVE v[i].at \in Names(w, "open")
    BY DEF Names
  <2>1. i \in 1 .. Len(w)  BY <1>1
  <2>2. v[i] = w[i]  BY <1>1, <2>1
  <2> QED  BY <1>1, <2>1, <2>2 DEF Names
<1>3. Names(w, "shut") \subseteq Names(v, "shut")
  <2> SUFFICES ASSUME NEW i \in DOMAIN w, w[i].ev = "shut" PROVE w[i].at \in Names(v, "shut")
    BY DEF Names
  <2>1. i \in DOMAIN v /\ v[i] = w[i]  BY <1>1
  <2> QED  BY <2>1 DEF Names
<1> QED  BY <1>2, <1>3 DEF OpenBlocks, v

\* A forwarded stream that is cut says no more than it said.
LEMMA PassCutWhole ==
    ASSUME NEW m, PassFine(m), NEW r, NEW sent, WholeIs(r, m, sent), NEW order \in PassOrders(m),
           NEW guarded
    PROVE  WholeIs(r, PassCut(m, order, guarded).t, sent)
<1>1. m \in Mem /\ ~m.gated /\ m.wire \in Seq(Ev) /\ Veiled(m)
  <2>1. m \in Mem /\ ~m.gated  BY DEF PassFine
  <2>2. m.wire \in Seq(Ev)  BY <2>1, MemFacts
  <2> QED  BY <2>1, <2>2 DEF Veiled
<1>2. CASE m.wire = <<>>
  <2>1. PassCut(m, order, guarded).t = m  BY <1>2 DEF PassCut, Ended
  <2> QED  BY <2>1
<1>3. CASE m.wire # <<>>
  <2> DEFINE x == Guarded(m, Over, guarded)  a == [i \in DOMAIN order |-> Shut(order[i])]
             b == <<Fail, x>>  s == a \o b  u == Put(m, s)  w == m.wire
  <2>1. PassCut(m, order, guarded).t = u  BY <1>3 DEF PassCut, Ended
  <2>2. PICK n \in Nat : order \in [1 .. n -> Int]  BY <1>1, OrdersList
  <2>3. a \in Seq(Ev) /\ Len(a) = n /\ \A i \in 1 .. n : a[i].ev = "shut" /\ a[i].kind # "tool"
    <3>1. \A i \in 1 .. n : Shut(order[i]) \in Ev /\ Shut(order[i]).ev = "shut" /\ Shut(order[i]).kind # "tool"
      BY <2>2, EventFacts, QuietKinds
    <3>2. a \in [1 .. n -> Ev] /\ \A i \in 1 .. n : a[i] = Shut(order[i])  BY <2>2, <3>1
    <3> HIDE DEF a
    <3> QED  BY <2>2, <3>1, <3>2
  <2> HIDE DEF a
  <2>4. /\ x \in Ev /\ x.ev \notin {"open", "whole"} /\ x.kind # "tool" /\ x.ev \in Closes
        /\ Fail \in Ev /\ Fail.ev \notin {"open", "whole"} /\ Fail.kind # "tool" /\ Fail.ev \in Closes
    BY EventFacts, QuietKinds DEF Guarded, Closes
  <2> HIDE DEF x
  <2>5. b \in Seq(Ev) /\ Len(b) = 2 /\ b[1] = Fail /\ b[2] = x  BY <2>4
  <2> HIDE DEF b
  <2>6. /\ s \in Seq(Ev) /\ Len(s) = n + 2 /\ DOMAIN s = 1 .. n + 2
        /\ \A i \in 1 .. n + 2 : s[i] = IF i <= n THEN a[i] ELSE b[i - n]
    <3>1. /\ s \in Seq(Ev) /\ Len(s) = Len(a) + Len(b)
          /\ \A i \in 1 .. Len(a) + Len(b) : s[i] = IF i <= Len(a) THEN a[i] ELSE b[i - Len(a)]
      BY <2>3, <2>5, ConcatProperties
    <3> HIDE DEF s
    <3> QED  BY <2>2, <2>3, <2>5, <3>1
  <2> HIDE DEF s
  <2>7. \A i \in DOMAIN s : /\ s[i].ev \in Closes /\ s[i].ev # "whole" /\ s[i].ev # "open"
                            /\ s[i].kind # "tool"
    <3> SUFFICES ASSUME NEW i \in DOMAIN s
                 PROVE  s[i].ev \in Closes /\ s[i].ev # "whole" /\ s[i].ev # "open" /\ s[i].kind # "tool"
      OBVIOUS
    <3>1. CASE i <= n
      <4>1. i \in 1 .. n /\ s[i] = a[i]  BY <2>2, <2>6, <3>1
      <4> QED  BY <2>3, <4>1 DEF Closes
    <3>2. CASE ~(i <= n)
      <4>1. i - n \in 1 .. 2 /\ s[i] = b[i - n]  BY <2>2, <2>6, <3>2
      <4>2. b[i - n] \in {Fail, x}
        <5>1. i - n = 1 \/ i - n = 2  BY <4>1
        <5> QED  BY <2>5, <5>1
      <4> QED  BY <2>4, <4>1, <4>2
    <3> QED  BY <3>1, <3>2
  <2>8. u.wire = w \o s  BY <1>1, <2>6, PutMany
  <2> HIDE DEF u, w
  <2>9. Says(w \o s, "whole") => Says(w, "whole")
    <3>1. GrowsOpen(w) /\ OneBegin(w) /\ NothingAfter(w)  BY DEF PassFine, w
    <3> QED  BY <1>1, <2>6, <2>7, <3>1, ManyClose DEF w
  <2>10. SameCalls(w, w \o s)  BY <1>1, <2>6, <2>7, QuietMany DEF w
  <2>11. OpenBlocks(w \o s) \subseteq OpenBlocks(w)  BY <1>1, <2>6, <2>7, NamesGrow DEF w
  <2>12. ASSUME Says(u.wire, "whole")
         PROVE  /\ sent.reason # "none"
                /\ r \notin {"ChatToGemini", "ClaudeToChat", "ResponsesToChat"} => OpenBlocks(u.wire) = {}
                /\ r # "ChatToGemini" => Tallied(u.wire, sent.called, sent.args)
    <3>1. Says(w, "whole")  BY <2>8, <2>9, <2>12
    <3>2. /\ sent.reason # "none"
          /\ r \notin {"ChatToGemini", "ClaudeToChat", "ResponsesToChat"} => OpenBlocks(w) = {}
          /\ r # "ChatToGemini" => Tallied(w, sent.called, sent.args)
      BY <3>1 DEF WholeIs, w
    <3>3. r # "ChatToGemini" => Tallied(w \o s, sent.called, sent.args)  BY <2>10, <3>2, TalliedSame
    <3> QED  BY <2>8, <2>11, <3>2, <3>3
  <2>13. WholeIs(r, u, sent)  BY <2>12 DEF WholeIs
  <2> QED  BY <2>1, <2>13
<1> QED  BY <1>2, <1>3

\* What was counted when the body ends.
LEMMA EndCounted ==
    ASSUME IInv, JInv, Running, route \notin {"ChatToGemini"} \union PassThrough
    PROVE  Tallied(Written(t), up.called, up.args) /\ LegSane(route, t, up) /\ t \in Mem
<1>1. LegCounts(route, t, up)  BY DEF JInv
<1>2. route \in Legs /\ LegSane(route, t, up) /\ t \in Mem  BY AtEnd
<1>3. route \in ByCall \/ route = "ClaudeToResponses"  BY <1>2, LegsAre DEF ByCall
<1>4. CASE route \in ByCall
  <2>1. Keyed(t, up.called, up.args, ShutBefore(route, up))  BY <1>1, <1>4 DEF LegCounts
  <2> QED  BY <1>2, <2>1 DEF Keyed
<1>5. CASE route = "ClaudeToResponses"
  <2>1. Indexed(t, up)  BY <1>1, <1>5 DEF LegCounts
  <2> QED  BY <1>2, <2>1 DEF Indexed
<1> QED  BY <1>3, <1>4, <1>5

\* The body ended with its closing frame.
LEMMA EndWholeCounts == ASSUME IInv, JInv, EndWhole PROVE JInv'
<1>1. PICK order \in AnyOrder(t) :
         Settle(CASE route = "ChatToClaude"      -> ClaudeFinish(t, InOrder(t))
                  [] route = "ResponsesToClaude" -> ClaudeFinish(t, order)
                  [] route = "ClaudeToResponses" -> ClaudeToResponsesFinish(t, order, up.reason)
                  [] route = "ChatToResponses"   -> ChatToResponsesFinish(t)
                  [] route = "ClaudeToChat"      -> ClaudeToChatFinish(t, up.reason)
                  [] route = "ResponsesToChat"   -> ResponsesToChatFinish(t)
                  [] route = "ChatToGemini"      -> ChatToGeminiFinish(t)
                  [] OTHER                       -> Ended(t, "none"), "whole")
  BY DEF EndWhole
<1> DEFINE e == CASE route = "ChatToClaude"      -> ClaudeFinish(t, InOrder(t))
                  [] route = "ResponsesToClaude" -> ClaudeFinish(t, order)
                  [] route = "ClaudeToResponses" -> ClaudeToResponsesFinish(t, order, up.reason)
                  [] route = "ChatToResponses"   -> ChatToResponsesFinish(t)
                  [] route = "ClaudeToChat"      -> ClaudeToChatFinish(t, up.reason)
                  [] route = "ResponsesToChat"   -> ResponsesToChatFinish(t)
                  [] route = "ChatToGemini"      -> ChatToGeminiFinish(t)
                  [] OTHER                       -> Ended(t, "none")
<1>2. Settle(e, "whole") /\ Running /\ up.reason # "none"  BY <1>1 DEF Settle, EndWhole
<1>3. Listing(t, order) /\ route \in Legs  BY <1>2, AtEnd, AnyOrderLists
<1>4. route \notin {"ChatToGemini"} \union PassThrough =>
         Tallied(Written(t), up.called, up.args) /\ LegSane(route, t, up) /\ t \in Mem
  BY <1>2, EndCounted
<1>5. WholeIs(route, e.t, up)
  <2>1. CASE route = "ChatToClaude"
    <3>1. e = ClaudeFinish(t, InOrder(t))  BY <2>1
    <3>2. Tallied(Written(t), up.called, up.args) /\ Claude(t, TRUE) /\ t \in Mem
      BY <1>4, <2>1, LegsAre DEF LegSane
    <3>3. Listing(t, InOrder(t))
      <4>1. LiveTools(t) = DOMAIN t.tools  BY <3>2 DEF Claude
      <4> QED  BY <3>2, <4>1, InOrderLists
    <3> HIDE DEF e
    <3> QED  BY <1>2, <3>1, <3>2, <3>3, ClaudeIsWhole
  <2>2. CASE route = "ResponsesToClaude"
    <3>1. e = ClaudeFinish(t, order)  BY <2>2
    <3>2. Tallied(Written(t), up.called, up.args) /\ Claude(t, FALSE)
      BY <1>4, <2>2, LegsAre DEF LegSane
    <3> HIDE DEF e
    <3> QED  BY <1>2, <1>3, <3>1, <3>2, ClaudeIsWhole
  <2>3. CASE route = "ClaudeToResponses"
    <3>1. e = ClaudeToResponsesFinish(t, order, up.reason)  BY <2>3
    <3>2. Tallied(Written(t), up.called, up.args) /\ Gated(t)
      BY <1>4, <2>3, LegsAre DEF LegSane
    <3> HIDE DEF e
    <3> QED  BY <1>2, <1>3, <3>1, <3>2, GatedIsWhole
  <2>4. CASE route = "ChatToResponses"
    <3>1. e = ChatToResponsesFinish(t)  BY <2>4
    <3>2. Tallied(Written(t), up.called, up.args) /\ Messages(t)
      BY <1>4, <2>4, LegsAre DEF LegSane
    <3> HIDE DEF e
    <3> QED  BY <1>2, <3>1, <3>2, MessagesAreWhole
  <2>5. CASE route = "ClaudeToChat"
    <3>1. e = ClaudeToChatFinish(t, up.reason)  BY <2>5
    <3>2. Tallied(Written(t), up.called, up.args) /\ Sane(t, TRUE)
      BY <1>4, <2>5, LegsAre DEF LegSane, ClaudeChat, Chat
    <3> HIDE DEF e
    <3> QED  BY <1>2, <2>5, <3>1, <3>2, ChatIsWhole
  <2>6. CASE route = "ResponsesToChat"
    <3>1. e = ResponsesToChatFinish(t)  BY <2>6
    <3>2. Tallied(Written(t), up.called, up.args) /\ Sane(t, TRUE)
      BY <1>4, <2>6, LegsAre DEF LegSane, ResponsesChat, Chat
    <3> HIDE DEF e
    <3> QED  BY <1>2, <2>6, <3>1, <3>2, ChatIsWhole
  <2>7. CASE route = "ChatToGemini"
    <3> HIDE DEF e
    <3> QED  BY <1>2, <2>7 DEF WholeIs
  <2>8. CASE route \in PassThrough
    <3>1. e = Ended(t, "none")  BY <2>8, LegsAre
    <3> HIDE DEF e
    <3>2. e.t = t  BY <3>1 DEF Ended
    <3> QED  BY <3>2 DEF JInv
  <2> HIDE DEF e
  <2> QED  BY <1>3, <2>1, <2>2, <2>3, <2>4, <2>5, <2>6, <2>7, <2>8, LegsAre
<1> HIDE DEF e
<1> QED  BY <1>2, <1>5, SettleCounts

\* A forwarded stream cut short.
LEMMA PassCutCounts ==
    ASSUME IInv, JInv, route \in PassThrough, NEW m, PassFine(m), WholeIs(route, m, up),
           NEW order \in PassOrders(m), NEW how \in {"clean", "reset", "error"},
           Settle(PassCut(m, order, route = "ClaudeOAuthPass"), how)
    PROVE  JInv'
<1> DEFINE g == route = "ClaudeOAuthPass"  e == PassCut(m, order, g)
<1>1. WholeIs(route, e.t, up)  BY PassCutWhole
<1>2. Settle(e, how) /\ how \in {"whole", "clean", "reset", "error"}  OBVIOUS
<1> HIDE DEF e
<1> QED  BY <1>1, <1>2, SettleCounts

\* The body ended without its closing frame.
LEMMA EndCleanCounts == ASSUME IInv, JInv, EndClean PROVE JInv'
<1>1. CASE route \in PassThrough
  <2>1. PICK order \in PassOrders(t) : Settle(PassCut(t, order, route = "ClaudeOAuthPass"), "clean")
    BY <1>1 DEF EndClean
  <2>2. Running  BY <2>1 DEF Settle
  <2>3. PassFine(t) /\ WholeIs(route, t, up)  BY <1>1, <2>2, AtEnd DEF JInv
  <2> QED  BY <1>1, <2>1, <2>3, PassCutCounts
<1>2. CASE route \notin PassThrough
  <2> DEFINE F(order) ==
               IF route = "ChatToGemini" THEN ChatToGeminiFinish(t)
               ELSE IF up.frames = 0 THEN Ended(t, "empty")
               ELSE CASE route \in {"ChatToClaude", "ResponsesToClaude"} -> ClaudeCut(t, order)
                      [] route = "ClaudeToResponses" -> ClaudeToResponsesCut(t, order)
                      [] route = "ChatToResponses"   -> ChatToResponsesCut(t)
                      [] route = "ClaudeToChat"      -> ClaudeToChatCut(t)
                      [] OTHER                       -> ResponsesToChatCut(t)
  <2>1. PICK order \in AnyOrder(t) : Settle(F(order), "clean")  BY <1>2 DEF EndClean
  <2> DEFINE e == F(order)
  <2>2. Settle(e, "clean") /\ Running /\ up.reason = "none"  BY <2>1 DEF Settle, EndClean
  <2>3. route \in Legs /\ LegSane(route, t, up) /\ Listing(t, order)
    BY <2>2, AtEnd, AnyOrderLists
  <2>4. Unfinished(e.t)
    <3>1. CASE route = "ChatToGemini"
      <4>1. e = ChatToGeminiFinish(t)  BY <3>1
      <4>2. Sane(t, TRUE)  BY <2>3, <3>1 DEF LegSane, Chat
      <4> HIDE DEF e
      <4> QED  BY <4>1, <4>2, OthersUnfinished
    <3>2. CASE route # "ChatToGemini" /\ up.frames = 0
      <4>1. e = Ended(t, "empty")  BY <3>2
      <4> HIDE DEF e
      <4>2. e.t = t  BY <4>1 DEF Ended
      <4>3. Sane(t, route # "ChatToResponses")  BY <1>2, <2>3, SaneLeg
      <4>4. Unfinished(t)  BY <4>3, SaneIsUnfinished
      <4> QED  BY <4>2, <4>4
    <3>3. CASE up.frames # 0 /\ route \in {"ChatToClaude", "ResponsesToClaude"}
      <4>1. e = ClaudeCut(t, order)  BY <3>3
      <4>2. Claude(t, TRUE) \/ Claude(t, FALSE)  BY <2>3, <3>3 DEF LegSane
      <4> HIDE DEF e
      <4> QED  BY <2>3, <4>1, <4>2, ClaudeUnfinished
    <3>5. CASE up.frames # 0 /\ route = "ClaudeToResponses"
      <4>1. e = ClaudeToResponsesCut(t, order)  BY <3>5
      <4>2. Gated(t)  BY <2>3, <3>5 DEF LegSane
      <4> HIDE DEF e
      <4> QED  BY <2>3, <4>1, <4>2, GatedUnfinished
    <3>6. CASE up.frames # 0 /\ route = "ChatToResponses"
      <4>1. e = ChatToResponsesCut(t)  BY <3>6
      <4>2. Sane(t, FALSE)  BY <2>3, <3>6 DEF LegSane, Messages
      <4> HIDE DEF e
      <4> QED  BY <4>1, <4>2, OthersUnfinished
    <3>7. CASE up.frames # 0 /\ route = "ClaudeToChat"
      <4>1. e = ClaudeToChatCut(t)  BY <3>7
      <4>2. Sane(t, TRUE)  BY <2>3, <3>7 DEF LegSane, ClaudeChat, Chat
      <4> HIDE DEF e
      <4> QED  BY <4>1, <4>2, OthersUnfinished
    <3>8. CASE up.frames # 0 /\ route = "ResponsesToChat"
      <4>1. e = ResponsesToChatCut(t)  BY <3>8
      <4>2. Sane(t, TRUE)  BY <2>3, <3>8 DEF LegSane, ResponsesChat, Chat
      <4> HIDE DEF e
      <4> QED  BY <4>1, <4>2, OthersUnfinished
    <3> HIDE DEF e
    <3> QED  BY <1>2, <2>3, <3>1, <3>2, <3>3, <3>5, <3>6, <3>7, <3>8, LegsAre
  <2> HIDE DEF e
  <2>5. WholeIs(route, e.t, up)  BY <2>4, UnfinishedFacts
  <2> QED  BY <2>2, <2>5, SettleCounts
<1> QED  BY <1>1, <1>2

\* The read failed.
LEMMA EndResetCounts == ASSUME IInv, JInv, EndReset PROVE JInv'
<1>1. CASE route \in PassThrough
  <2>1. PICK order \in PassOrders(t) : Settle(PassCut(t, order, route = "ClaudeOAuthPass"), "reset")
    BY <1>1, LegsAre DEF EndReset
  <2>2. Running  BY <2>1 DEF Settle
  <2>3. PassFine(t) /\ WholeIs(route, t, up)  BY <1>1, <2>2, AtEnd DEF JInv
  <2> QED  BY <1>1, <2>1, <2>3, PassCutCounts
<1>2. CASE route = "ClaudeToResponses"
  <2>1. PICK order \in AnyOrder(t) : Settle(ClaudeToResponsesCut(t, order), "reset")
    BY <1>2, LegsAre DEF EndReset
  <2> DEFINE e == ClaudeToResponsesCut(t, order)
  <2>2. Settle(e, "reset") /\ Running  BY <2>1 DEF Settle
  <2>3. LegSane(route, t, up) /\ Listing(t, order)
    BY <1>2, <2>2, AtEnd, AnyOrderLists, LegsAre
  <2>4. Gated(t)  BY <1>2, <2>3 DEF LegSane
  <2>5. Unfinished(e.t)  BY <2>3, <2>4, GatedUnfinished
  <2> HIDE DEF e
  <2>6. WholeIs(route, e.t, up)  BY <2>5, UnfinishedFacts
  <2> QED  BY <2>2, <2>6, SettleCounts
<1>3. CASE route \notin PassThrough \union {"ClaudeToResponses"}
  <2> DEFINE e == Ended(t, "cut")
  <2>1. Settle(e, "reset")  BY <1>3 DEF EndReset
  <2>2. e.t = t  BY DEF Ended
  <2> HIDE DEF e
  <2>3. WholeIs(route, e.t, up)  BY <2>2 DEF JInv
  <2> QED  BY <2>1, <2>3, SettleCounts
<1> QED  BY <1>1, <1>2, <1>3

\* An error frame.
LEMMA ErrorFrameCounts == ASSUME IInv, JInv, ErrorFrame PROVE JInv'
<1>1. CASE route \in PassThrough
  <2> DEFINE u == Forwarded(Fail, FALSE)
             g == route = "ClaudeOAuthPass"
  <2>1. PICK order \in PassOrders(u) : Settle(PassCut(u, order, g), "error")
    BY <1>1 DEF ErrorFrame
  <2>2. Running /\ up.reason = "none"  BY <2>1 DEF Settle, ErrorFrame
  <2>3. PassSane(t, up, g)
    <3>1. LegSane(route, t, up)  BY <2>2, AtEnd
    <3> QED  BY <1>1, <3>1 DEF LegSane
  <2>4. u = PassFrame(t, Fail, g, FALSE)  BY DEF Forwarded
  <2> HIDE DEF u
  <2>5. PassFine(u) /\ WholeIs(route, u, up)
    <3> HIDE DEF g
    <3>1. PassFine(u)  BY <2>3, <2>4, PassCloses
    <3>2. t \in Mem /\ ~t.gated /\ t.wire \in Seq(Ev) /\ Calm(t.wire)
      <4>1. t \in Mem /\ ~t.gated /\ Calm(t.wire)  BY <2>3 DEF PassSane, PassFine
      <4> QED  BY <4>1, MemFacts
    <3>3. u.wire = Append(t.wire, Fail)
      <4> DEFINE e == Fail  no == FALSE
      <4>1. e \in Ev /\ Guarded(t, e, g) = e  BY EventFacts DEF Guarded
      <4>2. u = PassFrame(t, e, g, no)  BY <2>4
      <4> HIDE DEF e, no
      <4>3. u.wire = Append(t.wire, e)  BY <3>2, <4>1, <4>2, PassWrites
      <4> QED  BY <4>3 DEF e
    <3>4. ~Says(u.wire, "whole")  BY <3>2, <3>3, CalmFacts
    <3> QED  BY <3>1, <3>4 DEF WholeIs
  <2> QED  BY <1>1, <2>1, <2>5, PassCutCounts
<1>2. CASE route \notin PassThrough
  <2> DEFINE e == CASE route = "ChatToClaude"      -> ChatToClaudeError(t)
                    [] route = "ResponsesToClaude" -> ResponsesToClaudeError(t)
                    [] route = "ClaudeToResponses" -> ClaudeToResponsesError(t)
                    [] route = "ChatToResponses"   -> ChatToResponsesError(t)
                    [] route = "ClaudeToChat"      -> ClaudeToChatError(t)
                    [] route = "ResponsesToChat"   -> ResponsesToChatError(t)
                    [] OTHER                       -> Ended(t, "refused")
  <2>1. Settle(e, "error") /\ up.reason = "none"  BY <1>2 DEF ErrorFrame
  <2>2. Running  BY <2>1 DEF Settle
  <2>3. route \in Legs /\ LegSane(route, t, up)  BY <2>1, <2>2, AtEnd
  <2>4. Unfinished(e.t)
    <3>1. CASE route = "ChatToClaude"
      <4>1. e = ChatToClaudeError(t)  BY <3>1
      <4>2. Claude(t, TRUE)  BY <2>3, <3>1 DEF LegSane
      <4> HIDE DEF e
      <4> QED  BY <4>1, <4>2, ClaudeUnfinished
    <3>2. CASE route = "ResponsesToClaude"
      <4>1. e = ResponsesToClaudeError(t)  BY <3>2
      <4>2. Claude(t, FALSE)  BY <2>3, <3>2 DEF LegSane
      <4> HIDE DEF e
      <4> QED  BY <4>1, <4>2, ClaudeUnfinished
    <3>3. CASE route = "ClaudeToResponses"
      <4>1. e = ClaudeToResponsesError(t)  BY <3>3
      <4>2. Gated(t)  BY <2>3, <3>3 DEF LegSane
      <4> HIDE DEF e
      <4> QED  BY <4>1, <4>2, GatedUnfinished
    <3>4. CASE route = "ChatToResponses"
      <4>1. e = ChatToResponsesError(t)  BY <3>4
      <4>2. Sane(t, FALSE)  BY <2>3, <3>4 DEF LegSane, Messages
      <4> HIDE DEF e
      <4> QED  BY <4>1, <4>2, OthersUnfinished
    <3>5. CASE route = "ClaudeToChat"
      <4>1. e = ClaudeToChatError(t)  BY <3>5
      <4>2. Sane(t, TRUE)  BY <2>3, <3>5 DEF LegSane, ClaudeChat, Chat
      <4> HIDE DEF e
      <4> QED  BY <4>1, <4>2, OthersUnfinished
    <3>6. CASE route = "ResponsesToChat"
      <4>1. e = ResponsesToChatError(t)  BY <3>6
      <4>2. Sane(t, TRUE)  BY <2>3, <3>6 DEF LegSane, ResponsesChat, Chat
      <4> HIDE DEF e
      <4> QED  BY <4>1, <4>2, OthersUnfinished
    <3>7. CASE route = "ChatToGemini"
      <4>1. e = Ended(t, "refused")  BY <3>7
      <4>2. Sane(t, TRUE)  BY <2>3, <3>7 DEF LegSane, Chat
      <4> HIDE DEF e
      <4>3. e.t = t  BY <4>1 DEF Ended
      <4> QED  BY <4>2, <4>3, SaneIsUnfinished
    <3> HIDE DEF e
    <3> QED  BY <1>2, <2>3, <3>1, <3>2, <3>3, <3>4, <3>5, <3>6, <3>7, LegsAre
  <2> HIDE DEF e
  <2>5. WholeIs(route, e.t, up)  BY <2>4, UnfinishedFacts
  <2> QED  BY <2>1, <2>5, SettleCounts
<1> QED  BY <1>1, <1>2

\* The hold runs out, a comment goes out, or nothing happens.
LEMMA WaitingCounts == ASSUME JInv, HoldLimit \/ Heartbeat \/ UNCHANGED vars PROVE JInv'
<1>1. route' = route /\ up' = up /\ t' = t /\ ending' = ending  BY DEF HoldLimit, Heartbeat, vars
<1> QED  BY <1>1 DEF JInv, Running

\* Every step keeps the counts.
LEMMA NextCounts == ASSUME IInv, JInv, [Next]_vars PROVE JInv'
<1>0. IInv'  BY NextKeeps
<1>1. ASSUME NEW chunk \in Chunks, ChatChunk(chunk) PROVE JInv'  BY <1>0, <1>1, ChatChunkCounts
<1>2. CASE MessageStart  BY <1>0, <1>2, MessageStartCounts
<1>3. ASSUME NEW kind \in Kinds, NEW together \in BOOLEAN, BlockStart(kind, together) PROVE JInv'
  BY <1>0, <1>3, BlockStartCounts
<1>4. ASSUME NEW together \in BOOLEAN, BlockDelta(together) PROVE JInv'  BY <1>0, <1>4, BlockDeltaCounts
<1>5. ASSUME NEW together \in BOOLEAN, BlockStop(together) PROVE JInv'  BY <1>0, <1>5, BlockStopCounts
<1>6. ASSUME NEW kind \in {"text", "think"}, ItemDelta(kind) PROVE JInv'  BY <1>0, <1>6, ItemDeltaCounts
<1>7. CASE SealedReasoning  BY <1>0, <1>7, SealedReasoningCounts
<1>8. ASSUME NEW c \in Call, CallAdded(c) PROVE JInv'  BY <1>0, <1>8, CallAddedCounts
<1>9. ASSUME NEW c \in Call, CallDelta(c) PROVE JInv'  BY <1>0, <1>9, CallDeltaCounts
<1>10. ASSUME NEW c \in Call, NEW all \in 0 .. MaxFrames[route], CallSaid(c, all) PROVE JInv'
  BY <1>0, <1>10, CallSaidCounts
<1>11. ASSUME NEW c \in Call, NEW all \in 0 .. MaxFrames[route], CallDone(c, all) PROVE JInv'
  BY <1>0, <1>11, CallDoneCounts
<1>12. ASSUME NEW reason \in Reasons, NEW together \in BOOLEAN, ClosingFrame(reason, together)
       PROVE  JInv'
  BY <1>12, ClosingFrameCounts
<1>13. CASE EndWhole  BY <1>13, EndWholeCounts
<1>14. CASE EndClean  BY <1>14, EndCleanCounts
<1>15. CASE EndReset  BY <1>15, EndResetCounts
<1>16. CASE ErrorFrame  BY <1>16, ErrorFrameCounts
<1>17. CASE HoldLimit \/ Heartbeat \/ UNCHANGED vars  BY <1>17, WaitingCounts
<1> QED  BY <1>1, <1>2, <1>3, <1>4, <1>5, <1>6, <1>7, <1>8, <1>9, <1>10, <1>11, <1>12, <1>13,
            <1>14, <1>15, <1>16, <1>17 DEF Next

-----------------------------------------------------------------------------
\* The theorems.

\* What the client sees is nothing, or all that was written.
LEMMA ClientSees ==
    ASSUME IInv
    PROVE  /\ Client \in Seq(Ev)
           /\ Client = <<>> \/ (Client = t.wire /\ Client = Written(t))
           /\ OneBegin(Client) /\ NothingAfter(Client)
           /\ route \notin PassThrough => Paired(Client)
           /\ route # "ChatToResponses" => GrowsOpen(Client)
           /\ route = "ChatToClaude" => ThinkFirst(Client)
<1>1. Good(route, t) /\ t \in Mem /\ Veiled(t) /\ base = <<>>
  BY DEF IInv, Settings, Memories, Good
<1>2. t.wire \in Seq(Ev)  BY <1>1, MemFacts
<1>3. t.wire = IF t.gated THEN <<>> ELSE Written(t)  BY <1>1, ShownIsWritten
<1>4. <<>> \in Seq(Ev) /\ <<>> \o <<>> = <<>>  OBVIOUS
<1>5. <<>> \o t.wire = t.wire  BY <1>2
<1>6. Client = <<>> \/ Client = t.wire  BY <1>1, <1>4, <1>5 DEF Client
<1>7. Client = <<>> \/ (Client = t.wire /\ Client = Written(t))  BY <1>3, <1>6
<1>8. /\ Paired(<<>>) /\ GrowsOpen(<<>>) /\ OneBegin(<<>>) /\ NothingAfter(<<>>) /\ ThinkFirst(<<>>)
  BY DEF Paired, GrowsOpen, OneBegin, NothingAfter, ThinkFirst
<1>9. CASE Client = <<>>  BY <1>4, <1>8, <1>9
<1>10. CASE Client = t.wire /\ Client = Written(t)  BY <1>1, <1>2, <1>10 DEF Good
<1> QED  BY <1>7, <1>9, <1>10

\* Attempts stay within maxUpstreamEmptyStreamAttempts and every number a converter keeps of
\* a block is below its next one, however many calls and frames there are.
THEOREM TypeCorrect == Spec => []TypeOK
<1>1. IInv => TypeOK
  <2> SUFFICES ASSUME IInv PROVE TypeOK  OBVIOUS
  <2>1. up \in Sent /\ up.frames <= MaxFrames[route] /\ Good(route, t)
    BY DEF IInv, Frames, Memories
  <2>2. up.frames \in 0 .. MaxFrames[route]
    <3>1. MaxFrames[route] \in Nat /\ up.frames \in Nat
      BY <2>1, SentFacts, StreamAssumption DEF IInv, Settings
    <3> QED  BY <2>1, <3>1
  <2>3. up.called \subseteq Call /\ up.over \subseteq Call /\ up.args \in [Call -> Nat]
    BY <2>1, SentFacts
  <2>4. up.reason \in Reasons \union {"none"}  BY <2>1 DEF Sent
  <2>5. t.open \subseteq Kinds /\ \A i \in DOMAIN t.tools : t.tools[i].at < t.next
    <3>1. t \in Mem  BY <2>1 DEF Good
    <3>2. t.open \subseteq Kinds  BY <3>1, MemFacts
    <3> QED  BY <2>1, <3>2 DEF Good
  <2> QED  BY <2>2, <2>3, <2>4, <2>5 DEF IInv, Settings, TypeOK
<1> QED  BY <1>1, IInvHolds, PTL

\* Every leg, at every moment, shows the client a stream its protocol accepts: no block opens
\* out of order, is shut twice or grows while shut, and to Claude no thinking opens behind
\* text (streamOpenAIChatToClaudeEvents).
THEOREM WellFormedCorrect == Spec => []WellFormed
<1>1. IInv => WellFormed  BY ClientSees DEF WellFormed, ThinkFirst
<1> QED  BY <1>1, IInvHolds, PTL

\* The client reads one reply: retries (finishConvertedProxy) add no second beginning, and
\* nothing is said behind an end, an error or raw bytes.
THEOREM OneReplyCorrect == Spec => []OneReply
<1>1. IInv => OneReply
  <2> SUFFICES ASSUME IInv PROVE OneReply  OBVIOUS
  <2> DEFINE B == {i \in DOMAIN Client : Client[i].ev = "begin"}
  <2>1. OneBegin(Client) /\ NothingAfter(Client)  BY ClientSees
  <2>2. B \subseteq {1}  BY <2>1 DEF OneBegin
  <2>3. IsFiniteSet({1}) /\ Cardinality({1}) = 1  BY FS_Singleton
  <2> HIDE DEF B
  <2>4. Cardinality(B) <= 1  BY <2>2, <2>3, FS_Subset
  <2>5. \A i, j \in DOMAIN Client :
           i < j /\ Client[i].ev \in {"whole", "fail", "raw"} =>
               Client[j].ev \notin {"begin", "open", "piece"}
    BY <2>1 DEF NothingAfter, Ends
  <2> QED  BY <2>4, <2>5 DEF OneReply, B
<1> QED  BY <1>1, IInvHolds, PTL

\* A body that just stopped after something readable was shown, and one whose read failed on a
\* forwarded stream or on the way from Claude to Responses, carries the protocol's error event
\* (closeInterruptedClaudeStream and its siblings).  The other legs tell no failed read.
THEOREM CutIsToldCorrect == Spec => []CutIsTold
<1>1. IInv => CutIsTold
  <2> SUFFICES ASSUME IInv, Tells(ending), Readable(Client)
               PROVE  Says(Client, "fail")
    BY DEF CutIsTold
  <2>1. Told(Client)
    <3>1. Told(t.wire)  BY DEF IInv, Reports
    <3> QED  BY <3>1, ClientSees, NothingHeard
  <2>2. Client \in Seq(Ev)  BY ClientSees
  <2>3. \A i \in DOMAIN Client : Client[i] \in Ev  BY <2>2
  <2>4. Seen(Client, Heard)  BY <2>3 DEF Readable, Seen, Heard
  <2> QED  BY <2>1, <2>4 DEF Told
<1> QED  BY <1>1, IInvHolds, PTL

\* A Claude turn that stopped of its own accord and said nothing is never shown as a finished
\* answer (errThinkingOnlyEmptyResponse, claudeEmptyTurnGuard).
THEOREM EmptyTurnIsNoAnswerCorrect == Spec => []EmptyTurnIsNoAnswer
<1>1. IInv => EmptyTurnIsNoAnswer
  <2> SUFFICES ASSUME IInv, route \in FromClaude \ {"ClaudePass"}, up.reason = "end",
                      Says(Client, "whole")
               PROVE  \E i \in DOMAIN Client :
                         \/ Client[i].ev = "open" /\ Client[i].kind # "think"
                         \/ Client[i].ev = "piece"
    BY DEF EmptyTurnIsNoAnswer
  <2>1. Answered(Client)
    <3>1. Answered(t.wire)  BY DEF IInv, Reports, Guards
    <3> QED  BY <3>1, ClientSees, CalmFacts DEF Answered
  <2>2. Seen(Client, Visible)  BY <2>1 DEF Answered
  <2> QED  BY <2>2 DEF Seen, Visible
<1> QED  BY <1>1, IInvHolds, PTL

\* In every state of a streamed answer the counts of JInv agree: each frame that adds a call or
\* arguments to what the upstream sent adds them to what streamOpenAIChatToClaudeEvents and its
\* siblings write, or to what they pass again from the frames that repeat the arguments.
THEOREM JInvHolds == Spec => []JInv
<1>1. Init => JInv  BY InitCounts
<1>2. IInv /\ JInv /\ [Next]_vars => JInv'  BY NextCounts
<1> QED  BY <1>1, <1>2, IInvHolds, PTL DEF Spec

\* An answer told whole has come to its end, nothing is left open, and every call of the
\* upstream was told once with all of its arguments (streamOpenAIChatToClaudeEvents and its
\* siblings; arguments that only output_item.done carried are passed too).
THEOREM FinishedIsWholeCorrect == Spec => []FinishedIsWhole
<1>1. IInv /\ JInv => FinishedIsWhole
  <2> SUFFICES ASSUME IInv, JInv, Says(Client, "whole")
               PROVE  /\ up.reason # "none"
                      /\ route \notin FromChat \ ToBlocks /\ route \notin {"ClaudeToChat", "ResponsesToChat"} =>
                            OpenBlocks(Client) = {}
                      /\ route # "ChatToGemini" =>
                            \A c \in up.called : \E at \in CallAt(c) :
                                CallAt(c) = {at} /\ Amount(Client, at, "tool") = up.args[c]
    BY DEF FinishedIsWhole
  <2>1. Client = t.wire  BY ClientSees, CalmFacts
  <2>2. /\ up.reason # "none"
        /\ route \notin {"ChatToGemini", "ClaudeToChat", "ResponsesToChat"} => OpenBlocks(Client) = {}
        /\ route # "ChatToGemini" => Tallied(Client, up.called, up.args)
    BY <2>1 DEF JInv, WholeIs
  <2>3. \A c : CallAt(c) = CallsAt(Client, c)  BY DEF CallAt, CallsAt
  <2>4. "ChatToGemini" \in FromChat \ ToBlocks  BY DEF FromChat, ToBlocks
  <2>5. route \notin FromChat \ ToBlocks /\ route \notin {"ClaudeToChat", "ResponsesToChat"} =>
           OpenBlocks(Client) = {}
    BY <2>2, <2>4
  <2>6. ASSUME route # "ChatToGemini", NEW c \in up.called
        PROVE  \E at \in CallAt(c) : CallAt(c) = {at} /\ Amount(Client, at, "tool") = up.args[c]
    BY <2>2, <2>3, <2>6 DEF Tallied
  <2> QED  BY <2>2, <2>5, <2>6
<1> QED  BY <1>1, IInvHolds, JInvHolds, PTL

=============================================================================
