---------------------------- MODULE AlertsProofs -----------------------------
(***************************************************************************)
(* Proofs about Alerts, for every number of alerts and channels and every  *)
(* bound, threshold and window.                                            *)
(*                                                                         *)
(* What a row, or a delivery, records as told was told.  That is not       *)
(* inductive on its own: a row is marked notified with the state that a    *)
(* transition carried, which was read before and may have waited in a      *)
(* digest through evaluations, disposals and reloads.  So the invariant    *)
(* Honest also says what every transition still on its way must carry:     *)
(* an event that exists, of the transition's own alert unless somebody was *)
(* told of that alert before, and a state that is marked notified only if  *)
(* somebody was.  Events are only appended and deliveries only recorded,   *)
(* so what was said of them stays true (ToldStays).                        *)
(***************************************************************************)
EXTENDS Alerts, ListFacts

\* Somebody was told of an alert, by an event that was no recovery.
Told(a, evs, tld) ==
    \E i \in DOMAIN evs, c \in Channel :
        evs[i].alert = a /\ ~evs[i].resolved /\ <<i, c>> \in tld

\* A transition names an event, of its own alert if somebody is to be told of it for
\* the first time, and its row counts as notified only if somebody was told.
Sound(tr, evs, tld) ==
    /\ tr.ev \in DOMAIN evs
    /\ tr.state.notified # Never => Told(tr.alert, evs, tld)
    /\ tr.kind # "resolved" =>
          Told(tr.alert, evs, tld) \/ (evs[tr.ev].alert = tr.alert /\ ~evs[tr.ev].resolved)

\* What the timeline, the rows and a list of transitions say was told, was.
EventsSound(evs, tld) ==
    /\ evs \in Seq(Event) /\ Len(evs) <= MaxEvents /\ tld \subseteq (1 .. MaxEvents) \X Channel
    /\ \A i \in DOMAIN evs, c \in Channel : evs[i].push[c] = "sent" => <<i, c>> \in tld
RowsSound(f, evs, tld) ==
    f \in [Alert -> Row] /\ \A a \in Alert : f[a].notified # Never => Told(a, evs, tld)
ListSound(s, evs, tld) == s \in Seq(Transition) /\ \A i \in DOMAIN s : Sound(s[i], evs, tld)

\* What every step does to the timeline and to what was told.
Grown(evs, tld, evs2, tld2) ==
    /\ evs \in Seq(Event) /\ evs2 \in Seq(Event) /\ Len(evs) <= Len(evs2) /\ tld \subseteq tld2
    /\ \A i \in DOMAIN evs : evs2[i].alert = evs[i].alert /\ evs2[i].resolved = evs[i].resolved

LEMMA ToldStays ==
    ASSUME NEW evs, NEW tld, NEW evs2, NEW tld2, Grown(evs, tld, evs2, tld2)
    PROVE  /\ DOMAIN evs \subseteq DOMAIN evs2
           /\ \A a : Told(a, evs, tld) => Told(a, evs2, tld2)
           /\ \A tr : Sound(tr, evs, tld) => Sound(tr, evs2, tld2)
           /\ \A f : RowsSound(f, evs, tld) => RowsSound(f, evs2, tld2)
           /\ \A s : ListSound(s, evs, tld) => ListSound(s, evs2, tld2)
<1>1. DOMAIN evs \subseteq DOMAIN evs2
  <2>1. DOMAIN evs = 1 .. Len(evs) /\ DOMAIN evs2 = 1 .. Len(evs2) /\ Len(evs) \in Nat /\ Len(evs2) \in Nat
    BY DEF Grown
  <2> QED  BY <2>1 DEF Grown
<1>2. ASSUME NEW a, Told(a, evs, tld) PROVE Told(a, evs2, tld2)
  BY <1>1, <1>2 DEF Grown, Told
<1>3. ASSUME NEW tr, Sound(tr, evs, tld) PROVE Sound(tr, evs2, tld2)
  BY <1>1, <1>2, <1>3 DEF Grown, Sound
<1>4. \A f : RowsSound(f, evs, tld) => RowsSound(f, evs2, tld2)
  BY <1>2 DEF RowsSound
<1>5. \A s : ListSound(s, evs, tld) => ListSound(s, evs2, tld2)
  BY <1>3 DEF ListSound
<1> QED  BY <1>1, <1>2, <1>3, <1>4, <1>5

LEMMA ListLonger ==
    ASSUME NEW evs, NEW tld, NEW s, ListSound(s, evs, tld),
           NEW tr \in Transition, Sound(tr, evs, tld)
    PROVE  ListSound(Append(s, tr), evs, tld)
<1> DEFINE t == Append(s, tr)
<1>1. /\ t \in Seq(Transition) /\ Len(t) = Len(s) + 1 /\ Len(s) \in Nat
      /\ \A i \in 1 .. Len(s) : t[i] = s[i]
      /\ t[Len(s) + 1] = tr
  BY DEF ListSound
<1> HIDE DEF t
<1>2. ASSUME NEW i \in DOMAIN t PROVE Sound(t[i], evs, tld)
  <2>1. i \in 1 .. Len(s) \/ i = Len(s) + 1  BY <1>1
  <2>2. DOMAIN s = 1 .. Len(s)  BY DEF ListSound
  <2> QED  BY <1>1, <2>1, <2>2 DEF ListSound
<1>3. ListSound(t, evs, tld)  BY <1>1, <1>2 DEF ListSound
<1> QED  BY <1>3 DEF t

LEMMA ListShorter ==
    ASSUME NEW evs, NEW tld, NEW s, ListSound(s, evs, tld), s # <<>>
    PROVE  /\ ListSound(Tail(s), evs, tld)
           /\ Head(s) \in Transition /\ Sound(Head(s), evs, tld)
<1> DEFINE t == Tail(s)
<1>1. /\ t \in Seq(Transition) /\ DOMAIN t = 1 .. Len(s) - 1 /\ DOMAIN s = 1 .. Len(s) /\ Len(s) \in Nat \ {0}
      /\ \A i \in 1 .. Len(s) - 1 : t[i] = s[i + 1]
      /\ Head(s) = s[1] /\ s[1] \in Transition
  BY DEF ListSound
<1> HIDE DEF t
<1>2. ASSUME NEW i \in DOMAIN t PROVE Sound(t[i], evs, tld)
  <2>1. i + 1 \in DOMAIN s /\ t[i] = s[i + 1]  BY <1>1
  <2> QED  BY <2>1 DEF ListSound
<1>3. ListSound(t, evs, tld)  BY <1>1, <1>2 DEF ListSound
<1>4. Sound(Head(s), evs, tld)  BY <1>1 DEF ListSound
<1> QED  BY <1>1, <1>3, <1>4 DEF t

\* Ages stay ages, and a row that was never notified stays so.
LEMMA AgedRow ==
    ASSUME NEW row \in Row
    PROVE  Aged(row) \in Row /\ (Aged(row).notified = Never <=> row.notified = Never)
<1> USE EngineAssumption
<1>1. \A cap \in Nat : \A x \in Age(cap) : Older(x, cap) \in Age(cap) /\ (Older(x, cap) = Never <=> x = Never)
  BY DEF Older, Age, Never
<1>2. {Grace + 1, Cooldown, Short} \subseteq Nat
  OBVIOUS
<1>3. /\ row.notified \in Age(Cooldown) /\ row.unavailable \in Age(Grace + 1)
      /\ row.lasted \in 0 .. Short /\ row.suppressed \in 0 .. Suppression
  BY DEF Row
<1>4. Older(row.lasted, Short) \in 0 .. Short
  BY <1>2, <1>3 DEF Older, Never
<1>5. (IF row.suppressed = 0 THEN 0 ELSE row.suppressed - 1) \in 0 .. Suppression
  BY <1>3
<1>6. /\ Older(row.notified, Cooldown) \in Age(Cooldown)
      /\ Older(row.notified, Cooldown) = Never <=> row.notified = Never
      /\ Older(row.unavailable, Grace + 1) \in Age(Grace + 1)
  BY <1>1, <1>2, <1>3
<1> DEFINE n == Older(row.notified, Cooldown)  u == Older(row.unavailable, Grace + 1)
           l == Older(row.lasted, Short)  s == IF row.suppressed = 0 THEN 0 ELSE row.suppressed - 1
<1>7. Aged(row) = [row EXCEPT !.notified = n, !.lasted = l, !.unavailable = u, !.suppressed = s]
  BY DEF Aged
<1> HIDE DEF n, u, l, s
<1>8. n \in Age(Cooldown) /\ u \in Age(Grace + 1) /\ l \in 0 .. Short /\ s \in 0 .. Suppression
      /\ (n = Never <=> row.notified = Never)
  BY <1>4, <1>5, <1>6 DEF n, u, l, s
<1> QED  BY <1>7, <1>8 DEF Row

\* A row that has just been made, and the row of an alert that is not on record.
LEMMA FreshRows ==
    /\ \A sev \in 1 .. 3 : NewRow(sev) \in Row /\ NewRow(sev).notified = Never
    /\ NoRow \in Row /\ NoRow.notified = Never
<1>1. /\ Never \in Age(Cooldown) /\ Never \in Age(Grace + 1)
      /\ 0 \in 0 .. Short /\ 0 \in 0 .. Suppression
  BY EngineAssumption DEF Age, Never
<1>2. \A sev \in 1 .. 3 : NewRow(sev) \in Row /\ NewRow(sev).notified = Never
  BY <1>1 DEF NewRow, Row
<1> QED  BY <1>2 DEF NoRow, Row

\* An event of an alert is found, if there is one.
LEMMA LatestFound ==
    ASSUME EventsSound(events, told), NEW a, Told(a, events, told)
    PROVE  Latest(a) \in DOMAIN events /\ events[Latest(a)].alert = a
<1> DEFINE I == {i \in 1 .. Len(events) : events[i].alert = a}
<1>1. Len(events) \in Nat /\ DOMAIN events = 1 .. Len(events)  BY DEF EventsSound
<1>2. I \in SUBSET (1 .. Len(events)) /\ I # {}  BY <1>1 DEF Told
<1>3. Latest(a) = Max(I)
  BY <1>2 DEF Latest, SelectLastInSeq
<1> HIDE DEF I
<1>4. \E m \in I : \A k \in I : k <= m  BY <1>1, <1>2, Greatest
<1>5. \E m \in I : \A k \in I : m >= k
  BY <1>1, <1>2, <1>4
<1>6. Max(I) \in I  BY <1>5 DEF Max
<1> QED  BY <1>1, <1>3, <1>6 DEF I

\* What is written for some events and channels is recorded as sent only if it was told.
LEMMA RecordedSound ==
    ASSUME EventsSound(events, told), NEW E, NEW to \in SUBSET Channel, NEW pushes,
           pushes = [i \in E |-> pushes[i]],
           \A i \in E : pushes[i] \in [to -> {"sent", "failed", "skipped"}],
           NEW tld \in SUBSET ((1 .. MaxEvents) \X Channel), told \subseteq tld,
           \A i \in E \intersect DOMAIN events, c \in to : pushes[i][c] = "sent" => <<i, c>> \in tld
    PROVE  EventsSound(Recorded(pushes), tld) /\ Grown(events, told, Recorded(pushes), tld)
<1> DEFINE Push(i) == [c \in Channel |-> IF c \in DOMAIN pushes[i] THEN pushes[i][c] ELSE events[i].push[c]]
           R == Recorded(pushes)
<1>1. DOMAIN events = 1 .. Len(events) /\ Len(events) \in Nat /\ \A i \in DOMAIN events : events[i] \in Event
  BY DEF EventsSound
<1>2. R = [i \in DOMAIN events |-> IF i \notin E THEN events[i]
              ELSE [events[i] EXCEPT !.push = Push(i), !.summary = Aggregate(Push(i))]]
  BY DEF Recorded
<1>3. \A p : Aggregate(p) \in {"partial", "sent", "failed", "skipped"}
  BY DEF Aggregate
<1>4. ASSUME NEW i \in DOMAIN events, i \in E
      PROVE  /\ Push(i) \in [Channel -> {"none", "sent", "failed", "skipped"}]
             /\ \A c \in Channel : Push(i)[c] = "sent" => <<i, c>> \in tld
  <2>1. DOMAIN pushes[i] = to /\ pushes[i] \in [to -> {"sent", "failed", "skipped"}]
    BY <1>4
  <2>2. events[i].push \in [Channel -> {"none", "sent", "failed", "skipped"}]
    BY <1>1, <1>4 DEF Event
  <2>3. \A c \in Channel : events[i].push[c] = "sent" => <<i, c>> \in tld
    BY <1>4 DEF EventsSound
  <2> QED  BY <1>4, <2>1, <2>2, <2>3
<1> HIDE DEF Push, R
<1>5. ASSUME NEW i \in DOMAIN events
      PROVE  /\ R[i] \in Event /\ R[i].alert = events[i].alert /\ R[i].resolved = events[i].resolved
             /\ \A c \in Channel : R[i].push[c] = "sent" => <<i, c>> \in tld
  <2>1. CASE i \notin E
    BY <1>1, <1>2, <2>1 DEF EventsSound
  <2>2. CASE i \in E
    <3> DEFINE p == Push(i)  s == Aggregate(p)
    <3>1. p \in [Channel -> {"none", "sent", "failed", "skipped"}] /\ s \in {"partial", "sent", "failed", "skipped"}
      BY <1>3, <1>4, <2>2
    <3>2. R[i] = [events[i] EXCEPT !.push = p, !.summary = s]
      BY <1>2, <2>2
    <3>3. \A c \in Channel : p[c] = "sent" => <<i, c>> \in tld  BY <1>4, <2>2
    <3> HIDE DEF p, s
    <3>4. R[i] \in Event /\ R[i].push = p /\ R[i].alert = events[i].alert
          /\ R[i].resolved = events[i].resolved
      BY <1>1, <3>1, <3>2 DEF Event
    <3> QED  BY <3>3, <3>4
  <2> QED  BY <2>1, <2>2
<1>6. R \in [1 .. Len(events) -> Event]
  BY <1>1, <1>2, <1>5
<1>7. R \in Seq(Event) /\ Len(R) = Len(events) /\ DOMAIN R = DOMAIN events
  BY <1>1, <1>6
<1>8. EventsSound(R, tld)
  BY <1>5, <1>7 DEF EventsSound
<1>9. Grown(events, told, R, tld)
  BY <1>5, <1>7 DEF Grown, EventsSound
<1> QED  BY <1>8, <1>9 DEF R

\* A digest has a line for every entry but the ones that were folded away.
LEMMA GroupFacts ==
    ASSUME NEW entries \in Seq(Transition)
    PROVE  /\ \A l \in Group(entries).lines : \E i \in DOMAIN entries : entries[i] = l
           /\ \A i \in DOMAIN entries :
                 \/ entries[i].ev \in Group(entries).collapsed
                 \/ \E l \in Group(entries).lines : l.ev = entries[i].ev
<1> DEFINE N == Len(entries)
           base == [lines |-> {}, collapsed |-> {}]
           X == [lines : SUBSET Transition, collapsed : SUBSET (1 .. MaxEvents)]
           F == CHOOSE f : f = [i \in 0 .. N |-> IF i = 0 THEN base ELSE Fold(f[i - 1], entries[i])]
<1>1. N \in Nat /\ DOMAIN entries = 1 .. N /\ \A i \in 1 .. N : entries[i] \in Transition
  OBVIOUS
<1>2. ASSUME NEW g \in X, NEW tr \in Transition
      PROVE  /\ Fold(g, tr) \in X
             /\ \A l \in Fold(g, tr).lines : l \in g.lines \/ l = tr
             /\ tr.ev \in Fold(g, tr).collapsed \/ tr \in Fold(g, tr).lines
             /\ g.collapsed \subseteq Fold(g, tr).collapsed
             /\ \A l \in g.lines : l \in Fold(g, tr).lines \/ l.ev \in Fold(g, tr).collapsed
  <2> DEFINE same == {l \in g.lines : l.alert = tr.alert}
             open == {l \in same : l.kind # "resolved"}
             evs == {l.ev : l \in open}
  <2>1. Fold(g, tr) = IF open # {}
            THEN [[g EXCEPT !.lines = (g.lines \ open) \union {tr}] EXCEPT !.collapsed = @ \union evs]
            ELSE IF tr.kind = "resolved" /\ same # {}
            THEN [g EXCEPT !.collapsed = g.collapsed \union {tr.ev}]
            ELSE [g EXCEPT !.lines = g.lines \union {tr}]
    BY DEF Fold, Collapsed
  <2>2. g.lines \subseteq Transition /\ g.collapsed \subseteq 1 .. MaxEvents /\ tr.ev \in 1 .. MaxEvents
    BY DEF Transition
  <2>3. open \subseteq g.lines /\ evs \subseteq 1 .. MaxEvents /\ \A l \in open : l.ev \in evs
    BY <2>2 DEF Transition
  <2> HIDE DEF same, open, evs
  <2>4. CASE open # {}
    <3>1. /\ Fold(g, tr) \in X /\ Fold(g, tr).lines = (g.lines \ open) \union {tr}
          /\ Fold(g, tr).collapsed = g.collapsed \union evs
      <4> DEFINE new == [[g EXCEPT !.lines = (g.lines \ open) \union {tr}]
                              EXCEPT !.collapsed = @ \union evs]
      <4>1. Fold(g, tr) = new  BY <2>1, <2>4
      <4>2. new.lines = (g.lines \ open) \union {tr} /\ new.collapsed = g.collapsed \union evs
            /\ new \in X
        BY <2>2, <2>3
      <4> QED  BY <4>1, <4>2
    <3> QED  BY <2>3, <3>1
  <2>5. CASE open = {} /\ tr.kind = "resolved" /\ same # {}
    <3>1. /\ Fold(g, tr) \in X /\ Fold(g, tr).lines = g.lines
          /\ Fold(g, tr).collapsed = g.collapsed \union {tr.ev}
      BY <2>1, <2>2, <2>5
    <3> QED  BY <3>1
  <2>6. CASE open = {} /\ ~(tr.kind = "resolved" /\ same # {})
    <3>1. /\ Fold(g, tr) \in X /\ Fold(g, tr).lines = g.lines \union {tr}
          /\ Fold(g, tr).collapsed = g.collapsed
      BY <2>1, <2>2, <2>6
    <3> QED  BY <3>1
  <2> QED  BY <2>4, <2>5, <2>6
<1>3. base \in X  OBVIOUS
<1>4. /\ F[0] = base
      /\ \A n \in 1 .. N : F[n] = Fold(F[n - 1], entries[n])
  <2> DEFINE step == [p \in X \X (1 .. N) |-> Fold(p[1], entries[p[2]])]
  <2> HIDE DEF base, X
  <2>1. step \in [X \X (1 .. N) -> X]  BY <1>1, <1>2
  <2>2. \A g \in X, n \in 1 .. N : step[<<g, n>>] = Fold(g, entries[n])  OBVIOUS
  <2> HIDE DEF step
  <2>3. PICK f : IsFold(f, X, N, base, step)
    <3> HIDE DEF N, F
    <3>1. Foldable(X, N, base, step)  BY <1>1, <1>3, <2>1 DEF Foldable
    <3> QED  BY <3>1, FoldedUp
  <2>10. /\ f \in [0 .. N -> X] /\ f[0] = base
         /\ \A n \in 1 .. N : f[n] = step[<<f[n - 1], n>>]
    BY <2>3 DEF IsFold
  <2>4. ASSUME NEW n \in 1 .. N PROVE f[n] = Fold(f[n - 1], entries[n])
    <3>1. n - 1 \in 0 .. N  BY <1>1
    <3>2. f[n - 1] \in X  BY <2>10, <3>1
    <3> QED  BY <2>2, <2>10, <3>2
  <2>5. f = [i \in 0 .. N |-> IF i = 0 THEN base ELSE Fold(f[i - 1], entries[i])]
    <3>1. \A i \in 0 .. N : i = 0 \/ i \in 1 .. N  BY <1>1
    <3>2. \A i \in 0 .. N : f[i] = IF i = 0 THEN base ELSE Fold(f[i - 1], entries[i])
      BY <2>10, <2>4, <3>1
    <3> HIDE DEF N
    <3> QED  BY <2>10, <3>2
  <2>6. F = [i \in 0 .. N |-> IF i = 0 THEN base ELSE Fold(F[i - 1], entries[i])]
    BY <2>5
  <2> HIDE DEF F, N
  <2>7. 0 \in 0 .. N /\ \A n \in 1 .. N : n \in 0 .. N /\ n # 0  BY <1>1
  <2>8. F[0] = base  BY <2>6, <2>7
  <2>9. ASSUME NEW n \in 1 .. N PROVE F[n] = Fold(F[n - 1], entries[n])
    BY <2>6, <2>7
  <2> QED  BY <2>8, <2>9
<1>5. Group(entries) = F[N]  BY DEF Group
<1> HIDE DEF F, N
<1> DEFINE Good(n) == /\ F[n] \in X
                      /\ \A l \in F[n].lines : \E i \in 1 .. n : entries[i] = l
                      /\ \A i \in 1 .. n : \/ entries[i].ev \in F[n].collapsed
                                           \/ \E l \in F[n].lines : l.ev = entries[i].ev
           S == {n \in Nat : n <= N => Good(n)}
<1>6. 0 \in S
  <2>1. F[0] \in X /\ F[0].lines = {}  BY <1>3, <1>4
  <2> QED  BY <2>1
<1>7. ASSUME NEW n \in Nat, n \in S PROVE n + 1 \in S
  <2> SUFFICES ASSUME n + 1 <= N PROVE Good(n + 1)
    <3> HIDE DEF Good
    <3> QED  OBVIOUS
  <2>1. Good(n) /\ n + 1 \in 1 .. N /\ (n + 1) - 1 = n  BY <1>1, <1>7
  <2> DEFINE g == F[n]  h == F[n + 1]  tr == entries[n + 1]
  <2>2. h = Fold(g, tr) /\ g \in X /\ tr \in Transition  BY <1>1, <1>4, <2>1
  <2>3. /\ h \in X
        /\ \A l \in h.lines : l \in g.lines \/ l = tr
        /\ tr.ev \in h.collapsed \/ tr \in h.lines
        /\ g.collapsed \subseteq h.collapsed
        /\ \A l \in g.lines : l \in h.lines \/ l.ev \in h.collapsed
    <3> HIDE DEF g, h, tr, X
    <3> QED  BY <1>2, <2>2
  <2>4. /\ \A l \in g.lines : \E i \in 1 .. n : entries[i] = l
        /\ \A i \in 1 .. n : \/ entries[i].ev \in g.collapsed
                             \/ \E l \in g.lines : l.ev = entries[i].ev
    BY <2>1
  <2>5. entries[n + 1] = tr  OBVIOUS
  <2> HIDE DEF g, h, tr, X
  <2>6. \A i \in 1 .. n + 1 : i \in 1 .. n \/ i = n + 1  OBVIOUS
  <2>7. \A i \in 1 .. n : i \in 1 .. n + 1  OBVIOUS
  <2>8. \A l \in h.lines : \E i \in 1 .. n + 1 : entries[i] = l
    BY <2>3, <2>4, <2>5, <2>7
  <2>9. \A i \in 1 .. n + 1 : \/ entries[i].ev \in h.collapsed
                              \/ \E l \in h.lines : l.ev = entries[i].ev
    BY <2>3, <2>4, <2>5, <2>6
  <2>10. h \in X  BY <2>3
  <2> QED  BY <2>8, <2>9, <2>10 DEF h
<1>8. N \in S
  <2> HIDE DEF S
  <2> QED  BY <1>1, <1>6, <1>7, Inductive
<1>9. Good(N)  BY <1>1, <1>8
<1> QED  BY <1>1, <1>5, <1>9

-----------------------------------------------------------------------------
(***************************************************************************)
(* The invariant.                                                          *)
(***************************************************************************)
\* A row an alert may have.
Good(a, row) == row \in Row /\ (row.notified # Never => Told(a, events, told))

\* The invariant: of the timeline, the rows, the rows an evaluation loaded, the list of
\* transitions and every digest.
Honest ==
    /\ EventsSound(events, told)
    /\ RowsSound(rows, events, told) /\ RowsSound(loaded, events, told)
    /\ ListSound(todo, events, told)
    /\ DOMAIN digest = Channel /\ digest = [c \in Channel |-> digest[c]]
    /\ \A c \in Channel : ListSound(digest[c], events, told)

\* A row that is saved may take the place of the one on record.
LEMMA RowSaved ==
    ASSUME RowsSound(rows, events, told), NEW a \in Alert, NEW row, Good(a, row)
    PROVE  RowsSound([rows EXCEPT ![a] = row], events, told)
BY DEF RowsSound, Good

\* What a step that leaves the timeline and what was told alone must keep.
LEMMA HonestKept ==
    ASSUME Honest, Grown(events, told, events', told'), EventsSound(events', told'),
           RowsSound(rows', events', told') \/ RowsSound(rows', events, told),
           RowsSound(loaded', events, told),
           ListSound(todo', events', told') \/ ListSound(todo', events, told),
           UNCHANGED digest
    PROVE  Honest'
BY ToldStays DEF Honest

\* A new event, and the transition that tells of it.
LEMMA Emitted ==
    ASSUME Honest, NEW a \in Alert, NEW row, Good(a, row),
           NEW kind \in {"firing", "upgraded", "resolved"}, Emit(a, row, kind), told' = told
    PROVE  /\ Grown(events, told, events', told') /\ EventsSound(events', told')
           /\ ListSound(todo', events', told')
<1> DEFINE e == [alert |-> a, sev |-> row.sev, resolved |-> kind = "resolved",
                 summary |-> "", push |-> [c \in Channel |-> "none"]]
           n == Len(events) + 1
           tr == [alert |-> a, state |-> row, ev |-> n, sev |-> row.sev, kind |-> kind]
<1>1. events' = Append(events, e) /\ Len(events) < MaxEvents /\ todo' = Append(todo, tr)
  BY DEF Emit, Tell
<1>2. row \in Row /\ row.sev \in 1 .. 3  BY DEF Good, Row
<1>3. e \in Event /\ e.alert = a /\ (e.resolved <=> kind = "resolved") /\ \A c \in Channel : e.push[c] = "none"
  BY <1>2 DEF Event
<1>4. MaxEvents \in Nat  BY EngineAssumption
<1>5. events \in Seq(Event) /\ Len(events) \in Nat  BY DEF Honest, EventsSound
<1>6. n \in 1 .. MaxEvents
  <2>1. Len(events) < MaxEvents  BY <1>1
  <2> HIDE DEF e, tr
  <2> QED  BY <1>4, <1>5, <2>1
<1>7. tr \in Transition /\ tr.ev = n /\ tr.state = row /\ tr.alert = a /\ tr.kind = kind
  BY <1>2, <1>6 DEF Transition
<1> HIDE DEF e, tr
<1>8. /\ events' \in Seq(Event) /\ Len(events') = n /\ DOMAIN events' = 1 .. n
      /\ DOMAIN events = 1 .. Len(events)
      /\ \A i \in 1 .. Len(events) : events'[i] = events[i]
      /\ events'[n] = e
  BY <1>1, <1>3, <1>5
<1>9. Grown(events, told, events', told')
  BY <1>5, <1>8 DEF Grown
<1>10. EventsSound(events', told')
  <2>1. ASSUME NEW i \in DOMAIN events', NEW c \in Channel, events'[i].push[c] = "sent"
        PROVE  <<i, c>> \in told'
    <3>1. i \in 1 .. Len(events) \/ i = n  BY <1>5, <1>8
    <3> QED  BY <1>3, <1>8, <2>1, <3>1 DEF Honest, EventsSound
  <2>2. Len(events') <= MaxEvents  BY <1>6, <1>8
  <2> QED  BY <1>8, <2>1, <2>2 DEF Honest, EventsSound
<1>11. Sound(tr, events', told')
  <2>1. row.notified # Never => Told(a, events', told')
    BY <1>9, ToldStays DEF Good
  <2>2. n \in DOMAIN events' /\ events'[n].alert = a /\ (kind # "resolved" => ~events'[n].resolved)
    BY <1>3, <1>5, <1>8
  <2> QED  BY <1>7, <2>1, <2>2 DEF Sound
<1>12. ListSound(todo', events', told')
  <2>1. ListSound(todo, events', told')  BY <1>9, ToldStays DEF Honest
  <2> QED  BY <1>1, <1>7, <1>11, <2>1, ListLonger
<1> QED  BY <1>9, <1>10, <1>12

\* A reminder tells again of the alert's latest event.
LEMMA Reminded ==
    ASSUME Honest, NEW a \in Alert, NEW row, Good(a, row), row.notified = Cooldown,
           Tell(a, row, "reminder", Latest(a))
    PROVE  ListSound(todo', events, told)
<1> DEFINE n == Latest(a)
           tr == [alert |-> a, state |-> row, ev |-> n, sev |-> row.sev, kind |-> "reminder"]
<1>1. todo' = Append(todo, tr)  BY DEF Tell
<1>2. Told(a, events, told)  BY EngineAssumption DEF Good, Never
<1>3. n \in DOMAIN events /\ events[n].alert = a  BY <1>2, LatestFound DEF Honest
<1>4. n \in 1 .. MaxEvents
  BY <1>3, EngineAssumption DEF Honest, EventsSound
<1> HIDE DEF n
<1>5. row \in Row /\ row.sev \in 1 .. 3  BY DEF Good, Row
<1>6. tr \in Transition /\ tr.ev = n /\ tr.state = row /\ tr.alert = a /\ tr.kind = "reminder"
  BY <1>4, <1>5 DEF Transition
<1> HIDE DEF tr
<1>7. Sound(tr, events, told)  BY <1>2, <1>3, <1>6 DEF Sound
<1> QED  BY <1>1, <1>6, <1>7, ListLonger DEF Honest

\* The engine's loop body (engine.go, apply): whatever it saves was loaded before.
LEMMA EvaluateHonest == ASSUME Honest, NEW a \in Alert, Evaluate(a) PROVE Honest'
<1>1. /\ Apply(a) /\ told' = told /\ digest' = digest
  BY DEF Evaluate
<1>2. RowsSound(loaded', events, told)
  <2>1. loaded' = [loaded EXCEPT ![a] = NoRow]  BY <1>1 DEF Apply
  <2> QED  BY <2>1, FreshRows DEF Honest, RowsSound
<1>3. Good(a, loaded[a])  BY DEF Good, Honest, RowsSound
<1>4. EventsSound(events, told) /\ Grown(events, told, events, told)
  BY DEF Honest, EventsSound, Grown
<1>5. ASSUME NEW row, Good(a, row), NEW kind \in {"firing", "upgraded", "resolved"},
             Save(a, row), Emit(a, row, kind)
      PROVE  Honest'
  <2>1. RowsSound(rows', events, told)
    BY <1>5, RowSaved DEF Save, Honest
  <2>2. /\ Grown(events, told, events', told') /\ EventsSound(events', told')
        /\ ListSound(todo', events', told')
    BY <1>1, <1>5, Emitted
  <2> QED  BY <1>1, <1>2, <2>1, <2>2, HonestKept
<1>6. ASSUME NEW row, Good(a, row), Save(a, row), events' = events,
             ListSound(todo', events, told)
      PROVE  Honest'
  <2>1. RowsSound(rows', events, told)
    BY <1>6, RowSaved DEF Save, Honest
  <2> QED  BY <1>1, <1>2, <1>4, <1>6, <2>1, HonestKept
<1>7. ASSUME UNCHANGED <<rows, events, todo>> PROVE Honest'
  BY <1>1, <1>2, <1>4, <1>7, HonestKept DEF Honest
<1>8. ASSUME NEW row, Good(a, row)
      PROVE  Good(a, Flapped(a, row))
  <2>1. Suppression \in 0 .. Suppression  BY EngineAssumption
  <2> QED  BY <1>8, <2>1 DEF Flapped, Good, Row
<1>9. CASE NoData(a)
  <2>1. ASSUME NEW u \in Age(Grace + 1) PROVE Good(a, [loaded[a] EXCEPT !.unavailable = u])
    BY <1>3 DEF Good, Row
  <2>2. Good(a, [loaded[a] EXCEPT !.status = "resolved"])
    BY <1>3 DEF Good, Row
  <2>3. 0 \in Age(Grace + 1)  BY EngineAssumption DEF Age, Never
  <2>4. \/ UNCHANGED <<rows, events, todo>>
        \/ Save(a, [loaded[a] EXCEPT !.unavailable = 0]) /\ UNCHANGED <<events, todo>>
        \/ /\ Save(a, [loaded[a] EXCEPT !.status = "resolved"])
           /\ Emit(a, [loaded[a] EXCEPT !.status = "resolved"], "resolved")
    BY <1>9 DEF NoData
  <2> QED  BY <1>5, <1>6, <1>7, <2>1, <2>2, <2>3, <2>4 DEF Honest
<1>10. CASE Clean(a)
  <2> DEFINE row == [loaded[a] EXCEPT !.status = "resolved", !.disp = "open"]
  <2>1. Good(a, row)  BY <1>3 DEF Good, Row
  <2>2. UNCHANGED <<rows, events, todo>> \/ Flip(a, row, "resolved")
    BY <1>10 DEF Clean
  <2> HIDE DEF row
  <2> QED  BY <1>5, <1>7, <1>8, <2>1, <2>2 DEF Flip
<1>11. CASE Quiet(a)
  BY <1>7, <1>11 DEF Quiet
<1>12. ASSUME NEW sev \in Severity, HitAgain(a, sev) PROVE Honest'
  <2> DEFINE row == [loaded[a] EXCEPT !.unavailable = Never]
             up == [row EXCEPT !.sev = sev]
  <2>1. sev \in 1 .. 3 /\ Never \in Age(Grace + 1)  BY EngineAssumption DEF Age, Never
  <2>2. Good(a, row)  BY <1>3, <2>1 DEF Good, Row
  <2>3. \/ Save(a, up) /\ Emit(a, up, "upgraded")
        \/ /\ Save(a, row) /\ events' = events
           /\ \/ row.notified = Cooldown /\ Tell(a, row, "reminder", Latest(a))
              \/ todo' = todo
    BY <1>12 DEF HitAgain, ReminderDue
  <2> HIDE DEF row
  <2>4. Good(a, up)  BY <2>1, <2>2 DEF Good, Row
  <2> HIDE DEF up
  <2> QED  BY <1>5, <1>6, <2>2, <2>3, <2>4, Reminded DEF Honest
<1>13. ASSUME NEW sev \in Severity, Hit(a, sev) PROVE Honest'
  <2>1. sev \in 1 .. 3  BY EngineAssumption
  <2>2. Good(a, NewRow(sev))  BY <2>1, FreshRows DEF Good
  <2>3. UNCHANGED <<rows, events, todo>> \/ Flip(a, NewRow(sev), "firing")
    BY <1>13 DEF Hit
  <2> QED  BY <1>5, <1>7, <1>8, <2>2, <2>3 DEF Flip
<1> QED  BY <1>1, <1>9, <1>10, <1>11, <1>12, <1>13 DEF Apply

\* A minute goes by: rows age, those that wait in digests too.
LEMMA TickHonest == ASSUME Honest, Tick PROVE Honest'
<1>1. /\ UNCHANGED <<events, todo, told>>
      /\ rows' = [a \in Alert |-> Aged(rows[a])] /\ loaded' = rows'
      /\ digest' = [c \in Channel |->
                      [i \in DOMAIN digest[c] |-> [digest[c][i] EXCEPT !.state = Aged(@)]]]
  BY DEF Tick, Load
<1>2. RowsSound(rows', events, told)
  BY <1>1, AgedRow DEF Honest, RowsSound
<1>3. ASSUME NEW c \in Channel PROVE ListSound(digest'[c], events, told)
  <2> DEFINE s == digest[c]
             t == digest'[c]
             Older2(tr) == [tr EXCEPT !.state = Aged(tr.state)]
  <2>1. s \in Seq(Transition) /\ \A i \in DOMAIN s : Sound(s[i], events, told)
    BY DEF Honest, ListSound
  <2>2. t = [i \in DOMAIN s |-> Older2(s[i])]
    BY <1>1
  <2>3. DOMAIN s = 1 .. Len(s) /\ Len(s) \in Nat /\ \A i \in DOMAIN s : s[i] \in Transition
    BY <2>1
  <2> HIDE DEF s, t
  <2>4. ASSUME NEW tr \in Transition, Sound(tr, events, told)
        PROVE  Older2(tr) \in Transition /\ Sound(Older2(tr), events, told)
    <3> DEFINE row == Aged(tr.state)  old == Older2(tr)
    <3>1. row \in Row /\ (row.notified = Never <=> tr.state.notified = Never)
      BY <2>4, AgedRow DEF Transition
    <3>2. old = [tr EXCEPT !.state = row]  OBVIOUS
    <3> HIDE DEF row, old
    <3>3. old \in Transition /\ old.ev = tr.ev /\ old.alert = tr.alert /\ old.kind = tr.kind
          /\ old.state = row
      BY <3>1, <3>2 DEF Transition
    <3>4. Sound(old, events, told)  BY <2>4, <3>1, <3>3 DEF Sound
    <3> QED  BY <3>3, <3>4 DEF old
  <2> HIDE DEF Older2
  <2>5. t \in [1 .. Len(s) -> Transition]  BY <2>1, <2>2, <2>3, <2>4
  <2>6. t \in Seq(Transition) /\ DOMAIN t = DOMAIN s  BY <2>3, <2>5
  <2>7. \A i \in DOMAIN t : Sound(t[i], events, told)
    BY <2>1, <2>2, <2>3, <2>4, <2>6
  <2>8. ListSound(t, events, told)  BY <2>6, <2>7 DEF ListSound
  <2> QED  BY <2>8 DEF t
<1>4. DOMAIN digest' = Channel /\ digest' = [c \in Channel |-> digest'[c]]
  BY <1>1
<1> QED  BY <1>1, <1>2, <1>3, <1>4 DEF Honest

\* What was delivered is told of an event that exists.
LEMMA SentNow ==
    ASSUME Honest, NEW tr \in Transition, Sound(tr, events, told),
           NEW ok \in [Channel -> BOOLEAN], SendNow(tr, ok)
    PROVE  /\ Grown(events, told, events', told') /\ EventsSound(events', told')
           /\ RowsSound(rows', events', told') /\ UNCHANGED digest
<1> DEFINE to == Targets(P0)
           delivered == {c \in to : ok[c]}
           pushes == [i \in {tr.ev} |-> [c \in to |-> Outcome(ok[c])]]
<1>1. /\ events' = Recorded(pushes) /\ told' = told \union {<<tr.ev, c>> : c \in delivered}
      /\ rows' = IF delivered # {} /\ tr.kind # "resolved"
                 THEN [rows EXCEPT ![tr.alert] = [tr.state EXCEPT !.notified = 0]]
                 ELSE rows
      /\ UNCHANGED digest
  BY DEF SendNow
<1>2. to \in SUBSET Channel /\ delivered \subseteq Channel  BY DEF Targets
<1>3. tr.ev \in DOMAIN events /\ tr.ev \in 1 .. MaxEvents  BY DEF Sound, Transition
<1>4. /\ pushes = [i \in {tr.ev} |-> pushes[i]]
      /\ \A i \in {tr.ev} : pushes[i] \in [to -> {"sent", "failed", "skipped"}]
      /\ \A i \in {tr.ev} \intersect DOMAIN events, c \in to : pushes[i][c] = "sent" => c \in delivered
  BY DEF Outcome
<1>5. told' \in SUBSET ((1 .. MaxEvents) \X Channel) /\ told \subseteq told'
  BY <1>1, <1>2, <1>3 DEF Honest, EventsSound
<1>6. \A i \in {tr.ev} \intersect DOMAIN events, c \in to : pushes[i][c] = "sent" => <<i, c>> \in told'
  BY <1>1, <1>4
<1> HIDE DEF pushes, to
<1>7. EventsSound(events', told') /\ Grown(events, told, events', told')
  <2>1. EventsSound(events, told)  BY DEF Honest
  <2> HIDE DEF delivered
  <2>2. EventsSound(Recorded(pushes), told') /\ Grown(events, told, Recorded(pushes), told')
    BY <1>2, <1>4, <1>5, <1>6, <2>1, RecordedSound
  <2> QED  BY <1>1, <2>2
<1>8. RowsSound(rows, events', told')  BY <1>7, ToldStays DEF Honest
<1>9. ASSUME delivered # {}, tr.kind # "resolved" PROVE RowsSound(rows', events', told')
  <2>1. Told(tr.alert, events', told')
    <3>1. PICK c \in Channel : <<tr.ev, c>> \in told'  BY <1>1, <1>2, <1>9
    <3>2. Told(tr.alert, events, told)
            \/ (events[tr.ev].alert = tr.alert /\ ~events[tr.ev].resolved)
      BY <1>9 DEF Sound
    <3>3. CASE Told(tr.alert, events, told)  BY <1>7, <3>3, ToldStays
    <3>4. CASE events[tr.ev].alert = tr.alert /\ ~events[tr.ev].resolved
      <4>1. tr.ev \in DOMAIN events' /\ events'[tr.ev].alert = tr.alert /\ ~events'[tr.ev].resolved
        BY <1>3, <1>7, <3>4, ToldStays DEF Grown
      <4> QED  BY <3>1, <4>1 DEF Told
    <3> QED  BY <3>2, <3>3, <3>4
  <2> DEFINE row == [tr.state EXCEPT !.notified = 0]
  <2>2. 0 \in Age(Cooldown)  BY EngineAssumption DEF Age, Never
  <2>3. row \in Row  BY <2>2 DEF Transition, Row
  <2>4. rows' = [rows EXCEPT ![tr.alert] = row]  BY <1>1, <1>9
  <2> HIDE DEF row
  <2> QED  BY <1>8, <2>1, <2>3, <2>4 DEF RowsSound
<1>10. RowsSound(rows', events', told')
  BY <1>1, <1>8, <1>9
<1> QED  BY <1>1, <1>7, <1>10

\* A summary is written over, no delivery is.
LEMMA MarkedSound ==
    ASSUME Honest, NEW ev, NEW summary \in {"pending", "skipped", "suppressed"},
           events' = Marked(ev, summary), told' = told
    PROVE  Grown(events, told, events', told') /\ EventsSound(events', told')
<1>1. events \in Seq(Event) /\ DOMAIN events = 1 .. Len(events) /\ Len(events) \in Nat
  BY DEF Honest, EventsSound
<1>2. events' = [events EXCEPT ![ev].summary = summary]  BY DEF Marked
<1>3. \A i \in DOMAIN events : /\ events'[i] \in Event /\ events'[i].push = events[i].push
                               /\ events'[i].alert = events[i].alert
                               /\ events'[i].resolved = events[i].resolved
  <2> SUFFICES ASSUME NEW i \in DOMAIN events
               PROVE  /\ events'[i] \in Event /\ events'[i].push = events[i].push
                      /\ events'[i].alert = events[i].alert
                      /\ events'[i].resolved = events[i].resolved
    OBVIOUS
  <2>1. events[i] \in Event  BY <1>1
  <2>2. events'[i] = events[i] \/ events'[i] = [events[i] EXCEPT !.summary = summary]
    BY <1>2
  <2> QED  BY <2>1, <2>2 DEF Event
<1>4. events' \in [1 .. Len(events) -> Event]  BY <1>1, <1>2, <1>3
<1>5. events' \in Seq(Event) /\ Len(events') = Len(events) /\ DOMAIN events' = DOMAIN events
  BY <1>1, <1>4
<1> QED  BY <1>3, <1>5 DEF Grown, Honest, EventsSound

\* The head of the list is withheld, put in digests or sent at once.
LEMMA DispatchHonest == ASSUME Honest, Dispatch PROVE Honest'
<1> DEFINE tr == Head(todo)
<1>1. todo # <<>> /\ todo' = Tail(todo) /\ loaded' = loaded
      /\ \/ /\ Withheld(tr) # "no"
            /\ events' = Marked(tr.ev, Withheld(tr))
            /\ UNCHANGED <<rows, digest, due, told>>
         \/ Withheld(tr) = "no" /\ tr.sev = P1 /\ Enqueue(tr)
         \/ \E ok \in [Channel -> BOOLEAN] : SendNow(tr, ok)
  BY DEF Dispatch
<1> HIDE DEF tr
<1>2. ListSound(Tail(todo), events, told) /\ tr \in Transition /\ Sound(tr, events, told)
  BY <1>1, ListShorter DEF tr, Honest
<1>3. ASSUME Grown(events, told, events', told'), EventsSound(events', told'),
             RowsSound(rows', events', told'),
             DOMAIN digest' = Channel, digest' = [c \in Channel |-> digest'[c]],
             \A c \in Channel : ListSound(digest'[c], events, told)
      PROVE  Honest'
  BY <1>1, <1>2, <1>3, ToldStays DEF Honest
<1>4. CASE Withheld(tr) # "no" /\ events' = Marked(tr.ev, Withheld(tr)) /\ UNCHANGED <<rows, digest, due, told>>
  <2>1. Withheld(tr) \in {"skipped", "suppressed"}
    BY <1>2, <1>4 DEF Withheld, Transition, P1
  <2>2. Grown(events, told, events', told') /\ EventsSound(events', told')
    BY <1>4, <2>1, MarkedSound
  <2> QED  BY <1>3, <1>4, <2>2, ToldStays DEF Honest
<1>5. CASE Enqueue(tr)
  <2>1. /\ digest' = [c \in Channel |-> IF c \in Targets(P1) THEN Append(digest[c], tr) ELSE digest[c]]
        /\ events' = Marked(tr.ev, "pending") /\ UNCHANGED <<rows, told>>
    BY <1>5 DEF Enqueue
  <2>2. Grown(events, told, events', told') /\ EventsSound(events', told')
    BY <2>1, MarkedSound
  <2>3. \A c \in Channel : ListSound(digest'[c], events, told)
    BY <1>2, <2>1, ListLonger DEF Honest
  <2>4. DOMAIN digest' = Channel /\ digest' = [c \in Channel |-> digest'[c]]
    BY <2>1
  <2>5. RowsSound(rows', events', told')  BY <2>1, <2>2, ToldStays DEF Honest
  <2> QED  BY <1>3, <2>2, <2>3, <2>4, <2>5
<1>6. ASSUME NEW ok \in [Channel -> BOOLEAN], SendNow(tr, ok) PROVE Honest'
  BY <1>2, <1>3, <1>6, SentNow DEF Honest
<1> QED  BY <1>1, <1>4, <1>5, <1>6

\* A digest that leaves tells of its lines only; what was folded away is skipped.
LEMMA FlushHonest == ASSUME Honest, NEW c \in Channel, Flush(c) PROVE Honest'
<1>1. /\ UNCHANGED <<loaded, todo>> /\ digest' = [digest EXCEPT ![c] = <<>>]
      /\ Reject(c) \/ \E ok \in BOOLEAN : Mail(c, ok)
  BY DEF Flush
<1>2. ListSound(<<>>, events, told)  BY DEF ListSound
<1>3. \A d \in Channel : ListSound(digest'[d], events, told)
  BY <1>1, <1>2 DEF Honest
<1>4. DOMAIN digest' = Channel /\ digest' = [d \in Channel |-> digest'[d]]
  BY <1>1 DEF Honest
<1>5. ASSUME Grown(events, told, events', told'), EventsSound(events', told'),
             RowsSound(rows', events', told')
      PROVE  Honest'
  BY <1>1, <1>3, <1>4, <1>5, ToldStays DEF Honest
<1> DEFINE q == digest[c]
<1>6. /\ q \in Seq(Transition) /\ \A i \in DOMAIN q : q[i] \in Transition /\ Sound(q[i], events, told)
      /\ \A i \in Queued(c) : \E k \in DOMAIN q : q[k].ev = i
  BY DEF Honest, ListSound, Queued
<1>7. EventsSound(events, told) /\ told \subseteq (1 .. MaxEvents) \X Channel
  BY DEF Honest, EventsSound
<1>8. CASE Reject(c)
  <2> DEFINE pushes == [i \in Queued(c) |-> [x \in {c} |-> "skipped"]]
             E == Queued(c)
  <2>1. events' = Recorded(pushes) /\ UNCHANGED <<rows, told>>
    BY <1>8 DEF Reject
  <2>2. /\ pushes = [i \in E |-> pushes[i]]
        /\ \A i \in E : pushes[i] \in [{c} -> {"sent", "failed", "skipped"}]
        /\ \A i \in E \intersect DOMAIN events, d \in {c} : pushes[i][d] = "sent" => <<i, d>> \in told
    OBVIOUS
  <2>5. {c} \in SUBSET Channel /\ told \in SUBSET ((1 .. MaxEvents) \X Channel) /\ told \subseteq told
    BY <1>7
  <2> HIDE DEF pushes, E
  <2>3. EventsSound(events', told') /\ Grown(events, told, events', told')
    <3>1. EventsSound(Recorded(pushes), told) /\ Grown(events, told, Recorded(pushes), told)
      BY <1>7, <2>2, <2>5, RecordedSound
    <3> QED  BY <2>1, <3>1
  <2>4. RowsSound(rows', events', told')  BY <2>1, <2>3, ToldStays DEF Honest
  <2> QED  BY <1>5, <2>3, <2>4
<1>9. ASSUME NEW ok \in BOOLEAN, Mail(c, ok) PROVE Honest'
  <2> DEFINE group == Group(q)
             firing == {l \in group.lines : l.kind # "resolved" /\ l.ev \notin group.collapsed}
             pushes == [i \in Queued(c) |->
                          [x \in {c} |-> IF i \in group.collapsed THEN "skipped" ELSE Outcome(ok)]]
             E == Queued(c)
  <2>1. /\ events' = Recorded(pushes)
        /\ told' = IF ok THEN told \union {<<l.ev, c>> : l \in group.lines} ELSE told
        /\ rows' = [a \in Alert |->
                      IF ok /\ \E l \in firing : l.alert = a
                      THEN [(CHOOSE l \in firing : l.alert = a).state EXCEPT !.notified = 0]
                      ELSE rows[a]]
    BY <1>9 DEF Mail
  <2>2. /\ \A l \in group.lines : l \in Transition /\ Sound(l, events, told)
        /\ \A i \in E : i \in group.collapsed \/ \E l \in group.lines : l.ev = i
    <3>1. /\ \A l \in Group(q).lines : \E i \in DOMAIN q : q[i] = l
          /\ \A i \in DOMAIN q :
                 \/ q[i].ev \in Group(q).collapsed
                 \/ \E l \in Group(q).lines : l.ev = q[i].ev
      BY <1>6, GroupFacts
    <3> HIDE DEF q
    <3> QED  BY <1>6, <3>1
  <2>3. /\ pushes = [i \in E |-> pushes[i]]
        /\ \A i \in E : pushes[i] \in [{c} -> {"sent", "failed", "skipped"}]
        /\ \A i \in E \intersect DOMAIN events, d \in {c} :
              pushes[i][d] = "sent" => ok /\ d = c /\ i \notin group.collapsed
    BY DEF Outcome
  <2> HIDE DEF group, pushes
  <2>4. told \subseteq told' /\ told' \in SUBSET ((1 .. MaxEvents) \X Channel)
    BY <1>7, <2>1, <2>2 DEF Transition
  <2>5. \A i \in E \intersect DOMAIN events, d \in {c} : pushes[i][d] = "sent" => <<i, d>> \in told'
    BY <2>1, <2>2, <2>3
  <2> HIDE DEF E
  <2>6. EventsSound(events', told') /\ Grown(events, told, events', told')
    <3>1. EventsSound(Recorded(pushes), told') /\ Grown(events, told, Recorded(pushes), told')
      BY <1>7, <2>3, <2>4, <2>5, RecordedSound
    <3> QED  BY <2>1, <3>1
  <2>7. RowsSound(rows, events', told')  BY <2>6, ToldStays DEF Honest
  <2>8. ASSUME NEW a \in Alert
        PROVE  rows'[a] \in Row /\ (rows'[a].notified # Never => Told(a, events', told'))
    <3>1. CASE ok /\ \E l \in firing : l.alert = a
      <4> DEFINE l == CHOOSE l \in firing : l.alert = a
      <4>1. l \in firing /\ l.alert = a  BY <3>1
      <4>2. rows'[a] = [l.state EXCEPT !.notified = 0]  BY <2>1, <3>1
      <4> HIDE DEF l
      <4>3. l \in Transition /\ Sound(l, events, told) /\ l.kind # "resolved" /\ <<l.ev, c>> \in told'
        BY <2>1, <2>2, <3>1, <4>1
      <4>4. Told(a, events', told')
        <5>1. l.ev \in DOMAIN events
              /\ (Told(a, events, told) \/ (events[l.ev].alert = a /\ ~events[l.ev].resolved))
          BY <4>1, <4>3 DEF Sound
        <5>2. CASE Told(a, events, told)  BY <2>6, <5>2, ToldStays
        <5>3. CASE events[l.ev].alert = a /\ ~events[l.ev].resolved
          <6>1. l.ev \in DOMAIN events' /\ events'[l.ev].alert = a /\ ~events'[l.ev].resolved
            BY <2>6, <5>1, <5>3, ToldStays DEF Grown
          <6> QED  BY <4>3, <6>1 DEF Told
        <5> QED  BY <5>1, <5>2, <5>3
      <4>5. 0 \in Age(Cooldown)  BY EngineAssumption DEF Age, Never
      <4>6. rows'[a] \in Row  BY <4>2, <4>3, <4>5 DEF Transition, Row
      <4> QED  BY <4>4, <4>6
    <3>2. CASE ~(ok /\ \E l \in firing : l.alert = a)
      <4>1. rows'[a] = rows[a]  BY <2>1, <3>2
      <4> QED  BY <2>7, <4>1 DEF RowsSound
    <3> QED  BY <3>1, <3>2
  <2>9. rows' \in [Alert -> Row]  BY <2>1, <2>8
  <2>10. RowsSound(rows', events', told')  BY <2>8, <2>9 DEF RowsSound
  <2> QED  BY <1>5, <2>6, <2>10
<1> QED  BY <1>1, <1>8, <1>9

\* An operator sends an event again: nobody's row is marked by it.
LEMMA RetryHonest ==
    ASSUME Honest, NEW c \in Channel, NEW ev \in DOMAIN events, NEW ok \in BOOLEAN,
           RetryPush(ev, c, ok)
    PROVE  Honest'
<1> DEFINE pushes == [i \in {ev} |-> [x \in {c} |-> Outcome(ok)]]
<1>1. /\ events' = Recorded(pushes) /\ told' = IF ok THEN told \union {<<ev, c>>} ELSE told
      /\ UNCHANGED <<rows, loaded, todo, digest>>
  BY DEF RetryPush
<1>2. EventsSound(events, told) /\ told \subseteq (1 .. MaxEvents) \X Channel /\ ev \in 1 .. MaxEvents
  BY EngineAssumption DEF Honest, EventsSound
<1>3. /\ pushes = [i \in {ev} |-> pushes[i]]
      /\ \A i \in {ev} : pushes[i] \in [{c} -> {"sent", "failed", "skipped"}]
      /\ \A i \in {ev} \intersect DOMAIN events, d \in {c} : pushes[i][d] = "sent" => ok /\ i = ev /\ d = c
  BY DEF Outcome
<1> HIDE DEF pushes
<1>4. told' \in SUBSET ((1 .. MaxEvents) \X Channel) /\ told \subseteq told'
  BY <1>1, <1>2
<1>5. \A i \in {ev} \intersect DOMAIN events, d \in {c} : pushes[i][d] = "sent" => <<i, d>> \in told'
  BY <1>1, <1>3
<1>6. EventsSound(events', told') /\ Grown(events, told, events', told')
  <2>1. EventsSound(Recorded(pushes), told') /\ Grown(events, told, Recorded(pushes), told')
    <3> DEFINE E == {ev}
    <3>1. /\ pushes = [i \in E |-> pushes[i]]
          /\ \A i \in E : pushes[i] \in [{c} -> {"sent", "failed", "skipped"}]
          /\ \A i \in E \intersect DOMAIN events, d \in {c} : pushes[i][d] = "sent" => <<i, d>> \in told'
      BY <1>3, <1>5
    <3> HIDE DEF E
    <3> QED  BY <1>2, <1>4, <3>1, RecordedSound
  <2> QED  BY <1>1, <2>1
<1> QED  BY <1>1, <1>6, HonestKept DEF Honest

\* An operator acknowledges or ignores an alert: the row keeps when it was told.
LEMMA DisposeHonest ==
    ASSUME Honest, NEW a \in Alert, Ack(a) \/ Ignore(a)
    PROVE  Honest'
<1>1. PICK disp \in {"acknowledged", "ignored"} : rows' = [rows EXCEPT ![a].disp = disp]
  BY DEF Ack, Ignore, Dispose
<1>2. UNCHANGED <<events, loaded, todo, told, digest>>
  BY DEF Ack, Ignore, Dispose
<1> DEFINE row == [rows[a] EXCEPT !.disp = disp]
<1>3. rows' = [rows EXCEPT ![a] = row]  BY <1>1 DEF Honest, RowsSound
<1>4. Good(a, row)  BY DEF Honest, RowsSound, Good, Row
<1> HIDE DEF row
<1>5. RowsSound(rows', events, told)  BY <1>3, <1>4, RowSaved DEF Honest
<1> QED  BY <1>2, <1>5 DEF Honest

\* The digests and the list are lost; the timeline and the rows are not.
LEMMA RestartHonest == ASSUME Honest, Restart PROVE Honest'
<1>1. /\ UNCHANGED <<rows, events, told>> /\ todo' = <<>> /\ loaded' = [a \in Alert |-> NoRow]
      /\ digest' = [c \in Channel |-> <<>>]
  BY DEF Restart, EngineRestart
<1>2. ListSound(<<>>, events, told)  BY DEF ListSound
<1>3. RowsSound(loaded', events, told)  BY <1>1, FreshRows DEF RowsSound
<1> QED  BY <1>1, <1>2, <1>3 DEF Honest

\* Nothing happened yet.
LEMMA HonestInit == Init => Honest
<1> SUFFICES ASSUME Init PROVE Honest  OBVIOUS
<1>1. ListSound(<<>>, events, told)  BY DEF ListSound
<1>2. RowsSound(rows, events, told)  BY FreshRows DEF Init, EngineInit, RowsSound
<1>3. EventsSound(events, told)
  BY EngineAssumption DEF Init, EngineInit, EventsSound
<1> QED  BY <1>1, <1>2, <1>3 DEF Init, EngineInit, Honest

\* One step per action of Next.
LEMMA HonestStep == Honest /\ [Next]_vars => Honest'
<1> SUFFICES ASSUME Honest, [Next]_vars PROVE Honest'  OBVIOUS
<1>1. CASE Tick  BY <1>1, TickHonest
<1>2. CASE Dispatch  BY <1>2, DispatchHonest
<1>3. CASE Restart  BY <1>3, RestartHonest
<1>4. ASSUME NEW a \in Alert, Evaluate(a) PROVE Honest'  BY <1>4, EvaluateHonest
<1>5. ASSUME NEW a \in Alert, Ack(a) \/ Ignore(a) PROVE Honest'  BY <1>5, DisposeHonest
<1>6. ASSUME NEW c \in Channel, Flush(c) PROVE Honest'  BY <1>6, FlushHonest
<1>7. ASSUME NEW c \in Channel, NEW ok \in BOOLEAN, NEW ev \in DOMAIN events, RetryPush(ev, c, ok)
      PROVE  Honest'
  BY <1>7, RetryHonest
<1>8. CASE UNCHANGED <<rows, events, loaded, todo, digest, told>>
  BY <1>8 DEF Honest
<1>9. ASSUME NEW c \in Channel, NEW st, Reload(c, st) PROVE Honest'
  BY <1>8, <1>9 DEF Reload, engineVars
<1>10. CASE UNCHANGED vars
  BY <1>8, <1>10 DEF vars, engineVars, dispatchVars
<1> QED  BY <1>1, <1>2, <1>3, <1>4, <1>5, <1>6, <1>7, <1>9, <1>10 DEF Next

\* What is recorded as told was told: a delivery marked sent reached its channel, and a
\* row marked notified belongs to an alert somebody was told of, by an event that was no
\* recovery (dispatcher.go, Dispatch and flushDigests, where LastNotifiedAt is set).
THEOREM RecordedWasToldCorrect == Spec => []RecordedWasTold
<1>1. Honest => RecordedWasTold
  BY DEF Honest, EventsSound, RowsSound, Told, RecordedWasTold
<1> QED  BY <1>1, HonestInit, HonestStep, PTL DEF Spec

-----------------------------------------------------------------------------
(***************************************************************************)
(* Types: of the variables Honest says nothing of.  That a window keeps at *)
(* most three flips is the one part that is more than bookkeeping.         *)
(***************************************************************************)
\* A window of flips.
FlapList == {s \in Seq(0 .. FlapWindow) : Len(s) <= 3}

\* The variables Honest says nothing of.
Typed ==
    /\ left \subseteq Alert /\ since \in [Alert -> Age(Sustain)] /\ clean \in [Alert -> BOOLEAN]
    /\ flaps \in [Alert -> FlapList]
    /\ clock \in 0 .. Day - 1 /\ due \in [Channel -> 0 .. DigestMinutes]
    /\ channel \in [Channel -> {"on", "off", "gone"}] /\ moves \in 0 .. MaxMoves

\* The window keeps three flips at most.
LEMMA FlipsShort ==
    ASSUME Typed, NEW a \in Alert
    PROVE  Flips(a) \in FlapList
<1> DEFINE A == 0 .. FlapWindow
           s == flaps[a]
           kept == Kept(s, 0 .. FlapWindow - 1)
           t == IF Len(kept) = 3 THEN Tail(kept) ELSE kept
           u == Append(t, 0)
           n == Len(t)
           m == Len(u)
<1>1. s \in Seq(A) /\ Len(s) <= 3  BY DEF Typed, FlapList
<1>2. Flips(a) = u  BY DEF Flips
<1>3. 0 \in A  BY EngineAssumption
<1> HIDE DEF A, s
<1>4. kept \in Seq(A) /\ Len(kept) <= Len(s)  BY <1>1, KeptShorter
<1> HIDE DEF kept
<1>5. Len(kept) \in Nat /\ Len(kept) <= 3  BY <1>1, <1>4
<1>6. t \in Seq(A) /\ n \in Nat /\ n <= 2
  <2>1. CASE Len(kept) = 3
    <3>1. Tail(kept) \in Seq(A) /\ Len(Tail(kept)) = 2  BY <1>4, <2>1
    <3>2. t = Tail(kept)  BY <2>1
    <3>3. n = Len(Tail(kept))  BY <3>2
    <3> HIDE DEF n, t
    <3>4. n = 2  BY <3>1, <3>3
    <3> QED  BY <3>1, <3>2, <3>4
  <2>2. CASE Len(kept) # 3
    <3>1. t = kept  BY <2>2
    <3>2. n = Len(kept)  BY <3>1
    <3> HIDE DEF n, t
    <3> QED  BY <1>4, <1>5, <2>2, <3>1, <3>2
  <2> QED  BY <2>1, <2>2
<1> HIDE DEF t
<1>7. u \in Seq(A) /\ m = n + 1  BY <1>3, <1>6, LongerByOne
<1> HIDE DEF u, n, m
<1>8. m <= 3  BY <1>6, <1>7
<1> QED  BY <1>2, <1>7, <1>8 DEF FlapList, A, m

\* What an evaluation does to the streak and the window of flips.
LEMMA TypedEvaluate == ASSUME Typed, NEW a \in Alert, Evaluate(a) PROVE Typed'
<1>1. UNCHANGED <<clock, due, channel, moves>> /\ left' = left \ {a}
  BY DEF Evaluate, Apply
<1>2. flaps' = flaps \/ flaps' = [flaps EXCEPT ![a] = Flips(a)]
  BY DEF Evaluate, Apply, NoData, Clean, Quiet, HitAgain, Hit, Flip
<1>3. flaps' \in [Alert -> FlapList]
  BY <1>2, FlipsShort DEF Typed, FlapList
<1>4. \E s, b : b \in BOOLEAN /\ s \in Age(Sustain) /\ Streak(a, s, b)
  <2>1. Never \in Age(Sustain) /\ 0 \in Age(Sustain)  BY EngineAssumption DEF Age, Never
  <2>2. since[a] \in Age(Sustain)  BY DEF Typed
  <2>3. NoData(a) \/ Quiet(a) \/ Clean(a) \/ \E sev \in Severity : HitAgain(a, sev) \/ Hit(a, sev)
    BY DEF Evaluate, Apply
  <2>4. CASE NoData(a) \/ Quiet(a) \/ \E sev \in Severity : HitAgain(a, sev)
    <3>1. Streak(a, Never, FALSE)  BY <2>4 DEF NoData, Quiet, HitAgain
    <3> QED  BY <2>1, <3>1
  <2>5. CASE Clean(a)
    <3>1. Streak(a, Never, FALSE) \/ Streak(a, since[a], TRUE)  BY <2>5 DEF Clean
    <3> QED  BY <2>1, <2>2, <3>1
  <2>6. CASE \E sev \in Severity : Hit(a, sev)
    <3>1. \/ Streak(a, Never, FALSE)
          \/ Streak(a, IF since[a] = Never THEN 0 ELSE since[a], FALSE)
      BY <2>6 DEF Hit
    <3> QED  BY <2>1, <2>2, <3>1
  <2> QED  BY <2>3, <2>4, <2>5, <2>6
<1>5. since' \in [Alert -> Age(Sustain)]  BY <1>4 DEF Streak, Typed
<1>6. clean' \in [Alert -> BOOLEAN]  BY <1>4 DEF Streak, Typed
<1> QED  BY <1>1, <1>3, <1>5, <1>6 DEF Typed, FlapList

\* Ages stay within their caps.
LEMMA TypedTick == ASSUME Typed, Tick PROVE Typed'
<1>1. /\ clock' = (clock + 1) % Day
      /\ due' = [c \in Channel |-> IF due[c] = 0 THEN 0 ELSE due[c] - 1]
      /\ since' = [a \in Alert |-> Older(since[a], Sustain)]
      /\ flaps' = [a \in Alert |-> [i \in DOMAIN flaps[a] |-> Older(flaps[a][i], FlapWindow)]]
      /\ left' = Alert /\ UNCHANGED <<clean, channel, moves>>
  BY DEF Tick, Load
<1>2. clock' \in 0 .. Day - 1  BY <1>1, AlertsAssumption DEF Typed
<1>3. due' \in [Channel -> 0 .. DigestMinutes]
  <2>1. \A c \in Channel : due[c] \in 0 .. DigestMinutes
    BY DEF Typed
  <2>2. \A n \in 0 .. DigestMinutes : (IF n = 0 THEN 0 ELSE n - 1) \in 0 .. DigestMinutes
    BY AlertsAssumption
  <2>3. \A c \in Channel : due'[c] \in 0 .. DigestMinutes  BY <1>1, <2>1, <2>2
  <2> QED  BY <1>1, <2>3
<1>4. since' \in [Alert -> Age(Sustain)]
  <2>1. \A x \in Age(Sustain) : Older(x, Sustain) \in Age(Sustain)
    BY EngineAssumption DEF Older, Age, Never
  <2> QED  BY <1>1, <2>1 DEF Typed
<1>5. \A a \in Alert : flaps'[a] \in FlapList
  <2> SUFFICES ASSUME NEW a \in Alert PROVE flaps'[a] \in FlapList  OBVIOUS
  <2> DEFINE A == 0 .. FlapWindow
             s == flaps[a]
             t == flaps'[a]
  <2>1. s \in Seq(A) /\ Len(s) <= 3  BY DEF Typed, FlapList
  <2>2. t = [i \in DOMAIN s |-> Older(s[i], FlapWindow)]  BY <1>1
  <2>3. \A x \in A : Older(x, FlapWindow) \in A
    BY EngineAssumption DEF Older, Never
  <2> HIDE DEF A, s, t
  <2>4. DOMAIN s = 1 .. Len(s) /\ Len(s) \in Nat /\ \A i \in DOMAIN s : s[i] \in A
    BY <2>1
  <2>5. t \in [1 .. Len(s) -> A]  BY <2>2, <2>3, <2>4
  <2>6. t \in Seq(A) /\ Len(t) = Len(s)  BY <2>4, <2>5
  <2> QED  BY <2>1, <2>6 DEF FlapList, A, t
<1>6. flaps' \in [Alert -> FlapList]  BY <1>1, <1>5
<1>7. clean' \in [Alert -> BOOLEAN]  BY <1>1 DEF Typed
<1> QED  BY <1>1, <1>2, <1>3, <1>4, <1>6, <1>7 DEF Typed, FlapList

\* One step per action of Next.
LEMMA TypedStep == Typed /\ [Next]_vars => Typed'
<1> SUFFICES ASSUME Typed, [Next]_vars PROVE Typed'  OBVIOUS
<1>1. CASE Tick  BY <1>1, TypedTick
<1>2. ASSUME NEW a \in Alert, Evaluate(a) PROVE Typed'  BY <1>2, TypedEvaluate
<1>3. ASSUME UNCHANGED <<left, since, clean, flaps, clock>>,
             due' \in [Channel -> 0 .. DigestMinutes],
             channel' \in [Channel -> {"on", "off", "gone"}], moves' \in 0 .. MaxMoves
      PROVE  Typed'
  BY <1>3 DEF Typed
<1>4. Move => moves' \in 0 .. MaxMoves
  BY AlertsAssumption DEF Move, Typed
<1>5. DigestMinutes \in 0 .. DigestMinutes /\ 0 \in 0 .. DigestMinutes  BY AlertsAssumption
<1>6. /\ due \in [Channel -> 0 .. DigestMinutes]
      /\ channel \in [Channel -> {"on", "off", "gone"}] /\ moves \in 0 .. MaxMoves
  BY DEF Typed
<1>7. CASE Dispatch
  <2>1. UNCHANGED <<left, since, clean, flaps, clock, channel, moves>>
    BY <1>7 DEF Dispatch
  <2>2. \/ due' = due
        \/ \E tr : due' = [c \in Channel |-> IF c \in Targets(P1) /\ digest[c] = <<>>
                                             THEN DigestMinutes ELSE due[c]]
    BY <1>7 DEF Dispatch, Enqueue, SendNow
  <2>3. due' \in [Channel -> 0 .. DigestMinutes]  BY <1>5, <1>6, <2>2
  <2> QED  BY <1>3, <1>6, <2>1, <2>3
<1>8. ASSUME NEW c \in Channel, Flush(c) PROVE Typed'
  <2>1. UNCHANGED <<left, since, clean, flaps, clock, channel, moves>>
    BY <1>8 DEF Flush
  <2>2. due' = due \/ due' = [due EXCEPT ![c] = DigestMinutes]
    BY <1>8 DEF Flush, Reject, Mail
  <2>3. due' \in [Channel -> 0 .. DigestMinutes]  BY <1>5, <1>6, <2>2
  <2> QED  BY <1>3, <1>6, <2>1, <2>3
<1>9. ASSUME NEW a \in Alert, Ack(a) \/ Ignore(a) PROVE Typed'
  <2>1. UNCHANGED <<left, since, clean, flaps, clock, due, channel>> /\ Move
    BY <1>9 DEF Ack, Ignore, Dispose
  <2> QED  BY <1>3, <1>4, <1>6, <2>1
<1>10. ASSUME NEW c \in Channel, NEW st \in {"on", "off", "gone"}, Reload(c, st) PROVE Typed'
  <2>1. /\ UNCHANGED <<left, since, clean, flaps, clock, due>> /\ Move
        /\ channel' = [channel EXCEPT ![c] = st]
    BY <1>10 DEF Reload, engineVars
  <2> QED  BY <1>3, <1>4, <1>6, <2>1
<1>11. ASSUME NEW c, NEW ev, NEW ok, RetryPush(ev, c, ok) PROVE Typed'
  <2>1. UNCHANGED <<left, since, clean, flaps, clock, due, channel>> /\ Move
    BY <1>11 DEF RetryPush
  <2> QED  BY <1>3, <1>4, <1>6, <2>1
<1>12. CASE Restart
  <2>1. /\ left' = {} /\ since' = [a \in Alert |-> Never] /\ flaps' = [a \in Alert |-> <<>>]
        /\ due' = [c \in Channel |-> 0] /\ UNCHANGED <<clock, channel>> /\ Move
    BY <1>12 DEF Restart, EngineRestart
  <2>2. clean' \in [Alert -> BOOLEAN]  BY <1>12 DEF Restart, EngineRestart
  <2>3. Never \in Age(Sustain)  BY EngineAssumption DEF Age, Never
  <2>4. <<>> \in Seq(0 .. FlapWindow) /\ Len(<<>>) <= 3  OBVIOUS
  <2>5. since' \in [Alert -> Age(Sustain)] /\ due' \in [Channel -> 0 .. DigestMinutes]
        /\ flaps' \in [Alert -> FlapList]
    BY <1>5, <2>1, <2>3, <2>4 DEF FlapList
  <2> QED  BY <1>4, <2>1, <2>2, <2>5 DEF Typed, FlapList
<1>13. CASE UNCHANGED vars
  BY <1>3, <1>6, <1>13 DEF vars, engineVars, dispatchVars
<1> QED  BY <1>1, <1>2, <1>7, <1>8, <1>9, <1>10, <1>11, <1>12, <1>13 DEF Next

\* The engine starts with no streak and no flips.
LEMMA TypedInit == Init => Typed
<1> SUFFICES ASSUME Init PROVE Typed  OBVIOUS
<1>1. Never \in Age(Sustain) /\ 0 \in 0 .. Day - 1 /\ 0 \in 0 .. DigestMinutes /\ 0 \in 0 .. MaxMoves
  BY EngineAssumption, AlertsAssumption DEF Age, Never
<1>2. <<>> \in FlapList  BY DEF FlapList
<1>3. flaps \in [Alert -> FlapList]  BY <1>2 DEF Init, EngineInit
<1>4. clean \in [Alert -> BOOLEAN]  BY DEF Init, EngineInit
<1> QED  BY <1>1, <1>3, <1>4 DEF Init, EngineInit, Typed, FlapList

\* Every variable of the engine and the dispatcher stays within its bounds, the window of
\* flips and the digests included (engine.go, recordFlap; dispatcher.go, flushDigests).
THEOREM TypeCorrect == Spec => []TypeOK
<1>1. Honest /\ Typed => TypeOK
  <2> SUFFICES ASSUME Honest, Typed PROVE TypeOK  OBVIOUS
  <2>1. EngineTypeOK
    <3>1. rows \in [Alert -> Row] /\ loaded \in [Alert -> Row] /\ events \in Seq(Event)
          /\ Len(events) <= MaxEvents /\ todo \in Seq(Transition)
      BY DEF Honest, RowsSound, EventsSound, ListSound
    <3>2. clean \in [Alert -> BOOLEAN]  BY DEF Typed
    <3> QED  BY <3>1, <3>2 DEF EngineTypeOK, Typed, FlapList
  <2>2. digest \in [Channel -> Seq(Transition)]
    BY DEF Honest, ListSound
  <2> QED  BY <2>1, <2>2 DEF TypeOK, Typed, Honest, EventsSound
<1> QED  BY <1>1, HonestInit, HonestStep, TypedInit, TypedStep, PTL DEF Spec
==============================================================================
