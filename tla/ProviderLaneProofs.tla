------------------------- MODULE ProviderLaneProofs -------------------------
(***************************************************************************)
(* Proofs about ProviderLane, for every set of requests, every set of lane *)
(* sizes and every bound.                                                  *)
(***************************************************************************)
EXTENDS ProviderLane, FiniteSetTheorems, SequenceTheorems, TLAPS

-----------------------------------------------------------------------------
(***************************************************************************)
(* Lemmas about the helpers on numbers and sequences.                      *)
(***************************************************************************)
\* The least of a non-empty set of naturals is one of them.
LEMMA MinOfNats ==
    ASSUME NEW S \in SUBSET Nat, S # {}
    PROVE  Min(S) \in S /\ \A y \in S : Min(S) <= y
<1>1. PICK x \in S : \A y \in S : ~ (<<y, x>> \in OpToRel(<, Nat))
  BY WFMin, NatLessThanWellFounded
<1>2. ASSUME NEW y \in S  PROVE ~ (y < x)
  BY <1>1, Zenon DEF OpToRel
<1>3. \A y \in S : x <= y
  BY <1>2
<1> QED  BY <1>3 DEF Min

\* The greater of two numbers is one of them, and no less than either.
LEMMA MaxOfTwo ==
    ASSUME NEW a \in Int, NEW b \in Int
    PROVE  Max({a, b}) \in {a, b} /\ Max({a, b}) >= a /\ Max({a, b}) >= b
<1> DEFINE m == IF a >= b THEN a ELSE b
<1>1. m \in {a, b} /\ \A y \in {a, b} : m >= y
  OBVIOUS
<1> HIDE DEF m
<1> QED  BY <1>1 DEF Max

\* The last index of a non-empty set of them is one of them.
LEMMA MaxOfIndices ==
    ASSUME NEW n \in Nat, NEW S \in SUBSET (1 .. n), S # {}
    PROVE  Max(S) \in S
<1> DEFINE T == {n - i : i \in S}
<1>1. T \in SUBSET Nat /\ T # {}
  <2>1. PICK i \in S : TRUE  OBVIOUS
  <2>2. n - i \in T  OBVIOUS
  <2>3. \A j \in S : n - j \in Nat  OBVIOUS
  <2> QED  BY <2>2, <2>3
<1>2. PICK i \in S : Min(T) = n - i
  BY <1>1, MinOfNats
<1>3. \A j \in S : i >= j
  BY <1>1, <1>2, MinOfNats
<1> QED  BY <1>2, <1>3 DEF Max

\* Since returns a suffix of its argument, with stamps after the cutoff first.
LEMMA SinceType ==
    ASSUME NEW S \in SUBSET Int, NEW s \in Seq(S), NEW cutoff \in Int
    PROVE  Since(s, cutoff) \in Seq(S) /\ Len(Since(s, cutoff)) <= Len(s)
<1> DEFINE I == {i \in 1 .. Len(s) : s[i] > cutoff}
<1> DEFINE first == IF I # {} THEN Min(I) ELSE 0
<1>1. SelectInSeq(s, LAMBDA t : t > cutoff) = first
  BY DEF SelectInSeq
<1>2. first \in 0 .. Len(s)
  <2>1. CASE I # {}
    <3>1. I \in SUBSET Nat  BY LenProperties
    <3>2. Min(I) \in I  BY <2>1, <3>1, MinOfNats
    <3> QED  BY <3>2, <2>1
  <2>2. CASE I = {}
    BY <2>2, LenProperties
  <2> QED  BY <2>1, <2>2
<1> HIDE DEF first
<1>3. Since(s, cutoff) = IF first = 0 THEN <<>> ELSE SubSeq(s, first, Len(s))
  BY <1>1 DEF Since
<1>4. CASE first = 0
  BY <1>3, <1>4
<1>5. CASE first # 0
  <2>1. \A i \in first .. Len(s) : s[i] \in S
    BY <1>2, <1>5, ElementOfSeq
  <2> QED  BY <1>2, <1>3, <1>5, <2>1, SubSeqProperties, LenProperties
<1> QED  BY <1>4, <1>5

\* trimLocked keeps a suffix of the stamps.
LEMMA TrimType ==
    ASSUME NEW s \in Seq(Int), NEW seen \in Int, NEW stamp \in Int
    PROVE  /\ Seen(seen, stamp) \in Int
           /\ Trim(s, seen, stamp) \in Seq(Int)
           /\ Len(Trim(s, seen, stamp)) <= Len(s)
<1> DEFINE t == IF seen - stamp > Window THEN <<>> ELSE s
<1>1. Seen(seen, stamp) \in Int
  BY MaxOfTwo DEF Seen
<1>2. t \in Seq(Int) /\ Len(t) <= Len(s)
  BY EmptySeq, LenProperties
<1>3. Seen(seen, stamp) - Window \in Int
  BY <1>1, TimeAssumption
<1>4. Since(t, Seen(seen, stamp) - Window) \in Seq(Int)
      /\ Len(Since(t, Seen(seen, stamp) - Window)) <= Len(t)
  BY <1>2, <1>3, SinceType
<1>5. Trim(s, seen, stamp) = Since(t, Seen(seen, stamp) - Window)
  BY DEF Trim
<1> HIDE DEF t
<1>6. Len(t) \in Nat /\ Len(s) \in Nat
      /\ Len(Since(t, Seen(seen, stamp) - Window)) \in Nat
  BY <1>2, <1>4, LenProperties
<1> QED  BY <1>1, <1>2, <1>4, <1>5, <1>6

\* The window stays a sequence of stamps whatever admitLocked and uncountLocked
\* do to it.
LEMMA WindowType ==
    ASSUME admits \in Seq(Int), lastSeen \in Int, NEW stamp \in Int
    PROVE  /\ Seen(lastSeen, stamp) \in Int
           /\ Trimmed(stamp) \in Seq(Int)
           /\ Counted(stamp) \in Seq(Int)
           /\ Uncounted(stamp) \in Seq(Int)
<1>1. Seen(lastSeen, stamp) \in Int /\ Trimmed(stamp) \in Seq(Int)
  BY TrimType DEF Trimmed
<1>2. Append(Trimmed(stamp), stamp) \in Seq(Int)
  BY <1>1
<1>3. Counted(stamp) \in Seq(Int)
  BY <1>1, <1>2, TrimType DEF Counted
<1> DEFINE c == Counted(stamp)
           I == {i \in 1 .. Len(c) : c[i] = stamp}
           last == IF I # {} THEN Max(I) ELSE 0
<1>4. SelectLastInSeq(c, LAMBDA t : t = stamp) = last
  BY DEF SelectLastInSeq
<1>5. last \in 0 .. Len(c)
  <2>1. CASE I # {}
    <3>1. Len(c) \in Nat /\ I \in SUBSET (1 .. Len(c))  BY <1>3, LenProperties
    <3>2. Max(I) \in I  BY <2>1, <3>1, MaxOfIndices
    <3> QED  BY <2>1, <3>2
  <2>2. CASE I = {}
    BY <1>3, <2>2, LenProperties
  <2> QED  BY <2>1, <2>2
<1> HIDE DEF last
<1> DEFINE u == IF last = 0 THEN c ELSE RemoveAt(c, last)
<1>6. u \in Seq(Int)
  <2>1. CASE last = 0
    BY <1>3, <2>1
  <2>2. CASE last # 0
    <3>1. \A i \in 1 .. last - 1 : c[i] \in Int
      BY <1>3, <1>5, ElementOfSeq, LenProperties
    <3>2. SubSeq(c, 1, last - 1) \in Seq(Int)
      BY <1>5, <3>1, SubSeqProperties
    <3>3. \A i \in last + 1 .. Len(c) : c[i] \in Int
      BY <1>3, <1>5, ElementOfSeq, LenProperties
    <3>4. SubSeq(c, last + 1, Len(c)) \in Seq(Int)
      BY <1>3, <1>5, <3>3, SubSeqProperties, LenProperties
    <3> QED  BY <2>2, <3>2, <3>4, ConcatProperties DEF RemoveAt
  <2> QED  BY <2>1, <2>2
<1>7. Uncounted(stamp) = Trim(u, Seen(lastSeen, stamp), stamp)
  BY <1>4 DEF Uncounted
<1> HIDE DEF u
<1>8. Uncounted(stamp) \in Seq(Int)
  BY <1>1, <1>6, <1>7, TrimType
<1> QED  BY <1>1, <1>3, <1>8

\* strikeLocked closes the gap at the first place of the ticket.
LEMMA StrikeShifts ==
    ASSUME NEW q \in Seq(Request), NEW r, \E i \in 1 .. Len(q) : q[i] = r
    PROVE  /\ RemoveFirst(q, r) \in Seq(Request)
           /\ Len(RemoveFirst(q, r)) = Len(q) - 1
           /\ \E k \in 1 .. Len(q) :
                 /\ q[k] = r
                 /\ \A i \in 1 .. Len(q) - 1 :
                       RemoveFirst(q, r)[i] = IF i < k THEN q[i] ELSE q[i + 1]
<1> DEFINE I == {i \in 1 .. Len(q) : q[i] = r}
           k == Min(I)
           a == SubSeq(q, 1, k - 1)
           b == SubSeq(q, k + 1, Len(q))
           s == RemoveFirst(q, r)
<1>0. Len(q) \in Nat  BY LenProperties
<1>1. I \in SUBSET Nat /\ I # {}  BY <1>0
<1>2. k \in 1 .. Len(q) /\ q[k] = r
  <2>1. k \in I  BY <1>1, MinOfNats
  <2> QED  BY <2>1
<1>3. SelectInSeq(q, LAMBDA v : v = r) = k
  BY <1>1 DEF SelectInSeq
<1>4. s = a \o b
  BY <1>3 DEF RemoveFirst, RemoveAt
<1> HIDE DEF k, I, s
<1>5. a \in Seq(Request) /\ Len(a) = k - 1
      /\ \A i \in 1 .. k - 1 : a[i] = q[i]
  <2>1. \A i \in 1 .. k - 1 : q[i] \in Request
    BY <1>0, <1>2, ElementOfSeq
  <2> QED  BY <1>2, <2>1, SubSeqProperties
<1>6. b \in Seq(Request) /\ Len(b) = Len(q) - k
      /\ \A i \in 1 .. Len(q) - k : b[i] = q[k + i]
  <2>1. \A i \in k + 1 .. Len(q) : q[i] \in Request
    BY <1>0, <1>2, ElementOfSeq
  <2> QED  BY <1>0, <1>2, <2>1, SubSeqProperties
<1> HIDE DEF a, b
<1>7. /\ a \o b \in Seq(Request)
      /\ Len(a \o b) = Len(a) + Len(b)
      /\ \A i \in 1 .. Len(a) + Len(b) :
            (a \o b)[i] = IF i <= Len(a) THEN a[i] ELSE b[i - Len(a)]
  BY <1>5, <1>6, ConcatProperties
<1>8. s \in Seq(Request) /\ Len(s) = Len(q) - 1
  BY <1>0, <1>2, <1>4, <1>5, <1>6, <1>7
<1>9. ASSUME NEW i \in 1 .. Len(q) - 1
      PROVE  s[i] = IF i < k THEN q[i] ELSE q[i + 1]
  <2>1. i \in 1 .. Len(a) + Len(b)
    BY <1>0, <1>2, <1>5, <1>6
  <2>2. s[i] = IF i <= k - 1 THEN a[i] ELSE b[i - (k - 1)]
    BY <1>4, <1>5, <1>7, <2>1
  <2>3. CASE i < k
    BY <1>0, <1>2, <1>5, <2>2, <2>3
  <2>4. CASE ~ (i < k)
    <3>1. i - (k - 1) \in 1 .. Len(q) - k /\ k + (i - (k - 1)) = i + 1
      BY <1>0, <1>2, <2>4
    <3>2. b[i - (k - 1)] = q[i + 1]
      BY <1>6, <3>1
    <3> QED  BY <1>2, <2>2, <2>4, <3>2
  <2> QED  BY <2>3, <2>4
<1> QED  BY <1>2, <1>8, <1>9 DEF s

\* Striking a ticket keeps the queue a queue of requests.
LEMMA StrikeType ==
    ASSUME NEW q \in Seq(Request), NEW r
    PROVE  RemoveFirst(q, r) \in Seq(Request)
<1>1. CASE \E i \in 1 .. Len(q) : q[i] = r
  BY <1>1, StrikeShifts
<1>2. CASE ~ \E i \in 1 .. Len(q) : q[i] = r
  BY <1>2 DEF RemoveFirst
<1> QED  BY <1>1, <1>2

\* strikeLocked takes exactly one ticket out of a queue without duplicates.
LEMMA StrikeTicket ==
    ASSUME NEW q \in Seq(Request), IsInjective(q), NEW r
    PROVE  /\ IsInjective(RemoveFirst(q, r))
           /\ ToSet(RemoveFirst(q, r)) = ToSet(q) \ {r}
<1>1. CASE ~ \E i \in 1 .. Len(q) : q[i] = r
  BY <1>1, LenProperties DEF RemoveFirst, ToSet
<1>2. CASE \E i \in 1 .. Len(q) : q[i] = r
  <2> DEFINE s == RemoveFirst(q, r)
  <2>1. PICK k \in 1 .. Len(q) :
           /\ q[k] = r
           /\ \A i \in 1 .. Len(q) - 1 : s[i] = IF i < k THEN q[i] ELSE q[i + 1]
    BY <1>2, StrikeShifts
  <2>2. s \in Seq(Request) /\ Len(s) = Len(q) - 1
    BY <1>2, StrikeShifts
  <2> HIDE DEF s
  <2>3. Len(q) \in Nat /\ DOMAIN s = 1 .. Len(s) /\ DOMAIN q = 1 .. Len(q)
    BY <2>2, LenProperties
  <2>4. \A i \in 1 .. Len(s) : \E m \in 1 .. Len(q) :
           s[i] = q[m] /\ m # k /\ m = IF i < k THEN i ELSE i + 1
    BY <2>1, <2>2, <2>3
  <2>5. \A i, j \in 1 .. Len(q) : q[i] = q[j] => i = j
    BY <2>3 DEF IsInjective
  <2>6. ASSUME NEW i \in 1 .. Len(s), NEW j \in 1 .. Len(s), s[i] = s[j]
        PROVE  i = j
    <3>1. PICK m \in 1 .. Len(q) : s[i] = q[m] /\ m = IF i < k THEN i ELSE i + 1
      BY <2>4
    <3>2. PICK n \in 1 .. Len(q) : s[j] = q[n] /\ n = IF j < k THEN j ELSE j + 1
      BY <2>4
    <3>3. m = n
      BY <2>5, <2>6, <3>1, <3>2
    <3> QED  BY <2>3, <3>1, <3>2, <3>3
  <2>7. IsInjective(s)
    BY <2>3, <2>6 DEF IsInjective
  <2>8. ASSUME NEW i \in 1 .. Len(s)  PROVE s[i] \in ToSet(q) /\ s[i] # r
    <3>1. PICK m \in 1 .. Len(q) : s[i] = q[m] /\ m # k
      BY <2>4
    <3> QED  BY <2>1, <2>3, <2>5, <3>1 DEF ToSet
  <2>9. ASSUME NEW x \in ToSet(q) \ {r}  PROVE x \in ToSet(s)
    <3>1. PICK i \in 1 .. Len(q) : q[i] = x  BY <2>3 DEF ToSet
    <3>2. CASE i < k
      <4>1. i \in 1 .. Len(q) - 1  BY <2>3, <3>2
      <4>2. s[i] = x  BY <2>1, <3>1, <3>2, <4>1
      <4> QED  BY <2>2, <2>3, <4>1, <4>2 DEF ToSet
    <3>3. CASE i > k
      <4>1. i - 1 \in 1 .. Len(q) - 1 /\ ~ (i - 1 < k) /\ (i - 1) + 1 = i
        BY <2>3, <3>3
      <4>2. s[i - 1] = x  BY <2>1, <3>1, <4>1
      <4> QED  BY <2>2, <2>3, <4>1, <4>2 DEF ToSet
    <3> QED  BY <2>1, <2>3, <2>9, <3>1, <3>2, <3>3
  <2> QED  BY <2>3, <2>7, <2>8, <2>9 DEF s, ToSet
<1> QED  BY <1>1, <1>2

\* The lesser of two numbers is one of them.
LEMMA MinOfTwo ==
    ASSUME NEW a \in Int, NEW b \in Int
    PROVE  Min({a, b}) \in {a, b}
<1> DEFINE m == IF a <= b THEN a ELSE b
<1>1. m \in {a, b} /\ \A y \in {a, b} : m <= y
  OBVIOUS
<1> HIDE DEF m
<1> QED  BY <1>1 DEF Min

-----------------------------------------------------------------------------
(***************************************************************************)
(* Types.                                                                  *)
(***************************************************************************)
\* A lane's limits are numbers.
LEMMA LimitsType == ASSUME TypeOK PROVE max \in Nat /\ rpm \in Nat
BY ConfigAssumption DEF TypeOK

\* The initial state has the type of the state.
LEMMA TypeInit == Init => TypeOK
BY TimeAssumption DEF Init, TypeOK, Place

\* Every step keeps the type of the state.
LEMMA TypeStep == TypeOK /\ [Next]_vars => TypeOK'
<1> SUFFICES ASSUME TypeOK, [Next]_vars PROVE TypeOK'
  OBVIOUS
<1>0. max \in Nat /\ rpm \in Nat /\ wall \in Int /\ admits \in Seq(Int)
      /\ lastSeen \in Int /\ Window \in Nat
  BY LimitsType, TimeAssumption DEF TypeOK
<1>a. \A stamp \in Int : /\ Seen(lastSeen, stamp) \in Int
                         /\ Trimmed(stamp) \in Seq(Int)
                         /\ Counted(stamp) \in Seq(Int)
                         /\ Uncounted(stamp) \in Seq(Int)
  BY <1>0, WindowType
<1>b. \A r \in Request : RemoveFirst(queue, r) \in Seq(Request)
  BY StrikeType DEF TypeOK
<1>1. ASSUME NEW r \in Request, Arrive(r) PROVE TypeOK'
  <2>1. PICK c \in Config : max' = c.max /\ rpm' = c.rpm
                            /\ wait' = [wait EXCEPT ![r] = c.wait]
    BY <1>1 DEF Arrive
  <2>2. c.wait \in Nat
    BY ConfigAssumption, <1>0
  <2> QED  BY <1>1, <2>1, <2>2 DEF Arrive, TypeOK, Goto, Place, timeVars
<1>2. ASSUME NEW r \in Request, ReadLimits(r) PROVE TypeOK'
  BY <1>2 DEF ReadLimits, TypeOK, Goto, Place, laneVars, reqVars, timeVars
<1>3. ASSUME NEW r \in Request, CheckWindow(r) PROVE TypeOK'
  BY <1>3 DEF CheckWindow, TypeOK, Goto, Place, laneVars, timeVars
<1>4. ASSUME NEW r \in Request, PeekMax(r) PROVE TypeOK'
  BY <1>4 DEF PeekMax, TypeOK, Goto, Place, laneVars, reqVars, timeVars
<1>5. ASSUME NEW r \in Request, SizeBudget(r) PROVE TypeOK'
  <2>1. admits' \in Seq(Int) /\ lastSeen' \in Int
    BY <1>0, <1>a, <1>5 DEF SizeBudget
  <2>2. CASE rpm > 0 /\ Len(admits') >= rpm
    <3>1. Head(admits') \in Int
      BY <1>0, <2>1, <2>2, HeadTailProperties, EmptySeq
    <3>2. Min({Head(admits') + Window - wall, Window}) \in Int
      BY <1>0, <3>1, MinOfTwo
    <3> QED  BY <1>5, <2>1, <2>2, <3>2 DEF SizeBudget, TypeOK, Goto, Place, timeVars
  <2>3. CASE ~ (rpm > 0 /\ Len(admits') >= rpm)
    BY <1>5, <2>1, <2>3 DEF SizeBudget, TypeOK, Goto, Place, timeVars
  <2> QED  BY <2>2, <2>3
<1>w. Waiters \subseteq Request /\ woken \subseteq Request
  BY ElementOfSeq, LenProperties DEF Waiters, ToSet, TypeOK
\* What an iteration of acquireSlot's loop assigns; the rest are the locals.
<1> DEFINE Iterated ==
      /\ max' = max /\ rpm' = rpm /\ inflight' \in Nat
      /\ queue' \in Seq(Request) /\ admits' \in Seq(Int) /\ lastSeen' \in Int
      /\ pc' \in [Request -> Place]
      /\ woken' \subseteq Request /\ slots' \subseteq Request
      /\ release' \in [Request -> {"none", "noop", "slot", "refund"}]
      /\ clock' = clock /\ wall' = wall /\ steps' = steps
      /\ sent' \in Seq(Nat)
<1>c. ASSUME NEW r \in Request, NEW stamp \in Int, Admit(r, stamp)
      PROVE  Iterated
  <2>1. admits' \in Seq(Int) /\ lastSeen' \in Int
    BY <1>0, <1>a, <1>c DEF Admit
  <2>2. queue' \in Seq(Request) /\ woken' \subseteq Request
    BY <1>b, <1>c, <1>w DEF Admit, TypeOK
  <2>3. sent' \in Seq(Nat)
    BY <1>c DEF Admit, TypeOK
  <2>4. inflight' \in Nat /\ slots' \subseteq Request
    BY <1>c DEF Admit, TypeOK
  <2>5. pc' \in [Request -> Place]
    BY <1>c DEF Admit, TypeOK, Goto, Place
  <2>6. release' \in [Request -> {"none", "noop", "slot", "refund"}]
    BY <1>c DEF Admit, TypeOK
  <2> QED  BY <1>c, <2>1, <2>2, <2>3, <2>4, <2>5, <2>6 DEF Admit, timeVars
<1>d. ASSUME NEW r \in Request, NEW stamp \in Int, Passed(r, stamp),
             \/ Retire(r) /\ Goto(r, "refused")
             \/ UNCHANGED <<queue, woken>> /\ Goto(r, "refused")
             \/ /\ queue' = queue \/ queue' = Append(queue, r)
                /\ woken' = woken \ {r} /\ Goto(r, "wait")
      PROVE  Iterated
  <2>1. admits' \in Seq(Int) /\ lastSeen' \in Int
    BY <1>0, <1>a, <1>d DEF Passed
  <2>2. queue' \in Seq(Request)
    <3>1. queue \in Seq(Request) /\ Append(queue, r) \in Seq(Request)
      BY DEF TypeOK
    <3> QED  BY <1>b, <1>d, <3>1 DEF Retire
  <2>3. woken' \subseteq Request
    BY <1>d, <1>w DEF Retire
  <2>4. pc' \in [Request -> Place]
    BY <1>d DEF TypeOK, Goto, Place
  <2> QED  BY <1>d, <2>1, <2>2, <2>3, <2>4 DEF Passed, TypeOK, timeVars
<1>e. ASSUME NEW r \in Request, NEW stamp \in Int,
             \/ Admit(r, stamp) \/ Refuse(r, stamp)
             \/ QueueFull(r, stamp) \/ Sleep(r, stamp)
      PROVE  Iterated
  BY <1>c, <1>d, <1>e DEF Refuse, QueueFull, Sleep
<1>f. ASSUME Iterated, UNCHANGED <<wait, over, budget>>,
             deadline' \in [Request -> [mono : Int, wall : Int]]
      PROVE  TypeOK'
  BY <1>f DEF TypeOK
<1> HIDE DEF Iterated
<1>6. ASSUME NEW r \in Request, FirstTry(r) PROVE TypeOK'
  <2>1. Iterated
    BY <1>0, <1>6, <1>e DEF FirstTry
  <2>2. deadline' \in [Request -> [mono : Int, wall : Int]]
    BY <1>0, <1>6 DEF FirstTry, TypeOK
  <2> QED  BY <1>6, <1>f, <2>1, <2>2 DEF FirstTry
<1>7. ASSUME NEW r \in Request, Woken(r) PROVE TypeOK'
  <2>1. Iterated
    BY <1>0, <1>7, <1>e DEF Woken
  <2> QED  BY <1>7, <1>f, <2>1 DEF Woken, TypeOK, reqVars
<1>8. ASSUME NEW r \in Request, Expired(r) PROVE TypeOK'
  <2>1. deadline[r].wall \in Int
    BY DEF TypeOK
  <2>2. Iterated
    BY <1>8, <1>e, <2>1 DEF Expired
  <2> QED  BY <1>8, <1>f, <2>2 DEF Expired, TypeOK, reqVars
<1>9. ASSUME NEW r \in Request, Disconnect(r) PROVE TypeOK'
  <2>1. queue' \in Seq(Request) /\ woken' \subseteq Request
    BY <1>9, <1>b, <1>w DEF Disconnect, Retire
  <2> QED  BY <1>9, <2>1 DEF Disconnect, TypeOK, Goto, Place, reqVars, timeVars
<1>10. ASSUME NEW r \in Request, TellRetryAfter(r) PROVE TypeOK'
  <2>1. admits' \in Seq(Int) /\ lastSeen' \in Int
    BY <1>0, <1>10, <1>a DEF TellRetryAfter
  <2> QED  BY <1>10, <2>1 DEF TellRetryAfter, TypeOK, Goto, Forget, Place, timeVars
<1>11. ASSUME NEW r \in Request, Finish(r) PROVE TypeOK'
  <2>1. inflight' \in Nat
    <3>1. inflight - 1 \in Int /\ inflight \in Nat  BY DEF TypeOK
    <3>2. Max({inflight - 1, 0}) \in {inflight - 1, 0}
          /\ Max({inflight - 1, 0}) >= 0
      BY <3>1, MaxOfTwo
    <3> QED  BY <1>11, <3>1, <3>2 DEF Finish, GiveSlotBack, RefundAdmission
  <2>2. admits' \in Seq(Int) /\ lastSeen' \in Int
    <3>1. admits # <<>> => Front(admits) \in Seq(Int)
      BY <1>0, SubSeqProperties, ElementOfSeq, LenProperties DEF Front
    <3>2. admits # <<>> => Trim(Front(admits), lastSeen, wall) \in Seq(Int)
      BY <1>0, <3>1, TrimType
    <3> QED  BY <1>0, <1>11, <1>a, <3>2
             DEF Finish, GiveSlotBack, RefundAdmission
  <2>3. woken' \subseteq Request
    BY <1>11, <1>w DEF Finish, GiveSlotBack, RefundAdmission
  <2> QED  BY <1>11, <2>1, <2>2, <2>3
           DEF Finish, TypeOK, Goto, Forget, Place, timeVars
<1>12. CASE Tick
  <2>1. sent' \in Seq(Nat)
    <3>1. clock' - Window \in Int /\ Nat \in SUBSET Int
      BY <1>0, <1>12 DEF Tick, TypeOK
    <3> QED  BY <1>12, <3>1, SinceType DEF Tick, TypeOK
  <2> QED  BY <1>12, <2>1 DEF Tick, TypeOK, laneVars, reqVars
<1>13. CASE StepWall
  BY <1>13, TimeAssumption, EmptySeq DEF StepWall, TypeOK, laneVars, reqVars
<1>14. CASE Rest \/ UNCHANGED vars
  BY <1>14 DEF Rest, TypeOK, vars, laneVars, reqVars, timeVars
<1> QED  BY <1>1, <1>2, <1>3, <1>4, <1>5, <1>6, <1>7, <1>8, <1>9, <1>10, <1>11,
            <1>12, <1>13, <1>14 DEF Next

\* Every variable keeps its type, for every set of requests, sizes and bounds.
THEOREM TypeCorrect == Spec => []TypeOK
BY TypeInit, TypeStep, PTL DEF Spec

-----------------------------------------------------------------------------
(***************************************************************************)
(* The queue.  Whoever takes a ticket sleeps on it, and every way out of   *)
(* the sleep strikes exactly that ticket.                                  *)
(***************************************************************************)
\* The queue is empty at first.
LEMMA QueueInit == Init => QueueIsWaiters
BY DEF Init, QueueIsWaiters, Waiters, ToSet, IsInjective

\* Every step keeps the queue equal to the sleepers.
LEMMA QueueStep == TypeOK /\ QueueIsWaiters /\ [Next]_vars => QueueIsWaiters'
<1> SUFFICES ASSUME TypeOK, QueueIsWaiters, [Next]_vars PROVE QueueIsWaiters'
  OBVIOUS
<1>a. queue \in Seq(Request) /\ IsInjective(queue)
      /\ Waiters = {r \in Request : pc[r] = "wait"} /\ woken \subseteq Waiters
      /\ pc \in [Request -> Place]
  BY DEF TypeOK, QueueIsWaiters
<1>b. \A r \in Request : /\ IsInjective(RemoveFirst(queue, r))
                         /\ ToSet(RemoveFirst(queue, r)) = Waiters \ {r}
  BY <1>a, StrikeTicket DEF Waiters
<1>c. ASSUME NEW r \in Request, r \notin Waiters
      PROVE  /\ IsInjective(Append(queue, r))
             /\ ToSet(Append(queue, r)) = Waiters \union {r}
  <2> DEFINE s == Append(queue, r)
             n == Len(queue)
  <2>1. n \in Nat /\ DOMAIN queue = 1 .. n
    BY <1>a, LenProperties
  <2>2. DOMAIN s = 1 .. n + 1 /\ s[n + 1] = r /\ \A i \in 1 .. n : s[i] = queue[i]
    BY <1>a, <2>1
  <2> HIDE DEF n, s
  <2>3. \A i \in 1 .. n : queue[i] # r
    BY <1>c, <2>1 DEF Waiters, ToSet
  <2>4. \A i, j \in 1 .. n : queue[i] = queue[j] => i = j
    BY <1>a, <2>1 DEF IsInjective
  <2>5. IsInjective(s)
    BY <2>1, <2>2, <2>3, <2>4 DEF IsInjective
  <2>6. ToSet(s) = Waiters \union {r}
    <3>1. \A x \in Waiters \union {r} : \E i \in 1 .. n + 1 : s[i] = x
      BY <2>1, <2>2 DEF Waiters, ToSet
    <3>2. \A i \in 1 .. n + 1 : s[i] \in Waiters \union {r}
      BY <2>1, <2>2 DEF Waiters, ToSet
    <3> QED  BY <2>2, <3>1, <3>2 DEF ToSet
  <2> QED  BY <2>5, <2>6 DEF s
\* r leaves the queue, or never was in it, and does not sleep.
<1>d. ASSUME NEW r \in Request, NEW place \in Place \ {"wait"}, Goto(r, place),
             \/ queue' = RemoveFirst(queue, r) /\ woken' \subseteq Waiters \ {r}
             \/ queue' = queue /\ r \notin Waiters /\ woken' \subseteq Waiters
      PROVE  QueueIsWaiters'
  <2>1. IsInjective(queue') /\ ToSet(queue') = Waiters \ {r}
        /\ woken' \subseteq Waiters \ {r}
    BY <1>a, <1>b, <1>d DEF Waiters
  <2>2. {x \in Request : pc'[x] = "wait"} = Waiters \ {r}
    BY <1>a, <1>d DEF Goto
  <2> QED  BY <2>1, <2>2 DEF QueueIsWaiters, Waiters
<1>e. ASSUME NEW r \in Request, NEW stamp, Admit(r, stamp) PROVE QueueIsWaiters'
  BY <1>a, <1>d, <1>e DEF Admit, Place
<1>f. ASSUME NEW r \in Request, Retire(r), Goto(r, "refused")
      PROVE  QueueIsWaiters'
  BY <1>a, <1>d, <1>f DEF Retire, Place
<1>g. ASSUME NEW r \in Request, NEW stamp, Sleep(r, stamp) PROVE QueueIsWaiters'
  <2>1. IsInjective(queue') /\ ToSet(queue') = Waiters \union {r}
    BY <1>a, <1>c, <1>g DEF Sleep, Waiters
  <2>2. {x \in Request : pc'[x] = "wait"} = Waiters \union {r}
    BY <1>a, <1>g DEF Sleep, Goto
  <2>3. woken' \subseteq Waiters
    BY <1>a, <1>g DEF Sleep
  <2> QED  BY <2>1, <2>2, <2>3 DEF QueueIsWaiters, Waiters
<1>h. ASSUME UNCHANGED queue, woken' \subseteq Waiters,
             NEW r \in Request, r \notin Waiters,
             NEW place \in Place \ {"wait"}, Goto(r, place)
      PROVE  QueueIsWaiters'
  BY <1>d, <1>h
<1>1. ASSUME NEW r \in Request, Arrive(r) PROVE QueueIsWaiters'
  BY <1>1, <1>a, <1>h DEF Arrive, Place
<1>2. ASSUME NEW r \in Request, ReadLimits(r) PROVE QueueIsWaiters'
  BY <1>2, <1>a, <1>h DEF ReadLimits, Place, laneVars
<1>3. ASSUME NEW r \in Request, CheckWindow(r) PROVE QueueIsWaiters'
  BY <1>3, <1>a, <1>h DEF CheckWindow, Place, laneVars
<1>4. ASSUME NEW r \in Request, PeekMax(r) PROVE QueueIsWaiters'
  BY <1>4, <1>a, <1>h DEF PeekMax, Place, laneVars
<1>5. ASSUME NEW r \in Request, SizeBudget(r) PROVE QueueIsWaiters'
  BY <1>5, <1>a, <1>h DEF SizeBudget, Place
<1>6. ASSUME NEW r \in Request, FirstTry(r) PROVE QueueIsWaiters'
  <2>1. CASE Admit(r, wall) \/ Refuse(r, wall) \/ Sleep(r, wall)
    BY <1>e, <1>f, <1>g, <2>1 DEF Refuse
  <2>2. CASE QueueFull(r, wall)
    BY <1>a, <1>h, <2>2 DEF QueueFull, Place
  <2> QED  BY <1>6, <2>1, <2>2 DEF FirstTry
<1>7. ASSUME NEW r \in Request, Woken(r) PROVE QueueIsWaiters'
  BY <1>7, <1>e, <1>f, <1>g DEF Woken, Refuse
<1>8. ASSUME NEW r \in Request, Expired(r) PROVE QueueIsWaiters'
  BY <1>8, <1>e, <1>f DEF Expired, Refuse
<1>9. ASSUME NEW r \in Request, Disconnect(r) PROVE QueueIsWaiters'
  BY <1>9, <1>f DEF Disconnect
<1>10. ASSUME NEW r \in Request, TellRetryAfter(r) PROVE QueueIsWaiters'
  BY <1>10, <1>a, <1>h DEF TellRetryAfter, Place
<1>11. ASSUME NEW r \in Request, Finish(r) PROVE QueueIsWaiters'
  <2>1. woken' \subseteq Waiters
    BY <1>11, <1>a DEF Finish, GiveSlotBack, RefundAdmission
  <2> QED  BY <1>11, <1>a, <1>h, <2>1 DEF Finish, Place
<1>12. CASE UNCHANGED <<queue, pc, woken>>
  BY <1>12 DEF QueueIsWaiters, Waiters
<1> QED  BY <1>1, <1>2, <1>3, <1>4, <1>5, <1>6, <1>7, <1>8, <1>9, <1>10, <1>11, <1>12
         DEF Next, Tick, StepWall, Rest, vars, laneVars

\* The queue holds each sleeping request once and nobody else.
THEOREM QueueCorrect == Spec => []QueueIsWaiters
BY TypeInit, TypeStep, QueueInit, QueueStep, PTL DEF Spec

-----------------------------------------------------------------------------
(***************************************************************************)
(* The slots.                                                              *)
(***************************************************************************)
\* No slot is taken at first.
LEMMA SlotInit == Init => SlotsCovered /\ SlotReleased /\ SlotAccounting
BY FS_EmptySet, ConfigAssumption
   DEF Init, SlotsCovered, SlotReleased, SlotAccounting
\* Every step keeps the lane's count at least the number of exchanges that hold
\* a slot, and equal to it on a patient lane.
LEMMA SlotStep ==
    TypeOK /\ SlotsCovered /\ SlotReleased /\ SlotAccounting /\ [Next]_vars
        => SlotsCovered' /\ SlotReleased' /\ SlotAccounting'
<1> SUFFICES ASSUME TypeOK, SlotsCovered, SlotReleased, SlotAccounting, [Next]_vars
             PROVE  SlotsCovered' /\ SlotReleased' /\ SlotAccounting'
  OBVIOUS
<1> DEFINE Goal == SlotsCovered' /\ SlotReleased' /\ SlotAccounting'
<1>0. /\ max \in Nat /\ rpm \in Nat /\ inflight \in Nat
      /\ pc \in [Request -> Place] /\ wait \in [Request -> Nat]
      /\ over \in [Request -> BOOLEAN]
      /\ release \in [Request -> {"none", "noop", "slot", "refund"}]
      /\ \A c \in Config : c.max \in Nat /\ c.rpm \in Nat /\ c.wait \in Nat
  <2>1. \A c \in Config : c.max \in Nat /\ c.rpm \in Nat /\ c.wait \in Nat
    BY ConfigAssumption, TimeAssumption
  <2> QED  BY <2>1, LimitsType DEF TypeOK
<1>a. /\ IsFiniteSet(slots) /\ Cardinality(slots) \in Nat
      /\ \A r : Cardinality(slots \union {r}) =
                  IF r \in slots THEN Cardinality(slots) ELSE Cardinality(slots) + 1
      /\ \A r : Cardinality(slots \ {r}) =
                  IF r \in slots THEN Cardinality(slots) - 1 ELSE Cardinality(slots)
  <2>1. IsFiniteSet(slots)
    BY RequestAssumption, FS_Subset DEF TypeOK
  <2> QED  BY <2>1, FS_CardinalityType, FS_AddElement, FS_RemoveElement
\* A step that leaves the slots alone keeps the counts; the rest is about r.
<1>b. ASSUME NEW r \in Request, NEW place \in Place, place # "idle",
             Goto(r, place), pc[r] # "hold", pc[r] # "idle",
             UNCHANGED <<inflight, slots, wait>>,
             \A x \in Request : release'[x] = "slot" => release[x] = "slot",
             \A x \in slots : release'[x] = release[x],
             \A x \in Request : over'[x] => \E c \in Config : c.rpm > 0
      PROVE  Goal
  <2>1. r \notin slots
    BY <1>b DEF SlotsCovered
  <2>2. SlotsCovered'
    BY <1>0, <1>b, <2>1 DEF SlotsCovered, Goto
  <2>3. SlotReleased'
    BY <1>0, <1>b, <2>1 DEF SlotReleased, Goto, Patient
  <2>4. SlotAccounting'
    BY <1>b DEF SlotAccounting, Patient
  <2> QED  BY <2>2, <2>3, <2>4
<1>c. ASSUME NEW r \in Request, NEW stamp, Admit(r, stamp),
             pc[r] # "hold", pc[r] # "idle", UNCHANGED <<wait, over, budget>>
      PROVE  Goal
  <2>1. r \notin slots
    BY <1>c DEF SlotsCovered
  <2>2. CASE max = 0
    <3>1. release'[r] # "slot" /\ UNCHANGED <<slots, inflight>>
          /\ \A x \in Request : x # r => release'[x] = release[x]
      BY <1>0, <1>c, <2>2 DEF Admit
    <3>2. Goto(r, "hold")
      BY <1>c DEF Admit
    <3>3. \A x \in slots : release'[x] = release[x]
      BY <2>1, <3>1 DEF TypeOK
    <3>4. \A x \in Request : release'[x] = "slot" => release[x] = "slot"
      BY <3>1
    <3>5. \A x \in Request : over'[x] => \E c \in Config : c.rpm > 0
      BY <1>c DEF SlotReleased
    <3>6. "hold" \in Place /\ "hold" # "idle" /\ wait' = wait
      BY <1>c DEF Place
    <3> HIDE DEF Goal
    <3> QED  BY <1>b, <1>c, <3>1, <3>2, <3>3, <3>4, <3>5, <3>6
  <2>3. CASE max > 0
    <3>1. /\ slots' = slots \union {r} /\ inflight' = inflight + 1 /\ inflight < max
          /\ pc' = [pc EXCEPT ![r] = "hold"] /\ UNCHANGED <<wait, over, max, rpm>>
          /\ release' = [release EXCEPT ![r] =
                           IF wait[r] = 0 /\ over[r] THEN "refund" ELSE "slot"]
      BY <1>0, <1>c, <2>3 DEF Admit, HasSlot, Goto
    <3>2. Cardinality(slots') = Cardinality(slots) + 1
      BY <1>a, <2>1, <3>1
    <3>3. SlotsCovered'
      <4>1. \A x \in slots' : pc'[x] = "hold"
        BY <1>0, <3>1 DEF SlotsCovered
      <4>2. Cardinality(slots') <= inflight'
        BY <1>0, <1>a, <3>1, <3>2 DEF SlotsCovered
      <4>3. \E c \in Config : inflight' <= c.max
        BY <1>0, <3>1 DEF TypeOK
      <4> QED  BY <4>1, <4>2, <4>3 DEF SlotsCovered
    <3>4. Patient => ~ (wait[r] = 0 /\ over[r])
      <4>1. PICK c \in Config : wait[r] = c.wait
        BY <1>c DEF SlotReleased
      <4>2. over[r] => \E d \in Config : d.rpm > 0
        BY DEF SlotReleased
      <4>3. \E d \in Config : d.max > 0
        BY <2>3 DEF TypeOK
      <4>4. CASE \A d \in Config : d.wait > 0
        BY <1>0, <4>1, <4>4
      <4>5. CASE \A d \in Config : d.rpm = 0
        BY <1>0, <4>2, <4>5
      <4>6. CASE \A d \in Config : d.max = 0
        BY <1>0, <4>3, <4>6
      <4> QED  BY <4>4, <4>5, <4>6 DEF Patient
    <3>5. SlotReleased'
      BY <1>0, <1>c, <3>1, <3>4 DEF SlotReleased, Patient
    <3>6. SlotAccounting'
      BY <1>0, <1>a, <3>1, <3>2 DEF SlotAccounting, Patient
    <3> QED  BY <3>3, <3>5, <3>6
  <2> QED  BY <1>0, <2>2, <2>3
<1> HIDE DEF Goal
<1>1. ASSUME NEW r \in Request, Arrive(r) PROVE Goal
  <2>1. PICK c \in Config : wait' = [wait EXCEPT ![r] = c.wait]
    BY <1>1 DEF Arrive
  <2>2. r \notin slots
    BY <1>1 DEF Arrive, SlotsCovered
  <2>3. SlotsCovered'
    BY <1>0, <1>1, <2>2 DEF Arrive, Goto, SlotsCovered
  <2>4. SlotReleased'
    BY <1>0, <1>1, <2>1 DEF Arrive, Goto, SlotReleased, Patient
  <2>5. SlotAccounting'
    BY <1>1 DEF Arrive, SlotAccounting, Patient
  <2> QED  BY <2>3, <2>4, <2>5 DEF Goal
<1>2. ASSUME NEW r \in Request, ReadLimits(r) PROVE Goal
  <2>1. r \notin slots
    BY <1>2 DEF ReadLimits, SlotsCovered
  <2>2. PICK place \in {"hold", "over"} : Goto(r, place)
    BY <1>2 DEF ReadLimits
  <2>3. place \in Place /\ place # "idle"
    BY <2>2 DEF Place
  <2>4. /\ pc[r] # "hold" /\ pc[r] # "idle"
        /\ UNCHANGED <<inflight, slots, wait, over>>
    BY <1>2 DEF ReadLimits, laneVars, reqVars
  <2>5. release' = release \/ release' = [release EXCEPT ![r] = "noop"]
    BY <1>2 DEF ReadLimits
  <2>6. /\ \A x \in Request : release'[x] = "slot" => release[x] = "slot"
        /\ \A x \in slots : release'[x] = release[x]
    BY <1>0, <2>1, <2>5 DEF TypeOK
  <2>7. \A x \in Request : over'[x] => \E c \in Config : c.rpm > 0
    BY <2>4 DEF SlotReleased
  <2> QED  BY <1>b, <2>2, <2>3, <2>4, <2>6, <2>7
<1>3. ASSUME NEW r \in Request, CheckWindow(r) PROVE Goal
  <2>1. over' = [over EXCEPT ![r] = rpm > 0 /\ Len(admits) >= rpm]
    BY <1>3 DEF CheckWindow
  <2>2. \A x \in Request : over'[x] => \E c \in Config : c.rpm > 0
    <3>1. rpm > 0 => \E c \in Config : c.rpm > 0
      BY DEF TypeOK
    <3>2. ASSUME NEW x \in Request, over'[x] PROVE over[x] \/ rpm > 0
      BY <1>0, <2>1, <3>2
    <3> QED  BY <3>1, <3>2 DEF SlotReleased
  <2>3. PICK place \in {"peek", "first"} : Goto(r, place)
    BY <1>3 DEF CheckWindow
  <2>4. place \in Place /\ place # "idle"
    BY <2>3 DEF Place
  <2>5. /\ pc[r] # "hold" /\ pc[r] # "idle"
        /\ UNCHANGED <<inflight, slots, wait, release>>
    BY <1>3 DEF CheckWindow, laneVars
  <2> QED  BY <1>b, <2>2, <2>3, <2>4, <2>5
<1>4. ASSUME NEW r \in Request, PeekMax(r) PROVE Goal
  BY <1>0, <1>4, <1>b DEF PeekMax, Place, laneVars, reqVars, SlotReleased
<1>5. ASSUME NEW r \in Request, SizeBudget(r) PROVE Goal
  BY <1>0, <1>5, <1>b DEF SizeBudget, Place, SlotReleased
<1>d. ASSUME NEW r \in Request, NEW stamp, pc[r] # "hold", pc[r] # "idle",
             \/ Refuse(r, stamp) \/ QueueFull(r, stamp) \/ Sleep(r, stamp),
             UNCHANGED <<wait, over, budget>>
      PROVE  Goal
  BY <1>0, <1>b, <1>d DEF Refuse, QueueFull, Sleep, Passed, Place, SlotReleased
<1>6. ASSUME NEW r \in Request, FirstTry(r) PROVE Goal
  BY <1>6, <1>c, <1>d DEF FirstTry, Goal
<1>7. ASSUME NEW r \in Request, Woken(r) PROVE Goal
  BY <1>7, <1>c, <1>d DEF Woken, reqVars, Goal
<1>8. ASSUME NEW r \in Request, Expired(r) PROVE Goal
  BY <1>8, <1>c, <1>d DEF Expired, reqVars, Goal
<1>9. ASSUME NEW r \in Request, Disconnect(r) PROVE Goal
  BY <1>0, <1>9, <1>b DEF Disconnect, Place, reqVars, SlotReleased
<1>10. ASSUME NEW r \in Request, TellRetryAfter(r) PROVE Goal
  <2>1. r \notin slots
    BY <1>10 DEF TellRetryAfter, SlotsCovered
  <2>2. SlotsCovered'
    BY <1>0, <1>10, <2>1 DEF TellRetryAfter, Goto, SlotsCovered
  <2>3. SlotReleased'
    BY <1>0, <1>10 DEF TellRetryAfter, Goto, Forget, SlotReleased, Patient
  <2>4. SlotAccounting'
    BY <1>10 DEF TellRetryAfter, SlotAccounting, Patient
  <2> QED  BY <2>2, <2>3, <2>4 DEF Goal
<1>11. ASSUME NEW r \in Request, Finish(r) PROVE Goal
  <2>0. /\ slots' = slots \ {r} /\ pc' = [pc EXCEPT ![r] = "idle"]
        /\ release' = [release EXCEPT ![r] = "none"]
        /\ wait' = [wait EXCEPT ![r] = 0] /\ over' = [over EXCEPT ![r] = FALSE]
    BY <1>11 DEF Finish, Goto, Forget
  <2>1. CASE release[r] = "slot"
    <3>1. r \in slots
      BY <2>1 DEF SlotReleased
    <3>2. inflight' = Max({inflight - 1, 0})
      BY <1>11, <2>1 DEF Finish, GiveSlotBack
    <3>3. inflight >= 1 /\ Cardinality(slots') = Cardinality(slots) - 1
      BY <1>0, <1>a, <2>0, <3>1, FS_EmptySet DEF SlotsCovered
    <3>4. inflight' = inflight - 1
      <4>1. inflight - 1 \in Nat  BY <1>0, <3>3
      <4>2. /\ Max({inflight - 1, 0}) \in {inflight - 1, 0}
            /\ Max({inflight - 1, 0}) >= inflight - 1
        BY <4>1, MaxOfTwo
      <4> QED  BY <3>2, <4>1, <4>2
    <3>5. SlotsCovered'
      <4>1. \A x \in slots' : pc'[x] = "hold"
        BY <1>0, <2>0 DEF SlotsCovered
      <4>2. Cardinality(slots') <= inflight'
        BY <1>0, <1>a, <3>3, <3>4 DEF SlotsCovered
      <4>3. \E c \in Config : inflight' <= c.max
        BY <1>0, <3>4 DEF SlotsCovered
      <4> QED  BY <4>1, <4>2, <4>3 DEF SlotsCovered
    <3>6. SlotAccounting'
      BY <1>0, <1>a, <3>3, <3>4 DEF SlotAccounting, Patient
    <3> QED  BY <1>0, <2>0, <3>5, <3>6 DEF SlotReleased, Patient, Goal
  <2>2. CASE release[r] # "slot"
    <3>1. inflight' = inflight
      BY <1>11, <2>2 DEF Finish, RefundAdmission
    <3>2. Cardinality(slots') <= Cardinality(slots)
          /\ Cardinality(slots') \in Nat
          /\ (r \notin slots => slots' = slots)
      BY <1>a, <2>0, FS_RemoveElement, FS_CardinalityType
    <3>3. SlotsCovered'
      <4>1. \A x \in slots' : pc'[x] = "hold"
        BY <1>0, <2>0 DEF SlotsCovered
      <4>2. Cardinality(slots') <= inflight'
        BY <1>0, <1>a, <3>1, <3>2 DEF SlotsCovered
      <4>3. \E c \in Config : inflight' <= c.max
        BY <3>1 DEF SlotsCovered
      <4> QED  BY <4>1, <4>2, <4>3 DEF SlotsCovered
    <3>4. Patient => r \notin slots
      BY <2>2 DEF SlotReleased
    <3>5. SlotAccounting'
      BY <3>1, <3>2, <3>4 DEF SlotAccounting, Patient
    <3> QED  BY <1>0, <2>0, <3>3, <3>5 DEF SlotReleased, Patient, Goal
  <2> QED  BY <2>1, <2>2
<1>12. CASE UNCHANGED <<pc, slots, inflight, wait, over, release>>
  BY <1>12 DEF SlotsCovered, SlotReleased, SlotAccounting, Patient, Goal
<1> QED  BY <1>1, <1>2, <1>3, <1>4, <1>5, <1>6, <1>7, <1>8, <1>9, <1>10, <1>11, <1>12
         DEF Goal, Next, Tick, StepWall, Rest, vars, laneVars, reqVars

\* The lane never counts fewer slots than there are exchanges holding one.
THEOREM SlotsCorrect == Spec => []SlotsCovered
BY TypeInit, TypeStep, SlotInit, SlotStep, PTL DEF Spec

\* On a patient lane no slot is lost and none is given back twice.
THEOREM SlotsReturned == Spec => []SlotAccounting
BY TypeInit, TypeStep, SlotInit, SlotStep, PTL DEF Spec

-----------------------------------------------------------------------------
(***************************************************************************)
(* The refinement: the lane's slots are a counting semaphore.              *)
(***************************************************************************)
\* The lane starts as an account nobody uses.
LEMMA AccountInit == Init => Account!Init
BY DEF Init, Account!Init

\* A step of the lane starts one exchange, ends one, resizes, or is none of the
\* semaphore's business.
LEMMA AccountStep ==
    TypeOK /\ SlotsCovered /\ [Next]_vars => [Account!Next]_(Account!vars)
<1> SUFFICES ASSUME TypeOK, SlotsCovered, [Next]_vars
             PROVE  [Account!Next]_(Account!vars)
  OBVIOUS
<1>1. ASSUME UNCHANGED <<max, slots>> PROVE [Account!Next]_(Account!vars)
  BY <1>1 DEF Account!vars
<1>2. ASSUME NEW r \in Request, NEW stamp, Admit(r, stamp), pc[r] # "hold"
      PROVE  [Account!Next]_(Account!vars)
  <2>1. CASE max > 0
    <3>1. r \notin slots
      BY <1>2 DEF SlotsCovered
    <3>2. inflight < max /\ slots' = slots \union {r} /\ max' = max
      BY <1>2, <2>1 DEF Admit, HasSlot
    <3>3. Cardinality(slots) \in Nat
      BY RequestAssumption, FS_Subset, FS_CardinalityType DEF TypeOK
    <3>4. Cardinality(slots) < max
      <4>1. max \in Nat /\ inflight \in Nat  BY LimitsType DEF TypeOK
      <4>2. Cardinality(slots) <= inflight  BY DEF SlotsCovered
      <4> QED  BY <3>2, <3>3, <4>1, <4>2
    <3>5. Account!Cardinality(slots) = Cardinality(slots)
      BY DEF Account!Cardinality, Cardinality
    <3>6. Account!Start(r)
      BY <2>1, <3>1, <3>2, <3>4, <3>5 DEF Account!Start
    <3> QED  BY <3>6 DEF Account!Next
  <2>2. CASE ~ (max > 0)
    BY <1>1, <1>2, <2>2 DEF Admit
  <2> QED  BY <2>1, <2>2
<1>3. ASSUME NEW r \in Request, NEW stamp,
             \/ Refuse(r, stamp) \/ QueueFull(r, stamp) \/ Sleep(r, stamp)
      PROVE  [Account!Next]_(Account!vars)
  BY <1>1, <1>3 DEF Refuse, QueueFull, Sleep, Passed
<1>4. ASSUME NEW r \in Request, FirstTry(r) \/ Woken(r) \/ Expired(r)
      PROVE  [Account!Next]_(Account!vars)
  BY <1>2, <1>3, <1>4 DEF FirstTry, Woken, Expired
<1>5. ASSUME NEW r \in Request, Arrive(r) PROVE [Account!Next]_(Account!vars)
  <2>1. max' \in {c.max : c \in Config} /\ slots' = slots
    BY <1>5 DEF Arrive
  <2> QED  BY <2>1 DEF Account!Resize, Account!Next
<1>6. ASSUME NEW r \in Request, Finish(r) PROVE [Account!Next]_(Account!vars)
  <2>1. slots' = slots \ {r} /\ max' = max
    BY <1>6 DEF Finish
  <2>2. CASE r \in slots
    BY <2>1, <2>2 DEF Account!End, Account!Next
  <2>3. CASE r \notin slots
    BY <1>1, <2>1, <2>3
  <2> QED  BY <2>2, <2>3
<1>7. ASSUME NEW r \in Request,
             \/ ReadLimits(r) \/ CheckWindow(r) \/ PeekMax(r) \/ SizeBudget(r)
             \/ Disconnect(r) \/ TellRetryAfter(r)
      PROVE  [Account!Next]_(Account!vars)
  BY <1>1, <1>7
     DEF ReadLimits, CheckWindow, PeekMax, SizeBudget, Disconnect, TellRetryAfter,
         laneVars
<1>8. CASE Tick \/ StepWall \/ Rest \/ UNCHANGED vars
  BY <1>1, <1>8 DEF Tick, StepWall, Rest, vars, laneVars
<1> QED  BY <1>4, <1>5, <1>6, <1>7, <1>8 DEF Next

\* The lane implements the account: whatever resizes, queueing, refunds and
\* disconnects interleave, no slot is granted while the limit in force is taken.
THEOREM LaneImplementsAccount == Spec => AccountSpec
<1>1. Spec => [](TypeOK /\ SlotsCovered)
  BY TypeCorrect, SlotsCorrect, PTL
<1> QED  BY <1>1, AccountInit, AccountStep, PTL DEF Spec, AccountSpec, Account!Spec
-----------------------------------------------------------------------------
(***************************************************************************)
(* The order of the queue, and who is told when it moves.                  *)
(***************************************************************************)
\* Striking a ticket keeps the others in order, and the head unless it is the head.
LEMMA StrikeOrder ==
    ASSUME NEW q \in Seq(Request), IsInjective(q), q # <<>>, NEW r
    PROVE  /\ \A i, j \in 1 .. Len(q) :
                 i < j /\ q[i] # r /\ q[j] # r
                    => \E k, l \in 1 .. Len(RemoveFirst(q, r)) :
                          /\ k < l
                          /\ RemoveFirst(q, r)[k] = q[i]
                          /\ RemoveFirst(q, r)[l] = q[j]
           /\ Head(q) # r => Head(RemoveFirst(q, r)) = Head(q)
<1>0. Len(q) \in Nat \ {0} /\ DOMAIN q = 1 .. Len(q) /\ Head(q) = q[1]
  BY EmptySeq, HeadTailProperties, LenProperties
<1>1. CASE ~ \E i \in 1 .. Len(q) : q[i] = r
  BY <1>0, <1>1 DEF RemoveFirst
<1>2. CASE \E i \in 1 .. Len(q) : q[i] = r
  <2> DEFINE s == RemoveFirst(q, r)
  <2>1. PICK m \in 1 .. Len(q) :
           /\ q[m] = r
           /\ \A i \in 1 .. Len(q) - 1 : s[i] = IF i < m THEN q[i] ELSE q[i + 1]
    BY <1>2, StrikeShifts
  <2>2. s \in Seq(Request) /\ Len(s) = Len(q) - 1
    BY <1>2, StrikeShifts
  <2> HIDE DEF s
  <2> DEFINE to(i) == IF i < m THEN i ELSE i - 1
  <2>3. ASSUME NEW i \in 1 .. Len(q), q[i] # r
        PROVE  to(i) \in 1 .. Len(s) /\ s[to(i)] = q[i] /\ i # m
    <3>1. i # m  BY <2>1, <2>3
    <3>2. CASE i < m
      <4>1. i \in 1 .. Len(q) - 1  BY <1>0, <3>2
      <4> QED  BY <2>1, <2>2, <3>2, <4>1
    <3>3. CASE i > m
      <4>1. i - 1 \in 1 .. Len(q) - 1 /\ ~ (i - 1 < m) /\ (i - 1) + 1 = i /\ ~ (i < m)
        BY <1>0, <3>3
      <4>2. s[i - 1] = q[(i - 1) + 1]  BY <2>1, <4>1
      <4> QED  BY <2>2, <3>3, <4>1, <4>2
    <3> QED  BY <1>0, <3>1, <3>2, <3>3
  <2>4. ASSUME NEW i \in 1 .. Len(q), NEW j \in 1 .. Len(q), i < j, q[i] # r, q[j] # r
        PROVE  \E k, l \in 1 .. Len(s) : k < l /\ s[k] = q[i] /\ s[l] = q[j]
    <3>1. to(i) \in 1 .. Len(s) /\ s[to(i)] = q[i] /\ i # m  BY <2>3, <2>4
    <3>2. to(j) \in 1 .. Len(s) /\ s[to(j)] = q[j] /\ j # m  BY <2>3, <2>4
    <3>3. to(i) < to(j)  BY <1>0, <2>4, <3>1, <3>2
    <3> HIDE DEF to
    <3> QED  BY <3>1, <3>2, <3>3
  <2>5. ASSUME q[1] # r PROVE Head(s) = q[1]
    <3>1. to(1) = 1 /\ 1 \in 1 .. Len(s) /\ s[1] = q[1]
      BY <1>0, <2>1, <2>3, <2>5
    <3>2. s # <<>>  BY <2>2, <3>1, EmptySeq
    <3> QED  BY <2>2, <3>1, <3>2, HeadTailProperties
  <2> QED  BY <1>0, <2>4, <2>5 DEF s
<1> QED  BY <1>1, <1>2

\* Joining at the back keeps the order and the head.
LEMMA JoinOrder ==
    ASSUME NEW q \in Seq(Request), q # <<>>, NEW r \in Request
    PROVE  /\ \A i, j \in 1 .. Len(q) :
                 i < j => \E k, l \in 1 .. Len(Append(q, r)) :
                             /\ k < l
                             /\ Append(q, r)[k] = q[i] /\ Append(q, r)[l] = q[j]
           /\ Head(Append(q, r)) = Head(q)
<1> DEFINE s == Append(q, r)
<1>1. /\ s \in Seq(Request) /\ s # <<>> /\ Len(q) \in Nat \ {0}
      /\ Len(s) = Len(q) + 1 /\ \A i \in 1 .. Len(q) : s[i] = q[i]
      /\ Head(q) = q[1]
  BY AppendProperties, EmptySeq, HeadTailProperties, LenProperties
<1> HIDE DEF s
<1>2. Head(s) = s[1]  BY <1>1, HeadTailProperties
<1>3. \A i, j \in 1 .. Len(q) :
         i < j => \E k, l \in 1 .. Len(s) : k < l /\ s[k] = q[i] /\ s[l] = q[j]
  BY <1>1
<1>4. Head(s) = Head(q)  BY <1>1, <1>2
<1> QED  BY <1>3, <1>4 DEF s

\* A step of request r leaves the queue alone, strikes its ticket or appends it;
\* none but the head leaves the queue for an exchange.
Orderly(r) ==
    /\ queue' \in {queue, RemoveFirst(queue, r), Append(queue, r)}
    /\ queue' = Append(queue, r) => r \notin Waiters
    /\ \E place \in Place : Goto(r, place) /\ (place = "hold" => Turn(r))

\* Every step is of one request and orderly, or leaves the queue and the requests alone.
LEMMA StepsOrderly ==
    ASSUME TypeOK, QueueIsWaiters, Next
    PROVE  (\E r \in Request : Orderly(r)) \/ UNCHANGED <<queue, pc>>
<1>0. ASSUME NEW r \in Request, NEW place \in Place, Goto(r, place),
             place = "hold" => Turn(r),
             queue' = queue \/ queue' = RemoveFirst(queue, r),
             queue' = Append(queue, r) => r \notin Waiters
      PROVE  Orderly(r)
  BY <1>0 DEF Orderly
<1>x. ASSUME NEW r \in Request, queue' = queue \/ queue' = RemoveFirst(queue, r)
      PROVE  queue' = Append(queue, r) => r \notin Waiters
  <2>1. queue \in Seq(Request) /\ Len(queue) \in Nat  BY LenProperties DEF TypeOK
  <2>2. Len(Append(queue, r)) = Len(queue) + 1  BY <2>1, AppendProperties
  <2>3. Len(RemoveFirst(queue, r)) <= Len(queue)
    <3>1. CASE \E i \in 1 .. Len(queue) : queue[i] = r
      BY <2>1, <3>1, StrikeShifts
    <3>2. CASE ~ \E i \in 1 .. Len(queue) : queue[i] = r
      BY <2>1, <3>2 DEF RemoveFirst
    <3> QED  BY <3>1, <3>2
  <2>4. queue' # Append(queue, r)  BY <1>x, <2>1, <2>2, <2>3
  <2> QED  BY <2>4
<1>1. ASSUME NEW r \in Request, NEW stamp, Admit(r, stamp) PROVE Orderly(r)
  BY <1>0, <1>1, <1>x DEF Admit, Place
<1>2. ASSUME NEW r \in Request, NEW stamp, Refuse(r, stamp) \/ QueueFull(r, stamp)
      PROVE  Orderly(r)
  BY <1>0, <1>2, <1>x DEF Refuse, QueueFull, Retire, Place
<1>3. ASSUME NEW r \in Request, NEW stamp, Sleep(r, stamp) PROVE Orderly(r)
  BY <1>3 DEF Sleep, Orderly, Place
<1>4. ASSUME NEW r \in Request, FirstTry(r) \/ Woken(r) \/ Expired(r) PROVE Orderly(r)
  BY <1>1, <1>2, <1>3, <1>4 DEF FirstTry, Woken, Expired
<1>5. ASSUME NEW r \in Request, ReadLimits(r) PROVE Orderly(r)
  BY <1>5 DEF ReadLimits, laneVars, Orderly, Place, Turn, QueueIsWaiters
<1>6. ASSUME NEW r \in Request,
             \/ Arrive(r) \/ CheckWindow(r) \/ PeekMax(r) \/ SizeBudget(r)
             \/ Disconnect(r) \/ TellRetryAfter(r) \/ Finish(r)
      PROVE  Orderly(r)
  BY <1>0, <1>6, <1>x DEF Arrive, CheckWindow, PeekMax, SizeBudget, Disconnect,
              TellRetryAfter, Finish, Retire, laneVars, Place
<1>7. ASSUME Tick \/ StepWall \/ Rest PROVE UNCHANGED <<queue, pc>>
  BY <1>7 DEF Tick, StepWall, Rest, vars, laneVars
<1> QED  BY <1>4, <1>5, <1>6, <1>7 DEF Next

\* Whoever waits keeps its place, and is served before those that came after it.
THEOREM OrderCorrect == Spec => ArrivalOrder
<1>1. ASSUME TypeOK, QueueIsWaiters, [Next]_vars
      PROVE  [\A i, j \in 1 .. Len(queue) : i < j =>
                /\ queue[j] \in ToSet(queue') /\ queue[i] \in ToSet(queue')
                      => \E k, l \in 1 .. Len(queue') :
                            k < l /\ queue'[k] = queue[i] /\ queue'[l] = queue[j]
                /\ pc'[queue[j]] = "hold" => pc'[queue[i]] # "wait"]_vars
  <2> SUFFICES ASSUME Next, NEW i \in 1 .. Len(queue), NEW j \in 1 .. Len(queue), i < j
               PROVE  /\ queue[j] \in ToSet(queue') /\ queue[i] \in ToSet(queue')
                            => \E k, l \in 1 .. Len(queue') :
                                  k < l /\ queue'[k] = queue[i] /\ queue'[l] = queue[j]
                      /\ pc'[queue[j]] = "hold" => pc'[queue[i]] # "wait"
    BY <1>1
  <2>1. /\ queue \in Seq(Request) /\ IsInjective(queue) /\ queue # <<>>
        /\ Len(queue) \in Nat /\ DOMAIN queue = 1 .. Len(queue)
        /\ pc \in [Request -> Place]
        /\ Waiters = {r \in Request : pc[r] = "wait"}
    BY <1>1, LenProperties, EmptySeq DEF TypeOK, QueueIsWaiters
  <2>2. queue[i] \in Waiters /\ queue[j] \in Waiters /\ queue[i] # queue[j]
    BY <2>1 DEF Waiters, ToSet, IsInjective
  <2>3. CASE UNCHANGED <<queue, pc>>
    BY <2>1, <2>2, <2>3
  <2>4. ASSUME NEW r \in Request, Orderly(r)
        PROVE  queue[j] \in ToSet(queue') /\ queue[i] \in ToSet(queue')
                  => \E k, l \in 1 .. Len(queue') :
                        k < l /\ queue'[k] = queue[i] /\ queue'[l] = queue[j]
    <3>1. CASE queue' = queue
      BY <3>1
    <3>2. CASE queue' = Append(queue, r)
      BY <2>1, <3>2, JoinOrder
    <3>3. CASE queue' = RemoveFirst(queue, r)
      <4>1. ToSet(queue') = Waiters \ {r}
        BY <2>1, <3>3, StrikeTicket DEF Waiters
      <4> QED  BY <2>1, <3>3, <4>1, StrikeOrder
    <3> QED  BY <2>4, <3>1, <3>2, <3>3 DEF Orderly
  <2>5. ASSUME NEW r \in Request, Orderly(r), pc'[queue[j]] = "hold"
        PROVE  pc'[queue[i]] # "wait"
    <3>1. PICK place \in Place : Goto(r, place) /\ (place = "hold" => Turn(r))
      BY <2>5 DEF Orderly
    <3>2. queue[j] = r /\ place = "hold"
      BY <2>1, <2>2, <2>5, <3>1 DEF Goto
    <3>3. Head(queue) = r /\ Head(queue) = queue[1]
      BY <2>1, <2>2, <3>1, <3>2, HeadTailProperties DEF Turn
    <3>4. j = 1
      BY <2>1, <3>2, <3>3 DEF IsInjective
    <3> QED  BY <2>1, <3>4
  <2> QED  BY <1>1, <2>3, <2>4, <2>5, StepsOrderly
<1> QED  BY <1>1, TypeCorrect, QueueCorrect, PTL DEF Spec, ArrivalOrder

\* When a ticket leaves and the turn moves with it, the new head has been woken.
LEMMA LeavingTells ==
    ASSUME TypeOK, QueueIsWaiters, queue # <<>>, queue' # <<>>,
           NEW r \in Request, Retire(r), Head(queue') # Head(queue)
    PROVE  Head(queue') \in woken'
<1>1. queue \in Seq(Request) /\ IsInjective(queue)
  BY DEF TypeOK, QueueIsWaiters
<1>2. queue' = RemoveFirst(queue, r)
  BY DEF Retire
<1>3. Head(queue) = r
  BY <1>1, <1>2, StrikeOrder
<1>4. queue' \in Seq(Request) /\ ToSet(queue') = Waiters \ {r}
  BY <1>1, <1>2, StrikeType, StrikeTicket DEF Waiters
<1>5. Head(queue') \in ToSet(queue')
  <2>1. Len(queue') \in Nat \ {0} /\ DOMAIN queue' = 1 .. Len(queue')
        /\ Head(queue') = queue'[1]
    BY <1>4, EmptySeq, HeadTailProperties, LenProperties
  <2> QED  BY <2>1 DEF ToSet
<1>6. Head(queue) \in Waiters
  <2>1. Len(queue) \in Nat \ {0} /\ DOMAIN queue = 1 .. Len(queue)
        /\ Head(queue) = queue[1]
    BY <1>1, EmptySeq, HeadTailProperties, LenProperties
  <2> QED  BY <2>1 DEF Waiters, ToSet
<1> QED  BY <1>3, <1>4, <1>5, <1>6 DEF Retire

\* A release wakes every sleeper.
LEMMA ReleaseTells ==
    ASSUME TypeOK, NEW r \in Request, Finish(r), queue # <<>>, inflight' < inflight
    PROVE  queue' = queue /\ Head(queue') \in woken'
<1>1. inflight \in Nat /\ queue \in Seq(Request)  BY DEF TypeOK
<1>2. GiveSlotBack /\ queue' = queue
  BY <1>1 DEF Finish, RefundAdmission
<1>3. Head(queue) \in Waiters
  <2>1. Len(queue) \in Nat \ {0} /\ DOMAIN queue = 1 .. Len(queue)
        /\ Head(queue) = queue[1]
    BY <1>1, EmptySeq, HeadTailProperties, LenProperties
  <2> QED  BY <2>1 DEF Waiters, ToSet
<1> QED  BY <1>2, <1>3 DEF GiveSlotBack

\* Whenever a slot is freed or the turn moves beside a free slot, the request whose turn
\* it now is has been told.
THEOREM WakeupCorrect == Spec => NoLostWakeup
<1>1. ASSUME TypeOK, QueueIsWaiters, [Next]_vars
      PROVE  [LET freed == inflight' < inflight
                  moved == Head(queue') # Head(queue)
              IN  (queue # <<>> /\ queue' # <<>> /\ HasSlot' /\ (freed \/ moved))
                     => Head(queue') \in woken']_vars
  <2> SUFFICES ASSUME Next, queue # <<>>, queue' # <<>>,
                      inflight' < inflight \/ Head(queue') # Head(queue)
               PROVE  Head(queue') \in woken'
    BY <1>1
  <2>0. inflight \in Nat /\ queue \in Seq(Request)  BY <1>1 DEF TypeOK
  <2>a. ASSUME NEW r \in Request, NEW stamp, Admit(r, stamp) PROVE Head(queue') \in woken'
    <3>1. ~ (inflight' < inflight)  BY <2>0, <2>a DEF Admit
    <3>2. r \in Waiters /\ queue' = RemoveFirst(queue, r) /\ woken' = Waiters \ {r}
      BY <2>a, <3>1 DEF Admit
    <3>3. Head(queue) = r  BY <2>a, <3>2 DEF Admit, Turn
    <3>4. Retire(r)  BY <3>2, <3>3 DEF Retire
    <3> QED  BY <1>1, <3>1, <3>4, LeavingTells
  <2>b. ASSUME NEW r \in Request, Retire(r), UNCHANGED inflight
        PROVE  Head(queue') \in woken'
    BY <1>1, <2>0, <2>b, LeavingTells
  <2>c. ASSUME NEW r \in Request, NEW stamp, Sleep(r, stamp) PROVE FALSE
    BY <2>0, <2>c, JoinOrder DEF Sleep, Passed
  <2>1. ASSUME NEW r \in Request, FirstTry(r) PROVE Head(queue') \in woken'
    <3>1. CASE Admit(r, wall)  BY <2>a, <3>1
    <3>2. CASE Refuse(r, wall)  BY <2>b, <3>2 DEF Refuse, Passed
    <3>3. CASE Sleep(r, wall)  BY <2>c, <3>3
    <3>4. CASE QueueFull(r, wall)  BY <2>0, <3>4 DEF QueueFull, Passed
    <3> QED  BY <2>1, <3>1, <3>2, <3>3, <3>4 DEF FirstTry
  <2>2. ASSUME NEW r \in Request, Woken(r) PROVE Head(queue') \in woken'
    BY <2>2, <2>a, <2>b, <2>c DEF Woken, Refuse, Passed
  <2>3. ASSUME NEW r \in Request, Expired(r) PROVE Head(queue') \in woken'
    BY <2>3, <2>a, <2>b DEF Expired, Refuse, Passed
  <2>4. ASSUME NEW r \in Request, Disconnect(r) PROVE Head(queue') \in woken'
    BY <2>4, <2>b DEF Disconnect
  <2>5. ASSUME NEW r \in Request, Finish(r) PROVE Head(queue') \in woken'
    <3>1. queue' = queue  BY <2>5 DEF Finish
    <3> QED  BY <1>1, <2>5, <3>1, ReleaseTells
  <2>6. ASSUME UNCHANGED <<queue, inflight>> PROVE FALSE
    BY <2>0, <2>6
  <2>7. ASSUME NEW r \in Request,
               \/ Arrive(r) \/ ReadLimits(r) \/ CheckWindow(r) \/ PeekMax(r)
               \/ SizeBudget(r) \/ TellRetryAfter(r)
        PROVE  FALSE
    BY <2>6, <2>7 DEF Arrive, ReadLimits, CheckWindow, PeekMax, SizeBudget,
                      TellRetryAfter, laneVars
  <2>8. ASSUME Tick \/ StepWall \/ Rest PROVE FALSE
    BY <2>6, <2>8 DEF Tick, StepWall, Rest, vars, laneVars
  <2> QED  BY <1>1, <2>1, <2>2, <2>3, <2>4, <2>5, <2>7, <2>8 DEF Next
<1> QED  BY <1>1, TypeCorrect, QueueCorrect, PTL DEF Spec, NoLostWakeup
-----------------------------------------------------------------------------
(***************************************************************************)
(* The window.                                                             *)
(***************************************************************************)
\* Since drops the first k stamps when they are out of the window and the rest are in it.
LEMMA SinceDrops ==
    ASSUME NEW s \in Seq(Int), NEW cutoff \in Int, NEW k \in 0 .. Len(s),
           \A i \in 1 .. k : s[i] <= cutoff, \A i \in k + 1 .. Len(s) : s[i] > cutoff
    PROVE  /\ Since(s, cutoff) \in Seq(Int) /\ Len(Since(s, cutoff)) = Len(s) - k
           /\ \A i \in 1 .. Len(s) - k : Since(s, cutoff)[i] = s[k + i]
<1> DEFINE n == Len(s)
           I == {i \in 1 .. n : s[i] > cutoff}
           first == IF I # {} THEN Min(I) ELSE 0
<1>0. n \in Nat /\ \A i \in 1 .. n : s[i] \in Int
  BY LenProperties, ElementOfSeq
<1>1. SelectInSeq(s, LAMBDA t : t > cutoff) = first
  BY DEF SelectInSeq
<1>2. \A i \in 1 .. n : i \in I <=> i > k
  <2> SUFFICES ASSUME NEW i \in 1 .. n PROVE i \in I <=> i > k  OBVIOUS
  <2>1. CASE i <= k
    <3>1. s[i] <= cutoff  BY <1>0, <2>1
    <3> QED  BY <1>0, <2>1, <3>1
  <2>2. CASE i > k
    <3>1. i \in k + 1 .. n  BY <1>0, <2>2
    <3> QED  BY <2>2, <3>1
  <2> QED  BY <1>0, <2>1, <2>2
<1>3. I \in SUBSET (1 .. n)  OBVIOUS
<1> HIDE DEF I
<1>4. first = IF k = n THEN 0 ELSE k + 1
  <2>1. CASE k = n
    <3>1. I = {}  BY <1>0, <1>2, <1>3, <2>1
    <3> QED  BY <2>1, <3>1
  <2>2. CASE k < n
    <3>1. k + 1 \in I  BY <1>0, <1>2, <2>2
    <3>2. I \in SUBSET Nat  BY <1>0, <1>3
    <3>3. Min(I) \in I /\ Min(I) <= k + 1  BY <3>1, <3>2, MinOfNats
    <3>4. Min(I) \in 1 .. n /\ Min(I) > k  BY <1>2, <1>3, <3>3
    <3>5. Min(I) = k + 1  BY <1>0, <3>3, <3>4
    <3>6. I # {}  BY <3>1
    <3> QED  BY <2>2, <3>5, <3>6
  <2> QED  BY <1>0, <2>1, <2>2
<1>5. Since(s, cutoff) = IF first = 0 THEN <<>> ELSE SubSeq(s, first, n)
  BY <1>1 DEF Since
<1> HIDE DEF first, n
<1>6. CASE k = n
  <2>1. Since(s, cutoff) = <<>> /\ n - k = 0  BY <1>0, <1>4, <1>5, <1>6
  <2> QED  BY <2>1, EmptySeq DEF n
<1>7. CASE k # n
  <2>1. Since(s, cutoff) = SubSeq(s, k + 1, n) /\ k \in Nat /\ k < n
    BY <1>0, <1>4, <1>5, <1>7 DEF n
  <2>2. \A i \in k + 1 .. n : s[i] \in Int  BY <1>0, <2>1
  <2>3. /\ SubSeq(s, k + 1, n) \in Seq(Int)
        /\ Len(SubSeq(s, k + 1, n)) = n - k
        /\ \A i \in 1 .. n - k : SubSeq(s, k + 1, n)[i] = s[k + i]
    <3>1. /\ SubSeq(s, k + 1, n) \in Seq(Int)
          /\ Len(SubSeq(s, k + 1, n)) = IF k + 1 <= n THEN n - (k + 1) + 1 ELSE 0
          /\ \A i \in 1 .. n - (k + 1) + 1 : SubSeq(s, k + 1, n)[i] = s[(k + 1) + i - 1]
      BY <1>0, <2>1, <2>2, SubSeqProperties
    <3> QED  BY <1>0, <2>1, <3>1
  <2> QED  BY <2>1, <2>3 DEF n
<1> QED  BY <1>6, <1>7

\* Of ascending stamps some first ones are out of the window and the others in it.
LEMMA SinceSplits ==
    ASSUME NEW s \in Seq(Int), NEW cutoff \in Int,
           \A i, j \in 1 .. Len(s) : i <= j => s[i] <= s[j]
    PROVE  \E k \in 0 .. Len(s) : /\ \A i \in 1 .. k : s[i] <= cutoff
                                  /\ \A i \in k + 1 .. Len(s) : s[i] > cutoff
<1> DEFINE n == Len(s)
           I == {i \in 1 .. n : s[i] > cutoff}
<1>0. n \in Nat /\ \A i \in 1 .. n : s[i] \in Int
  BY LenProperties, ElementOfSeq
<1>1. CASE I = {}
  <2>1. n \in 0 .. n /\ \A i \in 1 .. n : s[i] <= cutoff  BY <1>0, <1>1
  <2>2. \A i \in n + 1 .. n : FALSE  BY <1>0
  <2> QED  BY <2>1, <2>2
<1>2. CASE I # {}
  <2>1. I \in SUBSET Nat  BY <1>0
  <2>2. PICK m \in I : \A y \in I : m <= y  BY <1>2, <2>1, MinOfNats
  <2>3. m \in 1 .. n /\ s[m] > cutoff  BY <2>2
  <2>4. m - 1 \in 0 .. n  BY <1>0, <2>3
  <2>5. \A i \in 1 .. m - 1 : s[i] <= cutoff
    <3> SUFFICES ASSUME NEW i \in 1 .. m - 1 PROVE s[i] <= cutoff  OBVIOUS
    <3>1. i \in 1 .. n /\ i < m  BY <1>0, <2>3
    <3>2. i \notin I  BY <2>1, <2>2, <3>1
    <3> QED  BY <1>0, <3>1, <3>2
  <2>6. \A i \in (m - 1) + 1 .. n : s[i] > cutoff
    <3> SUFFICES ASSUME NEW i \in (m - 1) + 1 .. n PROVE s[i] > cutoff  OBVIOUS
    <3>1. i \in 1 .. n /\ m <= i  BY <1>0, <2>3
    <3>2. s[m] <= s[i]  BY <2>3, <3>1
    <3> QED  BY <1>0, <2>3, <3>1, <3>2
  <2> QED  BY <2>4, <2>5, <2>6
<1> QED  BY <1>1, <1>2

\* What the window is where the clocks agree: trimming leaves the stamps of the exchanges
\* of the last minute, counting adds one, and giving the count back takes that one away.
LEMMA WindowFacts ==
    ASSUME TypeOK, ClocksAgree, StampsAscend, StampsMatch
    PROVE  /\ Seen(lastSeen, wall) = wall
           /\ Trimmed(wall) = Since(admits, wall - Window)
           /\ Trimmed(wall) \in Seq(Int) /\ Len(Trimmed(wall)) = Len(sent)
           /\ \A i \in 1 .. Len(sent) : Trimmed(wall)[i] = sent[i] + Window + 1
           /\ Counted(wall) = Append(Trimmed(wall), wall)
           /\ Uncounted(wall) = Trimmed(wall)
<1> DEFINE n == Len(sent)
           T == Trimmed(wall)
           A == Append(T, wall)
           cut == wall - Window
<1>0. /\ n \in Nat /\ Len(admits) \in Nat /\ Earlier \in Nat /\ Earlier = Len(admits) - n
      /\ wall \in Int /\ lastSeen \in Int /\ clock \in Nat /\ Window \in Nat \ {0}
      /\ lastSeen <= wall /\ wall = clock + Window + 1
      /\ admits \in Seq(Int) /\ sent \in Seq(Nat)
      /\ \A i \in 1 .. n : sent[i] \in Nat
      /\ \A i \in 1 .. Len(admits) : admits[i] \in Int
  <2>1. /\ wall \in Int /\ lastSeen \in Int /\ clock \in Nat /\ Window \in Nat \ {0}
        /\ lastSeen <= wall /\ wall = clock + Window + 1
        /\ admits \in Seq(Int) /\ sent \in Seq(Nat)
    BY TimeAssumption DEF TypeOK, ClocksAgree
  <2>2. n \in Nat /\ Len(admits) \in Nat  BY <2>1, LenProperties
  <2>3. Earlier = Len(admits) - n /\ Earlier >= 0  BY DEF Earlier, StampsMatch
  <2>4. Earlier \in Nat  BY <2>2, <2>3
  <2>5. \A i \in 1 .. n : sent[i] \in Nat  BY <2>1, ElementOfSeq
  <2>6. \A i \in 1 .. Len(admits) : admits[i] \in Int  BY <2>1, ElementOfSeq
  <2> QED  BY <2>1, <2>2, <2>3, <2>4, <2>5, <2>6
\* The latest reading is the present one.
<1>s. ASSUME NEW seen \in Int, seen <= wall PROVE Seen(seen, wall) = wall
  <2> DEFINE m == Max({seen, wall})
  <2>1. m \in {seen, wall} /\ m >= seen /\ m >= wall
    BY <1>0, MaxOfTwo
  <2> HIDE DEF m
  <2>2. m = seen \/ m = wall  BY <2>1
  <2>3. m = wall
    <3>1. CASE m = seen
      BY <1>0, <1>s, <2>1, <3>1
    <3> QED  BY <2>2, <3>1
  <2> QED  BY <2>3 DEF Seen, m
<1>1. Seen(lastSeen, wall) = wall
  BY <1>0, <1>s
<1>a. ASSUME NEW s \in Seq(Int), NEW seen \in Int, seen <= wall
      PROVE  Trim(s, seen, wall) = Since(s, cut)
  <2>1. Seen(seen, wall) = wall  BY <1>a, <1>s
  <2>2. ~ (seen - wall > Window)  BY <1>0, <1>a
  <2> QED  BY <2>1, <2>2 DEF Trim
<1>2. T = Since(admits, cut)
  BY <1>0, <1>a DEF Trimmed
<1> HIDE DEF T
<1>3. /\ T \in Seq(Int) /\ Len(T) = n
      /\ \A i \in 1 .. n : T[i] = sent[i] + Window + 1
  <2>1. Earlier \in 0 .. Len(admits) /\ cut \in Int  BY <1>0
  <2>2. \A i \in 1 .. Earlier : admits[i] <= cut  BY DEF StampsMatch
  <2>3. \A i \in 1 .. n : admits[Earlier + i] = sent[i] + Window + 1 /\ admits[Earlier + i] > cut
    <3> SUFFICES ASSUME NEW i \in 1 .. n
                 PROVE  admits[Earlier + i] = sent[i] + Window + 1 /\ admits[Earlier + i] > cut
      OBVIOUS
    <3>1. admits[Earlier + i] = sent[i] + Window + 1 /\ sent[i] > clock - Window
      BY DEF StampsMatch
    <3>2. sent[i] \in Nat  BY <1>0
    <3>3. \A x \in Nat : x > clock - Window => x + Window + 1 > wall - Window
      <4>1. clock \in Nat /\ Window \in Nat \ {0} /\ wall = clock + Window + 1  BY <1>0
      <4> QED  BY <4>1
    <3>4. sent[i] + Window + 1 > cut  BY <3>1, <3>2, <3>3
    <3> QED  BY <3>1, <3>4
  <2>4. \A i \in Earlier + 1 .. Len(admits) : admits[i] > cut
    <3> SUFFICES ASSUME NEW i \in Earlier + 1 .. Len(admits) PROVE admits[i] > cut  OBVIOUS
    <3>1. i - Earlier \in 1 .. n /\ Earlier + (i - Earlier) = i  BY <1>0
    <3> QED  BY <2>3, <3>1
  <2>5. /\ T \in Seq(Int) /\ Len(T) = Len(admits) - Earlier
        /\ \A i \in 1 .. Len(admits) - Earlier : T[i] = admits[Earlier + i]
    BY <1>0, <1>2, <2>1, <2>2, <2>4, SinceDrops
  <2>6. Len(admits) - Earlier = n  BY <1>0
  <2> QED  BY <2>3, <2>5, <2>6
<1>4. \A i \in 1 .. n : T[i] > cut
  <2> SUFFICES ASSUME NEW i \in 1 .. n PROVE T[i] > cut  OBVIOUS
  <2>1. sent[i] > clock - Window /\ T[i] = sent[i] + Window + 1  BY <1>3 DEF StampsMatch
  <2> QED  BY <1>0, <2>1
\* Trimming what is in the window changes nothing.
<1>b. ASSUME NEW s \in Seq(Int), \A i \in 1 .. Len(s) : s[i] > cut
      PROVE  Trim(s, wall, wall) = s
  <2>1. Len(s) \in Nat /\ 0 \in 0 .. Len(s) /\ cut \in Int  BY <1>0, LenProperties
  <2>2. /\ Since(s, cut) \in Seq(Int) /\ Len(Since(s, cut)) = Len(s)
        /\ \A i \in 1 .. Len(s) : Since(s, cut)[i] = s[i]
    <3>1. \A i \in 1 .. 0 : s[i] <= cut  OBVIOUS
    <3>2. \A i \in 0 + 1 .. Len(s) : s[i] > cut  BY <1>b
    <3>3. /\ Since(s, cut) \in Seq(Int) /\ Len(Since(s, cut)) = Len(s) - 0
          /\ \A i \in 1 .. Len(s) - 0 : Since(s, cut)[i] = s[0 + i]
      BY <2>1, <3>1, <3>2, SinceDrops
    <3> QED  BY <2>1, <3>3
  <2>3. Since(s, cut) = s  BY <2>2, SeqEqual
  <2>4. wall <= wall  BY <1>0
  <2> QED  BY <1>0, <1>a, <2>3, <2>4
<1>5. /\ A \in Seq(Int) /\ Len(A) = n + 1 /\ A[n + 1] = wall
      /\ \A i \in 1 .. n : A[i] = T[i]
  BY <1>0, <1>3, AppendProperties
<1>6. \A i \in 1 .. Len(A) : A[i] > cut
  <2>1. wall > cut  BY <1>0
  <2> QED  BY <1>0, <1>4, <1>5, <2>1
<1>7. Counted(wall) = A
  BY <1>1, <1>5, <1>6, <1>b DEF Counted, T
<1> HIDE DEF A
<1>8. Uncounted(wall) = T
  <2> DEFINE J == {i \in 1 .. Len(A) : A[i] = wall}
             last == IF J # {} THEN Max(J) ELSE 0
  <2>1. SelectLastInSeq(A, LAMBDA t : t = wall) = last
    BY DEF SelectLastInSeq
  <2>2. last = n + 1
    <3>1. n + 1 \in J /\ \A i \in J : i <= n + 1 /\ i \in Nat  BY <1>0, <1>5
    <3>2. Max(J) = n + 1
      <4>1. \E x \in J : \A y \in J : x >= y  BY <1>0, <3>1
      <4>2. Max(J) \in J /\ \A y \in J : Max(J) >= y  BY <4>1 DEF Max
      <4>3. Max(J) >= n + 1 /\ Max(J) <= n + 1 /\ Max(J) \in Nat  BY <3>1, <4>2
      <4> QED  BY <1>0, <4>3
    <3> QED  BY <3>1, <3>2
  <2> HIDE DEF last
  <2>3. RemoveAt(A, n + 1) = T
    <3> DEFINE a == SubSeq(A, 1, n)  b == SubSeq(A, n + 2, n + 1)
    <3>1. RemoveAt(A, n + 1) = SubSeq(A, 1, (n + 1) - 1) \o SubSeq(A, (n + 1) + 1, Len(A))
      BY DEF RemoveAt
    <3>2. (n + 1) - 1 = n /\ (n + 1) + 1 = n + 2 /\ Len(A) = n + 1  BY <1>0, <1>5
    <3>3. RemoveAt(A, n + 1) = a \o b  BY <3>1, <3>2
    <3>4. a \in Seq(Int) /\ Len(a) = n /\ \A i \in 1 .. n : a[i] = A[i]
      <4>1. \A i \in 1 .. n : A[i] \in Int  BY <1>0, <1>5, ElementOfSeq
      <4>2. /\ a \in Seq(Int) /\ Len(a) = IF 1 <= n THEN n - 1 + 1 ELSE 0
            /\ \A i \in 1 .. n - 1 + 1 : a[i] = A[1 + i - 1]
        BY <1>0, <4>1, SubSeqProperties
      <4> QED  BY <1>0, <4>2
    <3>5. a = T  BY <1>3, <1>5, <3>4, SeqEqual
    <3>6. b = <<>>
      <4>1. \A i \in n + 2 .. n + 1 : A[i] \in Int  BY <1>0
      <4>2. b \in Seq(Int) /\ Len(b) = IF n + 2 <= n + 1 THEN n + 1 - (n + 2) + 1 ELSE 0
        BY <1>0, <4>1, SubSeqProperties
      <4>3. Len(b) = 0  BY <1>0, <4>2
      <4> QED  BY <4>2, <4>3, EmptySeq
    <3> HIDE DEF a, b
    <3>7. T \o <<>> = T  BY <1>3
    <3> QED  BY <3>3, <3>5, <3>6, <3>7
  <2>4. n + 1 # 0  BY <1>0
  <2>5. Uncounted(wall) = Trim(T, wall, wall)
    BY <1>1, <1>7, <2>1, <2>2, <2>3, <2>4 DEF Uncounted
  <2>6. \A i \in 1 .. Len(T) : T[i] > cut  BY <1>3, <1>4
  <2> QED  BY <1>3, <1>b, <2>5, <2>6
<1> QED  BY <1>1, <1>2, <1>3, <1>7, <1>8 DEF T, A

\* The monotonic stamps ascend as the wall-clock ones they match do.
LEMMA SentAscends ==
    ASSUME TypeOK, ClocksAgree, StampsAscend, StampsMatch
    PROVE  \A i, j \in 1 .. Len(sent) :
              i <= j => sent[i] <= sent[j] /\ sent[j] <= clock
<1> SUFFICES ASSUME NEW i \in 1 .. Len(sent), NEW j \in 1 .. Len(sent), i <= j
             PROVE  sent[i] <= sent[j] /\ sent[j] <= clock
  OBVIOUS
<1>1. /\ Len(sent) \in Nat /\ Len(admits) \in Nat /\ Earlier \in Nat
      /\ Earlier = Len(admits) - Len(sent)
      /\ clock \in Nat /\ Window \in Nat /\ wall = clock + Window + 1
  <2>1. Len(sent) \in Nat /\ Len(admits) \in Nat  BY LenProperties DEF TypeOK
  <2>2. Earlier = Len(admits) - Len(sent) /\ Earlier >= 0  BY DEF Earlier, StampsMatch
  <2> QED  BY <2>1, <2>2, TimeAssumption DEF TypeOK, ClocksAgree
<1>2. sent[i] \in Nat /\ sent[j] \in Nat
  BY ElementOfSeq DEF TypeOK
<1>3. Earlier + i \in 1 .. Len(admits) /\ Earlier + j \in 1 .. Len(admits)
      /\ Earlier + i <= Earlier + j
  BY <1>1
<1>4. admits[Earlier + i] <= admits[Earlier + j] /\ admits[Earlier + j] <= wall
  BY <1>3 DEF StampsAscend
<1>5. admits[Earlier + i] = sent[i] + Window + 1 /\ admits[Earlier + j] = sent[j] + Window + 1
  BY DEF StampsMatch
<1>6. sent[i] + Window + 1 <= sent[j] + Window + 1 /\ sent[j] + Window + 1 <= clock + Window + 1
  BY <1>1, <1>4, <1>5
<1> QED  BY <1>1, <1>2, <1>6

\* What the critical sections of the lane do to the window: nothing, trim it, or count
\* the exchange that begins.
Windowed ==
    /\ lastSeen' \in {lastSeen, wall}
    /\ \/ admits' = admits /\ sent' = sent
       \/ admits' = Trimmed(wall) /\ sent' = sent
       \/ admits' = Append(Trimmed(wall), wall) /\ sent' = Append(sent, clock)

\* All of these leave the stamps in step with the exchanges.
LEMMA WindowedKeeps ==
    ASSUME TypeOK, ClocksAgree, StampsAscend, StampsMatch,
           Windowed, UNCHANGED <<clock, wall>>
    PROVE  lastSeen' <= wall' /\ StampsAscend' /\ StampsMatch'
<1> DEFINE n == Len(sent)
           T == Trimmed(wall)
<1>0. /\ n \in Nat /\ wall \in Int /\ lastSeen \in Int /\ clock \in Nat
      /\ Window \in Nat \ {0} /\ lastSeen <= wall /\ wall = clock + Window + 1
      /\ sent \in Seq(Nat) /\ clock' = clock /\ wall' = wall
  <2>1. /\ wall \in Int /\ lastSeen \in Int /\ clock \in Nat /\ sent \in Seq(Nat)
        /\ Window \in Nat \ {0} /\ lastSeen <= wall /\ wall = clock + Window + 1
    BY TimeAssumption DEF TypeOK, ClocksAgree
  <2> QED  BY <2>1, LenProperties
<1>1. lastSeen' <= wall'
  BY <1>0 DEF Windowed
<1>2. /\ T \in Seq(Int) /\ Len(T) = n
      /\ \A i \in 1 .. n : T[i] = sent[i] + Window + 1
  BY WindowFacts
<1>3. \A i \in 1 .. n : sent[i] \in Nat /\ sent[i] > clock - Window
  BY <1>0, ElementOfSeq DEF StampsMatch
<1>4. \A i, j \in 1 .. n : i <= j => sent[i] <= sent[j] /\ sent[j] <= clock
  BY SentAscends
<1> HIDE DEF T
<1>5. \A i, j \in 1 .. n : i <= j => T[i] <= T[j] /\ T[j] <= wall
  <2> SUFFICES ASSUME NEW i \in 1 .. n, NEW j \in 1 .. n, i <= j
               PROVE  T[i] <= T[j] /\ T[j] <= wall
    OBVIOUS
  <2>1. T[i] = sent[i] + Window + 1 /\ T[j] = sent[j] + Window + 1  BY <1>2
  <2>2. sent[i] <= sent[j] /\ sent[j] <= clock /\ sent[i] \in Nat /\ sent[j] \in Nat
    BY <1>3, <1>4
  <2>3. \A x, y \in Nat : x <= y /\ y <= clock
                            => x + Window + 1 <= y + Window + 1 /\ y + Window + 1 <= wall
    <3>1. clock \in Nat /\ Window \in Nat \ {0} /\ wall = clock + Window + 1  BY <1>0
    <3> QED  BY <3>1
  <2> QED  BY <2>1, <2>2, <2>3
<1>6. CASE admits' = admits /\ sent' = sent
  BY <1>0, <1>1, <1>6 DEF StampsAscend, StampsMatch, Earlier
<1>7. CASE admits' = T /\ sent' = sent
  <2>1. StampsAscend'
    BY <1>0, <1>2, <1>5, <1>7 DEF StampsAscend
  <2>2. Len(admits') = n /\ Len(sent') = n /\ Earlier' = 0
    BY <1>0, <1>2, <1>7 DEF Earlier
  <2>3. \A i \in 1 .. n : admits'[0 + i] = sent'[i] + Window + 1 /\ sent'[i] > clock - Window
    BY <1>0, <1>2, <1>3, <1>7
  <2>4. \A i \in 1 .. 0 : admits'[i] <= wall' - Window
    OBVIOUS
  <2>5. StampsMatch'
    BY <1>0, <2>2, <2>3, <2>4 DEF StampsMatch
  <2> QED  BY <1>1, <2>1, <2>5
<1>8. CASE admits' = Append(T, wall) /\ sent' = Append(sent, clock)
  <2>1. Len(admits') = n + 1 /\ admits'[n + 1] = wall /\ \A i \in 1 .. n : admits'[i] = T[i]
    BY <1>0, <1>2, <1>8, AppendProperties
  <2>2. Len(sent') = n + 1 /\ sent'[n + 1] = clock /\ \A i \in 1 .. n : sent'[i] = sent[i]
    BY <1>0, <1>8, AppendProperties
  <2>3. StampsAscend'
    <3> SUFFICES ASSUME NEW i \in 1 .. n + 1, NEW j \in 1 .. n + 1, i <= j
                 PROVE  admits'[i] <= admits'[j] /\ admits'[j] <= wall'
      BY <2>1 DEF StampsAscend
    <3>1. CASE j \in 1 .. n
      <4>1. i \in 1 .. n  BY <1>0, <3>1
      <4> QED  BY <1>0, <1>5, <2>1, <3>1, <4>1
    <3>2. CASE j = n + 1
      <4>1. admits'[i] <= wall
        <5>1. CASE i \in 1 .. n
          BY <1>0, <1>5, <2>1, <5>1
        <5>2. CASE i = n + 1
          BY <1>0, <2>1, <5>2
        <5> QED  BY <1>0, <5>1, <5>2
      <4> QED  BY <1>0, <2>1, <3>2, <4>1
    <3> QED  BY <1>0, <3>1, <3>2
  <2>4. Earlier' = 0
    BY <1>0, <2>1, <2>2 DEF Earlier
  <2>5. ASSUME NEW i \in 1 .. n + 1
        PROVE  admits'[0 + i] = sent'[i] + Window + 1 /\ sent'[i] > clock - Window
    <3>1. CASE i \in 1 .. n
      BY <1>0, <1>2, <1>3, <2>1, <2>2, <3>1
    <3>2. CASE i = n + 1
      BY <1>0, <2>1, <2>2, <3>2
    <3> QED  BY <1>0, <3>1, <3>2
  <2>6. \A i \in 1 .. 0 : admits'[i] <= wall' - Window
    OBVIOUS
  <2>7. StampsMatch'
    BY <1>0, <2>2, <2>4, <2>5, <2>6 DEF StampsMatch
  <2> QED  BY <1>1, <2>3, <2>7
<1> QED  BY <1>6, <1>7, <1>8 DEF Windowed, T

\* An iteration of acquireSlot counts the exchange it begins, and nothing else: where
\* it finds no slot the count is given back. Only below the rate does one begin.
LEMMA IterationWindowed ==
    ASSUME TypeOK, ClocksAgree, StampsAscend, StampsMatch,
           NEW r \in Request, Admit(r, wall) \/ Passed(r, wall)
    PROVE  /\ Windowed
           /\ UNCHANGED <<clock, wall, steps>>
           /\ (Len(sent') > Len(sent) /\ rpm > 0) => Len(sent') <= rpm
<1>0. /\ rpm \in Nat /\ Len(sent) \in Nat /\ sent \in Seq(Nat) /\ clock \in Nat
      /\ lastSeen \in Int
  BY LimitsType, LenProperties DEF TypeOK
<1>1. /\ Seen(lastSeen, wall) = wall
      /\ Len(Trimmed(wall)) = Len(sent)
      /\ Counted(wall) = Append(Trimmed(wall), wall)
      /\ Uncounted(wall) = Trimmed(wall)
  BY WindowFacts
<1>2. CASE Admit(r, wall)
  <2>1. UNCHANGED <<clock, wall, steps>>  BY <1>2 DEF Admit, timeVars
  <2>2. CASE rpm > 0
    <3>1. Len(sent) < rpm  BY <1>1, <1>2, <2>2 DEF Admit, RateOpen
    <3>2. /\ admits' = Append(Trimmed(wall), wall) /\ lastSeen' = wall
          /\ sent' = Append(sent, clock)
      BY <1>0, <1>1, <1>2, <2>2, <3>1 DEF Admit
    <3>3. Len(sent') = Len(sent) + 1  BY <1>0, <3>2, AppendProperties
    <3> QED  BY <1>0, <2>1, <3>1, <3>2, <3>3 DEF Windowed
  <2>3. CASE ~ (rpm > 0)
    <3>1. UNCHANGED <<admits, lastSeen, sent>>  BY <1>2, <2>3 DEF Admit
    <3> QED  BY <2>1, <2>3, <3>1 DEF Windowed
  <2> QED  BY <2>2, <2>3
<1>3. CASE Passed(r, wall)
  <2>1. UNCHANGED <<clock, wall, steps, sent>>  BY <1>3 DEF Passed, timeVars
  <2>2. \/ UNCHANGED <<admits, lastSeen>>
        \/ admits' = Trimmed(wall) /\ lastSeen' = wall
    BY <1>1, <1>3 DEF Passed
  <2> QED  BY <1>0, <2>1, <2>2 DEF Windowed
<1> QED  BY <1>2, <1>3

\* A tick takes the exchanges a minute old off the history; their stamps leave the
\* window with them.
LEMMA TickInStep ==
    ASSUME TypeOK, ClocksAgree, StampsAscend, StampsMatch, Tick
    PROVE  ClocksAgree' /\ StampsAscend' /\ StampsMatch'
<1> DEFINE n == Len(sent)
<1>0. /\ n \in Nat /\ Len(admits) \in Nat /\ Earlier \in Nat /\ Earlier = Len(admits) - n
      /\ wall \in Int /\ lastSeen \in Int /\ clock \in Nat
      /\ Window \in Nat \ {0} /\ lastSeen <= wall /\ wall = clock + Window + 1
      /\ sent \in Seq(Int) /\ clock' = clock + 1 /\ wall' = wall + 1
      /\ UNCHANGED <<admits, lastSeen, deadline, pc>>
  <2>1. /\ wall \in Int /\ lastSeen \in Int /\ clock \in Nat /\ sent \in Seq(Nat)
        /\ Window \in Nat \ {0} /\ lastSeen <= wall /\ wall = clock + Window + 1
    BY TimeAssumption DEF TypeOK, ClocksAgree
  <2>2. n \in Nat /\ Len(admits) \in Nat  BY LenProperties DEF TypeOK
  <2>3. Earlier = Len(admits) - n /\ Earlier >= 0  BY DEF Earlier, StampsMatch
  <2>4. sent \in Seq(Int)  BY <2>1
  <2>5. clock' = clock + 1 /\ wall' = wall + 1 /\ UNCHANGED <<admits, lastSeen, deadline, pc>>
    BY DEF Tick, laneVars, reqVars
  <2> QED  BY <2>1, <2>2, <2>3, <2>4, <2>5
<1>1. ClocksAgree'
  <2>1. lastSeen' <= wall' /\ wall' = clock' + Window + 1  BY <1>0
  <2>2. ASSUME NEW r \in Request, pc'[r] = "wait"
        PROVE  clock' <= deadline'[r].mono /\ deadline'[r].wall = deadline'[r].mono + Window + 1
    <3>1. pc[r] = "wait" /\ deadline' = deadline  BY <1>0, <2>2
    <3>2. deadline[r].mono \in Int  BY DEF TypeOK
    <3>3. ~ (clock >= deadline[r].mono)  BY <3>1 DEF Tick, TimerDue
    <3>4. deadline[r].wall = deadline[r].mono + Window + 1  BY <3>1 DEF ClocksAgree
    <3>5. clock + 1 <= deadline[r].mono  BY <1>0, <3>2, <3>3
    <3> QED  BY <1>0, <3>1, <3>4, <3>5
  <2> QED  BY <2>1, <2>2 DEF ClocksAgree
<1>2. \A i \in 1 .. Len(admits) : admits[i] \in Int
  BY ElementOfSeq DEF TypeOK
<1>3. StampsAscend'
  <2>1. \A i, j \in 1 .. Len(admits) : i <= j => admits[i] <= admits[j] /\ admits[j] <= wall + 1
    BY <1>0, <1>2 DEF StampsAscend
  <2> QED  BY <1>0, <2>1 DEF StampsAscend
<1>4. \A i \in 1 .. n : /\ sent[i] \in Nat /\ sent[i] > clock - Window
                        /\ admits[Earlier + i] = sent[i] + Window + 1
  BY ElementOfSeq DEF StampsMatch, TypeOK
<1>5. PICK k \in 0 .. n : /\ \A i \in 1 .. k : sent[i] <= clock' - Window
                          /\ \A i \in k + 1 .. n : sent[i] > clock' - Window
  <2>1. clock' - Window \in Int  BY <1>0
  <2>2. \A i, j \in 1 .. n : i <= j => sent[i] <= sent[j]  BY SentAscends
  <2> QED  BY <1>0, <2>1, <2>2, SinceSplits
<1>6. /\ Len(sent') = n - k
      /\ \A i \in 1 .. n - k : sent'[i] = sent[k + i]
  <2>1. clock' - Window \in Int  BY <1>0
  <2>2. sent' = Since(sent, clock' - Window)  BY DEF Tick
  <2> QED  BY <1>0, <1>5, <2>1, <2>2, SinceDrops
<1>7. Earlier' = Earlier + k /\ Earlier' \in Nat
  BY <1>0, <1>6 DEF Earlier
<1>8. ASSUME NEW i \in 1 .. n - k
      PROVE  admits'[Earlier' + i] = sent'[i] + Window + 1 /\ sent'[i] > clock' - Window
  <2>1. k + i \in k + 1 .. n /\ k + i \in 1 .. n /\ Earlier' + i = Earlier + (k + i)
    BY <1>0, <1>7
  <2> QED  BY <1>0, <1>4, <1>5, <1>6, <2>1
<1>9. ASSUME NEW i \in 1 .. Earlier'
      PROVE  admits'[i] <= wall' - Window
  <2>1. CASE i <= Earlier
    <3>1. i \in 1 .. Earlier /\ i \in 1 .. Len(admits)  BY <1>0, <1>7, <2>1
    <3>2. admits[i] <= wall - Window /\ admits[i] \in Int  BY <1>2, <3>1 DEF StampsMatch
    <3> QED  BY <1>0, <3>2
  <2>2. CASE i > Earlier
    <3>1. i - Earlier \in 1 .. k /\ i - Earlier \in 1 .. n /\ Earlier + (i - Earlier) = i
      BY <1>0, <1>7, <2>2
    <3>2. admits[i] = sent[i - Earlier] + Window + 1  BY <1>4, <3>1
    <3>3. sent[i - Earlier] <= clock + 1 - Window /\ sent[i - Earlier] \in Nat
      BY <1>0, <1>4, <1>5, <3>1
    <3>4. \A x \in Nat : x <= clock + 1 - Window => x + Window + 1 <= wall + 1 - Window
      <4>1. clock \in Nat /\ Window \in Nat \ {0} /\ wall = clock + Window + 1  BY <1>0
      <4> QED  BY <4>1
    <3> QED  BY <1>0, <3>2, <3>3, <3>4
  <2> QED  BY <1>0, <1>7, <2>1, <2>2
<1>10. StampsMatch'
  BY <1>6, <1>7, <1>8, <1>9 DEF StampsMatch
<1> QED  BY <1>1, <1>3, <1>10

\* On an unrefunded lane no call ends with its admission withdrawn: that takes a row
\* without a wait and a rate.
LEMMA RefundStep ==
    ASSUME TypeOK, SlotReleased, Unrefunded, \A x \in Request : release[x] # "refund",
           [Next]_vars
    PROVE  \A x \in Request : release'[x] # "refund"
<1>0. /\ release \in [Request -> {"none", "noop", "slot", "refund"}]
      /\ wait \in [Request -> Nat] /\ over \in [Request -> BOOLEAN]
      /\ \A c \in Config : c.rpm \in Nat /\ c.wait \in Nat
  BY ConfigAssumption, TimeAssumption DEF TypeOK
<1>1. ASSUME NEW r \in Request, pc[r] # "idle" PROVE ~ (wait[r] = 0 /\ over[r])
  <2>1. PICK c \in Config : wait[r] = c.wait  BY <1>1 DEF SlotReleased
  <2>2. over[r] => \E d \in Config : d.rpm > 0  BY DEF SlotReleased
  <2>3. CASE \A d \in Config : d.wait > 0
    BY <1>0, <2>1, <2>3
  <2>4. CASE \A d \in Config : d.rpm = 0
    BY <1>0, <2>2, <2>4
  <2> QED  BY <2>3, <2>4 DEF Unrefunded
<1>2. ASSUME NEW r \in Request, NEW stamp, Admit(r, stamp), pc[r] # "idle"
      PROVE  \A x \in Request : release'[x] # "refund"
  <2>1. ~ (wait[r] = 0 /\ over[r])  BY <1>1, <1>2
  <2>2. release' = [release EXCEPT ![r] = IF max > 0 THEN "slot" ELSE "noop"]
    BY <1>2, <2>1 DEF Admit
  <2> QED  BY <1>0, <2>2
<1>3. ASSUME UNCHANGED release PROVE \A x \in Request : release'[x] # "refund"
  BY <1>3
<1>4. ASSUME NEW r \in Request, FirstTry(r) \/ Woken(r) \/ Expired(r)
      PROVE  \A x \in Request : release'[x] # "refund"
  <2>1. pc[r] # "idle"  BY <1>4 DEF FirstTry, Woken, Expired
  <2>2. \/ \E stamp \in {wall, deadline[r].wall} : Admit(r, stamp)
        \/ UNCHANGED release
    BY <1>4 DEF FirstTry, Woken, Expired, Refuse, QueueFull, Sleep, Passed
  <2> QED  BY <1>2, <1>3, <2>1, <2>2
<1>5. ASSUME NEW r \in Request, ReadLimits(r)
      PROVE  \A x \in Request : release'[x] # "refund"
  BY <1>0, <1>5 DEF ReadLimits
<1>6. ASSUME NEW r \in Request, Finish(r)
      PROVE  \A x \in Request : release'[x] # "refund"
  BY <1>0, <1>6 DEF Finish
<1>7. ASSUME NEW r \in Request,
             \/ Arrive(r) \/ CheckWindow(r) \/ PeekMax(r) \/ SizeBudget(r)
             \/ Disconnect(r) \/ TellRetryAfter(r)
      PROVE  \A x \in Request : release'[x] # "refund"
  BY <1>3, <1>7 DEF Arrive, CheckWindow, PeekMax, SizeBudget, Disconnect, TellRetryAfter
<1>8. ASSUME Tick \/ StepWall \/ Rest \/ UNCHANGED vars
      PROVE  \A x \in Request : release'[x] # "refund"
  BY <1>3, <1>8 DEF Tick, StepWall, Rest, vars
<1> QED  BY <1>4, <1>5, <1>6, <1>7, <1>8 DEF Next

\* No exchange has begun and the clocks agree at first.
LEMMA WindowInit == Init => WindowInStep
<1> SUFFICES ASSUME Init PROVE WindowInStep
  OBVIOUS
<1>1. /\ admits = <<>> /\ sent = <<>> /\ lastSeen = 0 /\ clock = 0 /\ wall = Window + 1
      /\ \A x \in Request : release[x] = "none" /\ pc[x] = "idle"
  BY DEF Init
<1>2. ClocksAgree
  BY <1>1, TimeAssumption DEF ClocksAgree
<1>3. Len(admits) = 0 /\ Len(sent) = 0 /\ Earlier = 0
  BY <1>1 DEF Earlier
<1>4. StampsAscend /\ StampsMatch
  BY <1>3 DEF StampsAscend, StampsMatch
<1> QED  BY <1>1, <1>2, <1>4 DEF WindowInStep

\* Between two wall-clock steps, every step keeps the window in step with the exchanges
\* of the last minute, and begins one only below the rate.
LEMMA StampStep ==
    ASSUME TypeOK, ClocksAgree, StampsAscend, StampsMatch,
           \A x \in Request : release[x] # "refund", steps' = steps, [Next]_vars
    PROVE  /\ ClocksAgree' /\ StampsAscend' /\ StampsMatch'
           /\ (Len(sent') > Len(sent) /\ rpm > 0) => Len(sent') <= rpm
<1> DEFINE Goal == /\ ClocksAgree' /\ StampsAscend' /\ StampsMatch'
                   /\ (Len(sent') > Len(sent) /\ rpm > 0) => Len(sent') <= rpm
           Timers == \A x \in Request : pc'[x] = "wait" =>
                        /\ clock <= deadline'[x].mono
                        /\ deadline'[x].wall = deadline'[x].mono + Window + 1
<1>0. /\ rpm \in Nat /\ Len(sent) \in Nat /\ wall \in Int /\ lastSeen \in Int
      /\ clock \in Nat /\ Window \in Nat /\ wall = clock + Window + 1
      /\ pc \in [Request -> Place] /\ budget \in [Request -> Int]
      /\ deadline \in [Request -> [mono : Int, wall : Int]]
      /\ Seen(lastSeen, wall) = wall
  BY LimitsType, LenProperties, TimeAssumption, WindowFacts DEF TypeOK, ClocksAgree
<1>a. ASSUME Windowed, Timers, UNCHANGED <<clock, wall>>,
             (Len(sent') > Len(sent) /\ rpm > 0) => Len(sent') <= rpm
      PROVE  Goal
  <2>1. lastSeen' <= wall' /\ StampsAscend' /\ StampsMatch'
    BY <1>a, WindowedKeeps
  <2>2. ClocksAgree'
    BY <1>0, <1>a, <2>1 DEF ClocksAgree
  <2> QED  BY <1>a, <2>1, <2>2
\* A request that does not go to sleep sets no timer.
<1>b. ASSUME NEW r \in Request, NEW place \in Place \ {"wait"}, Goto(r, place),
             \A x \in Request : x # r => deadline'[x] = deadline[x]
      PROVE  Timers
  <2> SUFFICES ASSUME NEW x \in Request, pc'[x] = "wait"
               PROVE  /\ clock <= deadline'[x].mono
                      /\ deadline'[x].wall = deadline'[x].mono + Window + 1
    OBVIOUS
  <2>1. x # r /\ pc[x] = "wait"  BY <1>0, <1>b DEF Goto
  <2> QED  BY <1>b, <2>1 DEF ClocksAgree
\* An iteration, with its timer where it sleeps.
<1>c. ASSUME NEW r \in Request,
             \/ Admit(r, wall) \/ Refuse(r, wall) \/ QueueFull(r, wall)
             \/ Sleep(r, wall) /\ /\ clock <= deadline'[r].mono
                                  /\ deadline'[r].wall = deadline'[r].mono + Window + 1,
             \A x \in Request : x # r => deadline'[x] = deadline[x]
      PROVE  Goal
  <2>1. Admit(r, wall) \/ Passed(r, wall)
    BY <1>c DEF Refuse, QueueFull, Sleep
  <2>2. /\ Windowed /\ UNCHANGED <<clock, wall>>
        /\ (Len(sent') > Len(sent) /\ rpm > 0) => Len(sent') <= rpm
    BY <2>1, IterationWindowed
  <2>3. Timers
    <3>1. CASE Goto(r, "hold") \/ Goto(r, "refused")
      BY <1>b, <1>c, <3>1 DEF Place
    <3>2. CASE Sleep(r, wall)
      <4>1. pc' = [pc EXCEPT ![r] = "wait"]  BY <3>2 DEF Sleep, Goto
      <4>2. CASE /\ clock <= deadline'[r].mono
                 /\ deadline'[r].wall = deadline'[r].mono + Window + 1
        <5> SUFFICES ASSUME NEW x \in Request, pc'[x] = "wait"
                     PROVE  /\ clock <= deadline'[x].mono
                            /\ deadline'[x].wall = deadline'[x].mono + Window + 1
          OBVIOUS
        <5>1. CASE x = r
          BY <4>2, <5>1
        <5>2. CASE x # r
          <6>1. pc[x] = "wait"  BY <1>0, <4>1, <5>2
          <6> QED  BY <1>c, <5>2, <6>1 DEF ClocksAgree
        <5> QED  BY <5>1, <5>2
      <4>3. CASE Admit(r, wall) \/ Refuse(r, wall) \/ QueueFull(r, wall)
        <5>1. Goto(r, "hold") \/ Goto(r, "refused")
          BY <4>3 DEF Admit, Refuse, QueueFull
        <5> QED  BY <3>1, <5>1
      <4> QED  BY <1>c, <4>2, <4>3
    <3> QED  BY <1>c, <3>1, <3>2 DEF Admit, Refuse, QueueFull
  <2> HIDE DEF Goal, Timers
  <2> QED  BY <1>a, <2>2, <2>3
\* A step of a request outside the lane's mutex, or one that only trims.
<1>d. ASSUME NEW r \in Request, NEW place \in Place \ {"wait"}, Goto(r, place),
             UNCHANGED <<clock, wall, sent>>,
             \/ UNCHANGED <<admits, lastSeen>>
             \/ admits' = Trimmed(wall) /\ lastSeen' = Seen(lastSeen, wall),
             \A x \in Request : x # r => deadline'[x] = deadline[x]
      PROVE  Goal
  <2>1. Windowed  BY <1>0, <1>d DEF Windowed
  <2>2. Timers  BY <1>b, <1>d
  <2>3. ~ (Len(sent') > Len(sent))  BY <1>0, <1>d
  <2> HIDE DEF Goal, Timers
  <2> QED  BY <1>a, <1>d, <2>1, <2>2, <2>3
<1> HIDE DEF Goal
<1>1. ASSUME NEW r \in Request, Arrive(r) PROVE Goal
  BY <1>1, <1>d DEF Arrive, Place, timeVars
<1>2. ASSUME NEW r \in Request, ReadLimits(r) PROVE Goal
  BY <1>2, <1>d DEF ReadLimits, Place, laneVars, reqVars, timeVars
<1>3. ASSUME NEW r \in Request, CheckWindow(r) PROVE Goal
  BY <1>3, <1>d DEF CheckWindow, Place, laneVars, timeVars
<1>4. ASSUME NEW r \in Request, PeekMax(r) PROVE Goal
  BY <1>4, <1>d DEF PeekMax, Place, laneVars, reqVars, timeVars
<1>5. ASSUME NEW r \in Request, SizeBudget(r) PROVE Goal
  BY <1>5, <1>d DEF SizeBudget, Place, timeVars
<1>6. ASSUME NEW r \in Request, FirstTry(r) PROVE Goal
  <2>1. deadline' = [deadline EXCEPT ![r] =
                       [mono |-> clock + budget[r], wall |-> wall + budget[r]]]
    BY <1>6 DEF FirstTry
  <2>2. \A x \in Request : x # r => deadline'[x] = deadline[x]
    BY <1>0, <2>1
  <2>3. budget[r] \in Int /\ deadline'[r].mono = clock + budget[r]
        /\ deadline'[r].wall = wall + budget[r]
    BY <1>0, <2>1
  <2>4. budget[r] > 0 => /\ clock <= deadline'[r].mono
                         /\ deadline'[r].wall = deadline'[r].mono + Window + 1
    BY <1>0, <2>3
  <2>5. \/ Admit(r, wall) \/ Refuse(r, wall) \/ QueueFull(r, wall)
        \/ Sleep(r, wall) /\ budget[r] > 0
    BY <1>6 DEF FirstTry
  <2> QED  BY <1>c, <2>2, <2>4, <2>5
<1>7. ASSUME NEW r \in Request, Woken(r) PROVE Goal
  <2>1. deadline' = deadline /\ pc[r] = "wait"
    BY <1>7 DEF Woken, reqVars
  <2>2. clock <= deadline[r].mono /\ deadline[r].wall = deadline[r].mono + Window + 1
    BY <2>1 DEF ClocksAgree
  <2>3. Admit(r, wall) \/ Refuse(r, wall) \/ Sleep(r, wall)
    BY <1>7 DEF Woken
  <2> QED  BY <1>c, <2>1, <2>2, <2>3
\* A timer fires when its deadline has come, so its stamp is the present reading.
<1>8. ASSUME NEW r \in Request, Expired(r) PROVE Goal
  <2>1. deadline' = deadline /\ pc[r] = "wait" /\ clock >= deadline[r].mono
    BY <1>8 DEF Expired, reqVars
  <2>2. clock <= deadline[r].mono /\ deadline[r].wall = deadline[r].mono + Window + 1
        /\ deadline[r].mono \in Int
    BY <1>0, <2>1 DEF ClocksAgree
  <2>3. deadline[r].wall = wall
    <3>1. deadline[r].mono = clock  BY <1>0, <2>1, <2>2
    <3> QED  BY <1>0, <2>2, <3>1
  <2>4. Admit(r, wall) \/ Refuse(r, wall)
    BY <1>8, <2>3 DEF Expired
  <2> QED  BY <1>c, <2>1, <2>4
<1>9. ASSUME NEW r \in Request, Disconnect(r) PROVE Goal
  BY <1>9, <1>d DEF Disconnect, Place, reqVars, timeVars
<1>10. ASSUME NEW r \in Request, TellRetryAfter(r) PROVE Goal
  BY <1>0, <1>10, <1>d DEF TellRetryAfter, Forget, Place, timeVars
<1>11. ASSUME NEW r \in Request, Finish(r) PROVE Goal
  <2>1. UNCHANGED <<admits, lastSeen>>
    BY <1>11 DEF Finish, GiveSlotBack
  <2> QED  BY <1>0, <1>11, <1>d, <2>1 DEF Finish, Forget, Place, timeVars
<1>12. CASE Tick
  <2>1. ClocksAgree' /\ StampsAscend' /\ StampsMatch'  BY <1>12, TickInStep
  <2>2. ~ (Len(sent') > Len(sent))
    <3>1. sent \in Seq(Nat) /\ Nat \in SUBSET Int /\ clock' - Window \in Int
      BY <1>0, <1>12 DEF Tick, TypeOK
    <3>2. Since(sent, clock' - Window) \in Seq(Nat)
          /\ Len(Since(sent, clock' - Window)) <= Len(sent)
      BY <3>1, SinceType
    <3>3. sent' = Since(sent, clock' - Window) /\ Len(sent') \in Nat
      BY <1>12, <3>2, LenProperties DEF Tick
    <3> QED  BY <1>0, <3>2, <3>3
  <2> QED  BY <2>1, <2>2 DEF Goal
<1>13. CASE StepWall
  <2>1. steps' = steps + 1 /\ steps \in Nat  BY <1>13 DEF StepWall, TypeOK
  <2> QED  BY <2>1
<1>14. CASE Rest \/ UNCHANGED vars
  <2>1. UNCHANGED <<clock, wall, sent, admits, lastSeen, deadline, pc>>
    BY <1>14 DEF Rest, vars, laneVars, reqVars, timeVars
  <2>2. ~ (Len(sent') > Len(sent))  BY <1>0, <2>1
  <2>3. ClocksAgree' /\ StampsAscend' /\ StampsMatch'
    BY <2>1 DEF ClocksAgree, StampsAscend, StampsMatch, Earlier
  <2> QED  BY <2>2, <2>3 DEF Goal
<1> QED  BY <1>1, <1>2, <1>3, <1>4, <1>5, <1>6, <1>7, <1>8, <1>9, <1>10, <1>11,
            <1>12, <1>13, <1>14 DEF Goal, Next

\* A step of the wall clock is counted, within its bound.
LEMMA StepsGrow ==
    ASSUME [Next]_vars
    PROVE  \/ steps' = steps
           \/ steps' = steps + 1 /\ steps < MaxSteps
<1>1. ASSUME NEW r \in Request, FirstTry(r) \/ Woken(r) \/ Expired(r) PROVE steps' = steps
  BY <1>1 DEF FirstTry, Woken, Expired, Admit, Refuse, QueueFull, Sleep, Passed, timeVars
<1>2. ASSUME NEW r \in Request,
             \/ Arrive(r) \/ ReadLimits(r) \/ CheckWindow(r) \/ PeekMax(r) \/ SizeBudget(r)
             \/ Disconnect(r) \/ TellRetryAfter(r) \/ Finish(r)
      PROVE  steps' = steps
  BY <1>2 DEF Arrive, ReadLimits, CheckWindow, PeekMax, SizeBudget, Disconnect,
              TellRetryAfter, Finish, timeVars
<1>3. ASSUME Tick \/ Rest \/ UNCHANGED vars PROVE steps' = steps
  BY <1>3 DEF Tick, Rest, vars, timeVars
<1> QED  BY <1>1, <1>2, <1>3 DEF Next, StepWall

\* Every step keeps the window in step with the exchanges.
LEMMA WindowStep ==
    TypeOK /\ SlotReleased /\ WindowInStep /\ [Next]_vars => WindowInStep'
<1> SUFFICES ASSUME TypeOK, SlotReleased, WindowInStep, [Next]_vars, Unrefunded
             PROVE  /\ \A x \in Request : release'[x] # "refund"
                    /\ steps' = 0 => ClocksAgree' /\ StampsAscend' /\ StampsMatch'
  BY DEF WindowInStep, Unrefunded
<1>1. /\ \A x \in Request : release[x] # "refund"
      /\ steps = 0 => ClocksAgree /\ StampsAscend /\ StampsMatch
  BY DEF WindowInStep
<1>2. \A x \in Request : release'[x] # "refund"
  BY <1>1, RefundStep
<1>3. ASSUME steps' = 0 PROVE ClocksAgree' /\ StampsAscend' /\ StampsMatch'
  <2>1. steps = 0 /\ steps' = steps  BY <1>3, StepsGrow DEF TypeOK
  <2> QED  BY <1>1, <2>1, StampStep
<1> QED  BY <1>2, <1>3

\* The window holds one stamp for each exchange begun in the last minute and none for a
\* request that was refused: admitLocked counts, uncountLocked gives the count of a
\* request without a slot back, trimLocked drops what is a minute old. It holds
\* between wall-clock steps and where no refund withdraws the stamp of an exchange
\* that took place (refundAdmission).
THEOREM WindowCorrect == Spec => [](Unrefunded => WindowCountsExchanges)
<1>1. ASSUME TypeOK, WindowInStep, Unrefunded PROVE WindowCountsExchanges
  <2> SUFFICES ASSUME steps = 0
               PROVE  Len(Since(admits, wall - Window)) = Len(sent)
    BY DEF WindowCountsExchanges
  <2>1. ClocksAgree /\ StampsAscend /\ StampsMatch
    BY <1>1 DEF WindowInStep
  <2> QED  BY <1>1, <2>1, WindowFacts
<1>2. TypeOK /\ WindowInStep => (Unrefunded => WindowCountsExchanges)
  BY <1>1
<1> QED  BY <1>2, TypeInit, TypeStep, SlotInit, SlotStep, WindowInit, WindowStep, PTL DEF Spec

\* Where the wall clock is not stepped and no admission is withdrawn by a refund, no
\* exchange begins that makes the last minute hold more than the rate budget in force,
\* however resizes, waits and refusals interleave (acquireSlot, admitLocked).
THEOREM RateBudgetCorrect ==
    ASSUME Unrefunded, MaxSteps = 0
    PROVE  Spec => RateBudget
<1>1. Init => steps = 0
  BY DEF Init
<1>2. TypeOK /\ steps = 0 /\ [Next]_vars => (steps = 0)'
  BY StepsGrow DEF TypeOK
<1>3. TypeOK /\ WindowInStep /\ steps = 0 /\ [Next]_vars
         => [(Len(sent') > Len(sent) /\ rpm > 0) => Len(sent') <= rpm]_vars
  <2> SUFFICES ASSUME TypeOK, WindowInStep, steps = 0, [Next]_vars
               PROVE  (Len(sent') > Len(sent) /\ rpm > 0) => Len(sent') <= rpm
    OBVIOUS
  <2>1. /\ ClocksAgree /\ StampsAscend /\ StampsMatch
        /\ \A x \in Request : release[x] # "refund"
    BY DEF WindowInStep
  <2>2. steps' = steps  BY <1>2
  <2> QED  BY <2>1, <2>2, StampStep
<1> QED  BY <1>1, <1>2, <1>3, TypeInit, TypeStep, SlotInit, SlotStep, WindowInit, WindowStep,
            PTL DEF Spec, RateBudget
=============================================================================
