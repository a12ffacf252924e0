-------------------------- MODULE OAuthRenewProofs --------------------------
(***************************************************************************)
(* Proofs about OAuthRenew, for every set of requests and every number of  *)
(* credentials.                                                            *)
(***************************************************************************)
EXTENDS OAuthRenew, FiniteSetTheorems, TLAPS

-----------------------------------------------------------------------------
(***************************************************************************)
(* Types, and where a request has what.                                    *)
(***************************************************************************)
Spending == {"exchange", "store", "retire", "failed"}

\* A request has a credential from its opening, a mutex from its fetch, a token to
\* spend from its exchange and a new credential from the vendor's answer.
Places ==
    /\ TypeOK
    /\ \A t \in Token : t > minted => age[t] = "fresh"
    /\ \A r \in Request :
          /\ pc[r] \notin Done => cred[r] \in 1 .. minted
          /\ pc[r] \in Done \union {"open"} => lock[r] = 0
          /\ pc[r] \notin Done \union {"open"} => lock[r] \in Mutex
          /\ pc[r] \in Spending => spend[r] \in 1 .. minted
          /\ pc[r] \in {"store", "retire"} => got[r] \in 1 .. minted

\* The values of a function on one element fewer: what is left of the table.
LEMMA FewerValues ==
    ASSUME NEW S, IsFiniteSet(S), NEW f, f \in [S -> Int]
    PROVE  LET T == {f[s] : s \in S} IN IsFiniteSet(T) /\ Cardinality(T) <= Cardinality(S)
<1> DEFINE T == {f[s] : s \in S}
<1>1. f \in Surjection(S, T)  BY DEF Surjection
<1> QED  BY <1>1, FS_Surjection

\* While some token has no entry, a mutex is free that nothing refers to.
LEMMA FreeMutex ==
    ASSUME TypeOK, NEW t \in Token, table[t] = 0
    PROVE  /\ NewMutex \in Mutex
           /\ \A u \in Token : table[u] # NewMutex
           /\ \A r \in Request : lock[r] # NewMutex
<1> DEFINE Others0 == Token \ {t}
           T == {table[u] : u \in Others0}
           L == {lock[r] : r \in Request}
<1>1. IsFiniteSet(Request) /\ Cardinality(Request) \in Nat
  BY RenewAssumption, FS_CardinalityType
<1>2. IsFiniteSet(Token) /\ Cardinality(Token) = MaxMinted
  BY RenewAssumption, FS_Interval DEF Token
<1>3. IsFiniteSet(Others0) /\ Cardinality(Others0) = MaxMinted - 1
  BY <1>2, FS_RemoveElement
<1>4. IsFiniteSet(T) /\ Cardinality(T) <= MaxMinted - 1
  <2> DEFINE f == [u \in Others0 |-> table[u]]
  <2>1. f \in [Others0 -> Int] /\ T = {f[u] : u \in Others0}
    BY RenewAssumption, <1>1 DEF TypeOK, Mutex
  <2> HIDE DEF f, T
  <2>2. IsFiniteSet({f[u] : u \in Others0}) /\ Cardinality({f[u] : u \in Others0}) <= Cardinality(Others0)
    BY <1>3, <2>1, FewerValues
  <2> QED  BY <1>3, <2>1, <2>2
<1>5. IsFiniteSet(L) /\ Cardinality(L) <= Cardinality(Request)
  BY <1>1, RenewAssumption, FewerValues DEF TypeOK, Mutex
<1>6. IsFiniteSet(T \union L) /\ Cardinality(T \union L) <= MaxMinted - 1 + Cardinality(Request)
  <2>1. IsFiniteSet(T \intersect L) /\ Cardinality(T \intersect L) \in Nat
    BY <1>4, FS_Intersection, FS_CardinalityType
  <2>2. Cardinality(T) \in Nat /\ Cardinality(L) \in Nat
    BY <1>4, <1>5, FS_CardinalityType
  <2> HIDE DEF T, L
  <2>3. /\ IsFiniteSet(T \union L)
        /\ Cardinality(T \union L) = Cardinality(T) + Cardinality(L) - Cardinality(T \intersect L)
    BY <1>4, <1>5, FS_Union
  <2> QED  BY <1>1, <1>4, <1>5, <2>1, <2>2, <2>3, RenewAssumption
<1>7. IsFiniteSet(Mutex) /\ Cardinality(Mutex) = MaxMinted + Cardinality(Request)
  BY <1>1, RenewAssumption, FS_Interval DEF Mutex
<1>8. \E k \in Mutex : k \notin T \union L
  <2> SUFFICES ASSUME Mutex \subseteq T \union L PROVE FALSE  OBVIOUS
  <2> HIDE DEF T, L
  <2>1. Cardinality(Mutex) <= Cardinality(T \union L)
    BY <1>6, FS_Subset
  <2>2. Cardinality(T \union L) \in Nat  BY <1>6, FS_CardinalityType
  <2> QED  BY <1>1, <1>6, <1>7, <2>1, <2>2, RenewAssumption
<1>9. \E k \in Mutex : k \notin Range(table) \union Range(lock)
  <2>1. PICK k \in Mutex : k \notin T \union L  BY <1>8
  <2>2. k # 0  BY <1>1, RenewAssumption DEF Mutex
  <2>3. k \notin Range(table)
    BY <2>1, <2>2 DEF Range, TypeOK
  <2>4. k \notin Range(lock)
    BY <2>1 DEF Range, TypeOK
  <2> QED  BY <2>3, <2>4
<1>10. NewMutex \in Mutex /\ NewMutex \notin Range(table) \union Range(lock)
  BY <1>9 DEF NewMutex
<1> QED  BY <1>10 DEF Range, TypeOK

\* What a sweep drops are entries of the table.
LEMMA UnlockedAreTokens == Unlocked \subseteq Token
BY DEF Unlocked, Swept

LEMMA PlacesInit == Init => Places
<1> SUFFICES ASSUME Init PROVE Places  OBVIOUS
<1>1. Cardinality(Request) \in Nat /\ 1 \in Token /\ MaxMinted \in Nat
  BY RenewAssumption, FS_CardinalityType DEF Token
<1>2. TypeOK
  BY <1>1 DEF Init, TypeOK, Done, Live, Token
<1> QED  BY <1>1, <1>2 DEF Init, Places, Done, Spending

\* Sweeping and retiring leave a table that is well formed.
LEMMA WithoutType ==
    ASSUME TypeOK, NEW gone
    PROVE  /\ Without(gone) \in [Token -> Mutex \union {0}]
           /\ Unmarked(gone) \in [Token -> {"new", "works", "dead", "lapsed", "idle"}]
           /\ \A t \in Token : Without(gone)[t] = 0 => Unmarked(gone)[t] = "new"
BY DEF TypeOK, Without, Unmarked

\* A call that returns gives up all it had.
LEMMA ReturnPlaces ==
    ASSUME Places, NEW r \in Request, NEW verdict \in Done, Return(r, verdict),
           pc[r] \notin Done \union {"open"},
           table' \in [Token -> Mutex \union {0}],
           mark' \in [Token -> {"new", "works", "dead", "lapsed", "idle"}],
           \A t \in Token : table'[t] = 0 => mark'[t] = "new",
           UNCHANGED storeVars, UNCHANGED replaced
    PROVE  Places'
<1>1. TypeOK'
  BY DEF Places, TypeOK, Return, Goto, storeVars, Done, Live
<1>2. \A q \in Request :
        /\ q # r => /\ pc'[q] = pc[q] /\ cred'[q] = cred[q] /\ lock'[q] = lock[q]
                    /\ spend'[q] = spend[q] /\ got'[q] = got[q]
        /\ q = r => pc'[q] \in Done /\ lock'[q] = 0
  BY DEF Places, TypeOK, Return, Goto
<1> QED  BY <1>1, <1>2 DEF Places, storeVars, Done, Spending

LEMMA StoredType ==
    ASSUME Places, NEW r \in Request, pc[r] \notin Done
    PROVE  Stored(r) \in 1 .. minted
BY DEF Places, TypeOK, Stored

LEMMA PlacesStep == Places /\ [Next]_vars => Places'
<1> SUFFICES ASSUME Places, [Next]_vars PROVE Places'  OBVIOUS
<1>0. /\ MaxMinted \in Nat /\ minted \in Nat /\ minted <= MaxMinted
      /\ Token = 1 .. MaxMinted /\ 1 .. minted \subseteq Token
  BY RenewAssumption DEF Places, TypeOK, Token
<1>1. ASSUME NEW r \in Request, Open(r) PROVE Places'
  BY <1>0, <1>1 DEF Open, Goto, Places, TypeOK, storeVars, tableVars, Done, Live, Spending, Token
<1>2. ASSUME NEW r \in Request, FetchLock(r) PROVE Places'
  <2>1. pc[r] = "open" /\ cred[r] \in Token
    BY <1>0, <1>2 DEF FetchLock, Places, TypeOK, Done, Token
  <2>2. /\ table' \in [Token -> Mutex \union {0}] /\ lock' \in [Request -> Mutex \union {0}]
        /\ mark' \in [Token -> {"new", "works", "dead", "lapsed", "idle"}]
        /\ \A t \in Token : table'[t] = 0 => mark'[t] = "new"
        /\ lock'[r] \in Mutex /\ \A q \in Request \ {r} : lock'[q] = lock[q]
    <3>1. CASE table[cred[r]] # 0
      BY <1>2, <2>1, <3>1 DEF FetchLock, Places, TypeOK
    <3>2. CASE table[cred[r]] = 0
      <4>1. NewMutex \in Mutex  BY <2>1, <3>2, FreeMutex DEF Places
      <4>2. /\ table' = [Without(Swept) EXCEPT ![cred[r]] = NewMutex]
            /\ mark' = [Unmarked(Swept) EXCEPT ![cred[r]] = "new"]
            /\ lock' = [lock EXCEPT ![r] = NewMutex]
        BY <1>2, <3>2 DEF FetchLock
      <4> QED  BY <2>1, <4>1, <4>2, WithoutType DEF Places, TypeOK
    <3> QED  BY <3>1, <3>2
  <2>3. TypeOK'
    BY <1>2, <2>2, UnlockedAreTokens DEF FetchLock, Goto, Places, TypeOK, storeVars
  <2> QED  BY <1>2, <2>1, <2>2, <2>3
      DEF FetchLock, Goto, Places, TypeOK, storeVars, Done, Spending
<1>3. ASSUME NEW r \in Request, TakeLock(r) PROVE Places'
  BY <1>3 DEF TakeLock, Goto, Places, TypeOK, storeVars, Done, Live, Spending
<1>4. ASSUME NEW r \in Request, Begin(r) PROVE Places'
  <2>1. pc[r] = "begin" /\ cred[r] \in Token
    BY <1>0, <1>4 DEF Begin, Places, Done, Token
  <2>2. /\ table' = Without(Swept)
        /\ mark' = [t \in Token |-> IF t = cred[r] /\ table[cred[r]] = lock[r] /\ mark[t] = "idle"
                                    THEN "new" ELSE Unmarked(Swept)[t]]
        /\ pc' = [pc EXCEPT ![r] = IF Answered(r) THEN mark[cred[r]] ELSE "read"]
    BY <1>4 DEF Begin, Goto
  <2>3. pc'[r] \in Live \union {"read"}
    BY <2>1, <2>2 DEF Places, TypeOK, Answered
  <2>4. TypeOK'
    <3> HIDE DEF TypeOK
    <3>1. /\ table' \in [Token -> Mutex \union {0}]
          /\ mark' \in [Token -> {"new", "works", "dead", "lapsed", "idle"}]
          /\ \A t \in Token : table'[t] = 0 => mark'[t] = "new"
      BY <2>2, WithoutType DEF Places
    <3> QED  BY <1>4, <2>2, <2>3, <3>1, UnlockedAreTokens DEF Begin, Places, TypeOK, storeVars, Live, Done
  <2> QED  BY <1>4, <2>1, <2>2, <2>3, <2>4 DEF Begin, Places, TypeOK, storeVars, Live, Done, Spending
<1>5. ASSUME NEW r \in Request, ShareFailure(r) PROVE Places'
  <2>1. PICK verdict \in Done : Return(r, verdict) /\ pc[r] \notin Done \union {"open"}
    BY <1>5 DEF ShareFailure, Done, Live
  <2> QED  BY <1>5, <2>1, ReturnPlaces DEF ShareFailure, Places, TypeOK
<1>6. ASSUME NEW r \in Request, ForceBehindFailure(r) PROVE Places'
  <2>1. pc[r] \in Live /\ Stored(r) \in 1 .. minted
    BY <1>6, StoredType DEF ForceBehindFailure, Live, Done
  <2>2. CASE Stored(r) = cred[r]
    <3>1. Stored(r) \in Token  BY <1>0, <2>1
    <3> HIDE DEF Stored
    <3>2. TypeOK'
      BY <1>6, <2>2, <3>1 DEF ForceBehindFailure, Goto, Places, TypeOK, storeVars, tableVars
    <3> QED  BY <1>6, <2>1, <2>2, <3>2
             DEF ForceBehindFailure, Goto, Places, TypeOK, storeVars, Live, Done, Spending
  <2>3. CASE Stored(r) # cred[r]
    <3>1. PICK verdict \in Done : Return(r, verdict)
      BY <1>6, <2>3 DEF ForceBehindFailure, Verdict, Done
    <3> QED  BY <1>6, <2>1, <2>3, <3>1, ReturnPlaces DEF ForceBehindFailure, Places, TypeOK, Live, Done
  <2> QED  BY <2>2, <2>3
<1>7. ASSUME NEW r \in Request, ReadRouter(r) PROVE Places'
  <2>1. pc[r] = "read" /\ Stored(r) \in 1 .. minted
    BY <1>7, StoredType DEF ReadRouter, Done
  <2>2. CASE Exchange(r, Stored(r))
    BY <1>0, <1>7, <2>1, <2>2
       DEF ReadRouter, Exchange, Goto, Places, TypeOK, storeVars, tableVars, Live, Done, Spending, Token
  <2>3. CASE Return(r, "served") /\ UNCHANGED <<table, mark>>
    BY <1>7, <2>1, <2>3, ReturnPlaces DEF ReadRouter, Places, TypeOK, Done
  <2> QED  BY <1>7, <2>2, <2>3 DEF ReadRouter
<1>8. ASSUME NEW r \in Request, Renewed(r) PROVE Places'
  <2>1. PICK a \in MintedAges : age' = [age EXCEPT ![minted + 1] = a]
    BY <1>8 DEF Renewed
  <2>2. a \in {"fresh", "due", "expired"}  BY RenewAssumption
  <2>3. /\ pc[r] = "exchange" /\ spend[r] \in Token /\ minted + 1 \in Token /\ minted' = minted + 1
        /\ \A n \in 0 .. minted : n \in 0 .. minted'
        /\ \A n \in 1 .. minted : n \in 1 .. minted'
        /\ minted + 1 \in 1 .. minted'
    BY <1>0, <1>8 DEF Renewed, Places, Spending
  <2>4. TypeOK'
    BY <1>8, <2>1, <2>2, <2>3 DEF Renewed, Goto, Places, TypeOK, tableVars
  <2>5. \A t \in Token : t > minted' => age'[t] = "fresh"
    BY <1>0, <2>1, <2>3 DEF Places, TypeOK
  <2> QED  BY <1>8, <2>3, <2>4, <2>5 DEF Renewed, Goto, Places, TypeOK, Done, Spending
<1>9. ASSUME NEW r \in Request, NotRenewed(r) PROVE Places'
  <2>1. pc[r] = "exchange" /\ spend[r] \in Token
    BY <1>0, <1>9 DEF NotRenewed, Places, Spending
  <2>2. TypeOK'
    BY <1>9, <2>1 DEF NotRenewed, Goto, Places, TypeOK, tableVars
  <2> QED  BY <1>9, <2>1, <2>2 DEF NotRenewed, Goto, Places, TypeOK, Done, Spending
<1>10. ASSUME NEW r \in Request, Store(r) PROVE Places'
  <2>1. pc[r] = "store" /\ spend[r] \in Token /\ got[r] \in 0 .. minted
    BY <1>0, <1>10 DEF Store, Places, Spending
  <2>2. TypeOK'
    BY <1>10, <2>1 DEF Store, Goto, Places, TypeOK, tableVars
  <2> QED  BY <1>10, <2>1, <2>2 DEF Store, Goto, Places, TypeOK, Done, Spending
<1>11. ASSUME NEW r \in Request, Retire(r) PROVE Places'
  <2>1. PICK verdict \in Done, gone \in SUBSET Token : /\ Return(r, verdict) /\ UNCHANGED <<storeVars, replaced>>
                                      /\ table' = Without(gone) /\ mark' = Unmarked(gone)
    <3> DEFINE gone == IF kind[r] = "probe" THEN RetiredSpread(spend[r], r)
                                            ELSE Retired(spend[r], r)
    <3>1. gone \in SUBSET Token
      BY <1>0, <1>11 DEF Retire, RetiredSpread, Retired, Places, Spending
    <3> QED  BY <1>11, <3>1 DEF Retire, Verdict, Done
  <2>2. pc[r] \notin Done \union {"open"}
    BY <1>11 DEF Retire, Done
  <2> QED  BY <2>1, <2>2, WithoutType, ReturnPlaces DEF Places
<1>12. ASSUME NEW r \in Request, Fail(r) PROVE Places'
  <2>1. pc[r] \notin Done \union {"open"} /\ spend[r] \in Token /\ UNCHANGED <<storeVars, replaced>>
    BY <1>0, <1>12 DEF Fail, Places, Done, Spending
  <2>2. PICK verdict \in Done : Return(r, verdict)
    BY <1>12 DEF Fail, Verdict, Done
  <2>3. CASE UNCHANGED <<table, mark>>
    BY <2>1, <2>2, <2>3, ReturnPlaces DEF Places, TypeOK
  <2>4. CASE \E expired \in BOOLEAN : Settle(spend[r], expired)
    <3>1. table[spend[r]] = 0 => NewMutex \in Mutex
      BY <2>1, FreeMutex DEF Places
    <3>2. PICK expired \in BOOLEAN : Settle(spend[r], expired)  BY <2>4
    <3>3. /\ table \in [Token -> Mutex \union {0}]
          /\ mark \in [Token -> {"new", "works", "dead", "lapsed", "idle"}]
          /\ \A t \in Token : table[t] = 0 => mark[t] = "new"
      BY DEF Places, TypeOK
    <3>4. PICK k \in Mutex \union {0} :
             /\ table' = [table EXCEPT ![spend[r]] = k]
             /\ k = 0 => FALSE
      <4>1. 0 \notin Mutex  BY DEF Mutex
      <4>2. CASE table[spend[r]] = 0
        BY <3>1, <3>2, <4>1, <4>2 DEF Settle
      <4>3. CASE table[spend[r]] # 0
        BY <2>1, <3>2, <3>3, <4>3 DEF Settle
      <4> QED  BY <4>2, <4>3
    <3>5. PICK m \in {"works", "dead"} : mark' = [mark EXCEPT ![spend[r]] = m]
      BY <3>2 DEF Settle
    <3>6. table' \in [Token -> Mutex \union {0}]  BY <3>3, <3>4
    <3>7. mark' \in [Token -> {"new", "works", "dead", "lapsed", "idle"}]  BY <3>3, <3>5
    <3>8. \A t \in Token : table'[t] = 0 => mark'[t] = "new"
      BY <2>1, <3>3, <3>4, <3>5
    <3> QED  BY <2>1, <2>2, <3>6, <3>7, <3>8, ReturnPlaces
  <2>5. \/ UNCHANGED <<table, mark>>
        \/ \E expired \in BOOLEAN : Settle(spend[r], expired)
    BY <1>12 DEF Fail
  <2> QED  BY <2>3, <2>4, <2>5
<1>13. ASSUME SignIn \/ SignOut PROVE Places'
  <2>1. /\ minted' \in Token /\ minted <= minted' /\ router' \in 0 .. minted'
        /\ UNCHANGED <<age, spent, tableVars, pc, kind, cred, lock, spend, got, replaced, astray>>
    BY <1>0, <1>13 DEF SignIn, SignOut, Places, TypeOK
  <2>2. TypeOK'
    BY <2>1 DEF Places, TypeOK, tableVars
  <2>3. \A n \in 1 .. minted : n \in 1 .. minted'
    BY <1>0, <2>1
  <2>4. minted' \in Nat
    BY <1>0, <2>1
  <2>5. \A t \in Token : t > minted' => t > minted
    BY <1>0, <2>1, <2>4
  <2> QED  BY <2>1, <2>2, <2>3, <2>5 DEF Places
<1>14. ASSUME Age PROVE Places'
  <2>1. PICK t \in 1 .. minted, a \in {"due", "expired"} : age' = [age EXCEPT ![t] = a]
    BY <1>14 DEF Age
  <2>2. UNCHANGED <<router, minted, spent, tableVars, pc, kind, cred, lock, spend, got, replaced, astray>>
    BY <1>14 DEF Age
  <2>3. age' \in [Token -> {"fresh", "due", "expired"}]
    BY <2>1 DEF Places, TypeOK
  <2>4. TypeOK'
    BY <2>2, <2>3 DEF Places, TypeOK, tableVars
  <2>5. \A u \in Token : u > minted' => age'[u] = "fresh"
    BY <1>0, <2>1, <2>2 DEF Places, TypeOK
  <2> QED  BY <2>2, <2>4, <2>5 DEF Places
<1>15. ASSUME Lapse PROVE Places'
  <2>1. PICK t \in Token, m \in {"lapsed", "idle"} :
           /\ mark' = [mark EXCEPT ![t] = m]
           /\ table[t] # 0
    BY <1>15 DEF Lapse, Places, TypeOK, Live
  <2>2. UNCHANGED <<storeVars, table, owner, pc, kind, cred, lock, spend, got, replaced, astray>>
    BY <1>15 DEF Lapse
  <2>3. /\ mark' \in [Token -> {"new", "works", "dead", "lapsed", "idle"}]
        /\ \A u \in Token : table'[u] = 0 => mark'[u] = "new"
    BY <2>1, <2>2 DEF Places, TypeOK
  <2>4. TypeOK'
    BY <2>2, <2>3 DEF Places, TypeOK, storeVars
  <2> QED  BY <2>2, <2>4 DEF Places, storeVars
<1>16. ASSUME SweepElsewhere PROVE Places'
  <2>1. TypeOK'
    BY <1>16, WithoutType, UnlockedAreTokens DEF SweepElsewhere, Places, TypeOK, storeVars
  <2> QED  BY <1>16, <2>1 DEF SweepElsewhere, Places, storeVars
<1>17. ASSUME UNCHANGED vars PROVE Places'
  BY <1>17 DEF vars, storeVars, tableVars, Places, TypeOK
<1> QED  BY <1>1, <1>2, <1>3, <1>4, <1>5, <1>6, <1>7, <1>8, <1>9, <1>10, <1>11, <1>12, <1>13,
            <1>14, <1>15, <1>16, <1>17 DEF Next, Proceed

\* The table, its mutexes and the requests' locals stay well formed, with any
\* number of accounts' renewals, sign-ins and sign-outs beside them.
THEOREM TypeCorrect == Spec => []TypeOK
<1>1. Places => TypeOK  BY DEF Places
<1> QED  BY <1>1, PlacesInit, PlacesStep, PTL DEF Spec

-----------------------------------------------------------------------------
(***************************************************************************)
(* A replaced token is not sent again: what the router stores was never    *)
(* replaced, and a credential about to be stored is known to nobody.       *)
(***************************************************************************)
\* The credential a renewal is about to store is not stored, opened, spent or replaced.
Unknown(q) ==
    /\ got[q] \notin replaced /\ got[q] # router
    /\ \A r \in Request :
          /\ pc[r] \notin Done => cred[r] # got[q]
          /\ pc[r] \in Spending => spend[r] # got[q]
          /\ pc[r] = "store" /\ r # q => got[r] # got[q]

Replacing ==
    /\ Places
    /\ router \notin replaced /\ replaced \subseteq 1 .. minted
    /\ \A q \in Request : pc[q] = "store" => Unknown(q)

LEMMA ReplacingInit == Init => Replacing
<1> SUFFICES ASSUME Init PROVE Replacing  OBVIOUS
<1> QED  BY PlacesInit DEF Init, Replacing, Done

\* The frame of a step of one request.
LEMMA OneGoes ==
    ASSUME Places, NEW r \in Request, NEW place, Goto(r, place)
    PROVE  /\ pc'[r] = place
           /\ \A q \in Request \ {r} : pc'[q] = pc[q]
BY DEF Goto, Places, TypeOK

\* A request that returns leaves the others their place and their locals.
LEMMA OthersStay ==
    ASSUME Places, NEW r \in Request, NEW verdict \in Done, Return(r, verdict)
    PROVE  /\ pc'[r] \in Done
           /\ \A q \in Request \ {r} :
                 /\ pc'[q] = pc[q] /\ kind'[q] = kind[q] /\ cred'[q] = cred[q]
                 /\ lock'[q] = lock[q] /\ spend'[q] = spend[q] /\ got'[q] = got[q]
           /\ \A t \in astray : (\E q \in Request \ {r} : cred[q] = t) => t \in astray'
BY DEF Return, Goto, Places, TypeOK

\* Nothing stored or replaced, and one request at another place: no news to anyone.
LEMMA ReturnReplacing ==
    ASSUME Replacing, Places', NEW r \in Request, NEW verdict \in Done, Return(r, verdict),
           UNCHANGED storeVars, UNCHANGED replaced
    PROVE  Replacing'
<1>1. \A q \in Request : pc'[q] = "store" => q # r /\ pc[q] = "store" /\ got'[q] = got[q]
  BY OthersStay DEF Replacing, Done
<1>2. ASSUME NEW q \in Request, pc'[q] = "store" PROVE Unknown(q)'
  BY <1>1, <1>2, OthersStay DEF Replacing, Unknown, storeVars, Done, Spending
<1> QED  BY <1>2 DEF Replacing, storeVars

\* A request that starts an exchange spends what the router stores, or its own behind a
\* sign-out.
LEMMA StartsExchange ==
    ASSUME Places, Next, NEW r \in Request, pc[r] # "exchange", pc'[r] = "exchange"
    PROVE  /\ spend'[r] = Stored(r)
           /\ \/ pc[r] = "read" /\ ReadRouter(r) /\ Exchange(r, Stored(r))
              \/ pc[r] \in Live /\ kind[r] = "force" /\ Stored(r) = cred[r]
<1>1. PICK q \in Request : Open(q) \/ Proceed(q)
  BY DEF Next, SignIn, SignOut, Age, Lapse, SweepElsewhere
<1>2. q = r /\ (ReadRouter(r) \/ ForceBehindFailure(r))
  <2>1. \E place \in Done \union Live \union {"open", "queued", "begin", "read", "exchange",
                                           "store", "retire", "failed"} : Goto(q, place)
    BY <1>1 DEF Proceed, Open, FetchLock, TakeLock, Begin, ShareFailure, ForceBehindFailure,
                ReadRouter, Renewed, NotRenewed, Store, Retire, Fail, Return, Exchange, Verdict,
                Answered, Done, Live
  <2>2. q = r  BY <2>1, OneGoes
  <2>3. CASE ReadRouter(r) \/ ForceBehindFailure(r)  BY <2>2, <2>3
  <2>4. CASE ~(ReadRouter(r) \/ ForceBehindFailure(r))
    <3>1. \E place \in Done \union Live \union {"open", "queued", "begin", "read",
                                            "store", "retire", "failed"} : Goto(r, place)
      BY <1>1, <2>2, <2>4
         DEF Proceed, Open, FetchLock, TakeLock, Begin, ShareFailure, Renewed, NotRenewed,
             Store, Retire, Fail, Return, Verdict, Answered, Done, Live
    <3> QED  BY <3>1, OneGoes DEF Done, Live
  <2> QED  BY <2>3, <2>4
<1>3. \A verdict \in Done : ~Return(r, verdict)
  BY OthersStay DEF Done
<1>4. CASE ReadRouter(r)
  <2>1. Exchange(r, Stored(r))  BY <1>3, <1>4 DEF ReadRouter, Done
  <2> QED  BY <1>4, <2>1 DEF ReadRouter, Exchange, Places, TypeOK
<1>5. CASE ForceBehindFailure(r)
  <2>1. Stored(r) = cred[r] /\ spend' = [spend EXCEPT ![r] = Stored(r)]
    BY <1>3, <1>5 DEF ForceBehindFailure, Verdict, Done
  <2> QED  BY <1>5, <2>1 DEF ForceBehindFailure, Places, TypeOK
<1> QED  BY <1>2, <1>4, <1>5

LEMMA ReplacingStep == Replacing /\ [Next]_vars => Replacing'
<1> SUFFICES ASSUME Replacing, [Next]_vars PROVE Replacing'  OBVIOUS
<1>0. Places' /\ Places  BY PlacesStep DEF Replacing
<1>a. /\ minted \in Nat /\ router \in 0 .. minted /\ MaxMinted \in Nat
      /\ Token = 1 .. MaxMinted /\ 1 .. minted \subseteq Token
      /\ \A q \in Request : pc[q] = "store" => got[q] \in 1 .. minted
  BY <1>0, RenewAssumption DEF Places, TypeOK, Token
<1>1. ASSUME NEW r \in Request,
             \/ Open(r) \/ FetchLock(r) \/ TakeLock(r) \/ Begin(r) \/ NotRenewed(r)
      PROVE  Replacing'
  <2>1. /\ UNCHANGED <<router, minted, spend, got, replaced>>
        /\ \A q \in Request \ {r} : pc'[q] = pc[q] /\ cred'[q] = cred[q]
        /\ pc'[r] # "store" /\ (pc'[r] \in Spending => pc[r] \in Spending)
        /\ cred'[r] = router \/ (cred'[r] = cred[r] /\ pc[r] \notin Done)
    <3>1. CASE Open(r)  BY <1>0, <3>1 DEF Open, Goto, storeVars, Places, TypeOK, Done, Spending
    <3>2. CASE FetchLock(r) \/ TakeLock(r) \/ NotRenewed(r)
      BY <1>0, <3>2 DEF FetchLock, TakeLock, NotRenewed, Goto, storeVars, Places, TypeOK, Done, Spending
    <3>3. CASE Begin(r)
      BY <1>0, <3>3 DEF Begin, Answered, Live, Goto, storeVars, Places, TypeOK, Done, Spending
    <3> QED  BY <1>1, <3>1, <3>2, <3>3
  <2>2. ASSUME NEW q \in Request, pc'[q] = "store" PROVE Unknown(q)'
    <3>1. q # r /\ pc[q] = "store" /\ Unknown(q)  BY <2>1, <2>2 DEF Replacing
    <3> QED  BY <2>1, <3>1 DEF Unknown
  <2> QED  BY <1>0, <2>1, <2>2 DEF Replacing
<1>2. ASSUME NEW r \in Request, ShareFailure(r) PROVE Replacing'
  <2>1. PICK verdict \in Done : Return(r, verdict)  BY <1>2 DEF ShareFailure, Done
  <2> QED  BY <1>0, <1>2, <2>1, ReturnReplacing DEF ShareFailure
<1>3. ASSUME NEW r \in Request, ForceBehindFailure(r) \/ ReadRouter(r) PROVE Replacing'
  <2>1. UNCHANGED <<storeVars, replaced>> /\ pc[r] \notin Done
    BY <1>3 DEF ForceBehindFailure, ReadRouter, Live, Done
  <2>2. CASE \E verdict \in Done : Return(r, verdict)
    BY <1>0, <2>1, <2>2, ReturnReplacing
  <2>3. CASE ~ \E verdict \in Done : Return(r, verdict)
    <3>1. /\ UNCHANGED <<cred, got>> /\ spend' = [spend EXCEPT ![r] = Stored(r)]
          /\ Goto(r, "exchange")
      BY <1>3, <2>3 DEF ForceBehindFailure, ReadRouter, Exchange, Verdict, Done
    <3>2. /\ pc'[r] = "exchange" /\ \A q \in Request \ {r} : pc'[q] = pc[q]
          /\ \A q \in Request : spend'[q] = (IF q = r THEN Stored(r) ELSE spend[q])
      BY <1>0, <3>1, OneGoes DEF Places, TypeOK
    <3>3. Stored(r) \in {router, cred[r]}  BY DEF Stored
    <3> HIDE DEF Stored
    <3>4. ASSUME NEW q \in Request, pc'[q] = "store" PROVE Unknown(q)'
      <4>1. q # r /\ pc[q] = "store" /\ Unknown(q)  BY <3>2, <3>4 DEF Replacing
      <4>2. Stored(r) # got[q]  BY <2>1, <3>3, <4>1 DEF Unknown
      <4> QED  BY <2>1, <3>1, <3>2, <4>1, <4>2 DEF Unknown, storeVars, Done
    <3> QED  BY <1>0, <2>1, <3>4 DEF Replacing, storeVars
  <2> QED  BY <2>2, <2>3
<1>4. ASSUME NEW r \in Request, Renewed(r) PROVE Replacing'
  <2>1. /\ pc[r] = "exchange" /\ minted' = minted + 1 /\ got' = [got EXCEPT ![r] = minted + 1]
        /\ UNCHANGED <<router, cred, spend, replaced>> /\ Goto(r, "store")
    BY <1>4 DEF Renewed
  <2>2. /\ pc'[r] = "store" /\ \A q \in Request \ {r} : pc'[q] = pc[q]
        /\ \A q \in Request : got'[q] = (IF q = r THEN minted + 1 ELSE got[q])
    BY <1>0, <2>1, OneGoes DEF Places, TypeOK
  <2>3. /\ minted + 1 \notin replaced /\ minted + 1 # router
        /\ \A q \in Request :
              /\ pc[q] \notin Done => cred[q] # minted + 1
              /\ pc[q] \in Spending => spend[q] # minted + 1
              /\ pc[q] = "store" => got[q] # minted + 1
    BY <1>0, <1>a DEF Places, Replacing
  <2>4. Unknown(r)'
    <3>1. got'[r] = minted + 1  BY <2>2
    <3> QED  BY <2>1, <2>2, <2>3, <3>1 DEF Unknown, Done, Spending
  <2>5. ASSUME NEW q \in Request \ {r}, pc'[q] = "store" PROVE Unknown(q)'
    <3>1. pc[q] = "store" /\ Unknown(q) /\ got'[q] = got[q]  BY <2>2, <2>5 DEF Replacing
    <3>2. pc[r] \notin Done /\ pc[r] \in Spending  BY <2>1 DEF Done, Spending
    <3> QED  BY <2>1, <2>2, <2>3, <3>1, <3>2 DEF Unknown
  <2> QED  BY <1>0, <1>a, <2>1, <2>2, <2>4, <2>5 DEF Replacing
<1>5. ASSUME NEW r \in Request, Store(r) PROVE Replacing'
  <2>1. /\ pc[r] = "store" /\ router' = got[r] /\ replaced' = replaced \union {spend[r]}
        /\ UNCHANGED <<minted, cred, spend, got>> /\ Goto(r, "retire")
    BY <1>5 DEF Store
  <2>2. /\ pc'[r] = "retire" /\ \A q \in Request \ {r} : pc'[q] = pc[q]
    BY <1>0, <2>1, OneGoes
  <2>3. Unknown(r) /\ pc[r] \in Spending /\ spend[r] \in 1 .. minted
    BY <1>0, <2>1 DEF Replacing, Spending, Places
  <2>4. router' \notin replaced'  BY <2>1, <2>3 DEF Unknown
  <2>5. ASSUME NEW q \in Request, pc'[q] = "store" PROVE Unknown(q)'
    <3>1. q # r /\ pc[q] = "store" /\ Unknown(q)  BY <2>2, <2>5 DEF Replacing
    <3>2. spend[r] # got[q] /\ got[r] # got[q]  BY <2>1, <2>3, <3>1 DEF Unknown
    <3> QED  BY <2>1, <2>2, <2>3, <3>1, <3>2 DEF Unknown, Done
  <2> QED  BY <1>0, <2>1, <2>3, <2>4, <2>5 DEF Replacing
<1>6. ASSUME NEW r \in Request, Retire(r) \/ Fail(r) PROVE Replacing'
  <2>1. PICK verdict \in Done : Return(r, verdict)
    BY <1>6 DEF Retire, Fail, Verdict, Done
  <2> QED  BY <1>0, <1>6, <2>1, ReturnReplacing DEF Retire, Fail
<1>7. ASSUME SignIn \/ SignOut PROVE Replacing'
  <2>1. /\ UNCHANGED <<pc, cred, spend, got, replaced>>
        /\ \/ minted' = minted + 1 /\ router' = minted + 1
           \/ minted' = minted /\ router' = 0
    BY <1>7 DEF SignIn, SignOut
  <2>2. router' \notin 1 .. minted /\ 1 .. minted \subseteq 1 .. minted'  BY <1>a, <2>1
  <2>3. ASSUME NEW q \in Request, pc'[q] = "store" PROVE Unknown(q)'
    <3>1. pc[q] = "store" /\ Unknown(q) /\ got[q] \in 1 .. minted  BY <1>a, <2>1, <2>3 DEF Replacing
    <3> QED  BY <2>1, <2>2, <3>1 DEF Unknown
  <2> QED  BY <1>0, <2>1, <2>2, <2>3 DEF Replacing
<1>8. ASSUME Age \/ Lapse \/ SweepElsewhere \/ UNCHANGED vars PROVE Replacing'
  <2>1. UNCHANGED <<router, minted, pc, cred, spend, got, replaced>>
    BY <1>8 DEF Age, Lapse, SweepElsewhere, storeVars, vars
  <2> QED  BY <1>0, <2>1 DEF Replacing, Unknown
<1> QED  BY <1>1, <1>2, <1>3, <1>4, <1>5, <1>6, <1>7, <1>8 DEF Next, Proceed

\* A token whose renewal is stored is spent for good: whoever was queued behind the renewal,
\* its own token due or refused with a 401, reads the router before it sends anything.
THEOREM ReplacedNotSpentCorrect == Spec => ReplacedNotSpent
<1>1. ASSUME Replacing, [Next]_vars
      PROVE  [\A r \in Request :
                (router # 0 /\ pc[r] # "exchange" /\ pc'[r] = "exchange")
                   => spend'[r] \notin replaced]_vars
  <2> SUFFICES ASSUME Next, NEW r \in Request, router # 0, pc[r] # "exchange", pc'[r] = "exchange"
               PROVE  spend'[r] \notin replaced
    BY <1>1
  <2>1. spend'[r] = router  BY <1>1, StartsExchange DEF Replacing, Stored
  <2> QED  BY <1>1, <2>1 DEF Replacing
<1> QED  BY <1>1, ReplacingInit, ReplacingStep, PTL DEF Spec, ReplacedNotSpent

-----------------------------------------------------------------------------
(***************************************************************************)
(* Renewals of one token exclude one another, for credentials handed out   *)
(* fresh (workbuddy.go:853 exchanges one handed out due without its        *)
(* mutex): any number of accounts, 401s, sign-ins and sign-outs.           *)
(***************************************************************************)
HandedOutFresh == MintedAges = {"fresh"}

Active == {r \in Request : pc[r] \notin Done}
Queued == {r \in Request : pc[r] \notin Done \union {"open"}}
Holding == {r \in Request : pc[r] \notin Done \union {"open", "queued"}}

\* A request beyond the table's mutex holds the mutex it queued for.
Held == \A r \in Holding : owner[lock[r]] = r

\* What is newer than the credential of a request under way is fresh; a request that found
\* its token due was opened with the oldest credential in use; and whoever spends a token
\* spends the one it was opened with.
Generations ==
    \A r \in Active :
        /\ router > cred[r] => age[router] = "fresh"
        /\ pc[r] = "store" => got[r] > cred[r] /\ age[got[r]] = "fresh"
        /\ kind[r] = "ensure" => (router = 0 \/ router >= cred[r])
                                 /\ \A q \in Active : cred[q] >= cred[r]
        /\ pc[r] \in Spending => spend[r] = cred[r]
        /\ pc[r] = "retire" => spend[r] \in replaced

\* Unless its token is replaced or astray, a request queues for the mutex the token's entry
\* holds, and reads the router only if no failure is remembered.
OneQueue ==
    \A r \in Queued : cred[r] \notin replaced \union astray =>
        /\ table[cred[r]] = lock[r]
        /\ pc[r] = "read" => mark[cred[r]] \notin Live

Coherent == Places /\ Held /\ Generations /\ OneQueue

LEMMA CoherentInit == Init => Coherent
<1> SUFFICES ASSUME Init PROVE Coherent  OBVIOUS
<1>1. Active = {} /\ Queued = {} /\ Holding = {}
  BY DEF Init, Active, Queued, Holding, Done
<1> QED  BY <1>1, PlacesInit DEF Coherent, Held, Generations, OneQueue

\* What the invariant says of the numbers it compares.
LEMMA Facts ==
    ASSUME Places
    PROVE  /\ minted \in Nat /\ router \in 0 .. minted /\ minted \in Token
           /\ Token \subseteq Nat \ {0} /\ 1 .. minted \subseteq Token
           /\ Nobody \notin Request /\ 0 \notin Mutex
           /\ \A r \in Active : cred[r] \in 1 .. minted
           /\ \A r \in Queued : lock[r] \in Mutex
           /\ \A r \in Request : pc[r] \in {"store", "retire"} => got[r] \in 1 .. minted
           /\ Holding \subseteq Queued /\ Queued \subseteq Active /\ Active \subseteq Request
<1>1. minted \in Token /\ router \in 0 .. minted
  BY DEF Places, TypeOK
<1> QED  BY <1>1, RenewAssumption DEF Places, Token, Mutex, Nobody, Active, Queued, Holding, Done

\* Under the mutex of a token's entry there is one request.
LEMMA OneHolder ==
    ASSUME Coherent, NEW q \in Holding, NEW r \in Holding, cred[q] = cred[r],
           cred[r] \notin replaced \union astray
    PROVE  q = r
<1>1. lock[q] = lock[r]  BY Facts DEF Coherent, OneQueue
<1> QED  BY <1>1 DEF Coherent, Held

\* A call that returns leaves the others what they hold, if it leaves the entries they
\* queue for.
LEMMA ReturnCoherent ==
    ASSUME Coherent, Places', NEW r \in Holding, NEW verdict \in Done, Return(r, verdict),
           UNCHANGED storeVars, UNCHANGED replaced,
           \A q \in Queued \ {r} : cred[q] \notin replaced \union astray =>
               /\ table'[cred[q]] = table[cred[q]]
               /\ pc[q] = "read" => mark'[cred[q]] \notin Live
    PROVE  Coherent'
<1>1. r \in Request  BY DEF Holding
<1>2. /\ Active' = Active \ {r} /\ Queued' = Queued \ {r} /\ Holding' = Holding \ {r}
  BY <1>1, OthersStay DEF Coherent, Active, Queued, Holding
<1>3. Held'
  BY <1>1, <1>2, OthersStay DEF Return, Coherent, Held, Places, TypeOK, Holding
<1>4. Generations'
  <2>1. UNCHANGED <<router, age, replaced>>  BY DEF storeVars
  <2> QED  BY <1>1, <1>2, <2>1, OthersStay DEF Coherent, Generations, Active
<1>5. OneQueue'
  <2>1. ASSUME NEW q \in Queued', cred'[q] \notin (replaced \union astray)'
        PROVE  table'[cred'[q]] = lock'[q] /\ (pc'[q] = "read" => mark'[cred'[q]] \notin Live)
    <3>1. q \in Queued \ {r} /\ q \in Request /\ cred'[q] = cred[q]
      BY <1>1, <1>2, OthersStay DEF Coherent, Queued
    <3>2. cred[q] \notin replaced \union astray
      BY <1>1, <2>1, <3>1, OthersStay DEF Coherent
    <3> QED  BY <1>1, <3>1, <3>2, OthersStay DEF Coherent, OneQueue
  <2> QED  BY <2>1 DEF OneQueue
<1> QED  BY <1>3, <1>4, <1>5 DEF Coherent

\* A sweep spares the entry of a mutex that is held, and notes the one fetched and not held.
LEMMA SweepSpares ==
    ASSUME Coherent, NEW q \in Queued, cred[q] \notin replaced \union astray \union Unlocked
    PROVE  cred[q] \notin Swept /\ table[cred[q]] = lock[q] /\ Without(Swept)[cred[q]] = lock[q]
           /\ Unmarked(Swept)[cred[q]] = mark[cred[q]]
<1>1. cred[q] \in Token /\ table[cred[q]] = lock[q] /\ q \in Request
  BY Facts DEF Coherent, OneQueue, Queued
<1>2. cred[q] \notin Swept
  <2>1. CASE pc[q] = "queued"  BY <1>1, <2>1 DEF Unlocked
  <2>2. CASE q \in Holding
    BY <1>1, <2>2, Facts DEF Coherent, Held, Swept, Sweepable
  <2> QED  BY <2>1, <2>2 DEF Queued, Holding
<1> QED  BY <1>1, <1>2 DEF Without, Unmarked

LEMMA CoherentStep ==
    ASSUME HandedOutFresh, Coherent, [Next]_vars
    PROVE  Coherent'
<1>0. Places' /\ Places  BY PlacesStep DEF Coherent
<1>1. ASSUME NEW r \in Request, Open(r) PROVE Coherent'
  <2>1. /\ pc[r] \in Done /\ router # 0 /\ cred' = [cred EXCEPT ![r] = router]
        /\ UNCHANGED <<storeVars, tableVars, lock, spend, got, replaced, astray>>
        /\ Goto(r, "open")
    BY <1>1 DEF Open
  <2>2. /\ kind'[r] = "ensure" => age[router] # "fresh"
        /\ \A q \in Request \ {r} : kind'[q] = kind[q]
    BY <1>0, <1>1 DEF Open, Places, TypeOK
  <2>3. /\ pc'[r] = "open" /\ \A q \in Request \ {r} : pc'[q] = pc[q]
        /\ Active' = Active \union {r} /\ Queued' = Queued /\ Holding' = Holding
        /\ r \notin Active /\ r \notin Queued /\ r \notin Holding
    BY <1>0, <2>1, OneGoes DEF Active, Queued, Holding, Done
  <2>4. cred'[r] = router /\ \A q \in Request \ {r} : cred'[q] = cred[q]
    BY <1>0, <2>1 DEF Places, TypeOK
  <2>5. Held' /\ OneQueue'
    BY <2>1, <2>3, <2>4 DEF Coherent, Held, OneQueue, storeVars, tableVars, Queued, Holding
  <2>6. \A q \in Active : cred[q] \in Nat /\ router \in Nat
    BY <1>0, Facts
  <2>7. kind'[r] = "ensure" => \A q \in Active : cred[q] >= router
    BY <2>2, <2>6 DEF Coherent, Generations
  <2>8. \A q \in Active : kind[q] = "ensure" => router >= cred[q]
    BY <2>1 DEF Coherent, Generations
  <2>9. router \in Nat /\ router >= router /\ ~(router > router)
    BY <1>0, Facts
  <2>10. Generations'
    <3>1. ASSUME NEW q \in Active, q # r
          PROVE /\ q \in Request /\ pc'[q] = pc[q] /\ kind'[q] = kind[q] /\ cred'[q] = cred[q]
                /\ spend'[q] = spend[q] /\ got'[q] = got[q]
      BY <2>1, <2>2, <2>3, <2>4, <3>1 DEF Active
    <3> QED  BY <2>1, <2>3, <2>4, <2>7, <2>8, <2>9, <3>1
             DEF Coherent, Generations, storeVars, Spending
  <2> QED  BY <1>0, <2>5, <2>10 DEF Coherent
<1>2. ASSUME NEW r \in Request, FetchLock(r) PROVE Coherent'
  <2>1. /\ pc[r] = "open" /\ Goto(r, "queued")
        /\ UNCHANGED <<storeVars, owner, kind, cred, spend, got, replaced>>
        /\ \A q \in Request \ {r} : lock'[q] = lock[q]
    BY <1>0, <1>2 DEF FetchLock, Places, TypeOK
  <2>2. /\ Active' = Active /\ Queued' = Queued \union {r} /\ Holding' = Holding
        /\ r \in Active /\ r \notin Queued /\ r \notin Holding
        /\ pc'[r] = "queued" /\ \A q \in Request \ {r} : pc'[q] = pc[q]
    BY <1>0, <2>1, OneGoes DEF Active, Queued, Holding, Done
  <2>3. Held' /\ Generations'
    BY <2>1, <2>2 DEF Coherent, Held, Generations, storeVars, Spending, Active, Holding
  <2>4. cred[r] \in Token /\ table'[cred[r]] = lock'[r]
    <3>1. cred[r] \in Token  BY <1>0, <2>2, Facts
    <3> QED  BY <1>0, <1>2, <3>1 DEF FetchLock, Places, TypeOK, Without
  <2>5. ASSUME NEW q \in Queued, cred[q] \notin replaced \union astray'
        PROVE  table'[cred[q]] = lock[q] /\ mark'[cred[q]] = mark[cred[q]]
    <3>1. CASE table[cred[r]] # 0
      <4>1. UNCHANGED <<table, mark, astray>>  BY <1>2, <3>1 DEF FetchLock
      <4> QED  BY <2>5, <4>1 DEF Coherent, OneQueue
    <3>2. CASE table[cred[r]] = 0
      <4>1. /\ table' = [Without(Swept) EXCEPT ![cred[r]] = NewMutex]
            /\ mark' = [Unmarked(Swept) EXCEPT ![cred[r]] = "new"]
            /\ astray' = astray \union Unlocked
        BY <1>2, <3>2 DEF FetchLock
      <4>2. /\ table[cred[q]] = lock[q] /\ Without(Swept)[cred[q]] = lock[q]
            /\ Unmarked(Swept)[cred[q]] = mark[cred[q]]
        BY <2>5, <4>1, SweepSpares
      <4>3. cred[q] # cred[r]  BY <1>0, <3>2, <4>2, Facts
      <4>4. cred[q] \in Token  BY <1>0, Facts
      <4>5. table'[cred[q]] = Without(Swept)[cred[q]] /\ mark'[cred[q]] = Unmarked(Swept)[cred[q]]
        BY <4>1, <4>3, <4>4 DEF Without, Unmarked
      <4> QED  BY <4>2, <4>5
    <3> QED  BY <3>1, <3>2
  <2>6. astray \subseteq astray'  BY <1>2 DEF FetchLock
  <2>7. OneQueue'
    <3>1. ASSUME NEW q \in Queued, cred[q] \notin replaced \union astray'
          PROVE  pc[q] = "read" => mark[cred[q]] \notin Live
      BY <2>6, <3>1 DEF Coherent, OneQueue
    <3> QED  BY <2>1, <2>2, <2>4, <2>5, <3>1 DEF OneQueue, Queued
  <2> QED  BY <1>0, <2>3, <2>7 DEF Coherent
<1>3. ASSUME NEW r \in Request, TakeLock(r) PROVE Coherent'
  <2>1. /\ pc[r] = "queued" /\ owner[lock[r]] = Nobody /\ owner' = [owner EXCEPT ![lock[r]] = r]
        /\ UNCHANGED <<storeVars, table, mark, kind, cred, lock, spend, got, replaced, astray>>
        /\ Goto(r, "begin")
    BY <1>3 DEF TakeLock
  <2>2. /\ Active' = Active /\ Queued' = Queued /\ Holding' = Holding \union {r}
        /\ r \in Queued /\ pc'[r] = "begin" /\ \A q \in Request \ {r} : pc'[q] = pc[q]
    BY <1>0, <2>1, OneGoes DEF Active, Queued, Holding, Done
  <2>3. Held'
    BY <1>0, <2>1, <2>2, Facts DEF Coherent, Held, Places, TypeOK, Holding
  <2>4. Generations' /\ OneQueue'
    BY <2>1, <2>2 DEF Coherent, Generations, OneQueue, storeVars, Spending, Active, Queued
  <2> QED  BY <1>0, <2>3, <2>4 DEF Coherent
<1>4. ASSUME NEW r \in Request, Begin(r) PROVE Coherent'
  <2>1. /\ pc[r] = "begin" /\ table' = Without(Swept) /\ astray' = astray \union Unlocked
        /\ UNCHANGED <<storeVars, owner, kind, cred, lock, spend, got, replaced>>
        /\ mark' = [t \in Token |-> IF t = cred[r] /\ table[cred[r]] = lock[r] /\ mark[t] = "idle"
                                    THEN "new" ELSE Unmarked(Swept)[t]]
    BY <1>4 DEF Begin
  <2>2. /\ Active' = Active /\ Queued' = Queued /\ Holding' = Holding /\ r \in Holding /\ r \in Queued
        /\ pc'[r] = (IF Answered(r) THEN mark[cred[r]] ELSE "read")
        /\ pc'[r] \in Live \union {"read"} /\ \A q \in Request \ {r} : pc'[q] = pc[q]
    <3>1. /\ pc'[r] = (IF Answered(r) THEN mark[cred[r]] ELSE "read")
          /\ \A q \in Request \ {r} : pc'[q] = pc[q]
      BY <1>0, <1>4, OneGoes DEF Begin
    <3>2. pc'[r] \in Live \union {"read"}  BY <3>1 DEF Answered
    <3> QED  BY <2>1, <3>1, <3>2 DEF Active, Queued, Holding, Done, Live
  <2>3. Held' /\ Generations'
    BY <2>1, <2>2 DEF Coherent, Held, Generations, storeVars, Spending, Active, Holding, Live
  <2>4. OneQueue'
    <3>1. ASSUME NEW q \in Queued, cred[q] \notin replaced \union astray'
          PROVE  table'[cred[q]] = lock[q] /\ (pc'[q] = "read" => mark'[cred[q]] \notin Live)
      <4>1. cred[q] \in Token  BY <1>0, Facts
      <4>2. /\ table[cred[q]] = lock[q] /\ table'[cred[q]] = lock[q]
            /\ Unmarked(Swept)[cred[q]] = mark[cred[q]]
        BY <2>1, <3>1, SweepSpares
      <4>3. mark'[cred[q]] \in {mark[cred[q]], "new"}
        BY <2>1, <4>1, <4>2
      <4>4. pc'[q] = "read" => mark[cred[q]] \notin Live
        <5>1. CASE q = r  BY <2>2, <4>2, <5>1 DEF Answered, Live
        <5>2. CASE q # r  BY <2>1, <2>2, <3>1, <5>2 DEF Coherent, OneQueue, Queued
        <5> QED  BY <5>1, <5>2
      <4> QED  BY <4>2, <4>3, <4>4 DEF Live
    <3> QED  BY <2>1, <2>2, <3>1 DEF OneQueue
  <2> QED  BY <1>0, <2>3, <2>4 DEF Coherent
<1>5. ASSUME NEW r \in Request, ShareFailure(r) PROVE Coherent'
  <2>1. PICK verdict \in Done : Return(r, verdict)
    BY <1>5 DEF ShareFailure, Done
  <2>2. r \in Holding /\ UNCHANGED <<storeVars, replaced, table, mark>>
    BY <1>5 DEF ShareFailure, Holding, Live, Done
  <2> QED  BY <1>0, <2>1, <2>2, ReturnCoherent DEF Coherent, OneQueue
<1>6. ASSUME NEW r \in Request, ForceBehindFailure(r) \/ ReadRouter(r) PROVE Coherent'
  <2>1. r \in Holding /\ r \in Active /\ UNCHANGED <<storeVars, replaced>>
    BY <1>6 DEF ForceBehindFailure, ReadRouter, Holding, Active, Done, Live
  <2>2. CASE \E verdict \in Done : Return(r, verdict) /\ UNCHANGED <<table, mark>>
    BY <1>0, <2>1, <2>2, ReturnCoherent DEF Coherent, OneQueue
  <2>3. CASE ~ \E verdict \in Done : Return(r, verdict) /\ UNCHANGED <<table, mark>>
    <3>1. /\ UNCHANGED <<tableVars, cred, lock, got, astray>> /\ Goto(r, "exchange")
          /\ spend' = [spend EXCEPT ![r] = Stored(r)]
          /\ \A q \in Request : kind'[q] = "ensure" => kind[q] = "ensure"
          /\ \/ pc[r] = "read" /\ kind[r] = "ensure" /\ age[Stored(r)] # "fresh"
             \/ Stored(r) = cred[r]
      BY <1>0, <1>6, <2>3 DEF ForceBehindFailure, ReadRouter, Exchange, Verdict, Done, Places, TypeOK
    <3>2. Stored(r) = cred[r]
      <4>1. cred[r] \in Nat /\ router \in Nat  BY <1>0, <2>1, Facts
      <4>2. kind[r] = "ensure" => router = 0 \/ router >= cred[r]
        BY <2>1 DEF Coherent, Generations
      <4>3. router > cred[r] => age[router] = "fresh"
        BY <2>1 DEF Coherent, Generations
      <4> QED  BY <3>1, <4>1, <4>2, <4>3 DEF Stored
    <3>3. /\ pc'[r] = "exchange" /\ \A q \in Request \ {r} : pc'[q] = pc[q]
          /\ spend'[r] = cred[r] /\ \A q \in Request \ {r} : spend'[q] = spend[q]
      BY <1>0, <3>1, <3>2, OneGoes DEF Places, TypeOK
    <3>4. Active' = Active /\ Queued' = Queued /\ Holding' = Holding
      BY <2>1, <3>3 DEF Active, Queued, Holding, Done
    <3>5. Held' /\ OneQueue'
      BY <2>1, <3>1, <3>3, <3>4 DEF Coherent, Held, OneQueue, tableVars, Holding, Queued
    <3>6. Generations'
      BY <2>1, <3>1, <3>3, <3>4 DEF Coherent, Generations, storeVars, Spending, Active
    <3> QED  BY <1>0, <3>5, <3>6 DEF Coherent
  <2> QED  BY <2>2, <2>3
<1>7. ASSUME NEW r \in Request, Renewed(r) PROVE Coherent'
  <2>1. /\ pc[r] = "exchange" /\ minted' = minted + 1 /\ minted < MaxMinted
        /\ age' = [age EXCEPT ![minted + 1] = "fresh"] /\ got' = [got EXCEPT ![r] = minted + 1]
        /\ UNCHANGED <<router, tableVars, kind, cred, lock, spend, replaced, astray>>
        /\ Goto(r, "store")
    BY <1>7 DEF Renewed, HandedOutFresh
  <2>2. /\ Active' = Active /\ Queued' = Queued /\ Holding' = Holding /\ r \in Active
        /\ pc'[r] = "store" /\ \A q \in Request \ {r} : pc'[q] = pc[q]
    BY <1>0, <2>1, OneGoes DEF Active, Queued, Holding, Done
  <2>3. got'[r] = minted + 1 /\ \A q \in Request \ {r} : got'[q] = got[q]
    BY <1>0, <2>1 DEF Places, TypeOK
  <2>4. minted + 1 \in Token  BY <1>0, <2>1, Facts, RenewAssumption DEF Token
  <2>5. age'[minted + 1] = "fresh" /\ \A t \in 0 .. minted : age'[t] = age[t]
    BY <1>0, <2>1, <2>4, Facts DEF Places, TypeOK
  <2>6. \A q \in Active : minted + 1 > cred[q]  BY <1>0, Facts
  <2>7. Generations'
    BY <1>0, <2>1, <2>2, <2>3, <2>5, <2>6, Facts DEF Coherent, Generations, Spending, Active
  <2>8. Held' /\ OneQueue'
    BY <2>1, <2>2 DEF Coherent, Held, OneQueue, tableVars, Holding, Queued
  <2> QED  BY <1>0, <2>7, <2>8 DEF Coherent
<1>8. ASSUME NEW r \in Request, NotRenewed(r) PROVE Coherent'
  <2>1. /\ pc[r] = "exchange" /\ Goto(r, "failed")
        /\ UNCHANGED <<router, minted, age, tableVars, kind, cred, lock, spend, got, replaced, astray>>
    BY <1>8 DEF NotRenewed
  <2>2. /\ Active' = Active /\ Queued' = Queued /\ Holding' = Holding /\ r \in Active
        /\ pc'[r] = "failed" /\ \A q \in Request \ {r} : pc'[q] = pc[q]
    BY <1>0, <2>1, OneGoes DEF Active, Queued, Holding, Done
  <2>3. Generations'
    BY <2>1, <2>2 DEF Coherent, Generations, Spending, Active
  <2>4. Held' /\ OneQueue'
    BY <2>1, <2>2 DEF Coherent, Held, OneQueue, tableVars, Holding, Queued
  <2> QED  BY <1>0, <2>3, <2>4 DEF Coherent
<1>9. ASSUME NEW r \in Request, Store(r) PROVE Coherent'
  <2>1. /\ pc[r] = "store" /\ router' = got[r] /\ replaced' = replaced \union {spend[r]}
        /\ UNCHANGED <<minted, age, spent, tableVars, kind, cred, lock, spend, got, astray>>
        /\ Goto(r, "retire")
    BY <1>9 DEF Store
  <2>2. /\ Active' = Active /\ Queued' = Queued /\ Holding' = Holding /\ r \in Active
        /\ pc'[r] = "retire" /\ \A q \in Request \ {r} : pc'[q] = pc[q]
    BY <1>0, <2>1, OneGoes DEF Active, Queued, Holding, Done
  <2>3. /\ spend[r] = cred[r] /\ got[r] > cred[r] /\ age[got[r]] = "fresh" /\ got[r] \in 1 .. minted
        /\ \A q \in Active : kind[q] = "ensure" => cred[r] >= cred[q]
    BY <1>0, <2>1, <2>2, Facts DEF Coherent, Generations, Spending
  <2>4. \A q \in Active : cred[q] \in Nat /\ cred[r] \in Nat /\ got[r] \in Nat
    BY <1>0, <2>2, <2>3, Facts
  <2>5. \A q \in Active : kind[q] = "ensure" => got[r] >= cred[q]
    BY <2>2, <2>3, <2>4
  <2>6. Generations'
    BY <2>1, <2>2, <2>3, <2>5 DEF Coherent, Generations, Spending, Active
  <2>7. Held' /\ OneQueue'
    BY <2>1, <2>2 DEF Coherent, Held, OneQueue, tableVars, Holding, Queued
  <2> QED  BY <1>0, <2>6, <2>7 DEF Coherent
<1>10. ASSUME NEW r \in Request, Retire(r) PROVE Coherent'
  <2>1. PICK verdict \in Done : Return(r, verdict) /\ UNCHANGED <<storeVars, replaced>>
    BY <1>10 DEF Retire, Verdict, Done
  <2>2. r \in Holding /\ r \in Active /\ pc[r] = "retire" /\ r \in Queued
    BY <1>10 DEF Retire, Holding, Active, Queued, Done
  <2>3. spend[r] \in replaced  BY <2>2 DEF Coherent, Generations
  <2>4. PICK gone \in SUBSET {spend[r]} : table' = Without(gone) /\ mark' = Unmarked(gone)
    <3> DEFINE gone == IF kind[r] = "probe" THEN RetiredSpread(spend[r], r)
                                            ELSE Retired(spend[r], r)
    <3>1. gone \in SUBSET {spend[r]}  BY DEF RetiredSpread, Retired
    <3> QED  BY <1>10, <3>1 DEF Retire
  <2>5. ASSUME NEW q \in Queued \ {r}, cred[q] \notin replaced \union astray
        PROVE  /\ table'[cred[q]] = table[cred[q]]
               /\ pc[q] = "read" => mark'[cred[q]] \notin Live
    <3>1. cred[q] \in Token  BY <1>0, Facts
    <3>2. cred[q] \notin gone  BY <2>3, <2>4, <2>5
    <3>3. table'[cred[q]] = table[cred[q]] /\ mark'[cred[q]] = mark[cred[q]]
      BY <2>4, <3>1, <3>2 DEF Without, Unmarked
    <3> QED  BY <2>5, <3>3 DEF Coherent, OneQueue
  <2> QED  BY <1>0, <2>1, <2>2, <2>5, ReturnCoherent
<1>11. ASSUME NEW r \in Request, Fail(r) PROVE Coherent'
  <2>1. /\ r \in Holding /\ r \in Queued /\ spend[r] = cred[r] /\ UNCHANGED <<storeVars, replaced>>
    BY <1>0, <1>11, Facts DEF Fail, Coherent, Generations, Holding, Active, Spending, Done
  <2>2. PICK verdict \in Done :
           /\ Return(r, verdict)
           /\ UNCHANGED <<table, mark>> \/ \E expired \in BOOLEAN : Settle(cred[r], expired)
    BY <1>11, <2>1 DEF Fail, Verdict, Done
  <2>3. ASSUME NEW q \in Queued \ {r}, cred[q] \notin replaced \union astray
        PROVE  /\ table'[cred[q]] = table[cred[q]]
               /\ pc[q] = "read" => mark'[cred[q]] \notin Live
    <3>1. cred[q] \in Token /\ cred[r] \in Token  BY <1>0, <2>1, Facts
    <3>2. pc[q] = "read" => mark[cred[q]] \notin Live  BY <2>3 DEF Coherent, OneQueue
    <3>3. CASE UNCHANGED <<table, mark>>  BY <3>2, <3>3
    <3>4. CASE \E expired \in BOOLEAN : Settle(cred[r], expired)
      <4>1. CASE cred[q] = cred[r]
        <5>1. table[cred[r]] = lock[r] /\ lock[r] # 0
          BY <1>0, <2>1, <2>3, <4>1, Facts DEF Coherent, OneQueue
        <5>2. table'[cred[r]] = table[cred[r]]
          BY <1>0, <3>1, <3>4, <5>1 DEF Settle, Places, TypeOK
        <5>3. q \notin Holding  BY <2>1, <2>3, <4>1, OneHolder
        <5>4. pc[q] # "read"  BY <5>3 DEF Queued, Holding, Done
        <5> QED  BY <4>1, <5>2, <5>4
      <4>2. CASE cred[q] # cred[r]
        <5>1. table'[cred[q]] = table[cred[q]] /\ mark'[cred[q]] = mark[cred[q]]
          BY <1>0, <3>1, <3>4, <4>2 DEF Settle, Places, TypeOK
        <5> QED  BY <3>2, <5>1
      <4> QED  BY <4>1, <4>2
    <3> QED  BY <2>2, <3>3, <3>4
  <2> QED  BY <1>0, <2>1, <2>2, <2>3, ReturnCoherent
<1>12. ASSUME SignIn \/ SignOut PROVE Coherent'
  <2>1. /\ UNCHANGED <<age, spent, tableVars, pc, kind, cred, lock, spend, got, replaced, astray>>
        /\ \/ router' = 0
           \/ minted < MaxMinted /\ router' = minted + 1
    BY <1>12 DEF SignIn, SignOut
  <2>2. minted < MaxMinted => minted + 1 \in Token /\ age[minted + 1] = "fresh"
    BY <1>0, Facts, RenewAssumption DEF Token, Places
  <2>3. Active' = Active /\ Queued' = Queued /\ Holding' = Holding
    BY <2>1 DEF Active, Queued, Holding
  <2>4. \A q \in Active : /\ router' > cred[q] => age[router'] = "fresh"
                          /\ router' = 0 \/ router' >= cred[q]
    BY <1>0, <2>1, <2>2, Facts
  <2>5. Generations'
    BY <2>1, <2>3, <2>4 DEF Coherent, Generations, Spending
  <2>6. Held' /\ OneQueue'
    BY <2>1, <2>3 DEF Coherent, Held, OneQueue, tableVars
  <2> QED  BY <1>0, <2>5, <2>6 DEF Coherent
<1>13. ASSUME Age PROVE Coherent'
  <2>1. PICK t \in 1 .. minted, a \in {"due", "expired"} :
           /\ age' = [age EXCEPT ![t] = a]
           /\ age[t] = "fresh" => \A q \in Active : cred[q] >= t
    BY <1>13 DEF Age, Active
  <2>2. UNCHANGED <<router, minted, spent, tableVars, pc, kind, cred, lock, spend, got, replaced, astray>>
    BY <1>13 DEF Age
  <2>3. \A u \in Token : (age[u] = "fresh" /\ \E q \in Active : u > cred[q]) => age'[u] = "fresh"
    BY <1>0, <2>1, Facts DEF Places, TypeOK
  <2>4. Active' = Active /\ Queued' = Queued /\ Holding' = Holding
    BY <2>2 DEF Active, Queued, Holding
  <2>5. \A q \in Active : router > cred[q] => router \in Token
    BY <1>0, Facts
  <2>6. \A q \in Active : pc[q] = "store" => got[q] \in Token
    BY <1>0, Facts
  <2>7. Generations'
    BY <2>2, <2>3, <2>4, <2>5, <2>6 DEF Coherent, Generations, Active
  <2>8. Held' /\ OneQueue'
    BY <2>2, <2>4 DEF Coherent, Held, OneQueue, tableVars
  <2> QED  BY <1>0, <2>7, <2>8 DEF Coherent
<1>14. ASSUME Lapse PROVE Coherent'
  <2>1. UNCHANGED <<storeVars, table, owner, pc, kind, cred, lock, spend, got, replaced, astray>>
    BY <1>14 DEF Lapse
  <2>2. \A t \in Token : mark'[t] \in Live => mark[t] \in Live
    BY <1>0, <1>14 DEF Lapse, Places, TypeOK, Live
  <2>3. Active' = Active /\ Queued' = Queued /\ Holding' = Holding
    BY <2>1 DEF Active, Queued, Holding
  <2>4. \A q \in Queued : cred[q] \in Token  BY <1>0, Facts
  <2>5. OneQueue'
    BY <2>1, <2>2, <2>3, <2>4 DEF Coherent, OneQueue
  <2>6. Held' /\ Generations'
    BY <2>1, <2>3 DEF Coherent, Held, Generations, storeVars
  <2> QED  BY <1>0, <2>5, <2>6 DEF Coherent
<1>15. ASSUME SweepElsewhere PROVE Coherent'
  <2>1. /\ table' = Without(Swept) /\ mark' = Unmarked(Swept) /\ astray' = astray \union Unlocked
        /\ UNCHANGED <<storeVars, owner, pc, kind, cred, lock, spend, got, replaced>>
    BY <1>15 DEF SweepElsewhere
  <2>2. Active' = Active /\ Queued' = Queued /\ Holding' = Holding
    BY <2>1 DEF Active, Queued, Holding
  <2>3. OneQueue'
    BY <2>1, <2>2, SweepSpares DEF Coherent, OneQueue
  <2>4. Held' /\ Generations'
    BY <2>1, <2>2 DEF Coherent, Held, Generations, storeVars
  <2> QED  BY <1>0, <2>3, <2>4 DEF Coherent
<1>16. ASSUME UNCHANGED vars PROVE Coherent'
  BY <1>0, <1>16 DEF vars, storeVars, tableVars, Coherent, Held, Generations, OneQueue,
                     Active, Queued, Holding
<1> QED  BY <1>1, <1>2, <1>3, <1>4, <1>5, <1>6, <1>7, <1>8, <1>9, <1>10, <1>11, <1>12, <1>13,
            <1>14, <1>15, <1>16 DEF Next, Proceed

\* Two requests never send one refresh token side by side, however many queue for its
\* renewal and whatever 401s, retirements and other accounts' sweeps do to its entry, unless
\* it is replaced (a sign-out sends a request back to it) or its entry was swept between a
\* request's fetch and its lock.
THEOREM OneExchangeCorrect ==
    ASSUME HandedOutFresh PROVE Spec => []OneExchange
<1>1. ASSUME Coherent PROVE OneExchange
  <2> SUFFICES ASSUME NEW q \in Request, NEW r \in Request, pc[q] = "exchange",
                      pc[r] = "exchange", spend[q] = spend[r],
                      spend[q] \notin replaced \union astray
               PROVE  q = r
    BY DEF OneExchange
  <2>1. q \in Holding /\ r \in Holding /\ q \in Active /\ r \in Active
    BY DEF Holding, Active, Done
  <2>2. spend[q] = cred[q] /\ spend[r] = cred[r]
    BY <1>1, <2>1 DEF Coherent, Generations, Spending
  <2> QED  BY <1>1, <2>1, <2>2, OneHolder
<1>2. Coherent /\ [Next]_vars => Coherent'  BY CoherentStep
<1> QED  BY <1>1, <1>2, CoherentInit, PTL DEF Spec

\* While a failure of the token is remembered, whoever finds the token due is handed the
\* failure, with the same two ways out: the vendor does not see the token again.
THEOREM FailureSharedCorrect ==
    ASSUME HandedOutFresh PROVE Spec => FailureShared
<1>1. ASSUME Coherent, [Next]_vars
      PROVE  [\A r \in Request :
                (pc[r] = "read" /\ pc'[r] = "exchange" /\ kind[r] = "ensure")
                   => mark[spend'[r]] \notin Live \/ spend'[r] \in replaced \union astray]_vars
  <2> SUFFICES ASSUME Next, NEW r \in Request, pc[r] = "read", pc'[r] = "exchange",
                      kind[r] = "ensure", spend'[r] \notin replaced \union astray
               PROVE  mark[spend'[r]] \notin Live
    BY <1>1
  <2>1. Coherent'  BY <1>1, CoherentStep
  <2>2. r \in Queued /\ r \in Active'  BY DEF Queued, Active, Done
  <2>3. spend'[r] = cred'[r]  BY <2>1, <2>2 DEF Coherent, Generations, Spending
  <2>4. Exchange(r, Stored(r)) /\ ReadRouter(r)
    BY <1>1, StartsExchange DEF Coherent, Live
  <2>5. cred'[r] = cred[r]  BY <2>4 DEF Exchange
  <2> QED  BY <1>1, <2>2, <2>3, <2>5 DEF Coherent, OneQueue
<1>2. Coherent /\ [Next]_vars => Coherent'  BY CoherentStep
<1> QED  BY <1>1, <1>2, CoherentInit, PTL DEF Spec, FailureShared

\* The outcome of a failed renewal is never swept or retired inside its window, with
\* any number of accounts in the table, 401s, sign-ins and sign-outs.
THEOREM OutcomeOwedCorrect == Spec => OutcomeOwed
<1>1. ASSUME Places, [Next]_vars
      PROVE  [\A t \in Token :
                (mark[t] \in Live /\ mark'[t] # mark[t]) => mark'[t] \in Live \union {"lapsed"}]_vars
  <2> SUFFICES ASSUME Next, NEW t \in Token, mark[t] \in Live
               PROVE  mark'[t] \in Live \union {"lapsed"}
    BY <1>1
  <2>1. table[t] # 0 /\ t \notin Swept
    BY <1>1 DEF Places, TypeOK, Swept, Sweepable, Live
  <2>2. mark \in [Token -> {"new", "works", "dead", "lapsed", "idle"}]
    BY <1>1 DEF Places, TypeOK
  <2>3. Unmarked(Swept)[t] = mark[t]
    BY <2>1 DEF Unmarked
  <2>4. ASSUME NEW r \in Request, FetchLock(r) PROVE mark'[t] = mark[t]
    BY <2>1, <2>2, <2>3, <2>4 DEF FetchLock, Unmarked
  <2>5. ASSUME NEW r \in Request, Begin(r) PROVE mark'[t] = mark[t]
    BY <2>3, <2>5 DEF Begin, Live
  <2>6. ASSUME NEW r \in Request, Retire(r) PROVE mark'[t] = mark[t]
    BY <2>6 DEF Retire, Retired, RetiredSpread, Unmarked, Live
  <2>7. ASSUME NEW r \in Request, Fail(r) PROVE mark'[t] \in Live \union {"lapsed"}
    BY <2>2, <2>7 DEF Fail, Settle, Live
  <2>8. ASSUME Lapse PROVE mark'[t] \in Live \union {"lapsed"}
    BY <2>2, <2>8 DEF Lapse, Live
  <2>9. ASSUME SweepElsewhere PROVE mark'[t] = mark[t]
    BY <2>3, <2>9 DEF SweepElsewhere
  <2>10. ASSUME NEW r \in Request,
                \/ Open(r) \/ TakeLock(r) \/ ShareFailure(r) \/ ForceBehindFailure(r)
                \/ ReadRouter(r) \/ Renewed(r) \/ NotRenewed(r) \/ Store(r)
         PROVE mark'[t] = mark[t]
    BY <2>10 DEF Open, TakeLock, ShareFailure, ForceBehindFailure, ReadRouter, Renewed, NotRenewed,
                 Store, Exchange, tableVars
  <2>11. ASSUME SignIn \/ SignOut \/ Age PROVE mark'[t] = mark[t]
    BY <2>11 DEF SignIn, SignOut, Age, tableVars
  <2> QED  BY <2>4, <2>5, <2>6, <2>7, <2>8, <2>9, <2>10, <2>11 DEF Next, Proceed
<1> QED  BY <1>1, PlacesInit, PlacesStep, PTL DEF Spec, OutcomeOwed
=============================================================================
