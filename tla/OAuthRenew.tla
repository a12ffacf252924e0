------------------------------ MODULE OAuthRenew ------------------------------
(***************************************************************************)
(* Renewing one WorkBuddy account's one-shot refresh token                 *)
(* (internal/gateway/oauth_renew_lock.go and its callers in workbuddy.go). *)
(*                                                                         *)
(* The vendor rotates the token: each renewal spends it and answers with   *)
(* the next one.  A credential, the access token and the refresh token of  *)
(* one renewal or sign-in, is numbered in the order it was minted; 0 is no *)
(* credential.  Requests find the stored one due (ensureFreshWorkBuddyToken) *)
(* or refused with a 401 (forceRefreshWorkBuddyToken) and queue for a      *)
(* mutex the process-wide table keeps per refresh token; a failed renewal  *)
(* leaves its outcome in the table for the requests queued behind it.      *)
(*                                                                         *)
(* Time is abstract: an outcome lapses, an entry goes idle and a           *)
(* credential ages at any moment.                                          *)
(***************************************************************************)
EXTENDS Integers, FiniteSets, Functions

CONSTANTS
    Request,    \* the requests that may renew the account
    MaxMinted,  \* bound: how many credentials the vendor mints
    MintedAges, \* how old a credential may be when the vendor hands it out
    Operator,   \* what the operator does at the console: subset of {"in", "out"}
    Others,     \* whether other accounts are renewed through the same table
    Forced      \* the requests the vendor answers with a 401 (forceRefreshWorkBuddyToken);
                \* the others find the token due, as for every renewable account

ASSUME RenewAssumption ==
    /\ IsFiniteSet(Request) /\ "nobody" \notin Request /\ MaxMinted \in Nat \ {0}
    /\ MintedAges \subseteq {"fresh", "due", "expired"} /\ MintedAges # {}
    /\ Operator \subseteq {"in", "out"} /\ Others \in BOOLEAN
    /\ Forced \subseteq Request

VARIABLES
    router,   \* the credential the router stores, 0 after a sign-out
    minted,   \* how many credentials the vendor has handed out
    age,      \* how near each credential is to its expiry
    spent,    \* refresh tokens the vendor has taken
    table,    \* the mutex of each refresh token, 0 for no entry
    mark,     \* what each entry carries: nothing yet, the outcome of a failed
              \* renewal, an outcome past its window, or ten idle minutes
    owner,    \* who holds each mutex
    pc, kind, \* where each request stands (at "works" or "dead" it holds an outcome
              \* it was handed), and what sent it here
    cred,     \* the credential it was opened with
    lock,     \* the mutex it queues for or holds
    spend,    \* the refresh token it is exchanging
    got,      \* the credential the vendor answered with
    replaced, \* history: tokens whose renewal has been stored
    astray    \* history: tokens whose entry was swept while a request had fetched its
              \* mutex and not locked it, until the calls opened with the token are over

storeVars == <<router, minted, age, spent>>
tableVars == <<table, mark, owner>>
vars == <<storeVars, tableVars, pc, kind, cred, lock, spend, got, replaced, astray>>

Token == 1 .. MaxMinted
Mutex == 1 .. MaxMinted + Cardinality(Request)
Nobody == "nobody"
Done == {"served", "refused"}
Live == {"works", "dead"}

Init ==
    /\ router = 1 /\ minted = 1 /\ spent = {}
    /\ age = [t \in Token |-> "fresh"]
    /\ table = [t \in Token |-> 0]
    /\ mark = [t \in Token |-> "new"]
    /\ owner = [k \in Mutex |-> Nobody]
    /\ pc = [r \in Request |-> "served"]
    /\ kind = [r \in Request |-> "ensure"]
    /\ cred = [r \in Request |-> 0] /\ lock = [r \in Request |-> 0]
    /\ spend = [r \in Request |-> 0] /\ got = [r \in Request |-> 0]
    /\ replaced = {} /\ astray = {}

-----------------------------------------------------------------------------
(***************************************************************************)
(* The table of mutexes.                                                   *)
(***************************************************************************)
\* Mutant of Sweepable: entries in use are swept too.
SweepableInUse(t) == table[t] # 0 /\ mark[t] \in {"lapsed", "idle"}

\* sweepOauthRenewLocksLocked: stale, and nobody holds it. A request that has
\* fetched the mutex and not yet locked it does not count.
Sweepable(t) ==
    /\ table[t] # 0 /\ mark[t] \in {"lapsed", "idle"}
    /\ owner[table[t]] = Nobody

Swept == {t \in Token : Sweepable(t)}
Unlocked == {t \in Swept : \E r \in Request : pc[r] = "queued" /\ cred[r] = t /\ lock[r] = table[t]}
Without(gone) == [t \in Token |-> IF t \in gone THEN 0 ELSE table[t]]
Unmarked(gone) == [t \in Token |-> IF t \in gone THEN "new" ELSE mark[t]]

\* A mutex no entry and no request refers to: what Go would allocate.
NewMutex ==
    CHOOSE k \in Mutex : k \notin Range(table) \union Range(lock)

\* retireOauthRenewLock: the entry of a spent token, unless it still owes waiters
\* an answer or another request holds its mutex.
Retired(t, r) ==
    IF /\ table[t] # 0 /\ mark[t] \notin Live
       /\ table[t] = lock[r] \/ owner[table[t]] = Nobody
    THEN {t} ELSE {}

\* Mutant of RetiredSpread: a renewal that succeeded at last clears the entry.
RetiredOwn(t, r) == IF table[t] = lock[r] THEN {t} ELSE {}

\* retireSpreadOauthRenewLock: only the caller's own entry, its outcome lapsed.
RetiredSpread(t, r) ==
    IF table[t] = lock[r] /\ mark[t] = "lapsed" THEN {t} ELSE {}

Goto(r, place) == pc' = [pc EXCEPT ![r] = place]

\* Mutant of Return: the mutex stays locked when the request is refused.
ReturnLocked(r, verdict) ==
    /\ Goto(r, verdict)
    /\ owner' = [owner EXCEPT ![lock[r]] = IF verdict = "refused" THEN @ ELSE Nobody]
    /\ lock' = [lock EXCEPT ![r] = 0]
    /\ cred' = [cred EXCEPT ![r] = 0]
    /\ spend' = [spend EXCEPT ![r] = 0]
    /\ got' = [got EXCEPT ![r] = 0]
    /\ kind' = [kind EXCEPT ![r] = "ensure"]
    /\ astray' = {t \in astray : \E q \in Request \ {r} : cred[q] = t}

\* The request returns: its mutex is unlocked and its locals are gone.
Return(r, verdict) ==
    /\ Goto(r, verdict)
    /\ owner' = [owner EXCEPT ![lock[r]] = Nobody]
    /\ lock' = [lock EXCEPT ![r] = 0]
    /\ cred' = [cred EXCEPT ![r] = 0]
    /\ spend' = [spend EXCEPT ![r] = 0]
    /\ got' = [got EXCEPT ![r] = 0]
    /\ kind' = [kind EXCEPT ![r] = "ensure"]
    /\ astray' = {t \in astray : \E q \in Request \ {r} : cred[q] = t}

-----------------------------------------------------------------------------
(***************************************************************************)
(* beginOauthRenew.                                                        *)
(***************************************************************************)
\* The request reads the account: its token is due, or the vendor answered 401.
Open(r) ==
    /\ pc[r] \in Done /\ router # 0
    /\ r \notin Forced => age[router] # "fresh"
    /\ kind' = [kind EXCEPT ![r] = IF r \in Forced THEN "force" ELSE "ensure"]
    /\ cred' = [cred EXCEPT ![r] = router]
    /\ Goto(r, "open")
    /\ UNCHANGED <<storeVars, tableVars, lock, spend, got, replaced, astray>>

\* oauthRenewLock: the token's mutex, or a new entry, which sweeps the table. A
\* mutex found is not marked as used.
FetchLock(r) ==
    /\ pc[r] = "open"
    /\ IF table[cred[r]] # 0
       THEN /\ lock' = [lock EXCEPT ![r] = table[cred[r]]]
            /\ UNCHANGED <<table, mark, astray>>
       ELSE /\ table' = [Without(Swept) EXCEPT ![cred[r]] = NewMutex]
            /\ mark' = [Unmarked(Swept) EXCEPT ![cred[r]] = "new"]
            /\ astray' = astray \union Unlocked
            /\ lock' = [lock EXCEPT ![r] = NewMutex]
    /\ Goto(r, "queued")
    /\ UNCHANGED <<storeVars, owner, kind, cred, spend, got, replaced>>

TakeLock(r) ==
    /\ pc[r] = "queued" /\ owner[lock[r]] = Nobody
    /\ owner' = [owner EXCEPT ![lock[r]] = r]
    /\ Goto(r, "begin")
    /\ UNCHANGED <<storeVars, table, mark, kind, cred, lock, spend, got, replaced, astray>>

\* Mutant of Answered: only the outcome of a token already dead is handed over.
AnsweredIfDead(r) == table[cred[r]] = lock[r] /\ mark[cred[r]] = "dead"

\* The entry the request fetched still stands and holds an outcome.
Answered(r) == table[cred[r]] = lock[r] /\ mark[cred[r]] \in Live

\* Under the table's lock: sweep it, then look for the answer of a renewal this
\* request queued behind.
Begin(r) ==
    /\ pc[r] = "begin"
    /\ LET mine == table[cred[r]] = lock[r]
       IN /\ table' = Without(Swept)
          /\ mark' = [t \in Token |->
                        IF t = cred[r] /\ mine /\ mark[t] = "idle" THEN "new"
                        ELSE Unmarked(Swept)[t]]
          /\ astray' = astray \union Unlocked
          /\ Goto(r, IF Answered(r) THEN mark[cred[r]] ELSE "read")
    /\ UNCHANGED <<storeVars, owner, kind, cred, lock, spend, got, replaced>>

\* Mutant of Stored: the request trusts the credential it was opened with.
StoredWhenOpened(r) == cred[r]

\* The credential the router stores now; after a sign-out, the request's own.
Stored(r) == IF router = 0 THEN cred[r] ELSE router

-----------------------------------------------------------------------------
(***************************************************************************)
(* Under the mutex.                                                        *)
(***************************************************************************)
Exchange(r, token) ==
    /\ Goto(r, "exchange")
    /\ spend' = [spend EXCEPT ![r] = token]
    /\ UNCHANGED <<tableVars, kind, cred, lock, got, astray>>

\* settledOauthRenewFailure: the failure is shared only if the token it was for
\* had expired.
ShareFailure(r) ==
    /\ pc[r] \in Live /\ kind[r] = "ensure"
    /\ Return(r, IF pc[r] = "dead" THEN "refused" ELSE "served")
    /\ UNCHANGED <<storeVars, table, mark, replaced>>

\* forceRefreshWorkBuddyToken behind a failure: use a newer credential if there
\* is one, else probe the vendor once more.
Newer(r) == Stored(r) # cred[r] /\ age[Stored(r)] # "expired"
Verdict(r) == IF Newer(r) THEN "served" ELSE "refused"

ForceBehindFailure(r) ==
    /\ pc[r] \in Live /\ kind[r] = "force"
    /\ IF Stored(r) = cred[r]
       THEN /\ Goto(r, "exchange")
            /\ kind' = [kind EXCEPT ![r] = "probe"]
            /\ spend' = [spend EXCEPT ![r] = Stored(r)]
            /\ UNCHANGED <<tableVars, cred, lock, got, astray>>
       ELSE Return(r, Verdict(r)) /\ UNCHANGED <<table, mark>>
    /\ UNCHANGED <<storeVars, replaced>>

\* The router is read again before the token is spent. A credential that needs
\* no renewal, or that is not the one the vendor refused, is used as it is.
ReadRouter(r) ==
    /\ pc[r] = "read"
    /\ IF \/ kind[r] = "ensure" /\ age[Stored(r)] # "fresh"
          \/ kind[r] = "force" /\ Stored(r) = cred[r]
       THEN Exchange(r, Stored(r))
       ELSE Return(r, "served") /\ UNCHANGED <<table, mark>>
    /\ UNCHANGED <<storeVars, replaced>>

\* The vendor takes the token and answers with the next credential.
Renewed(r) ==
    /\ pc[r] = "exchange" /\ spend[r] \notin spent /\ minted < MaxMinted
    /\ spent' = spent \union {spend[r]}
    /\ minted' = minted + 1
    /\ \E a \in MintedAges : age' = [age EXCEPT ![minted + 1] = a]
    /\ got' = [got EXCEPT ![r] = minted + 1]
    /\ Goto(r, "store")
    /\ UNCHANGED <<router, tableVars, kind, cred, lock, spend, replaced, astray>>

\* The vendor refuses, or fails before or after it has taken the token (which
\* nothing can tell once it has minted its last).
NotRenewed(r) ==
    /\ pc[r] = "exchange"
    /\ \/ UNCHANGED spent
       \/ minted < MaxMinted /\ spent' = spent \union {spend[r]}
    /\ Goto(r, "failed")
    /\ UNCHANGED <<router, minted, age, tableVars, kind, cred, lock, spend, got, replaced, astray>>

\* SetProviderWorkBuddy, whatever the router stores by now.
Store(r) ==
    /\ pc[r] = "store"
    /\ router' = got[r]
    /\ replaced' = replaced \union {spend[r]}
    /\ Goto(r, "retire")
    /\ UNCHANGED <<minted, age, spent, tableVars, kind, cred, lock, spend, got, astray>>

Retire(r) ==
    /\ pc[r] = "retire"
    /\ LET gone == IF kind[r] = "probe" THEN RetiredSpread(spend[r], r)
                                        ELSE Retired(spend[r], r)
       IN table' = Without(gone) /\ mark' = Unmarked(gone)
    /\ Return(r, IF kind[r] = "probe" THEN Verdict(r) ELSE "served")
    /\ UNCHANGED <<storeVars, replaced>>

\* Mutant of Settle: the outcome is kept for a token whose entry was swept.
SettleUnentered(t, expired) ==
    /\ mark' = [mark EXCEPT ![t] = IF expired THEN "dead" ELSE "works"]
    /\ UNCHANGED table

\* settleOauthRenew: the outcome is kept under the token that was spent, in a new
\* entry if it has none.
Settle(t, expired) ==
    /\ table' = [table EXCEPT ![t] = IF @ = 0 THEN NewMutex ELSE @]
    /\ mark' = [mark EXCEPT ![t] = IF expired THEN "dead" ELSE "works"]

\* The request that ran the renewal serves on while its token works; after a 401
\* it never does. A probe records nothing.
Fail(r) ==
    /\ pc[r] = "failed"
    /\ LET expired == kind[r] = "force" \/ age[spend[r]] = "expired"
       IN IF kind[r] = "probe"
          THEN Return(r, Verdict(r)) /\ UNCHANGED <<table, mark>>
          ELSE /\ Settle(spend[r], expired)
               /\ Return(r, IF expired THEN "refused" ELSE "served")
    /\ UNCHANGED <<storeVars, replaced>>

-----------------------------------------------------------------------------
(***************************************************************************)
(* Around the requests.                                                    *)
(***************************************************************************)
\* The operator signs the account in again, or out, at the console.
SignIn ==
    /\ "in" \in Operator /\ minted < MaxMinted
    /\ minted' = minted + 1 /\ router' = minted + 1
    /\ UNCHANGED <<age, spent, tableVars, pc, kind, cred, lock, spend, got, replaced, astray>>

SignOut ==
    /\ "out" \in Operator /\ router # 0
    /\ router' = 0
    /\ UNCHANGED <<minted, age, spent, tableVars, pc, kind, cred, lock, spend, got, replaced, astray>>

\* A credential handed out fresh lasts longer than any call: it is not due while
\* a call is under way that was opened with an earlier one.
Age ==
    /\ \E t \in 1 .. minted :
          \/ /\ age[t] = "fresh" /\ \A r \in Request : pc[r] \in Done \/ cred[r] >= t
             /\ age' = [age EXCEPT ![t] = "due"]
          \/ age[t] = "due" /\ age' = [age EXCEPT ![t] = "expired"]
    /\ UNCHANGED <<router, minted, spent, tableVars, pc, kind, cred, lock, spend, got,
                   replaced, astray>>

\* An outcome passes its window of ten seconds, or an entry without one its ten
\* minutes. Reading the account and queueing take far less than the first; a
\* whole call takes less than the second.
Lapse ==
    /\ \A r \in Request : pc[r] # "open"
    /\ \E t \in Token :
          \/ mark[t] \in Live /\ mark' = [mark EXCEPT ![t] = "lapsed"]
          \/ /\ table[t] # 0 /\ mark[t] = "new" /\ table[t] \notin Range(lock)
             /\ mark' = [mark EXCEPT ![t] = "idle"]
    /\ UNCHANGED <<storeVars, table, owner, pc, kind, cred, lock, spend, got, replaced, astray>>

\* A request of another account enters the table and sweeps it.
SweepElsewhere ==
    /\ Others /\ Swept # {}
    /\ table' = Without(Swept) /\ mark' = Unmarked(Swept) /\ astray' = astray \union Unlocked
    /\ UNCHANGED <<storeVars, owner, pc, kind, cred, lock, spend, got, replaced>>

Proceed(r) ==
    \/ FetchLock(r) \/ TakeLock(r) \/ Begin(r) \/ ShareFailure(r)
    \/ ForceBehindFailure(r) \/ ReadRouter(r) \/ Renewed(r) \/ NotRenewed(r)
    \/ Store(r) \/ Retire(r) \/ Fail(r)

Next ==
    \/ \E r \in Request : Open(r) \/ Proceed(r)
    \/ SignIn \/ SignOut \/ Age \/ Lapse \/ SweepElsewhere

Spec == Init /\ [][Next]_vars

\* The scheduler runs what can run, a mutex is granted to whoever keeps asking
\* (Go's mutexes hand over to a waiter that starves), and the exchange ends
\* within its timeout of 30 seconds. A request is only ever at one of the steps.
FairSpec == Spec /\ \A r \in Request : SF_vars(Proceed(r))

-----------------------------------------------------------------------------
(***************************************************************************)
(* Properties.                                                             *)
(***************************************************************************)
\* Every variable stays in the set of values the code can give it, and only an
\* entry of the table carries a mark.
TypeOK ==
    /\ \A t \in Token : table[t] = 0 => mark[t] = "new"
    /\ router \in 0 .. minted /\ minted \in Token
    /\ age \in [Token -> {"fresh", "due", "expired"}]
    /\ spent \subseteq Token /\ replaced \subseteq Token /\ astray \subseteq Token
    /\ table \in [Token -> Mutex \union {0}]
    /\ mark \in [Token -> {"new", "works", "dead", "lapsed", "idle"}]
    /\ owner \in [Mutex -> Request \union {Nobody}]
    /\ pc \in [Request -> Done \union Live \union {"open", "queued", "begin", "read",
                                      "exchange", "store", "retire", "failed"}]
    /\ kind \in [Request -> {"ensure", "force", "probe"}]
    /\ cred \in [Request -> Token \union {0}]
    /\ lock \in [Request -> Mutex \union {0}]
    /\ spend \in [Request -> Token \union {0}]
    /\ got \in [Request -> Token \union {0}]

\* One refresh token is only ever being exchanged by one request, whatever 401s, sign-ins,
\* sign-outs and other accounts come between.  Two ways out are left: behind a sign-out a
\* request falls back to the token it was opened with, already replaced; and a sweep may
\* drop a stale entry whose mutex a request has fetched and not yet locked (astray), though
\* sweepOauthRenewLocksLocked takes an entry nobody holds for one nobody uses.
OneExchange ==
    \A q, r \in Request :
        (pc[q] = "exchange" /\ pc[r] = "exchange" /\ q # r /\ spend[q] = spend[r])
            => spend[q] \in replaced \union astray

\* A refresh token is not sent again once its renewal has been stored: whoever
\* was queued behind that renewal uses the new credential. (Behind a sign-out it
\* falls back to the one it was opened with.)
ReplacedNotSpent ==
    [][\A r \in Request :
          (router # 0 /\ pc[r] # "exchange" /\ pc'[r] = "exchange")
             => spend'[r] \notin replaced]_vars

\* While the failure of a token's renewal is remembered, the requests that find
\* the token due share it and do not send the token again: neither way out of OneExchange
\* taken, and a request that a 401 brought here probes (ForceBehindFailure).
FailureShared ==
    [][\A r \in Request :
          (pc[r] = "read" /\ pc'[r] = "exchange" /\ kind[r] = "ensure")
             => mark[spend'[r]] \notin Live \/ spend'[r] \in replaced \union astray]_vars

\* The outcome of a failed renewal stays in the table for its whole window,
\* whatever is swept or retired meanwhile: the requests queued behind that renewal
\* are owed it, even after one of them has renewed the token with its own attempt.
OutcomeOwed ==
    [][\A t \in Token :
          (mark[t] \in Live /\ mark'[t] # mark[t]) => mark'[t] \in Live \union {"lapsed"}]_vars

\* Every request that set out to renew returns: no mutex is left locked and no
\* queue behind one is stranded.
CallsReturn == \A r \in Request : pc[r] = "open" ~> pc[r] \in Done
=============================================================================
