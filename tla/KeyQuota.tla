------------------------------- MODULE KeyQuota -------------------------------
(***************************************************************************)
(* One API key with a budget, within one of its windows: a request reads what the key has     *)
(* used, then what its requests in flight have reserved, decides, and only *)
(* then reserves its own prompt; three sections of two mutexes.  The usage *)
(* it is charged in the end goes through UsageWorker.                      *)
(***************************************************************************)
EXTENDS UsageWorker, FiniteSetsExt

CONSTANTS TokenLimit, \* QuotaTokens, 0 for none
          CostLimit,  \* QuotaCostMicros, 0 for none
          Prompt,     \* estimated prompt tokens of a request
          Outcome     \* how an exchange may end: its usage, and whether it failed

ASSUME QuotaAssumption ==
    /\ TokenLimit \in Nat /\ CostLimit \in Nat
    /\ Prompt \in Nat \ {0}
    /\ Outcome \subseteq [usage : [tokens : Nat, cost : Nat], failed : BOOLEAN]

VARIABLES phase,    \* how far a request is
          image,    \* it came to the image endpoint, which releases last
          failure,  \* it is logged as a failure
          spent,    \* what its usage event says
          seen,     \* the window's usage it read
          reserved, \* tokens reserved by requests in flight
          holders   \* requests whose release has not been called

quotaVars == <<phase, image, failure, spent, seen, reserved, holders>>

Nothing == [tokens |-> 0, cost |-> 0]
Phase == {"idle", "admitting", "read", "cleared", "refused", "flying", "ended",
          "enqueued", "appended", "done", "cut"}

QuotaTypeOK ==
    /\ phase \in [Request -> Phase]
    /\ image \in [Request -> BOOLEAN] /\ failure \in [Request -> BOOLEAN]
    /\ spent \in [Request -> [tokens : Nat, cost : Nat]]
    /\ seen \in [Request -> [tokens : Nat, cost : Nat]]
    /\ reserved \in Nat /\ holders \subseteq Request

QuotaInit ==
    /\ phase = [r \in Request |-> "idle"]
    /\ image = [r \in Request |-> FALSE] /\ failure = [r \in Request |-> FALSE]
    /\ spent = [r \in Request |-> Nothing] /\ seen = [r \in Request |-> Nothing]
    /\ reserved = 0 /\ holders = {}

\* KeyWindowUsage: the window's events as often as `counts` holds them.
Total(counts, part) == MapThenSumSet(LAMBDA r : counts[r] * spent[r][part], Request)
WindowUsage == [tokens |-> Total(memory, "tokens"), cost |-> Total(memory, "cost")]

\* A request of the key at one of the flow endpoints, or at the image endpoint.
Arrive(r, img) ==
    /\ phase[r] = "idle"
    /\ phase' = [phase EXCEPT ![r] = "admitting"]
    /\ image' = [image EXCEPT ![r] = img]
    /\ UNCHANGED <<failure, spent, seen, reserved, holders>>

\* admitKeyQuota, first section.
ReadUsage(r) ==
    /\ phase[r] = "admitting"
    /\ phase' = [phase EXCEPT ![r] = "read"]
    /\ seen' = [seen EXCEPT ![r] = WindowUsage]
    /\ UNCHANGED <<image, failure, spent, reserved, holders>>

OverTokens(r) == TokenLimit > 0 /\ seen[r].tokens + reserved + Prompt > TokenLimit
OverCost(r) == CostLimit > 0 /\ seen[r].cost >= CostLimit

\* Second section: the reservations are read and the two limits compared.
Admit(r) ==
    /\ phase[r] = "read" /\ ~OverTokens(r) /\ ~OverCost(r)
    /\ phase' = [phase EXCEPT ![r] = "cleared"]
    /\ seen' = [seen EXCEPT ![r] = Nothing]
    /\ UNCHANGED <<image, failure, spent, reserved, holders>>

Refuse(r) ==
    /\ phase[r] = "read" /\ (OverTokens(r) \/ OverCost(r))
    /\ phase' = [phase EXCEPT ![r] = "refused"]
    /\ failure' = [failure EXCEPT ![r] = TRUE]
    /\ seen' = [seen EXCEPT ![r] = Nothing]
    /\ UNCHANGED <<image, spent, reserved, holders>>

\* Third section: hold.
Hold(r) ==
    /\ phase[r] = "cleared"
    /\ phase' = [phase EXCEPT ![r] = "flying"]
    /\ reserved' = reserved + Prompt /\ holders' = holders \union {r}
    /\ UNCHANGED <<image, failure, spent, seen>>

\* Mutant of Release: it gives back what the answer cost.
ReleaseCost(r) ==
    /\ reserved' = reserved - spent'[r].tokens
    /\ holders' = holders \ {r}

\* Mutant of Release: a failed request returns without it.
ReleaseServed(r) ==
    /\ reserved' = IF failure'[r] THEN reserved ELSE reserved - Prompt
    /\ holders' = holders \ {r}

\* release: the entry goes when nothing is left.
Release(r) ==
    /\ reserved' = IF reserved > Prompt THEN reserved - Prompt ELSE 0
    /\ holders' = holders \ {r}

\* The upstream has answered or failed.  The flow releases before its caller
\* records the request, the image endpoint after.
Answer(r, outcome) ==
    /\ phase[r] = "flying"
    /\ phase' = [phase EXCEPT ![r] = "ended"]
    /\ spent' = [spent EXCEPT ![r] = outcome.usage]
    /\ failure' = [failure EXCEPT ![r] = outcome.failed]
    /\ IF image[r] THEN UNCHANGED <<reserved, holders>> ELSE Release(r)
    /\ UNCHANGED <<image, seen>>

\* recordRequestLogEx as far as the key sees it: the usage first, then the row.
Counted(r) ==
    /\ phase[r] \in {"ended", "refused"}
    /\ phase' = [phase EXCEPT ![r] = "enqueued"]
    /\ UNCHANGED <<image, failure, spent, seen, reserved, holders>>

Logged(r) ==
    /\ phase[r] = "enqueued"
    /\ phase' = [phase EXCEPT ![r] = IF r \in holders THEN "appended" ELSE "done"]
    /\ UNCHANGED <<image, failure, spent, seen, reserved, holders>>

\* The image endpoint's deferred release.
ReleaseLate(r) ==
    /\ phase[r] = "appended"
    /\ phase' = [phase EXCEPT ![r] = "done"]
    /\ Release(r)
    /\ UNCHANGED <<image, failure, spent, seen>>

\* The process ends: requests it was serving are cut, reservations are gone.
LoseKey ==
    /\ phase' = [r \in Request |-> IF phase[r] \in {"idle", "done"} THEN phase[r] ELSE "cut"]
    /\ seen' = [r \in Request |-> Nothing]
    /\ reserved' = 0 /\ holders' = {}
    /\ UNCHANGED <<image, failure, spent>>
=============================================================================
