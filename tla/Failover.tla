------------------------------- MODULE Failover -------------------------------
(***************************************************************************)
(* One gateway key and the accounts behind it                              *)
(* (internal/gateway/provider_failover.go, provider_schedule.go,           *)
(* provider_affinity.go and provider_cooldown_qoder.go).                   *)
(*                                                                         *)
(* A request walks the key's chain of providers until one answers.  Along  *)
(* the way it reads and writes four things that other requests and the     *)
(* recovery loop share: the provider the key is on, the marks that rest an *)
(* account, the counts of soft failures, and the pins that keep a          *)
(* conversation on the account that has its prompt cached.  Each is        *)
(* guarded by a mutex of its own for one read or write at a time, so what  *)
(* a request read is old by the time it acts on it.                        *)
(*                                                                         *)
(* A request is used once and belongs to a conversation.  Its exchange     *)
(* with a provider is one step: what the vendor answers depends on the     *)
(* account's health at that moment.  A rest is a mark without a length:    *)
(* the scheduler looks only at its presence.                               *)
(***************************************************************************)
EXTENDS Integers, Sequences, FiniteSets, SequencesExt, Lists

CONSTANTS
    Chain,     \* the key's providers in the administrator's order, preferred first
    Call,      \* the requests
    Session,   \* the conversations they belong to
    Modes,     \* the schedule modes the key may be in: subset of {"order", "spread"}
    Threshold, \* soft failures in a row that rest an account (3 in the code)
    Qoder,     \* the Qoder accounts of the chain, all of one site
    Metered,   \* Claude subscriptions, whose usage panel tells a spent window
    Ailment,   \* what may befall an account: subset of {"down", "spent"}
    MaxTurns,  \* bound: how often an account's health changes
    Switched   \* providers the administrator may disable

Provider == ToSet(Chain)

ASSUME ChainAssumption ==
    /\ Chain \in Seq(Provider) /\ Chain # <<>> /\ IsInjective(Chain)
    /\ Modes \subseteq {"order", "spread"} /\ Modes # {}
    /\ Threshold \in Nat \ {0} /\ MaxTurns \in Nat
    /\ Qoder \subseteq Provider /\ Metered \subseteq Provider /\ Switched \subseteq Provider
    /\ Ailment \subseteq {"down", "spent"} /\ "none" \notin Session \union Provider

VARIABLES
    mode,     \* the key's schedule mode
    active,   \* the provider the key is on (the preferred one if none is stored)
    saved,    \* the same in the database
    mark,     \* "up", or the kind of failure an account rests for
    soft,     \* soft failures in a row, counted up to Threshold
    pin,      \* the account a conversation is pinned to
    disabled, \* providers the administrator has disabled
    health,   \* whether the vendor serves an account: "down", or "spent", when it
              \* refuses requests but still lists its models
    turns,    \* how often health has changed
    ailed,    \* history: accounts that have been ill
    pc,       \* where each request stands
    call,     \* what each request has read and decided
    loop,     \* what the recovery loop is doing
    todo      \* the providers it has yet to probe, the current one first

keyVars == <<active, saved>>
restVars == <<mark, soft>>
worldVars == <<mode, disabled, health, turns, ailed>>
loopVars == <<loop, todo>>
vars == <<keyVars, restVars, pin, worldVars, pc, call, loopVars>>

None == "none"
Preferred == Head(Chain)
Index(p) == CHOOSE i \in DOMAIN Chain : Chain[i] = p

\* What a request holds while it runs:
\*   active    the provider the key was on when the request was authenticated
\*   order     the providers it has yet to try, the current one first
\*   pinned    the account its conversation was pinned to
\*   reserved  the account it has reserved for its conversation (spread mode)
\*   worthy    the answer it has is one to fail over from
\*   blame     Qoder accounts whose failures it holds on probation
\* and who it was: its session, and (history) the account that answered it.
Fresh == [session |-> None, server |-> None, active |-> None, order |-> <<>>,
          pinned |-> None, reserved |-> None, worthy |-> FALSE, blame |-> {}]

Init ==
    /\ mode \in Modes
    /\ active = Preferred /\ saved = Preferred
    /\ mark = [p \in Provider |-> "up"] /\ soft = [p \in Provider |-> 0]
    /\ pin = [s \in Session |-> None]
    /\ disabled = {} /\ turns = 0 /\ ailed = {}
    /\ health = [p \in Provider |-> "well"]
    /\ pc = [c \in Call |-> "new"] /\ call = [c \in Call |-> Fresh]
    /\ loop = "idle" /\ todo = <<>>

-----------------------------------------------------------------------------
(***************************************************************************)
(* The order a request tries the chain in.                                 *)
(***************************************************************************)
\* allowedProviderChainForKey: the providers that may take traffic.
Enabled == Kept(Chain, Provider \ disabled)

\* rotateChainAt: the chain from p on, then the providers before it; as it stands if p
\* may take none.
RotatedAt(p) ==
    LET start == IF p \in ToSet(Enabled)
                 THEN CHOOSE i \in DOMAIN Enabled : Enabled[i] = p ELSE 1
    IN  SubSeq(Enabled, start, Len(Enabled)) \o SubSeq(Enabled, 1, start - 1)

\* countsByProvider: the conversations an account holds.
Held(p) == Cardinality({s \in Session : pin[s] = p})

\* spreadChain: the account with the fewest conversations first. Ties go by the
\* live load, which may be anything.
Spread ==
    {o \in SetToSeqs(ToSet(Enabled)) :
        \A i, j \in DOMAIN o : i < j => Held(o[i]) <= Held(o[j])}

\* healthyFirst: rested providers go last.
Up == {p \in Provider : mark[p] = "up"}
HealthyFirst(o) == Kept(o, Up) \o Kept(o, Provider \ Up)

\* moveProviderToFront.
ToFront(o, p) == <<p>> \o Kept(o, Provider \ {p})

-----------------------------------------------------------------------------
(***************************************************************************)
(* executeProtocolFlowWithFailover, before the loop.                       *)
(***************************************************************************)
Goto(c, place) == pc' = [pc EXCEPT ![c] = place]
Current(c) == Head(call[c].order)
CanDefer(c) == Len(call[c].order) > 1
Pin(c) == pin[call[c].session]
Pinned(c, p) == [pin EXCEPT ![call[c].session] = p]

\* Mutant of PinLeft: the reservation stays.
PinKept(c) == pin

\* The deferred function: a spread reservation that no account answered is cleared,
\* whatever the conversation is pinned to by then.
PinLeft(c) == IF call[c].reserved # None THEN Pinned(c, None) ELSE pin

\* The request returns; only who it was is remembered.
Return(c) ==
    /\ Goto(c, "done")
    /\ call' = [call EXCEPT ![c] = [Fresh EXCEPT !.session = call[c].session,
                                                 !.server = call[c].server]]

\* It returns without an answer to settle on.
Leave(c) == pin' = PinLeft(c) /\ Return(c)

\* The key is read from the router, with the provider it is on. decisionForAPIKey
\* already drops a pin to a provider out of reach, unless none is in reach.
Authenticate(c) ==
    /\ pc[c] = "new"
    /\ \E s \in Session :
          /\ call' = [call EXCEPT ![c].session = s, ![c].active = active]
          /\ pin' = IF pin[s] \in disabled /\ Enabled # <<>>
                    THEN [pin EXCEPT ![s] = None] ELSE pin
    /\ Goto(c, "keyed")
    /\ UNCHANGED <<keyVars, restVars, worldVars, loopVars>>

\* failoverAttemptOrder, on the providers that may take traffic.
Schedule(c) ==
    /\ pc[c] = "keyed"
    /\ IF Enabled = <<>>
       THEN Leave(c)
       ELSE /\ \E o \in IF mode = "spread" THEN Spread ELSE {RotatedAt(call[c].active)} :
                  call' = [call EXCEPT ![c].order = HealthyFirst(o)]
            /\ Goto(c, "ordered") /\ UNCHANGED pin
    /\ UNCHANGED <<keyVars, restVars, worldVars, loopVars>>

\* applySessionPin. A pin to a provider out of reach is dropped; in spread mode a
\* conversation without one goes on to reserve.
ApplyPin(c) ==
    /\ pc[c] = "ordered"
    /\ LET order == call[c].order IN
       IF Pin(c) \in ToSet(order)
       THEN /\ call' = [call EXCEPT ![c].order = ToFront(order, Pin(c)), ![c].pinned = Pin(c)]
            /\ Goto(c, "try") /\ UNCHANGED pin
       ELSE /\ pin' = Pinned(c, None)
            /\ Goto(c, IF mode = "spread" THEN "reserve" ELSE "try")
            /\ UNCHANGED call
    /\ UNCHANGED <<keyVars, restVars, worldVars, loopVars>>

\* A conversation without an account takes the first one.
Reserve(c) ==
    /\ pc[c] = "reserve"
    /\ call' = [call EXCEPT ![c].reserved = Current(c)]
    /\ pin' = Pinned(c, Current(c))
    /\ Goto(c, "try")
    /\ UNCHANGED <<keyVars, restVars, worldVars, loopVars>>

-----------------------------------------------------------------------------
(***************************************************************************)
(* The loop: one attempt.                                                  *)
(***************************************************************************)
\* The next provider of the chain.
NextProvider(c) == call' = [call EXCEPT ![c].order = Tail(@)] /\ Goto(c, "try")

\* Mutant of PassOver: the last provider is not told from the others.
PassOverPastEnd(c) ==
    /\ NextProvider(c)
    /\ UNCHANGED <<keyVars, restVars, pin, worldVars, loopVars>>

\* The provider was not asked: the next one, or the end of the chain. The pin of a
\* conversation whose account was passed over stays.
PassOver(c) ==
    /\ \/ CanDefer(c) /\ NextProvider(c) /\ UNCHANGED pin
       \/ ~CanDefer(c) /\ Leave(c)
    /\ UNCHANGED <<keyVars, restVars, worldVars, loopVars>>

\* A provider disabled since the chain was filtered is skipped.
Skip(c) == pc[c] = "try" /\ Current(c) \in disabled /\ PassOver(c)

Send(c) ==
    /\ pc[c] = "try" /\ Current(c) \notin disabled
    /\ Goto(c, "sent")
    /\ UNCHANGED <<keyVars, restVars, pin, worldVars, call, loopVars>>

\* The account's own lane is full: nothing was sent.
Saturated(c) == pc[c] = "sent" /\ PassOver(c)

\* The client is gone: nothing is charged and the chain is not advanced.
ClientGone(c) ==
    /\ pc[c] = "sent" /\ Leave(c)
    /\ UNCHANGED <<keyVars, restVars, worldVars, loopVars>>

\* markProviderAvailable.
MarkUp(p) == mark' = [mark EXCEPT ![p] = "up"] /\ soft' = [soft EXCEPT ![p] = 0]

\* An answer that is not one to fail over from: the account is up.  An account that is
\* ill may still give one, to a request whose own fault shows first (400, 404, 500).
Answered(c) ==
    /\ pc[c] = "sent"
    /\ MarkUp(Current(c))
    /\ call' = [call EXCEPT ![c].worthy = FALSE, ![c].server = Current(c)]
    /\ Goto(c, "settling")
    /\ UNCHANGED <<keyVars, pin, worldVars, loopVars>>

\* The attempt failed. The client gets an HTTP answer that is the last one; a broken
\* exchange ends the request when it is the last or has begun to stream.
Failed(c) ==
    \E place \in {IF CanDefer(c) THEN "advance" ELSE "settling", "broken"} : Goto(c, place)

\* Mutant of Passed: a busy model rests the account.
PassedOnCounted(c) ==
    /\ pc[c] = "sent"
    /\ mark' = [mark EXCEPT ![Current(c)] = "soft"]
    /\ call' = [call EXCEPT ![c].worthy = TRUE]
    /\ Failed(c)
    /\ UNCHANGED <<keyVars, soft, pin, worldVars, loopVars>>

\* The model is busy, the vendor turned this prompt away, or the refusal came in a
\* stream already opened: the next provider is asked. A busy model drops the count.
Passed(c) ==
    /\ pc[c] = "sent"
    /\ soft' \in {soft, [soft EXCEPT ![Current(c)] = 0]}
    /\ call' = [call EXCEPT ![c].worthy = TRUE]
    /\ Failed(c)
    /\ UNCHANGED <<keyVars, mark, pin, worldVars, loopVars>>

\* applyProviderFailoverOutcomeCtx, for a failure that is the account's own: what it
\* does to the marks, the counts and the failures on probation.
Refused(c) ==
    /\ pc[c] = "sent" /\ health[Current(c)] # "well"
    /\ UNCHANGED <<keyVars, pin, worldVars, loopVars>>

Charge(c, probation) ==
    call' = [call EXCEPT ![c].worthy = TRUE, ![c].blame = @ \union probation]

\* One disabled meanwhile is only cleared.
RefusedDisabled(c) ==
    /\ Refused(c) /\ Current(c) \in disabled
    /\ MarkUp(Current(c)) /\ Charge(c, {}) /\ Failed(c)

\* A refused credential, or a spent quota, rests the account at once.
RefusedHard(c) ==
    /\ Refused(c) /\ Current(c) \notin disabled
    /\ soft' = [soft EXCEPT ![Current(c)] = 0]
    /\ mark' = [mark EXCEPT ![Current(c)] = "hard"]
    /\ Charge(c, {}) /\ Failed(c)

\* qoderPoolSize: whether another enabled account of the site can carry the request.
Covered(p) == \E q \in Qoder : q # p /\ q \notin disabled

\* A Qoder account out of balance, or alone, rests without being counted.
RefusedResting(c) ==
    /\ Refused(c) /\ Current(c) \in Qoder \ disabled
    /\ health[Current(c)] = "spent" \/ ~Covered(Current(c))
    /\ mark' = [mark EXCEPT ![Current(c)] = "soft"] /\ UNCHANGED soft
    /\ Charge(c, {}) /\ Failed(c)

\* One of several is held on probation.
RefusedOnProbation(c) ==
    /\ Refused(c) /\ Current(c) \in Qoder \ disabled /\ Covered(Current(c))
    /\ Charge(c, {Current(c)}) /\ Failed(c)
    /\ UNCHANGED restVars

\* bumpSoftFailure: the count after one more, which starts over if the window the
\* failures must fall in has passed.
Counts(p) == {1, IF soft[p] < Threshold THEN soft[p] + 1 ELSE Threshold}

\* Any other account is counted; the count that reaches the threshold rests it, in a
\* section of its own.
RefusedCounted(c) ==
    LET p == Current(c) IN
    /\ Refused(c) /\ p \notin disabled \union Qoder
    /\ \E n \in Counts(p) :
          /\ soft' = [soft EXCEPT ![p] = n]
          /\ IF n = Threshold THEN Goto(c, "resting") ELSE Failed(c)
    /\ Charge(c, {}) /\ UNCHANGED mark

\* setProviderUnavailable. The count is dropped if the rest ends with the window the
\* vendor named.
Rest(c) ==
    /\ pc[c] = "resting"
    /\ mark' = [mark EXCEPT ![Current(c)] = "soft"]
    /\ soft' \in {soft, [soft EXCEPT ![Current(c)] = 0]}
    /\ Failed(c)
    /\ UNCHANGED <<keyVars, pin, worldVars, call, loopVars>>

\* releaseSessionPin: the pin of a conversation whose account failed is dropped.
Advance(c) ==
    /\ pc[c] = "advance"
    /\ pin' = IF call[c].pinned = Current(c) THEN Pinned(c, None) ELSE pin
    /\ NextProvider(c)
    /\ UNCHANGED <<keyVars, restVars, worldVars, loopVars>>

Broken(c) ==
    /\ pc[c] = "broken" /\ Leave(c)
    /\ UNCHANGED <<keyVars, restVars, worldVars, loopVars>>

-----------------------------------------------------------------------------
(***************************************************************************)
(* The loop: the attempt that ends the request.                            *)
(***************************************************************************)
\* The key moves to the provider, unless the conversation chose it. The router is
\* written first, the database after it (persistAPIKeyActiveProvider).
MovesKey(c) ==
    /\ mode # "spread" /\ call[c].pinned # Current(c) /\ call[c].active # Current(c)

MoveKey(c) ==
    /\ pc[c] = "settling"
    /\ IF MovesKey(c)
       THEN active' = Current(c) /\ Goto(c, "saving")
       ELSE UNCHANGED active /\ Goto(c, "pinning")
    /\ UNCHANGED <<saved, restVars, pin, worldVars, call, loopVars>>

SaveKey(c) ==
    /\ pc[c] = "saving"
    /\ saved' = Current(c)
    /\ Goto(c, "pinning")
    /\ UNCHANGED <<active, restVars, pin, worldVars, call, loopVars>>

\* Mutant of Charged: the accounts on probation are charged whatever happened.
ChargedAnyway(c) == call[c].blame

\* The accounts on probation that are charged: only once one has answered.
Charged(c) == IF call[c].worthy THEN {} ELSE call[c].blame

\* The conversation goes to the account that answered it.
PinSettled(c) == IF call[c].worthy THEN PinLeft(c) ELSE Pinned(c, Current(c))

\* The pin is set, the failures on probation are charged, and the request returns.
Settle(c) ==
    /\ pc[c] = "pinning"
    /\ pin' = PinSettled(c)
    /\ soft' \in {n \in [Provider -> 0 .. Threshold] :
                    \A p \in Provider :
                       n[p] \in IF p \in Charged(c) THEN Counts(p) ELSE {soft[p]}}
    /\ mark' = [p \in Provider |->
                  IF p \in Charged(c) /\ soft'[p] = Threshold THEN "soft" ELSE mark[p]]
    /\ Return(c)
    /\ UNCHANGED <<keyVars, worldVars, loopVars>>

-----------------------------------------------------------------------------
(***************************************************************************)
(* StartProviderFailoverRecovery: one goroutine, two timers.               *)
(***************************************************************************)
Work(doing, providers) == loop' = doing /\ todo' = providers

\* Mutant of RecoverStart: the scan begins after the preferred provider.
RecoverStartLate ==
    /\ loop = "idle" /\ active # Preferred
    /\ Work("recovering", SubSeq(Chain, 2, Index(active) - 1))
    /\ UNCHANGED <<keyVars, restVars, pin, worldVars, pc, call>>

\* recoverAPIKeyPreferredProviders looks at a copy of the key; only a key on a backup
\* is of interest, and the providers before it are probed in turn.
RecoverStart ==
    /\ loop = "idle" /\ active # Preferred
    /\ Work("recovering", SubSeq(Chain, 1, Index(active) - 1))
    /\ UNCHANGED <<keyVars, restVars, pin, worldVars, pc, call>>

\* probeProviderAvailable asks for the list of models.
Probed(p) == health[p] # "down"

RecoverProbe ==
    /\ loop = "recovering"
    /\ IF todo = <<>>
       THEN Work("idle", <<>>)
       ELSE IF Head(todo) \in disabled \/ ~Probed(Head(todo))
            THEN Work("recovering", Tail(todo))
            ELSE Work("moving", todo)
    /\ UNCHANGED <<keyVars, restVars, pin, worldVars, pc, call>>

RecoverMove ==
    /\ loop = "moving"
    /\ active' = Head(todo)
    /\ Work("saving", todo)
    /\ UNCHANGED <<saved, restVars, pin, worldVars, pc, call>>

RecoverSave ==
    /\ loop = "saving"
    /\ saved' = Head(todo)
    /\ Work("idle", <<>>)
    /\ UNCHANGED <<active, restVars, pin, worldVars, pc, call>>

\* reprobeUnavailableProviders takes the rested providers of one moment, in any order.
ReprobeStart ==
    /\ loop = "idle" /\ \E p \in Provider : mark[p] # "up"
    /\ \E o \in SetToSeqs({p \in Provider : mark[p] # "up"}) : Work("reprobing", o)
    /\ UNCHANGED <<keyVars, restVars, pin, worldVars, pc, call>>

Reprobed(providers) == Work(IF providers = <<>> THEN "idle" ELSE "reprobing", providers)

\* A disabled provider is only cleared; another is probed.
ReprobeProbe ==
    /\ loop = "reprobing"
    /\ IF Head(todo) \in disabled
       THEN MarkUp(Head(todo)) /\ Reprobed(Tail(todo))
       ELSE /\ Work(IF Probed(Head(todo)) THEN "listed" ELSE "unlisted", todo)
            /\ UNCHANGED restVars
    /\ UNCHANGED <<keyVars, pin, worldVars, pc, call>>

\* The mark as it stands now is refreshed; one cleared meanwhile comes back as soft.
Remarked(p) == [mark EXCEPT ![p] = IF @ = "hard" THEN "hard" ELSE "soft"]

\* A provider that listed its models is up, unless it is a Claude subscription whose
\* usage reading says a window is spent. The reading is taken as up to date.
ReprobeListed ==
    /\ loop = "listed"
    /\ LET p == Head(todo) IN
       IF p \in Metered /\ health[p] = "spent"
       THEN mark' = Remarked(p) /\ UNCHANGED soft
       ELSE MarkUp(p)
    /\ Reprobed(Tail(todo))
    /\ UNCHANGED <<keyVars, pin, worldVars, pc, call>>

\* One that did not is rested for another cycle.
ReprobeUnlisted ==
    /\ loop = "unlisted"
    /\ mark' = Remarked(Head(todo))
    /\ soft' \in {soft, [soft EXCEPT ![Head(todo)] = 0]}
    /\ Reprobed(Tail(todo))
    /\ UNCHANGED <<keyVars, pin, worldVars, pc, call>>

-----------------------------------------------------------------------------
(***************************************************************************)
(* The vendors, the administrator and the clock.                           *)
(***************************************************************************)
Turn(p) ==
    /\ turns < MaxTurns
    /\ turns' = turns + 1
    /\ \E h \in Ailment \union {"well"} : h # health[p] /\ health' = [health EXCEPT ![p] = h]
    /\ ailed' = IF health'[p] = "well" THEN ailed ELSE ailed \union {p}
    /\ UNCHANGED <<keyVars, restVars, pin, mode, disabled, pc, call, loopVars>>

Toggle(p) ==
    /\ disabled' = IF p \in disabled THEN disabled \ {p} ELSE disabled \union {p}
    /\ UNCHANGED <<keyVars, restVars, pin, mode, health, turns, ailed, pc, call, loopVars>>

\* A pin runs out, or is evicted from a full table.
PinExpires(s) ==
    /\ pin[s] # None
    /\ pin' = [pin EXCEPT ![s] = None]
    /\ UNCHANGED <<keyVars, restVars, worldVars, pc, call, loopVars>>

Proceed(c) ==
    \/ Authenticate(c) \/ Schedule(c) \/ ApplyPin(c) \/ Reserve(c)
    \/ Skip(c) \/ Send(c) \/ Saturated(c) \/ ClientGone(c) \/ Answered(c) \/ Passed(c)
    \/ RefusedDisabled(c) \/ RefusedHard(c) \/ RefusedResting(c)
    \/ RefusedOnProbation(c) \/ RefusedCounted(c) \/ Rest(c) \/ Advance(c) \/ Broken(c)
    \/ MoveKey(c) \/ SaveKey(c) \/ Settle(c)

Recover ==
    \/ RecoverStart \/ RecoverProbe \/ RecoverMove \/ RecoverSave

Reprobe ==
    \/ ReprobeStart \/ ReprobeProbe \/ ReprobeListed \/ ReprobeUnlisted

Next ==
    \/ \E c \in Call : Proceed(c)
    \/ Recover \/ Reprobe
    \/ \E p \in Provider : Turn(p)
    \/ \E p \in Switched : Toggle(p)
    \/ \E s \in Session : PinExpires(s)

Spec == Init /\ [][Next]_vars

\* Every exchange ends, with an answer, a refusal or a timeout, and a request never
\* waits. The loop's timers are set again after each cycle, and its select takes
\* either one that is ready: neither job is passed over forever.
Fairness ==
    /\ \A c \in Call : WF_vars(Proceed(c))
    /\ SF_vars(Recover) /\ WF_vars(Reprobe)

FairSpec == Spec /\ Fairness

-----------------------------------------------------------------------------
(***************************************************************************)
(* What must hold.                                                         *)
(***************************************************************************)
Maybe(S) == S \union {None}

Chains(S) == {o \in UNION {[1 .. n -> S] : n \in 0 .. Len(Chain)} : IsInjective(o)}

CallRecord ==
    [session : Maybe(Session), server : Maybe(Provider), active : Maybe(Provider),
     order : Chains(Provider), pinned : Maybe(Provider), reserved : Maybe(Provider),
     worthy : BOOLEAN, blame : SUBSET Qoder]

\* Type correctness; a request in the loop has a current provider.
TypeOK ==
    /\ mode \in Modes /\ active \in Provider /\ saved \in Provider
    /\ mark \in [Provider -> {"up", "soft", "hard"}]
    /\ soft \in [Provider -> 0 .. Threshold]
    /\ pin \in [Session -> Maybe(Provider)]
    /\ disabled \subseteq Switched /\ turns \in 0 .. MaxTurns /\ ailed \subseteq Provider
    /\ health \in [Provider -> Ailment \union {"well"}]
    /\ pc \in [Call -> {"new", "keyed", "ordered", "reserve", "try", "sent", "resting",
                        "advance", "broken", "settling", "saving", "pinning", "done"}]
    /\ call \in [Call -> CallRecord]
    /\ loop \in {"idle", "recovering", "moving", "saving", "reprobing", "listed", "unlisted"}
    /\ todo \in Chains(Provider)
    /\ \A c \in Call : pc[c] \notin {"new", "keyed", "done"} => call[c].order # <<>>
    /\ loop \in {"moving", "saving", "reprobing", "listed", "unlisted"} => todo # <<>>

\* An account that was always well is never rested, however often its model was busy,
\* its lane full, a prompt turned away or a client gone, and whatever the recovery
\* loop read before (provider_failover.go:1234, :1484).
HealthyNeverRested == \A p \in Provider : mark[p] # "up" => p \in ailed

\* A conversation is pinned only to an account that answered it, or that a request of
\* its own still running has reserved: whichever way requests end, none is left
\* anchored to an account that never answered (provider_failover.go:1374, :1614).
PinFollowsAnswer ==
    \A s \in Session : pin[s] # None =>
        \E c \in Call : call[c].session = s /\ pin[s] \in {call[c].server, call[c].reserved}

\* A request that no account answers charges no account of a pool: the count of a
\* Qoder account rises only when a request that was answered returns, however many
\* accounts it went through (provider_cooldown_qoder.go:17).
BlameNeedsAnswer ==
    [][\A p \in Qoder : soft'[p] > soft[p] =>
          \E c \in Call : pc[c] # "done" /\ pc'[c] = "done" /\ call[c].server # None]_vars

\* A key that went to a backup comes back: once the preferred provider stays well and
\* enabled, the key is on it for good (provider_failover.go:1678).
PreferredComesBack ==
    <>[](health[Preferred] = "well" /\ Preferred \notin disabled) => <>[](active = Preferred)
=============================================================================
