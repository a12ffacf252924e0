# A verification project for the LLM protocol gateway

The gateway takes requests in one LLM protocol, finds the provider account that
should serve them, and passes them on, converted if need be, to a vendor. What makes
it hard to get right is what requests share and what happens when things stop half-way:
an account's concurrency and rate budget, its one-shot refresh token, the marks that
rest it, the key that has moved to a backup, the conversation pinned to an account, the
tokens a key has left, the rows that wait for the database, the configuration that is
changed in memory first and on disk later, the answer that is cut in the middle of a
tool call. This directory models those parts in TLA+, checks them with TLC and proves
the facts that matter most with TLAPS.

Paths are relative to `src/internal/gateway/` unless they say otherwise.

## Inventory

| Part | State it keeps | Operations | What is hard | What makes it correct | Modelled in |
|---|---|---|---|---|---|
| **Provider lanes** `provider_lanes.go` | per account: limits, slots taken, admission stamps of the last minute, ticket queue, wake channel | acquire (size the wait, try, queue, sleep), release, refund, resize | waiters, timers and disconnects race with releases and resizes; two clocks | slots taken = exchanges in flight; never more than the limit; the rate is kept; the queue holds sleepers only; everyone is answered | `ProviderLane` |
| **OAuth renewal** `oauth_renew_lock.go`, `workbuddy.go` and the other sign-ins | a mutex and the last outcome per refresh token | fetch, lock, begin, exchange, store, settle, retire, sweep | the token is spent by the exchange; waiters hold mutexes of tokens already replaced; sign-in and sign-out race the exchange | one exchange per token; a replaced token is not sent; a failure is shared while it is fresh; everyone returns | `OAuthRenew` |
| **Failover, pins, availability** `provider_failover.go`, `provider_schedule.go`, `provider_affinity.go`, `provider_cooldown_qoder.go` | a key's active provider, rest marks, soft-failure counts, pins, failures on probation | schedule, apply pin, reserve, attempt, classify, advance, settle; recovery and reprobe loops | a request acts on copies that others have changed; a probe's verdict comes after a live answer | a rest and a charge are deserved; a pin names an account that answered; the key comes back to its preferred account | `Failover` |
| **Key quota** `key_quota.go` | tokens reserved by requests in flight | read, decide, hold, release | check then act; the usage arrives later than the release | reservations add up; a refusal is one the key's use justifies | `KeyQuota` |
| **Usage accumulator** `internal/monitor/usage_accumulator.go`, `store.go` | counts in memory, event channel, batch, daily rows | enqueue, apply, flush, rebuild, stop | overflow goroutines, shutdown, failed writes, a rebuild while serving | every event reaches the database once; memory and database agree | `UsageWorker` |
| **Request-log batcher** `request_log_batcher.go` | pending rows, closed flag, stop and wake | append, flush, close | concurrent flushes, late appends | no row lost or written twice, none left behind by the close | `LogBatcher` |
| **Runtime** `internal/app/runtime.go` | the order of a stop, each part within its budget | start, stop, die | deadlines missed, a process killed | what a stop may lose is what it ran out of time for | `Accounting` |
| **Stream converters and readers** `convert_*_stream.go`, `passthrough_stream.go`, `stream_*.go`, `sse_writers.go`, `empty_stream_retry.go` | per answer: block numbers, open blocks, calls and their arguments, what is held back, attempts | frame by frame conversion, end of stream, heartbeat, retry | the body may end anywhere, in an error or with nothing said; what was shown cannot be taken back | the client's stream is well formed, says one reply, ends as finished only when it is, and says so when it was cut | `Streams` |
| **Router, configuration API and store** `router.go`, `server.go`, `key_profiles_api.go`, `internal/store/sqlite.go` | providers, routes, keys with profiles, in memory and in tables | add, edit, delete, restore, purge, bind, switch; snapshot and save; write a row; renew; load | memory first and disk later, in separate steps of separate writers; snapshots share their rows with the router; writes fail; restarts | what was confirmed is on disk; a save never brings a spent token back; a route has a provider | `Config` |
| **Alerts** `internal/monitoring/`, `internal/store/monitoring.go` | alert rows, timeline, streaks, flips, digests | evaluate, dispatch, flush, acknowledge, ignore, retry, edit a channel, restart | whole-row writes beside the operator's; digests live in memory; quiet hours | what is recorded as told was told; a digest leaves | `Alerts` |
| **Login throttle** `auth_throttle.go` | failures per source and user | blocked, fail, succeed | the check and the count are apart | no more guesses than the limit | not modelled |
| **Upstream timeouts** `upstream_timeout.go` | a timer per read | read, fire, close | a timer that fires as the read returns | only a silent wire fails a read | by its effect, in `Streams` |
| **Quota keeper** `quota_keeper.go` | scheduled tasks, running set | tick, claim, run, advance | the tick works on an old list | one run per slot | not modelled |
| **Tunnel** `internal/tunnel/manager.go` | process, wanted flag, heal loop | start, stop, heal | the heal loop races a stop | stopped stays stopped | not modelled |
| **Whole-message conversion, adapters, compression, pricing, console, desktop** | none | functions of their input | formats | wording | not modelled |

How they meet: `executeProtocolFlowWithFailover` is the centre. It asks the key quota
for admission, orders the chain from the marks, the pins and the live load, and tries
each account; the exchange itself (`protocol_proxy.go`) renews the account's credential
if it is due and takes a slot of the account's lane, whose refusal the failover loop
sees as "busy, not broken". The answer goes through the converter of its route, behind
the writer that holds it back until it has content, so that an empty turn can be
retried and a failed attempt dropped. Its outcome moves the marks, the pin and the key;
its usage goes to the accumulator and its row to the batcher. The recovery goroutine
writes the same marks and the same key. The operator's handlers change limits and
configuration, sign in and out, and disable accounts under all of this, and the
monitoring tick reads it all and tells the operator.

`PROJECT.json` lists every part with what is modelled of it, and, under "hazards",
what is hard to test, each at the line where it bites, with the property that watches
it or the reason why none does.

## Modules

| Module | What it is |
|---|---|
| `ProviderLane` | one account's lane; a request's way through `acquire` and `acquireSlot`, one action per critical section |
| `AccountSlots` | what the lane promises about concurrency: a counting semaphore whose limit may change |
| `OAuthRenew` | one account's refresh token, the process-wide table of mutexes and outcomes, both ways into it |
| `Failover` | one key, its chain of accounts, its conversations, and the recovery goroutine |
| `Tally` | requests, and tables that count how often each has been written |
| `UsageWorker`, `LogBatcher`, `KeyQuota` | the two deferred writers and the admission of one key |
| `Accounting` | the three of them composed, under a runtime that starts, rebuilds, stops in order or dies |
| `DurableSink` | what a deferred writer promises: each record stored once, none lost without an excuse |
| `Wire` | what a client reads off a stream of any protocol; a converter's memory |
| `ClaudeWire`, `ResponsesWire`, `ChatWire`, `PassWire` | the legs that write Claude, Responses, Chat and Gemini streams, and those that pass Claude through |
| `Streams` | one streamed answer: the upstream's frames, the converter, what is shown, the retry |
| `KeyRouting` | what an API key routes to, and how each operation cleans what it is given |
| `Config` | providers, routes and a key in memory and on disk, and everyone who writes them |
| `Lists` | the loops that keep part of a slice, used by the failover chain, the configuration and the alerts |
| `AlertEngine`, `Alerts` | the alert automaton of a tick; dispatch, digests, operator and restarts around it |
| `StreamsInv` | the two inductive invariants of `Streams`, `IInv` and `JInv`; `MCStreams` extends it, so that TLC can check them on the instance before they are proved |
| `ListFacts` | lemmas about `Lists` and about recursive functions, for the proofs |
| `ProviderLaneProofs`, `OAuthRenewProofs`, `FailoverProofs`, `AccountingProofs`, `ConfigProofs`, `AlertsProofs`, `StreamsProofs` | theorems and their proofs |
| `MC...` | small instances for TLC |

### ProviderLane

`max`, `rpm`, `inflight`, `queue`, `admits`, `lastSeen` are the fields of
`providerLane`; the queue is the sequence of live tickets. `wait`, `over`, `budget`
and `deadline` are what a call of `acquire` carries from one section to the next,
`woken` the waiters whose wake channel has been closed, `release` which of the
three functions a request was handed. `Arrive` resizes the lane, as
`laneForProvider` does on every arrival, to a size of `Config`; `ReadLimits`,
`CheckWindow`, `PeekMax` and `SizeBudget` are the reads of `acquire`, the first and
third of them without the mutex, as in the code; `FirstTry`, `Woken` and `Expired`
are the iterations of `acquireSlot`; `Disconnect`, `TellRetryAfter` and `Finish`
the ways out. Time has two clocks, because the code has: timers and deadlines run
on the monotonic clock, stamps are wall-clock times an administrator or NTP may
step. `slots` and `sent` are history.

Assumed: a tick is far longer than what a goroutine needs between two sections, so
time passes only while every goroutine waits; timers fire promptly; a configured
wait is at most one window (`providerQueueWaitCap`).

### OAuthRenew

Credentials are numbered in the order the vendor minted them. `table` maps a
refresh token to its mutex, `mark` to the outcome its entry carries, `owner` says
who holds each mutex (retired ones included, since waiters still hold pointers to
them). A request opened with a credential goes through fetch, lock, begin, read,
exchange, store and retire, or fails and settles; `Forced` requests come from a 401
and take the comparing path of `forceRefreshWorkBuddyToken`. `SignIn` and `SignOut`
are the operator, `SweepElsewhere` another account's entry into the table. A sweep takes
an entry whose mutex nobody holds for one nobody uses, though a request may have fetched
that mutex and not locked it yet; `astray` is the history of the tokens this happened to,
until the calls opened with them are over.

Assumed, of a credential that is fresh when handed out: it does not become due while a
call opened with an earlier one is under way (`Age`). A login lasts hours, a call minutes.

### Failover

A request is `Authenticate` (the key is copied), `Schedule`, `ApplyPin` and in
spread mode `Reserve`, then one attempt after another. The exchange is one step
whose outcomes are the classes of `classifyProviderFailover`: `Answered`, `Passed`
(busy model, refused prompt, refusal in a stream already open), `RefusedHard`,
`RefusedCounted`, for Qoder `RefusedResting` and `RefusedOnProbation`, and
`Saturated` and `ClientGone`, which charge nobody. `MoveKey` and `SaveKey` are the
two halves of `persistAPIKeyActiveProvider`; `Settle` pins and charges. The recovery
goroutine is `Recover...` and `Reprobe...`; it does one job at a time and each read,
probe and write of it is a step. `health` is the vendor's side: "down", or "spent"
when an account refuses requests but still lists its models.

Merged into one step: a mark and the count cleared with it; reading a pin and
dropping it in `applySessionPin`; at the end, the pin and the charges. Abstracted:
the length of a rest (ordering asks only for its presence), the live load that
breaks ties in spread mode (any order), a response that has begun to stream (any
failure may be one). Every request names a conversation.

### Accounting (Tally, UsageWorker, LogBatcher, KeyQuota, DurableSink)

A request is `Begin`, `ReadKeyUsage`, `Decide`, `Reserve`, `Exchange`, `RecordUsage`,
`RecordRow`: the key's use is read, what others hold is read, and the hold is made, in
three sections. The release is a deferred call; `LeaveImage` is the image endpoint,
which counts its usage before it releases. The usage worker receives, batches and
commits (`UsageWorker`); an event that finds the channel full is carried by a goroutine
of its own, the `senders`. The batcher's loop ticks, wakes and stops, a reader of the
console flushes beside it, and a row that comes after the close is written through
(`LogBatcher`). `Accounting` composes them with the runtime: `RebuildUsageStats` at
start, in its three sections and while requests are served, the orderly `Stop`, each
part of which may run out of its budget, and a crash with the restart after it.

`DurableSink` says what a deferred writer owes: a record is stored at most once, and is
lost only to a cause that excuses it. `UsageLands` and `RowsLand` instantiate it for the
two writers. The causes are part of the statement, because the code has them: a failed
write, a crash of the process that held the record and no other (what was stored before
it, and what comes after it, is not excused), a part of the stop that ran out of time, an event of an overflow
goroutine at an orderly stop (`overflowed`), an event counted while the rebuild is
under way (`early`), rows that a console's flush has taken when the database closes
(`reading`).

Left out: the turn of a day and of a quota's window, the rollups by model and hour,
and the back-filling path of the rebuild, on which an event may be counted twice.

### Streams (Wire, ClaudeWire, ResponsesWire, ChatWire, PassWire)

The upstream speaks Chat, Responses or Claude; a frame is one event of it that carries
something the client could notice: the start, a piece of text or reasoning, a call, a
piece of its arguments, a finish, an error. The legs are `ChatToClaude`,
`ChatToResponses`, `ChatToGemini`, `ResponsesToClaude`, `ResponsesToChat`,
`ClaudeToResponses`, `ClaudeToChat`, and Claude passed through, with or without the
sign-in's rewriting. Each is a function of the frame and the leg's memory that returns
what is written: no leg has a variable. `Streams` drives any of them with any legal
sequence of frames, lets the body end whole, cleanly but early, by a read that fails or
with an error, holds the reply back until it has content or the hold is full, writes a
heartbeat through the hold, and retries an empty turn once.

`Wire` is the client's side: it reads what is written with the rules of its protocol,
blocks opened and closed in order, arguments only in an open call, one finish. What the
properties compare is what that reader has gathered.

Left out: custom and search calls, usage numbers, calls whose name comes late, Cursor's
fallback on reasoning, a streamed request answered whole, redacted thinking, the bound
on what is held back; a finish and `[DONE]` are one frame. `PassWire` models the text of
the blocks of a forwarded answer by the blocks alone.

Behaviours the models had to follow, which a reader of the code may want to know:
`ChatToResponses` writes text that comes after a call on an item index it never opened;
`response.failed` is reported as a normal finish, and is not among the frames; a read
that fails returns at `scanner.Err` before `closeInterrupted...` closes anything, except
from Claude to Responses and on a forwarded stream (`TellReset`), so that `CutIsTold`
speaks of a failed read on those legs only; nothing tells a
Gemini client that its answer was cut; a cut Claude turn gets an error and then a
`message_stop`; an answer that has only opened is committed by `Finish`; arguments
streamed to a Gemini client in pieces are dropped; a turn of reasoning only that ends by
length or refusal comes out of `ClaudeToResponses` empty; a heartbeat may flush half a
frame. Each property names the legs it does not speak of, for these reasons.

### Config (KeyRouting)

Every handler changes the router first and the database afterwards. `Config` has both
sides: providers with their token, routes, one key with its profiles, and what is on
disk. A console's request is a change in memory, a `Snapshot`, a `Save` of both tables in
one transaction and, for a key, a write of its row. Traffic moves the key's active
provider and writes the whole row; a renewal writes a token to the router and then to the
table. A purge looks at its provider under one lock (`LookAtPurged`) and removes it under
another (`PurgeProvider`). A write may be refused, with the roll-back its handler makes, and the process
restarts from disk. A database starts with any of the providers, in any order.
`KeyRouting` is the routing part of a key, and what each handler
does to it when providers or profiles go.

`Snapshot` copies slice headers, not rows: a save in flight sees a later change of a row
that was not reallocated. `Overwritten` and `Reallocated` are the two cases.

What the properties except, and the code does: `DeleteProvider` cleans the key in memory
only (`cleaned`); a renewal's write may land on a provider created again under the same
identifier, or a failed purge put back a copy older than a renewal (`astray`), or older
than a delete (`Lags`, until the next save); two changes under way at once may land in
the other order.
`overlap` records that they were: of the key's row ("key", the subject of `config_lost`)
or of the two tables ("save"), since `saveState` takes its snapshot and writes it in two
sections with no lock between them. A failed purge puts the provider
back at the end of the list. Not modelled: several keys, users and ownership, two
providers with one identifier chosen by the client, an active provider sent raw when a
key is created, iteration over a map while it changes. `SnapshotKeyProfile` is called
by nothing.

### Alerts (AlertEngine)

`AlertEngine` is `Evaluate` for one alert: pending, firing, resolved, a rise of severity,
reminders, flapping and its suppression, loss of data. `Alerts` has the tick around it:
`Dispatch` sends at once or queues a digest entry, with quiet hours and the channel's
least severity, `Flush` sends a digest and writes its alerts back; the operator
acknowledges, ignores and asks for a retry; a channel is edited or deleted; a restart
forgets the digests, which the code accepts. Times are ages that stop at the longest
interval anything compares them with.

Left out: P2 alerts, the watchdog of a tick, failures of the engine's own writes, the
operator's handler as two statements, rules that count consecutive samples, more than
one alert or channel in the checked instance. A tick is shorter than any interval that
is configured. `d.deferred` is written by nothing.

## Runs

| Run | Instance | Shows |
|---|---|---|
| `lane_limits` | 3 requests (symmetric); sizes none/1/2 slots with a rate; window 2 ticks, 4 ticks | `TypeOK`, `SlotsCovered`, `SlotAccounting`, `QueueIsWaiters`, `WindowCountsExchanges`, `RateBudget`, `ArrivalOrder`, `NoLostWakeup`; the slots implement a counting semaphore (`AccountSpec`) |
| `lane_answers` | 2 requests, wall clock stepped by -3 or +2 | every request is admitted or refused in the end (`AnswerEventually`) |
| `lane_leak` (violation) | 2 requests, both limits, no wait | `IdleLaneEmpty`: a slot is never given back |
| `renew_once` | 3 requests (symmetric), 3 credentials that are fresh when handed out, sign-ins and sign-outs; 0.92 million states | `OneExchange`, `FailureShared` |
| `renew_refused` | 2 requests, one from a 401, 2 credentials, sign-outs, other accounts; 0.41 million states | `TypeOK`; a replaced token is not sent (`ReplacedNotSpent`); an owed outcome is kept (`OutcomeOwed`); every call returns (`CallsReturn`) |
| `failover` | 2 requests, 2 conversations, 2 Qoder accounts, both modes, one change of health, the backup disabled and enabled at will; 2.7 million states | `TypeOK`, `HealthyNeverRested`, `PinFollowsAnswer`, `BlameNeedsAnswer` |
| `failover_recovery` | 2 requests, 1 conversation, 2 accounts, the preferred one metered, two changes of health | `PreferredComesBack` |
| `accounting` | 2 requests (symmetric), channel of 1, batches of 2, a budget of 3 tokens or a cost of 1, one mishap, two lives; 1.1 million states | `TypeOK`, `ReservationsMatch`, `MemoryMatchesDaily`, `NoRowParked`, `RefusalJustified`, `UsageLands`, `RowsLand` |
| `streams` | 2 calls, 4 frames of Chat, 5 of Responses, 6 of Claude, 2 attempts; 0.66 million states | `TypeOK`, `WellFormed`, `OneReply`, `FinishedIsWhole`, `CutIsTold`, `EmptyTurnIsNoAnswer` |
| `config` | 2 providers, 1 route, 2 profiles, 2 consoles (symmetric) with 2 requests between them, one move of the key, one renewed token, one refused write or restart; 1.5 million states | `RouteHasProvider`, `ConfigDurable`, `TokenDurable`, `KeyDurable` |
| `config_lost` (violation) | the same with 1 console, no renewal and no fault | `ChangeSurvives`: a confirmed profile is lost |
| `alerts` | 1 alert of P1 or P0, 1 channel, 3 events, one move of the operator, an edit or a restart; 0.56 million states | `RecordedWasTold`, `DigestLeaves` |

Why the bounds are enough. In the lane the interesting cases need a holder, a
waiter at the head and one behind it or arriving: three requests. A window of two
ticks is the least in which a stamp can be old but not yet out. Queue capacities of
one and two make a full queue happen. For renewal, a holder, one queued on the same
mutex and one that opened on the next credential are three requests, and three
credentials let a replaced one be replaced again. In failover two requests are
enough for every pair of steps to interleave, with the loop as a third actor; two
accounts give a first and a last candidate, which the code treats differently. With
`Threshold` 1 the count that rests is the first one; `failover_recovery` has 2, where
a count below the threshold exists. In the accounting, a channel of one overflows
with two requests, a batch of two is reached and missed, and the budgets let the second
request be admitted or refused according to what has settled; two lives are a start, a
stop or crash, and a rebuild. A stream with two calls has blocks that must close in
order and calls that interleave; 4, 5 and 6 frames are what a start, a call with
arguments, a second block and an end take on each wire, and two attempts are the code's
own number of them in this path. For the configuration, two providers and two profiles
are the least with one to go back to; two requests are a change and a second one that
undoes it, overtakes it or comes after the fault, and with two consoles both may be
under way at once. For alerts, three events let an alert
rise, recover and fire again.

`MaxTurns`, `MaxMinted`, `Horizon`, `MaxTime`, `MaxSteps`, `MaxMishaps`, `MaxLives`,
`MaxFrames`, `MaxRequests`, `MaxMoves`, `MaxToken`, `MaxFaults` and `MaxEvents` bound what would go
on for ever; none of them stops a request half-way. Once the vendor has minted its last
credential `OAuthRenew` no longer records which tokens it has taken: only a further
renewal would tell.

`CHECK_DEADLOCK FALSE` stands in the renewal, failover, accounting, streams and both
config runs because a system whose requests are all done, and whose operator, vendors and
mishaps have used their bounds, does stop. The runs of the lane and of the alerts check
deadlock.

Fairness. `ProviderLane`: what a goroutine can do it does (weak fairness of its
moves and of the end of its exchange, which upstream timeouts bound), and time
passes whatever arrives (strong fairness of `Tick`, which arrivals switch off and
on). `OAuthRenew`: strong fairness per request, since a mutex is free only now and
then, and Go's mutex hands over to a waiter that starves. `Failover`: weak fairness
per request, each exchange being bounded; strong fairness of the recovery job, since
it shares its goroutine with the reprobe job and Go's select takes any ready timer.
`Alerts`: weak fairness of the four parts of the monitoring tick, which one goroutine
runs for ever. `Accounting`, `Streams` and `Config` assume none: they check safety only.

## What the code does otherwise than it says

Two runs end in a violation: each checks what a comment of the code says against what
the code does. `PROJECT.json` quotes the text.

- `lane_leak`: on a lane with both limits whose row does not wait, a request that
  found the window full before trimming gets `refundAdmission` as its release
  (`provider_lanes.go:280`), and the slot it took stays taken.
- `config_lost`: traffic changes the key under the router's mutex and writes its whole
  row afterwards (`provider_failover.go:1252`). When the console's newer row goes first,
  the older one takes the profile it confirmed away.

Others are findings without a run of their own, met while modelling and followed by the
models: an arrival overtakes the queue (`provider_lanes.go:320`); a request that waited
for its own token's mutex exchanges the token stored now, without that token's mutex
(`workbuddy.go:853`), and a renewal stores over a sign-out or a sign-in (`:796`);
counting conversations and reserving are apart (`provider_failover.go:1378`), and the
last candidate's refusal becomes the key's active provider (`:1605`); the blocks closed
after a cut are those of the first write (`passthrough_stream.go:869`), and tool blocks
are closed in the order of a map (`convert_openai_claude_stream.go:298`); `Retry-After`
is truncated (`key_quota.go:115`) and more than one request may overshoot (`:134`); an
owner that is sent is lost (`server.go:3992`), a deleted provider comes back with a
profile (`server.go:3681`), a failed purge moves its provider (`router.go:1433`) and may
put back one that was deleted or renewed since it was copied (`server.go:3739`); most
converters end in silence when a read fails (`convert_openai_claude_stream.go:291`), and a
cut Claude turn ends with the `message_stop` another file rules out
(`stream_interruption_close.go:132`); a
reminder collapses itself into its digest (`internal/monitoring/dispatcher.go:394`), a
digest writes old alerts back (`:330`), a deleted channel's digest stays for ever
(`:284`), an alert whose first notification failed is never reminded of
(`engine.go:329`), one resolved for lack of data is announced as a recovery
(`dispatcher.go:136`).

Not against any comment, but worth knowing: the refund withdraws the stamp of an
exchange that took place, so a rate-only row without a wait can exceed its rate
(`provider_lanes.go:281`); `lastSeen` never moves back (`:461`), so that after a large step back
no admission is counted until the clock has caught up; a sweep between
fetching a mutex and locking it lets two requests spend a token when other accounts
share the table (`oauth_renew_lock.go:211`, beside the comment at `:212`), and so does a sign-out that
makes two requests on different mutexes fall back to the token both were opened with,
already replaced: `OneExchange` and `FailureShared` except exactly these tokens; a shared failure refuses a
request after a sign-in stored a good credential (`:282`, beside the comment at `:270`);
a reader of the log may miss rows another flush holds (`request_log_batcher.go:126`).
And two saves of the tables under way at once may commit in the other order
(`server.go:4043`): a console takes its snapshot, another deletes a provider and saves,
the first save then writes the older routes back, and after a restart a route leads to a
provider in the trash. TLC refutes `RouteHasProvider`, `ConfigDurable` and `TokenDurable`
on the instance of `config` without their condition that no saves overlapped.

## What is proved

Thirty-nine theorems, in seven modules, for every value of the constants that satisfies
the named assumptions. An eighth, `ListFacts`, holds what several of them need about loops.
A recursive function is `CHOOSE f : f = [...]` to the prover, so that it equals its own
definition has to be shown: `FoldedUp` and `UpToDefined` build it for the first `n`
arguments and extend it by one, by induction over the naturals (`Inductive`, which takes
the property as a set). `KeptFacts` says what `Kept` keeps: members of the list, all that
are wanted, in the list's order.

`ProviderLaneProofs` (from `ConfigAssumption`, `TimeAssumption`, `QueueAssumption`,
`RequestAssumption`; waits are at most one window):

- `TypeCorrect`: `TypeOK`. Most of the work is in the lemmas: trimming a sequence of
  stamps gives a sequence of stamps, striking a ticket gives a queue.
- `QueueCorrect`: `QueueIsWaiters`, inductive with `TypeOK`. The lemma `StrikeTicket`
  says that striking a ticket of a queue without repetitions removes exactly it.
- `SlotsCorrect` and `SlotsReturned`: `SlotsCovered` and `SlotAccounting`. Neither is
  inductive. The invariant is `TypeOK`, `SlotsCovered`, `SlotReleased` and
  `SlotAccounting` together: a release lowers the count by one, so the count stays right
  only if the request that calls it holds a slot, which is what `SlotReleased` says; and
  a release is the refund, which gives no slot back, only for a request with no wait that
  saw a full window, which on a patient lane cannot have taken a slot. `lane_leak`
  shows what happens on a lane that is not patient.
- `OrderCorrect`: `ArrivalOrder`. `StrikeOrder` and `JoinOrder` say what a departure and
  an arrival do to the order of the queue; `StepsOrderly` goes through the actions.
- `WakeupCorrect`: `NoLostWakeup`. Whoever leaves the queue or frees a slot closes the
  channel of the one whose turn it is (`LeavingTells`, `ReleaseTells`).
- `WindowCorrect`: `WindowCountsExchanges`, and `RateBudgetCorrect`: `RateBudget`. Neither
  is inductive: the count of stamps can only be kept if one knows which stamps they are.
  The invariant is `WindowInStep`: the stamps ascend (`StampsAscend`), the last ones are,
  one by one, those of the exchanges of the last minute and all before them are out of
  the window (`StampsMatch`), and the two clocks run side by side, so that a timer that
  fires retries with the present reading (`ClocksAgree`). It was model-checked on the
  instance of `lane_limits`. `SinceDrops` and `SinceSplits` say what trimming a sequence
  of stamps leaves, `WindowFacts` that counting adds one stamp and that giving the count
  back takes the same one away; `WindowedKeeps` and `TickInStep` are the two ways in which
  the window moves, by a critical section and by time. Both theorems have a hypothesis on
  the rows, `Unrefunded`: every row waits, or none has a rate. Without it they are false,
  since a refund withdraws the stamp of an exchange that took place (see above). And both
  speak of time between wall-clock steps: `WindowCountsExchanges` says so itself,
  `RateBudgetCorrect` assumes `MaxSteps = 0`, because after a clock set back by more
  than a window every new stamp is at once too old, and the lane counts no exchange until
  the clock has caught up.
- `LaneImplementsAccount`: `Spec => AccountSpec`. A step of the lane starts or ends
  a limited exchange, resizes, or changes nothing the account sees; a start is within
  the limit because the lane admits only below it and never counts fewer slots than
  are taken (`SlotsCovered`).

`OAuthRenewProofs` (from `RenewAssumption`):

- `TypeCorrect`, which includes that a fresh mutex is always at hand, and
  `OutcomeOwedCorrect`: a failure is neither swept nor retired within its window, for
  any number of accounts, 401s, sign-ins and sign-outs.
- `ReplacedNotSpentCorrect`, with no further assumption: any ages of credentials, 401s,
  sign-ins, sign-outs and accounts. The invariant `Replacing` says that what the router
  stores was never replaced, and that a credential about to be stored is known to nobody
  (`Unknown`): it is not stored, opened, spent or replaced.
- `OneExchangeCorrect` and `FailureSharedCorrect`, for the same histories, under
  `HandedOutFresh`: a credential is fresh when it is handed out. Without it they are
  false (`workbuddy.go:853`). The invariant `Coherent` says that a request past the mutex
  holds it (`Held`); that what is newer than the credential of a request under way is
  fresh, that a request that found its token due was opened with the oldest credential in
  use, and that whoever spends a token spends the one it was opened with (`Generations`);
  and that, unless its token is replaced or astray, a request queues for the mutex that
  the token's entry holds (`OneQueue`). Two requests that spend such a token hold the
  same mutex (`OneHolder`).

`FailoverProofs` (from `ChainAssumption`):

- `TypeCorrect`: `TypeOK`. Its invariant says more of the order a request walks: while it
  still may change it is a list of the key's chain without repetitions (`OrderFit`), which
  the healthy-first order, the spread and the pin keep, and a place is within it.
- `HealthyNeverRestedCorrect`, whose invariant adds to the property that whoever is about
  to rest an account has seen it ill (`Grounds`).
- `PinFollowsAnswerCorrect`, whose invariant adds what a request may hold at each place: a
  reservation only once it found no pin, an answer only at its end (`Anchors`).
- `BlameNeedsAnswerCorrect`, an action property: a count rises only where a request
  settles, and one that settles has been answered.

`AccountingProofs` (from `QuotaAssumption`, `UsageAssumption`, `LogAssumption`,
`AccountingAssumption`, and that requests are finitely many):

- `ReservationsCorrect`, by the set of requests that still hold (`HoldersMatch`);
  `NoRowLeftParked`; and the two refinements of `DurableSink`, `UsageReachesSink` and
  `RowsReachSink`.
- `MemoryMatchesDailyCorrect`, by `CountsSound`: what the rebuild loaded is in the
  database, what the database had and the rebuild missed came too early for it, and an
  event that was given is in the channel, with a sender, in the batch, stored, or lost
  with an excuse of its own. Memory is never behind; it is ahead only of what was lost.
- `RefusalJustifiedCorrect`, by `ReadSound`: what a request read of the window is at most
  what was really spent. The totals are a recursion over the set of requests; that it is
  defined, that a larger count gives no smaller total and that an event counts for no more
  than was spent on it are lemmas of their own.
- `TypeCorrect`: `TypeOK`.

`ConfigProofs` (from `ConfigAssumption`):

- `KeyDurableCorrect`. The invariant `Rows` says that as long as no two changes of the key
  have overlapped at most one row is in flight, that it carries the key as the router has
  it, and that without one the table has it.
- `RouteHasProviderCorrect`, `ConfigDurableCorrect`, `TokenDurableCorrect`, for any number
  of consoles. None is inductive: a restart takes the tables for the router, so the tables
  too must be well made, and a save's snapshot becomes the tables. The invariant `Sound`
  says that router and tables hold each identifier once and routes that lead somewhere
  (`WellMade`, `Leads`, `Distinct`); that one save is under way and carries what the
  router holds (`Saves`); that the tables hold the router's rows together with those a
  purge has taken and would put back (`Stored`, `Held`); that a token in the table
  is the one in memory, or that one is on its way (`Tokens`); and that what a purge has
  looked at is a provider's row (`Looks`). A copy put back that lags behind the row taken
  is recorded in `unwritten`, where the two properties except it.

`AlertsProofs` (from `EngineAssumption`, `AlertsAssumption`):

- `RecordedWasToldCorrect`. The invariant `Honest` says of every copy of an alert's state,
  in the rows, in what an evaluation loaded, in the transitions on their way and in every
  digest, stale or not, that it counts as notified only if somebody was told of an event
  of the alert that was no recovery (`Told`), and that every transition names an event of
  the timeline (`Sound`). A digest writes back old copies; that they were honest when
  taken is enough, since what was told stays told (`Grown`).
- `TypeCorrect`: `TypeOK`, with the lemmas on the windows of flips.

`StreamsProofs` (from `StreamAssumption`), for every leg, with any number of calls and
frames and whatever the upstream sends:

- `WellFormedCorrect`, `OneReplyCorrect`, `CutIsToldCorrect`,
  `EmptyTurnIsNoAnswerCorrect` and `TypeCorrect`, from one invariant, `IInvHolds`. What a
  client may be left with (`Fine`) is a property of the list of events alone, and one that
  any later event could break; so the invariant says what each converter remembers that
  keeps it from doing so. `Sane`: the blocks open on the wire are exactly the entries
  still open and, under the next number, the text or thinking block; every block opened
  before has a lower number; nothing has ended. Each leg adds what it needs to `Sane`
  (`Claude`, `Gated`, `Messages`, `ClaudeChat`, `ResponsesChat`, `Chat`, `PassSane`): the
  gate is shut until something readable is written, `texted` is never behind what was
  said, thinking opens only before text. `LegSane` names them leg by leg.
- The lemmas go up: an event appended to a list (`PairedGrows`, `ReplyGrows`), a block
  opened, grown or shut by a memory (`SaneOpenTool`, `SaneShutCur`), the calls shut in any
  order a map gives (`SaneShutTools`, by induction over the order), a converter's step,
  its three ends, and the action around it (`FrameKeeps`, `SettleKeeps`). A retry is taken
  only where nothing was shown, so `base` stays empty.
- `FinishedIsWholeCorrect`, from a second invariant, `JInvHolds`. `IInv` says that what was
  written fits, not that it is everything; so `JInv` keeps the account of the calls on both
  sides. `Tallied`: every call the upstream named was opened once, under a number no other
  call has, with as many pieces of arguments as the upstream sent of it, and no other call
  was opened. To keep that, each converter's entries must find the call they were made for:
  by its identity, with what was passed of it (`Keyed`), by the upstream's block (`Indexed`,
  Claude to Responses), or by the call of the last block (`Current`, Claude to Chat); a
  forwarded stream shares the upstream's numbers (`Forwards`). `Counted` says that calls are
  numbered as they come and that one not yet named has no arguments, so that a frame that
  opens a call opens it with nothing. The frames that repeat the arguments whole
  (`CallSaid`, `CallDone`, the terminal event) pass what is missing and nothing twice, which
  is why an entry counts what it passed. `WholeIs` is the property as an answer that has
  ended must have it, in an attempt that may still be thrown away.
- Those lemmas go up the same way: what one event adds to a sum over the list
  (`AmountGrows`), events of no call (`Silent`), a call opened, grown and shut
  (`KeyedOpens`, `KeyedArgs`, `KeptShuts`), a frame (`FrameCounts`), and the ends: one that
  finishes shuts all that is open (`ShutIsWhole`), one that fails never says whole
  (`Unfinished`).

Only model-checked:

- every liveness property (`AnswerEventually`, `CallsReturn`, `PreferredComesBack`,
  `DigestLeaves`): fairness and `ENABLED` are out of the prover's reach.

## Not modelled

- The login throttle: one counter, checked before the password and raised after it. Its
  single hazard is listed; a model would say no more than that sentence.
- The quota keeper, the check-in and the tunnel: they share no state with the requests,
  and their hard part is vendor calls and operating-system processes.
- The idle guard's timer: only its effect, a read that fails at any moment.
- Trae and the other sign-ins one by one: they use the same table; Trae's renewal may
  also leave the token as it was, which no action here does.
- The flush of pins to the database; the pins themselves are in `Failover`.
- Whole-message conversion, vendor adapters, tool-output compression, pricing and
  statistics: functions of their input whose correctness is in formats the models
  abstract from. They are the greater part of the code's lines.
- The store's SQL: each write is one step where a component needs it.
- The rotate, least-used and quota schedules: they only change the order of the chain,
  which spread mode leaves open among equals.
- Several keys in one instance: they share the marks and the counts, which the two
  requests of an instance already race on.
- The console, the desktop application, the command line and deployment hold no state of
  the gateway.

## Running

```
tlc -workers 2 -config lane_limits.cfg        MCProviderLane
tlc -workers 2 -config lane_answers.cfg       MCProviderLane
tlc -workers 2 -config lane_leak.cfg          MCProviderLane
tlc -workers 2 -config renew_once.cfg         MCOAuthRenew
tlc -workers 2 -config renew_refused.cfg      MCOAuthRenew
tlc -workers 2 -config failover.cfg           MCFailover
tlc -workers 2 -config failover_recovery.cfg  MCFailover
tlc -workers 2 -config accounting.cfg         MCAccounting
tlc -workers 2 -config streams.cfg            MCStreams
tlc -workers 2 -config config.cfg             MCConfig
tlc -workers 2 -config config_lost.cfg        MCConfig
tlc -workers 2 -config alerts.cfg             MCAlerts
tlapm ProviderLaneProofs.tla    # and ListFacts, OAuthRenewProofs, FailoverProofs,
                                # AccountingProofs, ConfigProofs, AlertsProofs,
                                # StreamsProofs
```
