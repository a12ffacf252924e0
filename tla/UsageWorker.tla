----------------------------- MODULE UsageWorker -----------------------------
(***************************************************************************)
(* The usage accumulator: finished requests put one event each on a        *)
(* bounded channel; one worker counts it in memory, gathers a batch and    *)
(* commits it to the daily buckets of the database.  An event is named by  *)
(* its request, so a count per request is what the day totals are made of. *)
(***************************************************************************)
EXTENDS Tally, Sequences

CONSTANTS Buffer,   \* capacity of the channel
          UsageMax  \* events that make a batch full

ASSUME UsageAssumption == Buffer \in Nat \ {0} /\ UsageMax \in Nat \ {0}

VARIABLES channel,      \* usageEvents
          senders,      \* events that found it full: a goroutine each will send them
          worker,       \* what the worker is doing
          usageStop,    \* usageStop has been closed
          batch,        \* deltas of the events applied since the last flush
          memory,       \* how often each event is in the counts in memory
          daily,        \* how often each event is in usage_daily_buckets
          usageGiven,   \* history: events handed in
          overflowed,   \* history: events that needed a goroutine
          usageExcused  \* history: events something excused the worker from

usageVars == <<channel, senders, worker, usageStop, batch, memory, daily,
               usageGiven, overflowed, usageExcused>>

WorkerState == {"absent", "ready", "writing", "draining", "last", "stopped"}

UsageTypeOK ==
    /\ channel \in Seq(Request) /\ senders \subseteq Request
    /\ worker \in WorkerState /\ usageStop \in BOOLEAN
    /\ batch \subseteq Request
    /\ memory \in [Request -> Nat] /\ daily \in [Request -> Nat]
    /\ usageGiven \subseteq Request /\ overflowed \subseteq Request
    /\ usageExcused \subseteq Request

UsageInit ==
    /\ channel = <<>> /\ senders = {} /\ worker = "absent" /\ usageStop = FALSE
    /\ batch = {} /\ memory = Zero /\ daily = Zero
    /\ usageGiven = {} /\ overflowed = {} /\ usageExcused = {}

HasRoom == Len(channel) < Buffer
AllEvents == {r \in Request : \E i \in DOMAIN channel : channel[i] = r} \union senders
\* What the process holds and the database may not have.
Unstored == AllEvents \union batch

\* EnqueueUsage: the first event starts the worker; a full channel costs a goroutine.
EnqueueUsage(r) ==
    /\ worker' = IF worker = "absent" THEN "ready" ELSE worker
    /\ usageGiven' = usageGiven \union {r}
    /\ IF HasRoom
         THEN channel' = Append(channel, r) /\ UNCHANGED <<senders, overflowed>>
         ELSE /\ senders' = senders \union {r} /\ overflowed' = overflowed \union {r}
              /\ UNCHANGED channel
    /\ UNCHANGED <<usageStop, batch, memory, daily, usageExcused>>

\* The goroutine of an overflowing event gets its turn.
SendLate(r) ==
    /\ r \in senders /\ HasRoom
    /\ senders' = senders \ {r} /\ channel' = Append(channel, r)
    /\ UNCHANGED <<worker, usageStop, batch, memory, daily, usageGiven, overflowed, usageExcused>>

\* Mutant of TakeEvent: the event stays at the head.
PeekEvent ==
    /\ channel # <<>> /\ memory[Head(channel)] < 2
    /\ memory' = AddAll(memory, {Head(channel)})
    /\ batch' = batch \union {Head(channel)}
    /\ UNCHANGED <<channel, senders, usageStop, daily, usageGiven, overflowed, usageExcused>>

\* The worker takes the oldest event, counts it and keeps its delta.
TakeEvent ==
    /\ channel # <<>>
    /\ channel' = Tail(channel)
    /\ memory' = AddAll(memory, {Head(channel)})
    /\ batch' = batch \union {Head(channel)}
    /\ UNCHANGED <<senders, usageStop, daily, usageGiven, overflowed, usageExcused>>

ReceiveUsage ==
    /\ worker = "ready" /\ TakeEvent
    /\ worker' = IF Cardinality(batch') >= UsageMax THEN "writing" ELSE "ready"

UsageTimer ==
    /\ worker = "ready" /\ batch # {}
    /\ worker' = "writing"
    /\ UNCHANGED <<channel, senders, usageStop, batch, memory, daily, usageGiven, overflowed, usageExcused>>

\* The stop case of the worker's select, and the drain that follows it.
SeeStop ==
    /\ worker = "ready" /\ usageStop
    /\ worker' = "draining"
    /\ UNCHANGED <<channel, senders, usageStop, batch, memory, daily, usageGiven, overflowed, usageExcused>>

DrainUsage == worker = "draining" /\ TakeEvent /\ UNCHANGED worker

\* Mutant of EndDrain: the last batch is not flushed.
EndDrainAtOnce ==
    /\ worker = "draining" /\ channel = <<>>
    /\ worker' = "stopped"
    /\ UNCHANGED <<channel, senders, usageStop, batch, memory, daily, usageGiven, overflowed, usageExcused>>

EndDrain ==
    /\ worker = "draining" /\ channel = <<>>
    /\ worker' = IF batch = {} THEN "stopped" ELSE "last"
    /\ UNCHANGED <<channel, senders, usageStop, batch, memory, daily, usageGiven, overflowed, usageExcused>>

\* The transaction ends: committed, or refused and the batch dropped all the same.
CommitUsage(ok) ==
    /\ worker \in {"writing", "last"}
    /\ worker' = IF worker = "last" THEN "stopped" ELSE "ready"
    /\ daily' = IF ok THEN AddAll(daily, batch) ELSE daily
    /\ batch' = {}
    /\ usageExcused' = usageExcused \union IF ok THEN {} ELSE batch
    /\ UNCHANGED <<channel, senders, usageStop, memory, usageGiven, overflowed>>

\* CloseUsageWorkerContext, as far as the signal; a worker never started needs none.
StopUsage ==
    /\ usageStop' = (worker # "absent")
    /\ UNCHANGED <<channel, senders, worker, batch, memory, daily, usageGiven, overflowed, usageExcused>>
UsageStopped == worker \in {"absent", "stopped"}

\* The process ends and all but the database goes: of what it held, the events of
\* `excuse` may be lost.
LoseUsage(excuse) ==
    /\ channel' = <<>> /\ senders' = {} /\ worker' = "absent" /\ usageStop' = FALSE
    /\ batch' = {} /\ memory' = Zero
    /\ usageExcused' = usageExcused \union (excuse \intersect Unstored)
    /\ UNCHANGED <<daily, usageGiven, overflowed>>

\* Where an event is, as DurableSink tells it.
UsagePlace == [r \in Request |->
    IF daily[r] > 1 THEN "twice"
    ELSE IF daily[r] = 1 THEN "stored"
    ELSE IF r \notin usageGiven THEN "outside"
    ELSE IF r \in Unstored THEN "held" ELSE "lost"]
UsageSink == INSTANCE DurableSink WITH Record <- Request, place <- UsagePlace,
                                       excused <- usageExcused
=============================================================================
