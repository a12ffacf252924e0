---------------------------- MODULE ProviderLane ----------------------------
(***************************************************************************)
(* One account's admission lane (internal/gateway/provider_lanes.go): a    *)
(* concurrency budget, a per-minute request budget measured over a sliding *)
(* window, and a queue of the requests that wait for either.               *)
(*                                                                         *)
(* A request goes through acquireProviderSlot, acquire and acquireSlot.    *)
(* Each critical section of the lane's mutex is one action; what a request *)
(* carries from one section to the next (the size of its wait, whether it  *)
(* saw the window full, its deadline) is a variable of the request.  The   *)
(* loop of acquireSlot is one critical section per iteration, so one       *)
(* iteration is one action.                                                *)
(*                                                                         *)
(* Tickets are the requests themselves: a request queues at most once per  *)
(* acquire, and the code never reuses a ticket.                            *)
(***************************************************************************)
EXTENDS Integers, Sequences, FiniteSets, SequencesExt

CONSTANTS
    Request,    \* the requests that may want the account
    Config,     \* the sizes the account's rows can give the lane, one per arrival
    Window,     \* the minute of the rate budget, in ticks
    SlotQueue,  \* queue places per concurrent slot (4 in the code)
    QueueFloor, \* least queue capacity of a limited lane (8 in the code)
    Horizon,    \* bound: no request arrives after this tick
    MaxTime,    \* bound: the last tick
    Jump,       \* how far one step may move the wall clock, back or forwards
    MaxSteps    \* bound: how often the wall clock is stepped

\* The configured wait is cut to providerQueueWaitCap, which is one window long.
ASSUME ConfigAssumption ==
    Config \subseteq [max : Nat, rpm : Nat, wait : 0 .. Window]
ASSUME TimeAssumption ==
    /\ Window \in Nat \ {0}
    /\ Horizon \in Nat /\ MaxTime \in Nat /\ Horizon + Window <= MaxTime
    /\ Jump \subseteq Int /\ MaxSteps \in Nat
ASSUME QueueAssumption == SlotQueue \in Nat /\ QueueFloor \in Nat
ASSUME RequestAssumption == IsFiniteSet(Request)

VARIABLES
    \* the lane
    max, rpm,   \* its limits, 0 for none
    inflight,   \* slots taken
    queue,      \* live tickets; the head holds the turn
    admits,     \* wall-clock stamps of the admissions inside the window
    lastSeen,   \* latest wall-clock stamp the lane has used
    \* the requests
    pc,         \* where each request stands
    wait,       \* its configured queue wait
    over,       \* it saw the window full on entry
    budget,     \* how long it may wait
    deadline,   \* when its wait ends, on both clocks
    woken,      \* waiters whose wake channel has been closed
    release,    \* what its release function does
    \* time
    clock,      \* monotonic time: timers and deadlines
    wall,       \* wall-clock time: admission stamps
    steps,      \* how often the wall clock has been stepped
    \* history
    slots,      \* exchanges under way that took a slot of the lane
    sent        \* monotonic times of the exchanges begun under a rate in the last
                \* minute, up to the one that shows the rate broken

laneVars == <<max, rpm, inflight, queue, admits, lastSeen>>
reqVars  == <<wait, over, budget, deadline>>
timeVars == <<clock, wall, steps>>
vars == <<laneVars, pc, reqVars, woken, release, timeVars, slots, sent>>

Place == {"idle", "sized", "over", "peek", "budget", "first", "wait",
          "hold", "refused"}

-----------------------------------------------------------------------------
(***************************************************************************)
(* Pure parts of the lane.                                                 *)
(***************************************************************************)
\* providerQueueCapacity, which laneLocked applies with every resize.
QueueCap ==
    IF max = 0 /\ rpm = 0 THEN 0 ELSE Max({rpm, SlotQueue * max, QueueFloor})

\* The suffix of s that starts at its first stamp after cutoff.
Since(s, cutoff) ==
    LET first == SelectInSeq(s, LAMBDA t : t > cutoff)
    IN  IF first = 0 THEN <<>> ELSE SubSeq(s, first, Len(s))

\* trimLocked: the latest reading, and the stamps the window still holds. A
\* reading more than a window behind the latest one empties the window.
Seen(seen, stamp) == Max({seen, stamp})
Trim(s, seen, stamp) ==
    Since(IF seen - stamp > Window THEN <<>> ELSE s, Seen(seen, stamp) - Window)

Trimmed(stamp) == Trim(admits, lastSeen, stamp)

\* Mutant of RateOpen: one admission too many.
RateOpenOffByOne(stamp) == rpm > 0 => Len(Trimmed(stamp)) <= rpm

\* admitLocked: is the rate budget open, and what does counting leave behind?
RateOpen(stamp) == rpm > 0 => Len(Trimmed(stamp)) < rpm
Counted(stamp) ==
    Trim(Append(Trimmed(stamp), stamp), Seen(lastSeen, stamp), stamp)

\* Mutant of Uncounted: the count of a request that found no slot stays.
UncountedKept(stamp) == Counted(stamp)

\* uncountLocked: withdraw the entry just stored, if trimming has left it there.
Uncounted(stamp) ==
    LET last == SelectLastInSeq(Counted(stamp), LAMBDA t : t = stamp)
    IN  Trim(IF last = 0 THEN Counted(stamp) ELSE RemoveAt(Counted(stamp), last),
             Seen(lastSeen, stamp), stamp)

\* Mutant of HasSlot: one slot too many.
HasSlotOffByOne == max = 0 \/ inflight <= max

HasSlot == max = 0 \/ inflight < max
Waiters == ToSet(queue)
Turn(r) == r \in Waiters => Head(queue) = r

Init ==
    /\ \E c \in Config : max = c.max /\ rpm = c.rpm
    /\ inflight = 0 /\ queue = <<>> /\ admits = <<>> /\ lastSeen = 0
    /\ pc = [r \in Request |-> "idle"]
    /\ wait = [r \in Request |-> 0]
    /\ over = [r \in Request |-> FALSE]
    /\ budget = [r \in Request |-> 0]
    /\ deadline = [r \in Request |-> [mono |-> 0, wall |-> 0]]
    /\ woken = {}
    /\ release = [r \in Request |-> "none"]
    /\ clock = 0 /\ wall = Window + 1 /\ steps = 0
    /\ slots = {} /\ sent = <<>>

Goto(r, place) == pc' = [pc EXCEPT ![r] = place]

\* The locals of a call that has returned.
Forget(r) ==
    /\ wait' = [wait EXCEPT ![r] = 0]
    /\ over' = [over EXCEPT ![r] = FALSE]
    /\ budget' = [budget EXCEPT ![r] = 0]
    /\ deadline' = [deadline EXCEPT ![r] = [mono |-> 0, wall |-> 0]]

-----------------------------------------------------------------------------
(***************************************************************************)
(* Up to the queue: acquireProviderSlot and acquire.                       *)
(***************************************************************************)
\* laneForProvider / laneLocked: the arrival sizes the lane to the rows it read.
\* A resize wakes nobody.
Arrive(r) ==
    /\ pc[r] = "idle" /\ clock <= Horizon
    /\ \E c \in Config :
          /\ max' = c.max /\ rpm' = c.rpm
          /\ wait' = [wait EXCEPT ![r] = c.wait]
    /\ Goto(r, "sized")
    /\ UNCHANGED <<inflight, queue, admits, lastSeen, over, budget, deadline,
                   woken, release, timeVars, slots, sent>>

\* acquireProviderSlot reads the limits back under the lock of its own.
ReadLimits(r) ==
    /\ pc[r] = "sized"
    /\ IF max = 0 /\ rpm = 0
       THEN /\ Goto(r, "hold")
            /\ release' = [release EXCEPT ![r] = "noop"]
       ELSE Goto(r, "over") /\ UNCHANGED release
    /\ UNCHANGED <<laneVars, reqVars, woken, timeVars, slots, sent>>

\* acquire: is the window full? The stamps are counted without trimming them.
CheckWindow(r) ==
    /\ pc[r] = "over"
    /\ over' = [over EXCEPT ![r] = rpm > 0 /\ Len(admits) >= rpm]
    /\ budget' = [budget EXCEPT ![r] = wait[r]]
    /\ Goto(r, IF wait[r] = 0 THEN "peek" ELSE "first")
    /\ UNCHANGED <<laneVars, wait, deadline, woken, release, timeVars, slots, sent>>

\* acquire reads max outside the lock to tell a rate-only lane.
PeekMax(r) ==
    /\ pc[r] = "peek"
    /\ Goto(r, IF max = 0 THEN "budget" ELSE "first")
    /\ UNCHANGED <<laneVars, reqVars, woken, release, timeVars, slots, sent>>

\* acquire: a rate-only lane with no wait of its own waits until the oldest
\* admission leaves the window, for providerQueueWaitCap at most.
SizeBudget(r) ==
    /\ pc[r] = "budget"
    /\ admits' = Trimmed(wall) /\ lastSeen' = Seen(lastSeen, wall)
    /\ budget' = [budget EXCEPT ![r] =
                     IF rpm > 0 /\ Len(admits') >= rpm
                     THEN Min({Head(admits') + Window - wall, Window})
                     ELSE 0]
    /\ Goto(r, "first")
    /\ UNCHANGED <<max, rpm, inflight, queue, wait, over, deadline, woken, release,
                   timeVars, slots, sent>>

-----------------------------------------------------------------------------
(***************************************************************************)
(* acquireSlot: one iteration of its loop, at the given wall-clock stamp.  *)
(***************************************************************************)
\* The iteration that takes the slot. The turn passes on: every sleeper wakes.
Admit(r, stamp) ==
    /\ Turn(r) /\ RateOpen(stamp) /\ HasSlot
    /\ IF rpm > 0
       THEN admits' = Counted(stamp) /\ lastSeen' = Seen(lastSeen, stamp)
       ELSE UNCHANGED <<admits, lastSeen>>
    /\ IF r \in Waiters
       THEN queue' = RemoveFirst(queue, r) /\ woken' = Waiters \ {r}
       ELSE UNCHANGED <<queue, woken>>
    /\ inflight' = IF max > 0 THEN inflight + 1 ELSE inflight
    /\ slots' = IF max > 0 THEN slots \union {r} ELSE slots
    /\ release' = [release EXCEPT ![r] =
                     IF wait[r] = 0 /\ over[r] THEN "refund"
                     ELSE IF max > 0 THEN "slot" ELSE "noop"]
    /\ Goto(r, "hold")
    /\ sent' = IF rpm > 0 /\ Len(sent) <= rpm THEN Append(sent, clock) ELSE sent
    /\ UNCHANGED <<max, rpm, timeVars>>

\* What an iteration that does not take it leaves of the window: the count of
\* a request that found no slot is given back.
Passed(r, stamp) ==
    /\ ~(Turn(r) /\ RateOpen(stamp) /\ HasSlot)
    /\ IF Turn(r) /\ rpm > 0
       THEN /\ admits' = IF RateOpen(stamp) THEN Uncounted(stamp) ELSE Trimmed(stamp)
            /\ lastSeen' = Seen(lastSeen, stamp)
       ELSE UNCHANGED <<admits, lastSeen>>
    /\ UNCHANGED <<max, rpm, inflight, release, timeVars, slots, sent>>

\* Mutant of Retire: the turn moves on and nobody is told.
RetireQuietly(r) == queue' = RemoveFirst(queue, r) /\ woken' = woken \ {r}

\* retireLocked: only the head's leaving moves the turn, so only that wakes.
Retire(r) ==
    /\ queue' = RemoveFirst(queue, r)
    /\ woken' = (IF r \in Waiters /\ Head(queue) = r THEN Waiters ELSE woken) \ {r}

\* No budget left: the request gives its place up.
Refuse(r, stamp) ==
    /\ Passed(r, stamp)
    /\ Retire(r)
    /\ Goto(r, "refused")

\* A full queue turns an arrival away.
QueueFull(r, stamp) ==
    /\ r \notin Waiters /\ Len(queue) >= QueueCap
    /\ Passed(r, stamp)
    /\ Goto(r, "refused")
    /\ UNCHANGED <<queue, woken>>

\* Mutant of Sleep: a request that waits again goes to the back of the queue.
SleepAtTheBack(r, stamp) ==
    /\ Passed(r, stamp)
    /\ r \in Waiters \/ Len(queue) < QueueCap
    /\ queue' = Append(RemoveFirst(queue, r), r)
    /\ woken' = woken \ {r}
    /\ Goto(r, "wait")

\* The first wait takes a ticket; a later one keeps it.
Sleep(r, stamp) ==
    /\ Passed(r, stamp)
    /\ IF r \in Waiters THEN UNCHANGED queue
       ELSE Len(queue) < QueueCap /\ queue' = Append(queue, r)
    /\ woken' = woken \ {r}
    /\ Goto(r, "wait")

FirstTry(r) ==
    /\ pc[r] = "first"
    /\ deadline' = [deadline EXCEPT ![r] =
                      [mono |-> clock + budget[r], wall |-> wall + budget[r]]]
    /\ \/ Admit(r, wall)
       \/ budget[r] <= 0 /\ Refuse(r, wall)
       \/ budget[r] > 0 /\ (QueueFull(r, wall) \/ Sleep(r, wall))
    /\ UNCHANGED <<wait, over, budget>>

\* waitFor returned because the lane broadcast.
Woken(r) ==
    /\ pc[r] = "wait" /\ r \in woken
    /\ \/ Admit(r, wall)
       \/ clock >= deadline[r].mono /\ Refuse(r, wall)
       \/ clock < deadline[r].mono /\ Sleep(r, wall)
    /\ UNCHANGED reqVars

\* Mutant of Expired: the timer runs on the wall clock.
ExpiredOnWall(r) ==
    /\ pc[r] = "wait" /\ wall >= deadline[r].wall
    /\ Admit(r, deadline[r].wall) \/ Refuse(r, deadline[r].wall)
    /\ UNCHANGED reqVars

\* waitFor returned because its timer fired: one last try, as of the deadline.
Expired(r) ==
    /\ pc[r] = "wait" /\ clock >= deadline[r].mono
    /\ Admit(r, deadline[r].wall) \/ Refuse(r, deadline[r].wall)
    /\ UNCHANGED reqVars

\* Mutant of Disconnect: the ticket of a request that left stays in the queue.
DisconnectKeepsTicket(r) ==
    /\ pc[r] \in {"first", "wait"}
    /\ woken' = woken \ {r}
    /\ Goto(r, "refused")
    /\ UNCHANGED <<max, rpm, inflight, queue, admits, lastSeen, reqVars, release,
                   timeVars, slots, sent>>

\* The request's own context ended, before its first try or while it waits.
Disconnect(r) ==
    /\ pc[r] \in {"first", "wait"}
    /\ Retire(r)
    /\ Goto(r, "refused")
    /\ UNCHANGED <<max, rpm, inflight, admits, lastSeen, reqVars, release,
                   timeVars, slots, sent>>

\* The caller writes Retry-After, and reading it trims a rated lane.
TellRetryAfter(r) ==
    /\ pc[r] = "refused"
    /\ IF rpm > 0
       THEN admits' = Trimmed(wall) /\ lastSeen' = Seen(lastSeen, wall)
       ELSE UNCHANGED <<admits, lastSeen>>
    /\ Goto(r, "idle") /\ Forget(r)
    /\ UNCHANGED <<max, rpm, inflight, queue, woken, release, timeVars, slots, sent>>

-----------------------------------------------------------------------------
(***************************************************************************)
(* The end of the exchange: the deferred releaseSlot().                    *)
(***************************************************************************)
\* Mutants of GiveSlotBack: the slot is given back twice; twice and unguarded;
\* only while the lane has a limit.
GiveSlotBackTwice ==
    inflight' = Max({inflight - 2, 0}) /\ woken' = Waiters
        /\ UNCHANGED <<admits, lastSeen>>
GiveSlotBackUnguarded ==
    inflight' = inflight - 2 /\ woken' = Waiters /\ UNCHANGED <<admits, lastSeen>>
GiveSlotBackIfLimited ==
    /\ inflight' = IF max = 0 THEN inflight ELSE Max({inflight - 1, 0})
    /\ woken' = Waiters /\ UNCHANGED <<admits, lastSeen>>

\* release gives the slot back and wakes everyone.
GiveSlotBack ==
    /\ inflight' = Max({inflight - 1, 0})
    /\ woken' = Waiters
    /\ UNCHANGED <<admits, lastSeen>>

\* refundAdmission drops the newest stamp instead.
RefundAdmission ==
    /\ IF admits = <<>>
       THEN UNCHANGED <<admits, lastSeen, woken>>
       ELSE /\ admits' = Trim(Front(admits), lastSeen, wall)
            /\ lastSeen' = Seen(lastSeen, wall)
            /\ woken' = Waiters
    /\ UNCHANGED inflight

Finish(r) ==
    /\ pc[r] = "hold"
    /\ \/ release[r] = "slot" /\ GiveSlotBack
       \/ release[r] = "refund" /\ RefundAdmission
       \/ release[r] = "noop" /\ UNCHANGED <<inflight, admits, lastSeen, woken>>
    /\ slots' = slots \ {r}
    /\ release' = [release EXCEPT ![r] = "none"]
    /\ Goto(r, "idle") /\ Forget(r)
    /\ UNCHANGED <<max, rpm, queue, timeVars, sent>>

-----------------------------------------------------------------------------
(***************************************************************************)
(* Time.  A tick is far longer than a goroutine takes to run once it can:  *)
(* none passes while a timer is due.  A tick may fall between any two      *)
(* sections of a call, though, up to the horizon; past it calls run on at  *)
(* once, so that every wait taken ends within MaxTime.                     *)
(***************************************************************************)
TimerDue == \E r \in Request : pc[r] = "wait" /\ clock >= deadline[r].mono
MidCall == \E r \in Request : pc[r] \notin {"idle", "wait", "hold"}

Tick ==
    /\ clock < MaxTime /\ ~TimerDue /\ (clock >= Horizon => ~MidCall)
    /\ clock' = clock + 1 /\ wall' = wall + 1
    /\ sent' = Since(sent, clock' - Window)
    /\ UNCHANGED <<laneVars, pc, reqVars, woken, release, steps, slots>>

\* The wall clock is set, forwards or back; the monotonic clock is not. The
\* history starts again: stamps on the two sides of a step do not compare.
StepWall ==
    /\ steps < MaxSteps /\ steps' = steps + 1
    /\ \E d \in Jump : wall' = wall + d
    /\ sent' = <<>>
    /\ UNCHANGED <<laneVars, pc, reqVars, woken, release, clock, slots>>

\* Nothing is left to do within the bounds.
Rest ==
    /\ clock = MaxTime /\ \A r \in Request : pc[r] = "idle"
    /\ UNCHANGED vars

-----------------------------------------------------------------------------
Move(r) ==
    \/ ReadLimits(r) \/ CheckWindow(r) \/ PeekMax(r) \/ SizeBudget(r)
    \/ FirstTry(r) \/ Woken(r) \/ Expired(r) \/ TellRetryAfter(r)

Next ==
    \/ \E r \in Request :
          \/ Arrive(r) \/ ReadLimits(r) \/ CheckWindow(r) \/ PeekMax(r)
          \/ SizeBudget(r) \/ FirstTry(r) \/ Woken(r) \/ Expired(r)
          \/ Disconnect(r) \/ TellRetryAfter(r) \/ Finish(r)
    \/ Tick \/ StepWall \/ Rest

Spec == Init /\ [][Next]_vars

\* The scheduler runs every goroutine that can run, upstream exchanges end (the
\* gateway's upstream calls carry timeouts), and time passes however busy the
\* lane is: arrivals in one tick never hold it off for ever.
FairSpec ==
    /\ Spec
    /\ \A r \in Request : WF_vars(Move(r)) /\ WF_vars(Finish(r))
    /\ SF_vars(Tick)
-----------------------------------------------------------------------------
(***************************************************************************)
(* Properties.                                                             *)
(***************************************************************************)
\* Every variable stays in the set of values the code can give it.
TypeOK ==
    /\ \E c \in Config : max = c.max
    /\ \E c \in Config : rpm = c.rpm
    /\ inflight \in Nat /\ queue \in Seq(Request)
    /\ admits \in Seq(Int) /\ lastSeen \in Int
    /\ pc \in [Request -> Place]
    /\ wait \in [Request -> Nat] /\ over \in [Request -> BOOLEAN]
    /\ budget \in [Request -> Int]
    /\ deadline \in [Request -> [mono : Int, wall : Int]]
    /\ woken \subseteq Request /\ slots \subseteq Request
    /\ release \in [Request -> {"none", "noop", "slot", "refund"}]
    /\ clock \in Nat /\ wall \in Int /\ steps \in Nat
    /\ sent \in Seq(Nat)

\* The queue holds each sleeping request once and nobody else, so the lane
\* never waits for a turn nobody will use (retireLocked on every way out of
\* acquireSlot), and only sleepers are there to be woken.
QueueIsWaiters ==
    /\ Waiters = {r \in Request : pc[r] = "wait"}
    /\ IsInjective(queue)
    /\ woken \subseteq Waiters

\* The lane never counts fewer slots than there are exchanges holding one, so
\* the cap means requests in flight, whatever resizes and releases interleave.
SlotsCovered ==
    /\ \A r \in slots : pc[r] = "hold"
    /\ Cardinality(slots) <= inflight
    /\ \E c \in Config : inflight <= c.max

\* Lanes on which acquire never takes its refund path for a request that took
\* a slot: every row has a wait, or only one of the two limits is ever set.
Patient ==
    \/ \A c \in Config : c.wait > 0
    \/ \A c \in Config : c.rpm = 0
    \/ \A c \in Config : c.max = 0

\* On a patient lane every slot taken is given back exactly once.
SlotAccounting == Patient => inflight = Cardinality(slots)

\* Why that is so: a call's release is the one of the slot it took unless it was
\* given the refund instead, which takes a row with no wait, a window once full
\* and a slot taken; a patient lane never has the three together.
SlotReleased ==
    /\ \A r \in Request : release[r] = "slot" => r \in slots
    /\ \A r \in Request : pc[r] # "idle" => \E c \in Config : wait[r] = c.wait
    /\ \A r \in Request : over[r] => \E c \in Config : c.rpm > 0
    /\ Patient => \A r \in slots : release[r] = "slot"

\* A lane nobody uses has no slot taken: acquireProviderSlot reserves a slot
\* "for the whole exchange", and the exchanges are over.
IdleLaneEmpty == (\A r \in Request : pc[r] = "idle") => inflight = 0

\* A step that frees a slot or moves the turn never leaves the waiter at the head
\* asleep beside a free slot: every release and every way out of the queue
\* reaches the channel it waits on.
NoLostWakeup ==
    [][LET freed == inflight' < inflight
           moved == Head(queue') # Head(queue)
       IN  (queue # <<>> /\ queue' # <<>> /\ HasSlot' /\ (freed \/ moved))
              => Head(queue') \in woken']_vars

\* While no wall-clock step intervenes, the window holds one stamp for each
\* exchange begun in the last minute and none for a request that was refused
\* (admitLocked, uncountLocked, trimLocked).
WindowCountsExchanges ==
    steps = 0 => Len(Since(admits, wall - Window)) = Len(sent)

\* Lanes on which no admission is ever withdrawn by a refund: every row waits, or
\* none has a rate. refundAdmission withdraws the stamp of an exchange that took
\* place, so on another lane the window may hold less than was begun.
Unrefunded == (\A c \in Config : c.wait > 0) \/ (\A c \in Config : c.rpm = 0)

\* Why the window counts the exchanges: as long as the wall clock is not stepped it
\* runs beside the monotonic one and no timer's stamp differs from it; the stamps
\* ascend, the last ones are those of the exchanges of the last minute, and all
\* before them are out of the window.
ClocksAgree ==
    /\ wall = clock + Window + 1 /\ lastSeen <= wall
    /\ \A r \in Request : pc[r] = "wait" =>
          clock <= deadline[r].mono /\ deadline[r].wall = deadline[r].mono + Window + 1
Earlier == Len(admits) - Len(sent)
StampsAscend ==
    \A i, j \in 1 .. Len(admits) : i <= j => admits[i] <= admits[j] /\ admits[j] <= wall
StampsMatch ==
    /\ Earlier >= 0
    /\ \A i \in 1 .. Len(sent) :
          admits[Earlier + i] = sent[i] + Window + 1 /\ sent[i] > clock - Window
    /\ \A i \in 1 .. Earlier : admits[i] <= wall - Window
WindowInStep ==
    Unrefunded => /\ \A r \in Request : release[r] # "refund"
                  /\ steps = 0 => ClocksAgree /\ StampsAscend /\ StampsMatch

\* No exchange begins that makes the last minute hold more than the rate budget
\* in force, so the vendor never has to answer 429.
RateBudget ==
    [][(Len(sent') > Len(sent) /\ rpm > 0) => Len(sent') <= rpm]_vars

\* Waiters keep the places they took: one that goes back to sleep does not lose
\* its turn, newcomers queue behind, and no waiter is served before another
\* that queued earlier and still waits.
ArrivalOrder ==
    [][\A i, j \in 1 .. Len(queue) : i < j =>
          /\ queue[j] \in ToSet(queue') /\ queue[i] \in ToSet(queue')
                => \E k, l \in 1 .. Len(queue') :
                      k < l /\ queue'[k] = queue[i] /\ queue'[l] = queue[j]
          /\ pc'[queue[j]] = "hold" => pc'[queue[i]] # "wait"]_vars

\* Every request is answered: it starts its exchange or is told to retry, with
\* no wakeup lost on the way that its timer would not make up for.
AnswerEventually ==
    \A r \in Request : pc[r] = "sized" ~> pc[r] \in {"hold", "idle"}

\* The slots are a counting semaphore of the lane's current size.
Account == INSTANCE AccountSlots
             WITH Limit <- {c.max : c \in Config}, limit <- max, active <- slots
AccountSpec == Account!Spec
=============================================================================
