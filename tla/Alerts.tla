------------------------------- MODULE Alerts --------------------------------
(***************************************************************************)
(* The monitoring tick: evaluate, dispatch each transition, flush the      *)
(* digests.  A P0 is sent at once; a P1 waits in the digest of each        *)
(* channel, which leaves when its window is over and outside quiet hours.  *)
(* Beside the tick an operator acknowledges, ignores and retries, channels *)
(* are edited, and the process restarts, losing the digests.               *)
(***************************************************************************)
EXTENDS AlertEngine

CONSTANTS MinSeverity,    \* [Channel -> rank]: what a channel asks for
          DigestMinutes,  \* how long a digest collects
          Day, QuietEnd,  \* minutes of a day, and of it the first QuietEnd are quiet
          RecoveryNotify, \* whether recoveries are told
          MaxMoves        \* bound: operator calls, channel edits and restarts

ASSUME AlertsAssumption ==
    /\ MinSeverity \in [Channel -> 1..3]
    /\ DigestMinutes \in Nat \ {0} /\ Day \in Nat /\ QuietEnd \in 0..Day - 1
    /\ RecoveryNotify \in BOOLEAN
    /\ MaxMoves \in Nat

VARIABLES clock,   \* minute of the day
          digest,  \* [Channel -> Seq(Transition)], in memory
          due,     \* minutes until the digest may leave
          channel, \* [Channel -> on, off or gone], the dispatcher's copy
          told,    \* history: <<event, channel>> a delivered message spoke of
          moves    \* operator calls, channel edits and restarts so far

dispatchVars == <<clock, digest, due, channel, told, moves>>
vars == <<engineVars, dispatchVars>>

TypeOK ==
    /\ EngineTypeOK
    /\ clock \in 0..Day - 1
    /\ digest \in [Channel -> Seq(Transition)] /\ due \in [Channel -> 0..DigestMinutes]
    /\ channel \in [Channel -> {"on", "off", "gone"}]
    /\ told \subseteq (1..MaxEvents) \X Channel
    /\ moves \in 0..MaxMoves

Init ==
    /\ EngineInit
    /\ clock = 0
    /\ digest = [c \in Channel |-> <<>>] /\ due = [c \in Channel |-> 0]
    /\ channel = [c \in Channel |-> "on"] /\ told = {}
    /\ moves = 0

P0 == 3
P1 == 2
Evaluated == left = {}
Dispatched == Evaluated /\ todo = <<>>
InQuietHours == clock < QuietEnd
Accepts(c, sev) == channel[c] = "on" /\ sev >= MinSeverity[c]
Targets(sev) == {c \in Channel : Accepts(c, sev)}

\* What the list view shows of an event, from its rows per channel.
Aggregate(push) ==
    LET some(st) == \E c \in Channel : push[c] = st IN
    CASE some("sent") /\ some("failed") -> "partial"
      [] some("sent") /\ ~some("failed") -> "sent"
      [] some("failed") /\ ~some("sent") -> "failed"
      [] OTHER -> "skipped"

Marked(ev, summary) == [events EXCEPT ![ev].summary = summary]

\* The rows of `pushes`, [event -> [channel -> status]], and the view they give.
Recorded(pushes) ==
    [i \in DOMAIN events |->
        IF i \notin DOMAIN pushes THEN events[i]
        ELSE LET push == [c \in Channel |-> IF c \in DOMAIN pushes[i] THEN pushes[i][c]
                                           ELSE events[i].push[c]]
             IN [events[i] EXCEPT !.push = push, !.summary = Aggregate(push)]]
Outcome(ok) == IF ok THEN "sent" ELSE "failed"

FlushDue(c) == /\ channel[c] # "gone" /\ digest[c] # <<>>
               /\ due[c] = 0 /\ ~InQuietHours

Idle == Dispatched /\ \A c \in Channel : ~FlushDue(c)

\* A minute passes and a tick begins.
Tick ==
    /\ Idle
    /\ clock' = (clock + 1) % Day
    /\ due' = [c \in Channel |-> IF due[c] = 0 THEN 0 ELSE due[c] - 1]
    /\ digest' = [c \in Channel |->
                    [i \in DOMAIN digest[c] |-> [digest[c][i] EXCEPT !.state = Aged(@)]]]
    /\ Load
    /\ UNCHANGED <<channel, told, moves>>

Evaluate(a) ==
    /\ Apply(a)
    /\ UNCHANGED <<clock, digest, due, channel, told, moves>>

\* Why Dispatch tells nobody of a transition, and what the event then shows.
Withheld(tr) ==
    LET row == tr.state IN
    CASE tr.sev < P1 -> "skipped"
      [] tr.sev >= P1 /\ (row.disp = "ignored" \/ row.suppressed > 0) -> "suppressed"
      [] OTHER ->
           IF \/ tr.kind = "firing" /\ row.notified \in 0..Cooldown - 1
              \/ tr.kind = "resolved" /\ (~RecoveryNotify \/ row.lasted < Short)
              \/ Targets(tr.sev) = {}
           THEN "skipped" ELSE "no"

\* A P1 joins the digest of each channel; the first entry sets the window.
Enqueue(tr) ==
    LET to == Targets(P1) IN
    /\ digest' = [c \in Channel |-> IF c \in to THEN Append(digest[c], tr) ELSE digest[c]]
    /\ due' = [c \in Channel |->
                 IF c \in to /\ digest[c] = <<>> THEN DigestMinutes ELSE due[c]]
    /\ events' = Marked(tr.ev, "pending")
    /\ UNCHANGED <<rows, told>>

\* A P0 is sent to each channel at once; the row is written back as of Evaluate.
SendNow(tr, ok) ==
    LET to == Targets(P0)
        delivered == {c \in to : ok[c]} IN
    /\ events' = Recorded([i \in {tr.ev} |-> [c \in to |-> Outcome(ok[c])]])
    /\ told' = told \union {<<tr.ev, c>> : c \in delivered}
    /\ rows' = IF delivered # {} /\ tr.kind # "resolved"
               THEN [rows EXCEPT ![tr.alert] = [tr.state EXCEPT !.notified = 0]]
               ELSE rows
    /\ UNCHANGED <<digest, due>>

Dispatch ==
    /\ Evaluated /\ todo # <<>>
    /\ LET tr == Head(todo) IN
         \/ /\ Withheld(tr) # "no"
            /\ events' = Marked(tr.ev, Withheld(tr))
            /\ UNCHANGED <<rows, digest, due, told>>
         \/ Withheld(tr) = "no" /\ tr.sev = P1 /\ Enqueue(tr)
         \/ /\ Withheld(tr) = "no" /\ tr.sev = P0
            /\ \E ok \in [Channel -> BOOLEAN] : SendNow(tr, ok)
    /\ todo' = Tail(todo)
    /\ UNCHANGED <<loaded, left, since, clean, flaps, clock, channel, moves>>

\* digestGroup: one line per alert; a recovery replaces the firing before it.
Collapsed(group, ids) == [group EXCEPT !.collapsed = @ \union ids]
FoldUnmarked(group, tr) ==
    [group EXCEPT !.lines = {l \in @ : l.alert # tr.alert \/ l.kind = "resolved"} \union {tr}]
Fold(group, tr) ==
    LET same == {l \in group.lines : l.alert = tr.alert}
        open == {l \in same : l.kind # "resolved"} IN
    IF open # {}
    THEN Collapsed([group EXCEPT !.lines = (@ \ open) \union {tr}], {l.ev : l \in open})
    ELSE IF tr.kind = "resolved" /\ same # {} THEN Collapsed(group, {tr.ev})
    ELSE [group EXCEPT !.lines = @ \union {tr}]
Group(entries) ==
    LET upTo[i \in 0 .. Len(entries)] ==
            IF i = 0 THEN [lines |-> {}, collapsed |-> {}] ELSE Fold(upTo[i - 1], entries[i])
    IN upTo[Len(entries)]

Queued(c) == {digest[c][i].ev : i \in DOMAIN digest[c]}

\* One digest leaves, and with it every entry, whether or not it was delivered.
Mail(c, ok) ==
    LET group == Group(digest[c])
        firing == {l \in group.lines : l.kind # "resolved" /\ l.ev \notin group.collapsed} IN
    /\ Accepts(c, P1)
    /\ events' = Recorded([i \in Queued(c) |->
                    [x \in {c} |-> IF i \in group.collapsed THEN "skipped" ELSE Outcome(ok)]])
    /\ told' = IF ok THEN told \union {<<l.ev, c>> : l \in group.lines} ELSE told
    /\ rows' = [a \in Alert |->
                  IF ok /\ \E l \in firing : l.alert = a
                  THEN [(CHOOSE l \in firing : l.alert = a).state EXCEPT !.notified = 0]
                  ELSE rows[a]]
    /\ due' = [due EXCEPT ![c] = DigestMinutes]

\* The channel stopped matching: its entries are skipped.
Reject(c) ==
    /\ ~Accepts(c, P1)
    /\ events' = Recorded([i \in Queued(c) |-> [x \in {c} |-> "skipped"]])
    /\ UNCHANGED <<rows, told, due>>

FlushRetried(c) ==
    /\ Dispatched /\ FlushDue(c)
    /\ \/ Reject(c) /\ digest' = [digest EXCEPT ![c] = <<>>]
       \/ \E ok \in BOOLEAN : /\ Mail(c, ok)
                              /\ digest' = IF ok THEN [digest EXCEPT ![c] = <<>>] ELSE digest
    /\ UNCHANGED <<loaded, left, since, clean, flaps, todo, clock, channel, moves>>

Flush(c) ==
    /\ Dispatched /\ FlushDue(c)
    /\ Reject(c) \/ \E ok \in BOOLEAN : Mail(c, ok)
    /\ digest' = [digest EXCEPT ![c] = <<>>]
    /\ UNCHANGED <<loaded, left, since, clean, flaps, todo, clock, channel,
                   moves>>

Move == moves < MaxMoves /\ moves' = moves + 1

Ack(a) == /\ Move /\ Dispose(a, "acknowledged")
          /\ UNCHANGED <<clock, digest, due, channel, told>>
Ignore(a) == /\ Move /\ Dispose(a, "ignored")
             /\ UNCHANGED <<clock, digest, due, channel, told>>

\* The console sends one event to one channel again.
RetryPush(ev, c, ok) ==
    /\ Move /\ channel[c] # "gone"
    /\ events' = Recorded([i \in {ev} |-> [x \in {c} |-> Outcome(ok)]])
    /\ told' = IF ok THEN told \union {<<ev, c>>} ELSE told
    /\ UNCHANGED <<rows, loaded, left, since, clean, flaps, todo, clock, digest, due, channel>>

\* Between ticks the dispatcher takes over an edited channel.
Reload(c, st) ==
    /\ Idle /\ channel[c] \notin {"gone", st}
    /\ Move
    /\ channel' = [channel EXCEPT ![c] = st]
    /\ UNCHANGED <<engineVars, clock, digest, due, told>>

Restart ==
    /\ Move
    /\ EngineRestart
    /\ digest' = [c \in Channel |-> <<>>] /\ due' = [c \in Channel |-> 0]
    /\ UNCHANGED <<clock, channel, told>>

Next ==
    \/ Tick \/ Dispatch \/ Restart
    \/ \E a \in Alert : Evaluate(a) \/ Ack(a) \/ Ignore(a)
    \/ \E c \in Channel : \/ Flush(c)
                          \/ \E st \in {"on", "off", "gone"} : Reload(c, st)
                          \/ \E ok \in BOOLEAN, ev \in DOMAIN events : RetryPush(ev, c, ok)

\* The ticker never stops, and a tick runs to its end.
Fairness ==
    /\ WF_vars(Tick) /\ WF_vars(\E a \in Alert : Evaluate(a))
    /\ WF_vars(Dispatch) /\ WF_vars(\E c \in Channel : Flush(c))

Spec == Init /\ [][Next]_vars /\ Fairness

-----------------------------------------------------------------------------
\* What an event is recorded as sent to was told of it, and an alert that
\* counts as notified was told of to someone: neither a failed send nor an entry
\* a recovery or a reminder folded away is taken for a delivered one (flushDigests).
RecordedWasTold ==
    /\ \A i \in DOMAIN events, c \in Channel :
          events[i].push[c] = "sent" => <<i, c>> \in told
    /\ \A a \in Alert :
          rows[a].status # "none" /\ rows[a].notified # Never =>
             \E i \in DOMAIN events, c \in Channel :
                events[i].alert = a /\ ~events[i].resolved /\ <<i, c>> \in told

\* A digest that holds entries leaves: reminders and upgrades that join it do not
\* hold it back, and quiet hours only delay it; a deleted channel's never does.
DigestLeaves ==
    \A c \in Channel : digest[c] # <<>> ~> digest[c] = <<>> \/ channel[c] = "gone"
==============================================================================
