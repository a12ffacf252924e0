----------------------------- MODULE AlertEngine -----------------------------
(***************************************************************************)
(* The monitoring engine: one row per alert in the database, the sustain   *)
(* and recovery streaks in memory, and what one observation of a tick does *)
(* to an alert.  Evaluate reads every row first and writes whole rows      *)
(* afterwards, while an operator may acknowledge or ignore an alert.       *)
(*                                                                         *)
(* Times are kept as ages in minutes, each up to the threshold the code    *)
(* compares it with.                                                       *)
(***************************************************************************)
EXTENDS Lists, SequencesExt

CONSTANTS Alert,       \* fingerprints: a rule and its target
          Channel,     \* notification channels
          Severity,    \* ranks an observation may carry: 1 P2, 2 P1, 3 P0
          Sustain,     \* minutes a condition holds before it fires
          Grace,       \* minutes without data before a firing alert is resolved
          Cooldown,    \* minutes between reminders
          FlapWindow,  \* minutes within which three flips suppress
          Suppression, \* minutes notifications stay suppressed
          Short,       \* a recovery is told only of an alert that lasted so long
          MaxEvents    \* bound: events in the timeline

ASSUME EngineAssumption ==
    /\ Severity \subseteq 1..3
    /\ {Sustain, Grace, Cooldown, FlapWindow, Suppression, Short, MaxEvents} \subseteq Nat

Never == -1
Age(cap) == Never..cap
Older(x, cap) == IF x = Never \/ x = cap THEN x ELSE x + 1

Row == [status: {"none", "firing", "resolved"}, sev: 1..3,
        disp: {"open", "acknowledged", "ignored"}, notified: Age(Cooldown),
        lasted: 0..Short, unavailable: Age(Grace + 1), suppressed: 0..Suppression]

NewRow(sev) ==
    [status |-> "firing", sev |-> sev, disp |-> "open", notified |-> Never,
     lasted |-> 0, unavailable |-> Never, suppressed |-> 0]
NoRow == [NewRow(1) EXCEPT !.status = "none"]

Aged(row) ==
    [row EXCEPT !.notified = Older(@, Cooldown), !.lasted = Older(@, Short),
                !.unavailable = Older(@, Grace + 1),
                !.suppressed = IF @ = 0 THEN 0 ELSE @ - 1]

Event == [alert: Alert, sev: 1..3, resolved: BOOLEAN,
          summary: {"", "pending", "skipped", "suppressed", "sent", "partial", "failed"},
          push: [Channel -> {"none", "sent", "failed", "skipped"}]]

Transition == [alert: Alert, state: Row, ev: 1..MaxEvents, sev: 1..3,
               kind: {"firing", "upgraded", "reminder", "resolved"}]

VARIABLES rows,    \* [Alert -> Row], the database
          events,  \* the timeline, the database; an event's id is its index
          loaded,  \* the rows Evaluate read and has not applied
          left,    \* alerts this tick has still to apply
          since,   \* age of the first hit of a sustain window, in memory
          clean,   \* whether the last tick was the first clean one, in memory
          flaps,   \* ages of the last flips, in memory
          todo     \* transitions not yet dispatched

engineVars == <<rows, events, loaded, left, since, clean, flaps, todo>>

EngineTypeOK ==
    /\ rows \in [Alert -> Row] /\ loaded \in [Alert -> Row]
    /\ events \in Seq(Event) /\ Len(events) <= MaxEvents
    /\ left \subseteq Alert
    /\ since \in [Alert -> Age(Sustain)] /\ clean \in [Alert -> BOOLEAN]
    /\ \A a \in Alert : flaps[a] \in Seq(0..FlapWindow) /\ Len(flaps[a]) <= 3
    /\ todo \in Seq(Transition)

EngineInit ==
    /\ rows = [a \in Alert |-> NoRow] /\ loaded = rows
    /\ events = <<>> /\ todo = <<>> /\ left = {}
    /\ since = [a \in Alert |-> Never]
    /\ clean = [a \in Alert |-> FALSE]
    /\ flaps = [a \in Alert |-> <<>>]

\* A minute passes and Evaluate loads the rows.
Load ==
    /\ rows' = [a \in Alert |-> Aged(rows[a])] /\ loaded' = rows'
    /\ since' = [a \in Alert |-> Older(since[a], Sustain)]
    /\ flaps' = [a \in Alert |->
                   [i \in DOMAIN flaps[a] |-> Older(flaps[a][i], FlapWindow)]]
    /\ left' = Alert
    /\ UNCHANGED <<events, clean, todo>>

Save(a, row) == rows' = [rows EXCEPT ![a] = row]
Streak(a, s, c) == since' = [since EXCEPT ![a] = s] /\ clean' = [clean EXCEPT ![a] = c]

Tell(a, row, kind, ev) ==
    todo' = Append(todo, [alert |-> a, state |-> row, ev |-> ev, sev |-> row.sev, kind |-> kind])

Emit(a, row, kind) ==
    /\ Len(events) < MaxEvents
    /\ events' = Append(events, [alert |-> a, sev |-> row.sev, resolved |-> kind = "resolved",
                                 summary |-> "", push |-> [c \in Channel |-> "none"]])
    /\ Tell(a, row, kind, Len(events) + 1)

\* recordFlap: the third flip within the window suppresses notifications.
Flips(a) == LET kept == Kept(flaps[a], 0 .. FlapWindow - 1)
            IN Append(IF Len(kept) = 3 THEN Tail(kept) ELSE kept, 0)
Flapped(a, row) == IF Len(Flips(a)) = 3 THEN [row EXCEPT !.suppressed = Suppression] ELSE row
Flip(a, row, kind) ==
    /\ flaps' = [flaps EXCEPT ![a] = Flips(a)]
    /\ Save(a, Flapped(a, row))
    /\ Emit(a, Flapped(a, row), kind)

Firing(a) == loaded[a].status = "firing"
Latest(a) == SelectLastInSeq(events, LAMBDA e : e.alert = a)

\* No data: a firing alert is resolved once the grace has passed.
NoData(a) ==
    LET row == loaded[a] IN
    /\ Streak(a, Never, FALSE) /\ UNCHANGED flaps
    /\ \/ /\ Firing(a) => row.unavailable \in 0..Grace
          /\ UNCHANGED <<rows, events, todo>>
       \/ /\ Firing(a) /\ row.unavailable = Never
          /\ Save(a, [row EXCEPT !.unavailable = 0])
          /\ UNCHANGED <<events, todo>>
       \/ /\ Firing(a) /\ row.unavailable > Grace
          /\ Save(a, [row EXCEPT !.status = "resolved"])
          /\ Emit(a, [row EXCEPT !.status = "resolved"], "resolved")

ReminderDue(row) ==
    row.disp = "open" /\ row.suppressed = 0 /\ row.notified = Cooldown

\* A firing alert hit again: its severity may rise, or a reminder be due.
HitAgain(a, sev) ==
    LET row == [loaded[a] EXCEPT !.unavailable = Never]
        upgraded == [row EXCEPT !.sev = sev] IN
    /\ Firing(a) /\ Streak(a, Never, FALSE) /\ UNCHANGED flaps
    /\ \/ /\ sev > row.sev
          /\ Save(a, upgraded) /\ Emit(a, upgraded, "upgraded")
       \/ /\ sev <= row.sev /\ Save(a, row) /\ UNCHANGED events
          /\ IF ReminderDue(row) THEN Tell(a, row, "reminder", Latest(a)) ELSE UNCHANGED todo

\* Two clean ticks in a row resolve a firing alert.
Clean(a) ==
    /\ Firing(a)
    /\ \/ /\ ~clean[a] /\ Streak(a, since[a], TRUE)
          /\ UNCHANGED <<rows, events, flaps, todo>>
       \/ /\ clean[a] /\ Streak(a, Never, FALSE)
          /\ Flip(a, [loaded[a] EXCEPT !.status = "resolved", !.disp = "open"], "resolved")

\* An alert that is not firing: a sustained condition fires, with a new row.
Hit(a, sev) ==
    LET began == IF since[a] = Never THEN 0 ELSE since[a] IN
    /\ ~Firing(a)
    /\ \/ /\ began < Sustain /\ Streak(a, began, FALSE)
          /\ UNCHANGED <<rows, events, flaps, todo>>
       \/ /\ began >= Sustain /\ Streak(a, Never, FALSE)
          /\ Flip(a, NewRow(sev), "firing")

Quiet(a) == /\ ~Firing(a) /\ Streak(a, Never, FALSE)
            /\ UNCHANGED <<rows, events, flaps, todo>>

\* Evaluate applies what it observed of one alert.
Apply(a) ==
    /\ a \in left /\ left' = left \ {a}
    /\ loaded' = [loaded EXCEPT ![a] = NoRow]
    /\ \/ NoData(a) \/ Clean(a) \/ Quiet(a)
       \/ \E sev \in Severity : HitAgain(a, sev) \/ Hit(a, sev)

\* The console acknowledges or ignores a firing alert: one column.
Dispose(a, disp) ==
    /\ rows[a].status = "firing"
    /\ rows' = [rows EXCEPT ![a].disp = disp]
    /\ UNCHANGED <<events, loaded, left, since, clean, flaps, todo>>

\* A restart keeps the database and loses the streaks.
EngineRestart ==
    /\ left' = {} /\ todo' = <<>> /\ loaded' = [a \in Alert |-> NoRow]
    /\ since' = [a \in Alert |-> Never]
    /\ clean' = [a \in Alert |-> FALSE]
    /\ flaps' = [a \in Alert |-> <<>>]
    /\ UNCHANGED <<rows, events>>
==============================================================================
