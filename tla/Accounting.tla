------------------------------ MODULE Accounting ------------------------------
(***************************************************************************)
(* How the gateway accounts for what it serves: a key's quota, the usage   *)
(* worker and the request-log batcher together, under the runtime that     *)
(* stops them in order within a budget, or dies, and on the next start     *)
(* rebuilds the counts in memory while already serving.                    *)
(*                                                                         *)
(* Assumed: the database holds an earlier day and the current bucket       *)
(* schema, so the rebuild takes its fast path.                             *)
(***************************************************************************)
EXTENDS KeyQuota, LogBatcher

CONSTANTS MaxMishaps, \* bound: refused writes, missed deadlines and crashes
          MaxLives    \* bound: how often the process starts

ASSUME AccountingAssumption == MaxMishaps \in Nat /\ MaxLives \in Nat \ {0}

VARIABLES runtime,  \* how far Stop is
          hasty,    \* history: Stop gave up on something in this life
          rebuild,  \* how far RebuildUsageStats is
          snapshot, \* what it loaded from the database
          early,    \* history: events counted in memory before it was through
          mishaps,  \* refused writes, missed deadlines and crashes so far
          lives     \* process starts so far

runVars == <<runtime, hasty, rebuild, snapshot, early, mishaps, lives>>
vars == <<usageVars, logVars, quotaVars, runVars>>

TypeOK ==
    /\ UsageTypeOK /\ LogTypeOK /\ QuotaTypeOK
    /\ runtime \in {"up", "draining", "rows", "usage", "database"}
    /\ hasty \in BOOLEAN
    /\ rebuild \in {"due", "loaded", "reset", "done"}
    /\ snapshot \in [Request -> Nat] /\ early \subseteq Request
    /\ mishaps \in Nat /\ lives \in Nat

Init ==
    /\ UsageInit /\ LogInit /\ QuotaInit
    /\ runtime = "up" /\ hasty = FALSE /\ rebuild = "due" /\ snapshot = Zero
    /\ early = {}
    /\ mishaps = 0 /\ lives = 1

Mishap == mishaps < MaxMishaps /\ mishaps' = mishaps + 1

\* A write either commits or, within the bound, is refused.
Writes(ok) ==
    /\ IF ok THEN UNCHANGED mishaps ELSE Mishap
    /\ UNCHANGED <<runtime, hasty, rebuild, snapshot, early, lives>>

Begin(r) ==
    /\ runtime = "up"
    /\ \E img \in BOOLEAN : Arrive(r, img)
    /\ UNCHANGED <<usageVars, logVars, runVars>>

ReadKeyUsage(r) == ReadUsage(r) /\ UNCHANGED <<usageVars, logVars, runVars>>
Decide(r) == (Admit(r) \/ Refuse(r)) /\ UNCHANGED <<usageVars, logVars, runVars>>
Reserve(r) == Hold(r) /\ UNCHANGED <<usageVars, logVars, runVars>>

Exchange(r) ==
    /\ \E outcome \in Outcome : Answer(r, outcome)
    /\ UNCHANGED <<usageVars, logVars, runVars>>

RecordUsage(r) == Counted(r) /\ EnqueueUsage(r) /\ UNCHANGED <<logVars, runVars>>

RecordRow(r) ==
    /\ Logged(r)
    /\ \E ok \in BOOLEAN :
          /\ AppendRow(r, failure[r], ok)
          /\ IF WrittenThrough(failure[r]) THEN Writes(ok) ELSE ok /\ UNCHANGED runVars
    /\ UNCHANGED usageVars

LeaveImage(r) == ReleaseLate(r) /\ UNCHANGED <<usageVars, logVars, runVars>>

Serve(r) == \/ Begin(r) \/ ReadKeyUsage(r) \/ Decide(r) \/ Reserve(r) \/ Exchange(r)
            \/ RecordUsage(r) \/ RecordRow(r) \/ LeaveImage(r)

UsageTaken ==
    /\ ReceiveUsage \/ DrainUsage
    /\ early' = IF rebuild = "done" THEN early ELSE early \union {Head(channel)}
    /\ UNCHANGED <<runtime, hasty, rebuild, snapshot, mishaps, lives, logVars, quotaVars>>
UsageMoves ==
    /\ UsageTimer \/ SeeStop \/ EndDrain
    /\ UNCHANGED <<logVars, quotaVars, runVars>>
Overflow(r) == SendLate(r) /\ UNCHANGED <<logVars, quotaVars, runVars>>
UsageWritten ==
    /\ \E ok \in BOOLEAN : CommitUsage(ok) /\ Writes(ok)
    /\ UNCHANGED <<logVars, quotaVars>>

LogMoves ==
    /\ FlushTick \/ FlushWake \/ FlushStop
    /\ UNCHANGED <<usageVars, quotaVars, runVars>>
LogRead == ReadFlush /\ UNCHANGED <<usageVars, quotaVars, runVars>>
LogWritten ==
    /\ \E ok \in BOOLEAN : Flushed(ok) /\ Writes(ok)
    /\ UNCHANGED <<usageVars, quotaVars>>
ReadWritten ==
    /\ \E ok \in BOOLEAN : ReadFlushed(ok) /\ Writes(ok)
    /\ UNCHANGED <<usageVars, quotaVars>>

-----------------------------------------------------------------------------
\* RebuildUsageStats, begun by Start once it serves: three sections.

LoadDays ==
    /\ rebuild = "due"
    /\ rebuild' = "loaded" /\ snapshot' = daily
    /\ UNCHANGED <<runtime, hasty, early, mishaps, lives, usageVars, logVars, quotaVars>>

ResetStats ==
    /\ rebuild = "loaded"
    /\ rebuild' = "reset" /\ memory' = Zero
    /\ UNCHANGED <<channel, senders, worker, usageStop, batch, daily, usageGiven, overflowed, usageExcused>>
    /\ UNCHANGED <<runtime, hasty, snapshot, early, mishaps, lives, logVars, quotaVars>>

\* BootstrapUsageDays: a day that was loaded replaces the one in memory.
DayLoaded == \E r \in Request : snapshot[r] > 0
\* Mutant of Bootstrapped: what was loaded is thrown away.
NotBootstrapped == memory

Bootstrapped == IF DayLoaded THEN snapshot ELSE memory
BootstrapDays ==
    /\ rebuild = "reset"
    /\ rebuild' = "done" /\ snapshot' = Zero
    /\ memory' = Bootstrapped
    /\ UNCHANGED <<channel, senders, worker, usageStop, batch, daily, usageGiven, overflowed, usageExcused>>
    /\ UNCHANGED <<runtime, hasty, early, mishaps, lives, logVars, quotaVars>>

-----------------------------------------------------------------------------
\* Stop: drain the server, land the rows, land the usage, close the database.

\* A step of Stop that finds its work done, or else runs out of its budget.
Proceed(from, to, landed) ==
    /\ runtime = from /\ runtime' = to
    /\ IF landed THEN UNCHANGED <<hasty, mishaps>> ELSE Mishap /\ hasty' = TRUE
    /\ UNCHANGED <<rebuild, snapshot, early, lives, quotaVars>>

\* The last life within the bound is not stopped.
Stop == lives < MaxLives /\ Proceed("up", "draining", TRUE) /\ UNCHANGED <<usageVars, logVars>>

\* Shutdown returns once every handler is back.
Drained ==
    /\ Proceed("draining", "rows", \A r \in Request : phase[r] \in {"idle", "done", "cut"})
    /\ CloseLog /\ UNCHANGED usageVars

RowsLanded ==
    /\ Proceed("rows", "usage", TRUE) /\ flusher = "stopped"
    /\ StopUsage /\ UNCHANGED logVars

\* A missed deadline makes FlushDeferredWrites return without the writers after it.
RowsLate ==
    /\ Proceed("rows", "database", FALSE) /\ flusher # "stopped"
    /\ UNCHANGED <<usageVars, logVars>>

UsageLanded == Proceed("usage", "database", UsageStopped) /\ UNCHANGED <<usageVars, logVars>>

\* The process is gone; the next one starts with the database only.
Restart(usageExcuse, rowExcuse) ==
    /\ lives' = lives + 1
    /\ runtime' = "up" /\ hasty' = FALSE /\ rebuild' = "due" /\ snapshot' = Zero
    /\ early' = {}
    /\ LoseUsage(usageExcuse) /\ LoseRows(rowExcuse) /\ LoseKey

\* Nothing is excused after an orderly stop but what goroutines outside Stop's order
\* had in hand: the sender's of an event that overflowed, a reader's.
CloseDatabase ==
    /\ runtime = "database"
    /\ Restart(IF hasty THEN Request ELSE overflowed, IF hasty THEN Request ELSE reading)
    /\ UNCHANGED mishaps

\* A crash may cost what was held in memory; the row of a failure never is.
Crash == lives < MaxLives /\ Mishap /\ Restart(Request, {r \in Request : ~failure[r]})

Next ==
    \/ \E r \in Request : Serve(r) \/ Overflow(r)
    \/ UsageTaken \/ UsageMoves \/ UsageWritten \/ LogMoves \/ LogRead \/ LogWritten \/ ReadWritten
    \/ LoadDays \/ ResetStats \/ BootstrapDays
    \/ Stop \/ Drained \/ RowsLanded \/ RowsLate \/ UsageLanded
    \/ CloseDatabase \/ Crash

Spec == Init /\ [][Next]_vars

-----------------------------------------------------------------------------
\* What is reserved is the prompts of the requests that have still to release
\* (quotaReservations: every hold is given back once, on either path out).
ReservationsMatch == reserved = Prompt * Cardinality(holders)

\* A request is refused for tokens only if what the key has really spent, what it
\* really has in flight and this prompt exceed its limit, and for cost only if it
\* was really spent (no event counts twice, no reservation outlives its request).
RefusalJustified ==
    [][\A r \in Request : phase[r] = "read" /\ phase'[r] = "refused" =>
          LET Once == [q \in Request |-> 1]
              tokens == Total(Once, "tokens")
              held == Prompt * (Cardinality(holders) + 1)
          IN /\ OverTokens(r) => tokens + held > TokenLimit
             /\ OverCost(r) => Total(Once, "cost") >= CostLimit]_vars

\* Once the worker has nothing more to do for an event, the counts in memory are not
\* behind the database, and hold the event as often as it does unless the event was
\* lost: with a refused batch, which is not counted back, or with the process that
\* held it.  Events of an earlier process that were stored are held to it, and those of
\* the present one.  Left out: what was counted while the rebuild was replacing the
\* counts.
MemoryMatchesDaily ==
    \A r \in usageGiven \ (Unstored \union early) : rebuild = "done" =>
        /\ daily[r] <= memory[r]
        /\ r \notin usageExcused => memory[r] = daily[r]

\* When the batcher's loop is gone no row is left waiting for it: a late Append
\* writes through (request_log_batcher.go:77-79).
NoRowParked == flusher = "stopped" => pending = {}

\* A usage event reaches the database once, and is lost only with the process that
\* held it as it crashed, with a refused batch, to a stop out of time, or in the
\* goroutine of an overflow.
UsageLands == UsageSink!Spec

\* A row reaches the database once, and is lost only to a refused write, a stop out
\* of time, a reader that held it when the database closed, or, if it is not the
\* row of a failure, a crash of the process that held it.
RowsLand == RowSink!Spec
=============================================================================
