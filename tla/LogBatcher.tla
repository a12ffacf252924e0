------------------------------ MODULE LogBatcher ------------------------------
(***************************************************************************)
(* The request-log batcher: rows of successful requests wait in memory for *)
(* a flush by the loop (tick, wake or stop) or by whoever reads the log;   *)
(* rows of failures, and rows that come after the close, are written by    *)
(* the request itself.  A row is named by its request.                     *)
(***************************************************************************)
EXTENDS Tally

CONSTANT LogMax \* maxBatch: rows that make the batcher wake its loop

ASSUME LogAssumption == LogMax \in Nat \ {0}

VARIABLES pending,    \* rows queued
          closed,     \* late rows are to be written through
          logStop,    \* stop has been closed
          wake,       \* the wake channel holds a token
          flusher,    \* what the loop is doing
          flushing,   \* the rows the loop has taken and not written
          reader,     \* what a reader of the log, in the middle of its Flush, is doing
          reading,    \* the rows it has taken and not written
          rows,       \* how often each row is in request_logs
          rowsGiven,  \* history: rows handed in
          rowsExcused \* history: rows something excused the batcher from

logVars == <<pending, closed, logStop, wake, flusher, flushing, reader, reading,
             rows, rowsGiven, rowsExcused>>

LogTypeOK ==
    /\ pending \subseteq Request /\ closed \in BOOLEAN /\ logStop \in BOOLEAN
    /\ wake \in BOOLEAN
    /\ flusher \in {"idle", "writing", "last", "stopped"} /\ flushing \subseteq Request
    /\ reader \in {"idle", "writing"} /\ reading \subseteq Request
    /\ rows \in [Request -> Nat]
    /\ rowsGiven \subseteq Request /\ rowsExcused \subseteq Request

\* The rows the process holds.
Unwritten == pending \union flushing \union reading

LogInit ==
    /\ pending = {} /\ closed = FALSE /\ logStop = FALSE /\ wake = FALSE
    /\ flusher = "idle" /\ flushing = {} /\ reader = "idle" /\ reading = {}
    /\ rows = Zero /\ rowsGiven = {} /\ rowsExcused = {}

\* A transaction over the rows of S: all of them or, refused, none and never again.
WriteRows(S, ok) ==
    /\ rows' = IF ok THEN AddAll(rows, S) ELSE rows
    /\ rowsExcused' = rowsExcused \union IF ok THEN {} ELSE S

\* Mutant of WrittenThrough: a late row is queued.
WrittenThroughFailure(failure) == failure

\* A row the request writes itself: a failure's, or one that comes after the close.
WrittenThrough(failure) == failure \/ closed

\* Append.  ok matters only to a row that is written through.
AppendRow(r, failure, ok) ==
    /\ rowsGiven' = rowsGiven \union {r}
    /\ IF WrittenThrough(failure)
         THEN WriteRows({r}, ok) /\ UNCHANGED <<pending, wake>>
         ELSE /\ pending' = pending \union {r}
              /\ wake' = (wake \/ Cardinality(pending') >= LogMax)
              /\ UNCHANGED <<rows, rowsExcused>>
    /\ UNCHANGED <<closed, logStop, flusher, flushing, reader, reading>>

\* The loop's select: a tick, a wake or the stop, and the first half of its Flush.
FlushTick ==
    /\ flusher = "idle" /\ pending # {}
    /\ flushing' = pending /\ pending' = {} /\ flusher' = "writing"
    /\ UNCHANGED <<closed, logStop, wake, reader, reading, rows, rowsGiven, rowsExcused>>

FlushWake ==
    /\ flusher = "idle" /\ wake
    /\ wake' = FALSE
    /\ flushing' = pending /\ pending' = {}
    /\ flusher' = IF pending = {} THEN "idle" ELSE "writing"
    /\ UNCHANGED <<closed, logStop, reader, reading, rows, rowsGiven, rowsExcused>>

\* Mutant of FlushStop: the loop returns without a flush.
StopAtOnce ==
    /\ flusher = "idle" /\ logStop
    /\ flusher' = "stopped"
    /\ UNCHANGED <<pending, closed, logStop, wake, flushing, reader, reading, rows, rowsGiven, rowsExcused>>

FlushStop ==
    /\ flusher = "idle" /\ logStop
    /\ flushing' = pending /\ pending' = {}
    /\ flusher' = IF pending = {} THEN "stopped" ELSE "last"
    /\ UNCHANGED <<closed, logStop, wake, reader, reading, rows, rowsGiven, rowsExcused>>

Flushed(ok) ==
    /\ flusher \in {"writing", "last"}
    /\ WriteRows(flushing, ok)
    /\ flushing' = {} /\ flusher' = IF flusher = "last" THEN "stopped" ELSE "idle"
    /\ UNCHANGED <<pending, closed, logStop, wake, reader, reading, rowsGiven>>

\* Flush by a reader of the log, on its own goroutine.
ReadFlush ==
    /\ reader = "idle" /\ pending # {}
    /\ reading' = pending /\ pending' = {} /\ reader' = "writing"
    /\ UNCHANGED <<closed, logStop, wake, flusher, flushing, rows, rowsGiven, rowsExcused>>

ReadFlushed(ok) ==
    /\ reader = "writing"
    /\ WriteRows(reading, ok)
    /\ reading' = {} /\ reader' = "idle"
    /\ UNCHANGED <<pending, closed, logStop, wake, flusher, flushing, rowsGiven>>

\* CloseContext, as far as the signal.
CloseLog ==
    /\ closed' = TRUE /\ logStop' = TRUE
    /\ UNCHANGED <<pending, wake, flusher, flushing, reader, reading, rows, rowsGiven, rowsExcused>>

\* The process ends and all but the database goes: of what it held, the rows of
\* `excuse` may be lost.
LoseRows(excuse) ==
    /\ pending' = {} /\ closed' = FALSE /\ logStop' = FALSE /\ wake' = FALSE
    /\ flusher' = "idle" /\ flushing' = {} /\ reader' = "idle" /\ reading' = {}
    /\ rowsExcused' = rowsExcused \union (excuse \intersect Unwritten)
    /\ UNCHANGED <<rows, rowsGiven>>

\* Where a row is, as DurableSink tells it.
RowPlace == [r \in Request |->
    IF rows[r] > 1 THEN "twice"
    ELSE IF rows[r] = 1 THEN "stored"
    ELSE IF r \notin rowsGiven THEN "outside"
    ELSE IF r \in Unwritten THEN "held" ELSE "lost"]
RowSink == INSTANCE DurableSink WITH Record <- Request, place <- RowPlace,
                                     excused <- rowsExcused
=============================================================================
