-------------------------- MODULE AccountingProofs --------------------------
(***************************************************************************)
(* Proofs about Accounting, for every set of requests, every limit, batch  *)
(* size and channel capacity, and every number of crashes and restarts.    *)
(***************************************************************************)
EXTENDS Accounting, ListFacts, FiniteSetTheorems, SequenceTheorems, TLAPS

-----------------------------------------------------------------------------
(***************************************************************************)
(* Reservations.                                                           *)
(***************************************************************************)
\* The requests that hold a reservation are the ones whose flow has not come to
\* its release, and what is reserved is their prompts.
HoldersMatch ==
    /\ phase \in [Request -> Phase] /\ image \in [Request -> BOOLEAN]
    /\ holders \subseteq Request
    /\ ReservationsMatch
    /\ \A r \in Request :
          /\ phase[r] \in {"flying", "appended"} => r \in holders
          /\ phase[r] \in {"idle", "admitting", "read", "cleared"} => r \notin holders

\* One prompt more, or one less, in the product of the count and the prompt.
LEMMA OneMore ==
    ASSUME NEW H \in SUBSET Request, NEW r \in Request \ H
    PROVE  Prompt * Cardinality(H \union {r}) = Prompt * Cardinality(H) + Prompt
<1>1. IsFiniteSet(H)  BY RequestsFinite, FS_Subset
<1>2. Cardinality(H) \in Nat /\ Cardinality(H \union {r}) = Cardinality(H) + 1
  BY <1>1, FS_CardinalityType, FS_AddElement
<1> QED  BY <1>2, QuotaAssumption

LEMMA OneLess ==
    ASSUME NEW H \in SUBSET Request, NEW r \in H
    PROVE  /\ Prompt * Cardinality(H) \in Nat
           /\ Prompt * Cardinality(H \ {r})
                = IF Prompt * Cardinality(H) > Prompt THEN Prompt * Cardinality(H) - Prompt ELSE 0
<1>1. H = (H \ {r}) \union {r}  OBVIOUS
<1>2. Prompt * Cardinality(H) = Prompt * Cardinality(H \ {r}) + Prompt
  BY <1>1, OneMore
<1>3. Prompt * Cardinality(H \ {r}) \in Nat
  <2>1. Cardinality(H \ {r}) \in Nat
    BY RequestsFinite, FS_Subset, FS_CardinalityType
  <2> QED  BY <2>1, QuotaAssumption
<1> QED  BY <1>2, <1>3, QuotaAssumption

LEMMA ReleaseMatches ==
    ASSUME HoldersMatch, NEW r \in holders, Release(r)
    PROVE  ReservationsMatch' /\ holders' = holders \ {r}
BY OneLess DEF HoldersMatch, ReservationsMatch, Release

LEMMA HoldersInit == Init => HoldersMatch
<1> SUFFICES ASSUME Init PROVE HoldersMatch  OBVIOUS
<1>1. Prompt * Cardinality({}) = 0  BY FS_EmptySet, QuotaAssumption
<1> QED  BY <1>1 DEF Init, QuotaInit, HoldersMatch, ReservationsMatch, Phase

LEMMA HoldersStep == HoldersMatch /\ [Next]_vars => HoldersMatch'
<1> SUFFICES ASSUME HoldersMatch, [Next]_vars PROVE HoldersMatch'  OBVIOUS
<1> USE DEF HoldersMatch, Phase
<1>1. ASSUME NEW r \in Request, Begin(r) PROVE HoldersMatch'
  BY <1>1 DEF Begin, Arrive, ReservationsMatch
<1>2. ASSUME NEW r \in Request, ReadKeyUsage(r) \/ Decide(r) PROVE HoldersMatch'
  BY <1>2 DEF ReadKeyUsage, ReadUsage, Decide, Admit, Refuse, ReservationsMatch
<1>3. ASSUME NEW r \in Request, Reserve(r) PROVE HoldersMatch'
  BY <1>3, OneMore DEF Reserve, Hold, ReservationsMatch
<1>4. ASSUME NEW r \in Request, Exchange(r) PROVE HoldersMatch'
  <2>1. CASE image[r]
    BY <1>4, <2>1 DEF Exchange, Answer, ReservationsMatch
  <2>2. CASE ~image[r]
    BY <1>4, <2>2, ReleaseMatches DEF Exchange, Answer
  <2> QED  BY <2>1, <2>2
<1>5. ASSUME NEW r \in Request, RecordUsage(r) \/ RecordRow(r) PROVE HoldersMatch'
  BY <1>5 DEF RecordUsage, RecordRow, Counted, Logged, ReservationsMatch
<1>6. ASSUME NEW r \in Request, LeaveImage(r) PROVE HoldersMatch'
  BY <1>6, ReleaseMatches DEF LeaveImage, ReleaseLate
<1>7. CASE CloseDatabase \/ Crash
  <2>1. LoseKey  BY <1>7 DEF CloseDatabase, Crash, Restart
  <2>2. Prompt * Cardinality({}) = 0  BY FS_EmptySet, QuotaAssumption
  <2> QED  BY <2>1, <2>2 DEF LoseKey, ReservationsMatch
<1>8. CASE UNCHANGED quotaVars
  BY <1>8 DEF quotaVars, ReservationsMatch
<1>9. Next => \/ \E r \in Request : Serve(r)
              \/ CloseDatabase \/ Crash \/ UNCHANGED quotaVars
  BY DEF Next, Overflow, UsageTaken, UsageMoves, UsageWritten, LogMoves, LogRead,
         LogWritten, ReadWritten, LoadDays, ResetStats, BootstrapDays, Stop, Drained,
         RowsLanded, RowsLate, UsageLanded, Proceed
<1>10. UNCHANGED vars => UNCHANGED quotaVars  BY DEF vars
<1> QED  BY <1>1, <1>2, <1>3, <1>4, <1>5, <1>6, <1>7, <1>8, <1>9, <1>10 DEF Serve

\* Whatever finishes, fails, is refused or crashes, in any order, what is reserved
\* is the prompts of the requests still to release: no reservation is lost to an
\* early return and none is given back twice.
THEOREM ReservationsCorrect == Spec => []ReservationsMatch
<1>1. HoldersMatch => ReservationsMatch  BY DEF HoldersMatch
<1> QED  BY <1>1, HoldersInit, HoldersStep, PTL DEF Spec

-----------------------------------------------------------------------------
(***************************************************************************)
(* The rows of the request log.                                            *)
(***************************************************************************)
Held == pending \union flushing \union reading

\* Each row is in one place, and comes there once, after its request.
RowsSound ==
    /\ rows \in [Request -> {0, 1}]
    /\ pending \subseteq Request /\ flushing \subseteq Request /\ reading \subseteq Request
    /\ rowsGiven \subseteq Request /\ rowsExcused \subseteq Request
    /\ pending \intersect flushing = {} /\ pending \intersect reading = {}
    /\ flushing \intersect reading = {}
    /\ \A r \in Held : r \in rowsGiven /\ rows[r] = 0 /\ ~failure[r]
    /\ \A r \in Request : rows[r] = 1 => r \in rowsGiven
    /\ phase \in [Request -> Phase] /\ failure \in [Request -> BOOLEAN]
    /\ \A r \in rowsGiven : phase[r] \in {"appended", "done", "cut"}

\* What the loop still has to do says where rows may be, and how far the stop is.
LoopSound ==
    /\ closed \in BOOLEAN /\ logStop = closed
    /\ flusher \in {"idle", "writing", "last", "stopped"}
    /\ flusher \in {"idle", "stopped"} => flushing = {}
    /\ flusher \in {"last", "stopped"} => pending = {} /\ closed
    /\ reader \in {"idle", "writing"} /\ (reader = "idle" => reading = {})
    /\ hasty \in BOOLEAN
    /\ runtime \in {"usage", "database"} /\ ~hasty => flusher = "stopped"

LEMMA RowsInit == Init => RowsSound /\ LoopSound /\ RowSink!Init
<1> SUFFICES ASSUME Init PROVE RowsSound /\ LoopSound /\ RowSink!Init  OBVIOUS
<1>1. RowsSound /\ LoopSound
  <2>1. RowsSound  BY DEF Init, LogInit, QuotaInit, RowsSound, Held, Zero, Phase
  <2>2. LoopSound  BY DEF Init, LogInit, LoopSound
  <2> QED  BY <2>1, <2>2
<1>2. RowSink!Init
  BY DEF Init, LogInit, Zero, RowSink!Init, RowPlace, Unwritten
<1> QED  BY <1>1, <1>2

\* What a step that leaves the batcher alone may still change for it.
LEMMA LogUntouched ==
    ASSUME RowsSound, LoopSound, UNCHANGED logVars,
           hasty' \in BOOLEAN,
           runtime' \in {"usage", "database"} /\ ~hasty' => flusher = "stopped",
           phase' \in [Request -> Phase], failure' \in [Request -> BOOLEAN],
           \A r \in rowsGiven : /\ phase'[r] \in {"appended", "done", "cut"}
                                /\ failure'[r] = failure[r]
    PROVE  RowsSound' /\ LoopSound' /\ UNCHANGED RowSink!vars
<1>1. UNCHANGED <<pending, closed, logStop, flusher, flushing, reader, reading, rows,
                  rowsGiven, rowsExcused>>
  BY DEF logVars
<1> QED  BY <1>1 DEF RowsSound, LoopSound, Held, RowSink!vars, RowPlace, Unwritten

\* A row the request writes itself, refused or not, or a row that is queued.
LEMMA RecordRowSound ==
    ASSUME RowsSound, LoopSound, NEW r \in Request, RecordRow(r)
    PROVE  RowsSound' /\ LoopSound' /\ RowSink!Next
<1> PICK ok \in BOOLEAN : AppendRow(r, failure[r], ok)
  BY DEF RecordRow
<1>1. /\ phase[r] = "enqueued" /\ phase' \in [Request -> Phase]
      /\ phase'[r] \in {"appended", "done"}
      /\ \A q \in Request \ {r} : phase'[q] = phase[q]
      /\ failure' = failure /\ UNCHANGED <<runtime, hasty>>
  BY DEF RecordRow, Logged, RowsSound, Phase, Writes, runVars
<1>2. /\ rowsGiven' = rowsGiven \union {r}
      /\ r \notin rowsGiven /\ r \notin Held /\ rows[r] = 0
      /\ UNCHANGED <<closed, logStop, flusher, flushing, reader, reading>>
  BY <1>1 DEF AppendRow, RowsSound
<1>3. RowPlace[r] = "outside"
  BY <1>2 DEF RowPlace, Unwritten
<1>4. CASE WrittenThrough(failure[r])
  <2>1. UNCHANGED <<pending, wake>> /\ WriteRows({r}, ok)
    BY <1>4 DEF AppendRow
  <2>2. CASE ok
    <3>1. rows' = [q \in Request |-> IF q = r THEN 1 ELSE rows[q]] /\ rowsExcused' = rowsExcused
      BY <2>1, <2>2, <1>2 DEF WriteRows, AddAll, RowsSound
    <3>2. RowsSound' /\ LoopSound'
      BY <1>1, <1>2, <2>1, <3>1 DEF RowsSound, LoopSound, Held
    <3>3. RowSink!Store({r})
      BY <1>2, <1>3, <2>1, <3>1 DEF RowSink!Store, RowSink!Move, RowPlace, Unwritten, RowsSound
    <3> QED  BY <3>2, <3>3 DEF RowSink!Next
  <2>3. CASE ~ok
    <3>1. rows' = rows /\ rowsExcused' = rowsExcused \union {r}
      BY <2>1, <2>3 DEF WriteRows
    <3>2. RowsSound' /\ LoopSound'
      BY <1>1, <1>2, <2>1, <3>1 DEF RowsSound, LoopSound, Held
    <3>3. RowSink!Lose({r})
      BY <1>2, <1>3, <2>1, <3>1 DEF RowSink!Lose, RowSink!Move, RowPlace, Unwritten, RowsSound, Held
    <3> QED  BY <3>2, <3>3 DEF RowSink!Next
  <2> QED  BY <2>2, <2>3
<1>5. CASE ~WrittenThrough(failure[r])
  <2>1. /\ ~failure[r] /\ ~closed
        /\ pending' = pending \union {r} /\ UNCHANGED <<rows, rowsExcused>>
    BY <1>5 DEF AppendRow, WrittenThrough, LoopSound
  <2>2. RowsSound' /\ LoopSound'
    BY <1>1, <1>2, <2>1 DEF RowsSound, LoopSound, Held
  <2>3. RowSink!Take(r)
    BY <1>2, <1>3, <2>1 DEF RowSink!Take, RowSink!Move, RowPlace, Unwritten, RowsSound
  <2> QED  BY <2>2, <2>3 DEF RowSink!Next
<1> QED  BY <1>4, <1>5

\* The first half of a flush, by the loop or by a reader, moves rows within memory.
LEMMA FlushBeginsSound ==
    ASSUME RowsSound, LoopSound, LogMoves \/ LogRead
    PROVE  RowsSound' /\ LoopSound' /\ UNCHANGED RowSink!vars
<1>1. /\ UNCHANGED <<phase, failure, runtime, hasty, rows, rowsGiven, rowsExcused, closed, logStop>>
      /\ Held' = Held
  BY DEF LogMoves, LogRead, FlushTick, FlushWake, FlushStop, ReadFlush, quotaVars, runVars,
         Held, LoopSound
<1>2. UNCHANGED RowSink!vars
  BY <1>1 DEF RowSink!vars, RowPlace, Unwritten, Held
<1>3. RowsSound'
  BY <1>1 DEF LogMoves, LogRead, FlushTick, FlushWake, FlushStop, ReadFlush, RowsSound, LoopSound, Held
<1>4. LoopSound'
  BY <1>1 DEF LogMoves, LogRead, FlushTick, FlushWake, FlushStop, ReadFlush, LoopSound
<1> QED  BY <1>2, <1>3, <1>4

\* The second half stores the rows that were taken, or loses them to a refused write.
LEMMA WriteEnds ==
    ASSUME RowsSound, NEW S \in SUBSET Held, NEW ok \in BOOLEAN,
           WriteRows(S, ok), rowsGiven' = rowsGiven, Held' = Held \ S
    PROVE  RowSink!Next /\ rows' \in [Request -> {0, 1}]
           /\ rows' = [r \in Request |-> IF ok /\ r \in S THEN 1 ELSE rows[r]]
<1>1. S \subseteq Request /\ \A r \in S : rows[r] = 0 /\ r \in rowsGiven /\ RowPlace[r] = "held"
  BY DEF RowsSound, Held, RowPlace, Unwritten
<1>2. rows' = [r \in Request |-> IF ok /\ r \in S THEN 1 ELSE rows[r]]
  BY <1>1 DEF WriteRows, AddAll, RowsSound
<1>3. ASSUME ok PROVE RowSink!Next
  <2>1. RowSink!Store(S)
    BY <1>1, <1>2, <1>3 DEF RowSink!Store, RowSink!Move, RowPlace, Unwritten, RowsSound, WriteRows, Held
  <2> QED  BY <1>1, <2>1 DEF RowSink!Next
<1>4. ASSUME ~ok PROVE RowSink!Next
  <2>1. RowSink!Lose(S)
    BY <1>1, <1>2, <1>4 DEF RowSink!Lose, RowSink!Move, RowPlace, Unwritten, RowsSound, WriteRows, Held
  <2> QED  BY <1>1, <2>1 DEF RowSink!Next
<1> QED  BY <1>2, <1>3, <1>4 DEF RowsSound

LEMMA FlushEndsSound ==
    ASSUME RowsSound, LoopSound, LogWritten \/ ReadWritten
    PROVE  RowsSound' /\ LoopSound' /\ RowSink!Next
<1>1. ASSUME NEW S \in {flushing, reading}, NEW ok \in BOOLEAN, WriteRows(S, ok),
             UNCHANGED <<phase, failure, runtime, hasty, pending, rowsGiven, closed, logStop>>,
             \/ S = flushing /\ flushing' = {} /\ reading' = reading
             \/ S = reading /\ reading' = {} /\ flushing' = flushing
      PROVE  RowsSound' /\ RowSink!Next
  <2>1. S \in SUBSET Held /\ Held' = Held \ S
    BY <1>1 DEF Held, RowsSound
  <2>2. /\ RowSink!Next /\ rows' \in [Request -> {0, 1}]
        /\ rows' = [r \in Request |-> IF ok /\ r \in S THEN 1 ELSE rows[r]]
    BY <1>1, <2>1, WriteEnds
  <2>3. rowsExcused' \subseteq Request
    BY <1>1 DEF WriteRows, RowsSound
  <2>4. RowsSound'
    BY <1>1, <2>1, <2>2, <2>3 DEF RowsSound, Held
  <2> QED  BY <2>2, <2>4
<1>2. CASE LogWritten
  <2>1. PICK ok \in BOOLEAN : Flushed(ok) /\ Writes(ok) /\ UNCHANGED quotaVars
    BY <1>2 DEF LogWritten
  <2>2. RowsSound' /\ RowSink!Next
    BY <1>1, <2>1 DEF Flushed, Writes, quotaVars
  <2>3. LoopSound'
    BY <2>1 DEF Flushed, Writes, LoopSound
  <2> QED  BY <2>2, <2>3
<1>3. CASE ReadWritten
  <2>1. PICK ok \in BOOLEAN : ReadFlushed(ok) /\ Writes(ok) /\ UNCHANGED quotaVars
    BY <1>3 DEF ReadWritten
  <2>2. RowsSound' /\ RowSink!Next
    BY <1>1, <2>1 DEF ReadFlushed, Writes, quotaVars
  <2>3. LoopSound'
    BY <2>1 DEF ReadFlushed, Writes, LoopSound
  <2> QED  BY <2>2, <2>3
<1> QED  BY <1>2, <1>3

\* A new process has the database only; what the old one held is excused.
LEMMA RestartSound ==
    ASSUME RowsSound, LoopSound, CloseDatabase \/ Crash
    PROVE  RowsSound' /\ LoopSound' /\ RowSink!Next
<1>1. PICK excuse \in SUBSET Request :
        LoseRows(excuse) /\ LoseKey /\ runtime' = "up" /\ hasty' = FALSE /\ Held \subseteq excuse
  <2>1. CASE Crash
    BY <2>1 DEF Crash, Restart, RowsSound, Held
  <2>2. CASE CloseDatabase
    BY <2>2 DEF CloseDatabase, Restart, RowsSound, LoopSound, Held
  <2> QED  BY <2>1, <2>2
<1>a. Unwritten = Held  BY DEF Unwritten, Held
<1>2. RowsSound' /\ LoopSound'
  BY <1>1, <1>a DEF LoseRows, LoseKey, RowsSound, LoopSound, Held, Phase
<1>3. RowSink!Lose(Held)
  BY <1>1, <1>a DEF LoseRows, RowSink!Lose, RowSink!Move, RowPlace, Unwritten, RowsSound, Held
<1>4. Held \in SUBSET Request  BY DEF Held, RowsSound
<1> QED  BY <1>2, <1>3, <1>4 DEF RowSink!Next

\* Every step of the accounting keeps the rows sound, and is a step of the sink or
\* none at all.
LEMMA RowsStep ==
    ASSUME RowsSound, LoopSound, [Next]_vars
    PROVE  RowsSound' /\ LoopSound' /\ [RowSink!Next]_(RowSink!vars)
<1>1. ASSUME NEW r \in Request, RecordRow(r)
      PROVE  RowsSound' /\ LoopSound' /\ [RowSink!Next]_(RowSink!vars)
  BY <1>1, RecordRowSound
<1>2. ASSUME NEW r \in Request,
             \/ Begin(r) \/ ReadKeyUsage(r) \/ Decide(r) \/ Reserve(r) \/ Exchange(r)
             \/ RecordUsage(r) \/ LeaveImage(r)
      PROVE  RowsSound' /\ LoopSound' /\ [RowSink!Next]_(RowSink!vars)
  <2>1. /\ UNCHANGED logVars /\ UNCHANGED <<runtime, hasty>>
        /\ phase' \in [Request -> Phase] /\ failure' \in [Request -> BOOLEAN]
        /\ \A q \in rowsGiven : /\ phase'[q] \in {"appended", "done", "cut"}
                                /\ failure'[q] = failure[q]
    BY <1>2, QuotaAssumption
       DEF Begin, Arrive, ReadKeyUsage, ReadUsage, Decide, Admit, Refuse, Reserve, Hold, Exchange,
           Answer, RecordUsage, Counted, LeaveImage, ReleaseLate, runVars, RowsSound, Phase
  <2> QED  BY <2>1, LogUntouched DEF LoopSound
<1>3. CASE \/ \E r \in Request : Overflow(r)
           \/ UsageTaken \/ UsageMoves \/ UsageWritten \/ LoadDays \/ ResetStats \/ BootstrapDays
           \/ UNCHANGED vars
  <2>1. UNCHANGED logVars /\ UNCHANGED quotaVars /\ UNCHANGED <<runtime, hasty>>
    BY <1>3 DEF Overflow, UsageTaken, UsageMoves, UsageWritten, LoadDays, ResetStats, BootstrapDays,
                vars, runVars, Writes
  <2> QED  BY <2>1, LogUntouched DEF LoopSound, RowsSound, quotaVars
<1>4. CASE Stop \/ RowsLanded \/ RowsLate \/ UsageLanded
  <2>1. UNCHANGED logVars /\ UNCHANGED quotaVars /\ hasty' \in BOOLEAN
    BY <1>4 DEF Stop, RowsLanded, RowsLate, UsageLanded, Proceed, LoopSound
  <2>2. runtime' \in {"usage", "database"} /\ ~hasty' => flusher = "stopped"
    BY <1>4 DEF Stop, RowsLanded, RowsLate, UsageLanded, Proceed, LoopSound
  <2> QED  BY <2>1, <2>2, LogUntouched DEF RowsSound, quotaVars
<1>5. CASE Drained
  <2>1. /\ UNCHANGED <<pending, flusher, flushing, reader, reading, rows, rowsGiven, rowsExcused>>
        /\ UNCHANGED <<phase, failure>> /\ closed' = TRUE /\ logStop' = TRUE
        /\ runtime' = "rows" /\ hasty' \in BOOLEAN
    BY <1>5 DEF Drained, Proceed, CloseLog, quotaVars, LoopSound
  <2>2. RowsSound' /\ LoopSound'
    BY <2>1 DEF RowsSound, LoopSound, Held
  <2>3. UNCHANGED RowSink!vars
    BY <2>1 DEF RowSink!vars, RowPlace, Unwritten
  <2> QED  BY <2>2, <2>3
<1>6. CASE LogMoves \/ LogRead
  BY <1>6, FlushBeginsSound
<1>7. CASE LogWritten \/ ReadWritten
  BY <1>7, FlushEndsSound
<1>8. CASE CloseDatabase \/ Crash
  BY <1>8, RestartSound
<1> QED  BY <1>1, <1>2, <1>3, <1>4, <1>5, <1>6, <1>7, <1>8 DEF Next, Serve

\* Once the batcher's loop has ended, however appends, flushes and the close
\* interleaved, no row is left queued for it.
THEOREM NoRowLeftParked == Spec => []NoRowParked
<1>1. RowsSound /\ LoopSound /\ [Next]_vars => RowsSound' /\ LoopSound'
  BY RowsStep
<1>2. LoopSound => NoRowParked  BY DEF LoopSound, NoRowParked
<1> QED  BY <1>1, <1>2, RowsInit, PTL DEF Spec

\* The batcher implements the durable sink: a row is written once at most, and is
\* lost only to a refused write, a stop out of time, a reader that held it, or a
\* crash; and never to a crash if it is the row of a failure.
THEOREM RowsReachSink == Spec => RowsLand
<1>1. RowsSound /\ LoopSound /\ [Next]_vars
        => RowsSound' /\ LoopSound' /\ [RowSink!Next]_(RowSink!vars)
  BY RowsStep
<1> QED  BY <1>1, RowsInit, PTL DEF Spec, RowsLand, RowSink!Spec

-----------------------------------------------------------------------------
(***************************************************************************)
(* The usage events.                                                       *)
(***************************************************************************)
OnChannel == {r \in Request : \E i \in DOMAIN channel : channel[i] = r}

\* Each event is in one place, and comes there once, after its request.
EventsSound ==
    /\ channel \in Seq(Request) /\ senders \subseteq Request /\ batch \subseteq Request
    /\ \A i, j \in 1 .. Len(channel) : channel[i] = channel[j] => i = j
    /\ OnChannel \intersect senders = {} /\ OnChannel \intersect batch = {}
    /\ senders \intersect batch = {}
    /\ daily \in [Request -> {0, 1}]
    /\ usageGiven \subseteq Request /\ usageExcused \subseteq Request
    /\ overflowed \subseteq Request /\ senders \subseteq overflowed
    /\ \A r \in OnChannel \union senders \union batch : r \in usageGiven /\ daily[r] = 0
    /\ \A r \in Request : daily[r] = 1 => r \in usageGiven
    /\ phase \in [Request -> Phase]
    /\ \A r \in usageGiven : phase[r] \in {"enqueued", "appended", "done", "cut"}

\* What the worker still has to do says where events may be, and how far the stop
\* is: no request is served when its drain begins, unless the stop was in haste.
WorkerSound ==
    /\ worker \in WorkerState /\ usageStop \in BOOLEAN /\ hasty \in BOOLEAN
    /\ worker = "absent" => channel = <<>> /\ senders = {} /\ batch = {}
    /\ worker = "stopped" => batch = {}
    /\ worker \in {"draining", "last", "stopped"} => usageStop
    /\ usageStop => runtime \in {"usage", "database"}
    /\ runtime \in {"rows", "usage", "database"} /\ ~hasty
          => \A r \in Request : phase[r] \in {"idle", "done", "cut"}
    /\ worker \in {"last", "stopped"} /\ ~hasty => OnChannel \subseteq overflowed
    /\ runtime = "database" /\ ~hasty => worker \in {"absent", "stopped"}

\* An event joins the channel at its end.
LEMMA AppendEvent ==
    ASSUME EventsSound, NEW r \in Request \ OnChannel, channel' = Append(channel, r)
    PROVE  /\ channel' \in Seq(Request) /\ OnChannel' = OnChannel \union {r}
           /\ \A i, j \in 1 .. Len(channel') : channel'[i] = channel'[j] => i = j
<1>1. /\ channel' \in Seq(Request) /\ Len(channel') = Len(channel) + 1
      /\ DOMAIN channel' = 1 .. Len(channel) + 1 /\ DOMAIN channel = 1 .. Len(channel)
      /\ \A i \in 1 .. Len(channel) : channel'[i] = channel[i]
      /\ channel'[Len(channel) + 1] = r /\ Len(channel) \in Nat
  BY DEF EventsSound
<1>2. OnChannel' = OnChannel \union {r}
  BY <1>1 DEF OnChannel
<1>3. \A i \in 1 .. Len(channel) : channel'[i] # r
  BY <1>1 DEF OnChannel
<1> QED  BY <1>1, <1>2, <1>3 DEF EventsSound

\* The worker takes the one at the head.
LEMMA TakeHead ==
    ASSUME EventsSound, channel # <<>>, channel' = Tail(channel)
    PROVE  /\ channel' \in Seq(Request) /\ Head(channel) \in OnChannel
           /\ OnChannel' = OnChannel \ {Head(channel)}
           /\ \A i, j \in 1 .. Len(channel') : channel'[i] = channel'[j] => i = j
<1>1. /\ channel' \in Seq(Request) /\ Len(channel) \in Nat \ {0} /\ Len(channel') = Len(channel) - 1
      /\ DOMAIN channel' = 1 .. Len(channel) - 1 /\ DOMAIN channel = 1 .. Len(channel)
      /\ \A i \in 1 .. Len(channel) - 1 : channel'[i] = channel[i + 1]
      /\ Head(channel) = channel[1] /\ Head(channel) \in Request
  BY DEF EventsSound
<1>2. Head(channel) \in OnChannel
  BY <1>1 DEF OnChannel
<1>3. \A i \in 1 .. Len(channel) - 1 : channel'[i] # Head(channel)
  BY <1>1 DEF EventsSound
<1>4. ASSUME NEW q \in OnChannel, q # Head(channel)  PROVE q \in OnChannel'
  <2>1. PICK i \in 1 .. Len(channel) : channel[i] = q
    BY <1>1 DEF OnChannel
  <2>2. i # 1 /\ i - 1 \in 1 .. Len(channel) - 1 /\ channel'[i - 1] = q
    BY <1>1, <1>4, <2>1
  <2> QED  BY <1>1, <2>2 DEF OnChannel
<1>5. OnChannel' \subseteq OnChannel \ {Head(channel)}
  BY <1>1, <1>3 DEF OnChannel
<1>6. \A i, j \in 1 .. Len(channel') : channel'[i] = channel'[j] => i = j
  BY <1>1 DEF EventsSound
<1> QED  BY <1>1, <1>2, <1>4, <1>5, <1>6

LEMMA EventsInit == Init => EventsSound /\ WorkerSound /\ UsageSink!Init
<1> SUFFICES ASSUME Init PROVE EventsSound /\ WorkerSound /\ UsageSink!Init  OBVIOUS
<1>1. OnChannel = {}  BY DEF Init, UsageInit, OnChannel
<1>2. EventsSound
  BY <1>1 DEF Init, UsageInit, QuotaInit, EventsSound, Zero, Phase
<1>3. WorkerSound
  BY <1>1 DEF Init, UsageInit, WorkerSound, WorkerState
<1>4. UsageSink!Init
  BY DEF Init, UsageInit, Zero, UsageSink!Init, UsagePlace, Unstored
<1> QED  BY <1>2, <1>3, <1>4

\* What a step that leaves the worker alone may still change for it.
LEMMA UsageUntouched ==
    ASSUME EventsSound, WorkerSound,
           UNCHANGED <<channel, senders, worker, usageStop, batch, daily, usageGiven, overflowed,
                       usageExcused>>,
           hasty' \in BOOLEAN,
           usageStop => runtime' \in {"usage", "database"},
           runtime' \in {"rows", "usage", "database"} /\ ~hasty'
              => \A r \in Request : phase'[r] \in {"idle", "done", "cut"},
           runtime' = "database" /\ ~hasty' => worker \in {"absent", "stopped"},
           hasty => hasty',
           phase' \in [Request -> Phase],
           \A r \in usageGiven : phase'[r] \in {"enqueued", "appended", "done", "cut"}
    PROVE  EventsSound' /\ WorkerSound' /\ UNCHANGED UsageSink!vars
<1>1. OnChannel' = OnChannel  BY DEF OnChannel
<1>2. EventsSound'  BY <1>1 DEF EventsSound
<1>3. WorkerSound'  BY <1>1 DEF WorkerSound
<1>4. UNCHANGED UsageSink!vars  BY DEF UsageSink!vars, UsagePlace, Unstored, AllEvents
<1> QED  BY <1>2, <1>3, <1>4

LEMMA RecordUsageSound ==
    ASSUME EventsSound, WorkerSound, NEW r \in Request, RecordUsage(r)
    PROVE  EventsSound' /\ WorkerSound' /\ UsageSink!Next
<1>1. /\ phase[r] \in {"ended", "refused"} /\ phase' = [phase EXCEPT ![r] = "enqueued"]
      /\ phase' \in [Request -> Phase] /\ UNCHANGED <<runtime, hasty>>
  BY DEF RecordUsage, Counted, EventsSound, Phase, runVars
<1>2. r \notin usageGiven /\ r \notin OnChannel \union senders \union batch /\ daily[r] = 0
  BY <1>1 DEF EventsSound
<1>3. /\ usageGiven' = usageGiven \union {r}
      /\ UNCHANGED <<usageStop, batch, daily, usageExcused>>
      /\ worker' = IF worker = "absent" THEN "ready" ELSE worker
  BY DEF RecordUsage, EnqueueUsage
<1>4. ~ (runtime \in {"rows", "usage", "database"} /\ ~hasty)
  BY <1>1 DEF WorkerSound
<1>5. CASE HasRoom
  <2>1. channel' = Append(channel, r) /\ UNCHANGED <<senders, overflowed>>
    BY <1>5 DEF RecordUsage, EnqueueUsage
  <2>2. /\ channel' \in Seq(Request) /\ OnChannel' = OnChannel \union {r}
        /\ \A i, j \in 1 .. Len(channel') : channel'[i] = channel'[j] => i = j
    BY <1>2, <2>1, AppendEvent
  <2>3. EventsSound'
    BY <1>1, <1>2, <1>3, <2>1, <2>2 DEF EventsSound
  <2>4. WorkerSound'
    BY <1>1, <1>3, <1>4, <2>1 DEF WorkerSound, WorkerState
  <2>5. AllEvents' = AllEvents \union {r}
    BY <2>1, <2>2 DEF AllEvents, OnChannel
  <2>6. UsageSink!Take(r)
    BY <1>2, <1>3, <2>5 DEF UsageSink!Take, UsageSink!Move, UsagePlace, Unstored, EventsSound
  <2> QED  BY <2>3, <2>4, <2>6 DEF UsageSink!Next
<1>6. CASE ~HasRoom
  <2>1. channel' = channel /\ senders' = senders \union {r} /\ overflowed' = overflowed \union {r}
    BY <1>6 DEF RecordUsage, EnqueueUsage
  <2>2. OnChannel' = OnChannel  BY <2>1 DEF OnChannel
  <2>3. EventsSound'
    BY <1>1, <1>2, <1>3, <2>1, <2>2 DEF EventsSound
  <2>4. WorkerSound'
    BY <1>1, <1>3, <1>4, <2>1 DEF WorkerSound, WorkerState
  <2>5. AllEvents' = AllEvents \union {r}
    BY <2>1 DEF AllEvents
  <2>6. UsageSink!Take(r)
    BY <1>2, <1>3, <2>5 DEF UsageSink!Take, UsageSink!Move, UsagePlace, Unstored, EventsSound
  <2> QED  BY <2>3, <2>4, <2>6 DEF UsageSink!Next
<1> QED  BY <1>5, <1>6

\* An event's goroutine sends it: the channel has it now.
LEMMA OverflowSound ==
    ASSUME EventsSound, WorkerSound, NEW r \in Request, Overflow(r)
    PROVE  EventsSound' /\ WorkerSound' /\ UNCHANGED UsageSink!vars
<1>1. /\ r \in senders /\ channel' = Append(channel, r) /\ senders' = senders \ {r}
      /\ UNCHANGED <<worker, usageStop, batch, daily, usageGiven, overflowed, usageExcused,
                     phase, runtime, hasty>>
  BY DEF Overflow, SendLate, quotaVars, runVars
<1>2. /\ channel' \in Seq(Request) /\ OnChannel' = OnChannel \union {r}
      /\ \A i, j \in 1 .. Len(channel') : channel'[i] = channel'[j] => i = j
  BY <1>1, AppendEvent DEF EventsSound
<1>3. EventsSound'  BY <1>1, <1>2 DEF EventsSound
<1>4. WorkerSound'  BY <1>1, <1>2 DEF WorkerSound, EventsSound
<1>5. AllEvents' = AllEvents  BY <1>1, <1>2 DEF AllEvents, OnChannel
<1>6. UNCHANGED UsageSink!vars  BY <1>1, <1>5 DEF UsageSink!vars, UsagePlace, Unstored
<1> QED  BY <1>3, <1>4, <1>6

\* The worker counts an event and keeps it in its batch.
LEMMA UsageTakenSound ==
    ASSUME EventsSound, WorkerSound, UsageTaken
    PROVE  EventsSound' /\ WorkerSound' /\ UNCHANGED UsageSink!vars
<1>1. /\ TakeEvent /\ UNCHANGED <<phase, runtime, hasty>>
      /\ \/ worker = "ready" /\ worker' \in {"ready", "writing"}
         \/ worker = "draining" /\ worker' = "draining"
  BY DEF UsageTaken, ReceiveUsage, DrainUsage, quotaVars
<1>2. /\ channel # <<>> /\ channel' = Tail(channel) /\ batch' = batch \union {Head(channel)}
      /\ UNCHANGED <<senders, usageStop, daily, usageGiven, overflowed, usageExcused>>
  BY <1>1 DEF TakeEvent
<1>3. /\ channel' \in Seq(Request) /\ Head(channel) \in OnChannel
      /\ OnChannel' = OnChannel \ {Head(channel)}
      /\ \A i, j \in 1 .. Len(channel') : channel'[i] = channel'[j] => i = j
  BY <1>2, TakeHead
<1>4. EventsSound'
  BY <1>1, <1>2, <1>3 DEF EventsSound, OnChannel
<1>5. WorkerSound'
  BY <1>1, <1>2, <1>3 DEF WorkerSound, WorkerState
<1>6. (AllEvents \union batch)' = AllEvents \union batch
  BY <1>2, <1>3 DEF AllEvents, OnChannel
<1>7. UNCHANGED UsageSink!vars
  BY <1>2, <1>6 DEF UsageSink!vars, UsagePlace, Unstored
<1> QED  BY <1>4, <1>5, <1>7

\* The batch is in the database, or lost to a refused write.
LEMMA UsageWrittenSound ==
    ASSUME EventsSound, WorkerSound, UsageWritten
    PROVE  EventsSound' /\ WorkerSound' /\ UsageSink!Next
<1> PICK ok \in BOOLEAN : CommitUsage(ok) /\ Writes(ok) /\ UNCHANGED quotaVars
  BY DEF UsageWritten
<1>1. /\ UNCHANGED <<channel, senders, usageStop, usageGiven, overflowed, phase, runtime, hasty>>
      /\ batch' = {} /\ worker \in {"writing", "last"}
      /\ worker' = IF worker = "last" THEN "stopped" ELSE "ready"
  BY DEF CommitUsage, Writes, quotaVars
<1>2. OnChannel' = OnChannel /\ AllEvents' = AllEvents
  BY <1>1 DEF OnChannel, AllEvents
<1>3. daily' = [r \in Request |-> IF ok /\ r \in batch THEN 1 ELSE daily[r]]
  BY DEF CommitUsage, AddAll, EventsSound
<1>4. usageExcused' = IF ok THEN usageExcused ELSE usageExcused \union batch
  BY DEF CommitUsage
<1>5. EventsSound'
  BY <1>1, <1>2, <1>3, <1>4 DEF EventsSound
<1>6. WorkerSound'
  BY <1>1, <1>2 DEF WorkerSound, WorkerState
<1>7. \A r \in batch : UsagePlace[r] = "held"
  BY DEF UsagePlace, Unstored, EventsSound
<1>8. AllEvents \intersect batch = {}
  BY DEF AllEvents, OnChannel, EventsSound
<1>9. ASSUME ok PROVE UsageSink!Store(batch)
  BY <1>1, <1>2, <1>3, <1>4, <1>7, <1>8, <1>9
     DEF UsageSink!Store, UsageSink!Move, UsagePlace, Unstored, EventsSound
<1>10. ASSUME ~ok PROVE UsageSink!Lose(batch)
  BY <1>1, <1>2, <1>3, <1>4, <1>7, <1>8, <1>10
     DEF UsageSink!Lose, UsageSink!Move, UsagePlace, Unstored, EventsSound
<1>11. UsageSink!Next
  BY <1>9, <1>10 DEF UsageSink!Next, EventsSound
<1> QED  BY <1>5, <1>6, <1>11

\* A new process has the database only; what the old one held is excused.
LEMMA UsageExcused ==
    ASSUME EventsSound, WorkerSound, CloseDatabase \/ Crash
    PROVE  \E excuse \in SUBSET Request :
              /\ LoseUsage(excuse) /\ OnChannel \union senders \union batch \subseteq excuse
              /\ LoseKey /\ runtime' = "up" /\ hasty' = FALSE
              /\ rebuild' = "due" /\ snapshot' = Zero /\ early' = {}
<1>1. OnChannel \union senders \union batch \in SUBSET Request
  BY DEF OnChannel, EventsSound
<1>2. CASE Crash
  BY <1>1, <1>2 DEF Crash, Restart
<1>3. CASE CloseDatabase
  <2>1. ~hasty => OnChannel \union senders \union batch \subseteq overflowed
    BY <1>1, <1>3 DEF CloseDatabase, WorkerSound, EventsSound, OnChannel
  <2> QED  BY <1>1, <1>3, <2>1 DEF CloseDatabase, Restart, EventsSound
<1> QED  BY <1>2, <1>3

\* So a restart is a step of the sink that loses only what is excused.
LEMMA UsageRestartSound ==
    ASSUME EventsSound, WorkerSound, CloseDatabase \/ Crash
    PROVE  EventsSound' /\ WorkerSound' /\ UsageSink!Next
<1> DEFINE S == AllEvents \union batch
<1>1. S = OnChannel \union senders \union batch /\ S \in SUBSET Request /\ S = Unstored
  BY DEF Unstored, AllEvents, OnChannel, EventsSound
<1>2. PICK excuse \in SUBSET Request :
        LoseUsage(excuse) /\ LoseKey /\ runtime' = "up" /\ hasty' = FALSE /\ S \subseteq excuse
  BY <1>1, UsageExcused
<1>3. OnChannel' = {} /\ AllEvents' = {} /\ batch' = {}
  BY <1>2 DEF LoseUsage, OnChannel, AllEvents
<1>4. EventsSound'
  BY <1>2, <1>3 DEF LoseUsage, LoseKey, EventsSound, Phase
<1>5. WorkerSound'
  BY <1>2, <1>3 DEF LoseUsage, LoseKey, WorkerSound, WorkerState
<1>6. UsageSink!Lose(S)
  BY <1>1, <1>2, <1>3 DEF LoseUsage, UsageSink!Lose, UsageSink!Move, UsagePlace, Unstored, EventsSound
<1> QED  BY <1>1, <1>4, <1>5, <1>6 DEF UsageSink!Next

\* Every step of the accounting keeps the events sound, and is a step of the sink
\* or none at all.
LEMMA UsageStep ==
    ASSUME EventsSound, WorkerSound, [Next]_vars
    PROVE  EventsSound' /\ WorkerSound' /\ [UsageSink!Next]_(UsageSink!vars)
<1>1. ASSUME NEW r \in Request, RecordUsage(r) \/ Overflow(r)
      PROVE  EventsSound' /\ WorkerSound' /\ [UsageSink!Next]_(UsageSink!vars)
  BY <1>1, RecordUsageSound, OverflowSound
<1>2. ASSUME NEW r \in Request,
             \/ Begin(r) \/ ReadKeyUsage(r) \/ Decide(r) \/ Reserve(r) \/ Exchange(r)
             \/ RecordRow(r) \/ LeaveImage(r)
      PROVE  EventsSound' /\ WorkerSound' /\ [UsageSink!Next]_(UsageSink!vars)
  <2>1. /\ UNCHANGED usageVars /\ UNCHANGED <<runtime, hasty>> /\ phase' \in [Request -> Phase]
        /\ phase[r] = "idle" => runtime = "up"
        /\ phase[r] \notin {"done", "cut"}
        /\ \A q \in Request \ {r} : phase'[q] = phase[q]
        /\ r \in usageGiven => phase'[r] \in {"enqueued", "appended", "done", "cut"}
    BY <1>2
       DEF Begin, Arrive, ReadKeyUsage, ReadUsage, Decide, Admit, Refuse, Reserve, Hold, Exchange,
           Answer, RecordRow, Logged, Writes, LeaveImage, ReleaseLate, runVars, EventsSound, Phase
  <2>2. runtime \in {"rows", "usage", "database"} => hasty
    BY <2>1 DEF WorkerSound
  <2> QED  BY <2>1, <2>2, UsageUntouched DEF WorkerSound, EventsSound, usageVars
<1>3. CASE LogMoves \/ LogRead \/ LogWritten \/ ReadWritten \/ LoadDays \/ ResetStats
           \/ BootstrapDays \/ UNCHANGED vars
  <2>1. /\ UNCHANGED <<channel, senders, worker, usageStop, batch, daily, usageGiven, overflowed,
                       usageExcused>>
        /\ UNCHANGED <<phase, runtime, hasty>>
    BY <1>3 DEF LogMoves, LogRead, LogWritten, ReadWritten, LoadDays, ResetStats, BootstrapDays,
                vars, runVars, usageVars, quotaVars, Writes
  <2> QED  BY <2>1, UsageUntouched DEF WorkerSound, EventsSound
<1>4. CASE UsageMoves
  <2>1. /\ UNCHANGED <<channel, senders, usageStop, batch, daily, usageGiven, overflowed,
                       usageExcused, phase, runtime, hasty>>
        /\ worker' \in WorkerState \ {"absent"}
        /\ worker' = "stopped" => batch = {}
        /\ worker' \in {"draining", "last", "stopped"} => usageStop
        /\ worker' \in {"last", "stopped"} => channel = <<>>
        /\ worker \notin {"absent", "stopped"}
    BY <1>4 DEF UsageMoves, UsageTimer, SeeStop, EndDrain, quotaVars, runVars, WorkerSound, WorkerState
  <2>2. OnChannel' = OnChannel /\ AllEvents' = AllEvents /\ (channel = <<>> => OnChannel = {})
    BY <2>1 DEF OnChannel, AllEvents
  <2>3. EventsSound' /\ WorkerSound'
    BY <2>1, <2>2 DEF EventsSound, WorkerSound
  <2>4. UNCHANGED UsageSink!vars
    BY <2>1, <2>2 DEF UsageSink!vars, UsagePlace, Unstored
  <2> QED  BY <2>3, <2>4
<1>5. CASE UsageTaken
  BY <1>5, UsageTakenSound
<1>6. CASE UsageWritten
  BY <1>6, UsageWrittenSound
<1>7. CASE CloseDatabase \/ Crash
  BY <1>7, UsageRestartSound
<1>8. CASE Stop \/ Drained \/ RowsLate \/ UsageLanded
  <2>1. /\ UNCHANGED usageVars /\ UNCHANGED phase /\ hasty' \in BOOLEAN /\ (hasty => hasty')
        /\ usageStop => runtime' \in {"usage", "database"}
        /\ runtime' \in {"rows", "usage", "database"} /\ ~hasty'
              => \A r \in Request : phase[r] \in {"idle", "done", "cut"}
        /\ runtime' = "database" /\ ~hasty' => worker \in {"absent", "stopped"}
    BY <1>8 DEF Stop, Drained, RowsLate, UsageLanded, UsageStopped, Proceed, quotaVars, WorkerSound
  <2> QED  BY <2>1, UsageUntouched DEF EventsSound, usageVars
<1>9. CASE RowsLanded
  <2>1. /\ UNCHANGED <<channel, senders, worker, batch, daily, usageGiven, overflowed, usageExcused>>
        /\ UNCHANGED <<phase, hasty>> /\ runtime = "rows" /\ runtime' = "usage"
        /\ usageStop' = (worker # "absent")
    BY <1>9 DEF RowsLanded, Proceed, StopUsage, quotaVars
  <2>2. OnChannel' = OnChannel /\ AllEvents' = AllEvents
    BY <2>1 DEF OnChannel, AllEvents
  <2>3. EventsSound' /\ WorkerSound'
    BY <2>1, <2>2 DEF EventsSound, WorkerSound
  <2>4. UNCHANGED UsageSink!vars
    BY <2>1, <2>2 DEF UsageSink!vars, UsagePlace, Unstored
  <2> QED  BY <2>3, <2>4
<1> QED  BY <1>1, <1>2, <1>3, <1>4, <1>5, <1>6, <1>7, <1>8, <1>9 DEF Next, Serve

\* The worker implements the durable sink: an event is in the database once at most,
\* and is lost only to a crash, a refused batch, a stop out of time, or in the
\* goroutine of an overflow.
THEOREM UsageReachesSink == Spec => UsageLands
<1>1. EventsSound /\ WorkerSound /\ [Next]_vars
        => EventsSound' /\ WorkerSound' /\ [UsageSink!Next]_(UsageSink!vars)
  BY UsageStep
<1> QED  BY <1>1, EventsInit, PTL DEF Spec, UsageLands, UsageSink!Spec

-----------------------------------------------------------------------------
(***************************************************************************)
(* The counts in memory and the rebuild.                                   *)
(***************************************************************************)
\* What the rebuild replaces the counts with, and what the worker adds meanwhile.
CountsSound ==
    /\ memory \in [Request -> {0, 1}] /\ snapshot \in [Request -> {0, 1}]
    /\ rebuild \in {"due", "loaded", "reset", "done"} /\ early \subseteq Request
    /\ \A r \in Request :
          /\ r \in OnChannel \union senders \/ r \notin usageGiven => memory[r] = 0
          /\ snapshot[r] = 1 => daily[r] = 1
          /\ rebuild \in {"loaded", "reset"} /\ daily[r] = 1 /\ r \notin early => snapshot[r] = 1
          /\ rebuild = "done" /\ (daily[r] = 1 \/ r \in batch) /\ r \notin early => memory[r] = 1
          /\ r \in usageGiven => r \in OnChannel \union senders \union batch \union usageExcused \/ daily[r] = 1
    /\ rebuild # "done" => batch \subseteq early

LEMMA CountsInit == Init => CountsSound
<1> SUFFICES ASSUME Init PROVE CountsSound  OBVIOUS
<1>1. OnChannel = {}  BY DEF Init, UsageInit, OnChannel
<1> QED  BY <1>1 DEF Init, UsageInit, CountsSound, Zero

\* What a step that leaves the counts alone may still change for them.
LEMMA CountsUntouched ==
    ASSUME CountsSound,
           UNCHANGED <<channel, senders, batch, memory, daily, usageGiven, usageExcused, rebuild,
                       snapshot, early>>
    PROVE  CountsSound'
<1>1. OnChannel' = OnChannel  BY DEF OnChannel
<1> QED  BY <1>1 DEF CountsSound

\* An event comes, and waits on the channel or in a goroutine.
LEMMA EventComes ==
    ASSUME EventsSound, CountsSound, NEW r \in Request, RecordUsage(r) \/ Overflow(r)
    PROVE  CountsSound'
<1>1. UNCHANGED <<batch, memory, daily, usageExcused, rebuild, snapshot, early>>
  BY DEF RecordUsage, EnqueueUsage, Overflow, SendLate, runVars
<1>2. /\ (OnChannel \union senders)' = OnChannel \union senders \union {r}
      /\ usageGiven' = usageGiven \union {r} /\ memory[r] = 0
  <2>1. CASE Overflow(r)
    <3>1. r \in senders /\ senders' = senders \ {r} /\ channel' = Append(channel, r)
          /\ usageGiven' = usageGiven
      BY <2>1 DEF Overflow, SendLate
    <3>2. OnChannel' = OnChannel \union {r}
      BY <3>1, AppendEvent DEF EventsSound
    <3> QED  BY <3>1, <3>2 DEF EventsSound, CountsSound
  <2>2. CASE RecordUsage(r)
    <3>1. r \notin usageGiven /\ r \notin OnChannel /\ usageGiven' = usageGiven \union {r}
      BY <2>2 DEF RecordUsage, Counted, EnqueueUsage, EventsSound
    <3>2. CASE HasRoom
      <4>1. channel' = Append(channel, r) /\ senders' = senders
        BY <2>2, <3>2 DEF RecordUsage, EnqueueUsage
      <4>2. OnChannel' = OnChannel \union {r}
        BY <3>1, <4>1, AppendEvent
      <4> QED  BY <3>1, <4>1, <4>2 DEF CountsSound
    <3>3. CASE ~HasRoom
      <4>1. channel' = channel /\ senders' = senders \union {r}
        BY <2>2, <3>3 DEF RecordUsage, EnqueueUsage
      <4>2. OnChannel' = OnChannel  BY <4>1 DEF OnChannel
      <4> QED  BY <3>1, <4>1, <4>2 DEF CountsSound
    <3> QED  BY <3>2, <3>3
  <2> QED  BY <2>1, <2>2
<1> QED  BY <1>1, <1>2 DEF CountsSound

\* The worker counts it, and the rebuild may come over it.
LEMMA EventCounted == ASSUME EventsSound, CountsSound, UsageTaken PROVE CountsSound'
<1> DEFINE h == Head(channel)
<1>1. /\ channel # <<>> /\ channel' = Tail(channel) /\ batch' = batch \union {h}
      /\ memory' = AddAll(memory, {h})
      /\ early' = IF rebuild = "done" THEN early ELSE early \union {h}
      /\ UNCHANGED <<senders, daily, usageGiven, usageExcused, rebuild, snapshot>>
  BY DEF UsageTaken, ReceiveUsage, DrainUsage, TakeEvent
<1>2. h \in OnChannel /\ OnChannel' = OnChannel \ {h} /\ h \in Request
  BY <1>1, TakeHead DEF OnChannel
<1> HIDE DEF h
<1>3. memory[h] = 0 /\ memory' = [r \in Request |-> IF r = h THEN 1 ELSE memory[r]]
  BY <1>1, <1>2 DEF CountsSound, AddAll
<1>4. h \in usageGiven /\ h \notin senders /\ daily[h] = 0  BY <1>2 DEF EventsSound
<1>5. /\ memory' \in [Request -> {0, 1}] /\ early' \subseteq Request
      /\ rebuild' # "done" => batch' \subseteq early'
  BY <1>1, <1>2, <1>3 DEF CountsSound
<1>6. ASSUME NEW r \in Request
      PROVE  /\ r \in OnChannel' \union senders' \/ r \notin usageGiven' => memory'[r] = 0
             /\ snapshot'[r] = 1 => daily'[r] = 1
             /\ rebuild' \in {"loaded", "reset"} /\ daily'[r] = 1 /\ r \notin early' => snapshot'[r] = 1
             /\ rebuild' = "done" /\ (daily'[r] = 1 \/ r \in batch') /\ r \notin early' => memory'[r] = 1
             /\ r \in usageGiven' => r \in OnChannel' \union senders' \union batch' \union usageExcused'
                                       \/ daily'[r] = 1
  <2>1. CASE r = h
    <3>1. memory'[r] = 1 /\ r \notin OnChannel' \union senders' /\ r \in batch' /\ r \in usageGiven'
      BY <1>1, <1>2, <1>3, <1>4, <2>1
    <3>2. daily'[r] = 0 /\ snapshot'[r] # 1
      BY <1>1, <1>4, <2>1 DEF CountsSound
    <3> QED  BY <3>1, <3>2
  <2>2. CASE r # h
    <3>1. memory'[r] = memory[r]  BY <1>3, <2>2
    <3>2. /\ r \in OnChannel' <=> r \in OnChannel
          /\ r \in batch' <=> r \in batch
          /\ r \in early' <=> r \in early
      BY <1>1, <1>2, <2>2
    <3> QED  BY <1>1, <3>1, <3>2 DEF CountsSound
  <2> QED  BY <2>1, <2>2
<1> QED  BY <1>1, <1>5, <1>6 DEF CountsSound

\* What the batch held was counted, before the rebuild was through or after.
LEMMA BatchCommitted == ASSUME EventsSound, CountsSound, UsageWritten PROVE CountsSound'
<1> PICK ok \in BOOLEAN : CommitUsage(ok) /\ Writes(ok)
  BY DEF UsageWritten
<1>1. /\ UNCHANGED <<channel, senders, memory, usageGiven, rebuild, snapshot, early>>
      /\ batch' = {}
      /\ daily' = [r \in Request |-> IF ok /\ r \in batch THEN 1 ELSE daily[r]]
      /\ usageExcused' = usageExcused \union IF ok THEN {} ELSE batch
  BY DEF CommitUsage, Writes, AddAll, EventsSound
<1>2. OnChannel' = OnChannel  BY <1>1 DEF OnChannel
<1> QED  BY <1>1, <1>2 DEF CountsSound, EventsSound

\* The rebuild's sections, with events counted between them.
LEMMA RebuildSound ==
    ASSUME EventsSound, CountsSound, LoadDays \/ ResetStats \/ BootstrapDays
    PROVE  CountsSound'
<1>1. UNCHANGED <<channel, senders, batch, daily, usageGiven, usageExcused, early>>
  BY DEF LoadDays, ResetStats, BootstrapDays, usageVars
<1>2. OnChannel' = OnChannel  BY <1>1 DEF OnChannel
<1>3. CASE LoadDays
  BY <1>1, <1>2, <1>3 DEF LoadDays, usageVars, CountsSound, EventsSound
<1>4. CASE ResetStats
  BY <1>1, <1>2, <1>4 DEF ResetStats, Zero, CountsSound
<1>5. CASE BootstrapDays
  <2>1. \A r \in Request : snapshot[r] > 0 <=> snapshot[r] = 1  BY DEF CountsSound
  <2> QED  BY <1>1, <1>2, <1>5, <2>1 DEF BootstrapDays, Bootstrapped, DayLoaded, Zero, CountsSound, EventsSound
<1> QED  BY <1>3, <1>4, <1>5

LEMMA CountsRestart ==
    ASSUME EventsSound, WorkerSound, CountsSound, CloseDatabase \/ Crash
    PROVE  CountsSound'
<1>1. PICK excuse \in SUBSET Request :
              /\ LoseUsage(excuse) /\ OnChannel \union senders \union batch \subseteq excuse
              /\ rebuild' = "due" /\ snapshot' = Zero /\ early' = {}
  BY UsageExcused
<1>a. Unstored = OnChannel \union senders \union batch
  BY DEF Unstored, AllEvents, OnChannel, EventsSound
<1>2. OnChannel' = {}  BY <1>1 DEF LoseUsage, OnChannel
<1> QED  BY <1>1, <1>2, <1>a DEF LoseUsage, Zero, CountsSound

LEMMA CountsStep ==
    ASSUME EventsSound, WorkerSound, CountsSound, [Next]_vars
    PROVE  CountsSound'
<1>1. CASE \E r \in Request : RecordUsage(r) \/ Overflow(r)
  BY <1>1, EventComes
<1>2. CASE UsageTaken  BY <1>2, EventCounted
<1>3. CASE UsageWritten  BY <1>3, BatchCommitted
<1>4. CASE LoadDays \/ ResetStats \/ BootstrapDays  BY <1>4, RebuildSound
<1>5. CASE CloseDatabase \/ Crash  BY <1>5, CountsRestart
<1>6. CASE \/ \E r \in Request : \/ Begin(r) \/ ReadKeyUsage(r) \/ Decide(r) \/ Reserve(r)
                                  \/ Exchange(r) \/ RecordRow(r) \/ LeaveImage(r)
           \/ UsageMoves \/ LogMoves \/ LogRead \/ LogWritten \/ ReadWritten
           \/ Stop \/ Drained \/ RowsLanded \/ RowsLate \/ UsageLanded \/ UNCHANGED vars
  <2>1. UNCHANGED <<channel, senders, batch, memory, daily, usageGiven, usageExcused, rebuild,
                    snapshot, early>>
    BY <1>6 DEF Begin, ReadKeyUsage, Decide, Reserve, Exchange, RecordRow, LeaveImage, UsageMoves,
       UsageTimer, SeeStop, EndDrain, LogMoves, LogRead, LogWritten, ReadWritten, Stop, Drained,
       RowsLanded, StopUsage, RowsLate, UsageLanded, Proceed, Writes, vars, usageVars, runVars
  <2> QED  BY <2>1, CountsUntouched
<1> QED  BY <1>1, <1>2, <1>3, <1>4, <1>5, <1>6 DEF Next, Serve

\* However the worker, refused writes, crashes and the rebuild of a new process
\* interleave, the counts in memory never end behind the database, and end with each
\* event as often as it, but for the events lost with a refused batch or with the
\* process that held them, and for what was counted while they were being replaced.
THEOREM MemoryMatchesDailyCorrect == Spec => []MemoryMatchesDaily
<1>1. EventsSound /\ WorkerSound /\ [Next]_vars => EventsSound' /\ WorkerSound'
  BY UsageStep
<1>2. EventsSound /\ WorkerSound /\ CountsSound /\ [Next]_vars => CountsSound'
  BY CountsStep
<1>3. EventsSound /\ CountsSound => MemoryMatchesDaily
  BY DEF EventsSound, CountsSound, MemoryMatchesDaily, Unstored, AllEvents, OnChannel
<1> QED  BY <1>1, <1>2, <1>3, EventsInit, CountsInit, PTL DEF Spec

-----------------------------------------------------------------------------
(***************************************************************************)
(* The totals of a window: sums over sets of requests.                     *)
(***************************************************************************)
\* The one a sum over s takes first.
Any(s) == CHOOSE x \in s : TRUE

\* What one event adds to a total.
Worth(counts, sp, part, x) == counts[x] * sp[x][part]

\* The totals of every set of requests, counted as often as counts says.
Totals(counts, sp, part) ==
    CHOOSE f : f = [s \in SUBSET Request |->
        IF s = {} THEN 0
        ELSE LET x == Any(s)
             IN  Worth(counts, sp, part, x) + f[s \ {x}]]

\* The model's total is the one of all requests.
LEMMA TotalOf ==
    ASSUME NEW counts, NEW part
    PROVE  Total(counts, part) = Totals(counts, spent, part)[Request]
BY DEF Total, Totals, Any, Worth, MapThenSumSet, MapThenFoldSet

\* There is such a function: one for the sets of up to n requests extends to the next.
LEMMA TotalsSteps ==
    ASSUME NEW counts, NEW sp, NEW part
    PROVE  /\ Totals(counts, sp, part)[{}] = 0
           /\ \A s \in SUBSET Request : s # {} =>
                 LET x == Any(s)
                 IN  Totals(counts, sp, part)[s]
                       = Worth(counts, sp, part, x) + Totals(counts, sp, part)[s \ {x}]
<1> DEFINE Step(f, s) == IF s = {} THEN 0
                         ELSE LET x == Any(s)
                              IN  Worth(counts, sp, part, x) + f[s \ {x}]
           S == {n \in Nat : \E f : /\ f = [s \in SUBSET Request |-> f[s]]
                                    /\ \A s \in SUBSET Request : Cardinality(s) <= n => f[s] = Step(f, s)}
<1>1. \A s \in SUBSET Request :
         /\ IsFiniteSet(s) /\ Cardinality(s) \in Nat /\ (Cardinality(s) = 0 <=> s = {})
         /\ s # {} => /\ Any(s) \in s
                      /\ \A x \in s : Cardinality(s \ {x}) = Cardinality(s) - 1
         /\ Cardinality(s) <= Cardinality(Request)
  BY RequestsFinite, FS_Subset, FS_CardinalityType, FS_EmptySet, FS_RemoveElement DEF Any
<1>2. 0 \in S
  <2> DEFINE f == [s \in SUBSET Request |-> 0]
  <2>1. f = [s \in SUBSET Request |-> f[s]]  OBVIOUS
  <2>2. \A s \in SUBSET Request : Cardinality(s) <= 0 => f[s] = Step(f, s)  BY <1>1
  <2> HIDE DEF f, Step
  <2> QED  BY <2>1, <2>2
<1>3. ASSUME NEW n \in Nat, n \in S PROVE n + 1 \in S
  <2>1. PICK f : /\ f = [s \in SUBSET Request |-> f[s]]
                 /\ \A s \in SUBSET Request : Cardinality(s) <= n => f[s] = Step(f, s)
    BY <1>3
  <2> DEFINE g == [s \in SUBSET Request |-> IF Cardinality(s) = n + 1 THEN Step(f, s) ELSE f[s]]
  <2>2. \A s \in SUBSET Request : Cardinality(s) <= n => g[s] = f[s]  BY <1>1
  <2>3. ASSUME NEW s \in SUBSET Request, Cardinality(s) <= n + 1 PROVE Step(g, s) = Step(f, s)
    <3>1. CASE s = {}  BY <3>1
    <3>2. CASE s # {}
      <4> DEFINE x == Any(s)
      <4>1. x \in s /\ s \ {x} \in SUBSET Request /\ Cardinality(s \ {x}) <= n  BY <1>1, <2>3, <3>2
      <4> HIDE DEF x, g
      <4>2. g[s \ {x}] = f[s \ {x}]  BY <2>2, <4>1
      <4> QED  BY <3>2, <4>2 DEF x
    <3> QED  BY <3>1, <3>2
  <2>4. ASSUME NEW s \in SUBSET Request, Cardinality(s) <= n + 1 PROVE g[s] = Step(g, s)
    <3>1. CASE Cardinality(s) <= n
      <4> HIDE DEF Step, g
      <4> QED  BY <2>1, <2>2, <2>3, <2>4, <3>1
    <3>2. CASE Cardinality(s) = n + 1
      <4>1. g[s] = Step(f, s)  BY <3>2
      <4> HIDE DEF Step, g
      <4> QED  BY <2>3, <2>4, <4>1
    <3>3. Cardinality(s) \in Nat  BY <1>1
    <3> HIDE DEF Step, g
    <3> QED  BY <2>4, <3>1, <3>2, <3>3
  <2>5. g = [s \in SUBSET Request |-> g[s]]  OBVIOUS
  <2> HIDE DEF Step, g
  <2>6. \E h : /\ h = [s \in SUBSET Request |-> h[s]]
               /\ \A s \in SUBSET Request : Cardinality(s) <= n + 1 => h[s] = Step(h, s)
    BY <2>4, <2>5
  <2>7. n + 1 \in Nat  OBVIOUS
  <2> QED  BY <2>6, <2>7
<1>4. Cardinality(Request) \in S
  <2>1. Cardinality(Request) \in Nat  BY RequestsFinite, FS_CardinalityType
  <2> HIDE DEF S
  <2> QED  BY <1>2, <1>3, <2>1, Inductive
<1>5. \E f : f = [s \in SUBSET Request |-> Step(f, s)]
  <2>1. PICK f : /\ f = [s \in SUBSET Request |-> f[s]]
                 /\ \A s \in SUBSET Request : Cardinality(s) <= Cardinality(Request) => f[s] = Step(f, s)
    BY <1>4
  <2>2. \A s \in SUBSET Request : f[s] = Step(f, s)
    <3> HIDE DEF Step
    <3> QED  BY <1>1, <2>1
  <2> HIDE DEF Step
  <2>3. f = [s \in SUBSET Request |-> Step(f, s)]  BY <2>1, <2>2
  <2> QED  BY <2>3
<1> DEFINE F == Totals(counts, sp, part)
<1>6. F = [s \in SUBSET Request |-> Step(F, s)]  BY <1>5 DEF Totals
<1> HIDE DEF F
<1>7. \A s \in SUBSET Request : F[s] = Step(F, s)
  <2> HIDE DEF Step
  <2> QED  BY <1>6
<1>8. F[{}] = 0  BY <1>7
<1>9. ASSUME NEW s \in SUBSET Request, s # {}
      PROVE  LET x == Any(s) IN  F[s] = Worth(counts, sp, part, x) + F[s \ {x}]
  BY <1>7, <1>9
<1> QED  BY <1>8, <1>9 DEF F

\* No event worth less, no total less.
LEMMA TotalsMonotone ==
    ASSUME NEW a, NEW b, NEW p, NEW q, NEW part,
           \A r \in Request : /\ Worth(a, p, part, r) \in Nat /\ Worth(b, q, part, r) \in Nat
                              /\ Worth(a, p, part, r) <= Worth(b, q, part, r)
    PROVE  /\ Totals(a, p, part)[Request] \in Nat /\ Totals(b, q, part)[Request] \in Nat
           /\ Totals(a, p, part)[Request] <= Totals(b, q, part)[Request]
<1> DEFINE F == Totals(a, p, part)
           G == Totals(b, q, part)
           S == {n \in Nat : \A s \in SUBSET Request : Cardinality(s) = n =>
                                F[s] \in Nat /\ G[s] \in Nat /\ F[s] <= G[s]}
<1>0. /\ F[{}] = 0
      /\ \A s \in SUBSET Request : s # {} =>
            LET x == Any(s) IN  F[s] = Worth(a, p, part, x) + F[s \ {x}]
  BY TotalsSteps
<1>1. /\ G[{}] = 0
      /\ \A s \in SUBSET Request : s # {} =>
            LET x == Any(s) IN  G[s] = Worth(b, q, part, x) + G[s \ {x}]
  BY TotalsSteps
<1>2. \A s \in SUBSET Request :
         /\ IsFiniteSet(s) /\ Cardinality(s) \in Nat /\ (Cardinality(s) = 0 <=> s = {})
         /\ s # {} => /\ Any(s) \in s
                      /\ \A x \in s : Cardinality(s \ {x}) = Cardinality(s) - 1
  BY RequestsFinite, FS_Subset, FS_CardinalityType, FS_EmptySet, FS_RemoveElement DEF Any
<1> HIDE DEF F, G
<1>3. 0 \in S
  <2>1. \A s \in SUBSET Request : Cardinality(s) = 0 => s = {}  BY <1>2
  <2>2. F[{}] = 0 /\ G[{}] = 0  BY <1>0, <1>1
  <2> QED  BY <2>1, <2>2
<1>4. ASSUME NEW n \in Nat, n \in S PROVE n + 1 \in S
  <2> SUFFICES ASSUME NEW s \in SUBSET Request, Cardinality(s) = n + 1
               PROVE  F[s] \in Nat /\ G[s] \in Nat /\ F[s] <= G[s]
    OBVIOUS
  <2> DEFINE x == Any(s)
             rest == s \ {x}
  <2>1. s # {} /\ x \in s /\ x \in Request /\ rest \in SUBSET Request /\ Cardinality(rest) = n
    <3>1. s # {}  BY <1>2
    <3>2. x \in s  BY <1>2, <3>1
    <3> HIDE DEF x
    <3>3. Cardinality(s \ {x}) = Cardinality(s) - 1  BY <1>2, <3>1, <3>2
    <3> QED  BY <3>1, <3>2, <3>3
  <2>2. F[rest] \in Nat /\ G[rest] \in Nat /\ F[rest] <= G[rest]
    <3> HIDE DEF rest
    <3> QED  BY <1>4, <2>1
  <2>3. F[s] = Worth(a, p, part, x) + F[rest] /\ G[s] = Worth(b, q, part, x) + G[rest]
    BY <1>0, <1>1, <2>1
  <2> HIDE DEF x, rest
  <2>4. /\ Worth(a, p, part, x) \in Nat /\ Worth(b, q, part, x) \in Nat
        /\ Worth(a, p, part, x) <= Worth(b, q, part, x)
    BY <2>1
  <2> DEFINE u == Worth(a, p, part, x)
             v == Worth(b, q, part, x)
  <2>5. F[s] = u + F[rest] /\ G[s] = v + G[rest] /\ u \in Nat /\ v \in Nat /\ u <= v
    BY <2>3, <2>4
  <2> HIDE DEF u, v
  <2> QED  BY <2>2, <2>5
<1>5. Cardinality(Request) \in Nat /\ Request \in SUBSET Request
  BY RequestsFinite, FS_CardinalityType
<1>6. Cardinality(Request) \in S
  <2> HIDE DEF S
  <2> QED  BY <1>3, <1>4, <1>5, Inductive
<1> QED  BY <1>5, <1>6 DEF F, G

-----------------------------------------------------------------------------
(***************************************************************************)
(* Refusals.                                                               *)
(***************************************************************************)
Once == [q \in Request |-> 1]
Part == {"tokens", "cost"}
Usage == [tokens : Nat, cost : Nat]

\* What a request has read of the window is at most what was really spent by then,
\* and nothing is spent before the answer.
ReadSound ==
    /\ spent \in [Request -> Usage] /\ seen \in [Request -> Usage]
    /\ \A r \in Request :
          /\ phase[r] \in {"idle", "admitting", "read", "cleared", "flying"} => spent[r] = Nothing
          /\ \A part \in Part : seen[r][part] <= Totals(Once, spent, part)[Request]

\* Counted at most once, an event is worth at most what was spent on it.
LEMMA OnceWorth ==
    ASSUME NEW p \in [Request -> Usage], NEW counts \in [Request -> {0, 1}], NEW part \in Part,
           NEW r \in Request
    PROVE  /\ Worth(Once, p, part, r) = p[r][part] /\ p[r][part] \in Nat
           /\ Worth(counts, p, part, r) \in {0, p[r][part]}
<1> DEFINE n == p[r][part]
<1>1. n \in Nat  BY DEF Part, Usage
<1>2. Once[r] = 1 /\ counts[r] \in {0, 1}  BY DEF Once
<1> HIDE DEF n
<1>3. 1 * n = n /\ 0 * n = 0  BY <1>1
<1> QED  BY <1>1, <1>2, <1>3 DEF Worth, n

\* So no count of at most one raises a total over the real one,
LEMMA CountedOnce ==
    ASSUME NEW p \in [Request -> Usage], NEW counts \in [Request -> {0, 1}], NEW part \in Part
    PROVE  /\ Totals(counts, p, part)[Request] \in Nat /\ Totals(Once, p, part)[Request] \in Nat
           /\ Totals(counts, p, part)[Request] <= Totals(Once, p, part)[Request]
<1>1. \A r \in Request : /\ Worth(counts, p, part, r) \in Nat /\ Worth(Once, p, part, r) \in Nat
                         /\ Worth(counts, p, part, r) <= Worth(Once, p, part, r)
  BY OnceWorth
<1> QED  BY <1>1, TotalsMonotone

\* and the real one only grows.
LEMMA SpentMore ==
    ASSUME NEW p \in [Request -> Usage], NEW q \in [Request -> Usage], NEW part \in Part,
           \A r \in Request : p[r][part] <= q[r][part]
    PROVE  /\ Totals(Once, p, part)[Request] \in Nat /\ Totals(Once, q, part)[Request] \in Nat
           /\ Totals(Once, p, part)[Request] <= Totals(Once, q, part)[Request]
<1>1. Once \in [Request -> {0, 1}]  BY DEF Once
<1>2. \A r \in Request : /\ Worth(Once, p, part, r) \in Nat /\ Worth(Once, q, part, r) \in Nat
                         /\ Worth(Once, p, part, r) <= Worth(Once, q, part, r)
  BY <1>1, OnceWorth
<1> QED  BY <1>2, TotalsMonotone

LEMMA ReadInit == Init => ReadSound
<1> SUFFICES ASSUME Init PROVE ReadSound  OBVIOUS
<1>1. Nothing \in Usage /\ Once \in [Request -> {0, 1}] /\ spent \in [Request -> Usage]
      /\ seen \in [Request -> Usage]
  BY DEF Init, QuotaInit, Nothing, Usage, Once
<1>2. \A part \in Part : Totals(Once, spent, part)[Request] \in Nat
  BY <1>1, CountedOnce
<1>3. \A r \in Request, part \in Part : seen[r][part] = 0
  BY DEF Init, QuotaInit, Nothing, Part
<1> QED  BY <1>1, <1>2, <1>3 DEF Init, QuotaInit, ReadSound

\* What a step that spends nothing, or spends for the first time, does to what was read.
LEMMA ReadKept ==
    ASSUME ReadSound, spent' \in [Request -> Usage],
           \A r \in Request : /\ spent'[r] = spent[r] \/ spent[r] = Nothing
                              /\ phase'[r] \in {"idle", "admitting", "read", "cleared", "flying"}
                                   => spent'[r] = Nothing
                              /\ seen'[r] \in {seen[r], Nothing, WindowUsage},
           DOMAIN seen' = Request, seen' = [r \in Request |-> seen'[r]],
           memory \in [Request -> {0, 1}]
    PROVE  ReadSound'
<1>1. \A r \in Request, part \in Part : spent[r][part] <= spent'[r][part]
  BY DEF ReadSound, Usage, Part, Nothing
<1>2. \A part \in Part : /\ Totals(Once, spent, part)[Request] \in Nat
                         /\ Totals(Once, spent', part)[Request] \in Nat
                         /\ Totals(Once, spent, part)[Request] <= Totals(Once, spent', part)[Request]
  BY <1>1, SpentMore DEF ReadSound
<1>3. /\ WindowUsage \in Usage
      /\ \A part \in Part : WindowUsage[part] <= Totals(Once, spent, part)[Request]
  <2>1. \A part \in Part : /\ Totals(memory, spent, part)[Request] \in Nat
                           /\ Totals(memory, spent, part)[Request] <= Totals(Once, spent, part)[Request]
    BY CountedOnce DEF ReadSound
  <2>2. WindowUsage = [tokens |-> Totals(memory, spent, "tokens")[Request],
                       cost |-> Totals(memory, spent, "cost")[Request]]
    BY TotalOf DEF WindowUsage
  <2> QED  BY <2>1, <2>2 DEF Part, Usage
<1>4. ASSUME NEW r \in Request
      PROVE  /\ seen'[r] \in Usage
             /\ \A part \in Part : seen'[r][part] <= Totals(Once, spent', part)[Request]
  <2>1. Nothing \in Usage /\ \A part \in Part : Nothing[part] = 0
    BY DEF Nothing, Usage, Part
  <2>2. seen[r] \in Usage /\ \A part \in Part : seen[r][part] \in Nat
    BY DEF ReadSound, Usage, Part
  <2>3. \A part \in Part : WindowUsage[part] \in Nat
    BY <1>3 DEF Usage, Part
  <2>4. CASE seen'[r] = seen[r]  BY <1>2, <2>2, <2>4 DEF ReadSound
  <2>5. CASE seen'[r] = Nothing  BY <1>2, <2>1, <2>5
  <2>6. CASE seen'[r] = WindowUsage  BY <1>2, <1>3, <2>3, <2>6
  <2> QED  BY <2>4, <2>5, <2>6
<1>5. seen' \in [Request -> Usage]  BY <1>4
<1> QED  BY <1>4, <1>5 DEF ReadSound

\* Every step keeps it: usage is read from counts that hold an event once at most.
LEMMA ReadStep ==
    ASSUME ReadSound, CountsSound, HoldersMatch, [Next]_vars
    PROVE  ReadSound'
<1> USE DEF HoldersMatch
<1>0. memory \in [Request -> {0, 1}] /\ Nothing \in Usage  BY DEF CountsSound, Nothing, Usage
<1>1. ASSUME NEW r \in Request, NEW outcome \in Outcome, Answer(r, outcome) PROVE ReadSound'
  <2>1. outcome.usage \in Usage  BY QuotaAssumption DEF Usage
  <2>2. spent[r] = Nothing /\ spent' = [spent EXCEPT ![r] = outcome.usage] /\ seen' = seen
        /\ phase' = [phase EXCEPT ![r] = "ended"]
    BY <1>1 DEF Answer, ReadSound
  <2> QED  BY <1>0, <2>1, <2>2, ReadKept DEF ReadSound
<1>2. ASSUME NEW r \in Request,
             Arrive(r, image'[r]) \/ ReadUsage(r) \/ Admit(r) \/ Refuse(r) \/ Hold(r) \/ Counted(r)
             \/ Logged(r) \/ ReleaseLate(r)
      PROVE  ReadSound'
  <2>1. /\ spent' = spent
        /\ \A q \in Request \ {r} : phase'[q] = phase[q]
        /\ phase'[r] \in {"idle", "admitting", "read", "cleared", "flying"} =>
              phase[r] \in {"idle", "admitting", "read", "cleared", "flying"}
        /\ \/ seen' = seen \/ seen' = [seen EXCEPT ![r] = Nothing]
           \/ seen' = [seen EXCEPT ![r] = WindowUsage]
    BY <1>2 DEF Arrive, ReadUsage, Admit, Refuse, Hold, Counted, Logged, ReleaseLate
  <2>2. \A q \in Request : seen'[q] \in {seen[q], Nothing, WindowUsage}
    BY <2>1 DEF ReadSound
  <2>3. DOMAIN seen' = Request /\ seen' = [q \in Request |-> seen'[q]]
    BY <2>1 DEF ReadSound
  <2> QED  BY <1>0, <2>1, <2>2, <2>3, ReadKept DEF ReadSound
<1>3. ASSUME LoseKey PROVE ReadSound'
  <2>1. /\ spent' = spent /\ seen' = [r \in Request |-> Nothing]
        /\ \A r \in Request : phase'[r] \in {phase[r], "cut"}
    BY <1>3 DEF LoseKey
  <2> QED  BY <1>0, <2>1, ReadKept DEF ReadSound
<1>4. ASSUME UNCHANGED <<phase, spent, seen>> PROVE ReadSound'
  BY <1>0, <1>4, ReadKept DEF ReadSound
<1>5. Next => \/ \E r \in Request : \/ \E outcome \in Outcome : Answer(r, outcome)
                                    \/ Arrive(r, image'[r]) \/ ReadUsage(r) \/ Admit(r) \/ Refuse(r)
                                    \/ Hold(r) \/ Counted(r) \/ Logged(r) \/ ReleaseLate(r)
              \/ LoseKey \/ UNCHANGED <<phase, spent, seen>>
  <2>1. \A r \in Request : Begin(r) => Arrive(r, image'[r])
    BY DEF Begin, Arrive
  <2>2. \A r \in Request : Serve(r) => 
           \/ \E outcome \in Outcome : Answer(r, outcome)
           \/ Arrive(r, image'[r]) \/ ReadUsage(r) \/ Admit(r) \/ Refuse(r)
           \/ Hold(r) \/ Counted(r) \/ Logged(r) \/ ReleaseLate(r)
    BY <2>1 DEF Serve, ReadKeyUsage, Decide, Reserve, Exchange, RecordUsage, RecordRow, LeaveImage
  <2>3. CloseDatabase \/ Crash => LoseKey
    BY DEF CloseDatabase, Crash, Restart
  <2>4. Next => \/ \E r \in Request : Serve(r)
                \/ CloseDatabase \/ Crash \/ UNCHANGED <<phase, spent, seen>>
    BY DEF Next, Overflow, UsageTaken, UsageMoves, UsageWritten, LogMoves, LogRead,
         LogWritten, ReadWritten, LoadDays, ResetStats, BootstrapDays, Stop, Drained,
         RowsLanded, RowsLate, UsageLanded, Proceed, quotaVars
  <2> QED  BY <2>2, <2>3, <2>4
<1>6. UNCHANGED vars => UNCHANGED <<phase, spent, seen>>  BY DEF vars, quotaVars
<1> QED  BY <1>1, <1>2, <1>3, <1>4, <1>5, <1>6

\* So what a refusal compares is no more than what is true.
LEMMA RefusedJustly ==
    ASSUME ReadSound, HoldersMatch
    PROVE  \A r \in Request :
             /\ OverTokens(r) => Total(Once, "tokens") + Prompt * (Cardinality(holders) + 1) > TokenLimit
             /\ OverCost(r) => Total(Once, "cost") >= CostLimit
<1> SUFFICES ASSUME NEW r \in Request
             PROVE  /\ OverTokens(r) => Total(Once, "tokens") + Prompt * (Cardinality(holders) + 1) > TokenLimit
                    /\ OverCost(r) => Total(Once, "cost") >= CostLimit
  OBVIOUS
<1> DEFINE T == Totals(Once, spent, "tokens")[Request]
           C == Totals(Once, spent, "cost")[Request]
<1>1. Once \in [Request -> {0, 1}]  BY DEF Once
<1>2. T \in Nat /\ C \in Nat  BY <1>1, CountedOnce DEF ReadSound, Part
<1>3. seen[r].tokens \in Nat /\ seen[r].tokens <= T /\ seen[r].cost \in Nat /\ seen[r].cost <= C
  BY DEF ReadSound, Part, Usage
<1>4. Total(Once, "tokens") = T /\ Total(Once, "cost") = C  BY TotalOf
<1>5. Prompt * (Cardinality(holders) + 1) = reserved + Prompt /\ reserved \in Nat
  <2>1. Cardinality(holders) \in Nat
    BY RequestsFinite, FS_Subset, FS_CardinalityType DEF HoldersMatch
  <2>2. reserved = Prompt * Cardinality(holders)  BY DEF HoldersMatch, ReservationsMatch
  <2> QED  BY <2>1, <2>2, QuotaAssumption
<1> HIDE DEF T, C
<1>6. OverTokens(r) => T + (reserved + Prompt) > TokenLimit
  BY <1>2, <1>3, <1>5, QuotaAssumption DEF OverTokens
<1>7. OverCost(r) => C >= CostLimit
  BY <1>2, <1>3, QuotaAssumption DEF OverCost
<1> QED  BY <1>4, <1>5, <1>6, <1>7

\* No request is refused for usage that was counted twice or for a reservation that
\* outlived its request, whatever was rebuilt, released or answered since it read
\* the window.
THEOREM RefusalJustifiedCorrect == Spec => RefusalJustified
<1>1. EventsSound /\ WorkerSound /\ [Next]_vars => EventsSound' /\ WorkerSound'
  BY UsageStep
<1>2. EventsSound /\ WorkerSound /\ CountsSound /\ [Next]_vars => CountsSound'
  BY CountsStep
<1>3. ReadSound /\ CountsSound /\ HoldersMatch /\ [Next]_vars => ReadSound'
  BY ReadStep
<1>4. ReadSound /\ HoldersMatch /\ [Next]_vars =>
        [\A r \in Request : phase[r] = "read" /\ phase'[r] = "refused" =>
          LET Only == [q \in Request |-> 1]
              tokens == Total(Only, "tokens")
              held == Prompt * (Cardinality(holders) + 1)
          IN /\ OverTokens(r) => tokens + held > TokenLimit
             /\ OverCost(r) => Total(Only, "cost") >= CostLimit]_vars
  BY RefusedJustly DEF Once
<1> QED  BY <1>1, <1>2, <1>3, <1>4, EventsInit, CountsInit, ReadInit, HoldersInit, HoldersStep, PTL
     DEF Spec, RefusalJustified

\* The rest of the types.
Typed ==
    /\ failure \in [Request -> BOOLEAN] /\ wake \in BOOLEAN
    /\ runtime \in {"up", "draining", "rows", "usage", "database"}
    /\ mishaps \in Nat /\ lives \in Nat

LEMMA TypedStep == Typed /\ [Next]_vars => Typed'
<1> SUFFICES ASSUME Typed, [Next]_vars PROVE Typed'  OBVIOUS
<1> USE DEF Typed, Mishap
<1>1. ASSUME NEW r \in Request, Serve(r) PROVE Typed'
  <2>1. failure' \in [Request -> BOOLEAN]
    BY <1>1, QuotaAssumption
       DEF Serve, Begin, Arrive, ReadKeyUsage, ReadUsage, Decide, Admit, Refuse, Reserve, Hold,
           Exchange, Answer, RecordUsage, Counted, RecordRow, Logged, LeaveImage, ReleaseLate
  <2>2. wake' \in BOOLEAN
    BY <1>1 DEF Serve, Begin, ReadKeyUsage, Decide, Reserve, Exchange, RecordUsage, RecordRow,
                LeaveImage, logVars, AppendRow
  <2>3. UNCHANGED <<runtime, lives>> /\ mishaps' \in Nat
    BY <1>1 DEF Serve, Begin, ReadKeyUsage, Decide, Reserve, Exchange, RecordUsage, RecordRow,
                LeaveImage, runVars, Writes
  <2> QED  BY <2>1, <2>2, <2>3
<1>2. CASE \E r \in Request : Overflow(r)
  BY <1>2 DEF Overflow, logVars, quotaVars, runVars
<1>3. CASE UsageTaken \/ UsageMoves \/ UsageWritten \/ LoadDays \/ ResetStats \/ BootstrapDays
  BY <1>3 DEF UsageTaken, UsageMoves, UsageWritten, LoadDays, ResetStats, BootstrapDays, Writes,
              logVars, quotaVars, runVars
<1>4. CASE LogMoves \/ LogRead \/ LogWritten \/ ReadWritten
  <2>1. wake' \in BOOLEAN
    BY <1>4 DEF LogMoves, FlushTick, FlushWake, FlushStop, LogRead, ReadFlush, LogWritten, Flushed,
                ReadWritten, ReadFlushed
  <2>2. UNCHANGED <<failure, runtime, lives>> /\ mishaps' \in Nat
    BY <1>4 DEF LogMoves, LogRead, LogWritten, ReadWritten, Writes, quotaVars, runVars
  <2> QED  BY <2>1, <2>2
<1>5. CASE Stop \/ Drained \/ RowsLanded \/ RowsLate \/ UsageLanded
  BY <1>5 DEF Stop, Drained, CloseLog, RowsLanded, RowsLate, UsageLanded, Proceed, logVars, quotaVars
<1>6. CASE CloseDatabase \/ Crash
  <2>1. wake' \in BOOLEAN
    BY <1>6 DEF CloseDatabase, Crash, Restart, LoseRows
  <2>2. failure' = failure /\ runtime' = "up" /\ lives' \in Nat /\ mishaps' \in Nat
    BY <1>6 DEF CloseDatabase, Crash, Restart, LoseKey
  <2> QED  BY <2>1, <2>2
<1>7. CASE UNCHANGED vars
  BY <1>7 DEF vars, logVars, quotaVars, runVars
<1> QED  BY <1>1, <1>2, <1>3, <1>4, <1>5, <1>6, <1>7 DEF Next

\* The variables have their types: the reservation is what the holders reserved, and
\* never goes below zero, and what a request reads of the window is a number.
THEOREM TypeCorrect == Spec => []TypeOK
<1>1. EventsSound /\ WorkerSound /\ [Next]_vars => EventsSound' /\ WorkerSound'
  BY UsageStep
<1>2. EventsSound /\ WorkerSound /\ CountsSound /\ [Next]_vars => CountsSound'
  BY CountsStep
<1>3. ReadSound /\ CountsSound /\ HoldersMatch /\ [Next]_vars => ReadSound'
  BY ReadStep
<1>4. RowsSound /\ LoopSound /\ [Next]_vars => RowsSound' /\ LoopSound'
  BY RowsStep
<1>5. Init => Typed
  <2> SUFFICES ASSUME Init PROVE Typed  OBVIOUS
  <2>1. failure \in [Request -> BOOLEAN] /\ wake \in BOOLEAN
    BY DEF Init, QuotaInit, LogInit
  <2>2. runtime = "up" /\ mishaps \in Nat /\ lives \in Nat
    BY DEF Init
  <2> QED  BY <2>1, <2>2 DEF Typed
<1>6. EventsSound /\ WorkerSound /\ CountsSound /\ ReadSound /\ HoldersMatch /\ RowsSound /\ LoopSound
      /\ Typed => TypeOK
  <2> SUFFICES ASSUME EventsSound, WorkerSound, CountsSound, ReadSound, HoldersMatch, RowsSound,
                      LoopSound, Typed
               PROVE  TypeOK
    OBVIOUS
  <2>1. UsageTypeOK
    <3>1. memory \in [Request -> Nat] /\ daily \in [Request -> Nat]
      BY DEF EventsSound, CountsSound
    <3>2. worker \in WorkerState /\ usageStop \in BOOLEAN
      BY DEF WorkerSound
    <3>3. channel \in Seq(Request)  BY DEF EventsSound
    <3> QED  BY <3>1, <3>2, <3>3 DEF UsageTypeOK, EventsSound
  <2>2. LogTypeOK  BY DEF LogTypeOK, RowsSound, LoopSound, Typed
  <2>3. QuotaTypeOK
    <3>1. Cardinality(holders) \in Nat
      BY RequestsFinite, FS_Subset, FS_CardinalityType DEF HoldersMatch
    <3>2. reserved \in Nat
      BY <3>1, QuotaAssumption DEF HoldersMatch, ReservationsMatch
    <3> QED  BY <3>2 DEF QuotaTypeOK, HoldersMatch, Typed, ReadSound, Usage
  <2>4. snapshot \in [Request -> Nat]  BY DEF CountsSound
  <2> QED  BY <2>1, <2>2, <2>3, <2>4 DEF TypeOK, CountsSound, LoopSound, Typed
<1> QED  BY <1>1, <1>2, <1>3, <1>4, <1>5, <1>6, EventsInit, CountsInit, ReadInit, HoldersInit,
            HoldersStep, RowsInit, TypedStep, PTL DEF Spec
=============================================================================
