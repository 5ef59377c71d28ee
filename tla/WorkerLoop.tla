----------------------------- MODULE WorkerLoop -----------------------------
(***************************************************************************)
(* The long-lived workers: runOutboundWebhookWorker                        *)
(* (outbound-webhook-worker.ts) and runSequenceWorker (sequence-engine.ts).*)
(* A worker repeats a tick, stores a record of itself after every tick,    *)
(* and a timer stores heartbeats of the same record in between.  An abort  *)
(* signal ends the loop; the final state is then stored.                   *)
(*                                                                         *)
(* The two differ in how their writes are ordered.  A sequence worker puts *)
(* every write, heartbeats included, in one queue and builds the record    *)
(* when it is queued.  A webhook worker chains the heartbeats only: the    *)
(* record of a heartbeat is built when its turn comes and may be stored    *)
(* before or after a record of the loop.                                   *)
(*                                                                         *)
(* What a tick does is the subject of OutboundWebhooks and SequenceEngine; *)
(* here it succeeds or throws.                                             *)
(***************************************************************************)
EXTENDS Naturals, FiniteSets, Sequences, SequencesExt

CONSTANTS
    Kinds,          \* which of the workers: a subset of {"webhook", "sequence"}
    FailureLimit,   \* failureLimit of the webhook worker
    Retention,      \* after how long the record of another worker is removed
    NoRecord,       \* nothing is stored
    MaxTime,        \* bound: the clock
    MaxTicks,       \* bound: ticks are counted up to this number
    MaxBeats,       \* bound: heartbeats that wait to be stored
    MaxFaults,      \* bound: ticks, writes and callbacks that throw
    MaxRuns         \* bound: workers started one after the other

Statuses == {"running", "stopped", "failed"}

WorkerRecord ==
    [status : Statuses, heartbeatAt : 0..MaxTime, lastError : BOOLEAN, lastTick : 0..MaxTicks]

ASSUME WorkerAssumption ==
    /\ Kinds \subseteq {"webhook", "sequence"}
    /\ {FailureLimit, MaxTicks, MaxRuns} \subseteq Nat \ {0}
    /\ {Retention, MaxTime, MaxBeats, MaxFaults} \subseteq Nat
    /\ NoRecord \notin WorkerRecord

VARIABLES
    kind,             \* which worker runs
    now,              \* the clock
    pc,               \* where the loop is
    aborted,          \* signal.aborted
    timerOn,          \* the heartbeat interval is set
    failures,         \* consecutiveFailures
    local,            \* the record the worker would store now
    heartbeatFailure, \* a heartbeat could not be stored
    beats,            \* heartbeats of the webhook worker whose turn has not come
    writes,           \* records on their way to the store, with their writer
    ending,           \* the final status the worker is about to store
    outcome,          \* how the run ended
    record,           \* what the store holds for this worker
    others,           \* what it holds for earlier workers
    faults,           \* how often something threw
    runs              \* workers started

vars == <<kind, now, pc, aborted, timerOn, failures, local, heartbeatFailure, beats,
          writes, ending, outcome, record, others, faults, runs>>

Write == [by : {"loop", "heartbeat"}, rec : WorkerRecord]

Places == {"starting", "top", "working", "recording", "errorRecording", "waiting",
           "draining", "finishing", "ended"}

Fresh == [status |-> "running", heartbeatAt |-> now, lastError |-> FALSE, lastTick |-> 0]

\* The worker has been called and its first record is on its way.
Init ==
    /\ kind \in Kinds
    /\ now = 0 /\ pc = "starting" /\ aborted = FALSE /\ timerOn = FALSE
    /\ failures = 0 /\ heartbeatFailure = FALSE /\ beats = 0
    /\ ending = "running" /\ outcome = "running"
    /\ local = Fresh
    /\ writes = <<[by |-> "loop", rec |-> Fresh]>>
    /\ record = NoRecord /\ others = {}
    /\ faults = 0 /\ runs = 1

-----------------------------------------------------------------------------
(* Writing the record.                                                     *)

Chained == kind = "sequence"

AnyOrder(i) == i \in DOMAIN writes

\* A write the store may take next: the oldest of a sequence worker, any of a
\* webhook worker, whose transactions wait for the store independently.
Storable(i) == i \in DOMAIN writes /\ (Chained => i = 1)

Retained(stored, written) == {o \in stored : o.heartbeatAt + Retention >= written.heartbeatAt}

OnlyQueued == beats > 0

\* What awaiting heartbeatWrite waits for.
HeartbeatsPending == beats > 0 \/ \E i \in DOMAIN writes : writes[i].by = "heartbeat"

Submit(by, rec) == writes' = Append(writes, [by |-> by, rec |-> rec])

EndTimerOn(status) ==
    /\ pc' = "draining" /\ ending' = status /\ UNCHANGED timerOn

\* The loop leaves for its end: the interval is cleared, then the heartbeat
\* that is being written is awaited.
End(status) ==
    /\ pc' = "draining" /\ ending' = status /\ timerOn' = FALSE

FailedMoreOften(n) == n > FailureLimit
FailedTooOften(n) == n >= FailureLimit

Faults(n) == faults + n <= MaxFaults /\ faults' = faults + n

\* A tick, its record or its callback threw (n more faults).  A webhook worker
\* that was told to stop ends, one that failed too often in a row fails; else
\* the error is recorded.  A sequence worker reports it first, and fails if
\* onError throws.
Throw(n) ==
    LET failed == [local EXCEPT !.lastError = TRUE, !.heartbeatAt = now] IN
    \/ /\ kind = "webhook" /\ aborted /\ Faults(n)
       /\ End("stopped")
       /\ UNCHANGED <<failures, local, writes>>
    \/ /\ kind = "webhook" /\ ~aborted /\ Faults(n)
       /\ failures' = failures + 1
       /\ local' = failed
       /\ \/ FailedTooOften(failures + 1) /\ End("failed") /\ UNCHANGED writes
          \/ /\ ~FailedTooOften(failures + 1)
             /\ pc' = "errorRecording" /\ Submit("loop", failed)
             /\ UNCHANGED <<ending, timerOn>>
    \/ /\ kind = "sequence" /\ Faults(n)
       /\ local' = failed
       /\ pc' = "errorRecording" /\ Submit("loop", failed)
       /\ UNCHANGED <<failures, ending, timerOn>>
    \/ /\ kind = "sequence" /\ Faults(n + 1)
       /\ End("failed")
       /\ UNCHANGED <<failures, local, writes>>

-----------------------------------------------------------------------------
(* The loop.                                                               *)

Unchanged == UNCHANGED <<kind, now, aborted, outcome, record, others, runs>>

\* while (!signal.aborted): a heartbeat that failed since the last record
\* counts as a failure of the tick.
Loop ==
    /\ pc = "top"
    /\ \/ /\ aborted /\ Faults(0)
          /\ End("stopped")
          /\ UNCHANGED <<failures, local, writes>>
       \/ /\ ~aborted /\ heartbeatFailure
          /\ Throw(0)
       \/ /\ ~aborted /\ ~heartbeatFailure /\ Faults(0)
          /\ pc' = "working"
          /\ UNCHANGED <<failures, local, writes, ending, timerOn>>
    /\ UNCHANGED <<heartbeatFailure, beats>> /\ Unchanged

\* The tick is done and its record is submitted, unless a heartbeat failed meanwhile.
TickDone ==
    /\ pc = "working"
    /\ \/ /\ heartbeatFailure
          /\ Throw(0)
       \/ /\ ~heartbeatFailure /\ Faults(0)
          /\ failures' = 0
          /\ local' = [local EXCEPT !.lastError = FALSE, !.heartbeatAt = now,
                                    !.lastTick = IF @ < MaxTicks THEN @ + 1 ELSE @]
          /\ pc' = "recording" /\ Submit("loop", local')
          /\ UNCHANGED <<ending, timerOn>>
    /\ UNCHANGED <<heartbeatFailure, beats>> /\ Unchanged

TickThrows ==
    /\ pc = "working"
    /\ Throw(1)
    /\ UNCHANGED <<heartbeatFailure, beats>> /\ Unchanged

\* onTick and the onTickError of a webhook worker are called before the wait.
CallbackThrows ==
    /\ pc = "waiting"
    /\ \/ /\ ~local.lastError
          /\ Throw(1)
       \/ /\ local.lastError /\ kind = "webhook" /\ Faults(1)
          /\ End("failed")
          /\ UNCHANGED <<failures, local, writes>>
    /\ UNCHANGED <<heartbeatFailure, beats>> /\ Unchanged

\* The interval or the backoff is over, or the abort signal ends it.
Wake ==
    /\ pc = "waiting"
    /\ pc' = "top"
    /\ UNCHANGED <<timerOn, failures, local, heartbeatFailure, beats, writes, ending, faults>>
    /\ Unchanged

\* The heartbeats are out of the way: the final record is submitted.
Drained ==
    /\ pc = "draining" /\ ~HeartbeatsPending
    /\ pc' = "finishing"
    /\ Submit("loop", [local EXCEPT
           !.status = ending, !.heartbeatAt = now,
           !.lastError = ending = "failed" \/ (kind = "sequence" /\ @)])
    /\ UNCHANGED <<timerOn, failures, local, heartbeatFailure, beats, ending, faults>>
    /\ Unchanged

-----------------------------------------------------------------------------
(* The timer, and what becomes of a write.                                 *)

\* The interval fires.  A sequence worker builds the record now; a webhook
\* worker appends to its chain of heartbeats.
Beat ==
    /\ timerOn
    /\ \/ /\ kind = "webhook" /\ beats < MaxBeats
          /\ beats' = beats + 1
          /\ UNCHANGED <<local, writes>>
       \/ /\ kind = "sequence"
          /\ Cardinality({i \in DOMAIN writes : writes[i].by = "heartbeat"}) < MaxBeats
          /\ local' = [local EXCEPT !.heartbeatAt = now]
          /\ Submit("heartbeat", local')
          /\ UNCHANGED beats
    /\ UNCHANGED <<pc, timerOn, failures, heartbeatFailure, ending, faults>> /\ Unchanged

\* The turn of the next heartbeat of a webhook worker: its record is built of
\* what the loop has seen by now.
BeginHeartbeat ==
    /\ beats > 0
    /\ \A i \in DOMAIN writes : writes[i].by # "heartbeat"
    /\ beats' = beats - 1
    /\ Submit("heartbeat", [local EXCEPT !.heartbeatAt = now])
    /\ UNCHANGED <<pc, timerOn, failures, local, heartbeatFailure, ending, faults>> /\ Unchanged

\* The loop goes on after its write was stored.  The first record starts the
\* timer; the final one ends the run.
Continue ==
    \/ /\ pc = "starting"
       /\ pc' = "top" /\ timerOn' = TRUE
       /\ UNCHANGED <<heartbeatFailure, outcome>>
    \/ /\ pc \in {"recording", "errorRecording"}
       /\ pc' = "waiting" /\ heartbeatFailure' = FALSE
       /\ UNCHANGED <<timerOn, outcome>>
    \/ /\ pc = "finishing"
       /\ pc' = "ended" /\ outcome' = ending
       /\ UNCHANGED <<timerOn, heartbeatFailure>>

\* upsertOutboundWebhookWorker, upsertWorker: the record is replaced and those
\* of other workers that are older than the retention are removed.
Stored(i) ==
    /\ Storable(i)
    /\ record' = writes[i].rec
    /\ others' = Retained(others, writes[i].rec)
    /\ writes' = RemoveAt(writes, i)
    /\ \/ /\ writes[i].by = "heartbeat"
          /\ heartbeatFailure' = FALSE
          /\ UNCHANGED <<pc, timerOn, outcome>>
       \/ /\ writes[i].by = "loop"
          /\ Continue
    /\ UNCHANGED <<kind, now, aborted, failures, local, beats, ending, faults, runs>>

\* A write of the loop throws.  Where the loop cannot go on it ends, which a
\* sequence worker tries to record as a failure even if it was stopping.
LoopWriteThrows(i) ==
    LET rest == RemoveAt(writes, i)
        rejected == pc' = "ended" /\ outcome' = "rejected" IN
    \/ /\ pc = "starting" /\ rejected /\ Faults(1)
       /\ writes' = rest
       /\ UNCHANGED <<failures, local, ending, timerOn>>
    \/ /\ pc = "recording" /\ kind = "webhook" /\ aborted /\ Faults(1)
       /\ End("stopped")
       /\ writes' = rest
       /\ UNCHANGED <<failures, local, outcome>>
    \/ /\ pc = "recording" /\ kind = "sequence" /\ Faults(2)
       /\ End("failed") /\ writes' = rest
       /\ UNCHANGED <<failures, local, outcome>>
    \/ /\ pc = "recording" /\ ~(kind = "webhook" /\ aborted) /\ Faults(1)
       /\ local' = [local EXCEPT !.lastError = TRUE, !.heartbeatAt = now]
       /\ failures' = IF kind = "webhook" THEN failures + 1 ELSE failures
       /\ \/ /\ kind = "webhook" /\ FailedTooOften(failures + 1)
             /\ End("failed") /\ writes' = rest
          \/ /\ kind = "sequence" \/ ~FailedTooOften(failures + 1)
             /\ pc' = "errorRecording"
             /\ writes' = Append(rest, [by |-> "loop", rec |-> local'])
             /\ UNCHANGED <<ending, timerOn>>
       /\ UNCHANGED outcome
    \/ /\ pc = "errorRecording" \/ (pc = "finishing" /\ kind = "sequence" /\ ending = "stopped")
       /\ Faults(1) /\ End("failed")
       /\ writes' = rest
       /\ UNCHANGED <<failures, local, outcome>>
    \/ /\ pc = "finishing" /\ ~(kind = "sequence" /\ ending = "stopped")
       /\ rejected /\ Faults(1)
       /\ writes' = rest
       /\ UNCHANGED <<failures, local, ending, timerOn>>

WriteThrows(i) ==
    /\ Storable(i)
    /\ \/ /\ writes[i].by = "heartbeat" /\ Faults(1)
          /\ heartbeatFailure' = TRUE
          /\ writes' = RemoveAt(writes, i)
          /\ UNCHANGED <<pc, failures, local, ending, timerOn, outcome>>
       \/ /\ writes[i].by = "loop"
          /\ LoopWriteThrows(i)
          /\ UNCHANGED heartbeatFailure
    /\ UNCHANGED <<kind, now, aborted, beats, record, others, runs>>
-----------------------------------------------------------------------------
(* Around the worker.                                                      *)

\* SIGINT or SIGTERM.
Abort ==
    /\ ~aborted /\ pc # "ended"
    /\ aborted' = TRUE
    /\ UNCHANGED <<kind, now, pc, timerOn, failures, local, heartbeatFailure, beats, writes,
                   ending, outcome, record, others, faults, runs>>

TimePasses ==
    /\ now < MaxTime
    /\ now' = now + 1
    /\ UNCHANGED <<kind, pc, aborted, timerOn, failures, local, heartbeatFailure, beats,
                   writes, ending, outcome, record, others, faults, runs>>

\* The process dies; a write that has not reached the store is lost.
Crash ==
    /\ pc # "ended"
    /\ pc' = "ended" /\ outcome' = "crashed"
    /\ timerOn' = FALSE /\ beats' = 0 /\ writes' = <<>>
    /\ UNCHANGED <<kind, now, aborted, failures, local, heartbeatFailure, ending, record,
                   others, faults, runs>>

\* A worker with another id is started; the store still holds the record of
\* the one before.
Restart ==
    /\ pc = "ended" /\ runs < MaxRuns
    /\ runs' = runs + 1
    /\ others' = others \cup ({record} \ {NoRecord})
    /\ record' = NoRecord
    /\ pc' = "starting" /\ aborted' = FALSE /\ timerOn' = FALSE
    /\ failures' = 0 /\ heartbeatFailure' = FALSE /\ beats' = 0
    /\ ending' = "running" /\ outcome' = "running"
    /\ local' = Fresh
    /\ writes' = <<[by |-> "loop", rec |-> Fresh]>>
    /\ UNCHANGED <<kind, now, faults>>

Main == Loop \/ TickDone \/ Wake \/ Drained

Next ==
    \/ Main \/ TickThrows \/ CallbackThrows \/ Beat \/ BeginHeartbeat
    \/ \E i \in DOMAIN writes : Stored(i) \/ WriteThrows(i)
    \/ Abort \/ TimePasses \/ Crash \/ Restart

Spec == Init /\ [][Next]_vars

\* A tick and a wait end, a heartbeat gets its turn, and the store takes or
\* refuses every write: requests and the lock of the store time out.
StoredBy(by) == \E i \in DOMAIN writes : writes[i].by = by /\ Stored(i)

Fairness ==
    /\ WF_vars(Main) /\ WF_vars(BeginHeartbeat)
    /\ WF_vars(StoredBy("loop")) /\ WF_vars(StoredBy("heartbeat"))

FairSpec == Spec /\ Fairness

-----------------------------------------------------------------------------
(***************************************************************************)
(* The variables have their types: a webhook worker never counts more      *)
(* failures in a row than it may have, and no more heartbeats wait than    *)
(* the timer made.                                                         *)
(***************************************************************************)
TypeOK ==
    /\ kind \in Kinds /\ now \in 0..MaxTime
    /\ pc \in Places
    /\ {aborted, timerOn, heartbeatFailure} \subseteq BOOLEAN
    /\ failures \in 0..FailureLimit
    /\ local \in WorkerRecord
    /\ beats \in 0..MaxBeats
    /\ writes \in Seq(Write)
    /\ ending \in Statuses
    /\ outcome \in Statuses \cup {"rejected", "crashed"}
    /\ record \in WorkerRecord \cup {NoRecord}
    /\ others \subseteq WorkerRecord
    /\ faults \in 0..MaxFaults /\ runs \in 1..MaxRuns

(***************************************************************************)
(* A worker that ended and said how is stored that way for good: no        *)
(* heartbeat that was on its way when the loop ended is stored over the    *)
(* final record, and nothing is left to be written.                        *)
(***************************************************************************)
EndedIsRecorded ==
    outcome \in {"stopped", "failed"} =>
        /\ record # NoRecord /\ record.status = outcome
        /\ writes = <<>> /\ beats = 0

(***************************************************************************)
(* The record of a sequence worker never goes back: a heartbeat built      *)
(* before the last tick is not stored after it.                            *)
(***************************************************************************)
RecordsInOrder ==
    [][ (kind = "sequence" /\ record # NoRecord /\ record' # NoRecord) =>
            /\ record'.heartbeatAt >= record.heartbeatAt
            /\ record'.lastTick >= record.lastTick
            /\ record'.status = "running" => record.status = "running" ]_record

(***************************************************************************)
(* A worker that is told to stop does: no chain of heartbeats, wait or     *)
(* failing write keeps it.                                                 *)
(***************************************************************************)
AbortEnds == aborted ~> (pc = "ended")
=============================================================================
