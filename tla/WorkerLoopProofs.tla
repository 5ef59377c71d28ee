-------------------------- MODULE WorkerLoopProofs --------------------------
(***************************************************************************)
(* Theorems about the long-lived workers, for every value of the           *)
(* constants: the variables keep their types, a worker that ended and said *)
(* how is stored that way for good, and the record of a sequence worker    *)
(* never goes back.                                                        *)
(*                                                                         *)
(* Two facts carry them.  At most one write of the loop is on its way, and *)
(* exactly while the loop waits for it; the first and the last record      *)
(* travel alone, the last one because the loop drains the heartbeats.  And *)
(* the records of a sequence worker, from the stored one through those in  *)
(* the queue to the one it would store now, never go back.                 *)
(***************************************************************************)
EXTENDS WorkerLoop, SequenceTheorems, TLAPS

\* Where the loop waits for a write of its own.
Storing == {"starting", "recording", "errorRecording", "finishing"}

\* Where it does not go on from.
Leaving == {"draining", "finishing", "ended"}

Said == {"stopped", "failed"}

By(w, writer) == {i \in DOMAIN w : w[i].by = writer}

OneLoop(w) == \A i, j \in By(w, "loop") : i = j

\* What the loop and the timer have on their way to the store.
WritesOK ==
    /\ OneLoop(writes)
    /\ By(writes, "loop") # {} <=> pc \in Storing
    /\ pc \in {"starting", "finishing", "ended"} => By(writes, "heartbeat") = {} /\ beats = 0
    /\ kind = "sequence" => beats = 0
    /\ pc \in Leaving \cup {"starting"} => timerOn = FALSE
    /\ pc \in {"draining", "finishing"} => ending \in Said
    /\ pc = "finishing" => \A i \in DOMAIN writes : writes[i].rec.status = ending

FailuresOK == failures = FailureLimit => pc \in Leaving

\* How the run ended, and the record of it.
OutcomeOK ==
    /\ pc # "ended" => outcome = "running"
    /\ outcome \in Said => record # NoRecord /\ record.status = outcome

\* The record b may be stored after a.
MayFollow(a, b) ==
    /\ a.heartbeatAt <= b.heartbeatAt /\ a.lastTick <= b.lastTick
    /\ b.status = "running" => a.status = "running"

Sorted(w) == \A i, j \in DOMAIN w : i <= j => MayFollow(w[i].rec, w[j].rec)

\* The records in w may follow r, if there is one.
Follow(r, w) == r # NoRecord => \A i \in DOMAIN w : MayFollow(r, w[i].rec)

\* They are of a running worker, and r may follow them.
Precede(w, r) == \A i \in DOMAIN w : w[i].rec.status = "running" /\ MayFollow(w[i].rec, r)

OrderOK ==
    kind = "sequence" =>
      /\ local.status = "running" /\ local.heartbeatAt <= now
      /\ pc # "ended" /\ record # NoRecord => MayFollow(record, local)
      /\ Sorted(writes) /\ Follow(record, writes)
      /\ pc # "finishing" => Precede(writes, local)

Inv == TypeOK /\ WritesOK /\ FailuresOK /\ OutcomeOK /\ OrderOK

-----------------------------------------------------------------------------
(* Writes on their way                                                     *)

\* A write is taken out.
LEMMA Removed ==
    ASSUME NEW S, NEW w \in Seq(S), NEW i \in DOMAIN w
    PROVE  /\ RemoveAt(w, i) \in Seq(S) /\ Len(RemoveAt(w, i)) = Len(w) - 1
           /\ \A j \in DOMAIN RemoveAt(w, i) :
                /\ IF j < i THEN j \in DOMAIN w ELSE j + 1 \in DOMAIN w
                /\ RemoveAt(w, i)[j] = IF j < i THEN w[j] ELSE w[j + 1]
<1>1. i \in 1 .. Len(w) /\ Len(w) \in Nat
    BY LenProperties
<1> DEFINE u == SubSeq(w, 1, i - 1)
           v == SubSeq(w, i + 1, Len(w))
<1>2. u \in Seq(S) /\ Len(u) = i - 1 /\ \A j \in 1 .. i - 1 : u[j] = w[j]
    <2>1. \A j \in 1 .. i - 1 : j \in 1 .. Len(w)
        BY <1>1
    <2> QED
        BY <1>1, <2>1, SubSeqProperties
<1>3. v \in Seq(S) /\ Len(v) = Len(w) - i /\ \A j \in 1 .. Len(w) - i : v[j] = w[i + j]
    <2>1. \A j \in i + 1 .. Len(w) : j \in 1 .. Len(w)
        BY <1>1
    <2> QED
        BY <1>1, <2>1, SubSeqProperties
<1>4. RemoveAt(w, i) = u \o v
    BY DEF RemoveAt
<1> HIDE DEF u, v
<1>5. /\ RemoveAt(w, i) \in Seq(S) /\ Len(RemoveAt(w, i)) = Len(w) - 1
      /\ \A j \in 1 .. Len(w) - 1 : RemoveAt(w, i)[j] = IF j <= i - 1 THEN u[j] ELSE v[j - (i - 1)]
    <2>1. /\ u \o v \in Seq(S) /\ Len(u \o v) = Len(u) + Len(v)
          /\ \A j \in 1 .. Len(u) + Len(v) : (u \o v)[j] = IF j <= Len(u) THEN u[j] ELSE v[j - Len(u)]
        BY <1>2, <1>3, ConcatProperties
    <2>2. Len(u) + Len(v) = Len(w) - 1 /\ Len(u) = i - 1
        BY <1>1, <1>2, <1>3
    <2> HIDE DEF u, v
    <2> QED
        BY <1>4, <2>1, <2>2
<1>6. DOMAIN RemoveAt(w, i) = 1 .. Len(w) - 1
    BY <1>5, LenProperties
<1>7. ASSUME NEW j \in 1 .. Len(w) - 1
      PROVE  RemoveAt(w, i)[j] = IF j < i THEN w[j] ELSE w[j + 1]
    <2>1. CASE j < i
        <3>1. j <= i - 1 /\ j \in 1 .. i - 1
            BY <1>1, <2>1
        <3> QED
            BY <1>2, <1>5, <2>1, <3>1
    <2>2. CASE ~(j < i)
        <3>1. ~(j <= i - 1) /\ j - (i - 1) \in 1 .. Len(w) - i /\ i + (j - (i - 1)) = j + 1
            BY <1>1, <2>2
        <3>2. v[j - (i - 1)] = w[i + (j - (i - 1))]
            BY <1>3, <3>1
        <3> QED
            BY <1>5, <2>2, <3>1, <3>2
    <2> QED
        BY <2>1, <2>2
<1>8. \A j \in 1 .. Len(w) - 1 : IF j < i THEN j \in DOMAIN w ELSE j + 1 \in DOMAIN w
    BY <1>1, LenProperties
<1> QED
    BY <1>5, <1>6, <1>7, <1>8

\* A write is added at the end.
LEMMA Added ==
    ASSUME NEW S, NEW w \in Seq(S), NEW x \in S
    PROVE  /\ Append(w, x) \in Seq(S)
           /\ Len(w) + 1 \in DOMAIN Append(w, x) /\ Append(w, x)[Len(w) + 1] = x
           /\ DOMAIN w = 1 .. Len(w) /\ Len(w) \in Nat
           /\ DOMAIN Append(w, x) = DOMAIN w \cup {Len(w) + 1}
           /\ \A j \in DOMAIN w : Append(w, x)[j] = w[j]
<1>1. /\ Append(w, x) \in Seq(S) /\ Len(Append(w, x)) = Len(w) + 1
      /\ \A j \in 1 .. Len(w) : Append(w, x)[j] = w[j]
      /\ Append(w, x)[Len(w) + 1] = x
    BY AppendProperties
<1>2. DOMAIN w = 1 .. Len(w) /\ Len(w) \in Nat /\ DOMAIN Append(w, x) = 1 .. Len(w) + 1
    BY <1>1, LenProperties
<1>3. 1 .. Len(w) + 1 = (1 .. Len(w)) \cup {Len(w) + 1}
    BY <1>2
<1> QED
    BY <1>1, <1>2, <1>3

\* Which writes are on their way after one was taken out.
LEMMA RemovedBy ==
    ASSUME NEW w \in Seq(Write), NEW i \in DOMAIN w, OneLoop(w)
    PROVE  /\ OneLoop(RemoveAt(w, i))
           /\ w[i].by = "loop" => By(RemoveAt(w, i), "loop") = {}
           /\ w[i].by # "loop" => (By(RemoveAt(w, i), "loop") # {} <=> By(w, "loop") # {})
           /\ By(w, "heartbeat") = {} => By(RemoveAt(w, i), "heartbeat") = {}
           /\ \A j \in DOMAIN RemoveAt(w, i) : \E k \in DOMAIN w : RemoveAt(w, i)[j] = w[k]
<1> DEFINE a == RemoveAt(w, i)
<1>1. /\ \A j \in DOMAIN a : /\ IF j < i THEN j \in DOMAIN w ELSE j + 1 \in DOMAIN w
                             /\ a[j] = IF j < i THEN w[j] ELSE w[j + 1]
      /\ a \in Seq(Write) /\ Len(a) = Len(w) - 1
    BY Removed
<1>2. DOMAIN a = 1 .. Len(w) - 1 /\ DOMAIN w = 1 .. Len(w) /\ Len(w) \in Nat
    BY <1>1, LenProperties
<1> HIDE DEF a
<1>3. OneLoop(a)
    <2> SUFFICES ASSUME NEW j \in By(a, "loop"), NEW k \in By(a, "loop") PROVE j = k
        BY DEF OneLoop
    <2>1. \A m \in {j, k} : (IF m < i THEN m ELSE m + 1) \in By(w, "loop")
        BY <1>1 DEF By
    <2>2. (IF j < i THEN j ELSE j + 1) = (IF k < i THEN k ELSE k + 1)
        BY <2>1 DEF OneLoop
    <2>3. j \in Nat /\ k \in Nat /\ i \in Nat
        BY <1>2 DEF By
    <2> QED
        BY <2>2, <2>3
<1>4. ASSUME w[i].by = "loop" PROVE By(a, "loop") = {}
    <2> SUFFICES ASSUME NEW j \in By(a, "loop") PROVE FALSE
        OBVIOUS
    <2>1. (IF j < i THEN j ELSE j + 1) \in By(w, "loop") /\ i \in By(w, "loop")
        BY <1>1, <1>4 DEF By
    <2>2. (IF j < i THEN j ELSE j + 1) = i
        BY <2>1 DEF OneLoop
    <2>3. j \in Nat /\ i \in Nat
        BY <1>2 DEF By
    <2> QED
        BY <2>2, <2>3
<1>5. ASSUME w[i].by # "loop", NEW k \in By(w, "loop") PROVE By(a, "loop") # {}
    <2>1. k # i /\ k \in 1 .. Len(w) /\ i \in 1 .. Len(w)
        BY <1>2, <1>5 DEF By
    <2>2. CASE k < i
        <3>1. k \in DOMAIN a
            BY <1>2, <2>1, <2>2
        <3> QED
            BY <1>1, <1>5, <2>2, <3>1 DEF By
    <2>3. CASE ~(k < i)
        <3>1. k - 1 \in DOMAIN a /\ ~(k - 1 < i) /\ (k - 1) + 1 = k
            BY <1>2, <2>1, <2>3
        <3> QED
            BY <1>1, <1>5, <3>1 DEF By
    <2> QED
        BY <2>2, <2>3
<1>6. By(a, "loop") # {} => By(w, "loop") # {}
    BY <1>1 DEF By
<1>7. By(w, "heartbeat") = {} => By(a, "heartbeat") = {}
    BY <1>1 DEF By
<1>8. \A j \in DOMAIN a : \E k \in DOMAIN w : a[j] = w[k]
    BY <1>1
<1> QED
    BY <1>3, <1>4, <1>5, <1>6, <1>7, <1>8 DEF a

\* Which writes are on their way after one was added.
LEMMA AddedBy ==
    ASSUME NEW w \in Seq(Write), NEW x \in Write
    PROVE  /\ (OneLoop(w) /\ (x.by # "loop" \/ By(w, "loop") = {})) => OneLoop(Append(w, x))
           /\ By(Append(w, x), "loop") # {} <=> x.by = "loop" \/ By(w, "loop") # {}
           /\ By(Append(w, x), "heartbeat") # {} <=> x.by = "heartbeat" \/ By(w, "heartbeat") # {}
<1> DEFINE a == Append(w, x)
           n == Len(w) + 1
<1>1. DOMAIN a = DOMAIN w \cup {n} /\ a[n] = x /\ \A j \in DOMAIN w : a[j] = w[j]
    BY Added
<1> HIDE DEF a, n
<1>2. \A writer : By(a, writer) # {} <=> x.by = writer \/ By(w, writer) # {}
    BY <1>1 DEF By
<1>3. ASSUME OneLoop(w), x.by # "loop" \/ By(w, "loop") = {} PROVE OneLoop(a)
    <2> SUFFICES ASSUME NEW j \in By(a, "loop"), NEW k \in By(a, "loop") PROVE j = k
        BY DEF OneLoop
    <2>1. \A m \in {j, k} : m \in By(w, "loop") \/ (m = n /\ x.by = "loop")
        BY <1>1 DEF By
    <2> QED
        BY <1>3, <2>1 DEF OneLoop
<1> QED
    BY <1>2, <1>3 DEF a, n

-----------------------------------------------------------------------------
(* Records that do not go back                                             *)

\* A queue of records between the stored one, r, and the one the worker would store now, q.
Queue(r, w, q) == Sorted(w) /\ Follow(r, w) /\ Precede(w, q)

(* A record may follow what an earlier one may follow. *)
LEMMA Transitive ==
    ASSUME NEW a \in WorkerRecord, NEW b \in WorkerRecord, NEW c \in WorkerRecord,
           MayFollow(a, b), MayFollow(b, c)
    PROVE  MayFollow(a, c)
<1>1. \A r \in WorkerRecord : r.heartbeatAt \in Nat /\ r.lastTick \in Nat
    BY WorkerAssumption DEF WorkerRecord
<1> QED
    BY <1>1 DEF MayFollow

\* The record of a write.
LEMMA WriteRecord ==
    ASSUME NEW w \in Seq(Write), NEW i \in DOMAIN w
    PROVE  w[i] \in Write /\ w[i].rec \in WorkerRecord /\ w[i].by \in {"loop", "heartbeat"}
<1>1. w[i] \in Write
    BY LenProperties, ElementOfSeq
<1> QED
    BY <1>1 DEF Write

\* The worker would store a later record.
LEMMA QueueLater ==
    ASSUME NEW r, NEW w \in Seq(Write), NEW q \in WorkerRecord, NEW p \in WorkerRecord,
           Queue(r, w, q), MayFollow(q, p)
    PROVE  Queue(r, w, p)
<1>1. \A i \in DOMAIN w : MayFollow(w[i].rec, p)
    BY WriteRecord, Transitive DEF Queue, Precede
<1> QED
    BY <1>1 DEF Queue, Precede

\* It is queued.
LEMMA QueueAdd ==
    ASSUME NEW r, NEW w \in Seq(Write), NEW q \in WorkerRecord, NEW writer \in {"loop", "heartbeat"},
           Queue(r, w, q), q.status = "running", r # NoRecord => MayFollow(r, q)
    PROVE  Queue(r, Append(w, [by |-> writer, rec |-> q]), q)
<1>1. PICK x : x = [by |-> writer, rec |-> q]
    OBVIOUS
<1>2. x \in Write /\ x.rec = q
    BY <1>1 DEF Write
<1> DEFINE a == Append(w, x)
           n == Len(w) + 1
<1>3. /\ DOMAIN a = DOMAIN w \cup {n} /\ a[n] = x /\ \A j \in DOMAIN w : a[j] = w[j]
      /\ DOMAIN w \subseteq Nat /\ n \in Nat /\ \A j \in DOMAIN w : j < n
    BY <1>2, Added
<1> HIDE DEF a, n
<1>4. MayFollow(q, q)
    <2>1. q.heartbeatAt \in Nat /\ q.lastTick \in Nat
        BY WorkerAssumption DEF WorkerRecord
    <2> QED
        BY <2>1 DEF MayFollow
<1>5. Sorted(a)
    <2> SUFFICES ASSUME NEW i \in DOMAIN a, NEW j \in DOMAIN a, i <= j
                 PROVE  MayFollow(a[i].rec, a[j].rec)
        BY DEF Sorted
    <2>1. CASE j = n
        BY <1>2, <1>3, <1>4, <2>1 DEF Queue, Precede
    <2>2. CASE j # n
        <3>1. i \in DOMAIN w /\ j \in DOMAIN w
            BY <1>3, <2>2
        <3> QED
            BY <1>3, <3>1 DEF Queue, Sorted
    <2> QED
        BY <2>1, <2>2
<1>6. Follow(r, a)
    BY <1>2, <1>3 DEF Queue, Follow
<1>7. Precede(a, q)
    BY <1>2, <1>3, <1>4 DEF Queue, Precede
<1>8. Queue(r, a, q)
    BY <1>5, <1>6, <1>7 DEF Queue
<1> QED
    BY <1>1, <1>8 DEF a

\* One is taken out; the first may be stored.
LEMMA QueueRemove ==
    ASSUME NEW r, NEW w \in Seq(Write), NEW i \in DOMAIN w, Sorted(w), Follow(r, w)
    PROVE  /\ Sorted(RemoveAt(w, i)) /\ Follow(r, RemoveAt(w, i))
           /\ \A q : Precede(w, q) => Precede(RemoveAt(w, i), q)
           /\ i = 1 => Follow(w[i].rec, RemoveAt(w, i))
<1> DEFINE a == RemoveAt(w, i)
<1>1. /\ \A j \in DOMAIN a : /\ IF j < i THEN j \in DOMAIN w ELSE j + 1 \in DOMAIN w
                             /\ a[j] = IF j < i THEN w[j] ELSE w[j + 1]
      /\ a \in Seq(Write) /\ Len(a) = Len(w) - 1
    BY Removed
<1>2. DOMAIN a = 1 .. Len(w) - 1 /\ DOMAIN w = 1 .. Len(w) /\ Len(w) \in Nat
    BY <1>1, LenProperties
<1> HIDE DEF a
<1>3. Sorted(a)
    <2> SUFFICES ASSUME NEW j \in DOMAIN a, NEW k \in DOMAIN a, j <= k
                 PROVE  MayFollow(a[j].rec, a[k].rec)
        BY DEF Sorted
    <2>1. PICK x, y : x = (IF j < i THEN j ELSE j + 1) /\ y = (IF k < i THEN k ELSE k + 1)
        OBVIOUS
    <2>2. x \in DOMAIN w /\ y \in DOMAIN w /\ a[j] = w[x] /\ a[k] = w[y]
        BY <1>1, <2>1
    <2>3. x <= y
        BY <1>2, <2>1
    <2> QED
        BY <2>2, <2>3 DEF Sorted
<1>4. \A j \in DOMAIN a : \E k \in DOMAIN w : a[j] = w[k]
    BY <1>1
<1>5. Follow(r, a) /\ \A q : Precede(w, q) => Precede(a, q)
    BY <1>4 DEF Follow, Precede
<1>6. ASSUME i = 1 PROVE Follow(w[i].rec, a)
    <2>1. \A k \in DOMAIN w : MayFollow(w[i].rec, w[k].rec)
        BY <1>2, <1>6 DEF Sorted
    <2> QED
        BY <1>4, <2>1 DEF Follow
<1> QED
    BY <1>3, <1>5, <1>6 DEF a

-----------------------------------------------------------------------------
(* Init, and steps that store nothing                                      *)

LEMMA InitInv == Init => Inv
<1> SUFFICES ASSUME Init PROVE Inv
    OBVIOUS
<1>1. Fresh \in WorkerRecord /\ Fresh.status = "running" /\ Fresh.heartbeatAt = now
    BY WorkerAssumption DEF Init, Fresh, WorkerRecord, Statuses
<1>2. PICK x : x = [by |-> "loop", rec |-> Fresh]
    OBVIOUS
<1>3. x \in Write /\ x.by = "loop" /\ x.rec = Fresh
    BY <1>1, <1>2 DEF Write
<1>4. writes = <<x>>
    BY <1>2 DEF Init
<1>5. writes \in Seq(Write) /\ DOMAIN writes = {1} /\ writes[1] = x
    BY <1>3, <1>4
<1>6. TypeOK
    <2>1. /\ kind \in Kinds /\ now \in 0 .. MaxTime /\ failures \in 0 .. FailureLimit
          /\ beats \in 0 .. MaxBeats /\ faults \in 0 .. MaxFaults /\ runs \in 1 .. MaxRuns
        BY WorkerAssumption DEF Init
    <2>2. local \in WorkerRecord /\ record \in WorkerRecord \cup {NoRecord} /\ others \subseteq WorkerRecord
        BY <1>1 DEF Init
    <2>3. {aborted, timerOn, heartbeatFailure} \subseteq BOOLEAN
        BY DEF Init
    <2>4. pc \in Places /\ ending \in Statuses /\ outcome \in Statuses \cup {"rejected", "crashed"}
        BY DEF Init, Places, Statuses
    <2> QED
        BY <1>5, <2>1, <2>2, <2>3, <2>4 DEF TypeOK
<1>7. WritesOK
    BY <1>3, <1>5 DEF Init, WritesOK, OneLoop, By, Storing, Leaving
<1>8. MayFollow(Fresh, Fresh)
    BY <1>1, WorkerAssumption DEF MayFollow, WorkerRecord
<1>9. OrderOK
    BY <1>1, <1>3, <1>5, <1>8, WorkerAssumption DEF Init, OrderOK, Sorted, Follow, Precede
<1> QED
    BY <1>6, <1>7, <1>9, WorkerAssumption DEF Inv, Init, FailuresOK, OutcomeOK, Said

\* What no step of the worker itself changes.
Frame == UNCHANGED <<kind, now, record, others, runs>>

\* The record the worker would store is a later one, and the queue leads to it.
Later ==
    /\ writes' \in Seq(Write) /\ local' \in WorkerRecord
    /\ kind = "sequence" =>
         /\ local'.status = "running" /\ local'.heartbeatAt <= now
         /\ MayFollow(local, local')
         /\ pc' # "finishing" => Queue(record, writes', local')

Counters ==
    /\ failures' \in 0 .. FailureLimit /\ faults' \in 0 .. MaxFaults /\ beats' \in 0 .. MaxBeats
    /\ {aborted', timerOn', heartbeatFailure'} \subseteq BOOLEAN
    /\ pc' \in Places /\ ending' \in Statuses /\ outcome' \in Statuses \cup {"rejected", "crashed"}

\* A step before the end that stores nothing and queues nothing final.
LEMMA StepInv ==
    ASSUME Inv, Frame, Later, Counters, WritesOK', FailuresOK', UNCHANGED outcome, pc # "ended",
           pc' \notin {"finishing", "ended"}
    PROVE  Inv'
<1>1. TypeOK'
    BY DEF Inv, TypeOK, Frame, Later, Counters
<1>2. OutcomeOK'
    BY DEF Inv, OutcomeOK, Frame
<1>3. ASSUME kind = "sequence", record # NoRecord PROVE MayFollow(record, local')
    BY <1>3, Transitive DEF Inv, TypeOK, OrderOK, Later
<1>4. OrderOK'
    BY <1>3 DEF Inv, OrderOK, Frame, Later, Queue
<1> QED
    BY <1>1, <1>2, <1>4 DEF Inv

\* The loop leaves for its end, and nothing of it is on its way.
LEMMA EndInv ==
    ASSUME Inv, NEW status \in Said, End(status), Frame, Later, UNCHANGED <<aborted, outcome, beats>>,
           heartbeatFailure' \in BOOLEAN, failures' \in 0 .. FailureLimit, faults' \in 0 .. MaxFaults,
           pc # "ended", By(writes', "loop") = {}
    PROVE  Inv'
<1>1. pc' = "draining" /\ ending' = status /\ timerOn' = FALSE
    BY DEF End
<1>2. Counters
    BY <1>1 DEF Inv, TypeOK, Counters, Places, Statuses, Said
<1>3. WritesOK'
    BY <1>1 DEF Inv, Frame, WritesOK, OneLoop, Storing, Leaving
<1>4. FailuresOK'
    BY <1>1 DEF FailuresOK, Leaving
<1> QED
    BY <1>1, <1>2, <1>3, <1>4, StepInv

\* The loop submits the record of a tick, or of its failure.
LEMMA SubmitInv ==
    ASSUME Inv, Frame, UNCHANGED <<aborted, outcome, beats, timerOn, ending>>,
           heartbeatFailure' \in BOOLEAN, failures' \in 0 .. FailureLimit - 1, faults' \in 0 .. MaxFaults,
           pc \in {"top", "working", "waiting", "recording"}, pc' \in {"recording", "errorRecording"},
           NEW w \in Seq(Write), By(w, "loop") = {},
           writes' = Append(w, [by |-> "loop", rec |-> local']), local' \in WorkerRecord,
           kind = "sequence" => /\ local'.status = "running" /\ local'.heartbeatAt <= now
                                /\ MayFollow(local, local') /\ Queue(record, w, local')
    PROVE  Inv'
<1>1. PICK x : x = [by |-> "loop", rec |-> local']
    OBVIOUS
<1>2. x \in Write /\ x.by = "loop"
    BY <1>1 DEF Write
<1>3. writes' \in Seq(Write) /\ OneLoop(writes') /\ By(writes', "loop") # {}
    <2>1. OneLoop(w)
        BY DEF OneLoop
    <2> QED
        BY <1>1, <1>2, <2>1, Added, AddedBy
<1>4. Later
    <2>1. ASSUME kind = "sequence" PROVE Queue(record, writes', local')
        <3>1. record # NoRecord => MayFollow(record, local')
            BY <2>1, Transitive DEF Inv, TypeOK, OrderOK
        <3> QED
            BY <2>1, <3>1, QueueAdd
    <2> QED
        BY <1>3, <2>1 DEF Later
<1>5. failures' \in 0 .. FailureLimit /\ failures' # FailureLimit
    BY WorkerAssumption
<1>6. Counters
    BY <1>5 DEF Inv, TypeOK, Counters, Places
<1>7. WritesOK'
    BY <1>3 DEF Inv, WritesOK, Storing, Leaving, Frame
<1>8. FailuresOK'
    BY <1>5 DEF FailuresOK
<1> QED
    BY <1>4, <1>6, <1>7, <1>8, StepInv

\* Later records of the worker.
LEMMA LaterLocal ==
    ASSUME Inv, NEW q,
           \/ q = [local EXCEPT !.heartbeatAt = now]
           \/ q = [local EXCEPT !.lastError = TRUE, !.heartbeatAt = now]
           \/ q = [local EXCEPT !.lastError = FALSE, !.heartbeatAt = now,
                                !.lastTick = IF @ < MaxTicks THEN @ + 1 ELSE @]
    PROVE  /\ q \in WorkerRecord /\ q.heartbeatAt <= now /\ q.status = local.status
           /\ kind = "sequence" =>
                /\ q.status = "running" /\ MayFollow(local, q)
                /\ pc # "finishing" => Queue(record, writes, q)
<1>1. local \in WorkerRecord /\ now \in 0 .. MaxTime /\ writes \in Seq(Write)
    BY DEF Inv, TypeOK
<1>2. PICK t : t = IF local.lastTick < MaxTicks THEN local.lastTick + 1 ELSE local.lastTick
    OBVIOUS
<1>3. t \in 0 .. MaxTicks /\ local.lastTick <= t /\ local.lastTick \in 0 .. MaxTicks
    BY <1>1, <1>2, WorkerAssumption DEF WorkerRecord
<1>4. \/ q = [local EXCEPT !.heartbeatAt = now]
      \/ q = [local EXCEPT !.lastError = TRUE, !.heartbeatAt = now]
      \/ q = [local EXCEPT !.lastError = FALSE, !.heartbeatAt = now, !.lastTick = t]
    BY <1>2
<1>5. /\ q \in WorkerRecord /\ q.heartbeatAt = now /\ q.status = local.status
      /\ local.lastTick <= q.lastTick
    <2>1. CASE q = [local EXCEPT !.heartbeatAt = now]
        BY <1>1, <1>3, <2>1 DEF WorkerRecord
    <2>2. CASE q = [local EXCEPT !.lastError = TRUE, !.heartbeatAt = now]
        <3>1. q = [status |-> local.status, heartbeatAt |-> now, lastError |-> TRUE,
                   lastTick |-> local.lastTick]
            BY <1>1, <2>2 DEF WorkerRecord
        <3>2. local.status \in Statuses /\ local.lastTick \in 0 .. MaxTicks
            BY <1>1 DEF WorkerRecord
        <3>3. q \in WorkerRecord
            BY <1>1, <3>1, <3>2, Zenon DEF WorkerRecord
        <3> QED
            BY <1>3, <3>1, <3>3
    <2>3. CASE q = [local EXCEPT !.lastError = FALSE, !.heartbeatAt = now, !.lastTick = t]
        BY <1>1, <1>3, <2>3 DEF WorkerRecord
    <2> QED
        BY <1>4, <2>1, <2>2, <2>3
<1>6. kind = "sequence" => q.status = "running" /\ MayFollow(local, q)
    BY <1>5 DEF Inv, OrderOK, MayFollow
<1>7. kind = "sequence" /\ pc # "finishing" => Queue(record, writes, local)
    BY DEF Inv, OrderOK, Queue
<1>8. kind = "sequence" /\ pc # "finishing" => Queue(record, writes, q)
    BY <1>1, <1>5, <1>6, <1>7, QueueLater
<1>9. q.heartbeatAt <= now
    BY <1>1, <1>5, WorkerAssumption
<1> QED
    BY <1>5, <1>6, <1>8, <1>9

\* So is the one it has.
LEMMA SameLocal ==
    ASSUME Inv
    PROVE  /\ local \in WorkerRecord /\ writes \in Seq(Write)
           /\ kind = "sequence" =>
                /\ local.status = "running" /\ local.heartbeatAt <= now /\ MayFollow(local, local)
                /\ pc # "finishing" => Queue(record, writes, local)
BY WorkerAssumption DEF Inv, TypeOK, OrderOK, Queue, MayFollow, WorkerRecord

\* Between two writes of its own the loop has not failed too often.
LEMMA AtWork ==
    ASSUME Inv, pc \in {"top", "working", "waiting"}
    PROVE  /\ By(writes, "loop") = {} /\ failures \in 0 .. FailureLimit - 1
           /\ FailureLimit \in Nat \ {0}
           /\ failures + 1 \in 0 .. FailureLimit
           /\ failures + 1 < FailureLimit => failures + 1 \in 0 .. FailureLimit - 1
<1>1. failures \in 0 .. FailureLimit /\ failures # FailureLimit /\ FailureLimit \in Nat \ {0}
    BY WorkerAssumption DEF Inv, TypeOK, FailuresOK, Leaving
<1> QED
    BY <1>1 DEF Inv, WritesOK, Storing

(* A fault that is counted leaves the counter within its bound. *)
LEMMA FaultsCounted == ASSUME Inv, NEW n \in Nat, Faults(n) PROVE faults' \in 0 .. MaxFaults
BY WorkerAssumption DEF Faults, Inv, TypeOK

\* A tick, its record or its callback throws.
LEMMA ThrowInv ==
    ASSUME Inv, NEW n \in Nat, Throw(n), pc \in {"top", "working", "waiting"}, Frame,
           UNCHANGED <<aborted, outcome, heartbeatFailure, beats>>
    PROVE  Inv'
<1>1. /\ By(writes, "loop") = {} /\ failures \in 0 .. FailureLimit - 1 /\ FailureLimit \in Nat \ {0}
      /\ failures + 1 \in 0 .. FailureLimit
      /\ failures + 1 < FailureLimit => failures + 1 \in 0 .. FailureLimit - 1
      /\ failures \in 0 .. FailureLimit
    BY AtWork
<1>2. pc # "ended" /\ pc # "finishing" /\ heartbeatFailure' \in BOOLEAN /\ {"stopped", "failed"} = Said
    BY DEF Inv, TypeOK, Said
<1>3. \A k \in Nat : Faults(k) => faults' \in 0 .. MaxFaults
    BY FaultsCounted
<1>4. PICK q : q = [local EXCEPT !.lastError = TRUE, !.heartbeatAt = now]
    OBVIOUS
<1>5. /\ q \in WorkerRecord /\ q.heartbeatAt <= now
      /\ kind = "sequence" =>
           q.status = "running" /\ MayFollow(local, q) /\ Queue(record, writes, q)
    BY <1>2, <1>4, LaterLocal
<1>6. writes \in Seq(Write)
    BY SameLocal
<1>7. CASE Faults(n) /\ End("stopped") /\ UNCHANGED <<failures, local, writes>>
    <2>1. Later
        BY <1>2, <1>7, SameLocal DEF Later
    <2> QED
        BY <1>1, <1>2, <1>3, <1>7, <2>1, EndInv
<1>8. CASE /\ Faults(n) /\ failures' = failures + 1 /\ local' = q /\ End("failed") /\ UNCHANGED writes
    <2>1. Later
        BY <1>2, <1>5, <1>6, <1>8 DEF Later
    <2> QED
        BY <1>1, <1>2, <1>3, <1>8, <2>1, EndInv
<1>9. CASE /\ Faults(n) /\ local' = q /\ pc' = "errorRecording" /\ Submit("loop", q)
           /\ failures' \in 0 .. FailureLimit - 1 /\ UNCHANGED <<ending, timerOn>>
    BY <1>1, <1>2, <1>3, <1>5, <1>6, <1>9, SubmitInv DEF Submit
<1>10. CASE Faults(n + 1) /\ End("failed") /\ UNCHANGED <<failures, local, writes>>
    <2>1. Later
        BY <1>2, <1>10, SameLocal DEF Later
    <2> QED
        BY <1>1, <1>2, <1>3, <1>10, <2>1, EndInv
<1>11. \/ Faults(n) /\ End("stopped") /\ UNCHANGED <<failures, local, writes>>
       \/ Faults(n) /\ failures' = failures + 1 /\ local' = q /\ End("failed") /\ UNCHANGED writes
       \/ /\ Faults(n) /\ local' = q /\ pc' = "errorRecording" /\ Submit("loop", q)
          /\ failures' \in 0 .. FailureLimit - 1 /\ UNCHANGED <<ending, timerOn>>
       \/ Faults(n + 1) /\ End("failed") /\ UNCHANGED <<failures, local, writes>>
    <2>1. ~FailedTooOften(failures + 1) => failures + 1 \in 0 .. FailureLimit - 1
        BY <1>1 DEF FailedTooOften
    <2> QED
        BY <1>1, <1>4, <2>1 DEF Throw
<1> QED
    BY <1>7, <1>8, <1>9, <1>10, <1>11

(* The head of the loop: the worker stops when aborted, fails on a failed heartbeat, or goes on with a tick. *)
LEMMA LoopInv == ASSUME Inv, Loop PROVE Inv'
<1>1. Frame /\ UNCHANGED <<aborted, outcome, heartbeatFailure, beats>> /\ pc = "top"
    BY DEF Loop, Unchanged, Frame
<1>2. CASE Throw(0)
    BY <1>1, <1>2, ThrowInv
<1>3. CASE /\ Faults(0) /\ UNCHANGED <<failures, local, writes>>
           /\ End("stopped") \/ (pc' = "working" /\ UNCHANGED <<ending, timerOn>>)
    <2>1. /\ By(writes, "loop") = {} /\ failures \in 0 .. FailureLimit /\ failures # FailureLimit
          /\ faults' \in 0 .. MaxFaults
        BY <1>1, <1>3, AtWork, FaultsCounted
    <2>2. pc' # "finishing" => Later
        BY <1>1, <1>3, SameLocal DEF Later
    <2>3. CASE End("stopped")
        BY <1>1, <1>3, <2>1, <2>2, <2>3, EndInv DEF Said, End, Inv, TypeOK
    <2>4. CASE pc' = "working" /\ UNCHANGED <<ending, timerOn>>
        <3>1. Counters
            BY <1>1, <1>3, <2>1, <2>4 DEF Inv, TypeOK, Counters, Places
        <3>2. WritesOK'
            BY <1>1, <1>3, <2>1, <2>4 DEF Inv, WritesOK, OneLoop, Storing, Leaving, Frame
        <3>3. FailuresOK'
            BY <1>3, <2>1 DEF FailuresOK
        <3> QED
            BY <1>1, <2>2, <2>4, <3>1, <3>2, <3>3, StepInv
    <2> QED
        BY <1>3, <2>3, <2>4
<1> QED
    BY <1>2, <1>3 DEF Loop

(* A tick returns: its result goes to the record, the failures are over. *)
LEMMA TickDoneInv == ASSUME Inv, TickDone PROVE Inv'
<1>1. Frame /\ UNCHANGED <<aborted, outcome, heartbeatFailure, beats>> /\ pc = "working"
    BY DEF TickDone, Unchanged, Frame
<1>2. CASE Throw(0)
    BY <1>1, <1>2, ThrowInv
<1>3. CASE ~Throw(0)
    <2>1. PICK q : q = [local EXCEPT !.lastError = FALSE, !.heartbeatAt = now,
                                     !.lastTick = IF @ < MaxTicks THEN @ + 1 ELSE @]
        OBVIOUS
    <2>2. /\ Faults(0) /\ failures' = 0 /\ local' = q /\ pc' = "recording" /\ Submit("loop", q)
          /\ UNCHANGED <<ending, timerOn>>
        BY <1>3, <2>1 DEF TickDone
    <2>3. /\ q \in WorkerRecord /\ q.heartbeatAt <= now
          /\ kind = "sequence" => q.status = "running" /\ MayFollow(local, q) /\ Queue(record, writes, q)
        BY <1>1, <2>1, LaterLocal
    <2>4. /\ By(writes, "loop") = {} /\ failures' \in 0 .. FailureLimit - 1 /\ faults' \in 0 .. MaxFaults
          /\ writes \in Seq(Write) /\ heartbeatFailure' \in BOOLEAN
        BY <1>1, <2>2, AtWork, FaultsCounted, WorkerAssumption DEF Inv, TypeOK
    <2> QED
        BY <1>1, <2>2, <2>3, <2>4, SubmitInv DEF Submit
<1> QED
    BY <1>2, <1>3

(* A tick throws: one failure more, and the worker gives up after too many of them. *)
LEMMA TickThrowsInv == ASSUME Inv, TickThrows PROVE Inv'
BY ThrowInv DEF TickThrows, Unchanged, Frame

(* onTick throws, which counts as a failure of the tick, or onTickError, which ends a webhook worker. *)
LEMMA CallbackThrowsInv == ASSUME Inv, CallbackThrows PROVE Inv'
<1>1. Frame /\ UNCHANGED <<aborted, outcome, heartbeatFailure, beats>> /\ pc = "waiting"
    BY DEF CallbackThrows, Unchanged, Frame
<1>2. CASE Throw(1)
    BY <1>1, <1>2, ThrowInv
<1>3. CASE Faults(1) /\ End("failed") /\ UNCHANGED <<failures, local, writes>>
    <2>1. Later
        BY <1>1, <1>3, SameLocal DEF Later
    <2>2. /\ By(writes, "loop") = {} /\ failures \in 0 .. FailureLimit /\ faults' \in 0 .. MaxFaults
        BY <1>1, <1>3, AtWork, FaultsCounted DEF Inv, TypeOK
    <2> QED
        BY <1>1, <1>3, <2>1, <2>2, EndInv DEF Said, Inv, TypeOK
<1> QED
    BY <1>2, <1>3 DEF CallbackThrows

(* The wait between two ticks ends, by its timer or by the abort. *)
LEMMA WakeInv == ASSUME Inv, Wake PROVE Inv'
<1>1. /\ Frame /\ UNCHANGED <<aborted, outcome, heartbeatFailure, beats, failures, local, writes>>
      /\ pc = "waiting" /\ pc' = "top"
    BY DEF Wake, Unchanged, Frame
<1>2. Later
    BY <1>1, SameLocal DEF Later
<1>3. Counters
    BY <1>1 DEF Wake, Inv, TypeOK, Counters, Places
<1>4. WritesOK' /\ FailuresOK'
    BY <1>1 DEF Wake, Inv, WritesOK, FailuresOK, OneLoop, Storing, Leaving, Frame
<1> QED
    BY <1>1, <1>2, <1>3, <1>4, StepInv

\* The heartbeats are out of the way: nothing else is on its way when the final record is submitted.
LEMMA DrainedInv == ASSUME Inv, Drained PROVE Inv'
<1>1. /\ Frame /\ UNCHANGED <<aborted, outcome, heartbeatFailure, beats, failures, local, ending, faults, timerOn>>
      /\ pc = "draining" /\ pc' = "finishing" /\ ~HeartbeatsPending
    BY DEF Drained, Unchanged, Frame
<1>2. writes = <<>>
    <2>1. writes \in Seq(Write) /\ By(writes, "loop") = {} /\ By(writes, "heartbeat") = {}
        BY <1>1 DEF Inv, TypeOK, WritesOK, Storing, HeartbeatsPending, By
    <2>2. DOMAIN writes = {}
        <3>1. \A i \in DOMAIN writes : writes[i].by \in {"loop", "heartbeat"}
            BY <2>1, WriteRecord
        <3> QED
            BY <2>1, <3>1 DEF By
    <2>3. Len(writes) = 0
        <3>1. Len(writes) \in Nat /\ 1 .. Len(writes) = {}
            BY <2>1, <2>2, LenProperties
        <3> QED
            BY <3>1
    <2> QED
        BY <2>1, <2>3, EmptySeq
<1>3. PICK e \in BOOLEAN : writes' = Append(writes, [by |-> "loop", rec |->
             [local EXCEPT !.status = ending, !.heartbeatAt = now, !.lastError = e]])
    BY DEF Drained, Submit
<1>4. PICK q : q = [local EXCEPT !.status = ending, !.heartbeatAt = now, !.lastError = e]
    OBVIOUS
<1>5. /\ local \in WorkerRecord /\ now \in 0 .. MaxTime /\ ending \in Said /\ Said \subseteq Statuses
    BY <1>1 DEF Inv, TypeOK, WritesOK, Said, Statuses
<1>6. q \in WorkerRecord /\ q.status = ending /\ q.heartbeatAt = now /\ q.lastTick = local.lastTick
    BY <1>4, <1>5 DEF WorkerRecord
<1>7. PICK x : x = [by |-> "loop", rec |-> q]
    OBVIOUS
<1>8. x \in Write /\ x.by = "loop" /\ x.rec = q
    BY <1>6, <1>7 DEF Write
<1>9. writes' = <<x>> /\ writes' \in Seq(Write) /\ DOMAIN writes' = {1} /\ writes'[1] = x
    <2>1. writes' = Append(<<>>, x)
        BY <1>2, <1>3, <1>4, <1>7
    <2> QED
        BY <1>8, <2>1
<1>10. beats = 0
    BY <1>1 DEF HeartbeatsPending, Inv, TypeOK
<1>11. TypeOK'
    BY <1>1, <1>9 DEF Inv, TypeOK, Frame, Places
<1>12. WritesOK'
    BY <1>1, <1>5, <1>6, <1>8, <1>9, <1>10 DEF WritesOK, OneLoop, By, Storing, Leaving, Inv
<1>13. FailuresOK' /\ OutcomeOK'
    BY <1>1 DEF Inv, FailuresOK, OutcomeOK, Leaving, Frame
<1>14. ASSUME kind = "sequence" PROVE OrderOK'
    <2>1. local.status = "running" /\ local.heartbeatAt <= now
          /\ (record # NoRecord => MayFollow(record, local))
        BY <1>1, <1>14 DEF Inv, OrderOK
    <2>2. MayFollow(local, q) /\ MayFollow(q, q)
        BY <1>5, <1>6, <2>1, WorkerAssumption DEF MayFollow, Said, WorkerRecord
    <2>3. record # NoRecord => MayFollow(record, q)
        BY <1>5, <1>6, <2>1, <2>2, Transitive DEF Inv, TypeOK
    <2> QED
        BY <1>1, <1>8, <1>9, <2>1, <2>2, <2>3 DEF OrderOK, Sorted, Follow, Frame
<1>15. kind # "sequence" => OrderOK'
    BY <1>1 DEF OrderOK, Frame
<1> QED
    BY <1>11, <1>12, <1>13, <1>14, <1>15 DEF Inv

\* The timer adds a heartbeat only between the first record and the end of the loop.
LEMMA BeatInv == ASSUME Inv, Beat PROVE Inv'
<1>1. /\ Frame /\ UNCHANGED <<aborted, outcome, heartbeatFailure, failures, pc, timerOn, ending, faults>>
      /\ pc \notin Leaving \cup {"starting"}
    BY DEF Beat, Unchanged, Frame, Inv, WritesOK
<1>2. FailuresOK' /\ pc # "ended" /\ pc' \notin {"finishing", "ended"} /\ pc # "finishing"
    BY <1>1 DEF Inv, FailuresOK, Leaving
<1>3. beats' \in 0 .. MaxBeats => Counters
    BY <1>1 DEF Inv, TypeOK, Counters
<1>4. CASE kind = "webhook" /\ beats < MaxBeats /\ beats' = beats + 1 /\ UNCHANGED <<local, writes>>
    <2>1. Later
        BY <1>2, <1>4, SameLocal DEF Later
    <2>2. beats' \in 0 .. MaxBeats
        BY <1>4, WorkerAssumption DEF Inv, TypeOK
    <2>3. WritesOK'
        BY <1>1, <1>2, <1>4 DEF Inv, WritesOK, OneLoop, By, Frame, Leaving
    <2> QED
        BY <1>1, <1>2, <1>3, <2>1, <2>2, <2>3, StepInv
<1>5. CASE /\ kind = "sequence" /\ local' = [local EXCEPT !.heartbeatAt = now]
           /\ Submit("heartbeat", local') /\ UNCHANGED beats
    <2>1. PICK q : q = [local EXCEPT !.heartbeatAt = now]
        OBVIOUS
    <2>2. /\ q \in WorkerRecord /\ q.heartbeatAt <= now /\ q.status = "running" /\ MayFollow(local, q)
          /\ Queue(record, writes, q) /\ local' = q
        BY <1>2, <1>5, <2>1, LaterLocal
    <2>3. PICK x : x = [by |-> "heartbeat", rec |-> q]
        OBVIOUS
    <2>4. x \in Write /\ x.by = "heartbeat" /\ writes' = Append(writes, x) /\ writes \in Seq(Write)
        BY <1>5, <2>2, <2>3, SameLocal DEF Write, Submit
    <2>5. /\ OneLoop(writes) /\ OneLoop(writes') /\ (By(writes', "loop") # {} <=> By(writes, "loop") # {})
          /\ writes' \in Seq(Write)
        BY <2>4, Added, AddedBy DEF Inv, WritesOK
    <2>6. Later
        <3>1. record # NoRecord => MayFollow(record, q)
            BY <1>2, <1>5, <2>2, Transitive DEF Inv, TypeOK, OrderOK
        <3>2. Queue(record, writes', q)
            BY <2>2, <2>3, <2>4, <3>1, QueueAdd
        <3> QED
            BY <2>2, <2>5, <3>2 DEF Later
    <2>7. WritesOK'
        BY <1>1, <1>5, <2>5 DEF Inv, WritesOK, Frame, Leaving
    <2>8. beats' \in 0 .. MaxBeats
        BY <1>5 DEF Inv, TypeOK
    <2> QED
        BY <1>1, <1>2, <1>3, <2>6, <2>7, <2>8, StepInv
<1> QED
    BY <1>4, <1>5 DEF Beat

\* The turn of a heartbeat of a webhook worker comes before the final record is submitted.
LEMMA BeginHeartbeatInv == ASSUME Inv, BeginHeartbeat PROVE Inv'
<1>1. /\ Frame /\ UNCHANGED <<aborted, outcome, heartbeatFailure, failures, pc, timerOn, ending, faults, local>>
      /\ beats > 0 /\ beats' = beats - 1 /\ Submit("heartbeat", [local EXCEPT !.heartbeatAt = now])
    BY DEF BeginHeartbeat, Unchanged, Frame
<1>2. /\ pc \notin {"starting", "finishing", "ended"} /\ kind # "sequence"
      /\ beats \in 0 .. MaxBeats /\ beats' \in 0 .. MaxBeats
    BY <1>1, WorkerAssumption DEF Inv, TypeOK, WritesOK
<1>3. PICK q : q = [local EXCEPT !.heartbeatAt = now]
    OBVIOUS
<1>4. q \in WorkerRecord
    BY <1>3, LaterLocal
<1>5. PICK x : x = [by |-> "heartbeat", rec |-> q]
    OBVIOUS
<1>6. x \in Write /\ x.by = "heartbeat" /\ writes' = Append(writes, x) /\ writes \in Seq(Write)
    BY <1>1, <1>3, <1>4, <1>5, SameLocal DEF Write, Submit
<1>7. /\ OneLoop(writes') /\ (By(writes', "loop") # {} <=> By(writes, "loop") # {})
      /\ writes' \in Seq(Write)
    BY <1>6, Added, AddedBy DEF Inv, WritesOK
<1>8. Later
    BY <1>1, <1>2, <1>7, SameLocal DEF Later
<1>9. Counters
    BY <1>1, <1>2 DEF Inv, TypeOK, Counters
<1>10. WritesOK'
    BY <1>1, <1>2, <1>7 DEF Inv, WritesOK, Frame
<1>11. FailuresOK'
    BY <1>1 DEF Inv, FailuresOK
<1> QED
    BY <1>1, <1>2, <1>8, <1>9, <1>10, <1>11, StepInv

-----------------------------------------------------------------------------
(* Writes that are stored or throw, and what happens around the worker     *)

LEMMA NothingLeft ==
    ASSUME NEW w \in Seq(Write), By(w, "loop") = {}, By(w, "heartbeat") = {}
    PROVE  w = <<>> /\ \A r, q : Queue(r, w, q)
<1>1. DOMAIN w = {}
    <2>1. \A i \in DOMAIN w : w[i].by \in {"loop", "heartbeat"}
        BY WriteRecord
    <2> QED
        BY <2>1 DEF By
<1>2. Len(w) = 0
    <2>1. Len(w) \in Nat /\ 1 .. Len(w) = {}
        BY <1>1, LenProperties
    <2> QED
        BY <2>1
<1> QED
    BY <1>1, <1>2, EmptySeq DEF Queue, Sorted, Follow, Precede

\* The run ends without saying how.
LEMMA CutInv ==
    ASSUME Inv, Frame, Counters, pc' = "ended", writes' \in Seq(Write), By(writes', "loop") = {},
           By(writes', "heartbeat") = {}, beats' = 0, timerOn' = FALSE, outcome' \notin Said,
           UNCHANGED <<local, failures>>
    PROVE  Inv'
<1>1. TypeOK'
    BY DEF Inv, TypeOK, Frame, Counters
<1>2. WritesOK'
    BY DEF WritesOK, OneLoop, Storing, Leaving
<1>3. FailuresOK' /\ OutcomeOK'
    BY DEF FailuresOK, OutcomeOK, Leaving
<1>4. \A r, q : Queue(r, writes', q)
    BY NothingLeft
<1>5. OrderOK'
    BY <1>4 DEF Inv, OrderOK, Frame, Queue
<1> QED
    BY <1>1, <1>2, <1>3, <1>5 DEF Inv

\* What is left when one write is taken out.
LEMMA Rest ==
    ASSUME Inv, NEW i \in DOMAIN writes
    PROVE  /\ writes \in Seq(Write) /\ RemoveAt(writes, i) \in Seq(Write)
           /\ writes[i] \in Write /\ writes[i].rec \in WorkerRecord
           /\ writes[i].by \in {"loop", "heartbeat"}
           /\ OneLoop(RemoveAt(writes, i))
           /\ writes[i].by = "loop" => By(RemoveAt(writes, i), "loop") = {} /\ pc \in Storing
           /\ writes[i].by # "loop" =>
                /\ By(RemoveAt(writes, i), "loop") # {} <=> pc \in Storing
                /\ pc \notin {"starting", "finishing", "ended"}
           /\ pc \in {"starting", "finishing"} => By(RemoveAt(writes, i), "heartbeat") = {}
           /\ kind = "sequence" =>
                /\ Sorted(RemoveAt(writes, i)) /\ Follow(record, RemoveAt(writes, i))
                /\ pc # "finishing" => Queue(record, RemoveAt(writes, i), local)
                /\ i = 1 => Follow(writes[i].rec, RemoveAt(writes, i))
<1>1. writes \in Seq(Write) /\ OneLoop(writes)
    BY DEF Inv, TypeOK, WritesOK
<1>2. /\ writes[i] \in Write /\ writes[i].rec \in WorkerRecord
      /\ writes[i].by \in {"loop", "heartbeat"}
    BY <1>1, WriteRecord
<1>3. RemoveAt(writes, i) \in Seq(Write)
    BY <1>1, Removed
<1>4. /\ OneLoop(RemoveAt(writes, i))
      /\ writes[i].by = "loop" => By(RemoveAt(writes, i), "loop") = {}
      /\ writes[i].by # "loop" => (By(RemoveAt(writes, i), "loop") # {} <=> By(writes, "loop") # {})
      /\ By(writes, "heartbeat") = {} => By(RemoveAt(writes, i), "heartbeat") = {}
    BY <1>1, RemovedBy
<1>5. i \in By(writes, writes[i].by)
    BY DEF By
<1>6. /\ By(writes, "loop") # {} <=> pc \in Storing
      /\ pc \in {"starting", "finishing", "ended"} => By(writes, "heartbeat") = {}
    BY DEF Inv, WritesOK
<1>7. ASSUME kind = "sequence"
      PROVE  /\ Sorted(RemoveAt(writes, i)) /\ Follow(record, RemoveAt(writes, i))
             /\ pc # "finishing" => Queue(record, RemoveAt(writes, i), local)
             /\ i = 1 => Follow(writes[i].rec, RemoveAt(writes, i))
    <2>1. Sorted(writes) /\ Follow(record, writes) /\ (pc # "finishing" => Precede(writes, local))
        BY <1>7 DEF Inv, OrderOK
    <2> QED
        BY <1>1, <2>1, QueueRemove DEF Queue
<1> QED
    BY <1>1, <1>2, <1>3, <1>4, <1>5, <1>6, <1>7

\* A record is stored.
LEMMA StoredInv == ASSUME Inv, NEW i \in DOMAIN writes, Stored(i) PROVE Inv'
<1> DEFINE rest == RemoveAt(writes, i)
           x == writes[i]
<1>1. /\ Storable(i) /\ record' = x.rec /\ others' = Retained(others, x.rec) /\ writes' = rest
      /\ UNCHANGED <<kind, now, aborted, failures, local, beats, ending, faults, runs>>
    BY DEF Stored
<1>2. /\ writes \in Seq(Write) /\ rest \in Seq(Write) /\ x.rec \in WorkerRecord
      /\ x.by \in {"loop", "heartbeat"} /\ OneLoop(rest)
      /\ x.by = "loop" => By(rest, "loop") = {} /\ pc \in Storing
      /\ x.by # "loop" => /\ By(rest, "loop") # {} <=> pc \in Storing
                          /\ pc \notin {"starting", "finishing", "ended"}
      /\ pc \in {"starting", "finishing"} => By(rest, "heartbeat") = {}
    BY Rest
<1>3. /\ x.by = "heartbeat" => UNCHANGED <<pc, timerOn, outcome>> /\ heartbeatFailure' = FALSE
      /\ x.by = "loop" => Continue
    BY DEF Stored
<1>4. /\ pc' \in Places /\ {timerOn', heartbeatFailure'} \subseteq BOOLEAN
      /\ outcome' \in Statuses \cup {"rejected", "crashed"}
    BY <1>2, <1>3 DEF Inv, TypeOK, Continue, Places
<1>5. TypeOK'
    <2>1. others' \subseteq WorkerRecord
        BY <1>1 DEF Inv, TypeOK, Retained
    <2> HIDE DEF rest, x
    <2> QED
        BY <1>1, <1>2, <1>4, <2>1 DEF Inv, TypeOK
<1>6. pc = "finishing" => x.rec.status = ending /\ ending \in Said
    BY DEF Inv, WritesOK
<1> HIDE DEF rest, x
<1>7. WritesOK'
    <2>1. CASE x.by = "heartbeat"
        BY <1>1, <1>2, <1>3, <2>1 DEF Inv, WritesOK
    <2>2. CASE x.by = "loop"
        BY <1>1, <1>2, <1>3, <2>2 DEF Inv, WritesOK, Continue, Storing, Leaving
    <2> QED
        BY <1>2, <2>1, <2>2
<1>8. FailuresOK'
    BY <1>1, <1>2, <1>3 DEF Inv, FailuresOK, Continue, Leaving
<1>9. OutcomeOK'
    <2>1. CASE x.by = "heartbeat"
        BY <1>1, <1>2, <1>3, <2>1 DEF Inv, OutcomeOK, Said
    <2>2. CASE x.by = "loop"
        <3>1. pc # "ended" /\ outcome = "running"
            BY <1>2, <2>2 DEF Inv, OutcomeOK, Storing
        <3> QED
            BY <1>1, <1>2, <1>3, <1>6, <2>2, <3>1, WorkerAssumption DEF OutcomeOK, Continue, Said
    <2> QED
        BY <1>2, <2>1, <2>2
<1>10. ASSUME kind = "sequence" PROVE OrderOK'
    <2>1. i = 1
        BY <1>1, <1>10 DEF Storable, Chained
    <2>2. /\ Sorted(rest) /\ Follow(x.rec, rest) /\ (pc # "finishing" => Queue(record, rest, local))
        BY <1>10, <2>1, Rest DEF rest, x
    <2>3. pc # "finishing" => MayFollow(x.rec, local)
        BY <1>10 DEF Inv, OrderOK, Precede, x
    <2>4. pc = "finishing" => pc' = "ended" /\ Queue(record, rest, local)
        BY <1>2, <1>3, NothingLeft DEF Continue
    <2>5. local.status = "running" /\ local.heartbeatAt <= now
        BY <1>10 DEF Inv, OrderOK
    <2> QED
        BY <1>1, <2>2, <2>3, <2>4, <2>5 DEF OrderOK, Queue
<1>11. kind # "sequence" => OrderOK'
    BY <1>1 DEF OrderOK
<1> QED
    BY <1>5, <1>7, <1>8, <1>9, <1>10, <1>11 DEF Inv

\* A write of the loop throws: it ends, or records the failure.
LEMMA LoopWriteThrowsInv ==
    ASSUME Inv, NEW i \in DOMAIN writes, writes[i].by = "loop", LoopWriteThrows(i), Frame,
           UNCHANGED <<aborted, beats, heartbeatFailure>>
    PROVE  Inv'
<1> DEFINE rest == RemoveAt(writes, i)
<1>1. /\ rest \in Seq(Write) /\ By(rest, "loop") = {} /\ pc \in Storing
      /\ pc \in {"starting", "finishing"} => By(rest, "heartbeat") = {}
      /\ kind = "sequence" /\ pc # "finishing" => Queue(record, rest, local)
    BY Rest
<1>2. kind = "sequence" => Queue(record, rest, local)
    BY <1>1, NothingLeft
<1>3. /\ pc # "ended" /\ heartbeatFailure' \in BOOLEAN /\ failures \in 0 .. FailureLimit
      /\ outcome = "running" /\ Said = {"stopped", "failed"}
    BY <1>1 DEF Inv, TypeOK, OutcomeOK, Storing, Said
<1>4. \A n \in Nat : Faults(n) => faults' \in 0 .. MaxFaults
    BY FaultsCounted
<1> DEFINE Away(status) ==
               /\ \E n \in 1 .. 2 : Faults(n)
               /\ End(status) /\ writes' = rest /\ UNCHANGED <<failures, local, outcome>>
           Rejected ==
               /\ pc \in {"starting", "finishing"} /\ Faults(1) /\ pc' = "ended" /\ outcome' = "rejected"
               /\ writes' = rest /\ UNCHANGED <<failures, local, ending, timerOn>>
           failed == [local EXCEPT !.lastError = TRUE, !.heartbeatAt = now]
           More == /\ pc = "recording" /\ Faults(1) /\ local' = failed /\ UNCHANGED outcome
                   /\ failures' = IF kind = "webhook" THEN failures + 1 ELSE failures
                   /\ \/ /\ kind = "webhook" /\ FailedTooOften(failures + 1)
                         /\ End("failed") /\ writes' = rest
                      \/ /\ kind = "sequence" \/ ~FailedTooOften(failures + 1)
                         /\ pc' = "errorRecording"
                         /\ writes' = Append(rest, [by |-> "loop", rec |-> local'])
                         /\ UNCHANGED <<ending, timerOn>>
<1>5. Away("stopped") \/ Away("failed") \/ Rejected \/ More
    BY DEF LoopWriteThrows
<1>6. ASSUME NEW status \in Said, Away(status) PROVE Inv'
    <2>1. Later
        BY <1>1, <1>2, <1>6, SameLocal DEF Later
    <2> QED
        BY <1>1, <1>3, <1>4, <1>6, <2>1, EndInv
<1>7. CASE Rejected
    <2>1. beats = 0 /\ timerOn = FALSE
        BY <1>7 DEF Inv, WritesOK, Leaving
    <2>2. Counters
        BY <1>3, <1>4, <1>7 DEF Inv, TypeOK, Counters, Places
    <2> QED
        BY <1>1, <1>7, <2>1, <2>2, CutInv DEF Said
<1>8. CASE More
    <2>1. PICK q : q = failed
        OBVIOUS
    <2>2. /\ q \in WorkerRecord /\ q.heartbeatAt <= now
          /\ kind = "sequence" => q.status = "running" /\ MayFollow(local, q)
        BY <1>8, <2>1, LaterLocal
    <2>3. kind = "sequence" => Queue(record, rest, q)
        BY <1>1, <1>2, <2>2, SameLocal, QueueLater
    <2>4. /\ FailureLimit \in Nat \ {0} /\ failures # FailureLimit
          /\ failures' \in 0 .. FailureLimit
          /\ ~FailedTooOften(failures + 1) \/ kind # "webhook" => failures' \in 0 .. FailureLimit - 1
        BY <1>3, <1>8, WorkerAssumption DEF Inv, FailuresOK, Leaving, FailedTooOften
    <2>5. CASE End("failed") /\ writes' = rest
        <3>1. Later
            BY <1>1, <1>8, <2>1, <2>2, <2>3, <2>5 DEF Later
        <3> QED
            BY <1>1, <1>3, <1>4, <1>8, <2>4, <2>5, <3>1, EndInv
    <2>6. CASE /\ failures' \in 0 .. FailureLimit - 1 /\ pc' = "errorRecording"
               /\ writes' = Append(rest, [by |-> "loop", rec |-> local'])
               /\ UNCHANGED <<ending, timerOn>>
        BY <1>1, <1>3, <1>4, <1>8, <2>1, <2>2, <2>3, <2>6, SubmitInv
    <2> QED
        BY <1>8, <2>4, <2>5, <2>6
<1> QED
    BY <1>3, <1>5, <1>6, <1>7, <1>8

(* The store refuses a write: of the loop, which fails on it, or of a heartbeat, which is dropped. *)
LEMMA WriteThrowsInv == ASSUME Inv, NEW i \in DOMAIN writes, WriteThrows(i) PROVE Inv'
<1>1. Frame /\ UNCHANGED <<aborted, beats>>
    BY DEF WriteThrows, Frame
<1>2. CASE writes[i].by = "loop" /\ LoopWriteThrows(i) /\ UNCHANGED heartbeatFailure
    BY <1>1, <1>2, LoopWriteThrowsInv
<1>3. CASE /\ writes[i].by = "heartbeat" /\ Faults(1) /\ heartbeatFailure' = TRUE
           /\ writes' = RemoveAt(writes, i)
           /\ UNCHANGED <<pc, failures, local, ending, timerOn, outcome>>
    <2> DEFINE rest == RemoveAt(writes, i)
    <2>1. /\ rest \in Seq(Write) /\ OneLoop(rest) /\ (By(rest, "loop") # {} <=> pc \in Storing)
          /\ pc \notin {"starting", "finishing", "ended"}
          /\ kind = "sequence" => Queue(record, rest, local)
        BY <1>3, Rest
    <2> HIDE DEF rest
    <2>2. writes' = rest
        BY <1>3 DEF rest
    <2>3. Later
        BY <1>3, <2>1, <2>2, SameLocal DEF Later
    <2>4. Counters
        BY <1>1, <1>3, FaultsCounted DEF Inv, TypeOK, Counters
    <2>5. WritesOK'
        BY <1>1, <1>3, <2>1, <2>2 DEF Inv, WritesOK, Frame
    <2>6. FailuresOK'
        BY <1>3 DEF Inv, FailuresOK
    <2> QED
        BY <1>1, <1>3, <2>1, <2>3, <2>4, <2>5, <2>6, StepInv
<1> QED
    BY <1>2, <1>3 DEF WriteThrows

(* The signal is aborted. *)
LEMMA AbortInv == ASSUME Inv, Abort PROVE Inv'
BY DEF Abort, Inv, TypeOK, WritesOK, FailuresOK, OutcomeOK, OrderOK

(* The clock goes on. *)
LEMMA TimePassesInv == ASSUME Inv, TimePasses PROVE Inv'
<1>1. now' \in 0 .. MaxTime /\ now' = now + 1 /\ now \in Nat
    BY WorkerAssumption DEF TimePasses, Inv, TypeOK
<1>2. /\ UNCHANGED <<kind, pc, aborted, timerOn, failures, local, heartbeatFailure, beats>>
      /\ UNCHANGED <<writes, ending, outcome, record, others, faults, runs>>
    BY DEF TimePasses
<1>3. TypeOK'
    BY <1>1, <1>2 DEF Inv, TypeOK
<1>4. WritesOK' /\ FailuresOK' /\ OutcomeOK'
    BY <1>2 DEF Inv, WritesOK, FailuresOK, OutcomeOK
<1>5. local.heartbeatAt \in Nat
    BY WorkerAssumption DEF Inv, TypeOK, WorkerRecord
<1>6. OrderOK'
    BY <1>1, <1>2, <1>5 DEF Inv, OrderOK
<1> QED
    BY <1>3, <1>4, <1>6 DEF Inv

(* The process dies, and the writes on their way to the store are lost. *)
LEMMA CrashInv == ASSUME Inv, Crash PROVE Inv'
<1>1. writes' \in Seq(Write) /\ By(writes', "loop") = {} /\ By(writes', "heartbeat") = {}
    BY EmptySeq DEF Crash, By
<1>2. Counters /\ outcome' \notin Said
    <2>1. 0 \in 0 .. MaxBeats
        BY WorkerAssumption
    <2> QED
        BY <2>1 DEF Crash, Inv, TypeOK, Counters, Places, Said
<1> QED
    BY <1>1, <1>2, CutInv DEF Crash, Frame

(* Another worker is started, with a record of its own. *)
LEMMA RestartInv == ASSUME Inv, Restart PROVE Inv'
<1>1. Fresh \in WorkerRecord /\ Fresh.status = "running" /\ Fresh.heartbeatAt = now
    BY WorkerAssumption DEF Inv, TypeOK, Fresh, WorkerRecord, Statuses
<1>2. PICK x : x = [by |-> "loop", rec |-> Fresh]
    OBVIOUS
<1>3. x \in Write /\ x.by = "loop" /\ x.rec = Fresh
    BY <1>1, <1>2 DEF Write
<1>4. writes' = <<x>>
    BY <1>2 DEF Restart
<1>5. writes' \in Seq(Write) /\ DOMAIN writes' = {1} /\ writes'[1] = x
    BY <1>3, <1>4
<1>6. /\ local' = Fresh /\ record' = NoRecord /\ pc' = "starting" /\ timerOn' = FALSE /\ beats' = 0
      /\ failures' = 0 /\ ending' = "running" /\ outcome' = "running" /\ UNCHANGED <<kind, now, faults>>
    BY DEF Restart
<1>7. TypeOK'
    <2>1. others' \subseteq WorkerRecord /\ runs' \in 1 .. MaxRuns
        BY WorkerAssumption DEF Restart, Inv, TypeOK
    <2>2. {aborted', timerOn', heartbeatFailure'} \subseteq BOOLEAN
        BY DEF Restart
    <2>3. failures' \in 0 .. FailureLimit /\ beats' \in 0 .. MaxBeats
        BY <1>6, WorkerAssumption
    <2>4. pc' \in Places /\ ending' \in Statuses /\ outcome' \in Statuses \cup {"rejected", "crashed"}
        BY <1>6 DEF Places, Statuses
    <2> QED
        BY <1>1, <1>5, <1>6, <2>1, <2>2, <2>3, <2>4 DEF Inv, TypeOK
<1>8. WritesOK'
    BY <1>3, <1>5, <1>6 DEF WritesOK, OneLoop, By, Storing, Leaving
<1>9. FailuresOK' /\ OutcomeOK'
    BY <1>6, WorkerAssumption DEF FailuresOK, OutcomeOK, Said
<1>10. MayFollow(Fresh, Fresh)
    BY <1>1, WorkerAssumption DEF MayFollow, WorkerRecord
<1>11. now' = now /\ now \in Nat
    BY <1>6, WorkerAssumption DEF Inv, TypeOK
<1>12. OrderOK'
    BY <1>1, <1>3, <1>5, <1>6, <1>10, <1>11 DEF OrderOK, Sorted, Follow, Precede
<1> QED
    BY <1>7, <1>8, <1>9, <1>12 DEF Inv

\* Every step preserves the invariant.
LEMMA NextInv == Inv /\ [Next]_vars => Inv'
<1> SUFFICES ASSUME Inv, [Next]_vars PROVE Inv'
    OBVIOUS
<1>1. CASE Main
    BY <1>1, LoopInv, TickDoneInv, WakeInv, DrainedInv DEF Main
<1>2. CASE TickThrows \/ CallbackThrows \/ Beat \/ BeginHeartbeat
    BY <1>2, TickThrowsInv, CallbackThrowsInv, BeatInv, BeginHeartbeatInv
<1>3. ASSUME NEW i \in DOMAIN writes, Stored(i) \/ WriteThrows(i) PROVE Inv'
    BY <1>3, StoredInv, WriteThrowsInv
<1>4. CASE Abort \/ TimePasses \/ Crash \/ Restart
    BY <1>4, AbortInv, TimePassesInv, CrashInv, RestartInv
<1>5. CASE UNCHANGED vars
    BY <1>5 DEF vars, Inv, TypeOK, WritesOK, FailuresOK, OutcomeOK, OrderOK
<1> QED
    BY <1>1, <1>2, <1>3, <1>4, <1>5 DEF Next

\* The invariant holds in every reachable state.
THEOREM Invariance == Spec => []Inv
BY InitInv, NextInv, PTL DEF Spec

\* A webhook worker never counts more failures in a row than it may have, and no more heartbeats
\* wait than the timer made.
THEOREM TypeCorrectness == Spec => []TypeOK
<1>1. Inv => TypeOK
    BY DEF Inv
<1> QED
    BY <1>1, Invariance, PTL

\* The final record of a worker that ended and said how is not stored over by a heartbeat that was
\* on its way: the loop drains them first, and the final record travels alone.
THEOREM FinalRecordStays == Spec => []EndedIsRecorded
<1>1. Inv => EndedIsRecorded
    <2> SUFFICES ASSUME Inv, outcome \in Said PROVE EndedIsRecorded
        BY DEF EndedIsRecorded, Said
    <2>1. pc = "ended" /\ record # NoRecord /\ record.status = outcome
        BY DEF Inv, OutcomeOK, Said
    <2>2. By(writes, "loop") = {} /\ By(writes, "heartbeat") = {} /\ beats = 0 /\ writes \in Seq(Write)
        BY <2>1 DEF Inv, TypeOK, WritesOK, Storing
    <2> QED
        BY <2>1, <2>2, NothingLeft DEF EndedIsRecorded
<1> QED
    BY <1>1, Invariance, PTL

\* The record of a sequence worker never goes back: its writes, heartbeats included, are stored in
\* the order in which their records were built.
THEOREM SequenceRecordsInOrder == Spec => RecordsInOrder
<1> DEFINE Forward ==
      (kind = "sequence" /\ record # NoRecord /\ record' # NoRecord) =>
            /\ record'.heartbeatAt >= record.heartbeatAt
            /\ record'.lastTick >= record.lastTick
            /\ record'.status = "running" => record.status = "running"
<1>1. ASSUME Inv, [Next]_vars PROVE [Forward]_record
    <2>1. ASSUME NEW i \in DOMAIN writes, Stored(i) PROVE Forward
        <3>1. record' = writes[i].rec /\ writes[i].rec \in WorkerRecord
            BY <1>1, <2>1, Rest DEF Stored
        <3>2. kind = "sequence" /\ record # NoRecord => MayFollow(record, record') /\ record \in WorkerRecord
            BY <1>1, <3>1 DEF Inv, TypeOK, OrderOK, Follow
        <3>3. \A r \in WorkerRecord : r.heartbeatAt \in Nat /\ r.lastTick \in Nat
            BY WorkerAssumption DEF WorkerRecord
        <3> QED
            BY <3>1, <3>2, <3>3 DEF MayFollow
    <2>2. CASE Restart
        BY <2>2 DEF Restart
    <2>3. CASE UNCHANGED record
        BY <2>3
    <2> QED
        BY <1>1, <2>1, <2>2, <2>3
           DEF Next, vars, Main, Loop, TickDone, Wake, Drained, TickThrows, CallbackThrows, Beat,
               BeginHeartbeat, WriteThrows, Abort, TimePasses, Crash, Unchanged
<1>2. []Inv /\ [][Next]_vars => [][Forward]_record
    BY <1>1, PTL
<1> QED
    BY <1>2, Invariance, PTL DEF Spec, RecordsInOrder
=============================================================================
