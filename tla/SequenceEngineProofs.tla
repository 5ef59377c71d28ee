------------------------ MODULE SequenceEngineProofs ------------------------
(***************************************************************************)
(* Theorems about the sequences, for every value of the constants:         *)
(* enrollments never go back, pass a send step only when its message was   *)
(* sent, and a step is sent once per window, whatever executions, reviews  *)
(* and crashes do to each other.                                           *)
(*                                                                         *)
(* EngineInv is about the repository: what an execution whose lease is     *)
(* stored, or a review whose enrollment was not updated, remembers of the  *)
(* enrollment is what is stored.  SendingInv is about the idempotency      *)
(* records: it adds to the invariants of TransactionalSend (SendP) that a  *)
(* review only settles records of calls that are over, and releases none   *)
(* whose message was sent.                                                 *)
(***************************************************************************)
EXTENDS SequenceEngine, FiniteSetTheorems, TLAPS

SendP == INSTANCE TransactionalSendProofs WITH Keys <- SendKeys, Payloads <- SendKeys, Callers <- Executions

-----------------------------------------------------------------------------
(* The repository *)

DefinitionsOK ==
    /\ definitions \in [DOMAIN definitions -> Definition]
    /\ DOMAIN definitions \subseteq Definitions

\* An enrollment is leased exactly while it is running, and has an attempt left while it is active.
EnrollmentOK(n) ==
    /\ n \in Enrollment
    /\ n.step <= Len(Steps(n))
    /\ n.leaseToken # NoLease <=> n.status = "running"
    /\ n.status \notin Terminal => n.retryCount < MaxAttempts

EnrollmentsOK == Stored \subseteq EnrollmentIds /\ \A e \in Stored : EnrollmentOK(enrollments[e])

JobRecord == [at : {"executing", "sending"}, id : EnrollmentIds, now : Int, enrollment : Enrollment]

JobOK(c, j) ==
    \/ j = IdleJob
    \/ j \in JobRecord /\ EnrollmentOK(j.enrollment) /\ j.enrollment.leaseToken = c

JobsOK ==
    /\ jobs \in [Executions -> JobRecord \cup {IdleJob}]
    /\ \A c \in Executions : JobOK(c, jobs[c])

\* m is n but for its times.
SameStep(m, n) ==
    /\ m.sequenceId = n.sequenceId /\ m.revision = n.revision /\ m.subscriberId = n.subscriberId
    /\ m.step = n.step /\ m.retryCount = n.retryCount

\* An execution that passes the fence has claimed the enrollment as it is stored.
FencesOK ==
    \A c \in Working : jobs[c].id \in Stored /\ enrollments[jobs[c].id].leaseToken = c =>
        SameStep(enrollments[jobs[c].id], jobs[c].enrollment)

ReviewRecord ==
    [at : {"read", "decided", "resolved"}, id : EnrollmentIds, enrollment : Enrollment,
     now : -MaxWait .. 0, resolution : Resolutions \cup {"none"},
     token : ClaimTokens \cup {NoClaim}, status : Send!Statuses \cup {"none"}]

\* A review that finds its enrollment not updated has read it as it is stored.
ReviewOK(r) ==
    \/ r = IdleReview
    \/ /\ r \in ReviewRecord /\ EnrollmentOK(r.enrollment) /\ r.enrollment.status = "ambiguous"
       /\ r.at # "read" => r.resolution \in Resolutions /\ r.token \in ClaimTokens
       /\ r.id \in Stored /\ enrollments[r.id].status = "ambiguous"
            /\ enrollments[r.id].updatedAt = r.enrollment.updatedAt
          => enrollments[r.id] = r.enrollment

ReviewsOK ==
    /\ reviews \in [Operators -> ReviewRecord \cup {IdleReview}]
    /\ \A o \in Operators : ReviewOK(reviews[o])

EngineInv == DefinitionsOK /\ EnrollmentsOK /\ JobsOK /\ FencesOK /\ ReviewsOK

-----------------------------------------------------------------------------
(* The sending *)

\* A call is about the step its execution is at, and its answer is known when it is over.
CallOf(c) ==
    IF jobs[c].at = "sending"
    THEN /\ calls[c].key = KeyOf(c) /\ calls[c].payload = KeyOf(c)
         /\ calls[c].at = "idle" => calls[c].answer # "none"
    ELSE calls[c] = Send!IdleCall

\* A record stands for its own key, and is pending as long as the call that claimed it.
RecordsOf ==
    \A k \in DOMAIN records :
        /\ records[k].payload = k
        /\ \A c \in Executions : SendP!Busy(c) /\ records[k].claimToken = calls[c].token =>
             records[k].status = "pending"

\* What was counted or acknowledged as sent has been sent.
HistoryOK ==
    /\ delivered \subseteq SendKeys
    /\ \A k \in SendKeys : sends[k].count # 0 => k \in delivered
    /\ \A p \in confirmed : p[1] = p[2] /\ p[1] \in delivered

\* What a review has decided is about a call that is over and the message as it was sent or not.
DecisionOK(o, r) ==
    r.at \in {"decided", "resolved"} =>
      LET k == <<r.id, r.enrollment.step>> IN
      /\ \A c \in Executions : SendP!Busy(c) => calls[c].token # r.token
      /\ r.resolution = "sent" => k \in delivered
      /\ r.resolution = "not_sent" /\ k \in DOMAIN records /\ records[k].claimToken = r.token =>
           k \notin delivered
      /\ r.at = "resolved" /\ r.resolution = "sent" => <<k, k>> \in confirmed

SendingInv ==
    /\ SendP!Inv /\ SendP!Protected
    /\ \A c \in Executions : CallOf(c)
    /\ RecordsOf /\ HistoryOK
    /\ \A o \in Operators : DecisionOK(o, reviews[o])

Inv == EngineInv /\ SendingInv

-----------------------------------------------------------------------------
(* Plans and what becomes of an enrollment *)

\* What is assumed of the numbers.
LEMMA Numbers ==
    /\ LeaseMs \in Nat /\ Limit \in Nat /\ RetryDelay \in Nat /\ MaxAttempts \in Nat /\ MaxAttempts > 0
    /\ NoLease \notin Executions
BY SequencesAssumption

USE Numbers

\* The steps of an enrollment, and the one it is at.
LEMMA PlanFacts ==
    ASSUME NEW n \in Enrollment, n.step <= Len(Steps(n))
    PROVE  /\ StepNumbers \subseteq Nat \ {0}
           /\ Len(Steps(n)) \in Nat /\ n.step \in 1 .. Len(Steps(n))
           /\ 1 .. Len(Steps(n)) \subseteq StepNumbers
           /\ Steps(n)[n.step] \in PlanStep
           /\ StepType(n) = "condition" => Steps(n)[n.step].targets \subseteq n.step + 1 .. Len(Steps(n))
           /\ StepType(n) = "wait" => Steps(n)[n.step].duration \in Nat
           /\ StepType(n) \in {"wait", "wait_until"} => n.step < Len(Steps(n))
           /\ StepType(n) \in {"send", "wait", "wait_until", "condition", "stop"}
<1>1. n.revision \in 1 .. Len(Plans) /\ n.step \in StepNumbers
    BY DEF Enrollment
<1>2. \A r \in 1 .. Len(Plans) : Plans[r] \in Seq(PlanStep) /\ Len(Plans[r]) \in Nat
    BY SequencesAssumption
<1>3. StepNumbers \subseteq Nat \ {0}
    BY <1>2 DEF StepNumbers
<1> DEFINE p == Plans[n.revision]
<1>4. p \in Seq(PlanStep) /\ PlanOK(p) /\ Len(p) \in Nat /\ Steps(n) = p
    BY <1>1, <1>2, SequencesAssumption DEF Steps
<1>5. n.step \in 1 .. Len(p) /\ 1 .. Len(p) \subseteq StepNumbers
    BY <1>1, <1>3, <1>4 DEF StepNumbers
<1> HIDE DEF p
<1> DEFINE s == p[n.step]
<1>6. s \in PlanStep
    BY <1>4, <1>5
<1>7. s.type = "condition" => s.targets \subseteq n.step + 1 .. Len(p)
    BY <1>4, <1>5 DEF PlanOK
<1>8. s.type \in {"wait", "wait_until"} => n.step < Len(p)
    BY <1>4, <1>5 DEF PlanOK
<1>9. /\ s.type \in {"send", "wait", "wait_until", "condition", "stop"}
      /\ s.type = "wait" => s.duration \in Nat
    BY <1>6 DEF PlanStep
<1> QED
    BY <1>3, <1>4, <1>5, <1>6, <1>7, <1>8, <1>9 DEF StepType

\* What an execution or a review makes of the enrollment n: it has no lease, did not go back,
\* and a new ambiguity is told apart from those under review.
Result(n, x) ==
    /\ EnrollmentOK(x)
    /\ x.sequenceId = n.sequenceId /\ x.revision = n.revision /\ x.subscriberId = n.subscriberId
    /\ x.leaseToken = NoLease
    /\ x.step >= n.step
    /\ x.status = "ambiguous" => x.updatedAt \in FreshUpdates

Moves(n, x) == x.step > n.step \/ x.status = "completed"

\* The fields of an enrollment without its lease.
LEMMA WithoutLeaseFields ==
    ASSUME NEW n \in Enrollment
    PROVE  \E m \in Enrollment :
             /\ WithoutLease(n) = m
             /\ m.sequenceId = n.sequenceId /\ m.revision = n.revision /\ m.subscriberId = n.subscriberId
             /\ m.step = n.step /\ m.retryCount = n.retryCount /\ m.leaseToken = NoLease
             /\ m.leaseExpiresIn = 0 /\ m.updatedAt = 0 /\ m.status = n.status
<1>1. 0 \in Updates
    BY FS_CardinalityType, SequencesAssumption DEF Updates
<1>2. PICK l \in Executions \cup {NoLease}, i \in Int, u \in Updates : l = NoLease /\ i = 0 /\ u = 0
    BY <1>1
<1>3. [n EXCEPT !.leaseToken = l, !.leaseExpiresIn = i, !.updatedAt = u] \in Enrollment
    BY DEF Enrollment
<1>4. WithoutLease(n) \in Enrollment
    BY <1>2, <1>3 DEF WithoutLease
<1> QED
    BY <1>4 DEF WithoutLease, Enrollment

\* The enrollment has ended (completed, failed or cancelled).
LEMMA EndedOK ==
    ASSUME NEW n, EnrollmentOK(n), NEW status \in Terminal
    PROVE  Result(n, Ended(n, status)) /\ Ended(n, status).step = n.step /\ Ended(n, status).status = status
<1>1. PICK m \in Enrollment :
         /\ WithoutLease(n) = m
         /\ m.sequenceId = n.sequenceId /\ m.revision = n.revision /\ m.subscriberId = n.subscriberId
         /\ m.step = n.step /\ m.leaseToken = NoLease
    BY WithoutLeaseFields DEF EnrollmentOK
<1>2. Ended(n, status) = [m EXCEPT !.status = status, !.retryCount = 0]
    BY <1>1 DEF Ended
<1> DEFINE x == [m EXCEPT !.status = status, !.retryCount = 0]
<1>5. x \in Enrollment
    <2>1. PICK r \in 0 .. MaxAttempts : r = 0
        OBVIOUS
    <2>2. status \in Scheduled \cup {"ambiguous"} \cup Terminal
        OBVIOUS
    <2>3. [m EXCEPT !.status = status, !.retryCount = r] \in Enrollment
        BY <2>2 DEF Enrollment
    <2> QED
        BY <2>1, <2>3
<1>3. /\ x \in Enrollment /\ x.status = status /\ x.retryCount = 0 /\ x.step = n.step /\ x.leaseToken = NoLease
      /\ x.sequenceId = n.sequenceId /\ x.revision = n.revision /\ x.subscriberId = n.subscriberId
    BY <1>1, <1>5 DEF Enrollment
<1> HIDE DEF x
<1>4. Steps(x) = Steps(n) /\ n.step <= Len(Steps(n)) /\ x.step >= n.step
    BY <1>3, PlanFacts DEF Steps, EnrollmentOK
<1> QED
    BY <1>2, <1>3, <1>4 DEF Result, EnrollmentOK, x, Terminal

\* The enrollment waits at the step i.
LEMMA AtStepOK ==
    ASSUME NEW n, EnrollmentOK(n), NEW i \in n.step .. Len(Steps(n)), NEW status \in {"pending", "waiting"},
           NEW time \in Int
    PROVE  /\ Result(n, AtStep(n, i, status, time))
           /\ AtStep(n, i, status, time).step = i /\ AtStep(n, i, status, time).status = status
<1>1. PICK m \in Enrollment :
         /\ WithoutLease(n) = m
         /\ m.sequenceId = n.sequenceId /\ m.revision = n.revision /\ m.subscriberId = n.subscriberId
         /\ m.step = n.step /\ m.leaseToken = NoLease
    BY WithoutLeaseFields DEF EnrollmentOK
<1>2. AtStep(n, i, status, time) = [m EXCEPT !.status = status, !.retryCount = 0, !.step = i, !.nextRunIn = time]
    BY <1>1 DEF AtStep
<1> DEFINE x == [m EXCEPT !.status = status, !.retryCount = 0, !.step = i, !.nextRunIn = time]
<1>3. i \in StepNumbers /\ i >= n.step /\ i <= Len(Steps(n))
    BY PlanFacts DEF EnrollmentOK
<1>6. x \in Enrollment
    <2>1. PICK r \in 0 .. MaxAttempts : r = 0
        OBVIOUS
    <2>2. status \in Scheduled \cup {"ambiguous"} \cup Terminal
        BY DEF Scheduled
    <2>3. [m EXCEPT !.status = status, !.retryCount = r, !.step = i, !.nextRunIn = time] \in Enrollment
        BY <1>3, <2>2 DEF Enrollment
    <2> QED
        BY <2>1, <2>3
<1>4. /\ x \in Enrollment /\ x.status = status /\ x.retryCount = 0 /\ x.step = i /\ x.leaseToken = NoLease
      /\ x.sequenceId = n.sequenceId /\ x.revision = n.revision /\ x.subscriberId = n.subscriberId
    BY <1>1, <1>6 DEF Enrollment
<1> HIDE DEF x
<1>5. Steps(x) = Steps(n)
    BY <1>4 DEF Steps
<1> QED
    BY <1>2, <1>3, <1>4, <1>5 DEF Result, EnrollmentOK, x

\* The enrollment follows its plan, to the next step or to its end.
LEMMA FollowingOK ==
    ASSUME NEW n, EnrollmentOK(n), NEW status \in {"pending", "waiting"}, NEW time \in Int
    PROVE  /\ Result(n, Following(n, status, time)) /\ Moves(n, Following(n, status, time))
           /\ Following(n, status, time).status # "ambiguous"
<1>1. n.step \in 1 .. Len(Steps(n)) /\ Len(Steps(n)) \in Nat
    BY PlanFacts DEF EnrollmentOK
<1>2. CASE n.step = Len(Steps(n))
    BY <1>2, EndedOK DEF Following, Moves, Terminal
<1>3. CASE n.step # Len(Steps(n))
    <2>1. n.step + 1 \in n.step .. Len(Steps(n)) /\ n.step + 1 > n.step
        BY <1>1, <1>3
    <2> QED
        BY <1>3, <2>1, AtStepOK DEF Following, Moves
<1> QED
    BY <1>2, <1>3

\* There is an updatedAt that no review remembers.
LEMMA FreshUpdateExists == \E u \in FreshUpdates : TRUE
<1> DEFINE S == {reviews[o].enrollment.updatedAt : o \in Reviewing}
           U == 1 .. Cardinality(Operators) + 1
<1>1. IsFiniteSet(Operators) /\ Cardinality(Operators) \in Nat
    BY SequencesAssumption, FS_CardinalityType
<1>2. IsFiniteSet(Reviewing) /\ Cardinality(Reviewing) <= Cardinality(Operators)
    BY <1>1, FS_Subset DEF Reviewing
<1>3. IsFiniteSet(S) /\ Cardinality(S) <= Cardinality(Reviewing)
    <2> DEFINE f == [o \in Reviewing |-> reviews[o].enrollment.updatedAt]
    <2>1. f \in Surjection(Reviewing, S)
        BY DEF Surjection
    <2> QED
        BY <1>2, <2>1, FS_Surjection DEF ExistsSurjection
<1>4. Cardinality(U) = Cardinality(Operators) + 1
    BY <1>1, FS_Interval
<1>5. Cardinality(S) \in Nat /\ Cardinality(Reviewing) \in Nat
    BY <1>2, <1>3, FS_CardinalityType
<1>6. ~(U \subseteq S)
    <2> SUFFICES ASSUME U \subseteq S PROVE FALSE
        OBVIOUS
    <2>1. Cardinality(U) <= Cardinality(S)
        BY <1>3, FS_Subset
    <2> QED
        BY <1>1, <1>2, <1>3, <1>4, <1>5, <2>1
<1>7. U \subseteq Updates \ {0}
    BY <1>1 DEF Updates
<1> QED
    BY <1>6, <1>7 DEF FreshUpdates

\* An ambiguous send waits for a review that has not begun.
LEMMA AmbiguousOK ==
    ASSUME NEW n, EnrollmentOK(n), n.status \notin Terminal
    PROVE  Result(n, Ambiguous(n)) /\ ~Moves(n, Ambiguous(n))
<1>1. PICK m \in Enrollment :
         /\ WithoutLease(n) = m
         /\ m.sequenceId = n.sequenceId /\ m.revision = n.revision /\ m.subscriberId = n.subscriberId
         /\ m.step = n.step /\ m.leaseToken = NoLease /\ m.retryCount = n.retryCount
    BY WithoutLeaseFields DEF EnrollmentOK
<1>2. PICK u : u = CHOOSE v \in FreshUpdates : TRUE
    OBVIOUS
<1>3. u \in FreshUpdates /\ u \in Updates
    BY <1>2, FreshUpdateExists DEF FreshUpdates
<1>4. Ambiguous(n) = [m EXCEPT !.status = "ambiguous", !.updatedAt = u]
    BY <1>1, <1>2 DEF Ambiguous
<1> DEFINE x == [m EXCEPT !.status = "ambiguous", !.updatedAt = u]
<1>5. x \in Enrollment
    BY <1>3 DEF Enrollment
<1>6. /\ x.status = "ambiguous" /\ x.updatedAt = u /\ x.step = n.step /\ x.leaseToken = NoLease
      /\ x.retryCount = n.retryCount
      /\ x.sequenceId = n.sequenceId /\ x.revision = n.revision /\ x.subscriberId = n.subscriberId
    BY <1>1 DEF Enrollment
<1> HIDE DEF x
<1>7. Steps(x) = Steps(n) /\ n.step <= Len(Steps(n)) /\ n.step \in Nat
    BY <1>6, PlanFacts DEF Steps, EnrollmentOK
<1> QED
    BY <1>3, <1>4, <1>5, <1>6, <1>7 DEF Result, EnrollmentOK, x, Terminal, Moves

\* A failed attempt is repeated, up to the configured number.
LEMMA RetriesOK ==
    ASSUME NEW n, EnrollmentOK(n), n.status \notin Terminal, NEW now \in Int, NEW x \in Retries(n, now)
    PROVE  Result(n, x) /\ ~Moves(n, x) /\ x.status # "ambiguous"
<1>1. PICK m \in Enrollment :
         /\ WithoutLease(n) = m
         /\ m.sequenceId = n.sequenceId /\ m.revision = n.revision /\ m.subscriberId = n.subscriberId
         /\ m.step = n.step /\ m.leaseToken = NoLease /\ m.retryCount = n.retryCount
    BY WithoutLeaseFields DEF EnrollmentOK
<1>2. n.retryCount \in Nat /\ n.retryCount < MaxAttempts /\ n.step \in Nat
    BY PlanFacts DEF EnrollmentOK, Enrollment
<1>3. PICK r \in 0 .. MaxAttempts : r = n.retryCount + 1
    BY <1>2
<1>4. PICK status \in {"pending", "failed"}, time \in Int :
         /\ x = [m EXCEPT !.status = status, !.retryCount = r, !.nextRunIn = time]
         /\ status = "pending" => r < MaxAttempts
    <2>1. CASE n.retryCount + 1 >= MaxAttempts
        <3>1. x = [m EXCEPT !.status = "failed", !.retryCount = r]
            BY <1>1, <1>3, <2>1 DEF Retries
        <3>2. m = [m EXCEPT !.nextRunIn = m.nextRunIn] /\ m.nextRunIn \in Int
            BY <1>1 DEF Enrollment
        <3>3. x = [m EXCEPT !.status = "failed", !.retryCount = r, !.nextRunIn = m.nextRunIn]
            BY <1>1, <3>1 DEF Enrollment
        <3> QED
            BY <3>2, <3>3
    <2>2. CASE ~(n.retryCount + 1 >= MaxAttempts)
        <3>1. PICK delay \in RetryDelay \div 2 .. RetryDelay :
                 x = [m EXCEPT !.status = "pending", !.retryCount = r, !.nextRunIn = now + delay]
            BY <1>1, <1>3, <2>2 DEF Retries
        <3>2. PICK status \in {"pending", "failed"}, time \in Int : status = "pending" /\ time = now + delay
            OBVIOUS
        <3>3. x = [m EXCEPT !.status = status, !.retryCount = r, !.nextRunIn = time]
            BY <3>1, <3>2
        <3>4. r < MaxAttempts
            BY <1>2, <1>3, <2>2
        <3> QED
            BY <3>3, <3>4
    <2> QED
        BY <2>1, <2>2
<1>5. x \in Enrollment
    <2>1. status \in Scheduled \cup {"ambiguous"} \cup Terminal
        BY DEF Scheduled, Terminal
    <2> QED
        BY <1>4, <2>1 DEF Enrollment
<1>6. /\ x.status = status /\ x.retryCount = r /\ x.step = n.step /\ x.leaseToken = NoLease
      /\ x.sequenceId = n.sequenceId /\ x.revision = n.revision /\ x.subscriberId = n.subscriberId
    BY <1>1, <1>4 DEF Enrollment
<1>7. Steps(x) = Steps(n) /\ n.step <= Len(Steps(n))
    BY <1>6 DEF Steps, EnrollmentOK
<1> QED
    BY <1>2, <1>4, <1>5, <1>6, <1>7 DEF Result, EnrollmentOK, Terminal, Moves

\* A step that sends nothing is left for the next one, or it ends or repeats; a send step that was
\* not sent is not left (executeClaimedEnrollment).
LEMMA StepResultsOK ==
    ASSUME NEW n, EnrollmentOK(n), n.status \notin Terminal, NEW now \in Int, NEW x \in StepResults(n, now)
    PROVE  Result(n, x) /\ x.status # "ambiguous" /\ (StepType(n) = "send" => ~Moves(n, x))
<1>1. /\ StepType(n) \in {"send", "wait", "wait_until", "condition", "stop"}
      /\ n.step \in Nat /\ Len(Steps(n)) \in Nat
      /\ StepType(n) = "wait" => Steps(n)[n.step].duration \in Nat
      /\ StepType(n) = "condition" => Steps(n)[n.step].targets \subseteq n.step .. Len(Steps(n))
    BY PlanFacts DEF EnrollmentOK
<1>2. CASE StepType(n) = "wait"
    <2>1. x = Following(n, "waiting", now + Steps(n)[n.step].duration)
        BY <1>2 DEF StepResults
    <2>2. now + Steps(n)[n.step].duration \in Int
        BY <1>1, <1>2
    <2> QED
        BY <1>2, <2>1, <2>2, FollowingOK
<1>3. CASE StepType(n) = "wait_until"
    <2>1. x = Following(n, "waiting", 1) \/ x = Following(n, "pending", now)
        BY <1>3 DEF StepResults
    <2> QED
        BY <1>3, <2>1, FollowingOK
<1>4. CASE StepType(n) = "condition"
    <2>1. PICK i \in Steps(n)[n.step].targets : x = AtStep(n, i, "pending", now)
        BY <1>4 DEF StepResults
    <2> QED
        BY <1>1, <1>4, <2>1, AtStepOK
<1>5. CASE StepType(n) = "stop"
    <2>1. x = Ended(n, "completed")
        BY <1>5 DEF StepResults
    <2> QED
        BY <1>5, <2>1, EndedOK DEF Terminal
<1>6. CASE StepType(n) = "send"
    <2>1. x = Ended(n, "failed") \/ x = Ended(n, "cancelled") \/ x \in Retries(n, now)
        BY <1>6 DEF StepResults
    <2> QED
        BY <1>1, <2>1, EndedOK, RetriesOK DEF Terminal, Moves
<1> QED
    BY <1>1, <1>2, <1>3, <1>4, <1>5, <1>6

\* A send step is only left when its message was accepted (executeSendStep).
LEMMA SendResultsOK ==
    ASSUME NEW n, EnrollmentOK(n), n.status \notin Terminal, NEW now \in Int,
           NEW answer \in {"accepted", "failed", "unreached", "unknown", "conflict", "pending", "refused"},
           NEW x \in SendResults(n, now, answer)
    PROVE  Result(n, x) /\ (Moves(n, x) => answer = "accepted")
<1>1. n.step \in Nat
    BY PlanFacts DEF EnrollmentOK
<1>2. CASE answer = "accepted"
    <2>1. x = Following(n, "pending", now)
        BY <1>2 DEF SendResults
    <2> QED
        BY <1>2, <2>1, FollowingOK
<1>3. CASE answer = "unknown"
    <2>1. x = Ambiguous(n)
        BY <1>3 DEF SendResults
    <2> QED
        BY <2>1, AmbiguousOK
<1>4. CASE answer = "pending" \/ answer = "unreached"
    <2>1. x \in Retries(n, now) \/ x = Ended(n, "cancelled")
        BY <1>4 DEF SendResults
    <2> QED
        BY <1>1, <2>1, RetriesOK, EndedOK DEF Terminal, Moves
<1>5. CASE answer \in {"failed", "conflict", "refused"}
    <2>1. x = Ended(n, "failed")
        BY <1>5 DEF SendResults
    <2> QED
        BY <1>1, <2>1, EndedOK DEF Terminal, Moves
<1> QED
    BY <1>2, <1>3, <1>4, <1>5

-----------------------------------------------------------------------------
(* What a step of the engine may do to the repository, so that EngineInv is kept *)

\* The enrollment e is what it was but for its times.
EnrollmentKept(e) ==
    /\ e \in Stored
    /\ SameStep(enrollments'[e], enrollments[e])
    /\ enrollments'[e].leaseToken = enrollments[e].leaseToken
    /\ enrollments'[e].status = "ambiguous" => enrollments'[e] = enrollments[e]

\* The lease of e is over.
EnrollmentSettled(e) ==
    /\ enrollments'[e].leaseToken = NoLease
    /\ enrollments'[e].status = "ambiguous" => enrollments'[e].updatedAt \in FreshUpdates

\* e is leased to the execution c.
EnrollmentLeased(e, c) ==
    /\ enrollments'[e].status = "running" /\ enrollments'[e].leaseToken = c
    /\ jobs'[c].id = e /\ SameStep(enrollments'[e], jobs'[c].enrollment)

EnrollmentsStep ==
    /\ EnrollmentsOK'
    /\ \A e \in Stored' :
         \/ EnrollmentKept(e)
         \/ EnrollmentSettled(e)
         \/ \E c \in Executions : EnrollmentLeased(e, c)

\* An execution goes on with its enrollment, ends or begins.
JobsStep ==
    /\ JobsOK'
    /\ \A c \in Executions :
         \/ jobs'[c] = IdleJob
         \/ /\ c \in Working
            /\ jobs'[c].id = jobs[c].id /\ jobs'[c].enrollment = jobs[c].enrollment
         \/ EnrollmentLeased(jobs'[c].id, c)

\* What a review knows by itself.
ReviewFields(r) ==
    /\ r \in ReviewRecord
    /\ r.at # "read" => r.resolution \in Resolutions /\ r.token \in ClaimTokens

\* A review that has read what is stored.
ReviewBegins(r) ==
    /\ UNCHANGED enrollments
    /\ r \in ReviewRecord /\ r.at = "read"
    /\ r.id \in Stored /\ r.enrollment = enrollments[r.id] /\ r.enrollment.status = "ambiguous"

\* A review goes on with what it has read, begins or ends.
ReviewsStep ==
    /\ reviews' \in [Operators -> ReviewRecord \cup {IdleReview}]
    /\ \A o \in Operators :
         \/ reviews'[o] = IdleReview
         \/ ReviewBegins(reviews'[o])
         \/ /\ o \in Reviewing /\ ReviewFields(reviews'[o])
            /\ reviews'[o].id = reviews[o].id /\ reviews'[o].enrollment = reviews[o].enrollment

\* What executions remember of their claims holds after such a step.
LEMMA FencesKept ==
    ASSUME EngineInv, EnrollmentsStep, JobsStep
    PROVE  FencesOK'
<1> SUFFICES ASSUME NEW c \in Executions, jobs'[c].at # "idle", jobs'[c].id \in Stored',
                    enrollments'[jobs'[c].id].leaseToken = c
             PROVE  SameStep(enrollments'[jobs'[c].id], jobs'[c].enrollment)
    BY DEF FencesOK, Working, SameStep
<1>1. jobs'[c] # IdleJob
    BY DEF IdleJob
<1>2. CASE EnrollmentLeased(jobs'[c].id, c)
    BY <1>2 DEF EnrollmentLeased
<1>3. CASE ~EnrollmentLeased(jobs'[c].id, c)
    <2>1. c \in Working /\ jobs'[c].id = jobs[c].id /\ jobs'[c].enrollment = jobs[c].enrollment
        BY <1>1, <1>3 DEF JobsStep
    <2> DEFINE e == jobs[c].id
    <2>2. EnrollmentKept(e) \/ EnrollmentSettled(e) \/ \E d \in Executions : EnrollmentLeased(e, d)
        BY <2>1 DEF EnrollmentsStep
    <2>3. ~EnrollmentSettled(e)
        BY <2>1 DEF EnrollmentSettled
    <2>4. ASSUME NEW d \in Executions, EnrollmentLeased(e, d)
          PROVE  EnrollmentLeased(jobs'[c].id, c)
        BY <2>1, <2>4 DEF EnrollmentLeased
    <2>5. EnrollmentKept(e)
        BY <1>3, <2>2, <2>3, <2>4
    <2>6. SameStep(enrollments[e], jobs[c].enrollment)
        BY <2>1, <2>5 DEF EngineInv, FencesOK, EnrollmentKept
    <2> QED
        BY <2>1, <2>5, <2>6 DEF EnrollmentKept, SameStep
<1> QED
    BY <1>2, <1>3

\* What a review remembers is stored, or its enrollment has been updated.
LEMMA ReviewKept ==
    ASSUME EngineInv, EnrollmentsStep, NEW o \in Reviewing, NEW r, ReviewFields(r),
           r.id = reviews[o].id, r.enrollment = reviews[o].enrollment
    PROVE  ReviewOK(r)'
<1>1. /\ EnrollmentOK(r.enrollment) /\ r.enrollment.status = "ambiguous"
      /\ r.id \in Stored /\ enrollments[r.id].status = "ambiguous"
            /\ enrollments[r.id].updatedAt = r.enrollment.updatedAt
          => enrollments[r.id] = r.enrollment
    BY DEF EngineInv, ReviewsOK, ReviewOK, Reviewing, IdleReview
<1>2. ASSUME r.id \in Stored', enrollments'[r.id].status = "ambiguous",
             enrollments'[r.id].updatedAt = r.enrollment.updatedAt
      PROVE  enrollments'[r.id] = r.enrollment
    <2>1. ~EnrollmentSettled(r.id)
        BY <1>2 DEF EnrollmentSettled, FreshUpdates
    <2>2. \A c \in Executions : ~EnrollmentLeased(r.id, c)
        BY <1>2 DEF EnrollmentLeased
    <2>3. EnrollmentKept(r.id)
        BY <1>2, <2>1, <2>2 DEF EnrollmentsStep
    <2> QED
        BY <1>1, <1>2, <2>3 DEF EnrollmentKept
<1>3. EnrollmentOK(r.enrollment)'
    BY <1>1 DEF EnrollmentOK, Steps
<1> QED
    BY <1>1, <1>2, <1>3 DEF ReviewOK, ReviewFields, ReviewRecord

\* Such steps keep EngineInv.
LEMMA EngineStep ==
    ASSUME EngineInv, DefinitionsOK', EnrollmentsStep, JobsStep, ReviewsStep
    PROVE  EngineInv'
<1>1. FencesOK'
    BY FencesKept
<1>2. ASSUME NEW o \in Operators
      PROVE  ReviewOK(reviews[o])'
    <2>1. CASE reviews'[o] = IdleReview
        BY <2>1 DEF ReviewOK, IdleReview
    <2>2. CASE reviews'[o] # IdleReview
        <3>1. PICK r : r = reviews'[o]
            OBVIOUS
        <3>2. CASE ReviewBegins(r)
            <4>1. EnrollmentOK(r.enrollment)
                BY <3>2 DEF ReviewBegins, EngineInv, EnrollmentsOK
            <4> QED
                BY <3>1, <3>2, <4>1 DEF ReviewBegins, ReviewOK, EnrollmentOK, Steps, ReviewRecord
        <3>3. CASE ~ReviewBegins(r)
            <4>1. ReviewOK(r)'
                BY <2>2, <3>1, <3>3, ReviewKept DEF ReviewsStep
            <4> QED
                BY <3>1, <4>1 DEF ReviewOK
        <3> QED
            BY <3>2, <3>3
    <2> QED
        BY <2>1, <2>2
<1> QED
    BY <1>1, <1>2 DEF EngineInv, EnrollmentsStep, JobsStep, ReviewsStep, ReviewsOK

\* Nothing changes in a part of the repository.
LEMMA EnrollmentsUnchanged ==
    ASSUME EnrollmentsOK, UNCHANGED enrollments
    PROVE  EnrollmentsStep
<1>1. EnrollmentsOK'
    BY DEF EnrollmentsOK, Stored, EnrollmentOK, Steps
<1> QED
    BY <1>1 DEF EnrollmentsStep, EnrollmentKept, SameStep, Stored

\* Executions end or stay as they are.
LEMMA JobsUnchanged ==
    ASSUME JobsOK, \A c \in Executions : jobs'[c] = jobs[c] \/ jobs'[c] = IdleJob,
           jobs' \in [Executions -> JobRecord \cup {IdleJob}]
    PROVE  JobsStep
<1>1. \A c \in Executions : jobs'[c] = IdleJob \/ (jobs'[c] = jobs[c] /\ c \in Working)
    BY DEF JobsOK, JobOK, JobRecord, Working, IdleJob
<1>2. ASSUME NEW c \in Executions
      PROVE  JobOK(c, jobs[c])'
    BY <1>1 DEF JobsOK, JobOK, EnrollmentOK, Steps
<1> QED
    BY <1>1, <1>2 DEF JobsStep, JobsOK

\* Reviews stay as they are.
LEMMA ReviewsUnchanged ==
    ASSUME ReviewsOK, UNCHANGED reviews
    PROVE  ReviewsStep
BY DEF ReviewsOK, ReviewsStep, ReviewOK, ReviewFields, ReviewRecord, Reviewing, IdleReview

\* Definitions stay as they are.
LEMMA DefinitionsUnchanged == ASSUME DefinitionsOK, UNCHANGED definitions PROVE DefinitionsOK'
BY DEF DefinitionsOK, Definition

-----------------------------------------------------------------------------
(* The operations of the repository *)

\* createDefinition, updateDefinition, setDefinitionStatus
LEMMA DefinitionsEngine ==
    ASSUME EngineInv, NEW q \in Definitions, NEW status \in {"active", "paused"},
           CreateDefinition(q) \/ UpdateDefinition(q) \/ SetDefinitionStatus(q, status)
    PROVE  EngineInv'
<1>1. Len(Plans) \in Nat /\ 1 \in 1 .. Len(Plans)
    BY SequencesAssumption
<1>2. \A x \in DOMAIN definitions : definitions[x] \in Definition
    BY DEF EngineInv, DefinitionsOK
<1>3. DefinitionsOK'
    <2>1. CASE CreateDefinition(q)
        <3>1. [status |-> "active", currentRevision |-> 1] \in Definition
            BY <1>1 DEF Definition
        <3> QED
            BY <1>2, <2>1, <3>1 DEF CreateDefinition, EngineInv, DefinitionsOK, Definition
    <2>2. CASE UpdateDefinition(q)
        <3>1. PICK v : v = definitions[q].currentRevision + 1
            OBVIOUS
        <3>2. definitions' = [definitions EXCEPT ![q].currentRevision = v] /\ v \in 1 .. Len(Plans)
              /\ q \in DOMAIN definitions
            BY <1>1, <1>2, <2>2, <3>1 DEF UpdateDefinition, Definition
        <3>3. [definitions[q] EXCEPT !.currentRevision = v] \in Definition
            BY <1>2, <3>2 DEF Definition
        <3> QED
            BY <1>2, <3>2, <3>3 DEF EngineInv, DefinitionsOK, Definition
    <2>3. CASE SetDefinitionStatus(q, status)
        <3>1. definitions' = [definitions EXCEPT ![q].status = status] /\ q \in DOMAIN definitions
            BY <2>3 DEF SetDefinitionStatus
        <3>2. [definitions[q] EXCEPT !.status = status] \in Definition
            BY <1>2, <3>1 DEF Definition
        <3> QED
            BY <1>2, <3>1, <3>2 DEF EngineInv, DefinitionsOK, Definition
    <2> QED
        BY <2>1, <2>2, <2>3
<1>4. UNCHANGED <<enrollments, jobs, reviews>>
    BY DEF CreateDefinition, UpdateDefinition, SetDefinitionStatus
<1>5. EnrollmentsStep /\ ReviewsStep
    BY <1>4, EnrollmentsUnchanged, ReviewsUnchanged DEF EngineInv
<1>6. JobsStep
    BY <1>4, JobsUnchanged DEF EngineInv, JobsOK
<1> QED
    BY <1>3, <1>5, <1>6, EngineStep

\* deleteDefinition takes enrollments along and changes no other.
LEMMA DeleteDefinitionEngine ==
    ASSUME EngineInv, NEW q \in Definitions, DeleteDefinition(q)
    PROVE  EngineInv'
<1>1. DefinitionsOK'
    BY DEF DeleteDefinition, EngineInv, DefinitionsOK, Definition
<1>2. /\ Stored' \subseteq Stored /\ \A e \in Stored' : enrollments'[e] = enrollments[e]
      /\ UNCHANGED <<jobs, reviews>>
    BY DEF DeleteDefinition, Stored
<1>3. EnrollmentsOK'
    BY <1>2 DEF EngineInv, EnrollmentsOK, EnrollmentOK, Steps
<1>4. EnrollmentsStep
    BY <1>2, <1>3 DEF EnrollmentsStep, EnrollmentKept, SameStep
<1>5. ReviewsStep
    BY <1>2, ReviewsUnchanged DEF EngineInv
<1>6. JobsStep
    BY <1>2, JobsUnchanged DEF EngineInv, JobsOK
<1> QED
    BY <1>1, <1>4, <1>5, <1>6, EngineStep

\* A new enrollment starts at the first step.
LEMMA NewEnrollmentOK ==
    ASSUME NEW q \in Definitions, NEW revision \in 1 .. Len(Plans), NEW u \in Subscribers, NEW start \in Int
    PROVE  /\ EnrollmentOK(NewEnrollment(q, revision, u, start))
           /\ NewEnrollment(q, revision, u, start).leaseToken = NoLease
           /\ NewEnrollment(q, revision, u, start).status = "pending"
<1>1. Len(Plans) \in Nat /\ Len(Plans[revision]) \in Nat /\ Len(Plans[revision]) > 0
    BY SequencesAssumption
<1>2. 1 \in 1 .. Len(Plans[revision])
    BY <1>1
<1>3. PICK s \in StepNumbers : s = 1
    BY <1>2 DEF StepNumbers
<1>4. PICK z \in Updates : z = 0
    BY FS_CardinalityType, SequencesAssumption DEF Updates
<1>5. PICK r \in 0 .. MaxAttempts, i \in Int : r = 0 /\ i = 0
    OBVIOUS
<1>6. "pending" \in Scheduled \cup {"ambiguous"} \cup Terminal
    BY DEF Scheduled
<1>7. PICK x : x = [sequenceId |-> q, revision |-> revision, subscriberId |-> u, status |-> "pending",
                    step |-> s, retryCount |-> r, nextRunIn |-> start, leaseToken |-> NoLease,
                    leaseExpiresIn |-> i, updatedAt |-> z]
    OBVIOUS
<1>8. x \in Enrollment
    <2>1. NoLease \in Executions \cup {NoLease}
        OBVIOUS
    <2> QED
        BY <1>6, <1>7, <2>1, Zenon DEF Enrollment
<1>9. x = NewEnrollment(q, revision, u, start)
    BY <1>3, <1>4, <1>5, <1>7 DEF NewEnrollment
<1>10. x.status = "pending" /\ x.leaseToken = NoLease /\ x.retryCount = 0 /\ x.step = 1 /\ x.revision = revision
    BY <1>3, <1>5, <1>7
<1>11. x.step <= Len(Steps(x))
    BY <1>2, <1>1, <1>10 DEF Steps
<1> QED
    BY <1>8, <1>9, <1>10, <1>11 DEF EnrollmentOK

\* createEnrollment
LEMMA EnrollEngine ==
    ASSUME EngineInv, NEW e \in EnrollmentIds, NEW q \in Definitions, NEW revision \in 1 .. Len(Plans),
           NEW u \in Subscribers, NEW start \in 0 .. 1, Enroll(e, q, revision, u, start)
    PROVE  EngineInv'
<1> DEFINE n == NewEnrollment(q, revision, u, start)
<1>1. EnrollmentOK(n) /\ n.leaseToken = NoLease /\ n.status = "pending"
    BY NewEnrollmentOK
<1>2. /\ UNCHANGED <<definitions, jobs, reviews>> /\ e \notin Stored
      /\ Stored' = Stored \cup {e}
      /\ \A x \in Stored' : enrollments'[x] = IF x = e THEN n ELSE enrollments[x]
    BY DEF Enroll, Stored, FreshEnrollmentIds
<1> HIDE DEF n
<1>3. EnrollmentsOK'
    BY <1>1, <1>2 DEF EngineInv, EnrollmentsOK, EnrollmentOK, Steps
<1>4. EnrollmentsStep
    BY <1>1, <1>2, <1>3 DEF EnrollmentsStep, EnrollmentKept, EnrollmentSettled, SameStep
<1>5. ReviewsStep /\ DefinitionsOK'
    BY <1>2, ReviewsUnchanged, DefinitionsUnchanged DEF EngineInv
<1>6. JobsStep
    BY <1>2, JobsUnchanged DEF EngineInv, JobsOK
<1> QED
    BY <1>4, <1>5, <1>6, EngineStep

\* An enrollment under a lease.
LEMMA LeasedOK ==
    ASSUME NEW e \in Stored, EnrollmentOK(enrollments[e]), enrollments[e].status \in Scheduled,
           NEW c \in Executions, NEW now \in Int
    PROVE  /\ EnrollmentOK(Leased(e, c, now)) /\ Leased(e, c, now).status = "running"
           /\ Leased(e, c, now).leaseToken = c
           /\ Job(e, c, now).enrollment \in Enrollment /\ EnrollmentOK(Job(e, c, now).enrollment)
           /\ Job(e, c, now).enrollment.leaseToken = c
           /\ SameStep(Leased(e, c, now), Job(e, c, now).enrollment)
<1> DEFINE n == enrollments[e]
<1>1. n \in Enrollment /\ n.step <= Len(Steps(n)) /\ n.retryCount < MaxAttempts
    BY DEF EnrollmentOK, Scheduled, Terminal
<1>2. PICK t \in Int : t = now + LeaseMs
    OBVIOUS
<1>3. PICK x : x = [n EXCEPT !.status = "running", !.leaseToken = c, !.leaseExpiresIn = t]
    OBVIOUS
<1>4. x = Leased(e, c, now)
    BY <1>2, <1>3 DEF Leased
<1> HIDE DEF n
<1>5. x \in Enrollment
    <2>1. "running" \in Scheduled \cup {"ambiguous"} \cup Terminal /\ c \in Executions \cup {NoLease}
        BY DEF Scheduled
    <2> QED
        BY <1>1, <1>3, <2>1 DEF Enrollment
<1>6. /\ x.status = "running" /\ x.leaseToken = c /\ x.retryCount = n.retryCount /\ x.step = n.step
      /\ x.revision = n.revision
    BY <1>1, <1>3 DEF Enrollment
<1>7. Steps(x) = Steps(n)
    BY <1>6 DEF Steps
<1>8. EnrollmentOK(x)
    BY <1>1, <1>5, <1>6, <1>7 DEF EnrollmentOK
<1>9. PICK i \in Int, j \in Int : i = 0 /\ j = 0
    OBVIOUS
<1>10. PICK y : y = [x EXCEPT !.nextRunIn = i, !.leaseExpiresIn = j]
    OBVIOUS
<1>11. y = Job(e, c, now).enrollment
    BY <1>4, <1>9, <1>10 DEF Job
<1>12. y \in Enrollment
    BY <1>5, <1>10 DEF Enrollment
<1>13. SameStep(x, y) /\ y.status = x.status /\ y.leaseToken = x.leaseToken
    BY <1>5, <1>10 DEF Enrollment, SameStep
<1>14. Steps(y) = Steps(x)
    BY <1>13 DEF Steps, SameStep
<1>15. EnrollmentOK(y)
    BY <1>8, <1>12, <1>13, <1>14 DEF EnrollmentOK, SameStep
<1> QED
    BY <1>4, <1>6, <1>8, <1>11, <1>12, <1>13, <1>15

\* claimDue leases what is due to new executions.
LEMMA ClaimDueEngine ==
    ASSUME EngineInv, NEW now \in ClockReadings, ClaimDue(now)
    PROVE  EngineInv'
<1>1. now \in Int
    BY SequencesAssumption DEF ClockReadings
<1>2. PICK batch \in SUBSET Due(now) : \E execution \in [batch -> Executions \ Working] :
           /\ \A e, f \in batch : execution[e] = execution[f] => e = f
           /\ enrollments' = [e \in Stored |->
                IF e \in batch THEN Leased(e, execution[e], now) ELSE enrollments[e]]
           /\ jobs' = [c \in Executions |->
                IF \E e \in batch : execution[e] = c
                THEN Job(CHOOSE e \in batch : execution[e] = c, c, now)
                ELSE jobs[c]]
    BY DEF ClaimDue, Heads
<1>3. PICK execution \in [batch -> Executions \ Working] :
           /\ \A e, f \in batch : execution[e] = execution[f] => e = f
           /\ enrollments' = [e \in Stored |->
                IF e \in batch THEN Leased(e, execution[e], now) ELSE enrollments[e]]
           /\ jobs' = [c \in Executions |->
                IF \E e \in batch : execution[e] = c
                THEN Job(CHOOSE e \in batch : execution[e] = c, c, now)
                ELSE jobs[c]]
    BY <1>2
<1>4. UNCHANGED <<definitions, reviews>> /\ Stored' = Stored
    BY <1>3 DEF ClaimDue, Stored
<1>5. \A e \in batch : e \in Stored /\ enrollments[e].status \in Scheduled /\ execution[e] \in Executions
    BY <1>2, <1>3 DEF Due
<1>6. ASSUME NEW e \in batch
      PROVE  /\ enrollments'[e] = Leased(e, execution[e], now)
             /\ jobs'[execution[e]] = Job(e, execution[e], now)
    BY <1>3, <1>5
<1>7. ASSUME NEW e \in Stored
      PROVE  EnrollmentOK(enrollments[e])
    BY DEF EngineInv, EnrollmentsOK
<1>8. ASSUME NEW e \in batch
      PROVE  /\ EnrollmentLeased(e, execution[e]) /\ EnrollmentOK(enrollments'[e])
             /\ jobs'[execution[e]] \in JobRecord /\ JobOK(execution[e], jobs'[execution[e]])
    <2>1. PICK c \in Executions : c = execution[e]
        BY <1>5
    <2>2. e \in Stored /\ e \in EnrollmentIds
        BY <1>5 DEF EngineInv, EnrollmentsOK
    <2>3. /\ EnrollmentOK(Leased(e, c, now)) /\ Leased(e, c, now).status = "running"
          /\ Leased(e, c, now).leaseToken = c
          /\ Job(e, c, now).enrollment \in Enrollment /\ EnrollmentOK(Job(e, c, now).enrollment)
          /\ Job(e, c, now).enrollment.leaseToken = c
          /\ SameStep(Leased(e, c, now), Job(e, c, now).enrollment)
        BY <1>1, <1>5, <1>7, <2>2, LeasedOK
    <2>4. PICK m : m = Job(e, c, now).enrollment
        OBVIOUS
    <2>5. Job(e, c, now) = [at |-> "executing", id |-> e, now |-> now, enrollment |-> m]
        BY <2>4 DEF Job
    <2>6. Job(e, c, now) \in JobRecord
        BY <1>1, <2>2, <2>3, <2>4, <2>5 DEF JobRecord
    <2>7. Job(e, c, now).id = e
        BY DEF Job
    <2> QED
        BY <1>6, <2>1, <2>3, <2>6, <2>7 DEF EnrollmentLeased, JobOK
<1>9. EnrollmentsStep
    <2>1. \A e \in Stored : e \notin batch => enrollments'[e] = enrollments[e]
        BY <1>3
    <2>2. EnrollmentsOK'
        BY <1>4, <1>7, <1>8, <2>1 DEF EngineInv, EnrollmentsOK, EnrollmentOK, Steps
    <2> QED
        BY <1>4, <1>5, <1>8, <2>1, <2>2 DEF EnrollmentsStep, EnrollmentKept, SameStep
<1>10. JobsStep
    <2>1. ASSUME NEW c \in Executions
          PROVE  \/ jobs'[c] = jobs[c]
                 \/ \E e \in batch : execution[e] = c
        BY <1>3
    <2>2. ASSUME NEW c \in Executions
          PROVE  jobs'[c] \in JobRecord \cup {IdleJob} /\ JobOK(c, jobs'[c])
        BY <1>8, <2>1 DEF EngineInv, JobsOK
    <2>3. JobsOK'
        <3>1. jobs' = [c \in Executions |-> jobs'[c]]
            BY <1>3
        <3> QED
            BY <2>2, <3>1 DEF JobsOK, JobOK, EnrollmentOK, Steps
    <2>4. ASSUME NEW c \in Executions, jobs'[c] = jobs[c]
          PROVE  \/ jobs'[c] = IdleJob
                 \/ c \in Working /\ jobs'[c].id = jobs[c].id /\ jobs'[c].enrollment = jobs[c].enrollment
        BY <2>4 DEF EngineInv, JobsOK, JobRecord, Working
    <2>5. ASSUME NEW e \in batch
          PROVE  EnrollmentLeased(jobs'[execution[e]].id, execution[e])
        BY <1>8 DEF EnrollmentLeased
    <2> QED
        BY <2>1, <2>3, <2>4, <2>5 DEF JobsStep
<1>11. ReviewsStep /\ DefinitionsOK'
    BY <1>4, ReviewsUnchanged, DefinitionsUnchanged DEF EngineInv
<1> QED
    BY <1>9, <1>10, <1>11, EngineStep

\* reconcile gives up expired leases.
LEMMA ReconcileEngine ==
    ASSUME EngineInv, NEW now \in ClockReadings, NEW limit \in 1 .. 2, Reconcile(now, limit)
    PROVE  EngineInv'
<1>1. now \in Int
    BY SequencesAssumption DEF ClockReadings
<1>2. PICK recovered \in SUBSET Stored :
        /\ \A e \in recovered : Active(e)
        /\ enrollments' = [e \in Stored |->
               IF e \in recovered
               THEN [enrollments[e] EXCEPT !.status = "pending", !.leaseToken = NoLease,
                                           !.leaseExpiresIn = 0, !.nextRunIn = now]
               ELSE enrollments[e]]
        /\ UNCHANGED <<definitions, jobs, reviews, sending>>
    BY DEF Reconcile
<1>3. Stored' = Stored
    BY <1>2 DEF Stored
<1>4. ASSUME NEW e \in recovered
      PROVE  EnrollmentOK(enrollments'[e]) /\ EnrollmentSettled(e)
    <2> DEFINE n == enrollments[e]
    <2>1. EnrollmentOK(n) /\ n \in Enrollment /\ n.retryCount < MaxAttempts
        BY <1>2 DEF EngineInv, EnrollmentsOK, EnrollmentOK, Active
    <2>2. PICK i \in Int : i = 0
        OBVIOUS
    <2>3. PICK x : x = [n EXCEPT !.status = "pending", !.leaseToken = NoLease, !.leaseExpiresIn = i, !.nextRunIn = now]
        OBVIOUS
    <2>4. enrollments'[e] = x
        BY <1>2, <2>2, <2>3
    <2> HIDE DEF n
    <2>5. "pending" \in Scheduled \cup {"ambiguous"} \cup Terminal /\ NoLease \in Executions \cup {NoLease}
        BY DEF Scheduled
    <2>6. x \in Enrollment
        BY <1>1, <2>1, <2>3, <2>5 DEF Enrollment
    <2>7. /\ x.status = "pending" /\ x.leaseToken = NoLease /\ x.step = n.step /\ x.revision = n.revision
          /\ x.retryCount = n.retryCount
        BY <2>1, <2>3 DEF Enrollment
    <2>8. Steps(x) = Steps(n)
        BY <2>7 DEF Steps
    <2> QED
        BY <2>1, <2>4, <2>6, <2>7, <2>8 DEF EnrollmentOK, EnrollmentSettled
<1>5. EnrollmentsStep
    <2>1. \A e \in Stored : e \notin recovered => enrollments'[e] = enrollments[e]
        BY <1>2
    <2>2. EnrollmentsOK'
        BY <1>3, <1>4, <2>1 DEF EngineInv, EnrollmentsOK, EnrollmentOK, Steps
    <2> QED
        BY <1>3, <1>4, <2>1, <2>2 DEF EnrollmentsStep, EnrollmentKept, SameStep
<1>6. ReviewsStep /\ DefinitionsOK'
    BY <1>2, ReviewsUnchanged, DefinitionsUnchanged DEF EngineInv
<1>7. JobsStep
    BY <1>2, JobsUnchanged DEF EngineInv, JobsOK
<1> QED
    BY <1>5, <1>6, <1>7, EngineStep

-----------------------------------------------------------------------------
(* Executions *)

\* An execution with a lease is about an enrollment that is running.
LEMMA JobFacts ==
    ASSUME EngineInv, NEW c \in Working
    PROVE  /\ jobs[c] \in JobRecord /\ EnrollmentOK(jobs[c].enrollment)
           /\ jobs[c].enrollment.leaseToken = c /\ jobs[c].enrollment.status = "running"
           /\ jobs[c].now \in Int /\ jobs[c].id \in EnrollmentIds
           /\ jobs[c].at \in {"executing", "sending"} /\ c \in Executions
<1>1. c \in Executions /\ JobOK(c, jobs[c]) /\ jobs[c] # IdleJob
    BY DEF EngineInv, JobsOK, Working, IdleJob
<1>2. jobs[c] \in JobRecord /\ EnrollmentOK(jobs[c].enrollment) /\ jobs[c].enrollment.leaseToken = c
    BY <1>1 DEF JobOK
<1> QED
    BY <1>1, <1>2 DEF EnrollmentOK, JobRecord

\* An execution that sends keeps its claim (sendTransactionalMessage).
LEMMA StartSendEngine ==
    ASSUME EngineInv, NEW c \in Working, UNCHANGED <<definitions, enrollments, reviews>>,
           jobs' = [jobs EXCEPT ![c].at = "sending"]
    PROVE  EngineInv'
<1>1. jobs[c] \in JobRecord /\ EnrollmentOK(jobs[c].enrollment) /\ jobs[c].enrollment.leaseToken = c
      /\ c \in Executions
    BY JobFacts
<1>2. PICK j : j = [jobs[c] EXCEPT !.at = "sending"]
    OBVIOUS
<1>3. j \in JobRecord /\ j.id = jobs[c].id /\ j.enrollment = jobs[c].enrollment
    BY <1>1, <1>2 DEF JobRecord
<1>4. jobs' = [jobs EXCEPT ![c] = j] /\ jobs \in [Executions -> JobRecord \cup {IdleJob}]
    BY <1>2 DEF EngineInv, JobsOK
<1>5. /\ jobs' \in [Executions -> JobRecord \cup {IdleJob}] /\ jobs'[c] = j
      /\ \A d \in Executions : d # c => jobs'[d] = jobs[d]
    BY <1>1, <1>3, <1>4
<1>6. ASSUME NEW d \in Executions
      PROVE  JobOK(d, jobs[d])'
    <2>1. JobOK(d, jobs'[d])
        BY <1>1, <1>3, <1>5 DEF EngineInv, JobsOK, JobOK
    <2> QED
        BY <2>1 DEF JobOK, EnrollmentOK, Steps
<1>7. JobsStep
    <2>1. ASSUME NEW d \in Executions, d # c
          PROVE  \/ jobs'[d] = IdleJob
                 \/ d \in Working /\ jobs'[d].id = jobs[d].id /\ jobs'[d].enrollment = jobs[d].enrollment
        BY <1>5, <2>1 DEF EngineInv, JobsOK, JobRecord, Working
    <2> QED
        BY <1>3, <1>5, <1>6, <2>1 DEF JobsStep, JobsOK
<1> QED
    BY <1>7, EnrollmentsUnchanged, ReviewsUnchanged, DefinitionsUnchanged, EngineStep DEF EngineInv

\* An execution that ends without a result leaves everything stored as it is.
LEMMA JobEnds ==
    ASSUME EngineInv, NEW c \in Executions, jobs' = [jobs EXCEPT ![c] = IdleJob]
    PROVE  JobsStep
<1>1. jobs' \in [Executions -> JobRecord \cup {IdleJob}]
    BY DEF EngineInv, JobsOK
<1>2. \A d \in Executions : jobs'[d] = jobs[d] \/ jobs'[d] = IdleJob
    BY DEF EngineInv, JobsOK
<1> QED
    BY <1>1, <1>2, JobsUnchanged DEF EngineInv

\* An execution loses its claim, cannot store its result, or dies.
LEMMA JobEndsEngine ==
    ASSUME EngineInv, NEW c \in Executions, jobs' = [jobs EXCEPT ![c] = IdleJob],
           UNCHANGED <<definitions, enrollments, reviews>>
    PROVE  EngineInv'
BY JobEnds, EnrollmentsUnchanged, ReviewsUnchanged, DefinitionsUnchanged, EngineStep DEF EngineInv

\* A call goes on in sendTransactionalMessage.
LEMMA SendingEngine ==
    ASSUME EngineInv, UNCHANGED <<definitions, enrollments, jobs, reviews>>
    PROVE  EngineInv'
<1>1. JobsStep
    BY JobsUnchanged DEF EngineInv, JobsOK
<1> QED
    BY <1>1, EnrollmentsUnchanged, ReviewsUnchanged, DefinitionsUnchanged, EngineStep DEF EngineInv

\* A result is stored.
LEMMA ResultStored ==
    ASSUME EngineInv, NEW e \in Stored, NEW n, NEW x, Result(n, x), enrollments' = [enrollments EXCEPT ![e] = x]
    PROVE  EnrollmentsStep /\ Stored' = Stored
<1>1. Stored' = Stored /\ enrollments'[e] = x /\ \A d \in Stored : d # e => enrollments'[d] = enrollments[d]
    BY DEF Stored
<1>2. EnrollmentsOK'
    BY <1>1 DEF EngineInv, EnrollmentsOK, EnrollmentOK, Steps, Result
<1> QED
    BY <1>1, <1>2 DEF EnrollmentsStep, EnrollmentKept, EnrollmentSettled, SameStep, Result

\* What an execution makes of its enrollment, and that it only goes past a step that was sent.
LEMMA ResultsOK ==
    ASSUME Inv, NEW c \in Working, Decided(c), NEW x \in Results(c)
    PROVE  /\ Result(jobs[c].enrollment, x)
           /\ StepType(jobs[c].enrollment) = "send" /\ Moves(jobs[c].enrollment, x) => KeyOf(c) \in delivered
<1> DEFINE n == jobs[c].enrollment
<1>1. /\ EnrollmentOK(n) /\ n.status \notin Terminal /\ jobs[c].now \in Int /\ c \in Executions
      /\ jobs[c].at \in {"executing", "sending"}
    BY JobFacts DEF Inv, Terminal
<1>2. CASE jobs[c].at = "executing"
    <2>1. x \in StepResults(n, jobs[c].now)
        BY <1>2 DEF Results
    <2> QED
        BY <1>1, <2>1, StepResultsOK
<1>3. CASE jobs[c].at = "sending"
    <2>1. x \in SendResults(n, jobs[c].now, calls[c].answer) /\ calls[c].at = "idle"
        BY <1>3 DEF Results, Decided
    <2>2. CallOf(c)
        BY <1>1 DEF Inv, SendingInv
    <2>3. calls[c].key = KeyOf(c) /\ calls[c].payload = KeyOf(c) /\ calls[c].answer # "none"
        BY <1>3, <2>1, <2>2 DEF CallOf
    <2>4. calls[c] \in SendP!Call
        BY <1>1 DEF Inv, SendingInv, SendP!Inv, SendP!CallsOK
    <2>5. calls[c].answer \in {"accepted", "failed", "unreached", "unknown", "conflict", "pending", "refused"}
        BY <2>3, <2>4 DEF SendP!Call, SendP!Answers, SendP!Outcomes
    <2>6. Result(n, x) /\ (Moves(n, x) => calls[c].answer = "accepted")
        BY <1>1, <2>1, <2>5, SendResultsOK
    <2>7. calls[c].answer = "accepted" => <<KeyOf(c), KeyOf(c)>> \in confirmed
        BY <1>1, <2>3 DEF Inv, SendingInv, SendP!Inv, SendP!AcceptedWasSent
    <2>8. calls[c].answer = "accepted" => KeyOf(c) \in delivered
        BY <2>7 DEF Inv, SendingInv, HistoryOK
    <2> QED
        BY <2>6, <2>8
<1> QED
    BY <1>1, <1>2, <1>3

\* completeClaim stores the result of an execution whose lease is stored.
LEMMA CompleteClaimEngine ==
    ASSUME Inv, NEW c \in Working, CompleteClaim(c)
    PROVE  EngineInv'
<1>1. PICK x \in Results(c) : enrollments' = [enrollments EXCEPT ![jobs[c].id] = x]
    BY DEF CompleteClaim
<1>2. Decided(c) /\ jobs[c].id \in Stored /\ c \in Executions
    BY DEF CompleteClaim, Fenced, Working
<1>3. Result(jobs[c].enrollment, x)
    BY <1>2, ResultsOK
<1>4. EnrollmentsStep
    BY <1>1, <1>2, <1>3, ResultStored DEF Inv
<1>5. JobsStep /\ UNCHANGED <<definitions, reviews>>
    BY <1>2, JobEnds DEF CompleteClaim, EndJob, Inv
<1> QED
    BY <1>4, <1>5, ReviewsUnchanged, DefinitionsUnchanged, EngineStep DEF Inv, EngineInv

-----------------------------------------------------------------------------
(* Reviews *)

\* What a review under way knows.
LEMMA ReviewFacts ==
    ASSUME EngineInv, NEW o \in Reviewing
    PROVE  /\ o \in Operators /\ reviews[o] \in ReviewRecord /\ ReviewFields(reviews[o])
           /\ EnrollmentOK(reviews[o].enrollment) /\ reviews[o].enrollment.status = "ambiguous"
           /\ Unchanged(o) => reviews[o].id \in Stored /\ enrollments[reviews[o].id] = reviews[o].enrollment
<1>1. o \in Operators /\ reviews[o] # IdleReview /\ ReviewOK(reviews[o])
    BY DEF EngineInv, ReviewsOK, Reviewing, IdleReview
<1> QED
    BY <1>1 DEF ReviewOK, ReviewFields, Unchanged, StillAmbiguous

\* One review changes.
LEMMA ReviewChanges ==
    ASSUME EngineInv, NEW o \in Operators, NEW r, reviews' = [reviews EXCEPT ![o] = r],
           \/ r = IdleReview
           \/ ReviewBegins(r)
           \/ /\ o \in Reviewing /\ ReviewFields(r)
              /\ r.id = reviews[o].id /\ r.enrollment = reviews[o].enrollment
    PROVE  ReviewsStep
<1>1. r \in ReviewRecord \cup {IdleReview}
    BY DEF ReviewBegins, ReviewFields
<1>2. /\ reviews' \in [Operators -> ReviewRecord \cup {IdleReview}] /\ reviews'[o] = r
      /\ \A p \in Operators : p # o => reviews'[p] = reviews[p]
    BY <1>1 DEF EngineInv, ReviewsOK
<1>3. ASSUME NEW p \in Operators
      PROVE  \/ reviews[p] = IdleReview
             \/ p \in Reviewing /\ ReviewFields(reviews[p])
    BY DEF EngineInv, ReviewsOK, ReviewOK, ReviewFields, ReviewRecord, Reviewing
<1> QED
    BY <1>2, <1>3 DEF ReviewsStep

\* Only reviews change.
LEMMA ReviewsEngine ==
    ASSUME EngineInv, ReviewsStep, UNCHANGED <<definitions, enrollments, jobs>>
    PROVE  EngineInv'
<1>1. JobsStep
    BY JobsUnchanged DEF EngineInv, JobsOK
<1> QED
    BY <1>1, EnrollmentsUnchanged, DefinitionsUnchanged, EngineStep DEF EngineInv

\* A review begins.
LEMMA ReadEnrollmentEngine ==
    ASSUME EngineInv, NEW o \in Operators, NEW e \in EnrollmentIds, ReadEnrollment(o, e)
    PROVE  EngineInv'
<1>1. PICK n : n = enrollments[e]
    OBVIOUS
<1>2. n \in Enrollment /\ n.status = "ambiguous" /\ e \in Stored
    BY <1>1 DEF ReadEnrollment, EngineInv, EnrollmentsOK, EnrollmentOK
<1>3. PICK t \in -MaxWait .. 0 : t = 0
    BY SequencesAssumption
<1>4. PICK r : r = [at |-> "read", id |-> e, enrollment |-> n, now |-> t, resolution |-> "none",
                    token |-> NoClaim, status |-> "none"]
    OBVIOUS
<1>5. r \in ReviewRecord
    <2>1. /\ "read" \in {"read", "decided", "resolved"} /\ "none" \in Resolutions \cup {"none"}
          /\ NoClaim \in ClaimTokens \cup {NoClaim} /\ "none" \in Send!Statuses \cup {"none"}
        OBVIOUS
    <2> QED
        BY <1>2, <1>4, <2>1, Zenon DEF ReviewRecord
<1>6. reviews' = [reviews EXCEPT ![o] = r] /\ UNCHANGED <<definitions, enrollments, jobs>>
    BY <1>1, <1>3, <1>4 DEF ReadEnrollment, stored
<1>7. ReviewBegins(r)
    BY <1>1, <1>2, <1>4, <1>5, <1>6 DEF ReviewBegins
<1>8. ReviewsStep
    BY <1>6, <1>7, ReviewChanges
<1> QED
    BY <1>6, <1>8, ReviewsEngine

\* A review reads the record and decides.
LEMMA ReadRecordEngine ==
    ASSUME Inv, NEW o \in Operators, NEW resolution \in Resolutions, ReadRecord(o, resolution)
    PROVE  /\ EngineInv'
           /\ \E r : /\ reviews' = [reviews EXCEPT ![o] = r]
                     /\ r.at = "decided" /\ r.id = reviews[o].id /\ r.enrollment = reviews[o].enrollment
                     /\ r.resolution = resolution /\ r.token = records[ReviewedKey(o)].claimToken
<1> DEFINE k == ReviewedKey(o)
<1>1. o \in Reviewing
    BY DEF ReadRecord, Reviewing
<1>2. records[k] \in SendP!Record
    BY DEF ReadRecord, Inv, SendingInv, SendP!Inv, SendP!RecordsOK
<1>3. PICK token, status : token = records[k].claimToken /\ status = records[k].status
    OBVIOUS
<1>4. token \in ClaimTokens /\ status \in Send!Statuses
    BY <1>2, <1>3 DEF SendP!Record, SendP!Statuses, Send!Statuses
<1> HIDE DEF k
<1>5. PICK r : r = [reviews[o] EXCEPT !.at = "decided", !.resolution = resolution, !.token = token, !.status = status]
    OBVIOUS
<1>6. reviews[o] \in ReviewRecord /\ EngineInv
    BY <1>1, ReviewFacts DEF Inv
<1>7. /\ r \in ReviewRecord /\ r.at = "decided" /\ r.id = reviews[o].id
      /\ r.enrollment = reviews[o].enrollment /\ r.resolution = resolution /\ r.token = token
    BY <1>4, <1>5, <1>6 DEF ReviewRecord
<1>8. reviews' = [reviews EXCEPT ![o] = r] /\ UNCHANGED <<definitions, enrollments, jobs>>
    BY <1>3, <1>5 DEF ReadRecord, k, stored
<1>9. ReviewFields(r)
    BY <1>4, <1>7 DEF ReviewFields
<1>10. ReviewsStep
    BY <1>1, <1>6, <1>7, <1>8, <1>9, ReviewChanges
<1> QED
    BY <1>3, <1>6, <1>7, <1>8, <1>10, ReviewsEngine DEF k

\* What an operator decides for an enrollment.
LEMMA ResolutionOK ==
    ASSUME EngineInv, NEW o \in Reviewing, reviews[o].at = "decided"
    PROVE  LET r == reviews[o]
               x == IF r.resolution = "sent" THEN Following(r.enrollment, "pending", r.now)
                    ELSE AtStep(r.enrollment, r.enrollment.step, "pending", r.now)
           IN  Result(r.enrollment, x) /\ (r.resolution = "sent" <=> Moves(r.enrollment, x))
<1> DEFINE n == reviews[o].enrollment
           t == reviews[o].now
<1>1. EnrollmentOK(n) /\ t \in Int
    BY ReviewFacts, SequencesAssumption DEF ReviewRecord
<1>2. n.step \in n.step .. Len(Steps(n)) /\ n.step \in Int
    BY <1>1, PlanFacts DEF EnrollmentOK
<1> HIDE DEF n, t
<1>3. Result(n, Following(n, "pending", t)) /\ Moves(n, Following(n, "pending", t))
    BY <1>1, FollowingOK
<1>4. /\ Result(n, AtStep(n, n.step, "pending", t)) /\ AtStep(n, n.step, "pending", t).step = n.step
      /\ AtStep(n, n.step, "pending", t).status = "pending"
    BY <1>1, <1>2, AtStepOK
<1>5. ~Moves(n, AtStep(n, n.step, "pending", t))
    BY <1>2, <1>4 DEF Moves
<1> QED
    BY <1>3, <1>4, <1>5 DEF n, t

\* resolveAmbiguous
LEMMA ResolveEngine ==
    ASSUME EngineInv, NEW o \in Operators, Resolve(o)
    PROVE  /\ EngineInv' /\ o \in Reviewing
           /\ \E r : /\ reviews' = [reviews EXCEPT ![o] = r]
                     /\ \/ r = IdleReview
                        \/ /\ r.at = "resolved" /\ r.id = reviews[o].id /\ r.token = reviews[o].token
                           /\ r.enrollment = reviews[o].enrollment /\ r.resolution = reviews[o].resolution
<1>1. o \in Reviewing
    BY DEF Resolve, Reviewing
<1> DEFINE q == reviews[o]
           n == q.enrollment
           x == IF q.resolution = "sent" THEN Following(n, "pending", q.now) ELSE AtStep(n, n.step, "pending", q.now)
<1>2. q \in ReviewRecord /\ ReviewFields(q) /\ q.id \in Stored /\ q.at = "decided"
    BY <1>1, ReviewFacts DEF Resolve
<1>3. Result(n, x)
    BY <1>1, <1>2, ResolutionOK
<1>4. enrollments' = [enrollments EXCEPT ![q.id] = x]
    BY DEF Resolve
<1> HIDE DEF x
<1>5. EnrollmentsStep
    BY <1>2, <1>3, <1>4, ResultStored
<1>6. PICK r : r = IF q.status = "accepted" THEN IdleReview ELSE [q EXCEPT !.at = "resolved"]
    OBVIOUS
<1>7. \/ r = IdleReview
      \/ /\ r \in ReviewRecord /\ r.at = "resolved" /\ r.id = q.id /\ r.enrollment = n
         /\ r.resolution = q.resolution /\ r.token = q.token
    BY <1>2, <1>6 DEF ReviewRecord
<1>8. reviews' = [reviews EXCEPT ![o] = r] /\ UNCHANGED <<definitions, jobs>>
    BY <1>6 DEF Resolve
<1> HIDE DEF q, n
<1>9. ReviewsStep
    BY <1>1, <1>2, <1>7, <1>8, ReviewChanges DEF ReviewFields, q, n
<1>10. JobsStep
    BY <1>8, JobsUnchanged DEF EngineInv, JobsOK
<1> QED
    BY <1>1, <1>5, <1>7, <1>8, <1>9, <1>10, DefinitionsUnchanged, EngineStep DEF EngineInv, q, n

\* A review ends.
LEMMA ReviewEndsEngine ==
    ASSUME EngineInv, NEW o \in Operators, reviews' = [reviews EXCEPT ![o] = IdleReview],
           UNCHANGED <<definitions, enrollments, jobs>>
    PROVE  EngineInv'
BY ReviewChanges, ReviewsEngine

\* Time changes nothing else.
LEMMA TickEngine ==
    ASSUME EngineInv, Tick
    PROVE  EngineInv'
<1>0. MaxWait \in Nat
    BY SequencesAssumption
<1>1. Stored' = Stored /\ UNCHANGED definitions
    BY DEF Tick, Stored
<1>2. ASSUME NEW e \in Stored
      PROVE  EnrollmentKept(e) /\ EnrollmentOK(enrollments'[e])
    <2> DEFINE n == enrollments[e]
    <2>1. PICK i, j : /\ i = (IF n.status \in Scheduled THEN Earlier(n.nextRunIn) ELSE n.nextRunIn)
                      /\ j = (IF n.leaseToken # NoLease THEN Earlier(n.leaseExpiresIn) ELSE n.leaseExpiresIn)
        OBVIOUS
    <2>2. enrollments'[e] = [n EXCEPT !.nextRunIn = i, !.leaseExpiresIn = j]
        BY <2>1 DEF Tick
    <2>3. EnrollmentOK(n) /\ n \in Enrollment
        BY DEF EngineInv, EnrollmentsOK, EnrollmentOK
    <2> HIDE DEF n
    <2>4. n.nextRunIn \in Int /\ n.leaseExpiresIn \in Int
        BY <2>3 DEF Enrollment
    <2>5. i \in Int /\ j \in Int
        BY <1>0, <2>1, <2>4 DEF Earlier
    <2>6. PICK m : m = [n EXCEPT !.nextRunIn = i, !.leaseExpiresIn = j]
        OBVIOUS
    <2>7. m \in Enrollment /\ SameStep(m, n) /\ m.status = n.status /\ m.leaseToken = n.leaseToken
        BY <2>3, <2>5, <2>6 DEF Enrollment, SameStep
    <2>8. n.status = "ambiguous" => m = n
        <3> SUFFICES ASSUME n.status = "ambiguous" PROVE m = n
            OBVIOUS
        <3>1. i = n.nextRunIn /\ j = n.leaseExpiresIn
            BY <2>1, <2>3 DEF EnrollmentOK, Scheduled
        <3> QED
            BY <2>3, <2>6, <3>1 DEF Enrollment
    <2>9. Steps(m) = Steps(n)
        BY <2>7 DEF Steps, SameStep
    <2>10. EnrollmentOK(m)
        BY <2>3, <2>7, <2>9 DEF EnrollmentOK, SameStep
    <2> QED
        BY <2>2, <2>6, <2>7, <2>8, <2>10 DEF EnrollmentKept, n
<1>3. EnrollmentsStep
    <2>1. EnrollmentsOK'
        BY <1>1, <1>2 DEF EngineInv, EnrollmentsOK, EnrollmentOK, Steps
    <2> QED
        BY <1>1, <1>2, <2>1 DEF EnrollmentsStep
<1>4. ASSUME NEW c \in Executions
      PROVE  /\ jobs'[c] \in JobRecord \cup {IdleJob} /\ JobOK(c, jobs'[c])
             /\ \/ jobs'[c] = IdleJob
                \/ c \in Working /\ jobs'[c].id = jobs[c].id /\ jobs'[c].enrollment = jobs[c].enrollment
    <2>1. CASE c \in Working
        <3>1. jobs[c] \in JobRecord /\ EnrollmentOK(jobs[c].enrollment) /\ jobs[c].enrollment.leaseToken = c
            BY <2>1, JobFacts
        <3>2. PICK i : i = Earlier(jobs[c].now)
            OBVIOUS
        <3>3. i \in Int
            BY <1>0, <3>1, <3>2 DEF Earlier, JobRecord
        <3>4. PICK j : j = [jobs[c] EXCEPT !.now = i]
            OBVIOUS
        <3>5. j \in JobRecord /\ j.id = jobs[c].id /\ j.enrollment = jobs[c].enrollment
            BY <3>1, <3>3, <3>4 DEF JobRecord
        <3>6. jobs'[c] = j
            BY <2>1, <3>2, <3>4 DEF Tick
        <3> QED
            BY <2>1, <3>1, <3>5, <3>6 DEF JobOK
    <2>2. CASE c \notin Working
        <3>1. jobs'[c] = jobs[c]
            BY <2>2 DEF Tick
        <3>2. jobs[c] = IdleJob
            BY <2>2 DEF EngineInv, JobsOK, JobRecord, Working
        <3> QED
            BY <3>1, <3>2 DEF JobOK
    <2> QED
        BY <2>1, <2>2
<1>5. JobsStep
    <2>1. jobs' = [c \in Executions |-> jobs'[c]]
        BY DEF Tick
    <2>2. JobsOK'
        BY <1>4, <2>1 DEF JobsOK, JobOK, EnrollmentOK, Steps
    <2> QED
        BY <1>4, <2>2 DEF JobsStep
<1>6. ASSUME NEW o \in Operators
      PROVE  /\ reviews'[o] \in ReviewRecord \cup {IdleReview}
             /\ \/ reviews'[o] = IdleReview
                \/ /\ o \in Reviewing /\ ReviewFields(reviews'[o])
                   /\ reviews'[o].id = reviews[o].id /\ reviews'[o].enrollment = reviews[o].enrollment
    <2>1. CASE o \in Reviewing
        <3>1. reviews[o] \in ReviewRecord /\ ReviewFields(reviews[o])
            BY <2>1, ReviewFacts
        <3>2. PICK i : i = Earlier(reviews[o].now)
            OBVIOUS
        <3>3. i \in -MaxWait .. 0
            <4>1. reviews[o].now \in -MaxWait .. 0
                BY <3>1 DEF ReviewRecord
            <4>2. reviews[o].now > -MaxWait
                BY <2>1 DEF Tick
            <4> QED
                BY <1>0, <3>2, <4>1, <4>2 DEF Earlier
        <3>4. PICK r : r = [reviews[o] EXCEPT !.now = i]
            OBVIOUS
        <3>5. /\ r \in ReviewRecord /\ r.id = reviews[o].id /\ r.enrollment = reviews[o].enrollment
              /\ r.at = reviews[o].at /\ r.resolution = reviews[o].resolution /\ r.token = reviews[o].token
            BY <3>1, <3>3, <3>4 DEF ReviewRecord
        <3>6. reviews'[o] = r
            BY <2>1, <3>2, <3>4 DEF Tick
        <3> QED
            BY <2>1, <3>1, <3>5, <3>6 DEF ReviewFields
    <2>2. CASE o \notin Reviewing
        <3>1. reviews'[o] = reviews[o]
            BY <2>2 DEF Tick
        <3>2. reviews[o] = IdleReview
            BY <2>2 DEF EngineInv, ReviewsOK, ReviewRecord, Reviewing
        <3> QED
            BY <3>1, <3>2
    <2> QED
        BY <2>1, <2>2
<1>7. ReviewsStep
    <2>1. reviews' = [o \in Operators |-> reviews'[o]]
        BY DEF Tick
    <2> QED
        BY <1>6, <2>1 DEF ReviewsStep
<1> QED
    BY <1>1, <1>3, <1>5, <1>7, DefinitionsUnchanged, EngineStep DEF EngineInv

-----------------------------------------------------------------------------
(* What a step may do to the sending, so that SendingInv is kept *)

\* What TransactionalSend assumes of its constants.
LEMMA SendAssumptions == SendP!TransactionalAssumption /\ SendP!DispatchAssumption
BY SequencesAssumption DEF SendP!TransactionalAssumption, SendP!DispatchAssumption

\* The actions that SequenceEngine takes from TransactionalSend are those that SendP is about.
LEMMA SameActions ==
    ASSUME NEW c \in Executions, NEW k \in SendKeys
    PROVE  /\ \A token \in ClaimTokens : Send!Claim(c, k, k, token) => SendP!Claim(c, k, k, token)
           /\ Send!Replay(c, k, k) => SendP!Replay(c, k, k)
           /\ Send!Refuse(c, k, k) => SendP!Refuse(c, k, k)
           /\ \A outcome, sent : Send!Dispatch(c, outcome, sent) => SendP!Dispatch(c, outcome, sent)
           /\ \A s : Send!Persist(c, s) => SendP!Persist(c, s)
           /\ Send!PersistFails(c) => SendP!PersistFails(c)
           /\ \A sent : Send!Crash(c, sent) => SendP!Crash(c, sent)
<1>0. Send!UnexpiredAt(0) = SendP!UnexpiredAt(0) /\ \A S : Send!Cardinality(S) = SendP!Cardinality(S)
    BY DEF Send!UnexpiredAt, SendP!UnexpiredAt, Send!Cardinality, SendP!Cardinality, Send!IsFiniteSet, SendP!IsFiniteSet
<1>1. \A token \in ClaimTokens : Send!Claim(c, k, k, token) => SendP!Claim(c, k, k, token)
    BY <1>0, Zenon DEF Send!Claim, SendP!Claim, Send!FreshClaimTokens, SendP!FreshClaimTokens, Send!ClaimNew,
           SendP!ClaimNew, Send!Fresh, SendP!Fresh, Send!Dispatching, SendP!Dispatching
<1>2. Send!Replay(c, k, k) => SendP!Replay(c, k, k)
    BY DEF Send!Replay, SendP!Replay, Send!ClaimExisting, SendP!ClaimExisting, Send!Taken, SendP!Taken,
           Send!UnexpiredAt, SendP!UnexpiredAt, Send!Swept, SendP!Swept, Send!Answered, SendP!Answered,
           Send!Replayable, SendP!Replayable
<1>3. Send!Refuse(c, k, k) => SendP!Refuse(c, k, k)
    BY <1>0, Zenon DEF Send!Refuse, SendP!Refuse, Send!ClaimRefused, SendP!ClaimRefused, Send!AtCapacity,
           SendP!AtCapacity, Send!Answered, SendP!Answered
<1>4. \A outcome, sent : Send!Dispatch(c, outcome, sent) => SendP!Dispatch(c, outcome, sent)
    BY DEF Send!Dispatch, SendP!Dispatch, Send!Sent, SendP!Sent, Send!Window, SendP!Window
<1>5. \A s : Send!Persist(c, s) => SendP!Persist(c, s)
    BY DEF Send!Persist, SendP!Persist, Send!Definitive, SendP!Definitive, Send!Return, SendP!Return,
           Send!Answered, SendP!Answered, Send!ReleaseRecord, SendP!ReleaseRecord, Send!CommitRecord, SendP!CommitRecord,
           Send!OwnsClaim, SendP!OwnsClaim, Send!Swept, SendP!Swept, Send!UnexpiredAt, SendP!UnexpiredAt
<1>6. Send!PersistFails(c) => SendP!PersistFails(c)
    BY DEF Send!PersistFails, SendP!PersistFails, Send!Return, SendP!Return, Send!Answered, SendP!Answered
<1>7. \A sent : Send!Crash(c, sent) => SendP!Crash(c, sent)
    BY DEF Send!Crash, SendP!Crash, Send!Sent, SendP!Sent, Send!Window, SendP!Window, Send!IdleCall, SendP!IdleCall
<1> QED
    BY <1>1, <1>2, <1>3, <1>4, <1>5, <1>6, <1>7

\* So is its clock.
LEMMA SameTick == Send!TimelyTick => SendP!TimelyTick
BY DEF Send!TimelyTick, SendP!TimelyTick, Send!Tick, SendP!Tick, Send!Aged, SendP!Aged, Send!NoSends, SendP!NoSends,
       Send!Window, SendP!Window

\* What the store does with a record is the same in both.
LEMMA SameRecords ==
    ASSUME NEW k, NEW token, NEW s
    PROVE  /\ Send!CommitRecord(k, token, "accepted", s) => SendP!CommitRecord(k, token, "accepted", s)
           /\ Send!ReleaseRecord(k, token, s) => SendP!ReleaseRecord(k, token, s)
BY DEF Send!ReleaseRecord, SendP!ReleaseRecord, Send!CommitRecord, SendP!CommitRecord,
       Send!OwnsClaim, SendP!OwnsClaim, Send!Swept, SendP!Swept, Send!UnexpiredAt, SendP!UnexpiredAt

\* What is proved of TransactionalSend holds after its steps and where it does not move.
LEMMA CallsKept ==
    ASSUME SendingInv, SendP!TimelyNext \/ UNCHANGED <<records, calls, sends, confirmed>>
    PROVE  SendP!Inv' /\ SendP!Protected'
<1>1. [SendP!TimelyNext]_(SendP!vars)
    BY DEF SendP!vars
<1>2. SendP!Inv /\ SendP!Protected
    BY DEF SendingInv
<1>3. [SendP!Next]_(SendP!vars)
    BY <1>1, SendAssumptions, SendP!TimelyIsStep
<1>4. SendP!Inv'
    BY <1>2, <1>3, SendAssumptions, SendP!StepInv
<1>5. SendP!Protected'
    BY <1>1, <1>2, SendAssumptions, SendP!StepProtected
<1> QED
    BY <1>4, <1>5

\* What reviews have decided still holds: no call takes up a token they remember, and none that is
\* over delivers.
LEMMA DecisionsKept ==
    ASSUME SendingInv, UNCHANGED reviews,
           \A d \in Executions : calls'[d].at # "idle" =>
               \/ calls[d].at # "idle" /\ calls'[d].token = calls[d].token
               \/ \A o \in Reviewing : calls'[d].token # reviews[o].token,
           \A x \in DOMAIN records' :
               \/ x \in DOMAIN records /\ records'[x].claimToken = records[x].claimToken
               \/ \A o \in Reviewing : records'[x].claimToken # reviews[o].token,
           delivered \subseteq delivered', confirmed \subseteq confirmed',
           \A k \in delivered' \ delivered : \E c \in Executions :
               calls[c].at # "idle" /\ k \in DOMAIN records /\ records[k].claimToken = calls[c].token
    PROVE  \A o \in Operators : DecisionOK(o, reviews[o])'
<1> SUFFICES ASSUME NEW o \in Operators, reviews[o].at \in {"decided", "resolved"}
             PROVE  DecisionOK(o, reviews[o])'
    BY DEF DecisionOK
<1> DEFINE k == <<reviews[o].id, reviews[o].enrollment.step>>
           token == reviews[o].token
<1>1. o \in Reviewing
    BY DEF Reviewing
<1>2. /\ \A c \in Executions : calls[c].at # "idle" => calls[c].token # token
      /\ reviews[o].resolution = "sent" => k \in delivered
      /\ reviews[o].resolution = "not_sent" /\ k \in DOMAIN records /\ records[k].claimToken = token =>
           k \notin delivered
      /\ reviews[o].at = "resolved" /\ reviews[o].resolution = "sent" => <<k, k>> \in confirmed
    BY DEF SendingInv, DecisionOK, SendP!Busy
<1> HIDE DEF k, token
<1>3. \A c \in Executions : calls'[c].at # "idle" => calls'[c].token # token
    BY <1>1, <1>2 DEF token
<1>4. k \in DOMAIN records' /\ records'[k].claimToken = token => k \in DOMAIN records /\ records[k].claimToken = token
    BY <1>1 DEF token
<1>5. reviews[o].resolution = "not_sent" /\ k \in DOMAIN records' /\ records'[k].claimToken = token =>
           k \notin delivered'
    BY <1>2, <1>4
<1> QED
    BY <1>2, <1>3, <1>5 DEF DecisionOK, SendP!Busy, k, token

\* Records stand for their keys, and are pending while they are claimed.
LEMMA RecordsKept ==
    ASSUME RecordsOf,
           \A x \in DOMAIN records' :
               /\ x \in DOMAIN records
               /\ records'[x].payload = records[x].payload
               /\ records'[x].claimToken = records[x].claimToken,
           \A d \in Executions : calls'[d].at # "idle" =>
               /\ calls[d].at # "idle" /\ calls'[d].token = calls[d].token
               /\ \A x \in DOMAIN records' : records[x].claimToken = calls[d].token =>
                    records'[x].status = records[x].status
    PROVE  RecordsOf'
BY DEF RecordsOf, SendP!Busy

\* The call of an execution that does not move.
LEMMA CallOfKept ==
    ASSUME NEW d \in Executions, CallOf(d), jobs'[d] = jobs[d], calls'[d] = calls[d]
    PROVE  CallOf(d)'
BY DEF CallOf, KeyOf, Send!IdleCall

\* A step of reviews only, or of the repository only.
LEMMA SendingUnchanged ==
    ASSUME SendingInv, UNCHANGED sending,
           \A c \in Executions : CallOf(c)', \A o \in Operators : DecisionOK(o, reviews[o])'
    PROVE  SendingInv'
<1>1. UNCHANGED <<delivered, records, calls, sends, confirmed>>
    BY DEF sending
<1>2. SendP!Inv' /\ SendP!Protected'
    BY <1>1, CallsKept
<1>3. RecordsOf' /\ HistoryOK'
    BY <1>1 DEF SendingInv, RecordsOf, HistoryOK, SendP!Busy
<1> QED
    BY <1>2, <1>3 DEF SendingInv

\* A step that moves no execution and no review.
LEMMA SendingStays ==
    ASSUME SendingInv, UNCHANGED <<jobs, reviews, sending>>
    PROVE  SendingInv'
<1>1. UNCHANGED <<delivered, records, calls, sends, confirmed>>
    BY DEF sending
<1>2. \A c \in Executions : CallOf(c)'
    BY <1>1, CallOfKept DEF SendingInv
<1>3. \A o \in Operators : DecisionOK(o, reviews[o])'
    BY <1>1, DecisionsKept
<1> QED
    BY <1>2, <1>3, SendingUnchanged

-----------------------------------------------------------------------------
(* Executions and their calls *)

\* The key of an execution, and its call when it is about to send.
LEMMA KeyFacts ==
    ASSUME Inv, NEW c \in Working
    PROVE  /\ c \in Executions /\ KeyOf(c) \in SendKeys
           /\ jobs[c].at = "executing" => calls[c] = Send!IdleCall
           /\ calls[c].at # "idle" => calls[c].key = KeyOf(c)
<1>1. /\ jobs[c].at \in {"executing", "sending"} /\ jobs[c].id \in EnrollmentIds /\ c \in Executions
      /\ jobs[c].enrollment \in Enrollment
    BY JobFacts DEF Inv, EnrollmentOK
<1>2. KeyOf(c) \in SendKeys
    BY <1>1 DEF KeyOf, SendKeys, Enrollment
<1>3. CallOf(c)
    BY <1>1 DEF Inv, SendingInv
<1> QED
    BY <1>1, <1>2, <1>3 DEF CallOf, Send!IdleCall

\* A call is under way only for an execution that sends.
LEMMA BusyIsWorking ==
    ASSUME SendingInv, NEW c \in Executions, calls[c].at # "idle"
    PROVE  c \in Working /\ jobs[c].at = "sending" /\ calls[c].key = KeyOf(c)
BY DEF SendingInv, CallOf, Send!IdleCall, Working

\* The execution's own call and job after a step, and those of the others.
LEMMA CallsFollow ==
    ASSUME SendingInv, NEW c \in Executions, jobs'[c].at = "sending",
           calls'[c].key = KeyOf(c)', calls'[c].payload = KeyOf(c)',
           calls'[c].at = "idle" => calls'[c].answer # "none",
           \A d \in Executions : d # c => jobs'[d] = jobs[d] /\ calls'[d] = calls[d]
    PROVE  \A d \in Executions : CallOf(d)'
<1>1. CallOf(c)'
    BY DEF CallOf
<1> QED
    BY <1>1, CallOfKept DEF SendingInv

\* A call whose key is new claims it (claimTransactionalSend).
LEMMA ClaimSending ==
    ASSUME Inv, NEW c \in Working, NEW token \in ClaimTokens \ {reviews[o].token : o \in Reviewing},
           Send!Claim(c, KeyOf(c), KeyOf(c), token), \A d \in Executions : CallOf(d)',
           UNCHANGED <<reviews, delivered>>
    PROVE  SendingInv'
<1> DEFINE k == KeyOf(c)
<1>1. c \in Executions /\ k \in SendKeys /\ token \in ClaimTokens
    BY KeyFacts
<1>2. SendP!Claim(c, k, k, token)
    BY <1>1, SameActions
<1> HIDE DEF k
<1>3. SendP!Inv' /\ SendP!Protected'
    BY <1>1, <1>2, CallsKept DEF Inv, SendP!TimelyNext
<1>4. /\ records'[k] = [payload |-> k, status |-> "pending", claimToken |-> token, expiresIn |-> TTL]
      /\ \A x \in DOMAIN records' \ {k} : x \in DOMAIN records /\ records'[x] = records[x]
    <2>1. SendP!RecordsOK /\ SendP!ClaimNew(k, k, token)
        BY <1>2 DEF Inv, SendingInv, SendP!Inv, SendP!Claim
    <2> QED
        BY <1>1, <2>1, SendAssumptions, SendP!ClaimedRecords
<1>5. /\ UNCHANGED <<sends, confirmed>>
      /\ calls'[c].token = token /\ \A d \in Executions : d # c => calls'[d] = calls[d]
    BY <1>1, <1>2 DEF SendP!Claim, SendP!Dispatching, Inv, SendingInv, SendP!Inv, SendP!CallsOK
<1>6. /\ \A x \in DOMAIN records : records[x].claimToken # token
      /\ \A d \in Executions : calls[d].token # token
      /\ \A o \in Reviewing : reviews[o].token # token
    BY <1>2 DEF SendP!Claim, SendP!FreshClaimTokens
<1>7. RecordsOf'
    <2> SUFFICES ASSUME NEW x \in DOMAIN records'
                 PROVE  /\ records'[x].payload = x
                        /\ \A d \in Executions : calls'[d].at # "idle" /\ records'[x].claimToken = calls'[d].token =>
                             records'[x].status = "pending"
        BY DEF RecordsOf, SendP!Busy
    <2>1. CASE x = k
        BY <1>4, <2>1
    <2>2. CASE x # k
        BY <1>4, <1>5, <1>6, <2>2 DEF Inv, SendingInv, RecordsOf, SendP!Busy
    <2> QED
        BY <2>1, <2>2
<1>8. HistoryOK'
    BY <1>5 DEF Inv, SendingInv, HistoryOK
<1>9. \A o \in Operators : DecisionOK(o, reviews[o])'
    BY <1>4, <1>5, <1>6, DecisionsKept DEF Inv
<1> QED
    BY <1>3, <1>7, <1>8, <1>9 DEF SendingInv

\* Records that are as they were, and calls that go on or end.
LEMMA QuietSending ==
    ASSUME Inv, SendP!Inv', SendP!Protected', \A d \in Executions : CallOf(d)',
           \A x \in DOMAIN records' :
               /\ x \in DOMAIN records
               /\ records'[x].payload = records[x].payload
               /\ records'[x].claimToken = records[x].claimToken,
           \A d \in Executions : calls'[d].at # "idle" =>
               /\ calls[d].at # "idle" /\ calls'[d].token = calls[d].token
               /\ \A x \in DOMAIN records' : records[x].claimToken = calls[d].token =>
                    records'[x].status = records[x].status,
           HistoryOK', delivered \subseteq delivered', confirmed \subseteq confirmed',
           \A k \in delivered' \ delivered : \E c \in Executions :
               calls[c].at # "idle" /\ k \in DOMAIN records /\ records[k].claimToken = calls[c].token,
           UNCHANGED reviews
    PROVE  SendingInv'
<1>1. RecordsOf'
    BY RecordsKept DEF Inv, SendingInv
<1>2. \A o \in Operators : DecisionOK(o, reviews[o])'
    BY DecisionsKept DEF Inv
<1> QED
    BY <1>1, <1>2 DEF SendingInv

\* executeSendStep reaches sendTransactionalMessage.
LEMMA StartSendStep ==
    ASSUME Inv, NEW c \in Executions, StartSend(c)
    PROVE  Inv'
<1> DEFINE k == KeyOf(c)
<1>1. c \in Working /\ UNCHANGED <<definitions, enrollments, reviews, delivered>>
      /\ jobs' = [jobs EXCEPT ![c].at = "sending"]
    BY DEF StartSend, Working, stored
<1>2. k \in SendKeys
    BY <1>1, KeyFacts
<1>3. /\ jobs'[c].at = "sending" /\ KeyOf(c)' = k
      /\ \A d \in Executions : d # c => jobs'[d] = jobs[d]
    <2>1. jobs[c] \in JobRecord /\ jobs \in [Executions -> JobRecord \cup {IdleJob}]
        BY <1>1, JobFacts DEF Inv, EngineInv, JobsOK
    <2>2. jobs'[c] = [jobs[c] EXCEPT !.at = "sending"]
        BY <1>1, <2>1
    <2>3. jobs'[c].at = "sending" /\ jobs'[c].id = jobs[c].id /\ jobs'[c].enrollment = jobs[c].enrollment
        BY <2>1, <2>2 DEF JobRecord
    <2> QED
        BY <1>1, <2>1, <2>3 DEF KeyOf
<1>4. EngineInv'
    BY <1>1, StartSendEngine DEF Inv
<1> HIDE DEF k
<1>5. calls \in [Executions -> SendP!Call]
    BY DEF Inv, SendingInv, SendP!Inv, SendP!CallsOK
<1>6. ASSUME NEW token \in ClaimTokens \ {reviews[o].token : o \in Reviewing}, Send!Claim(c, k, k, token)
      PROVE  SendingInv'
    <2>1. /\ calls'[c].key = k /\ calls'[c].payload = k /\ calls'[c].at # "idle"
          /\ \A d \in Executions : d # c => calls'[d] = calls[d]
        BY <1>5, <1>6 DEF Send!Claim, Send!Dispatching
    <2>2. \A d \in Executions : CallOf(d)'
        BY <1>3, <2>1, CallsFollow DEF Inv
    <2> QED
        BY <1>1, <1>6, <2>2, ClaimSending DEF k
<1>7. ASSUME NEW answer, answer # "none",
             SendP!Replay(c, k, k) \/ SendP!Refuse(c, k, k),
             calls' = [calls EXCEPT ![c] = SendP!Answered(k, k, answer)]
      PROVE  SendingInv'
    <2>1. /\ calls'[c].at = "idle" /\ calls'[c].key = k /\ calls'[c].payload = k /\ calls'[c].answer # "none"
          /\ \A d \in Executions : d # c => calls'[d] = calls[d]
        BY <1>5, <1>7 DEF SendP!Answered
    <2>2. \A d \in Executions : CallOf(d)'
        BY <1>3, <2>1, CallsFollow DEF Inv
    <2>3. SendP!Inv' /\ SendP!Protected'
        BY <1>2, <1>7, CallsKept DEF SendP!TimelyNext, Inv
    <2>4. \A x \in DOMAIN records' : x \in DOMAIN records /\ records'[x] = records[x]
        BY <1>7 DEF SendP!Replay, SendP!ClaimExisting, SendP!Swept, SendP!UnexpiredAt, SendP!Refuse, SendP!ClaimRefused
    <2>5. UNCHANGED <<sends, confirmed>>
        BY <1>7 DEF SendP!Replay, SendP!Refuse
    <2>6. HistoryOK'
        BY <1>1, <2>5 DEF Inv, SendingInv, HistoryOK
    <2>7. \A d \in Executions : calls'[d].at # "idle" => calls'[d] = calls[d]
        BY <2>1
    <2>8. delivered' = delivered /\ confirmed' = confirmed /\ reviews' = reviews
        BY <1>1, <2>5
    <2>9. \A x \in DOMAIN records' : x \in DOMAIN records /\ records'[x].payload = records[x].payload
             /\ records'[x].claimToken = records[x].claimToken /\ records'[x].status = records[x].status
        BY <2>4
    <2>10. \A d \in Executions : calls'[d].at # "idle" => calls[d].at # "idle" /\ calls'[d].token = calls[d].token
        BY <2>7
    <2> QED
        BY <2>2, <2>3, <2>6, <2>8, <2>9, <2>10, QuietSending
<1>8. ASSUME Send!Replay(c, k, k)
      PROVE  SendingInv'
    <2>1. SendP!Replay(c, k, k)
        BY <1>2, <1>8, SameActions
    <2>4. PICK answer : answer = IF SendP!Replayable(k, k) THEN records[k].status ELSE "conflict"
        OBVIOUS
    <2>2. calls' = [calls EXCEPT ![c] = SendP!Answered(k, k, answer)]
        BY <2>1, <2>4 DEF SendP!Replay
    <2>3. answer # "none"
        BY <2>4 DEF SendP!Replayable, SendP!UnexpiredAt, Inv, SendingInv, SendP!Inv, SendP!RecordsOK, SendP!Record, SendP!Statuses
    <2> QED
        BY <1>7, <2>1, <2>2, <2>3
<1>9. ASSUME Send!Refuse(c, k, k)
      PROVE  SendingInv'
    <2>1. SendP!Refuse(c, k, k)
        BY <1>2, <1>9, SameActions
    <2>2. PICK answer : answer = "refused"
        OBVIOUS
    <2>3. calls' = [calls EXCEPT ![c] = SendP!Answered(k, k, answer)] /\ answer # "none"
        BY <2>1, <2>2 DEF SendP!Refuse
    <2> QED
        BY <1>7, <2>1, <2>3
<1>10. SendingInv'
    <2>1. \/ \E token \in ClaimTokens \ {reviews[o].token : o \in Reviewing} : Send!Claim(c, k, k, token)
          \/ Send!Replay(c, k, k)
          \/ Send!Refuse(c, k, k)
        BY DEF StartSend, k
    <2> QED
        BY <1>6, <1>8, <1>9, <2>1
<1> QED
    BY <1>4, <1>10 DEF Inv

\* The record of a dispatch holds its token (DispatchCovered), so what it delivers is its own.
LEMMA DeliveryCovered ==
    ASSUME Inv, NEW c \in Executions, calls[c].at = "dispatching"
    PROVE  /\ c \in Working /\ jobs[c].at = "sending" /\ calls[c].key = KeyOf(c) /\ calls[c].payload = KeyOf(c)
           /\ KeyOf(c) \in SendKeys
           /\ KeyOf(c) \in DOMAIN records /\ records[KeyOf(c)].claimToken = calls[c].token
<1>1. c \in Working /\ jobs[c].at = "sending" /\ calls[c].key = KeyOf(c)
    BY BusyIsWorking DEF Inv
<1>2. calls[c].payload = KeyOf(c)
    BY <1>1 DEF Inv, SendingInv, CallOf
<1> QED
    BY <1>1, <1>2, KeyFacts DEF Inv, SendingInv, SendP!Protected, SendP!DispatchCovered

\* The history after a message was sent or not.
LEMMA HistoryGrows ==
    ASSUME Inv, NEW k \in SendKeys, NEW sent \in BOOLEAN,
           sends' = IF sent THEN SendP!Sent(k) ELSE sends,
           delivered' = IF sent THEN delivered \cup {k} ELSE delivered,
           confirmed' = confirmed \/ (sent /\ confirmed' = confirmed \cup {<<k, k>>})
    PROVE  HistoryOK' /\ delivered \subseteq delivered' /\ confirmed \subseteq confirmed'
           /\ delivered' \ delivered \subseteq {k}
<1>1. \A x \in SendKeys : sends'[x].count # 0 => sends[x].count # 0 \/ (sent /\ x = k)
    BY DEF SendP!Sent, Inv, SendingInv, SendP!Inv, SendP!SendsOK
<1> QED
    BY <1>1 DEF Inv, SendingInv, HistoryOK

\* The request to Listmonk ends.
LEMMA DispatchStep ==
    ASSUME Inv, NEW c \in Executions, NEW outcome \in Send!Outcomes, NEW sent \in BOOLEAN, Dispatch(c, outcome, sent)
    PROVE  Inv'
<1> DEFINE k == KeyOf(c)
<1>1. UNCHANGED <<definitions, enrollments, jobs, reviews>> /\ Send!Dispatch(c, outcome, sent)
      /\ delivered' = IF sent THEN delivered \cup {k} ELSE delivered
    BY DEF Dispatch, Delivers, stored
<1>2. calls[c].at = "dispatching"
    BY <1>1 DEF Send!Dispatch
<1>3. /\ c \in Working /\ jobs[c].at = "sending" /\ calls[c].key = k /\ calls[c].payload = k
      /\ k \in SendKeys /\ k \in DOMAIN records /\ records[k].claimToken = calls[c].token
    BY <1>2, DeliveryCovered
<1>4. SendP!Dispatch(c, outcome, sent)
    BY <1>1, <1>3, SameActions
<1>5. KeyOf(c)' = k
    BY <1>1 DEF KeyOf
<1> HIDE DEF k
<1>6. SendP!Inv' /\ SendP!Protected'
    <2>1. outcome \in SendP!Outcomes
        BY DEF Send!Outcomes, SendP!Outcomes
    <2> QED
        BY <1>4, <2>1, CallsKept DEF Inv, SendP!TimelyNext
<1>7. /\ calls'[c].at = "persisting" /\ calls'[c].key = k /\ calls'[c].payload = k /\ calls'[c].token = calls[c].token
      /\ \A d \in Executions : d # c => calls'[d] = calls[d]
    <2>1. calls \in [Executions -> SendP!Call] /\ calls[c] \in SendP!Call
        BY DEF Inv, SendingInv, SendP!Inv, SendP!CallsOK
    <2>2. calls' = [calls EXCEPT ![c] = [calls[c] EXCEPT !.at = "persisting", !.answer = outcome]]
        BY <1>4, <2>1 DEF SendP!Dispatch
    <2> QED
        BY <1>3, <2>1, <2>2 DEF SendP!Call
<1>8. \A d \in Executions : CallOf(d)'
    BY <1>1, <1>3, <1>5, <1>7, CallsFollow DEF Inv
<1>9. UNCHANGED records /\ sends' = (IF sent THEN SendP!Sent(k) ELSE sends)
      /\ (confirmed' = confirmed \/ (sent /\ confirmed' = confirmed \cup {<<k, k>>}))
    BY <1>3, <1>4 DEF SendP!Dispatch
<1>10. HistoryOK' /\ delivered \subseteq delivered' /\ confirmed \subseteq confirmed' /\ delivered' \ delivered \subseteq {k}
    BY <1>1, <1>3, <1>9, HistoryGrows
<1>11. \A d \in Executions : calls'[d].at # "idle" => calls[d].at # "idle" /\ calls'[d].token = calls[d].token
    BY <1>2, <1>7
<1>12. \A x \in delivered' \ delivered : \E d \in Executions :
           calls[d].at # "idle" /\ x \in DOMAIN records /\ records[x].claimToken = calls[d].token
    BY <1>2, <1>3, <1>10
<1>13. SendingInv'
    BY <1>1, <1>6, <1>8, <1>9, <1>10, <1>11, <1>12, QuietSending
<1> QED
    BY <1>1, <1>13, SendingEngine DEF Inv

\* The call of an execution that sends returns, with an answer.
LEMMA ReturnFollows ==
    ASSUME Inv, NEW c \in Executions, calls[c].at = "persisting", SendP!Return(c), UNCHANGED jobs
    PROVE  /\ c \in Working
           /\ \A d \in Executions : CallOf(d)'
           /\ \A d \in Executions : calls'[d].at # "idle" => d # c /\ calls'[d] = calls[d]
<1>1. c \in Working /\ jobs[c].at = "sending" /\ calls[c].key = KeyOf(c)
    BY BusyIsWorking DEF Inv
<1>2. calls[c].payload = KeyOf(c)
    BY <1>1 DEF Inv, SendingInv, CallOf
<1>3. calls \in [Executions -> SendP!Call] /\ calls[c].answer \in SendP!Outcomes
    BY DEF Inv, SendingInv, SendP!Inv, SendP!CallsOK
<1>4. KeyOf(c)' = KeyOf(c)
    BY DEF KeyOf
<1>5. /\ calls'[c].at = "idle" /\ calls'[c].key = KeyOf(c) /\ calls'[c].payload = KeyOf(c)
      /\ calls'[c].answer = calls[c].answer
      /\ \A d \in Executions : d # c => calls'[d] = calls[d]
    BY <1>1, <1>2, <1>3 DEF SendP!Return, SendP!Answered
<1>6. calls[c].answer # "none"
    BY <1>3 DEF SendP!Outcomes
<1>7. \A d \in Executions : CallOf(d)'
    BY <1>1, <1>4, <1>5, <1>6, CallsFollow DEF Inv
<1> QED
    BY <1>1, <1>5, <1>7

\* The outcome is stored in the record, or the record released.
LEMMA PersistStep ==
    ASSUME Inv, NEW c \in Executions, NEW s \in ClockReadings, Persist(c, s)
    PROVE  Inv'
<1>1. UNCHANGED <<definitions, enrollments, jobs, reviews, delivered>> /\ Send!Persist(c, s)
    BY DEF Persist, stored
<1>2. calls[c].at = "persisting"
    BY <1>1 DEF Send!Persist
<1>3. c \in Working /\ KeyOf(c) \in SendKeys
    BY <1>2, BusyIsWorking, KeyFacts DEF Inv
<1>4. SendP!Persist(c, s)
    BY <1>1, <1>3, SameActions
<1>5. SendP!Inv' /\ SendP!Protected'
    BY <1>4, CallsKept DEF Inv, SendP!TimelyNext, ClockReadings
<1>6. /\ \A d \in Executions : CallOf(d)'
      /\ \A d \in Executions : calls'[d].at # "idle" => d # c /\ calls'[d] = calls[d]
    BY <1>1, <1>2, <1>4, ReturnFollows DEF SendP!Persist
<1>7. \A d \in Executions : d # c /\ calls[d].at # "idle" => calls[d].token # calls[c].token
    BY <1>2 DEF Inv, SendingInv, SendP!Inv, SendP!TokensDiffer, SendP!Busy
<1> DEFINE k == calls[c].key
           token == calls[c].token
           status == calls[c].answer
<1>8. k \in SendKeys /\ token \in ClaimTokens /\ status \in SendP!Outcomes /\ s \in Int /\ SendP!RecordsOK
    <2>1. s \in Int
        BY SequencesAssumption DEF ClockReadings
    <2> QED
        BY <1>2, <2>1 DEF Inv, SendingInv, SendP!Inv, SendP!CallsOK, SendP!Busy
<1>9. /\ SendP!Definitive(status) => SendP!ReleaseRecord(k, token, s)
      /\ ~SendP!Definitive(status) => SendP!CommitRecord(k, token, status, s)
      /\ UNCHANGED <<sends, confirmed>>
    BY <1>4 DEF SendP!Persist
<1> HIDE DEF k, token, status
<1>10. \A x \in DOMAIN records' :
          /\ x \in DOMAIN records
          /\ records'[x].payload = records[x].payload
          /\ records'[x].claimToken = records[x].claimToken
          /\ records'[x].status = records[x].status \/ records[x].claimToken = token
    <2>1. CASE SendP!Definitive(status)
        BY <1>8, <1>9, <2>1, SendAssumptions, SendP!ReleasedRecords
    <2>2. CASE ~SendP!Definitive(status)
        <3>1. status \in SendP!Statuses
            BY <1>8, <2>2 DEF SendP!Outcomes, SendP!Statuses, SendP!Definitive
        <3> QED
            BY <1>8, <1>9, <2>2, <3>1, SendAssumptions, SendP!CommittedRecords
    <2> QED
        BY <2>1, <2>2
<1>11. HistoryOK'
    BY <1>1, <1>9 DEF Inv, SendingInv, HistoryOK
<1>12. \A d \in Executions : calls'[d].at # "idle" =>
               /\ calls[d].at # "idle" /\ calls'[d].token = calls[d].token
               /\ \A x \in DOMAIN records' : records[x].claimToken = calls[d].token =>
                    records'[x].status = records[x].status
    BY <1>6, <1>7, <1>10 DEF token
<1>13. SendingInv'
    BY <1>1, <1>5, <1>6, <1>9, <1>10, <1>11, <1>12, QuietSending
<1> QED
    BY <1>1, <1>13, SendingEngine DEF Inv

\* The outcome cannot be stored.
LEMMA PersistFailsStep ==
    ASSUME Inv, NEW c \in Executions, PersistFails(c)
    PROVE  Inv'
<1>1. UNCHANGED <<definitions, enrollments, jobs, reviews, delivered>> /\ Send!PersistFails(c)
    BY DEF PersistFails, stored
<1>2. calls[c].at = "persisting"
    BY <1>1 DEF Send!PersistFails
<1>3. c \in Working /\ KeyOf(c) \in SendKeys
    BY <1>2, BusyIsWorking, KeyFacts DEF Inv
<1>4. SendP!PersistFails(c)
    BY <1>1, <1>3, SameActions
<1>5. SendP!Inv' /\ SendP!Protected'
    BY <1>4, CallsKept DEF Inv, SendP!TimelyNext
<1>6. /\ \A d \in Executions : CallOf(d)'
      /\ \A d \in Executions : calls'[d].at # "idle" => d # c /\ calls'[d] = calls[d]
    BY <1>1, <1>2, <1>4, ReturnFollows DEF SendP!PersistFails
<1>7. UNCHANGED <<records, sends, confirmed>>
    BY <1>4 DEF SendP!PersistFails
<1>8. HistoryOK'
    BY <1>1, <1>7 DEF Inv, SendingInv, HistoryOK
<1>9. SendingInv'
    BY <1>1, <1>5, <1>6, <1>7, <1>8, QuietSending
<1> QED
    BY <1>1, <1>9, SendingEngine DEF Inv

\* The job of an execution that ended, and its call.
LEMMA EndedFollows ==
    ASSUME Inv, NEW c \in Executions, jobs' = [jobs EXCEPT ![c] = IdleJob], calls' = [calls EXCEPT ![c] = Send!IdleCall]
    PROVE  /\ \A d \in Executions : CallOf(d)'
           /\ \A d \in Executions : calls'[d].at # "idle" => d # c /\ calls'[d] = calls[d]
<1>1. calls \in [Executions -> SendP!Call] /\ jobs \in [Executions -> JobRecord \cup {IdleJob}]
    BY DEF Inv, EngineInv, JobsOK, SendingInv, SendP!Inv, SendP!CallsOK
<1>2. /\ jobs'[c] = IdleJob /\ calls'[c] = Send!IdleCall
      /\ \A d \in Executions : d # c => jobs'[d] = jobs[d] /\ calls'[d] = calls[d]
    BY <1>1
<1>3. CallOf(c)'
    BY <1>2 DEF CallOf, IdleJob, Send!IdleCall
<1>4. \A d \in Executions : CallOf(d)'
    BY <1>2, <1>3, CallOfKept DEF Inv, SendingInv
<1> QED
    BY <1>2, <1>4 DEF Send!IdleCall

\* An execution ends whose call is over.
LEMMA EndSending ==
    ASSUME Inv, NEW c \in Executions, calls[c].at = "idle", EndJob(c), UNCHANGED <<reviews, delivered, records, sends, confirmed>>
    PROVE  SendingInv'
<1>1. /\ \A d \in Executions : CallOf(d)'
      /\ \A d \in Executions : calls'[d].at # "idle" => d # c /\ calls'[d] = calls[d]
    BY EndedFollows DEF EndJob
<1>2. SendP!Inv /\ SendP!Protected
    BY DEF Inv, SendingInv
<1>3. PICK new : new = SendP!IdleCall
    OBVIOUS
<1>4. new \in SendP!Call /\ new.at = "idle" /\ new.answer = "none"
    BY <1>3, SendAssumptions DEF SendP!TransactionalAssumption, SendP!IdleCall, SendP!Call, SendP!Points, SendP!Answers
<1>5. calls' = [calls EXCEPT ![c] = new]
    BY <1>3 DEF EndJob, Send!IdleCall, SendP!IdleCall
<1>6. SendP!CallsOK' /\ calls'[c] = new /\ \A d \in Executions : d # c => calls'[d] = calls[d]
    BY <1>2, <1>4, <1>5, SendAssumptions, SendP!CallChanged DEF SendP!Inv
<1>7. SendP!ClaimBinds' /\ SendP!TokensDiffer'
    BY <1>1, <1>2, SendAssumptions, SendP!BindingKept DEF SendP!Inv, SendP!Busy
<1>8. SendP!AcceptedWasSent'
    BY <1>2, <1>4, <1>6 DEF SendP!Inv, SendP!AcceptedWasSent
<1>9. SendP!Inv'
    BY <1>2, <1>6, <1>7, <1>8 DEF SendP!Inv, SendP!RecordsOK, SendP!SendsOK, SendP!AcceptedRecordWasSent
<1>10. SendP!Protected'
    BY <1>1, <1>2, SendAssumptions, SendP!QuietStep
<1>11. HistoryOK'
    BY DEF Inv, SendingInv, HistoryOK
<1> QED
    BY <1>1, <1>9, <1>10, <1>11, QuietSending

\* An execution that decided what becomes of its enrollment has no call under way.
LEMMA DecidedIsIdle ==
    ASSUME Inv, NEW c \in Executions, Decided(c)
    PROVE  c \in Working /\ calls[c].at = "idle"
<1>1. c \in Working
    BY DEF Decided, Working
<1> QED
    BY <1>1, KeyFacts DEF Decided, Send!IdleCall

\* completeClaim stores a result, finds the lease lost, or fails.
LEMMA CompletionStep ==
    ASSUME Inv, NEW c \in Executions, CompleteClaim(c) \/ LoseClaim(c) \/ CompletionFails(c)
    PROVE  Inv'
<1>1. /\ Decided(c) /\ EndJob(c) /\ UNCHANGED <<definitions, reviews, delivered, records, sends, confirmed>>
    BY DEF CompleteClaim, LoseClaim, CompletionFails, stored
<1>2. c \in Working /\ calls[c].at = "idle"
    BY <1>1, DecidedIsIdle
<1>3. SendingInv'
    BY <1>1, <1>2, EndSending
<1>4. EngineInv'
    <2>1. CASE CompleteClaim(c)
        BY <1>2, <2>1, CompleteClaimEngine
    <2>2. CASE ~CompleteClaim(c)
        BY <1>1, <2>2, JobEndsEngine DEF LoseClaim, CompletionFails, stored, EndJob, Inv
    <2> QED
        BY <2>1, <2>2
<1> QED
    BY <1>3, <1>4 DEF Inv

\* A process dies between two steps, or while its request is on the way.
LEMMA CrashStep ==
    ASSUME Inv, NEW c \in Executions, Crash(c)
    PROVE  Inv'
<1>1. CASE CrashBetween(c)
    <2>1. SendingInv'
        BY <1>1, EndSending DEF CrashBetween
    <2>2. EngineInv'
        BY <1>1, JobEndsEngine DEF CrashBetween, EndJob, stored, Inv
    <2> QED
        BY <2>1, <2>2 DEF Inv
<1>2. ASSUME NEW sent \in BOOLEAN, CrashDuringSend(c, sent)
      PROVE  Inv'
    <2> DEFINE k == KeyOf(c)
    <2>1. /\ Send!Crash(c, sent) /\ jobs' = [jobs EXCEPT ![c] = IdleJob]
          /\ UNCHANGED <<definitions, enrollments, reviews>>
          /\ delivered' = IF sent THEN delivered \cup {k} ELSE delivered
        BY <1>2 DEF CrashDuringSend, Delivers, stored
    <2>2. calls[c].at # "idle" /\ (sent => calls[c].at = "dispatching")
        BY <2>1 DEF Send!Crash
    <2>3. c \in Working /\ k \in SendKeys /\ calls[c].key = k
        BY <2>2, BusyIsWorking, KeyFacts DEF Inv
    <2>4. sent => k \in DOMAIN records /\ records[k].claimToken = calls[c].token
        BY <2>2, DeliveryCovered
    <2>5. SendP!Crash(c, sent)
        BY <2>1, <2>3, SameActions
    <2> HIDE DEF k
    <2>6. SendP!Inv' /\ SendP!Protected'
        BY <2>5, CallsKept DEF Inv, SendP!TimelyNext
    <2>7. /\ \A d \in Executions : CallOf(d)'
          /\ \A d \in Executions : calls'[d].at # "idle" => d # c /\ calls'[d] = calls[d]
        BY <2>1, EndedFollows DEF Send!Crash
    <2>8. UNCHANGED <<records, confirmed>> /\ sends' = IF sent THEN SendP!Sent(k) ELSE sends
        BY <2>3, <2>5 DEF SendP!Crash
    <2>9. HistoryOK' /\ delivered \subseteq delivered' /\ confirmed \subseteq confirmed'
          /\ delivered' \ delivered \subseteq {k}
        BY <2>1, <2>3, <2>8, HistoryGrows
    <2>10. \A x \in delivered' \ delivered : \E d \in Executions :
               calls[d].at # "idle" /\ x \in DOMAIN records /\ records[x].claimToken = calls[d].token
        BY <2>1, <2>2, <2>4, <2>9
    <2>11. SendingInv'
        BY <2>1, <2>6, <2>7, <2>8, <2>9, <2>10, QuietSending
    <2>12. EngineInv'
        BY <2>1, JobEndsEngine DEF Inv
    <2> QED
        BY <2>11, <2>12 DEF Inv
<1> QED
    BY <1>1, <1>2 DEF Crash

-----------------------------------------------------------------------------
(* Reviews and the records they settle *)

\* No call and no message changes, and no token is taken up.
DecisionsStay ==
    /\ UNCHANGED <<calls, delivered>> /\ confirmed \subseteq confirmed'
    /\ \A x \in DOMAIN records' : x \in DOMAIN records /\ records'[x].claimToken = records[x].claimToken

\* One review changes, the others still stand by their decisions.
LEMMA ReviewDecisions ==
    ASSUME Inv, NEW o \in Operators, NEW r, reviews' = [reviews EXCEPT ![o] = r], DecisionsStay,
           r.at \in {"decided", "resolved"} => DecisionOK(o, r)'
    PROVE  \A p \in Operators : DecisionOK(p, reviews[p])'
<1>1. ASSUME NEW p \in Operators, NEW q, DecisionOK(p, q)
      PROVE  DecisionOK(p, q)'
    BY <1>1 DEF DecisionsStay, DecisionOK, SendP!Busy
<1>2. reviews'[o] = r /\ \A p \in Operators : p # o => reviews'[p] = reviews[p]
    BY DEF Inv, EngineInv, ReviewsOK
<1>3. ASSUME NEW p \in Operators
      PROVE  DecisionOK(p, reviews[p])'
    <2>1. CASE p = o
        BY <1>2, <2>1 DEF DecisionOK
    <2>2. CASE p # o
        <3>1. PICK q : q = reviews[p]
            OBVIOUS
        <3>2. DecisionOK(p, q)'
            BY <1>1, <3>1 DEF Inv, SendingInv
        <3> QED
            BY <1>2, <2>2, <3>1, <3>2 DEF DecisionOK
    <2> QED
        BY <2>1, <2>2
<1> QED
    BY <1>3

\* A review that changes nothing of the sending.
LEMMA ReviewSending ==
    ASSUME Inv, NEW o \in Operators, NEW r, reviews' = [reviews EXCEPT ![o] = r], UNCHANGED <<jobs, sending>>,
           r.at \in {"decided", "resolved"} => DecisionOK(o, r)
    PROVE  SendingInv'
<1>1. UNCHANGED <<delivered, records, calls, sends, confirmed>>
    BY DEF sending
<1>2. DecisionsStay
    BY <1>1 DEF DecisionsStay
<1>3. r.at \in {"decided", "resolved"} => DecisionOK(o, r)'
    BY <1>1 DEF DecisionOK, SendP!Busy
<1>4. \A p \in Operators : DecisionOK(p, reviews[p])'
    BY <1>2, <1>3, ReviewDecisions
<1>5. \A c \in Executions : CallOf(c)'
    BY <1>1, CallOfKept DEF Inv, SendingInv
<1> QED
    BY <1>4, <1>5, SendingUnchanged DEF Inv

\* A review begins, decides or stops.
LEMMA ReadEnrollmentStep ==
    ASSUME Inv, NEW o \in Operators, NEW e \in EnrollmentIds, ReadEnrollment(o, e)
    PROVE  Inv'
<1>3. PICK r : r = [at |-> "read", id |-> e, enrollment |-> enrollments[e], now |-> 0, resolution |-> "none",
                    token |-> NoClaim, status |-> "none"]
    OBVIOUS
<1>1. reviews' = [reviews EXCEPT ![o] = r] /\ r.at = "read"
    BY <1>3 DEF ReadEnrollment
<1>2. SendingInv'
    BY <1>1, ReviewSending DEF ReadEnrollment
<1> QED
    BY <1>2, ReadEnrollmentEngine DEF Inv

\* The record a review may decide about is not pending: the call that claimed it is over.
LEMMA ReadRecordStep ==
    ASSUME Inv, NEW o \in Operators, NEW resolution \in Resolutions, ReadRecord(o, resolution)
    PROVE  Inv'
<1> DEFINE k == ReviewedKey(o)
<1>1. /\ k \in DOMAIN records /\ Admissible(records[k].status, resolution)
      /\ (resolution = "sent" <=> k \in delivered) /\ UNCHANGED <<jobs, sending>>
    BY DEF ReadRecord
<1>2. PICK r : /\ reviews' = [reviews EXCEPT ![o] = r]
               /\ r.at = "decided" /\ r.id = reviews[o].id /\ r.enrollment = reviews[o].enrollment
               /\ r.resolution = resolution /\ r.token = records[k].claimToken
    BY ReadRecordEngine
<1>3. <<r.id, r.enrollment.step>> = k
    BY <1>2 DEF ReviewedKey
<1> HIDE DEF k
<1>4. \A c \in Executions : SendP!Busy(c) => calls[c].token # r.token
    <2>1. records[k].status # "pending"
        BY <1>1 DEF Admissible
    <2> QED
        BY <1>1, <1>2, <2>1 DEF Inv, SendingInv, RecordsOf
<1>5. DecisionOK(o, r)
    BY <1>1, <1>2, <1>3, <1>4 DEF DecisionOK
<1>6. SendingInv'
    BY <1>1, <1>2, <1>5, ReviewSending
<1> QED
    BY <1>6, ReadRecordEngine DEF Inv

\* What is acknowledged by an operator has been sent.
LEMMA ResolveStep ==
    ASSUME Inv, NEW o \in Operators, Resolve(o)
    PROVE  Inv'
<1> DEFINE k == ReviewedKey(o)
<1>1. /\ EngineInv' /\ o \in Reviewing
      /\ \E r : /\ reviews' = [reviews EXCEPT ![o] = r]
                /\ \/ r = IdleReview
                   \/ /\ r.at = "resolved" /\ r.id = reviews[o].id /\ r.token = reviews[o].token
                      /\ r.enrollment = reviews[o].enrollment /\ r.resolution = reviews[o].resolution
    BY ResolveEngine DEF Inv
<1>2. PICK r : /\ reviews' = [reviews EXCEPT ![o] = r]
               /\ \/ r = IdleReview
                  \/ /\ r.at = "resolved" /\ r.id = reviews[o].id /\ r.token = reviews[o].token
                     /\ r.enrollment = reviews[o].enrollment /\ r.resolution = reviews[o].resolution
    BY <1>1
<1>3. /\ reviews[o].at = "decided" /\ UNCHANGED <<jobs, delivered, records, calls, sends>>
      /\ confirmed' = IF reviews[o].resolution = "sent" THEN confirmed \cup {<<k, k>>} ELSE confirmed
    BY DEF Resolve
<1>4. /\ \A c \in Executions : SendP!Busy(c) => calls[c].token # reviews[o].token
      /\ reviews[o].resolution = "sent" => k \in delivered
      /\ reviews[o].resolution = "not_sent" /\ k \in DOMAIN records /\ records[k].claimToken = reviews[o].token =>
           k \notin delivered
    BY <1>3 DEF Inv, SendingInv, DecisionOK, ReviewedKey
<1>5. k \in SendKeys
    <2>1. reviews[o].id \in EnrollmentIds /\ reviews[o].enrollment \in Enrollment
        BY <1>1, ReviewFacts DEF Inv, ReviewRecord
    <2> QED
        BY <2>1 DEF ReviewedKey, SendKeys, Enrollment
<1>6. r # IdleReview => <<r.id, r.enrollment.step>> = k
    BY <1>2 DEF ReviewedKey
<1> HIDE DEF k
<1>7. DecisionsStay
    BY <1>3 DEF DecisionsStay
<1>8. r.at \in {"decided", "resolved"} => DecisionOK(o, r)'
    <2> SUFFICES ASSUME r.at \in {"decided", "resolved"} PROVE DecisionOK(o, r)'
        OBVIOUS
    <2>1. r # IdleReview
        BY DEF IdleReview
    <2> QED
        BY <1>2, <1>3, <1>4, <1>6, <2>1 DEF DecisionOK, SendP!Busy
<1>9. \A p \in Operators : DecisionOK(p, reviews[p])'
    BY <1>2, <1>7, <1>8, ReviewDecisions
<1>10. \A c \in Executions : CallOf(c)'
    BY <1>3, CallOfKept DEF Inv, SendingInv
<1>11. RecordsOf'
    BY <1>3 DEF Inv, SendingInv, RecordsOf, SendP!Busy
<1>12. HistoryOK'
    BY <1>3, <1>4 DEF Inv, SendingInv, HistoryOK
<1>13. SendP!Inv /\ SendP!Protected
    BY DEF Inv, SendingInv
<1>14. SendP!Inv'
    <2>1. SendP!RecordsOK' /\ SendP!CallsOK' /\ SendP!ClaimBinds' /\ SendP!TokensDiffer'
        BY <1>3, <1>13 DEF SendP!Inv, SendP!RecordsOK, SendP!CallsOK, SendP!ClaimBinds, SendP!TokensDiffer, SendP!Busy
    <2>2. SendP!SendsOK'
        BY <1>3, <1>5, <1>13 DEF SendP!Inv, SendP!SendsOK
    <2>3. SendP!AcceptedRecordWasSent' /\ SendP!AcceptedWasSent'
        BY <1>3, <1>13 DEF SendP!Inv, SendP!AcceptedRecordWasSent, SendP!AcceptedWasSent
    <2> QED
        BY <2>1, <2>2, <2>3 DEF SendP!Inv
<1>15. SendP!Protected'
    BY <1>3, <1>13, SendAssumptions, SendP!QuietStep
<1> QED
    BY <1>1, <1>9, <1>10, <1>11, <1>12, <1>14, <1>15 DEF Inv, SendingInv

\* A review stops.
LEMMA StopReviewStep ==
    ASSUME Inv, NEW o \in Operators, StopReview(o)
    PROVE  Inv'
<1>1. reviews' = [reviews EXCEPT ![o] = IdleReview] /\ UNCHANGED <<definitions, enrollments, jobs, sending>>
    BY DEF StopReview, stored
<1>2. SendingInv'
    BY <1>1, ReviewSending DEF IdleReview
<1> QED
    BY <1>1, <1>2, ReviewEndsEngine DEF Inv

\* What a review does to the records: the one it decided about is accepted, or released when
\* nothing was sent under it.
LEMMA SettledRecords ==
    ASSUME Inv, NEW o \in Operators, SettleRecord(o)
    PROVE  LET k == ReviewedKey(o)
               token == reviews[o].token
           IN  /\ SendP!RecordsOK'
               /\ \A x \in DOMAIN records' :
                    /\ x \in DOMAIN records
                    /\ records'[x].payload = records[x].payload
                    /\ records'[x].claimToken = records[x].claimToken
                    /\ records'[x].expiresIn = records[x].expiresIn
                    /\ \/ records'[x].status = records[x].status
                       \/ x = k /\ records[k].claimToken = token /\ reviews[o].resolution = "sent"
               /\ \A x \in DOMAIN records : records[x].expiresIn >= 0 =>
                    \/ x \in DOMAIN records'
                    \/ x = k /\ records[k].claimToken = token /\ reviews[o].resolution # "sent"
<1> DEFINE k == ReviewedKey(o)
           token == reviews[o].token
           s == reviews[o].now
<1>1. o \in Reviewing /\ reviews[o].at = "resolved"
    BY DEF SettleRecord, Reviewing
<1>2. /\ reviews[o].id \in EnrollmentIds /\ reviews[o].enrollment \in Enrollment /\ s \in -MaxWait .. 0
      /\ token \in ClaimTokens
    BY <1>1, ReviewFacts DEF Inv, ReviewRecord, ReviewFields
<1>3. k \in SendKeys /\ s \in Int /\ s <= 0 /\ "accepted" \in SendP!Statuses
    BY <1>2, SequencesAssumption DEF ReviewedKey, SendKeys, Enrollment, SendP!Statuses
<1>4. SendP!RecordsOK
    BY DEF Inv, SendingInv, SendP!Inv
<1>5. \A x \in DOMAIN records : records[x].expiresIn >= 0 => records[x].expiresIn >= s
    BY <1>3, <1>4 DEF SendP!RecordsOK, SendP!Record
<1>6. CASE reviews[o].resolution = "sent"
    <2>1. SendP!CommitRecord(k, token, "accepted", s)
        BY <1>6, SameRecords DEF SettleRecord
    <2> HIDE DEF k, token, s
    <2>2. /\ SendP!RecordsOK'
          /\ \A x \in DOMAIN records' :
               /\ x \in DOMAIN records
               /\ records'[x].payload = records[x].payload
               /\ records'[x].claimToken = records[x].claimToken
               /\ records'[x].expiresIn = records[x].expiresIn
               /\ \/ records'[x].status = records[x].status
                  \/ x = k /\ records[k].claimToken = token
          /\ \A x \in DOMAIN records : records[x].expiresIn >= s => x \in DOMAIN records'
        BY <1>2, <1>3, <1>4, <2>1, SendAssumptions, SendP!CommittedRecords
    <2> QED
        BY <1>5, <1>6, <2>2 DEF k, token
<1>7. CASE reviews[o].resolution # "sent"
    <2>1. SendP!ReleaseRecord(k, token, s)
        BY <1>7, SameRecords DEF SettleRecord
    <2> HIDE DEF k, token, s
    <2>2. /\ SendP!RecordsOK'
          /\ \A x \in DOMAIN records' : x \in DOMAIN records /\ records'[x] = records[x]
          /\ \A x \in DOMAIN records :
               records[x].expiresIn >= s => x \in DOMAIN records' \/ (x = k /\ records[k].claimToken = token)
        BY <1>2, <1>3, <1>4, <2>1, SendAssumptions, SendP!ReleasedRecords
    <2> QED
        BY <1>5, <1>7, <2>2 DEF k, token
<1> QED
    BY <1>6, <1>7

\* commitTransactionalSend or releaseTransactionalSend after a review: a record is released only
\* when nothing was sent under it, and no call is about it.
LEMMA SettleRecordStep ==
    ASSUME Inv, NEW o \in Operators, SettleRecord(o)
    PROVE  Inv'
<1> DEFINE k == ReviewedKey(o)
           token == reviews[o].token
<1>1. /\ reviews[o].at = "resolved" /\ o \in Reviewing /\ reviews' = [reviews EXCEPT ![o] = IdleReview]
      /\ UNCHANGED <<definitions, enrollments, jobs, delivered, calls, sends, confirmed>>
    BY DEF SettleRecord, Reviewing, stored
<1>2. /\ SendP!RecordsOK'
      /\ \A x \in DOMAIN records' :
           /\ x \in DOMAIN records
           /\ records'[x].payload = records[x].payload
           /\ records'[x].claimToken = records[x].claimToken
           /\ records'[x].expiresIn = records[x].expiresIn
           /\ \/ records'[x].status = records[x].status
              \/ x = k /\ records[k].claimToken = token /\ reviews[o].resolution = "sent"
      /\ \A x \in DOMAIN records : records[x].expiresIn >= 0 =>
           \/ x \in DOMAIN records'
           \/ x = k /\ records[k].claimToken = token /\ reviews[o].resolution # "sent"
    BY SettledRecords
<1>3. /\ \A c \in Executions : SendP!Busy(c) => calls[c].token # token
      /\ reviews[o].resolution = "not_sent" /\ k \in DOMAIN records /\ records[k].claimToken = token =>
           k \notin delivered
      /\ reviews[o].resolution = "sent" => <<k, k>> \in confirmed
    BY <1>1 DEF Inv, SendingInv, DecisionOK, ReviewedKey
<1>4. reviews[o].resolution \in Resolutions /\ reviews[o].id \in EnrollmentIds /\ reviews[o].enrollment \in Enrollment
    BY <1>1, ReviewFacts DEF Inv, ReviewFields, ReviewRecord
<1>5. k \in SendKeys
    BY <1>4 DEF ReviewedKey, SendKeys, Enrollment
<1> HIDE DEF k, token
<1>6. SendP!Inv /\ SendP!Protected /\ RecordsOf /\ HistoryOK
    BY DEF Inv, SendingInv
<1>7. SendP!Inv'
    <2>1. SendP!CallsOK' /\ SendP!SendsOK' /\ SendP!AcceptedWasSent'
        BY <1>1, <1>6 DEF SendP!Inv, SendP!CallsOK, SendP!Busy, SendP!SendsOK, SendP!AcceptedWasSent
    <2>2. SendP!ClaimBinds' /\ SendP!TokensDiffer'
        BY <1>1, <1>2, <1>6, SendAssumptions, SendP!BindingKept DEF SendP!Inv, SendP!Busy
    <2>3. SendP!AcceptedRecordWasSent'
        <3>1. \A x \in DOMAIN records : records[x].payload = x
            BY <1>6 DEF RecordsOf
        <3> QED
            BY <1>1, <1>2, <1>3, <1>6, <3>1 DEF SendP!Inv, SendP!AcceptedRecordWasSent
    <2> QED
        BY <1>2, <2>1, <2>2, <2>3 DEF SendP!Inv
<1>8. SendP!Protected'
    <2>1. ASSUME NEW x \in DOMAIN records, records[x].expiresIn >= 0
          PROVE  \/ /\ x \in DOMAIN records'
                    /\ records'[x].claimToken = records[x].claimToken
                    /\ records'[x].expiresIn = records[x].expiresIn
                 \/ sends[x].count = 0 /\ \A c \in Executions : SendP!Busy(c) => calls[c].token # records[x].claimToken
        <3>1. CASE x \in DOMAIN records'
            BY <1>2, <3>1
        <3>2. CASE x \notin DOMAIN records'
            <4>1. x = k /\ records[k].claimToken = token /\ reviews[o].resolution = "not_sent"
                BY <1>2, <1>4, <2>1, <3>2 DEF Resolutions
            <4>2. k \notin delivered
                BY <1>3, <4>1
            <4> QED
                BY <1>3, <1>5, <1>6, <4>1, <4>2 DEF HistoryOK
        <3> QED
            BY <3>1, <3>2
    <2> QED
        BY <1>1, <1>6, <2>1, SendAssumptions, SendP!QuietStep
<1>9. RecordsOf'
    <2>1. \A d \in Executions : calls'[d].at # "idle" =>
               /\ calls[d].at # "idle" /\ calls'[d].token = calls[d].token
               /\ \A x \in DOMAIN records' : records[x].claimToken = calls[d].token =>
                    records'[x].status = records[x].status
        BY <1>1, <1>2, <1>3 DEF SendP!Busy
    <2> QED
        BY <1>2, <1>6, <2>1, RecordsKept
<1>10. HistoryOK'
    BY <1>1, <1>6 DEF HistoryOK
<1>11. DecisionsStay
    BY <1>1, <1>2 DEF DecisionsStay
<1>12. \A p \in Operators : DecisionOK(p, reviews[p])'
    BY <1>1, <1>11, ReviewDecisions DEF IdleReview
<1>13. \A c \in Executions : CallOf(c)'
    BY <1>1, CallOfKept DEF Inv, SendingInv
<1>14. EngineInv'
    BY <1>1, ReviewEndsEngine DEF Inv
<1> QED
    BY <1>7, <1>8, <1>9, <1>10, <1>12, <1>13, <1>14 DEF Inv, SendingInv

-----------------------------------------------------------------------------
(* Time, and every step *)

\* Time passes for records, calls and reviews alike.
LEMMA TickStep ==
    ASSUME Inv, Tick
    PROVE  Inv'
<1>1. SendP!TimelyTick /\ UNCHANGED delivered
    BY SameTick DEF Tick
<1>2. SendP!Inv' /\ SendP!Protected'
    BY <1>1, CallsKept DEF Inv, SendP!TimelyNext
<1>3. /\ DOMAIN records' = DOMAIN records
      /\ \A x \in DOMAIN records :
           /\ records'[x].payload = records[x].payload
           /\ records'[x].status = records[x].status
           /\ records'[x].claimToken = records[x].claimToken
    BY <1>1, SendAssumptions, SendP!AgedRecords DEF Inv, SendingInv, SendP!Inv, SendP!TimelyTick, SendP!Tick
<1>4. ASSUME NEW d \in Executions
      PROVE  /\ calls'[d].at = calls[d].at /\ calls'[d].key = calls[d].key /\ calls'[d].payload = calls[d].payload
             /\ calls'[d].token = calls[d].token /\ calls'[d].answer = calls[d].answer
             /\ calls[d].at = "idle" => calls'[d] = calls[d]
    <2>1. PICK n : n = IF calls[d].at # "idle" /\ calls[d].age < TTL THEN calls[d].age + 1 ELSE calls[d].age
        OBVIOUS
    <2>2. calls[d] \in SendP!Call
        BY DEF Inv, SendingInv, SendP!Inv, SendP!CallsOK
    <2>3. calls'[d] = [calls[d] EXCEPT !.age = n]
        BY <1>1, <2>1 DEF SendP!TimelyTick, SendP!Tick
    <2> QED
        BY <2>1, <2>2, <2>3 DEF SendP!Call
<1>5. ASSUME NEW d \in Executions
      PROVE  /\ jobs'[d].at = jobs[d].at
             /\ d \in Working => jobs'[d].id = jobs[d].id /\ jobs'[d].enrollment = jobs[d].enrollment
    <2>1. CASE d \in Working
        <3>1. jobs[d] \in JobRecord
            BY <2>1, JobFacts DEF Inv
        <3>2. PICK i : i = Earlier(jobs[d].now)
            OBVIOUS
        <3>3. jobs'[d] = [jobs[d] EXCEPT !.now = i]
            BY <2>1, <3>2 DEF Tick
        <3> QED
            BY <3>1, <3>3 DEF JobRecord
    <2>2. CASE d \notin Working
        BY <2>2 DEF Tick
    <2> QED
        BY <2>1, <2>2
<1>6. ASSUME NEW d \in Executions
      PROVE  CallOf(d)'
    <2>1. CallOf(d)
        BY DEF Inv, SendingInv
    <2>2. CASE jobs[d].at = "sending"
        <3>1. d \in Working /\ KeyOf(d)' = KeyOf(d)
            BY <1>5, <2>2 DEF Working, KeyOf
        <3> QED
            BY <1>4, <1>5, <2>1, <2>2, <3>1 DEF CallOf
    <2>3. CASE jobs[d].at # "sending"
        BY <1>4, <1>5, <2>1, <2>3 DEF CallOf, Send!IdleCall
    <2> QED
        BY <2>2, <2>3
<1>7. RecordsOf'
    BY <1>3, <1>4, RecordsKept DEF Inv, SendingInv
<1>8. HistoryOK'
    <2>1. \A k \in SendKeys : sends'[k].count # 0 => sends[k].count # 0
        BY <1>1 DEF SendP!TimelyTick, SendP!Tick, SendP!NoSends, Inv, SendingInv, SendP!Inv, SendP!SendsOK
    <2>2. UNCHANGED confirmed
        BY <1>1 DEF SendP!TimelyTick, SendP!Tick
    <2> QED
        BY <1>1, <2>1, <2>2 DEF Inv, SendingInv, HistoryOK
<1>9. ASSUME NEW o \in Operators
      PROVE  DecisionOK(o, reviews[o])'
    <2>1. CASE o \in Reviewing
        <3>1. reviews[o] \in ReviewRecord
            BY <2>1, ReviewFacts DEF Inv
        <3>2. PICK i : i = Earlier(reviews[o].now)
            OBVIOUS
        <3>3. reviews'[o] = [reviews[o] EXCEPT !.now = i]
            BY <2>1, <3>2 DEF Tick
        <3>4. /\ reviews'[o].at = reviews[o].at /\ reviews'[o].id = reviews[o].id
              /\ reviews'[o].enrollment = reviews[o].enrollment /\ reviews'[o].token = reviews[o].token
              /\ reviews'[o].resolution = reviews[o].resolution
            BY <3>1, <3>3 DEF ReviewRecord
        <3>5. DecisionOK(o, reviews[o]) /\ UNCHANGED <<delivered, confirmed>>
            BY <1>1 DEF Inv, SendingInv, SendP!TimelyTick, SendP!Tick
        <3>6. \A c \in Executions : calls'[c].at # "idle" => calls[c].at # "idle" /\ calls'[c].token = calls[c].token
            BY <1>4
        <3> QED
            BY <1>3, <3>4, <3>5, <3>6 DEF DecisionOK, SendP!Busy
    <2>2. CASE o \notin Reviewing
        <3>1. reviews'[o] = reviews[o]
            BY <2>2 DEF Tick
        <3> QED
            BY <2>2, <3>1 DEF DecisionOK, Reviewing
    <2> QED
        BY <2>1, <2>2
<1> QED
    BY <1>2, <1>6, <1>7, <1>8, <1>9, TickEngine DEF Inv, SendingInv

\* At first nothing is stored and nothing under way.
LEMMA InitInv == Init => Inv
<1> SUFFICES ASSUME Init PROVE Inv
    OBVIOUS
<1>1. EngineInv
    BY DEF Init, EngineInv, DefinitionsOK, EnrollmentsOK, Stored, JobsOK, JobOK, FencesOK, Working, ReviewsOK, ReviewOK,
           IdleJob, IdleReview
<1>2. SendP!Init
    BY DEF Init, Send!Init, SendP!Init, Send!NoRecords, SendP!NoRecords, Send!IdleCall, SendP!IdleCall,
           Send!NoSends, SendP!NoSends, Send!Window, SendP!Window
<1>3. SendP!Inv /\ SendP!Protected
    BY <1>2, SendAssumptions, SendP!InitInv, SendP!InitProtected
<1>4. /\ DOMAIN records = {} /\ confirmed = {} /\ delivered = {} /\ jobs = [c \in Executions |-> IdleJob]
      /\ calls = [c \in Executions |-> Send!IdleCall] /\ sends = [k \in SendKeys |-> Send!NoSends]
      /\ reviews = [o \in Operators |-> IdleReview]
    BY DEF Init, Send!Init, Send!NoRecords
<1>5. \A c \in Executions : CallOf(c)
    BY <1>4 DEF CallOf, IdleJob
<1>6. RecordsOf /\ HistoryOK
    BY <1>4 DEF RecordsOf, HistoryOK, Send!NoSends
<1>7. \A o \in Operators : DecisionOK(o, reviews[o])
    BY <1>4 DEF DecisionOK, IdleReview
<1> QED
    BY <1>1, <1>3, <1>5, <1>6, <1>7 DEF Inv, SendingInv

\* The operations of the repository that are about no execution under way.
LEMMA RepositoryStep ==
    ASSUME Inv,
           \/ DefinitionStep
           \/ \E e \in EnrollmentIds, q \in Definitions, revision \in 1 .. Len(Plans), u \in Subscribers, start \in 0 .. 1 :
                Enroll(e, q, revision, u, start)
           \/ \E now \in ClockReadings, limit \in 1 .. 2 : Reconcile(now, limit)
    PROVE  Inv'
<1>1. ASSUME NEW q \in Definitions, CreateDefinition(q) \/ UpdateDefinition(q)
      PROVE  EngineInv' /\ UNCHANGED <<jobs, reviews, sending>>
    <2>1. "active" \in {"active", "paused"}
        OBVIOUS
    <2> QED
        BY <1>1, <2>1, DefinitionsEngine DEF CreateDefinition, UpdateDefinition, Inv
<1>2. ASSUME NEW q \in Definitions, NEW status \in {"active", "paused"}, SetDefinitionStatus(q, status)
      PROVE  EngineInv' /\ UNCHANGED <<jobs, reviews, sending>>
    BY <1>2, DefinitionsEngine DEF SetDefinitionStatus, Inv
<1>3. ASSUME NEW q \in Definitions, DeleteDefinition(q)
      PROVE  EngineInv' /\ UNCHANGED <<jobs, reviews, sending>>
    BY <1>3, DeleteDefinitionEngine DEF DeleteDefinition, Inv
<1>4. ASSUME NEW e \in EnrollmentIds, NEW q \in Definitions, NEW revision \in 1 .. Len(Plans), NEW u \in Subscribers,
             NEW start \in 0 .. 1, Enroll(e, q, revision, u, start)
      PROVE  EngineInv' /\ UNCHANGED <<jobs, reviews, sending>>
    BY <1>4, EnrollEngine DEF Enroll, Inv
<1>5. ASSUME NEW now \in ClockReadings, NEW limit \in 1 .. 2, Reconcile(now, limit)
      PROVE  EngineInv' /\ UNCHANGED <<jobs, reviews, sending>>
    BY <1>5, ReconcileEngine DEF Reconcile, Inv
<1>6. EngineInv' /\ UNCHANGED <<jobs, reviews, sending>>
    BY <1>1, <1>2, <1>3, <1>4, <1>5 DEF DefinitionStep
<1> QED
    BY <1>6, SendingStays DEF Inv

\* claimDue starts executions whose calls have not begun.
LEMMA ClaimDueStep ==
    ASSUME Inv, NEW now \in ClockReadings, ClaimDue(now)
    PROVE  Inv'
<1>1. UNCHANGED <<reviews, delivered, records, calls, sends, confirmed>>
    BY DEF ClaimDue, sending
<1>2. ASSUME NEW c \in Executions
      PROVE  jobs'[c] = jobs[c] \/ (c \notin Working /\ jobs'[c].at = "executing")
    <2>1. PICK batch : \E execution \in [batch -> Executions \ Working] :
             jobs' = [d \in Executions |->
                IF \E e \in batch : execution[e] = d
                THEN Job(CHOOSE e \in batch : execution[e] = d, d, now)
                ELSE jobs[d]]
        BY DEF ClaimDue
    <2>2. PICK execution \in [batch -> Executions \ Working] :
             jobs' = [d \in Executions |->
                IF \E e \in batch : execution[e] = d
                THEN Job(CHOOSE e \in batch : execution[e] = d, d, now)
                ELSE jobs[d]]
        BY <2>1
    <2>3. CASE \E e \in batch : execution[e] = c
        BY <2>2, <2>3 DEF Job
    <2>4. CASE ~\E e \in batch : execution[e] = c
        BY <2>2, <2>4
    <2> QED
        BY <2>3, <2>4
<1>3. ASSUME NEW c \in Executions
      PROVE  CallOf(c)'
    <2>1. CallOf(c)
        BY DEF Inv, SendingInv
    <2>2. CASE jobs'[c] = jobs[c]
        BY <1>1, <2>1, <2>2, CallOfKept
    <2>3. CASE jobs'[c] # jobs[c]
        BY <1>1, <1>2, <2>1, <2>3 DEF CallOf, Working, Send!IdleCall
    <2> QED
        BY <2>2, <2>3
<1>4. \A o \in Operators : DecisionOK(o, reviews[o])'
    BY <1>1, DecisionsKept DEF Inv
<1>5. SendingInv'
    BY <1>1, <1>3, <1>4, SendingUnchanged DEF Inv, sending
<1> QED
    BY <1>5, ClaimDueEngine DEF Inv

\* Every step keeps Inv.
LEMMA StepInv == Inv /\ [Next]_vars => Inv'
<1> SUFFICES ASSUME Inv, [Next]_vars PROVE Inv'
    OBVIOUS
<1>1. ASSUME \/ DefinitionStep
             \/ \E e \in EnrollmentIds, q \in Definitions, revision \in 1 .. Len(Plans), u \in Subscribers, start \in 0 .. 1 :
                  Enroll(e, q, revision, u, start)
             \/ \E now \in ClockReadings, limit \in 1 .. 2 : Reconcile(now, limit)
      PROVE  Inv'
    BY <1>1, RepositoryStep
<1>2. ASSUME NEW now \in ClockReadings, ClaimDue(now)
      PROVE  Inv'
    BY <1>2, ClaimDueStep
<1>3. ASSUME NEW c \in Executions, ExecutionStep(c) \/ CompletionFails(c) \/ Crash(c)
      PROVE  Inv'
    BY <1>3, StartSendStep, DispatchStep, PersistStep, PersistFailsStep, CompletionStep, CrashStep DEF ExecutionStep
<1>4. ASSUME NEW o \in Operators, ReviewStep(o)
      PROVE  Inv'
    BY <1>4, ReadEnrollmentStep, ReadRecordStep, ResolveStep, SettleRecordStep, StopReviewStep DEF ReviewStep
<1>5. CASE Tick
    BY <1>5, TickStep
<1>6. CASE UNCHANGED vars
    <2>1. UNCHANGED <<definitions, enrollments, jobs, reviews, sending>>
        BY <1>6 DEF vars, sending
    <2> QED
        BY <2>1, SendingEngine, SendingStays DEF Inv
<1> QED
    BY <1>1, <1>2, <1>3, <1>4, <1>5, <1>6 DEF Next

\* The invariant holds in every reachable state.
THEOREM SequencesInvariance == Spec => []Inv
BY InitInv, StepInv, PTL DEF Spec

\* The invariant contains the types.
LEMMA TypeOKFromInv == Inv => TypeOK
<1> SUFFICES ASSUME Inv PROVE TypeOK
    OBVIOUS
<1>1. Send!TypeOK
    <2>1. SendP!TypeOK
        BY SendAssumptions, SendP!TypeOKFromInv DEF Inv, SendingInv
    <2> QED
        BY <2>1 DEF Send!TypeOK, SendP!TypeOK, Send!Record, SendP!Record, Send!Statuses, SendP!Statuses, Send!Call, SendP!Call,
                Send!Points, SendP!Points, Send!Answers, SendP!Answers, Send!Outcomes, SendP!Outcomes
<1>2. \A c \in Working : jobs[c].at \in {"executing", "sending"} /\ jobs[c].id \in EnrollmentIds
                         /\ jobs[c].enrollment \in Enrollment
    BY JobFacts DEF Inv, EnrollmentOK
<1>3. \A o \in Reviewing : /\ reviews[o].at \in {"read", "decided", "resolved"} /\ reviews[o].id \in EnrollmentIds
                           /\ reviews[o].enrollment \in Enrollment
    BY ReviewFacts DEF Inv, ReviewRecord
<1> QED
    BY <1>1, <1>2, <1>3 DEF TypeOK, Inv, EngineInv, DefinitionsOK, EnrollmentsOK, EnrollmentOK, SendingInv, HistoryOK

\* Every variable holds a value of its kind: whatever is claimed, completed, overtaken or reviewed,
\* an enrollment is at a step of the revision it was enrolled with.
THEOREM TypeCorrectness == Spec => []TypeOK
BY SequencesInvariance, TypeOKFromInv, PTL

\* Listmonk sends the message of a step at most once per window, although executions that were
\* overtaken still send and reviews release and accept records on their own.
THEOREM StepSentOncePerWindow == Spec => []OncePerWindow
<1>1. Inv => OncePerWindow
    <2>1. Inv => SendP!SentOncePerWindow
        BY SendAssumptions, SendP!SentOnceFromProtected DEF Inv, SendingInv
    <2> QED
        BY <2>1 DEF OncePerWindow, Send!SentOncePerWindow, SendP!SentOncePerWindow
<1> QED
    BY <1>1, SequencesInvariance, PTL

-----------------------------------------------------------------------------
(* What a step may do to a stored enrollment *)

\* claimDue, reconcile and time leave an enrollment at its step.
Rescheduled(e) ==
    /\ enrollments[e].status \in Scheduled /\ enrollments'[e].status \in Scheduled
    /\ enrollments'[e].step = enrollments[e].step

\* The execution that holds its lease completes the claim.
Executed(e) ==
    /\ enrollments[e].status = "running" /\ enrollments'[e].step >= enrollments[e].step
    /\ StepType(enrollments[e]) = "send" /\ LeavesStep(e) => <<e, enrollments[e].step>> \in delivered

\* A review settles it.
Reviewed(e) ==
    /\ enrollments[e].status = "ambiguous" /\ enrollments'[e].step >= enrollments[e].step
    /\ LeavesStep(e) => <<e, enrollments[e].step>> \in delivered
    /\ \E o \in Operators : /\ reviews[o].at = "decided" /\ reviews'[o] # reviews[o]
                            /\ ReviewedKey(o) = <<e, enrollments[e].step>>
                            /\ reviews[o].resolution = "sent" <=> LeavesStep(e)

\* It is finished, and no execution holds its lease: its definition is deleted.
Deleted(e) ==
    /\ ~Active(e)
    /\ \A c \in Working : jobs[c].id = e => ~Fenced(c)

Follows(e) ==
    IF e \in Stored' THEN enrollments'[e] = enrollments[e] \/ Rescheduled(e) \/ Executed(e) \/ Reviewed(e)
    ELSE Deleted(e)

\* What is stored is unchanged.
LEMMA UnchangedFollows ==
    ASSUME UNCHANGED enrollments, NEW e \in Stored
    PROVE  Follows(e)
BY DEF Follows, Stored

\* deleteDefinition
LEMMA DeleteFollows ==
    ASSUME Inv, NEW q \in Definitions, DeleteDefinition(q), NEW e \in Stored
    PROVE  Follows(e)
<1>1. CASE enrollments[e].sequenceId = q
    <2>1. e \notin Stored' /\ ~Active(e)
        BY <1>1 DEF DeleteDefinition, InUse, Stored
    <2>2. ASSUME NEW c \in Working, jobs[c].id = e, Fenced(c)
          PROVE  FALSE
        <3>1. jobs[c].enrollment.leaseToken = c /\ c # NoLease
            BY JobFacts DEF Inv
        <3>2. enrollments[e].status = "running"
            BY <2>2, <3>1 DEF Fenced, Inv, EngineInv, EnrollmentsOK, EnrollmentOK
        <3> QED
            BY <2>1, <3>2 DEF Active, Terminal
    <2> QED
        BY <2>1, <2>2 DEF Follows, Deleted
<1>2. CASE enrollments[e].sequenceId # q
    BY <1>2 DEF DeleteDefinition, Follows, Stored
<1> QED
    BY <1>1, <1>2

\* claimDue
LEMMA ClaimDueFollows ==
    ASSUME Inv, NEW now \in ClockReadings, ClaimDue(now), NEW e \in Stored
    PROVE  Follows(e)
<1>1. PICK batch \in SUBSET Due(now) : \E execution \in [batch -> Executions \ Working] :
           enrollments' = [x \in Stored |-> IF x \in batch THEN Leased(x, execution[x], now) ELSE enrollments[x]]
    BY DEF ClaimDue, Heads
<1>2. PICK execution \in [batch -> Executions \ Working] :
           enrollments' = [x \in Stored |-> IF x \in batch THEN Leased(x, execution[x], now) ELSE enrollments[x]]
    BY <1>1
<1>3. Stored' = Stored
    BY <1>2 DEF Stored
<1>4. CASE e \in batch
    <2>1. enrollments[e].status \in Scheduled /\ enrollments[e] \in Enrollment
        BY <1>4 DEF Due, Inv, EngineInv, EnrollmentsOK, EnrollmentOK
    <2>2. enrollments'[e] = Leased(e, execution[e], now)
        BY <1>2, <1>4
    <2>3. enrollments'[e].status = "running" /\ enrollments'[e].step = enrollments[e].step
        BY <2>1, <2>2 DEF Leased, Enrollment
    <2> QED
        BY <1>3, <2>1, <2>3 DEF Follows, Rescheduled, Scheduled
<1>5. CASE e \notin batch
    BY <1>2, <1>3, <1>5 DEF Follows
<1> QED
    BY <1>4, <1>5

\* reconcile
LEMMA ReconcileFollows ==
    ASSUME Inv, NEW now \in ClockReadings, NEW limit \in 1 .. 2, Reconcile(now, limit), NEW e \in Stored
    PROVE  Follows(e)
<1>1. PICK recovered \in SUBSET Stored :
        /\ \A x \in recovered : Active(x) /\ enrollments[x].leaseToken # NoLease
        /\ enrollments' = [x \in Stored |->
               IF x \in recovered
               THEN [enrollments[x] EXCEPT !.status = "pending", !.leaseToken = NoLease,
                                           !.leaseExpiresIn = 0, !.nextRunIn = now]
               ELSE enrollments[x]]
    BY DEF Reconcile
<1>2. Stored' = Stored
    BY <1>1 DEF Stored
<1>3. CASE e \in recovered
    <2>1. enrollments[e] \in Enrollment /\ enrollments[e].status = "running"
        BY <1>1, <1>3 DEF Inv, EngineInv, EnrollmentsOK, EnrollmentOK
    <2>2. enrollments'[e].status = "pending" /\ enrollments'[e].step = enrollments[e].step
        BY <1>1, <1>3, <2>1 DEF Enrollment
    <2> QED
        BY <1>2, <2>1, <2>2 DEF Follows, Rescheduled, Scheduled
<1>4. CASE e \notin recovered
    BY <1>1, <1>2, <1>4 DEF Follows
<1> QED
    BY <1>3, <1>4

\* completeClaim: the enrollment is the one that was claimed, at the same step (FencesOK).
LEMMA CompleteClaimFollows ==
    ASSUME Inv, NEW c \in Executions, CompleteClaim(c), NEW e \in Stored
    PROVE  Follows(e)
<1>1. PICK x \in Results(c) : enrollments' = [enrollments EXCEPT ![jobs[c].id] = x]
    BY DEF CompleteClaim
<1>2. Stored' = Stored
    BY <1>1 DEF Stored
<1>3. CASE e # jobs[c].id
    BY <1>1, <1>2, <1>3 DEF Follows, Stored
<1>4. CASE e = jobs[c].id
    <2> DEFINE n == jobs[c].enrollment
    <2>1. Decided(c) /\ c \in Working /\ Fenced(c)
        BY DecidedIsIdle DEF CompleteClaim
    <2>2. n.leaseToken = c /\ EnrollmentOK(n)
        BY <2>1, JobFacts DEF Inv
    <2>3. enrollments[e].leaseToken = c
        BY <1>4, <2>1, <2>2 DEF Fenced
    <2>4. SameStep(enrollments[e], n) /\ enrollments[e].status = "running"
        BY <1>4, <2>1, <2>3 DEF Inv, EngineInv, FencesOK, EnrollmentsOK, EnrollmentOK
    <2>5. Result(n, x) /\ (StepType(n) = "send" /\ Moves(n, x) => KeyOf(c) \in delivered)
        BY <2>1, ResultsOK
    <2>6. KeyOf(c) = <<e, enrollments[e].step>> /\ enrollments'[e] = x
        BY <1>1, <1>4, <2>4 DEF KeyOf, SameStep, Stored
    <2>7. StepType(enrollments[e]) = StepType(n) /\ n.step = enrollments[e].step
        BY <2>4 DEF StepType, Steps, SameStep
    <2> QED
        BY <1>2, <2>4, <2>5, <2>6, <2>7 DEF Follows, Executed, LeavesStep, Moves, Result
<1> QED
    BY <1>3, <1>4

\* resolveAmbiguous: the enrollment is the one that was read (ReviewOK).
LEMMA ResolveFollows ==
    ASSUME Inv, NEW o \in Operators, Resolve(o), NEW e \in Stored
    PROVE  Follows(e)
<1> DEFINE r == reviews[o]
           x == IF r.resolution = "sent" THEN Following(r.enrollment, "pending", r.now)
                ELSE AtStep(r.enrollment, r.enrollment.step, "pending", r.now)
<1>1. o \in Reviewing /\ r.at = "decided" /\ Unchanged(o) /\ enrollments' = [enrollments EXCEPT ![r.id] = x]
    BY DEF Resolve, Reviewing
<1>2. Stored' = Stored
    BY <1>1 DEF Stored
<1>3. CASE e # r.id
    BY <1>1, <1>2, <1>3 DEF Follows, Stored
<1>4. CASE e = r.id
    <2>1. enrollments[e] = r.enrollment /\ r.enrollment.status = "ambiguous" /\ r \in ReviewRecord
        BY <1>1, <1>4, ReviewFacts DEF Inv
    <2>2. Result(r.enrollment, x) /\ (r.resolution = "sent" <=> Moves(r.enrollment, x))
        BY <1>1, ResolutionOK DEF Inv
    <2>3. enrollments'[e] = x
        BY <1>1, <1>4 DEF Stored
    <2>4. reviews'[o] # r
        <3>1. reviews'[o] = IF r.status = "accepted" THEN IdleReview ELSE [r EXCEPT !.at = "resolved"]
            BY DEF Resolve, Inv, EngineInv, ReviewsOK
        <3> QED
            BY <1>1, <2>1, <3>1 DEF IdleReview, ReviewRecord
    <2>5. r.resolution = "sent" => <<r.id, r.enrollment.step>> \in delivered
        BY <1>1 DEF Inv, SendingInv, DecisionOK
    <2>6. ReviewedKey(o) = <<e, enrollments[e].step>>
        BY <1>4, <2>1 DEF ReviewedKey
    <2> HIDE DEF x
    <2>7. r.resolution = "sent" <=> LeavesStep(e)
        BY <2>1, <2>2, <2>3 DEF LeavesStep, Moves
    <2>8. enrollments'[e].step >= enrollments[e].step
        BY <2>1, <2>2, <2>3 DEF Result
    <2>9. Reviewed(e)
        BY <1>1, <1>4, <2>1, <2>4, <2>5, <2>6, <2>7, <2>8 DEF Reviewed
    <2> QED
        BY <1>2, <2>9 DEF Follows
<1> QED
    BY <1>3, <1>4

\* Time passes only for what is scheduled.
LEMMA TickFollows ==
    ASSUME Inv, Tick, NEW e \in Stored
    PROVE  Follows(e)
<1> DEFINE n == enrollments[e]
<1>1. PICK i, j : /\ i = (IF n.status \in Scheduled THEN Earlier(n.nextRunIn) ELSE n.nextRunIn)
                  /\ j = (IF n.leaseToken # NoLease THEN Earlier(n.leaseExpiresIn) ELSE n.leaseExpiresIn)
    OBVIOUS
<1>2. enrollments'[e] = [n EXCEPT !.nextRunIn = i, !.leaseExpiresIn = j] /\ Stored' = Stored
    BY <1>1 DEF Tick, Stored
<1>3. EnrollmentOK(n) /\ n \in Enrollment
    BY DEF Inv, EngineInv, EnrollmentsOK, EnrollmentOK
<1>4. CASE n.status \in Scheduled
    BY <1>2, <1>3, <1>4 DEF Follows, Rescheduled, Enrollment
<1>5. CASE n.status \notin Scheduled
    <2>1. i = n.nextRunIn /\ j = n.leaseExpiresIn
        BY <1>1, <1>3, <1>5 DEF EnrollmentOK, Scheduled
    <2>2. enrollments'[e] = n
        BY <1>2, <1>3, <2>1 DEF Enrollment
    <2> QED
        BY <1>2, <2>2 DEF Follows
<1> QED
    BY <1>4, <1>5

\* Nothing else happens to a stored enrollment.
LEMMA StepFollows ==
    ASSUME Inv, [Next]_vars, NEW e \in Stored
    PROVE  Follows(e)
<1>1. CASE UNCHANGED vars
    BY <1>1, UnchangedFollows DEF vars
<1>2. CASE DefinitionStep
    <2>1. ASSUME NEW q \in Definitions, CreateDefinition(q) \/ UpdateDefinition(q)
          PROVE  UNCHANGED enrollments
        BY <2>1 DEF CreateDefinition, UpdateDefinition
    <2>2. ASSUME NEW q \in Definitions, NEW status \in {"active", "paused"}, SetDefinitionStatus(q, status)
          PROVE  UNCHANGED enrollments
        BY <2>2 DEF SetDefinitionStatus
    <2> QED
        BY <1>2, <2>1, <2>2, UnchangedFollows, DeleteFollows DEF DefinitionStep
<1>3. ASSUME NEW x \in EnrollmentIds, NEW q \in Definitions, NEW revision \in 1 .. Len(Plans), NEW u \in Subscribers,
             NEW start \in 0 .. 1, Enroll(x, q, revision, u, start)
      PROVE  Follows(e)
    BY <1>3 DEF Enroll, FreshEnrollmentIds, Stored, Follows
<1>4. ASSUME NEW now \in ClockReadings, ClaimDue(now)
      PROVE  Follows(e)
    BY <1>4, ClaimDueFollows
<1>5. ASSUME NEW now \in ClockReadings, NEW limit \in 1 .. 2, Reconcile(now, limit)
      PROVE  Follows(e)
    BY <1>5, ReconcileFollows
<1>6. ASSUME NEW c \in Executions, ExecutionStep(c) \/ CompletionFails(c) \/ Crash(c)
      PROVE  Follows(e)
    <2>1. CompleteClaim(c) \/ UNCHANGED enrollments
        BY <1>6 DEF ExecutionStep, CompletionFails, Crash, CrashBetween, CrashDuringSend, StartSend, Dispatch, Persist,
                    PersistFails, LoseClaim, stored
    <2> QED
        BY <2>1, CompleteClaimFollows, UnchangedFollows
<1>7. ASSUME NEW o \in Operators, ReviewStep(o)
      PROVE  Follows(e)
    <2>1. Resolve(o) \/ UNCHANGED enrollments
        BY <1>7 DEF ReviewStep, ReadEnrollment, ReadRecord, SettleRecord, StopReview, stored
    <2> QED
        BY <2>1, ResolveFollows, UnchangedFollows
<1>8. CASE Tick
    BY <1>8, TickFollows
<1> QED
    BY <1>1, <1>2, <1>3, <1>4, <1>5, <1>6, <1>7, <1>8 DEF Next

\* The step an enrollment is at is a number.
LEMMA StepNumber ==
    ASSUME Inv, NEW e \in Stored
    PROVE  enrollments[e].step \in Nat /\ EnrollmentOK(enrollments[e])
BY PlanFacts DEF Inv, EngineInv, EnrollmentsOK, EnrollmentOK

\* No execution or review that has been overtaken takes an enrollment back to an earlier step or
\* revives a finished one: leases and updatedAt fence them (completeClaim, resolveAmbiguous).
THEOREM EnrollmentsNeverBack == Spec => NeverBack
<1>1. Inv /\ [Next]_vars =>
        [\A e \in Kept : /\ enrollments'[e].step >= enrollments[e].step
                         /\ ~Active(e) => enrollments'[e] = enrollments[e]]_vars
    <2> SUFFICES ASSUME Inv, [Next]_vars, NEW e \in Kept
                 PROVE  /\ enrollments'[e].step >= enrollments[e].step
                        /\ ~Active(e) => enrollments'[e] = enrollments[e]
        OBVIOUS
    <2>1. e \in Stored /\ e \in Stored'
        BY DEF Kept, Stored
    <2>2. Follows(e) /\ enrollments[e].step \in Nat
        BY <2>1, StepFollows, StepNumber
    <2> QED
        BY <2>1, <2>2 DEF Follows, Rescheduled, Executed, Reviewed, Active, Scheduled, Terminal
<1> QED
    BY <1>1, SequencesInvariance, PTL DEF Spec, NeverBack

\* An enrollment leaves a send step only when Listmonk has sent that step's message: by the answer
\* of a send, replayed or not, or by a review that found it sent.
THEOREM AdvanceFollowsSend == Spec => AdvancedWasSent
<1>1. Inv /\ [Next]_vars =>
        [\A e \in Kept : Active(e) /\ StepType(enrollments[e]) = "send" /\ LeavesStep(e) =>
            <<e, enrollments[e].step>> \in delivered]_vars
    <2> SUFFICES ASSUME Inv, [Next]_vars, NEW e \in Kept, Active(e), StepType(enrollments[e]) = "send", LeavesStep(e)
                 PROVE  <<e, enrollments[e].step>> \in delivered
        OBVIOUS
    <2>1. e \in Stored /\ e \in Stored'
        BY DEF Kept, Stored
    <2>2. Follows(e) /\ enrollments[e].step \in Nat
        BY <2>1, StepFollows, StepNumber
    <2>3. enrollments'[e] # enrollments[e]
        BY <2>2 DEF LeavesStep, Active, Terminal
    <2>4. ~Rescheduled(e)
        BY <2>2 DEF Rescheduled, LeavesStep, Scheduled
    <2> QED
        BY <2>1, <2>2, <2>3, <2>4 DEF Follows, Executed, Reviewed
<1> QED
    BY <1>1, SequencesInvariance, PTL DEF Spec, AdvancedWasSent

\* Deleting a definition takes no enrollment along that is active, hence none whose lease an
\* execution still holds (deleteDefinition).
THEOREM UnfinishedEnrollmentsKept == Spec => UnfinishedKept
<1>1. Inv /\ [Next]_vars =>
        [\A e \in Stored \ DOMAIN enrollments' :
            /\ ~Active(e)
            /\ \A c \in Working : jobs[c].id = e => ~Fenced(c)]_vars
    BY StepFollows DEF Follows, Deleted, Stored
<1> QED
    BY <1>1, SequencesInvariance, PTL DEF Spec, UnfinishedKept

\* Nothing but a review moves an ambiguous enrollment, one that decided about the very message
\* that is ambiguous (reconcileAmbiguousSequenceEnrollment).
THEOREM AmbiguousNeedsReview == Spec => AmbiguousLeftByReview
<1>1. Inv /\ [Next]_vars =>
        [\A e \in Kept : enrollments[e].status = "ambiguous" /\ enrollments'[e] # enrollments[e] =>
            \E o \in Operators : /\ reviews[o].at = "decided" /\ reviews'[o] # reviews[o]
                                 /\ ReviewedKey(o) = <<e, enrollments[e].step>>
                                 /\ reviews[o].resolution = "sent" <=> LeavesStep(e)]_vars
    <2> SUFFICES ASSUME Inv, [Next]_vars, NEW e \in Kept, enrollments[e].status = "ambiguous",
                        enrollments'[e] # enrollments[e]
                 PROVE  \E o \in Operators : /\ reviews[o].at = "decided" /\ reviews'[o] # reviews[o]
                                             /\ ReviewedKey(o) = <<e, enrollments[e].step>>
                                             /\ reviews[o].resolution = "sent" <=> LeavesStep(e)
        OBVIOUS
    <2>1. e \in Stored /\ e \in Stored'
        BY DEF Kept, Stored
    <2>2. Follows(e)
        BY <2>1, StepFollows
    <2> QED
        BY <2>1, <2>2 DEF Follows, Rescheduled, Executed, Reviewed, Scheduled
<1> QED
    BY <1>1, SequencesInvariance, PTL DEF Spec, AmbiguousLeftByReview
=============================================================================
