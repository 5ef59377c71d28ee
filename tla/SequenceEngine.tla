--------------------------- MODULE SequenceEngine ---------------------------
(***************************************************************************)
(* Headless email sequences: the file repository (sequences.ts) and the    *)
(* engine (sequence-engine.ts) of packages/automation.  Workers claim due  *)
(* enrollments under a lease, execute one step each and complete the       *)
(* claim; a send step goes through TransactionalSend under a key that the  *)
(* enrollment and the step determine; operators decide what became of an   *)
(* ambiguous send.                                                         *)
(*                                                                         *)
(* Times are relative to the present, as in TransactionalStore.            *)
(***************************************************************************)
EXTENDS Integers, FiniteSets, Sequences

CONSTANTS
    Definitions, EnrollmentIds, Subscribers,
    Plans,          \* the steps of each revision a definition may get
    Executions,     \* concurrent executions of claimed enrollments, in any worker
    Operators,      \* concurrent reviews of ambiguous enrollments
    ClaimTokens,
    NoLease, NoClaim, NoKey, NoPayload,    \* absent values
    LeaseMs,        \* leaseMs of claimDue
    Limit,          \* limit of claimDue
    RetryDelay,     \* longest backoff after a failed attempt
    MaxAttempts,    \* SEQUENCE_RETRY_MAX_ATTEMPTS
    MaxBusy,        \* bound on executions and reviews that are under way at once
    TTL, MaxRecords, MaxWait, DispatchTime \* of TransactionalSend; MaxWait also bounds a review

\* A step; the conditions of a condition step are left out, its targets are step numbers.
PlanStep == [type : {"send", "wait_until", "stop"}]
            \cup [type : {"wait"}, duration : Nat]
            \cup [type : {"condition"}, targets : SUBSET Nat]

\* A plan is a sequence of steps; a condition branches to later steps and a wait is never the last.
PlanOK(plan) ==
    \A i \in 1 .. Len(plan) :
        /\ plan[i].type = "condition" => plan[i].targets \subseteq i + 1 .. Len(plan)
        /\ plan[i].type \in {"wait", "wait_until"} => i < Len(plan)

ASSUME SequencesAssumption ==
    /\ Plans \in Seq(Seq(PlanStep)) /\ Len(Plans) > 0
    /\ \A r \in 1 .. Len(Plans) : Len(Plans[r]) > 0 /\ PlanOK(Plans[r])
    /\ LeaseMs \in Nat \ {0} /\ Limit \in Nat \ {0} /\ RetryDelay \in Nat /\ MaxAttempts \in Nat \ {0}
    /\ NoLease \notin Executions /\ IsFiniteSet(Operators)
    /\ TTL \in Nat \ {0} /\ MaxRecords \in Nat /\ MaxWait \in Nat
    /\ DispatchTime \in 0 .. TTL /\ NoClaim \notin ClaimTokens

VARIABLES
    definitions,    \* the stored definitions: status and current revision
    enrollments,    \* the stored enrollments
    jobs,           \* per execution: the claimed enrollment it works on
    reviews,        \* per operator: the ambiguous enrollment under review
    delivered,      \* history: the keys whose message Listmonk has ever sent
    records, calls, sends, confirmed    \* of TransactionalSend

stored == <<definitions, enrollments>>
sending == <<delivered, records, calls, sends, confirmed>>
vars == <<definitions, enrollments, jobs, reviews, delivered, records, calls, sends, confirmed>>

\* deterministicSendKey: an enrollment and one of its steps (an enrollment has one revision).
\* The message is the same at every attempt, so the key stands for the payload too.
StepNumbers == UNION {1 .. Len(Plans[r]) : r \in 1 .. Len(Plans)}
SendKeys == EnrollmentIds \X StepNumbers

Send == INSTANCE TransactionalSend WITH Keys <- SendKeys, Payloads <- SendKeys, Callers <- Executions

-----------------------------------------------------------------------------
Terminal == {"completed", "failed", "cancelled"}
Scheduled == {"pending", "running", "waiting"}

\* updatedAt tells apart the times an enrollment became ambiguous that a review may still remember.
Updates == 0 .. Cardinality(Operators) + 1

\* An execution has one lease at a time, so its name stands for the token claimDue gave it.
Enrollment ==
    [sequenceId : Definitions, revision : 1 .. Len(Plans), subscriberId : Subscribers,
     status : Scheduled \cup {"ambiguous"} \cup Terminal,
     step : StepNumbers, retryCount : 0 .. MaxAttempts, nextRunIn : Int,
     leaseToken : Executions \cup {NoLease}, leaseExpiresIn : Int, updatedAt : Updates]

IdleJob == [at |-> "idle"]
IdleReview == [at |-> "idle"]
Resolutions == {"sent", "not_sent"}

Init ==
    /\ definitions = [q \in {} |-> {}]
    /\ enrollments = [e \in {} |-> {}]
    /\ jobs = [c \in Executions |-> IdleJob]
    /\ reviews = [o \in Operators |-> IdleReview]
    /\ delivered = {}
    /\ Send!Init

-----------------------------------------------------------------------------
(* Helpers *)

Stored == DOMAIN enrollments
Active(e) == enrollments[e].status \notin Terminal
Working == {c \in Executions : jobs[c].at # "idle"}
Reviewing == {o \in Operators : reviews[o].at # "idle"}
Busy == Cardinality(Working) + Cardinality(Reviewing)

ClockReadings == -MaxWait .. 0
Earlier(time) == IF time >= -MaxWait THEN time - 1 ELSE time

Steps(n) == Plans[n.revision]
StepType(n) == Steps(n)[n.step].type

FreshUpdates == (Updates \ {0}) \ {reviews[o].enrollment.updatedAt : o \in Reviewing}

\* Identifiers are new UUIDs: ones nobody remembers.
FreshEnrollmentIds ==
    EnrollmentIds \ (Stored \cup {jobs[c].id : c \in Working} \cup {reviews[o].id : o \in Reviewing}
                            \cup {k[1] : k \in DOMAIN records} \cup {k[1] : k \in delivered})

\* The heads of S when it is sorted by key (which of two equal keys comes first is arbitrary).
Heads(S, key) == {P \in SUBSET S : \A x \in P, y \in S \ P : key[x] <= key[y]}

-----------------------------------------------------------------------------
(* Definitions and enrollments *)

\* createDefinition; the id is a new UUID (names are left out).
CreateDefinition(q) ==
    /\ q \notin DOMAIN definitions
    /\ \A e \in Stored : enrollments[e].sequenceId # q
    /\ definitions' = [x \in DOMAIN definitions \cup {q} |->
         IF x = q THEN [status |-> "active", currentRevision |-> 1] ELSE definitions[x]]
    /\ UNCHANGED <<enrollments, jobs, reviews, sending>>

\* updateDefinition with other steps appends a revision.
UpdateDefinition(q) ==
    /\ q \in DOMAIN definitions
    /\ definitions[q].currentRevision < Len(Plans)
    /\ definitions' = [definitions EXCEPT ![q].currentRevision = @ + 1]
    /\ UNCHANGED <<enrollments, jobs, reviews, sending>>

SetDefinitionStatus(q, status) ==
    /\ q \in DOMAIN definitions
    /\ definitions[q].status # status
    /\ definitions' = [definitions EXCEPT ![q].status = status]
    /\ UNCHANGED <<enrollments, jobs, reviews, sending>>

InUseBySchedule(q) ==
    \E e \in Stored : enrollments[e].sequenceId = q /\ enrollments[e].status \in Scheduled
InUse(q) == \E e \in Stored : enrollments[e].sequenceId = q /\ Active(e)

\* deleteDefinition takes the finished enrollments along.
DeleteDefinition(q) ==
    /\ q \in DOMAIN definitions
    /\ ~InUse(q)
    /\ definitions' = [x \in DOMAIN definitions \ {q} |-> definitions[x]]
    /\ enrollments' = [e \in {x \in Stored : enrollments[x].sequenceId # q} |-> enrollments[e]]
    /\ UNCHANGED <<jobs, reviews, sending>>

Enrolled(q, u) ==
    \E e \in Stored : enrollments[e].sequenceId = q /\ enrollments[e].subscriberId = u /\ Active(e)

NewEnrollment(q, revision, u, start) ==
    [sequenceId |-> q, revision |-> revision, subscriberId |-> u, status |-> "pending",
     step |-> 1, retryCount |-> 0, nextRunIn |-> start, leaseToken |-> NoLease,
     leaseExpiresIn |-> 0, updatedAt |-> 0]

\* createEnrollment, now or with a later start.  The definition was read before: it may have been
\* paused or revised since.
Enroll(e, q, revision, u, start) ==
    /\ e \in FreshEnrollmentIds
    /\ q \in DOMAIN definitions
    /\ revision <= definitions[q].currentRevision
    /\ ~Enrolled(q, u)
    /\ enrollments' = [x \in Stored \cup {e} |->
         IF x = e THEN NewEnrollment(q, revision, u, start) ELSE enrollments[x]]
    /\ UNCHANGED <<definitions, jobs, reviews, sending>>

\* claimDue: the due enrollments that have waited longest are leased under new tokens and each
\* starts an execution; now is the tick's reading of the clock.
Due(now) ==
    {e \in Stored :
       /\ enrollments[e].status \in Scheduled
       /\ enrollments[e].nextRunIn <= now
       /\ enrollments[e].leaseToken # NoLease => enrollments[e].leaseExpiresIn <= now
       /\ enrollments[e].sequenceId \in DOMAIN definitions
       /\ definitions[enrollments[e].sequenceId].status = "active"}

Leased(e, c, now) ==
    [enrollments[e] EXCEPT !.status = "running", !.leaseToken = c, !.leaseExpiresIn = now + LeaseMs]

\* What an execution keeps of its claim; the times are not read again.
Job(e, c, now) ==
    [at |-> "executing", id |-> e, now |-> now,
     enrollment |-> [Leased(e, c, now) EXCEPT !.nextRunIn = 0, !.leaseExpiresIn = 0]]

ClaimDue(now) ==
    \E batch \in Heads(Due(now), [e \in Due(now) |-> enrollments[e].nextRunIn]) :
      /\ batch # {}
      /\ Cardinality(batch) = IF Cardinality(Due(now)) < Limit THEN Cardinality(Due(now)) ELSE Limit
      /\ Busy + Cardinality(batch) <= MaxBusy
      /\ \E execution \in [batch -> Executions \ Working] :
           /\ \A e, f \in batch : execution[e] = execution[f] => e = f
           /\ enrollments' = [e \in Stored |->
                IF e \in batch THEN Leased(e, execution[e], now) ELSE enrollments[e]]
           /\ jobs' = [c \in Executions |->
                IF \E e \in batch : execution[e] = c
                THEN Job(CHOOSE e \in batch : execution[e] = c, c, now)
                ELSE jobs[c]]
      /\ UNCHANGED <<definitions, reviews, sending>>

\* reconcile: expired leases are given up, up to a limit of the operator's.
Reconcile(now, limit) ==
    LET expired == {e \in Stored : /\ Active(e) /\ enrollments[e].leaseToken # NoLease
                                   /\ enrollments[e].leaseExpiresIn <= now}
    IN  \E recovered \in SUBSET expired :
          /\ recovered # {}
          /\ Cardinality(recovered) = IF Cardinality(expired) < limit THEN Cardinality(expired) ELSE limit
          /\ enrollments' = [e \in Stored |->
               IF e \in recovered
               THEN [enrollments[e] EXCEPT !.status = "pending", !.leaseToken = NoLease,
                                           !.leaseExpiresIn = 0, !.nextRunIn = now]
               ELSE enrollments[e]]
          /\ UNCHANGED <<definitions, jobs, reviews, sending>>

-----------------------------------------------------------------------------
(* What an execution makes of its enrollment n, claimed at the time now *)

WithoutLease(n) == [n EXCEPT !.leaseToken = NoLease, !.leaseExpiresIn = 0, !.updatedAt = 0]

Ended(n, status) == [WithoutLease(n) EXCEPT !.status = status, !.retryCount = 0]

AtStep(n, i, status, time) ==
    [WithoutLease(n) EXCEPT !.status = status, !.retryCount = 0, !.step = i, !.nextRunIn = time]

\* The enrollment moves to the next step, or is completed after the last one.
Following(n, status, time) ==
    IF n.step = Len(Steps(n)) THEN Ended(n, "completed") ELSE AtStep(n, n.step + 1, status, time)

Ambiguous(n) ==
    [WithoutLease(n) EXCEPT !.status = "ambiguous",
       !.updatedAt = CHOOSE u \in FreshUpdates : TRUE]

\* retryEnrollment, with jitter.
RetriesForever(n, now) ==
    {[WithoutLease(n) EXCEPT !.status = "pending", !.retryCount = @ + 1, !.nextRunIn = now + delay] :
       delay \in RetryDelay \div 2 .. RetryDelay}
Retries(n, now) ==
    IF n.retryCount + 1 >= MaxAttempts
    THEN {[WithoutLease(n) EXCEPT !.status = "failed", !.retryCount = @ + 1]}
    ELSE {[WithoutLease(n) EXCEPT !.status = "pending", !.retryCount = @ + 1, !.nextRunIn = now + delay] :
            delay \in RetryDelay \div 2 .. RetryDelay}

\* executeClaimedEnrollment for the steps that send nothing.
StepResults(n, now) ==
    CASE StepType(n) = "wait" -> {Following(n, "waiting", now + Steps(n)[n.step].duration)}
      [] StepType(n) = "wait_until" -> {Following(n, "waiting", 1), Following(n, "pending", now)}
      [] StepType(n) = "condition" -> {AtStep(n, i, "pending", now) : i \in Steps(n)[n.step].targets}
      [] StepType(n) = "stop" -> {Ended(n, "completed")}
      \* The stored sender is invalid, or the subscriber is gone, cannot receive or cannot be read.
      [] StepType(n) = "send" -> {Ended(n, "failed"), Ended(n, "cancelled")} \cup Retries(n, now)

\* executeSendStep after sendTransactionalMessage.
SendResults(n, now, answer) ==
    CASE answer = "accepted" -> {Following(n, "pending", now)}
      [] answer = "unknown" -> {Ambiguous(n)}
      [] answer = "pending" -> Retries(n, now)
      [] answer = "unreached" -> Retries(n, now) \cup {Ended(n, "cancelled")}
      [] answer \in {"failed", "conflict", "refused"} -> {Ended(n, "failed")}

-----------------------------------------------------------------------------
(* Executions *)

KeyOfEnrollment(c) == <<jobs[c].id, 1>>
KeyOf(c) == <<jobs[c].id, jobs[c].enrollment.step>>

\* executeSendStep reaches sendTransactionalMessage: the key is claimed, found taken or refused.
StartSend(c) ==
    /\ jobs[c].at = "executing" /\ StepType(jobs[c].enrollment) = "send"
    /\ \/ \E token \in ClaimTokens \ {reviews[o].token : o \in Reviewing} :
            Send!Claim(c, KeyOf(c), KeyOf(c), token)
       \/ Send!Replay(c, KeyOf(c), KeyOf(c))
       \/ Send!Refuse(c, KeyOf(c), KeyOf(c))
    /\ jobs' = [jobs EXCEPT ![c].at = "sending"]
    /\ UNCHANGED <<stored, reviews, delivered>>

Delivers(c, sent) == delivered' = IF sent THEN delivered \cup {KeyOf(c)} ELSE delivered

\* The request to Listmonk ends.
Dispatch(c, outcome, sent) ==
    /\ Send!Dispatch(c, outcome, sent)
    /\ Delivers(c, sent)
    /\ UNCHANGED <<stored, jobs, reviews>>

\* The outcome is stored in the idempotency record, or cannot be.
Persist(c, s) == Send!Persist(c, s) /\ UNCHANGED <<stored, jobs, reviews, delivered>>
PersistFails(c) == Send!PersistFails(c) /\ UNCHANGED <<stored, jobs, reviews, delivered>>

\* The execution knows what becomes of its enrollment.
Decided(c) ==
    \/ jobs[c].at = "executing"
    \/ jobs[c].at = "sending" /\ calls[c].at = "idle"

Results(c) ==
    LET j == jobs[c] IN
    IF j.at = "executing" THEN StepResults(j.enrollment, j.now)
    ELSE SendResults(j.enrollment, j.now, calls[c].answer)

EndJob(c) ==
    /\ jobs' = [jobs EXCEPT ![c] = IdleJob]
    /\ calls' = [calls EXCEPT ![c] = Send!IdleCall]

FencedByStatus(c) == jobs[c].id \in Stored /\ enrollments[jobs[c].id].status = "running"
\* The stored lease is still the one this execution was given.
Fenced(c) ==
    jobs[c].id \in Stored /\ enrollments[jobs[c].id].leaseToken = jobs[c].enrollment.leaseToken

\* completeClaim
CompleteClaim(c) ==
    /\ Decided(c) /\ Fenced(c)
    /\ \E next \in Results(c) : enrollments' = [enrollments EXCEPT ![jobs[c].id] = next]
    /\ EndJob(c)
    /\ UNCHANGED <<definitions, reviews, delivered, records, sends, confirmed>>

\* completeClaim finds that the lease was lost.
LoseClaim(c) ==
    /\ Decided(c) /\ ~Fenced(c)
    /\ EndJob(c)
    /\ UNCHANGED <<stored, reviews, delivered, records, sends, confirmed>>

\* completeClaim cannot lock or write the store: the lease stays until it expires.
CompletionFails(c) ==
    /\ Decided(c)
    /\ EndJob(c)
    /\ UNCHANGED <<stored, reviews, delivered, records, sends, confirmed>>

\* The process dies.
CrashBetween(c) ==
    /\ calls[c].at = "idle"
    /\ EndJob(c)
    /\ UNCHANGED <<stored, reviews, delivered, records, sends, confirmed>>
CrashDuringSend(c, sent) ==
    /\ Send!Crash(c, sent)
    /\ Delivers(c, sent)
    /\ jobs' = [jobs EXCEPT ![c] = IdleJob]
    /\ UNCHANGED <<stored, reviews>>
Crash(c) ==
    /\ jobs[c].at # "idle"
    /\ CrashBetween(c) \/ \E sent \in BOOLEAN : CrashDuringSend(c, sent)

-----------------------------------------------------------------------------
(* reconcileAmbiguousSequenceEnrollment *)

ReviewedKey(o) == <<reviews[o].id, reviews[o].enrollment.step>>

\* The enrollment is read; now is the operation's reading of the clock.
ReadEnrollment(o, e) ==
    /\ reviews[o].at = "idle" /\ Busy < MaxBusy
    /\ e \in Stored /\ enrollments[e].status = "ambiguous"
    /\ reviews' = [reviews EXCEPT ![o] =
         [at |-> "read", id |-> e, enrollment |-> enrollments[e], now |-> 0, resolution |-> "none",
          token |-> NoClaim, status |-> "none"]]
    /\ UNCHANGED <<stored, jobs, sending>>

\* What the stored status of the record allows an operator to decide.
Admissible(status, resolution) ==
    \/ status = "unknown"
    \/ status = "accepted" /\ resolution = "sent"
    \/ status = "failed" /\ resolution = "not_sent"

\* The record is loaded, expired or not.  Operators have checked whether the message was sent.
ReadRecord(o, resolution) ==
    LET k == ReviewedKey(o) IN
    /\ reviews[o].at = "read"
    /\ k \in DOMAIN records
    /\ Admissible(records[k].status, resolution)
    /\ resolution = "sent" <=> k \in delivered
    /\ reviews' = [reviews EXCEPT ![o].at = "decided", ![o].resolution = resolution,
                                  ![o].token = records[k].claimToken, ![o].status = records[k].status]
    /\ UNCHANGED <<stored, jobs, sending>>

StillAmbiguous(o) ==
    /\ reviews[o].id \in Stored
    /\ enrollments[reviews[o].id].status = "ambiguous"
\* The stored enrollment is the one that was read: ambiguous, and not updated since.
Unchanged(o) ==
    /\ StillAmbiguous(o)
    /\ enrollments[reviews[o].id].updatedAt = reviews[o].enrollment.updatedAt

\* resolveAmbiguous; an accepted record needs no further commit.
Resolve(o) ==
    LET r == reviews[o] IN
    /\ r.at = "decided" /\ Unchanged(o)
    /\ enrollments' = [enrollments EXCEPT ![r.id] =
         IF r.resolution = "sent" THEN Following(r.enrollment, "pending", r.now)
         ELSE AtStep(r.enrollment, r.enrollment.step, "pending", r.now)]
    /\ reviews' = [reviews EXCEPT ![o] =
         IF r.status = "accepted" THEN IdleReview ELSE [r EXCEPT !.at = "resolved"]]
    /\ confirmed' = IF r.resolution = "sent" THEN confirmed \cup {<<ReviewedKey(o), ReviewedKey(o)>>} ELSE confirmed
    /\ UNCHANGED <<definitions, jobs, delivered, records, calls, sends>>

\* The record follows: committed as accepted, or released so that the step can be sent again.
SettleRecord(o) ==
    LET r == reviews[o] IN
    /\ r.at = "resolved"
    /\ IF r.resolution = "sent" THEN Send!CommitRecord(ReviewedKey(o), r.token, "accepted", r.now)
       ELSE Send!ReleaseRecord(ReviewedKey(o), r.token, r.now)
    /\ reviews' = [reviews EXCEPT ![o] = IdleReview]
    /\ UNCHANGED <<stored, jobs, delivered, calls, sends, confirmed>>

\* A review ends early: refused, in conflict with another one, or its process fails.
StopReview(o) ==
    /\ reviews[o].at # "idle"
    /\ reviews' = [reviews EXCEPT ![o] = IdleReview]
    /\ UNCHANGED <<stored, jobs, sending>>

-----------------------------------------------------------------------------
\* Time passes.  A step reads its subscriber under the HTTP client's timeout and sends at once:
\* its lease may expire before that, but not a record's TTL (24 hours), and neither while the
\* outcome waits for the store's lock (30 seconds by default).  A review ends in MaxWait.
Tick ==
    /\ \A c \in Executions : jobs[c].at = "executing" => jobs[c].now >= -MaxWait
    /\ \A c \in Executions : calls[c].at = "persisting" => calls[c].age < TTL
    /\ \A o \in Reviewing : reviews[o].now > -MaxWait
    /\ Send!TimelyTick
    /\ enrollments' = [e \in Stored |->
         [enrollments[e] EXCEPT
            !.nextRunIn = IF enrollments[e].status \in Scheduled THEN Earlier(@) ELSE @,
            !.leaseExpiresIn = IF enrollments[e].leaseToken # NoLease THEN Earlier(@) ELSE @]]
    /\ jobs' = [c \in Executions |-> IF c \in Working THEN [jobs[c] EXCEPT !.now = Earlier(@)] ELSE jobs[c]]
    /\ reviews' = [o \in Operators |->
         IF o \in Reviewing THEN [reviews[o] EXCEPT !.now = Earlier(@)] ELSE reviews[o]]
    /\ UNCHANGED <<definitions, delivered>>

DefinitionStep ==
    \/ \E q \in Definitions : CreateDefinition(q) \/ UpdateDefinition(q) \/ DeleteDefinition(q)
    \/ \E q \in Definitions, status \in {"active", "paused"} : SetDefinitionStatus(q, status)

ReviewStep(o) ==
    \/ \E e \in EnrollmentIds : ReadEnrollment(o, e)
    \/ \E resolution \in Resolutions : ReadRecord(o, resolution)
    \/ Resolve(o)
    \/ SettleRecord(o)
    \/ StopReview(o)

ExecutionStep(c) ==
    \/ StartSend(c)
    \/ \E outcome \in Send!Outcomes, sent \in BOOLEAN : Dispatch(c, outcome, sent)
    \/ \E s \in ClockReadings : Persist(c, s)
    \/ PersistFails(c)
    \/ CompleteClaim(c)
    \/ LoseClaim(c)

Next ==
    \/ DefinitionStep
    \/ \E e \in EnrollmentIds, q \in Definitions, revision \in 1 .. Len(Plans), u \in Subscribers, start \in 0 .. 1 :
         Enroll(e, q, revision, u, start)
    \/ \E now \in ClockReadings : ClaimDue(now)
    \/ \E now \in ClockReadings, limit \in 1 .. 2 : Reconcile(now, limit)
    \/ \E c \in Executions : ExecutionStep(c) \/ CompletionFails(c) \/ Crash(c)
    \/ \E o \in Operators : ReviewStep(o)
    \/ Tick

Spec == Init /\ [][Next]_vars

-----------------------------------------------------------------------------
(* Properties *)

Definition == [status : {"active", "paused"}, currentRevision : 1 .. Len(Plans)]

\* Every variable holds a value of its kind; an enrollment is always at a step of its revision.
TypeOK ==
    /\ definitions \in [DOMAIN definitions -> Definition] /\ DOMAIN definitions \subseteq Definitions
    /\ Stored \subseteq EnrollmentIds
    /\ \A e \in Stored : enrollments[e] \in Enrollment /\ enrollments[e].step <= Len(Steps(enrollments[e]))
    /\ \A c \in Working : /\ jobs[c].at \in {"executing", "sending"} /\ jobs[c].id \in EnrollmentIds
                          /\ jobs[c].enrollment \in Enrollment
    /\ \A o \in Reviewing : /\ reviews[o].at \in {"read", "decided", "resolved"} /\ reviews[o].id \in EnrollmentIds
                            /\ reviews[o].enrollment \in Enrollment
    /\ delivered \subseteq SendKeys
    /\ Send!TypeOK

\* A step's message is sent at most once per window, whichever executions, crashes, retries and
\* reviews release its record or claim it again.
OncePerWindow == Send!SentOncePerWindow

\* Deleting a definition never takes along an enrollment that is not finished: an ambiguous send
\* keeps its enrollment until a review, and an execution finds its enrollment unless it was overtaken.
UnfinishedKept ==
    [][\A e \in Stored \ DOMAIN enrollments' :
          /\ ~Active(e)
          /\ \A c \in Working : jobs[c].id = e => ~Fenced(c)]_vars

Kept == Stored \cap DOMAIN enrollments'

\* An execution or review that has been overtaken never takes an enrollment back to an earlier
\* step, nor revives a finished one.
NeverBack ==
    [][\A e \in Kept : /\ enrollments'[e].step >= enrollments[e].step
                       /\ ~Active(e) => enrollments'[e] = enrollments[e]]_vars

LeavesStep(e) == enrollments'[e].step > enrollments[e].step \/ enrollments'[e].status = "completed"

\* An enrollment goes past a send step only when that step's message has been sent to it.
AdvancedWasSent ==
    [][\A e \in Kept : Active(e) /\ StepType(enrollments[e]) = "send" /\ LeavesStep(e) =>
          <<e, enrollments[e].step>> \in delivered]_vars

\* Nothing but a review moves an ambiguous enrollment, and only one that decided about the very
\* message that is ambiguous: a decision about an earlier step never settles a later one.
AmbiguousLeftByReview ==
    [][\A e \in Kept : enrollments[e].status = "ambiguous" /\ enrollments'[e] # enrollments[e] =>
          \E o \in Operators : /\ reviews[o].at = "decided" /\ reviews'[o] # reviews[o]
                               /\ ReviewedKey(o) = <<e, enrollments[e].step>>
                               /\ reviews[o].resolution = "sent" <=> LeavesStep(e)]_vars

\* packages/automation/README.md:232: ambiguous outcomes are durable and an operator's decision
\* ends them; for that the record of the send must still be there.
AmbiguousReconcilable ==
    \A e \in Stored : enrollments[e].status = "ambiguous" => <<e, enrollments[e].step>> \in DOMAIN records
=============================================================================
