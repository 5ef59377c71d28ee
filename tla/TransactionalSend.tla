------------------------- MODULE TransactionalSend -------------------------
(***************************************************************************)
(* sendTransactionalMessage of packages/operations (transactional.ts) with *)
(* an idempotency key: claim, dispatch to Listmonk, persist the outcome.   *)
(* Callers are processes; between the steps of one call the others run,    *)
(* time passes and the process may die.                                    *)
(***************************************************************************)
EXTENDS TransactionalStore

CONSTANTS
    Callers,
    NoKey, NoPayload, NoClaim,    \* absent values
    DispatchTime    \* longest time from the claim to the moment Listmonk processes the request

ASSUME DispatchAssumption ==
    /\ DispatchTime \in 0 .. TTL
    /\ NoClaim \notin ClaimTokens

VARIABLES
    calls,      \* per caller, the call it is in or the answer to its last one
    sends,      \* history: per key, the messages sent since the last quiet window
    confirmed   \* history: what Listmonk acknowledged as sent

vars == <<records, calls, sends, confirmed>>

Points == {"idle", "dispatching", "persisting"}
Outcomes == {"accepted", "failed", "unreached", "unknown"}
Answers == Outcomes \cup {"none", "conflict", "pending", "refused"}

Call == [at : Points, key : Keys \cup {NoKey}, payload : Payloads \cup {NoPayload},
         token : ClaimTokens \cup {NoClaim}, age : 0 .. TTL, answer : Answers]

IdleCall == [at |-> "idle", key |-> NoKey, payload |-> NoPayload, token |-> NoClaim,
             age |-> 0, answer |-> "none"]

\* The window in which a key stands for one message: its record's life without the time the
\* dispatch itself took.
Window == TTL - DispatchTime

NoSends == [count |-> 0, age |-> Window]

Init ==
    /\ records = NoRecords
    /\ calls = [c \in Callers |-> IdleCall]
    /\ sends = [k \in Keys |-> NoSends]
    /\ confirmed = {}

-----------------------------------------------------------------------------
FreshClaimTokens ==
    ClaimTokens \ ({records[k].claimToken : k \in DOMAIN records} \cup {calls[c].token : c \in Callers})

Answered(k, payload, answer) ==
    [at |-> "idle", key |-> k, payload |-> payload, token |-> NoClaim, age |-> 0, answer |-> answer]

Dispatching(k, payload, token) ==
    [at |-> "dispatching", key |-> k, payload |-> payload, token |-> token, age |-> 0, answer |-> "none"]

\* The key is free: the caller owns the dispatch.
Claim(c, k, payload, token) ==
    /\ calls[c].at = "idle"
    /\ token \in FreshClaimTokens
    /\ ClaimNew(k, payload, token)
    /\ calls' = [calls EXCEPT ![c] = Dispatching(k, payload, token)]
    /\ UNCHANGED <<sends, confirmed>>

\* The key is taken: a finished record is replayed, a pending or unknown one is reported for
\* reconciliation, another payload is a conflict.
Replay(c, k, payload) ==
    /\ calls[c].at = "idle"
    /\ ClaimExisting(k)
    /\ calls' = [calls EXCEPT ![c] = Answered(k, payload,
         IF Replayable(k, payload) THEN records[k].status ELSE "conflict")]
    /\ UNCHANGED <<sends, confirmed>>

\* The store is full.
Refuse(c, k, payload) ==
    /\ calls[c].at = "idle"
    /\ ClaimRefused(k)
    /\ calls' = [calls EXCEPT ![c] = Answered(k, payload, "refused")]
    /\ UNCHANGED <<sends, confirmed>>

Sent(k) ==
    [sends EXCEPT ![k] = [count |-> IF @.age >= Window THEN 1 ELSE IF @.count < 2 THEN @.count + 1 ELSE @.count,
                          age |-> 0]]

\* dispatchToListmonk: acknowledged as sent, acknowledged as not sent, refused before it reached
\* Listmonk (connection refused, unknown host, any 4xx), or failed with the message sent or not.
Dispatch(c, outcome, sent) ==
    /\ calls[c].at = "dispatching"
    /\ outcome = "accepted" => sent
    /\ outcome \in {"failed", "unreached"} => ~sent
    /\ calls' = [calls EXCEPT ![c].at = "persisting", ![c].answer = outcome]
    /\ sends' = IF sent THEN Sent(calls[c].key) ELSE sends
    /\ confirmed' = IF outcome = "accepted" THEN confirmed \cup {<<calls[c].key, calls[c].payload>>} ELSE confirmed
    /\ UNCHANGED records

NeverDefinitive(outcome) == outcome = "none"
ReleaseAlways(outcome) == outcome \in {"unreached", "unknown"}
\* isDefinitivePreDispatchError: only then may a retry dispatch again.
Definitive(outcome) == outcome = "unreached"

\* The call returns the outcome of its dispatch.
Return(c) ==
    calls' = [calls EXCEPT ![c] = Answered(calls[c].key, calls[c].payload, calls[c].answer)]

\* releaseBestEffort or commitBestEffort with the outcome of the dispatch.
Persist(c, s) ==
    /\ calls[c].at = "persisting"
    /\ IF Definitive(calls[c].answer)
       THEN ReleaseRecord(calls[c].key, calls[c].token, s)
       ELSE CommitRecord(calls[c].key, calls[c].token, calls[c].answer, s)
    /\ Return(c)
    /\ UNCHANGED <<sends, confirmed>>

\* The record cannot be persisted: the outcome is reported all the same.
PersistFails(c) ==
    /\ calls[c].at = "persisting"
    /\ Return(c)
    /\ UNCHANGED <<records, sends, confirmed>>

\* The process dies between two steps; a request on its way may still be processed.
Crash(c, sent) ==
    /\ calls[c].at # "idle"
    /\ sent => calls[c].at = "dispatching"
    /\ sends' = IF sent THEN Sent(calls[c].key) ELSE sends
    /\ calls' = [calls EXCEPT ![c] = IdleCall]
    /\ UNCHANGED <<records, confirmed>>

\* Time passes for records, calls and the history of sends.
Tick ==
    /\ records' = Aged
    /\ calls' = [c \in Callers |-> [calls[c] EXCEPT
         !.age = IF calls[c].at # "idle" /\ @ < TTL THEN @ + 1 ELSE @]]
    /\ sends' = [k \in Keys |->
         IF sends[k].age + 1 >= Window THEN NoSends ELSE [sends[k] EXCEPT !.age = @ + 1]]
    /\ UNCHANGED confirmed

Next ==
    \/ \E c \in Callers, k \in Keys, payload \in Payloads :
         \/ \E token \in ClaimTokens : Claim(c, k, payload, token)
         \/ Replay(c, k, payload)
         \/ Refuse(c, k, payload)
    \/ \E c \in Callers, outcome \in Outcomes, sent \in BOOLEAN : Dispatch(c, outcome, sent)
    \/ \E c \in Callers, s \in -MaxWait .. 0 : Persist(c, s)
    \/ \E c \in Callers : PersistFails(c) \/ \E sent \in BOOLEAN : Crash(c, sent)
    \/ Tick

Spec == Init /\ [][Next]_vars

(***************************************************************************)
(* The HTTP client gives a request up after its timeout (30 s by default)  *)
(* and never repeats a POST; the TTL is 24 hours.  So Listmonk processes   *)
(* the request of a claim within DispatchTime, if at all.                  *)
(***************************************************************************)
TimelyTick ==
    /\ \A c \in Callers : calls[c].at = "dispatching" => calls[c].age < DispatchTime
    /\ Tick

TimelyNext ==
    \/ \E c \in Callers, k \in Keys, payload \in Payloads :
         \/ \E token \in ClaimTokens : Claim(c, k, payload, token)
         \/ Replay(c, k, payload)
         \/ Refuse(c, k, payload)
    \/ \E c \in Callers, outcome \in Outcomes, sent \in BOOLEAN : Dispatch(c, outcome, sent)
    \/ \E c \in Callers, s \in -MaxWait .. 0 : Persist(c, s)
    \/ \E c \in Callers : PersistFails(c) \/ \E sent \in BOOLEAN : Crash(c, sent)
    \/ TimelyTick

TimelySpec == Init /\ [][TimelyNext]_vars

-----------------------------------------------------------------------------
(* Properties *)

\* Every variable holds a value of its kind; in particular only outcomes a record may have are stored.
TypeOK ==
    /\ DOMAIN records \subseteq Keys
    /\ records \in [DOMAIN records -> Record]
    /\ calls \in [Callers -> Call]
    /\ sends \in [Keys -> [count : 0 .. 2, age : Int]]
    /\ confirmed \subseteq Keys \X Payloads

\* However often a key is retried, concurrently, after failures to persist and after crashes,
\* Listmonk sends at most one message for it per window.
SentOncePerWindow == \A k \in Keys : sends[k].count <= 1

\* What a caller is told is true: only a payload that Listmonk acknowledged for the key is
\* reported as accepted, even when an older claim of the key is answered late.
AcceptedWasSent ==
    \A c \in Callers : calls[c].answer = "accepted" => <<calls[c].key, calls[c].payload>> \in confirmed

\* The store refuses new keys rather than exceed its limit or drop a record that has not expired.
LiveRecordsKept ==
    [][\A k \in DOMAIN records : records[k].expiresIn >= 0 /\ k \notin DOMAIN records' =>
          \E c \in Callers : /\ calls[c].key = k /\ calls[c].token = records[k].claimToken
                             /\ Definitive(calls[c].answer) /\ calls'[c] # calls[c]]_vars
=============================================================================
