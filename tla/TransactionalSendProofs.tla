----------------------- MODULE TransactionalSendProofs -----------------------
(***************************************************************************)
(* What holds of TransactionalSend for any number of callers, keys and     *)
(* tokens and any TTL, capacity and bound on waiting.                      *)
(*                                                                         *)
(* Inv is inductive for every behaviour; Protected adds what holds when    *)
(* dispatches end in time (TimelySpec).                                    *)
(***************************************************************************)
EXTENDS TransactionalSend, TLAPS

Busy(c) == calls[c].at # "idle"

RecordsOK ==
    /\ DOMAIN records \subseteq Keys
    /\ records \in [DOMAIN records -> Record]

CallsOK ==
    /\ calls \in [Callers -> Call]
    /\ \A c \in Callers : Busy(c) =>
         /\ calls[c].key \in Keys
         /\ calls[c].payload \in Payloads
         /\ calls[c].token \in ClaimTokens
    /\ \A c \in Callers : calls[c].at = "persisting" => calls[c].answer \in Outcomes
    /\ \A c \in Callers : calls[c].at = "dispatching" => calls[c].answer = "none"

SendsOK ==
    /\ sends \in [Keys -> [count : 0 .. 2, age : Int]]
    /\ \A k \in Keys : sends[k].age >= 0
    /\ confirmed \subseteq Keys \X Payloads

\* The record of a claim holds what its caller asked for.
ClaimBinds ==
    \A c \in Callers : \A k \in DOMAIN records :
        Busy(c) /\ records[k].claimToken = calls[c].token =>
            k = calls[c].key /\ records[k].payload = calls[c].payload

\* No two calls hold the same token.
TokensDiffer ==
    \A c, d \in Callers : Busy(c) /\ Busy(d) /\ calls[c].token = calls[d].token => c = d

\* What a later call may replay was acknowledged.
AcceptedRecordWasSent ==
    \A k \in DOMAIN records :
        records[k].status = "accepted" => <<k, records[k].payload>> \in confirmed

Inv == RecordsOK /\ CallsOK /\ SendsOK /\ ClaimBinds /\ TokensDiffer
       /\ AcceptedRecordWasSent /\ AcceptedWasSent

\* A dispatch is covered by the live record of its claim until it must have ended, and
\* nothing has been sent for the key.
DispatchCovered ==
    \A c \in Callers : calls[c].at = "dispatching" =>
        /\ calls[c].age <= DispatchTime
        /\ calls[c].key \in DOMAIN records
        /\ records[calls[c].key].claimToken = calls[c].token
        /\ records[calls[c].key].expiresIn = TTL - calls[c].age
        /\ sends[calls[c].key].count = 0 \/ sends[calls[c].key].age >= Window

\* The record of a key that was sent outlives the window, and no call may release it.
KeyProtected(k) ==
    /\ k \in DOMAIN records
    /\ records[k].expiresIn + sends[k].age >= Window
    /\ \A c \in Callers : Busy(c) /\ calls[c].token = records[k].claimToken =>
         calls[c].at = "persisting" /\ ~Definitive(calls[c].answer)

SentProtected ==
    \A k \in Keys :
        \/ sends[k].count = 0
        \/ sends[k].count = 1 /\ (sends[k].age >= Window \/ KeyProtected(k))

Protected == DispatchCovered /\ SentProtected

-----------------------------------------------------------------------------
(* What the operations of the store do to its records *)

USE TransactionalAssumption, DispatchAssumption

\* Sweeping keeps records as they are (sweepExpiredRecords).
LEMMA SweptRecords ==
    ASSUME RecordsOK, NEW s \in Int
    PROVE  /\ DOMAIN Swept(s) \subseteq DOMAIN records
           /\ \A k \in DOMAIN Swept(s) : Swept(s)[k] = records[k]
           /\ \A k \in DOMAIN records : records[k].expiresIn >= s => k \in DOMAIN Swept(s)
           /\ \A k \in DOMAIN records : records[k] \in Record
BY DEF Swept, UnexpiredAt, RecordsOK

\* A claim of a free key adds its record and sweeps (claimTransactionalSend).
LEMMA ClaimedRecords ==
    ASSUME RecordsOK, NEW k \in Keys, NEW payload \in Payloads, NEW token \in ClaimTokens,
           ClaimNew(k, payload, token)
    PROVE  /\ RecordsOK'
           /\ k \in DOMAIN records'
           /\ records'[k] = [payload |-> payload, status |-> "pending", claimToken |-> token, expiresIn |-> TTL]
           /\ \A x \in DOMAIN records' \ {k} : x \in DOMAIN records /\ records'[x] = records[x]
           /\ \A x \in DOMAIN records : records[x].expiresIn >= 0 => x # k /\ x \in DOMAIN records'
<1>1. records' = [x \in UnexpiredAt(0) \cup {k} |->
         IF x = k THEN [payload |-> payload, status |-> "pending", claimToken |-> token, expiresIn |-> TTL]
         ELSE records[x]]
    BY DEF ClaimNew
<1>2. k \notin UnexpiredAt(0)
    BY DEF ClaimNew, Fresh
<1>3. [payload |-> payload, status |-> "pending", claimToken |-> token, expiresIn |-> TTL] \in Record
    BY DEF Record, Statuses
<1>4. UnexpiredAt(0) \subseteq DOMAIN records /\ \A x \in UnexpiredAt(0) : records[x] \in Record
    BY DEF UnexpiredAt, RecordsOK
<1>5. RecordsOK'
    BY <1>1, <1>3, <1>4 DEF RecordsOK
<1> QED
    BY <1>1, <1>2, <1>4, <1>5 DEF UnexpiredAt

\* A commit changes the status of the record of its claim only, and sweeps.
LEMMA CommittedRecords ==
    ASSUME RecordsOK, NEW k \in Keys, NEW token \in ClaimTokens, NEW status \in Statuses, NEW s \in Int,
           CommitRecord(k, token, status, s)
    PROVE  /\ RecordsOK'
           /\ \A x \in DOMAIN records' :
                /\ x \in DOMAIN records
                /\ records'[x].payload = records[x].payload
                /\ records'[x].claimToken = records[x].claimToken
                /\ records'[x].expiresIn = records[x].expiresIn
                /\ \/ records'[x].status = records[x].status
                   \/ x = k /\ records[k].claimToken = token /\ records'[x].status = status
           /\ \A x \in DOMAIN records : records[x].expiresIn >= s => x \in DOMAIN records'
<1>1. CASE OwnsClaim(k, token, s)
    <2>1. records' = [Swept(s) EXCEPT ![k].status = status]
        BY <1>1 DEF CommitRecord
    <2>2. k \in UnexpiredAt(s) /\ records[k].claimToken = token
        BY <1>1 DEF OwnsClaim
    <2>3. DOMAIN Swept(s) = UnexpiredAt(s) /\ \A x \in UnexpiredAt(s) : Swept(s)[x] = records[x]
        BY DEF Swept
    <2>4. DOMAIN records' = UnexpiredAt(s)
        BY <2>1, <2>3
    <2>5. \A x \in UnexpiredAt(s) : records'[x] = IF x = k THEN [records[k] EXCEPT !.status = status] ELSE records[x]
        BY <2>1, <2>2, <2>3
    <2>6. UnexpiredAt(s) \subseteq DOMAIN records /\ \A x \in UnexpiredAt(s) : records[x] \in Record
        BY DEF UnexpiredAt, RecordsOK
    <2>7. [records[k] EXCEPT !.status = status] \in Record
        BY <2>2, <2>6 DEF Record
    <2>8. records' \in [DOMAIN records' -> Record]
        <3>1. records' = [x \in UnexpiredAt(s) |-> records'[x]]
            BY <2>1, <2>3
        <3> QED
            BY <3>1, <2>4, <2>5, <2>6, <2>7
    <2>9. \A x \in DOMAIN records' :
            /\ records'[x].payload = records[x].payload
            /\ records'[x].claimToken = records[x].claimToken
            /\ records'[x].expiresIn = records[x].expiresIn
            /\ records'[x].status = IF x = k THEN status ELSE records[x].status
        BY <2>2, <2>4, <2>5, <2>6 DEF Record
    <2> QED
        BY <2>2, <2>4, <2>6, <2>8, <2>9 DEF RecordsOK, UnexpiredAt
<1>2. CASE ~OwnsClaim(k, token, s)
    <2>1. records' = Swept(s)
        BY <1>2 DEF CommitRecord
    <2> QED
        BY <2>1, SweptRecords DEF RecordsOK, Swept, UnexpiredAt
<1> QED
    BY <1>1, <1>2

\* A release removes the record of its claim only, and sweeps.
LEMMA ReleasedRecords ==
    ASSUME RecordsOK, NEW k \in Keys, NEW token \in ClaimTokens, NEW s \in Int, ReleaseRecord(k, token, s)
    PROVE  /\ RecordsOK'
           /\ \A x \in DOMAIN records' : x \in DOMAIN records /\ records'[x] = records[x]
           /\ \A x \in DOMAIN records :
                records[x].expiresIn >= s =>
                    x \in DOMAIN records' \/ (x = k /\ records[k].claimToken = token)
BY DEF ReleaseRecord, OwnsClaim, Swept, UnexpiredAt, RecordsOK

\* Time changes expiries only.
LEMMA AgedRecords ==
    ASSUME RecordsOK, records' = Aged
    PROVE  /\ RecordsOK'
           /\ DOMAIN records' = DOMAIN records
           /\ \A x \in DOMAIN records :
                /\ records'[x].payload = records[x].payload
                /\ records'[x].status = records[x].status
                /\ records'[x].claimToken = records[x].claimToken
                /\ records[x].expiresIn >= 0 => records'[x].expiresIn = records[x].expiresIn - 1
<1>1. DOMAIN records' = DOMAIN records
    BY DEF Aged
<1>2. ASSUME NEW x \in DOMAIN records
      PROVE  /\ records[x] \in Record
             /\ records'[x] = [records[x] EXCEPT !.expiresIn = IF @ >= -MaxWait THEN @ - 1 ELSE @]
    BY DEF Aged, RecordsOK
<1>3. ASSUME NEW x \in DOMAIN records
      PROVE  /\ records'[x] \in Record
             /\ records'[x].payload = records[x].payload
             /\ records'[x].status = records[x].status
             /\ records'[x].claimToken = records[x].claimToken
             /\ records[x].expiresIn >= 0 => records'[x].expiresIn = records[x].expiresIn - 1
    <2> DEFINE n == IF records[x].expiresIn >= -MaxWait THEN records[x].expiresIn - 1
                    ELSE records[x].expiresIn
    <2>1. records[x] \in Record
        BY <1>2
    <2>2. records'[x] = [records[x] EXCEPT !.expiresIn = n]
        BY <1>2
    <2>3. n \in Int /\ (records[x].expiresIn >= 0 => n = records[x].expiresIn - 1)
        BY <2>1 DEF Record
    <2> HIDE DEF n
    <2> QED
        BY <2>1, <2>2, <2>3 DEF Record
<1>4. records' = [x \in DOMAIN records' |-> records'[x]]
    BY <1>1 DEF Aged
<1> QED
    BY <1>1, <1>3, <1>4 DEF RecordsOK

-----------------------------------------------------------------------------
(* What a step does to the calls and to the history *)

\* One call changes to a value that is consistent in itself.
LEMMA CallChanged ==
    ASSUME CallsOK, NEW c \in Callers, NEW new \in Call,
           calls' = [calls EXCEPT ![c] = new],
           new.at # "idle" => /\ new.key \in Keys
                              /\ new.payload \in Payloads
                              /\ new.token \in ClaimTokens,
           new.at = "persisting" => new.answer \in Outcomes,
           new.at = "dispatching" => new.answer = "none"
    PROVE  /\ CallsOK'
           /\ calls'[c] = new
           /\ \A d \in Callers : d # c => calls'[d] = calls[d]
BY DEF CallsOK, Busy

\* The answered call is idle and holds no token.
LEMMA AnsweredCall ==
    ASSUME NEW k \in Keys, NEW payload \in Payloads, NEW answer \in Answers
    PROVE  /\ Answered(k, payload, answer) \in Call
           /\ Answered(k, payload, answer).at = "idle"
           /\ Answered(k, payload, answer).key = k
           /\ Answered(k, payload, answer).payload = payload
           /\ Answered(k, payload, answer).answer = answer
BY DEF Answered, Call, Points

\* A call that returns.
LEMMA CallReturns ==
    ASSUME CallsOK, NEW c \in Callers, NEW k \in Keys, NEW payload \in Payloads, NEW answer \in Answers,
           calls' = [calls EXCEPT ![c] = Answered(k, payload, answer)]
    PROVE  /\ CallsOK'
           /\ calls'[c] = Answered(k, payload, answer)
           /\ \A d \in Callers : d # c => calls'[d] = calls[d]
<1> DEFINE new == Answered(k, payload, answer)
<1>1. new \in Call /\ new.at = "idle"
    BY AnsweredCall
<1> HIDE DEF new
<1>2. calls' = [calls EXCEPT ![c] = new]
    BY DEF new
<1>3. CallsOK' /\ calls'[c] = new /\ \A d \in Callers : d # c => calls'[d] = calls[d]
    BY <1>1, <1>2, CallChanged
<1> QED
    BY <1>3 DEF new

\* Calls that stay busy keep what they ask for, and records what they hold.
LEMMA BindingKept ==
    ASSUME ClaimBinds, TokensDiffer,
           \A x \in DOMAIN records' :
               /\ x \in DOMAIN records
               /\ records'[x].claimToken = records[x].claimToken
               /\ records'[x].payload = records[x].payload,
           \A d \in Callers : calls'[d].at # "idle" =>
               /\ Busy(d)
               /\ calls'[d].key = calls[d].key
               /\ calls'[d].payload = calls[d].payload
               /\ calls'[d].token = calls[d].token
    PROVE  ClaimBinds' /\ TokensDiffer'
BY DEF ClaimBinds, TokensDiffer, Busy

\* The history counts a message and starts its window.
LEMMA SentOnceMore ==
    ASSUME SendsOK, NEW k \in Keys, sends' = Sent(k)
    PROVE  /\ sends' \in [Keys -> [count : 0 .. 2, age : Int]]
           /\ \A x \in Keys : sends'[x].age >= 0
           /\ sends'[k].age = 0
           /\ sends[k].count = 0 \/ sends[k].age >= Window => sends'[k].count = 1
           /\ \A x \in Keys : x # k => sends'[x] = sends[x]
<1> DEFINE n == IF sends[k].age >= Window THEN 1
                ELSE IF sends[k].count < 2 THEN sends[k].count + 1 ELSE sends[k].count
<1>1. sends' = [sends EXCEPT ![k] = [count |-> n, age |-> 0]]
    BY DEF Sent
<1>2. sends[k].count \in 0 .. 2 /\ sends[k].age \in Int /\ Window \in Int
    BY DEF SendsOK, Window
<1>3. n \in 0 .. 2 /\ (sends[k].count = 0 \/ sends[k].age >= Window => n = 1)
    BY <1>2
<1> HIDE DEF n
<1> QED
    BY <1>1, <1>3 DEF SendsOK

-----------------------------------------------------------------------------
(* Inv is inductive *)

LEMMA InitInv == Init => Inv
<1> SUFFICES ASSUME Init PROVE Inv
    OBVIOUS
<1>1. RecordsOK
    BY DEF Init, NoRecords, RecordsOK
<1>2. IdleCall \in Call
    BY DEF IdleCall, Call, Points, Answers, Outcomes
<1>3. CallsOK
    BY <1>2 DEF Init, CallsOK, Busy, IdleCall
<1>4. SendsOK
    BY DEF Init, SendsOK, NoSends, Window
<1> QED
    BY <1>1, <1>3, <1>4 DEF Init, Inv, Busy, IdleCall, ClaimBinds, TokensDiffer,
       AcceptedRecordWasSent, AcceptedWasSent, NoRecords

(* A claim stores a record under a token nobody holds, after the sweep of expired ones. *)
LEMMA ClaimInv ==
    ASSUME Inv, NEW c \in Callers, NEW k \in Keys, NEW payload \in Payloads, NEW token \in ClaimTokens,
           Claim(c, k, payload, token)
    PROVE  Inv'
<1> DEFINE new == Dispatching(k, payload, token)
<1>1. /\ RecordsOK'
      /\ records'[k] = [payload |-> payload, status |-> "pending", claimToken |-> token, expiresIn |-> TTL]
      /\ \A x \in DOMAIN records' \ {k} : x \in DOMAIN records /\ records'[x] = records[x]
    BY ClaimedRecords DEF Inv, Claim
<1>2. /\ new \in Call /\ new.at = "dispatching" /\ new.key = k /\ new.payload = payload
      /\ new.token = token /\ new.answer = "none"
    BY DEF Dispatching, Call, Points, Answers
<1>3. calls' = [calls EXCEPT ![c] = new] /\ UNCHANGED <<sends, confirmed>>
    BY DEF Claim
<1> HIDE DEF new
<1>4. CallsOK' /\ calls'[c] = new /\ \A d \in Callers : d # c => calls'[d] = calls[d]
    BY <1>2, <1>3, CallChanged DEF Inv
<1>5. /\ \A x \in DOMAIN records : records[x].claimToken # token
      /\ \A d \in Callers : calls[d].token # token
    BY DEF Claim, FreshClaimTokens
<1>6. ClaimBinds'
    BY <1>1, <1>2, <1>4, <1>5 DEF Inv, ClaimBinds, Busy
<1>7. TokensDiffer'
    BY <1>2, <1>4, <1>5 DEF Inv, TokensDiffer, Busy
<1>8. AcceptedRecordWasSent'
    BY <1>1, <1>3 DEF Inv, AcceptedRecordWasSent
<1>9. AcceptedWasSent'
    BY <1>2, <1>3, <1>4 DEF Inv, AcceptedWasSent
<1> QED
    BY <1>1, <1>3, <1>4, <1>6, <1>7, <1>8, <1>9 DEF Inv, SendsOK

(* A replay answers from the record it found, when that one was accepted. *)
LEMMA ReplayInv ==
    ASSUME Inv, NEW c \in Callers, NEW k \in Keys, NEW payload \in Payloads, Replay(c, k, payload)
    PROVE  Inv'
<1> DEFINE answer == IF Replayable(k, payload) THEN records[k].status ELSE "conflict"
<1>1. /\ DOMAIN records' \subseteq DOMAIN records
      /\ \A x \in DOMAIN records' : records'[x] = records[x] /\ records[x] \in Record
      /\ RecordsOK'
    <2>1. records' = Swept(0)
        BY DEF Replay, ClaimExisting
    <2> QED
        BY <2>1, SweptRecords DEF Inv, RecordsOK, Swept, UnexpiredAt
<1>2. answer \in Answers
    <2>1. k \in UnexpiredAt(0) => records[k] \in Record
        BY SweptRecords DEF Inv, UnexpiredAt
    <2> QED
        BY <2>1 DEF Replayable, Answers, Outcomes, Record, Statuses
<1>3. answer = "accepted" => <<k, payload>> \in confirmed
    BY DEF Inv, Replayable, UnexpiredAt, AcceptedRecordWasSent
<1>4. calls' = [calls EXCEPT ![c] = Answered(k, payload, answer)] /\ UNCHANGED <<sends, confirmed>>
    BY DEF Replay
<1> HIDE DEF answer
<1>5. /\ CallsOK' /\ calls'[c] = Answered(k, payload, answer)
      /\ \A d \in Callers : d # c => calls'[d] = calls[d]
    BY <1>2, <1>4, CallReturns DEF Inv
<1>6. ClaimBinds' /\ TokensDiffer'
    BY <1>1, <1>2, <1>5, AnsweredCall, BindingKept DEF Inv, Busy
<1>7. AcceptedRecordWasSent'
    BY <1>1, <1>4 DEF Inv, AcceptedRecordWasSent
<1>8. AcceptedWasSent'
    BY <1>2, <1>3, <1>4, <1>5, AnsweredCall DEF Inv, AcceptedWasSent
<1> QED
    BY <1>1, <1>4, <1>5, <1>6, <1>7, <1>8 DEF Inv, SendsOK

(* A conflict, a pending record or a full store answers without a dispatch. *)
LEMMA RefuseInv ==
    ASSUME Inv, NEW c \in Callers, NEW k \in Keys, NEW payload \in Payloads, Refuse(c, k, payload)
    PROVE  Inv'
<1>1. UNCHANGED <<records, sends, confirmed>>
    BY DEF Refuse, ClaimRefused
<1>2. calls' = [calls EXCEPT ![c] = Answered(k, payload, "refused")] /\ "refused" \in Answers
    BY DEF Refuse, Answers
<1>3. /\ CallsOK' /\ calls'[c] = Answered(k, payload, "refused")
      /\ \A d \in Callers : d # c => calls'[d] = calls[d]
    BY <1>2, CallReturns DEF Inv
<1>4. ClaimBinds' /\ TokensDiffer'
    BY <1>1, <1>2, <1>3, AnsweredCall, BindingKept DEF Inv, Busy
<1>5. AcceptedWasSent'
    BY <1>1, <1>2, <1>3, AnsweredCall DEF Inv, AcceptedWasSent
<1> QED
    BY <1>1, <1>3, <1>4, <1>5 DEF Inv, RecordsOK, SendsOK, AcceptedRecordWasSent

(* The answer of Listmonk to the request of a call. *)
LEMMA DispatchInv ==
    ASSUME Inv, NEW c \in Callers, NEW outcome \in Outcomes, NEW sent \in BOOLEAN,
           Dispatch(c, outcome, sent)
    PROVE  Inv'
<1> DEFINE new == [calls[c] EXCEPT !.at = "persisting", !.answer = outcome]
<1>1. /\ calls[c] \in Call /\ calls[c].at = "dispatching"
      /\ calls[c].key \in Keys /\ calls[c].payload \in Payloads /\ calls[c].token \in ClaimTokens
    BY DEF Inv, CallsOK, Busy, Dispatch
<1>2. /\ new \in Call /\ new.at = "persisting" /\ new.answer = outcome
      /\ new.key = calls[c].key /\ new.payload = calls[c].payload /\ new.token = calls[c].token
    BY <1>1 DEF Call, Points, Answers
<1>3. calls' = [calls EXCEPT ![c] = new] /\ UNCHANGED records
    BY <1>1 DEF Dispatch, Inv, CallsOK
<1> HIDE DEF new
<1>4. CallsOK' /\ calls'[c] = new /\ \A d \in Callers : d # c => calls'[d] = calls[d]
    BY <1>1, <1>2, <1>3, CallChanged DEF Inv
<1>5. SendsOK'
    BY <1>1, SentOnceMore DEF Dispatch, Inv, SendsOK
<1>6. ClaimBinds' /\ TokensDiffer'
    BY <1>1, <1>2, <1>3, <1>4, BindingKept DEF Inv, Busy
<1>7. confirmed \subseteq confirmed' /\ (outcome = "accepted" => <<calls[c].key, calls[c].payload>> \in confirmed')
    BY DEF Dispatch
<1>8. AcceptedRecordWasSent'
    BY <1>3, <1>7 DEF Inv, AcceptedRecordWasSent
<1>9. AcceptedWasSent'
    BY <1>2, <1>4, <1>7 DEF Inv, AcceptedWasSent
<1> QED
    BY <1>3, <1>4, <1>5, <1>6, <1>8, <1>9 DEF Inv, RecordsOK

\* The call that persists or gives up persisting returns what it had to report.
LEMMA PersistingReturns ==
    ASSUME Inv, NEW c \in Callers, calls[c].at = "persisting", Return(c),
           UNCHANGED <<sends, confirmed>>
    PROVE  /\ calls[c].key \in Keys /\ calls[c].payload \in Payloads /\ calls[c].answer \in Outcomes
           /\ calls[c].token \in ClaimTokens
           /\ CallsOK' /\ SendsOK' /\ AcceptedWasSent'
           /\ calls'[c].at = "idle"
           /\ \A d \in Callers : d # c => calls'[d] = calls[d]
<1>1. /\ calls[c].key \in Keys /\ calls[c].payload \in Payloads /\ calls[c].answer \in Outcomes
      /\ calls[c].token \in ClaimTokens
    BY DEF Inv, CallsOK, Busy
<1>2. calls[c].answer \in Answers
    BY <1>1 DEF Answers
<1>3. /\ CallsOK' /\ calls'[c] = Answered(calls[c].key, calls[c].payload, calls[c].answer)
      /\ \A d \in Callers : d # c => calls'[d] = calls[d]
    BY <1>1, <1>2, CallReturns DEF Inv, Return
<1>4. AcceptedWasSent'
    BY <1>1, <1>2, <1>3, AnsweredCall DEF Inv, AcceptedWasSent
<1> QED
    BY <1>1, <1>2, <1>3, <1>4, AnsweredCall DEF Inv, SendsOK

(* The outcome is committed, or the key released, if the record is still the call's. *)
LEMMA PersistInv ==
    ASSUME Inv, NEW c \in Callers, NEW s \in -MaxWait .. 0, Persist(c, s)
    PROVE  Inv'
<1>1. /\ calls[c].key \in Keys /\ calls[c].payload \in Payloads /\ calls[c].answer \in Outcomes
      /\ calls[c].token \in ClaimTokens
      /\ CallsOK' /\ SendsOK' /\ AcceptedWasSent'
      /\ calls'[c].at = "idle"
      /\ \A d \in Callers : d # c => calls'[d] = calls[d]
    BY PersistingReturns DEF Persist
<1>2. s \in Int /\ UNCHANGED confirmed /\ Busy(c)
    BY DEF Persist, Busy
<1>3. CASE Definitive(calls[c].answer)
    <2>1. ReleaseRecord(calls[c].key, calls[c].token, s)
        BY <1>3 DEF Persist
    <2>2. RecordsOK' /\ \A x \in DOMAIN records' : x \in DOMAIN records /\ records'[x] = records[x]
        BY <1>1, <1>2, <2>1, ReleasedRecords DEF Inv
    <2>3. ClaimBinds' /\ TokensDiffer'
        BY <1>1, <2>2, BindingKept DEF Inv, Busy
    <2>4. AcceptedRecordWasSent'
        BY <1>2, <2>2 DEF Inv, AcceptedRecordWasSent
    <2> QED
        BY <1>1, <2>2, <2>3, <2>4 DEF Inv
<1>4. CASE ~Definitive(calls[c].answer)
    <2> DEFINE k == calls[c].key
               token == calls[c].token
               status == calls[c].answer
    <2>1. k \in Keys /\ token \in ClaimTokens /\ status \in Statuses
        BY <1>1, <1>4 DEF Outcomes, Statuses, Definitive
    <2>2. CommitRecord(k, token, status, s)
        BY <1>4 DEF Persist
    <2> HIDE DEF k, token, status
    <2>3. /\ RecordsOK'
          /\ \A x \in DOMAIN records' :
               /\ x \in DOMAIN records
               /\ records'[x].claimToken = records[x].claimToken
               /\ records'[x].payload = records[x].payload
               /\ \/ records'[x].status = records[x].status
                  \/ x = k /\ records[k].claimToken = token /\ records'[x].status = status
        BY <1>2, <2>1, <2>2, CommittedRecords DEF Inv
    <2>4. ClaimBinds' /\ TokensDiffer'
        BY <1>1, <2>3, BindingKept DEF Inv, Busy
    <2>5. status = "accepted" /\ k \in DOMAIN records /\ records[k].claimToken = token =>
            <<k, records[k].payload>> \in confirmed
        BY <1>2 DEF Inv, ClaimBinds, AcceptedWasSent, k, token, status
    <2>6. AcceptedRecordWasSent'
        BY <1>2, <2>3, <2>5 DEF Inv, AcceptedRecordWasSent
    <2> QED
        BY <1>1, <2>3, <2>4, <2>6 DEF Inv
<1> QED
    BY <1>3, <1>4

(* The store fails, the caller learns that the outcome is not stored. *)
LEMMA PersistFailsInv ==
    ASSUME Inv, NEW c \in Callers, PersistFails(c)
    PROVE  Inv'
<1>1. /\ CallsOK' /\ SendsOK' /\ AcceptedWasSent'
      /\ calls'[c].at = "idle"
      /\ \A d \in Callers : d # c => calls'[d] = calls[d]
    BY PersistingReturns DEF PersistFails
<1>2. UNCHANGED <<records, confirmed>>
    BY DEF PersistFails
<1>3. ClaimBinds' /\ TokensDiffer'
    BY <1>1, <1>2, BindingKept DEF Inv, Busy
<1> QED
    BY <1>1, <1>2, <1>3 DEF Inv, RecordsOK, AcceptedRecordWasSent

(* A process dies with its call; its record stays. *)
LEMMA CrashInv ==
    ASSUME Inv, NEW c \in Callers, NEW sent \in BOOLEAN, Crash(c, sent)
    PROVE  Inv'
<1>1. calls[c].key \in Keys /\ UNCHANGED <<records, confirmed>> /\ calls' = [calls EXCEPT ![c] = IdleCall]
    BY DEF Inv, CallsOK, Busy, Crash
<1>2. IdleCall \in Call /\ IdleCall.at = "idle" /\ IdleCall.answer = "none"
    BY DEF IdleCall, Call, Points, Answers
<1>3. CallsOK' /\ calls'[c] = IdleCall /\ \A d \in Callers : d # c => calls'[d] = calls[d]
    BY <1>1, <1>2, CallChanged DEF Inv
<1>4. SendsOK'
    BY <1>1, SentOnceMore DEF Crash, Inv, SendsOK
<1>5. ClaimBinds' /\ TokensDiffer'
    BY <1>1, <1>2, <1>3, BindingKept DEF Inv, Busy
<1>6. AcceptedWasSent'
    BY <1>1, <1>2, <1>3 DEF Inv, AcceptedWasSent
<1> QED
    BY <1>1, <1>3, <1>4, <1>5, <1>6 DEF Inv, RecordsOK, AcceptedRecordWasSent

(* Time passes for every record and every window. *)
LEMMA TickInv ==
    ASSUME Inv, Tick
    PROVE  Inv'
<1>1. /\ RecordsOK'
      /\ DOMAIN records' = DOMAIN records
      /\ \A x \in DOMAIN records :
           /\ records'[x].payload = records[x].payload
           /\ records'[x].status = records[x].status
           /\ records'[x].claimToken = records[x].claimToken
    BY AgedRecords DEF Inv, Tick
<1>2. ASSUME NEW c \in Callers
      PROVE  /\ calls'[c] \in Call
             /\ calls'[c].at = calls[c].at /\ calls'[c].key = calls[c].key
             /\ calls'[c].payload = calls[c].payload /\ calls'[c].token = calls[c].token
             /\ calls'[c].answer = calls[c].answer
    <2> DEFINE n == IF calls[c].at # "idle" /\ calls[c].age < TTL THEN calls[c].age + 1 ELSE calls[c].age
    <2>1. calls[c] \in Call
        BY DEF Inv, CallsOK
    <2>2. calls'[c] = [calls[c] EXCEPT !.age = n]
        BY DEF Tick
    <2>3. n \in 0 .. TTL
        BY <2>1 DEF Call
    <2> HIDE DEF n
    <2> QED
        BY <2>1, <2>2, <2>3 DEF Call
<1>3. calls' \in [Callers -> Call]
    <2>1. calls' = [c \in Callers |-> calls'[c]]
        BY DEF Tick
    <2> QED
        BY <1>2, <2>1
<1>4. CallsOK'
    BY <1>2, <1>3 DEF Inv, CallsOK, Busy
<1>5. SendsOK'
    <2>1. ASSUME NEW k \in Keys
          PROVE  sends'[k] \in [count : 0 .. 2, age : Int] /\ sends'[k].age >= 0
        <3>1. sends[k] \in [count : 0 .. 2, age : Int] /\ sends[k].age >= 0 /\ Window \in Nat
            BY DEF Inv, SendsOK, Window
        <3>2. sends'[k] = IF sends[k].age + 1 >= Window THEN NoSends
                          ELSE [sends[k] EXCEPT !.age = sends[k].age + 1]
            BY DEF Tick
        <3>3. CASE sends[k].age + 1 >= Window
            BY <3>1, <3>2, <3>3 DEF NoSends
        <3>4. CASE ~(sends[k].age + 1 >= Window)
            <4> DEFINE n == sends[k].age + 1
            <4>1. sends'[k] = [sends[k] EXCEPT !.age = n] /\ n \in Int /\ n >= 0
                BY <3>1, <3>2, <3>4
            <4> HIDE DEF n
            <4> QED
                BY <3>1, <4>1
        <3> QED
            BY <3>3, <3>4
    <2>2. sends' = [k \in Keys |-> sends'[k]] /\ UNCHANGED confirmed
        BY DEF Tick
    <2> QED
        BY <2>1, <2>2 DEF Inv, SendsOK
<1>6. ClaimBinds' /\ TokensDiffer'
    BY <1>1, <1>2, BindingKept DEF Inv, Busy
<1>7. UNCHANGED confirmed
    BY DEF Tick
<1>8. AcceptedRecordWasSent'
    BY <1>1, <1>7 DEF Inv, AcceptedRecordWasSent
<1>9. AcceptedWasSent'
    BY <1>2, <1>7 DEF Inv, AcceptedWasSent
<1> QED
    BY <1>1, <1>4, <1>5, <1>6, <1>8, <1>9 DEF Inv

\* Every step keeps Inv.
LEMMA StepInv == Inv /\ [Next]_vars => Inv'
<1> SUFFICES ASSUME Inv, [Next]_vars PROVE Inv'
    OBVIOUS
<1>1. ASSUME NEW c \in Callers, NEW k \in Keys, NEW payload \in Payloads, NEW token \in ClaimTokens,
             Claim(c, k, payload, token)
      PROVE  Inv'
    BY <1>1, ClaimInv
<1>2. ASSUME NEW c \in Callers, NEW k \in Keys, NEW payload \in Payloads, Replay(c, k, payload)
      PROVE  Inv'
    BY <1>2, ReplayInv
<1>3. ASSUME NEW c \in Callers, NEW k \in Keys, NEW payload \in Payloads, Refuse(c, k, payload)
      PROVE  Inv'
    BY <1>3, RefuseInv
<1>4. ASSUME NEW c \in Callers, NEW outcome \in Outcomes, NEW sent \in BOOLEAN, Dispatch(c, outcome, sent)
      PROVE  Inv'
    BY <1>4, DispatchInv
<1>5. ASSUME NEW c \in Callers, NEW s \in -MaxWait .. 0, Persist(c, s)
      PROVE  Inv'
    BY <1>5, PersistInv
<1>6. ASSUME NEW c \in Callers, PersistFails(c)
      PROVE  Inv'
    BY <1>6, PersistFailsInv
<1>7. ASSUME NEW c \in Callers, NEW sent \in BOOLEAN, Crash(c, sent)
      PROVE  Inv'
    BY <1>7, CrashInv
<1>8. CASE Tick
    BY <1>8, TickInv
<1>9. CASE UNCHANGED vars
    BY <1>9 DEF vars, Inv, RecordsOK, CallsOK, Busy, SendsOK, ClaimBinds, TokensDiffer,
       AcceptedRecordWasSent, AcceptedWasSent
<1> QED
    BY <1>1, <1>2, <1>3, <1>4, <1>5, <1>6, <1>7, <1>8, <1>9 DEF Next

(* A step of a behaviour whose dispatches end in time is a step. *)
LEMMA TimelyIsStep == [TimelyNext]_vars => [Next]_vars
BY DEF TimelyNext, Next, TimelyTick

\* The invariant of every behaviour of sendTransactionalMessage, timely or not.
THEOREM SendInvariance == Spec => []Inv
BY InitInv, StepInv, PTL DEF Spec

(* The invariant contains the types. *)
LEMMA TypeOKFromInv == Inv => TypeOK
BY DEF Inv, RecordsOK, CallsOK, SendsOK, TypeOK

\* Records, calls and history keep their types: only an outcome that a record may have is
\* ever committed by sendTransactionalMessage.
THEOREM SendTypeCorrectness == Spec => []TypeOK
BY SendInvariance, TypeOKFromInv, PTL

(* The invariant contains that whoever is told accepted was. *)
LEMMA AcceptedFromInv == Inv => AcceptedWasSent
BY DEF Inv

\* A caller of sendTransactionalMessage that is told "accepted", by its own dispatch or by a
\* replay, asked for what Listmonk acknowledged, however late commits arrive.
THEOREM AcceptedIsTrue == Spec => []AcceptedWasSent
BY SendInvariance, AcceptedFromInv, PTL

-----------------------------------------------------------------------------
(* Protected is inductive when dispatches end in time *)

\* What the types say about one key or call, for arithmetic.
LEMMA Numbers ==
    ASSUME Inv
    PROVE  /\ Window \in Nat /\ Window = TTL - DispatchTime /\ DispatchTime \in Nat /\ TTL \in Nat
           /\ \A k \in Keys : sends[k].age \in Nat /\ sends[k].count \in 0 .. 2
           /\ \A k \in DOMAIN records : records[k].expiresIn \in Int /\ k \in Keys
           /\ \A c \in Callers : calls[c].age \in Nat
<1>1. \A k \in Keys : sends[k] \in [count : 0 .. 2, age : Int] /\ sends[k].age >= 0
    BY DEF Inv, SendsOK
<1>2. \A k \in DOMAIN records : records[k] \in Record /\ k \in Keys
    BY DEF Inv, RecordsOK
<1>3. \A c \in Callers : calls[c] \in Call
    BY DEF Inv, CallsOK
<1> QED
    BY <1>1, <1>2, <1>3 DEF Window, Record, Call

\* The record behind a dispatch, and the one behind a send, have not expired.
LEMMA LiveRecords ==
    ASSUME Inv, Protected
    PROVE  /\ \A c \in Callers : calls[c].at = "dispatching" => records[calls[c].key].expiresIn >= 0
           /\ \A k \in Keys : sends[k].age < Window /\ KeyProtected(k) => records[k].expiresIn >= 0
BY Numbers DEF Protected, DispatchCovered, KeyProtected

(* At first nothing was claimed and nothing sent. *)
LEMMA InitProtected == Init => Protected
<1> SUFFICES ASSUME Init PROVE Protected
    OBVIOUS
<1>1. \A k \in Keys : sends[k].count = 0
    BY DEF Init, NoSends
<1>2. \A c \in Callers : calls[c].at = "idle"
    BY DEF Init, IdleCall
<1> QED
    BY <1>1, <1>2 DEF Protected, DispatchCovered, SentProtected

(* A key can only be claimed when the window of its last message is over. *)
LEMMA ClaimProtected ==
    ASSUME Inv, Protected, NEW c \in Callers, NEW k \in Keys, NEW payload \in Payloads,
           NEW token \in ClaimTokens, Claim(c, k, payload, token)
    PROVE  Protected'
<1>1. /\ k \in DOMAIN records'
      /\ records'[k].claimToken = token /\ records'[k].expiresIn = TTL
      /\ \A x \in DOMAIN records' \ {k} : x \in DOMAIN records /\ records'[x] = records[x]
      /\ \A x \in DOMAIN records : records[x].expiresIn >= 0 => x # k /\ x \in DOMAIN records'
    <2>1. RecordsOK /\ ClaimNew(k, payload, token)
        BY DEF Inv, Claim
    <2>2. /\ k \in DOMAIN records'
          /\ records'[k] = [payload |-> payload, status |-> "pending", claimToken |-> token, expiresIn |-> TTL]
          /\ \A x \in DOMAIN records' \ {k} : x \in DOMAIN records /\ records'[x] = records[x]
          /\ \A x \in DOMAIN records : records[x].expiresIn >= 0 => x # k /\ x \in DOMAIN records'
        BY <2>1, ClaimedRecords
    <2> QED
        BY <2>2
<1>2. /\ calls'[c].at = "dispatching" /\ calls'[c].key = k /\ calls'[c].token = token /\ calls'[c].age = 0
      /\ \A d \in Callers : d # c => calls'[d] = calls[d]
    BY DEF Claim, Inv, CallsOK, Dispatching
<1>3. UNCHANGED sends
    BY DEF Claim
<1>4. \A x \in DOMAIN records : records[x].claimToken # token
    BY DEF Claim, FreshClaimTokens
<1>5. sends[k].count = 0 \/ sends[k].age >= Window
    BY <1>1, LiveRecords, Numbers DEF Protected, SentProtected, KeyProtected
<1>6. DispatchCovered'
    <2> SUFFICES ASSUME NEW d \in Callers, calls'[d].at = "dispatching"
                 PROVE  /\ calls'[d].age <= DispatchTime
                        /\ calls'[d].key \in DOMAIN records'
                        /\ records'[calls'[d].key].claimToken = calls'[d].token
                        /\ records'[calls'[d].key].expiresIn = TTL - calls'[d].age
                        /\ sends'[calls'[d].key].count = 0 \/ sends'[calls'[d].key].age >= Window
        BY DEF DispatchCovered, Window
    <2>1. CASE d = c
        BY <1>1, <1>2, <1>3, <1>5, <2>1, Numbers
    <2>2. CASE d # c
        BY <1>1, <1>2, <1>3, <2>2, LiveRecords DEF Protected, DispatchCovered
    <2> QED
        BY <2>1, <2>2
<1>7. SentProtected'
    <2> SUFFICES ASSUME NEW x \in Keys, sends[x].count # 0, ~(sends[x].age >= Window)
                 PROVE  sends'[x].count = 1 /\ KeyProtected(x)'
        <3>1. (\A x \in Keys : \/ sends'[x].count = 0
                               \/ sends'[x].count = 1 /\ (sends'[x].age >= Window \/ KeyProtected(x)'))
                => SentProtected'
            BY DEF SentProtected, Window
        <3> QED
            BY <1>3, <3>1 DEF Protected, SentProtected
    <2>1. sends[x].count = 1 /\ KeyProtected(x)
        BY DEF Protected, SentProtected
    <2>2. x # k /\ x \in DOMAIN records' /\ records'[x] = records[x]
        BY <1>1, <2>1, LiveRecords, Numbers DEF KeyProtected
    <2> QED
        BY <1>2, <1>3, <1>4, <2>1, <2>2 DEF KeyProtected, Busy, Definitive, Window
<1> QED
    BY <1>6, <1>7 DEF Protected

\* A step that sends nothing, starts no dispatch and drops a live record only for the call that
\* releases it, or when no call is about it and nothing was sent under it.
LEMMA QuietStep ==
    ASSUME Inv, Protected, UNCHANGED sends,
           \A x \in DOMAIN records : records[x].expiresIn >= 0 =>
               \/ /\ x \in DOMAIN records'
                  /\ records'[x].claimToken = records[x].claimToken
                  /\ records'[x].expiresIn = records[x].expiresIn
               \/ \E c \in Callers : /\ calls[c].at = "persisting" /\ Definitive(calls[c].answer)
                                     /\ calls[c].token = records[x].claimToken
               \/ sends[x].count = 0 /\ \A c \in Callers : Busy(c) => calls[c].token # records[x].claimToken,
           \A d \in Callers : calls'[d].at # "idle" => calls'[d] = calls[d]
    PROVE  Protected'
<1>1. DispatchCovered'
    <2> SUFFICES ASSUME NEW d \in Callers, calls[d].at = "dispatching", calls'[d] = calls[d]
                 PROVE  /\ calls[d].age <= DispatchTime
                        /\ calls[d].key \in DOMAIN records'
                        /\ records'[calls[d].key].claimToken = calls[d].token
                        /\ records'[calls[d].key].expiresIn = TTL - calls[d].age
                        /\ sends[calls[d].key].count = 0 \/ sends[calls[d].key].age >= Window
        BY DEF DispatchCovered, Window
    <2>1. /\ calls[d].key \in DOMAIN records /\ records[calls[d].key].claimToken = calls[d].token
          /\ records[calls[d].key].expiresIn >= 0
        BY LiveRecords DEF Protected, DispatchCovered
    <2>2. ASSUME NEW c \in Callers, calls[c].at = "persisting", calls[c].token = calls[d].token
          PROVE  FALSE
        BY <2>2 DEF Inv, TokensDiffer, Busy
    <2> QED
        BY <2>1, <2>2 DEF Protected, DispatchCovered, Busy
<1>2. SentProtected'
    <2> SUFFICES ASSUME NEW x \in Keys, sends[x].count # 0, ~(sends[x].age >= Window)
                 PROVE  sends'[x].count = 1 /\ KeyProtected(x)'
        <3>1. (\A x \in Keys : \/ sends'[x].count = 0
                               \/ sends'[x].count = 1 /\ (sends'[x].age >= Window \/ KeyProtected(x)'))
                => SentProtected'
            BY DEF SentProtected, Window
        <3> QED
            BY <3>1 DEF Protected, SentProtected
    <2>1. sends[x].count = 1 /\ KeyProtected(x) /\ records[x].expiresIn >= 0
        BY LiveRecords, Numbers DEF Protected, SentProtected
    <2>2. /\ x \in DOMAIN records' /\ records'[x].claimToken = records[x].claimToken
          /\ records'[x].expiresIn = records[x].expiresIn
        BY <2>1 DEF KeyProtected, Busy
    <2> QED
        BY <2>1, <2>2 DEF KeyProtected, Busy, Definitive, Window
<1> QED
    BY <1>1, <1>2 DEF Protected

\* A dispatch ends, by an answer or with its process.
LEMMA DispatchEnds ==
    ASSUME Inv, Protected, NEW c \in Callers, NEW sent \in BOOLEAN,
           calls[c].at = "dispatching", UNCHANGED records,
           sends' = IF sent THEN Sent(calls[c].key) ELSE sends,
           \A d \in Callers : d # c => calls'[d] = calls[d],
           calls'[c].at # "dispatching",
           calls'[c].at # "idle" =>
               /\ calls'[c].at = "persisting" /\ calls'[c].token = calls[c].token
               /\ sent => ~Definitive(calls'[c].answer)
    PROVE  Protected'
<1> DEFINE k == calls[c].key
<1>1. /\ k \in Keys /\ k \in DOMAIN records
      /\ records[k].claimToken = calls[c].token /\ records[k].expiresIn >= Window
      /\ sends[k].count = 0 \/ sends[k].age >= Window
    BY Numbers DEF Inv, CallsOK, Busy, Protected, DispatchCovered
<1>2. \A d \in Callers : d # c /\ Busy(d) => calls[d].token # calls[c].token
    BY DEF Inv, TokensDiffer, Busy
<1>3. /\ \A x \in Keys : x # k \/ ~sent => sends'[x] = sends[x]
      /\ sent => sends'[k].count = 1 /\ sends'[k].age = 0
    BY <1>1, SentOnceMore DEF Inv
<1> HIDE DEF k
<1>4. DispatchCovered'
    <2> SUFFICES ASSUME NEW d \in Callers, d # c, calls[d].at = "dispatching"
                 PROVE  /\ calls[d].age <= DispatchTime
                        /\ calls[d].key \in DOMAIN records
                        /\ records[calls[d].key].claimToken = calls[d].token
                        /\ records[calls[d].key].expiresIn = TTL - calls[d].age
                        /\ sends'[calls[d].key].count = 0 \/ sends'[calls[d].key].age >= Window
        BY DEF DispatchCovered, Window
    <2>1. calls[d].key # k /\ calls[d].key \in Keys
        BY <1>1, <1>2 DEF Protected, DispatchCovered, Busy, Inv, CallsOK
    <2> QED
        BY <1>3, <2>1 DEF Protected, DispatchCovered
<1>5. SentProtected'
    <2> SUFFICES ASSUME NEW x \in Keys
                 PROVE  \/ sends'[x].count = 0
                        \/ sends'[x].count = 1 /\ (sends'[x].age >= Window \/ KeyProtected(x)')
        BY DEF SentProtected, Window
    <2>1. CASE x = k /\ sent
        <3>1. records[k].expiresIn + sends'[k].age >= Window
            BY <1>1, <1>3, <2>1, Numbers
        <3>2. \A d \in Callers : calls'[d].at # "idle" /\ calls'[d].token = records[k].claimToken =>
                calls'[d].at = "persisting" /\ ~Definitive(calls'[d].answer)
            BY <1>1, <1>2, <2>1 DEF Busy
        <3> QED
            BY <1>1, <1>3, <2>1, <3>1, <3>2 DEF KeyProtected, Busy, Definitive, Window
    <2>2. CASE x # k \/ ~sent
        <3>1. sends'[x] = sends[x]
            BY <1>3, <2>2
        <3>2. ASSUME KeyProtected(x)
              PROVE  KeyProtected(x)'
            <4>1. records[x].claimToken # calls[c].token
                BY <3>2 DEF KeyProtected, Busy
            <4> QED
                BY <3>1, <3>2, <4>1 DEF KeyProtected, Busy, Definitive, Window
        <3> QED
            BY <3>1, <3>2 DEF Protected, SentProtected
    <2> QED
        BY <2>1, <2>2
<1> QED
    BY <1>4, <1>5 DEF Protected

\* Time spends the life of records and the age of calls and sends alike.
LEMMA TickProtected ==
    ASSUME Inv, Protected, TimelyTick
    PROVE  Protected'
<1>1. /\ DOMAIN records' = DOMAIN records
      /\ \A x \in DOMAIN records :
           /\ records'[x].claimToken = records[x].claimToken
           /\ records[x].expiresIn >= 0 => records'[x].expiresIn = records[x].expiresIn - 1
    BY AgedRecords DEF Inv, TimelyTick, Tick
<1>2. ASSUME NEW d \in Callers
      PROVE  /\ calls'[d].at = calls[d].at /\ calls'[d].key = calls[d].key
             /\ calls'[d].token = calls[d].token /\ calls'[d].answer = calls[d].answer
             /\ calls[d].at = "dispatching" =>
                  calls[d].age < DispatchTime /\ calls'[d].age = calls[d].age + 1
    <2> DEFINE n == IF calls[d].at # "idle" /\ calls[d].age < TTL THEN calls[d].age + 1 ELSE calls[d].age
    <2>1. calls[d] \in Call /\ DispatchTime \in Nat /\ DispatchTime <= TTL
        BY DEF Inv, CallsOK
    <2>2. calls'[d] = [calls[d] EXCEPT !.age = n]
        BY DEF TimelyTick, Tick
    <2>3. calls[d].at = "dispatching" => calls[d].age < DispatchTime /\ n = calls[d].age + 1
        BY <2>1 DEF TimelyTick, Call
    <2> HIDE DEF n
    <2> QED
        BY <2>1, <2>2, <2>3 DEF Call
<1>3. ASSUME NEW x \in Keys
      PROVE  \/ sends'[x].count = 0
             \/ /\ ~(sends[x].age >= Window)
                /\ sends'[x].count = sends[x].count /\ sends'[x].age = sends[x].age + 1
    <2>1. sends[x] \in [count : 0 .. 2, age : Int] /\ sends[x].age >= 0 /\ Window \in Nat
        BY DEF Inv, SendsOK, Window
    <2>2. sends'[x] = IF sends[x].age + 1 >= Window THEN NoSends
                      ELSE [sends[x] EXCEPT !.age = sends[x].age + 1]
        BY DEF TimelyTick, Tick
    <2>3. CASE sends[x].age + 1 >= Window
        BY <2>2, <2>3 DEF NoSends
    <2>4. CASE ~(sends[x].age + 1 >= Window)
        BY <2>1, <2>2, <2>4
    <2> QED
        BY <2>3, <2>4
<1>4. DispatchCovered'
    <2> SUFFICES ASSUME NEW d \in Callers, calls'[d].at = "dispatching"
                 PROVE  /\ calls'[d].age <= DispatchTime
                        /\ calls'[d].key \in DOMAIN records'
                        /\ records'[calls'[d].key].claimToken = calls'[d].token
                        /\ records'[calls'[d].key].expiresIn = TTL - calls'[d].age
                        /\ sends'[calls'[d].key].count = 0 \/ sends'[calls'[d].key].age >= Window
        BY DEF DispatchCovered, Window
    <2>1. /\ calls[d].age \in Nat /\ calls[d].age < DispatchTime /\ calls'[d].age = calls[d].age + 1
          /\ calls[d].key \in DOMAIN records /\ calls[d].key \in Keys
          /\ records[calls[d].key].claimToken = calls[d].token
          /\ records[calls[d].key].expiresIn = TTL - calls[d].age
          /\ sends[calls[d].key].count = 0 \/ sends[calls[d].key].age >= Window
        BY <1>2, Numbers DEF Protected, DispatchCovered
    <2>2. DispatchTime \in Nat /\ TTL \in Nat /\ DispatchTime <= TTL
        OBVIOUS
    <2> QED
        BY <1>1, <1>2, <1>3, <2>1, <2>2
<1>5. SentProtected'
    <2> SUFFICES ASSUME NEW x \in Keys
                 PROVE  \/ sends'[x].count = 0
                        \/ sends'[x].count = 1 /\ (sends'[x].age >= Window \/ KeyProtected(x)')
        BY DEF SentProtected, Window
    <2>1. CASE sends'[x].count = 0
        BY <2>1
    <2>2. CASE sends'[x].count # 0
        <3>1. /\ ~(sends[x].age >= Window)
              /\ sends'[x].count = sends[x].count /\ sends'[x].age = sends[x].age + 1
            BY <1>3, <2>2
        <3>2. sends[x].count = 1 /\ KeyProtected(x)
            BY <2>2, <3>1 DEF Protected, SentProtected
        <3>3. x \in DOMAIN records /\ records[x].expiresIn + sends[x].age >= Window
            BY <3>2 DEF KeyProtected
        <3>4. records'[x].expiresIn + sends'[x].age >= Window
            BY <1>1, <3>1, <3>3, Numbers
        <3>5. KeyProtected(x)'
            BY <1>1, <1>2, <3>2, <3>4 DEF KeyProtected, Busy, Definitive, Window
        <3> QED
            BY <3>1, <3>2, <3>5
    <2> QED
        BY <2>1, <2>2
<1> QED
    BY <1>4, <1>5 DEF Protected

\* The call that persists keeps every live record except the one it is entitled to release.
LEMMA PersistKeepsLive ==
    ASSUME Inv, NEW c \in Callers, NEW s \in -MaxWait .. 0, Persist(c, s)
    PROVE  \A x \in DOMAIN records : records[x].expiresIn >= 0 =>
               \/ /\ x \in DOMAIN records'
                  /\ records'[x].claimToken = records[x].claimToken
                  /\ records'[x].expiresIn = records[x].expiresIn
               \/ /\ Definitive(calls[c].answer)
                  /\ calls[c].key = x /\ calls[c].token = records[x].claimToken
<1>1. /\ calls[c].key \in Keys /\ calls[c].answer \in Outcomes /\ calls[c].token \in ClaimTokens
      /\ s \in Int /\ s <= 0 /\ RecordsOK
    BY PersistingReturns DEF Persist, Inv
<1>2. \A x \in DOMAIN records : records[x].expiresIn >= 0 => records[x].expiresIn >= s
    BY <1>1, Numbers
<1>3. CASE Definitive(calls[c].answer)
    <2>1. ReleaseRecord(calls[c].key, calls[c].token, s)
        BY <1>3 DEF Persist
    <2>2. /\ \A x \in DOMAIN records' : x \in DOMAIN records /\ records'[x] = records[x]
          /\ \A x \in DOMAIN records :
               records[x].expiresIn >= s =>
                   x \in DOMAIN records' \/ (x = calls[c].key /\ records[calls[c].key].claimToken = calls[c].token)
        BY <1>1, <2>1, ReleasedRecords
    <2> QED
        BY <1>2, <1>3, <2>2
<1>4. CASE ~Definitive(calls[c].answer)
    <2> DEFINE k == calls[c].key
               token == calls[c].token
               status == calls[c].answer
    <2>1. k \in Keys /\ token \in ClaimTokens /\ status \in Statuses
        BY <1>1, <1>4 DEF Outcomes, Statuses, Definitive
    <2>2. CommitRecord(k, token, status, s)
        BY <1>4 DEF Persist
    <2> HIDE DEF k, token, status
    <2>3. /\ \A x \in DOMAIN records' :
               /\ records'[x].claimToken = records[x].claimToken
               /\ records'[x].expiresIn = records[x].expiresIn
          /\ \A x \in DOMAIN records : records[x].expiresIn >= s => x \in DOMAIN records'
        BY <1>1, <2>1, <2>2, CommittedRecords
    <2> QED
        BY <1>2, <2>3
<1> QED
    BY <1>3, <1>4

\* No other step loses a live record: claims sweep what has expired, nothing else removes.
LEMMA OthersKeepLive ==
    ASSUME Inv,
           \/ \E c \in Callers, k \in Keys, payload \in Payloads :
                \/ \E token \in ClaimTokens : Claim(c, k, payload, token)
                \/ Replay(c, k, payload)
           \/ UNCHANGED records
           \/ Tick
    PROVE  \A x \in DOMAIN records : records[x].expiresIn >= 0 => x \in DOMAIN records'
<1>1. ASSUME NEW c \in Callers, NEW k \in Keys, NEW payload \in Payloads, NEW token \in ClaimTokens,
             Claim(c, k, payload, token)
      PROVE  \A x \in DOMAIN records : records[x].expiresIn >= 0 => x \in DOMAIN records'
    <2>1. RecordsOK /\ ClaimNew(k, payload, token)
        BY <1>1 DEF Inv, Claim
    <2>2. \A x \in DOMAIN records : records[x].expiresIn >= 0 => x # k /\ x \in DOMAIN records'
        BY <2>1, ClaimedRecords
    <2> QED
        BY <2>2
<1>2. ASSUME NEW c \in Callers, NEW k \in Keys, NEW payload \in Payloads, Replay(c, k, payload)
      PROVE  \A x \in DOMAIN records : records[x].expiresIn >= 0 => x \in DOMAIN records'
    BY <1>2, SweptRecords DEF Inv, Replay, ClaimExisting
<1>3. CASE Tick
    BY <1>3, AgedRecords DEF Inv, Tick
<1> QED
    BY <1>1, <1>2, <1>3

(* A replay sends nothing. *)
LEMMA ReplayProtected ==
    ASSUME Inv, Protected, NEW c \in Callers, NEW k \in Keys, NEW payload \in Payloads,
           Replay(c, k, payload)
    PROVE  Protected'
<1>1. records' = Swept(0) /\ UNCHANGED sends
    BY DEF Replay, ClaimExisting
<1>2. \A x \in DOMAIN records : records[x].expiresIn >= 0 =>
          x \in DOMAIN records' /\ records'[x] = records[x]
    BY <1>1, SweptRecords DEF Inv
<1>3. \A d \in Callers : calls'[d].at # "idle" => calls'[d] = calls[d]
    BY DEF Replay, Inv, CallsOK, Answered
<1> QED
    BY <1>1, <1>2, <1>3, QuietStep

(* Storing an outcome takes no record away that protects a message. *)
LEMMA PersistProtected ==
    ASSUME Inv, Protected, NEW c \in Callers, NEW s \in -MaxWait .. 0, Persist(c, s)
    PROVE  Protected'
<1>1. UNCHANGED sends /\ calls[c].at = "persisting" /\ calls'[c].at = "idle"
      /\ \A d \in Callers : d # c => calls'[d] = calls[d]
    BY PersistingReturns DEF Persist
<1>2. \A x \in DOMAIN records : records[x].expiresIn >= 0 =>
          \/ /\ x \in DOMAIN records'
             /\ records'[x].claimToken = records[x].claimToken
             /\ records'[x].expiresIn = records[x].expiresIn
          \/ \E d \in Callers : /\ calls[d].at = "persisting" /\ Definitive(calls[d].answer)
                                /\ calls[d].token = records[x].claimToken
    BY <1>1, PersistKeepsLive
<1> QED
    BY <1>1, <1>2, QuietStep

(* A dispatch sends under the live record of its own claim. *)
LEMMA DispatchProtected ==
    ASSUME Inv, Protected, NEW c \in Callers, NEW outcome \in Outcomes, NEW sent \in BOOLEAN,
           Dispatch(c, outcome, sent)
    PROVE  Protected'
<1>1. calls[c].at = "dispatching" /\ UNCHANGED records /\ (sent => ~Definitive(outcome))
      /\ sends' = IF sent THEN Sent(calls[c].key) ELSE sends
    BY DEF Dispatch, Definitive
<1>2. calls[c] \in Call /\ calls' = [calls EXCEPT ![c] = [calls[c] EXCEPT !.at = "persisting", !.answer = outcome]]
    BY DEF Dispatch, Inv, CallsOK
<1>3. /\ calls'[c].at = "persisting" /\ calls'[c].token = calls[c].token /\ calls'[c].answer = outcome
      /\ \A d \in Callers : d # c => calls'[d] = calls[d]
    BY <1>2 DEF Inv, CallsOK, Call
<1> QED
    BY <1>1, <1>3, DispatchEnds

\* A process that dies, between two steps or while its request is on the way.
LEMMA CrashProtected ==
    ASSUME Inv, Protected, NEW c \in Callers, NEW sent \in BOOLEAN, Crash(c, sent)
    PROVE  Protected'
<1>1. /\ UNCHANGED records /\ calls'[c].at = "idle"
      /\ \A d \in Callers : d # c => calls'[d] = calls[d]
      /\ sends' = IF sent THEN Sent(calls[c].key) ELSE sends
    BY DEF Crash, Inv, CallsOK, IdleCall
<1>2. CASE calls[c].at = "dispatching"
    BY <1>1, <1>2, DispatchEnds
<1>3. CASE calls[c].at # "dispatching"
    <2>1. UNCHANGED sends
        BY <1>1, <1>3 DEF Crash
    <2> QED
        BY <1>1, <2>1, QuietStep
<1> QED
    BY <1>2, <1>3

(* Every timely step keeps each message protected by a record. *)
LEMMA StepProtected == Inv /\ Protected /\ [TimelyNext]_vars => Protected'
<1> SUFFICES ASSUME Inv, Protected, [TimelyNext]_vars PROVE Protected'
    OBVIOUS
<1>1. ASSUME NEW c \in Callers, NEW k \in Keys, NEW payload \in Payloads, NEW token \in ClaimTokens,
             Claim(c, k, payload, token)
      PROVE  Protected'
    BY <1>1, ClaimProtected
<1>2. ASSUME NEW c \in Callers, NEW k \in Keys, NEW payload \in Payloads, Replay(c, k, payload)
      PROVE  Protected'
    BY <1>2, ReplayProtected
<1>3. ASSUME NEW c \in Callers, NEW k \in Keys, NEW payload \in Payloads, Refuse(c, k, payload)
      PROVE  Protected'
    <2>1. UNCHANGED <<records, sends>> /\ \A d \in Callers : calls'[d].at # "idle" => calls'[d] = calls[d]
        BY <1>3 DEF Refuse, ClaimRefused, Inv, CallsOK, Answered
    <2> QED
        BY <2>1, QuietStep
<1>4. ASSUME NEW c \in Callers, NEW outcome \in Outcomes, NEW sent \in BOOLEAN, Dispatch(c, outcome, sent)
      PROVE  Protected'
    BY <1>4, DispatchProtected
<1>5. ASSUME NEW c \in Callers, NEW s \in -MaxWait .. 0, Persist(c, s)
      PROVE  Protected'
    BY <1>5, PersistProtected
<1>6. ASSUME NEW c \in Callers, PersistFails(c)
      PROVE  Protected'
    <2>1. UNCHANGED <<records, sends>> /\ \A d \in Callers : calls'[d].at # "idle" => calls'[d] = calls[d]
        BY <1>6, PersistingReturns DEF PersistFails
    <2> QED
        BY <2>1, QuietStep
<1>7. ASSUME NEW c \in Callers, NEW sent \in BOOLEAN, Crash(c, sent)
      PROVE  Protected'
    BY <1>7, CrashProtected
<1>8. CASE TimelyTick
    BY <1>8, TickProtected
<1>9. CASE UNCHANGED vars
    BY <1>9, QuietStep DEF vars
<1> QED
    BY <1>1, <1>2, <1>3, <1>4, <1>5, <1>6, <1>7, <1>8, <1>9 DEF TimelyNext

(* What is protected was sent once in its window. *)
LEMMA SentOnceFromProtected == Protected => SentOncePerWindow
BY DEF Protected, SentProtected, SentOncePerWindow

\* However often a key is retried, Listmonk sends at most one message for it in the life of its
\* record less the time a dispatch takes (sendTransactionalMessage with an idempotency key).
THEOREM OncePerWindow == TimelySpec => []SentOncePerWindow
<1>1. Init => Inv /\ Protected
    BY InitInv, InitProtected
<1>2. Inv /\ Protected /\ [TimelyNext]_vars => Inv' /\ Protected'
    BY StepInv, TimelyIsStep, StepProtected
<1>3. Inv /\ Protected => SentOncePerWindow
    BY SentOnceFromProtected
<1> QED
    BY <1>1, <1>2, <1>3, PTL DEF TimelySpec

-----------------------------------------------------------------------------
\* A record that has not expired leaves the store only by the release of the call that claimed
\* it, after an error that shows its request never reached Listmonk.
LEMMA StepKeepsLive ==
    ASSUME Inv, [Next]_vars, NEW k \in DOMAIN records, records[k].expiresIn >= 0, k \notin DOMAIN records'
    PROVE  \E c \in Callers : /\ calls[c].key = k /\ calls[c].token = records[k].claimToken
                              /\ Definitive(calls[c].answer) /\ calls'[c] # calls[c]
<1>1. PICK c \in Callers, s \in -MaxWait .. 0 : Persist(c, s)
    <2>1. ASSUME NEW c \in Callers, NEW x \in Keys, NEW payload \in Payloads, Refuse(c, x, payload)
          PROVE  UNCHANGED records
        BY <2>1 DEF Refuse, ClaimRefused
    <2>2. ASSUME NEW c \in Callers, NEW outcome \in Outcomes, NEW sent \in BOOLEAN, Dispatch(c, outcome, sent)
          PROVE  UNCHANGED records
        BY <2>2 DEF Dispatch
    <2>3. ASSUME NEW c \in Callers, PersistFails(c)
          PROVE  UNCHANGED records
        BY <2>3 DEF PersistFails
    <2>4. ASSUME NEW c \in Callers, NEW sent \in BOOLEAN, Crash(c, sent)
          PROVE  UNCHANGED records
        BY <2>4 DEF Crash
    <2>5. ~UNCHANGED vars
        BY DEF vars
    <2> QED
        BY <2>1, <2>2, <2>3, <2>4, <2>5, OthersKeepLive DEF Next
<1>2. /\ Definitive(calls[c].answer)
      /\ calls[c].key = k /\ calls[c].token = records[k].claimToken
    BY <1>1, PersistKeepsLive
<1>3. calls[c].at = "persisting" /\ calls'[c].at = "idle"
    BY <1>1, PersistingReturns DEF Persist
<1> QED
    BY <1>2, <1>3

\* Reaching the limit never evicts a live record, nor does any sweep.
THEOREM LiveRecordsRespected == Spec => LiveRecordsKept
<1>1. Inv /\ [Next]_vars =>
        [\A k \in DOMAIN records : records[k].expiresIn >= 0 /\ k \notin DOMAIN records' =>
            \E c \in Callers : /\ calls[c].key = k /\ calls[c].token = records[k].claimToken
                               /\ Definitive(calls[c].answer) /\ calls'[c] # calls[c]]_vars
    BY StepKeepsLive
<1> QED
    BY <1>1, SendInvariance, PTL DEF Spec, LiveRecordsKept
=============================================================================
