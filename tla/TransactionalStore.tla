------------------------- MODULE TransactionalStore -------------------------
(***************************************************************************)
(* The transactional idempotency store of packages/common                  *)
(* (transactional-idempotency-store.ts).  Each operation runs inside       *)
(* updateJsonFileStore and is one atomic step.                             *)
(*                                                                         *)
(* An expiry is kept relative to the present: a record with expiresIn = n  *)
(* expires n ticks from now.  A record lives until a locked update sweeps  *)
(* it, and is swept once its expiry lies strictly in the past.             *)
(***************************************************************************)
EXTENDS Integers, FiniteSets

CONSTANTS
    Keys,           \* idempotency keys
    Payloads,       \* payloadHash and targetHash together
    ClaimTokens,    \* what newClaimToken() returns
    TTL,            \* DEFAULT_TRANSACTIONAL_TTL_MS
    MaxRecords,     \* TRANSACTIONAL_STORE_MAX_RECORDS
    MaxWait         \* bound: how long a commit or release waits for the store lock

ASSUME TransactionalAssumption ==
    /\ TTL \in Nat \ {0}
    /\ MaxRecords \in Nat
    /\ MaxWait \in Nat

VARIABLE records    \* the stored records, by key

Statuses == {"pending", "accepted", "failed", "unknown"}

Record == [payload : Payloads, status : Statuses, claimToken : ClaimTokens, expiresIn : Int]

NoRecords == [k \in {} |-> {}]

ExpiredAtBoundary(s) == {k \in DOMAIN records : records[k].expiresIn > s}
\* The records that survive a sweep by an operation that read the clock at time s.
UnexpiredAt(s) == {k \in DOMAIN records : records[k].expiresIn >= s}

Swept(s) == [k \in UnexpiredAt(s) |-> records[k]]

\* claimTransactionalSend reads the clock under the lock (s = 0).  Result of the claim:
Fresh(k) == k \notin UnexpiredAt(0) /\ Cardinality(UnexpiredAt(0)) < MaxRecords
AtCapacity(k) == k \notin UnexpiredAt(0) /\ Cardinality(UnexpiredAt(0)) >= MaxRecords
Taken(k) == k \in UnexpiredAt(0)
KeyTaken(k, payload) == k \in UnexpiredAt(0)
Replayable(k, payload) == k \in UnexpiredAt(0) /\ records[k].payload = payload

ClaimNew(k, payload, token) ==
    /\ Fresh(k)
    /\ records' = [x \in UnexpiredAt(0) \cup {k} |->
         IF x = k THEN [payload |-> payload, status |-> "pending", claimToken |-> token, expiresIn |-> TTL]
         ELSE records[x]]

\* A claim that finds a record only sweeps.  One that is refused for lack of room throws inside
\* the update: nothing is stored, not even the sweep.
ClaimExisting(k) == Taken(k) /\ records' = Swept(0)
ClaimRefused(k) == AtCapacity(k) /\ UNCHANGED records

OwnsKeyOnly(k, token, s) == k \in UnexpiredAt(s)
\* The token binds a commit or a release to the claim it answers.
OwnsClaim(k, token, s) == k \in UnexpiredAt(s) /\ records[k].claimToken = token

\* commitTransactionalSend and releaseTransactionalSend read the clock before they wait.
CommitRecord(k, token, status, s) ==
    records' = IF OwnsClaim(k, token, s)
               THEN [Swept(s) EXCEPT ![k].status = status]
               ELSE Swept(s)

ReleaseRecord(k, token, s) ==
    records' = IF OwnsClaim(k, token, s)
               THEN [x \in UnexpiredAt(s) \ {k} |-> records[x]]
               ELSE Swept(s)

\* Readings older than this make no difference between expired records.
Aged == [k \in DOMAIN records |->
           [records[k] EXCEPT !.expiresIn = IF @ >= -MaxWait THEN @ - 1 ELSE @]]
=============================================================================
