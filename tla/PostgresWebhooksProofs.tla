----------------------- MODULE PostgresWebhooksProofs -----------------------
(***************************************************************************)
(* Theorems about the outbox in PostgreSQL, for every value of the         *)
(* constants: its rows keep their schema, concurrent enqueues respect the  *)
(* limit, leases that have not expired are left alone, and the             *)
(* transactions, statement by statement, implement DeliveryLifecycle.      *)
(*                                                                         *)
(* What carries them is the discipline of the locks.  A row is locked by   *)
(* at most one transaction, what a statement found when it locked a row    *)
(* still holds when the transaction commits, and an enqueue that has       *)
(* counted the outbox is alone with the advisory lock.                     *)
(***************************************************************************)
EXTENDS PostgresWebhooks, FiniteSetTheorems, TLAPS

ClaimRecord ==
    [delivery : DeliveryIds, attempt : 0 .. MaxAttempts, endpoint : Endpoints \cup {NoEndpoint},
     usable : BOOLEAN]

ClaimsOK == \A t \in DOMAIN claims : claims[t] \in ClaimRecord

\* Where a transaction of each kind can be.
Placed(r) ==
    /\ r.op # "create"
    /\ r.op = "idle" => r = Idle
    /\ r.op \in {"update", "reset"} => r.at \in {"endpoint", "commit"}
    /\ r.op = "delete" => r.at \in {"endpoint", "read", "rows", "commit"}
    /\ r.op \in {"enqueue", "prune"} => r.at \in {"advisory", "read", "rows", "commit"}
    /\ r.op = "replay" => r.at \in {"advisory", "read", "commit"}
    /\ r.op = "retry" => r.at \in {"row", "read", "commit"}
    /\ r.op = "claim" => r.at = "commit"
    /\ r.op = "complete" => r.at \in {"row", "endpoint", "commit"}
    /\ r.op = "reconcile" => r.at \in {"read", "commit"}

\* What a statement asked of a row it locked still holds.
RowHeld(r, d) ==
    /\ d \in Stored
    /\ r.op = "delete" =>
         deliveries[d].endpoint = r.endpoint /\ deliveries[d].status \notin Final
    /\ r.op = "replay" => deliveries[d].status = "exhausted"
    /\ r.op = "retry" => deliveries[d].status \in {"retry", "exhausted"}
    /\ r.op = "claim" =>
         \/ deliveries[d].status \in {"pending", "retry"}
         \/ deliveries[d].status = "delivering" /\ deliveries[d].expired
    /\ r.op = "complete" =>
         deliveries[d].status = "delivering" /\ deliveries[d].token = r.token
    /\ r.op = "reconcile" => deliveries[d].status = "delivering"
    /\ r.op = "prune" => deliveries[d].status \in Final

\* What an enqueue has read of the outbox still holds.
Counted(r) ==
    /\ r.target \cap Stored = {}
    /\ \A e \in r.found, v \in r.events : ~Duplicate(v, e)
    /\ Cardinality(Stored) + Cardinality(r.target) <= Limit + r.missing

EnqueueOK(r) ==
    r.op = "enqueue" =>
      /\ r.at = "advisory" => r.todo = {}
      /\ r.found # {} \/ r.at \in {"rows", "commit"} => \E v \in Events : r.events = {v}
      /\ r.at \in {"rows", "commit"} => Counted(r)

AdvisoryHeld(s, r) ==
    r.op \in {"enqueue", "replay", "prune"} /\ r.at # "advisory" => advisory = s

SessionOK(s, r) ==
    /\ r \in Transaction
    /\ Placed(r)
    /\ \A d \in r.locks \cap DeliveryIds : RowHeld(r, d)
    /\ EnqueueOK(r)
    /\ AdvisoryHeld(s, r)

LocksExclude == \A s, t \in Sessions : s # t => tx[s].locks \cap tx[t].locks = {}

Inv ==
    /\ TypeOK
    /\ ClaimsOK
    /\ \A s \in Sessions : SessionOK(s, tx[s])
    /\ LocksExclude
    /\ CapacityKept

-----------------------------------------------------------------------------
(* The parts of TypeOK                                                     *)

EndpointsOK == DOMAIN endpoints \subseteq Endpoints /\ \A e \in DOMAIN endpoints : endpoints[e] \in EndpointRow

Leased(row) == row.status = "delivering" <=> row.token # NoToken

DeliveriesOK == Stored \subseteq DeliveryIds /\ \A d \in Stored : deliveries[d] \in DeliveryRow /\ Leased(deliveries[d])

RowsOK == EndpointsOK /\ DeliveriesOK /\ DOMAIN claims \subseteq Tokens /\ ClaimsOK

\* The invariant is about the rows, the advisory lock and each transaction.
LEMMA InvParts ==
    Inv <=> /\ RowsOK /\ CapacityKept /\ LocksExclude
            /\ advisory \in Sessions \cup {NoSession}
            /\ tx \in [Sessions -> Transaction]
            /\ \A s \in Sessions : SessionOK(s, tx[s])
BY DEF Inv, TypeOK, RowsOK, EndpointsOK, DeliveriesOK, Leased, Stored

\* Only finitely many deliveries are stored, so that they can be counted.
LEMMA StoredFinite ==
    ASSUME DeliveriesOK
    PROVE  /\ IsFiniteSet(Stored)
           /\ Cardinality(Stored) \in Nat
<1>1. IsFiniteSet(DeliveryIds) /\ Stored \subseteq DeliveryIds
    BY PostgresAssumption DEF DeliveriesOK
<1>2. IsFiniteSet(Stored)
    BY <1>1, FS_Subset
<1> QED
    BY <1>2, FS_CardinalityType

\* A session without a transaction holds nothing.
LEMMA IdleOK == \A s : SessionOK(s, Idle)
<1>1. Idle \in Transaction
    BY DEF Idle, Transaction
<1>2. Idle.op = "idle" /\ Idle.locks = {}
    BY DEF Idle
<1> QED
    BY <1>1, <1>2 DEF SessionOK, Placed, EnqueueOK, AdvisoryHeld

\* Initially nothing is stored and every session is idle.
LEMMA InitInv == Init => Inv
<1> SUFFICES ASSUME Init PROVE Inv
    OBVIOUS
<1>1. Stored = {} /\ DOMAIN endpoints = {} /\ DOMAIN claims = {}
    BY DEF Init, Stored
<1>2. \A s \in Sessions : tx[s] = Idle
    BY DEF Init
<1>3. \A s \in Sessions : SessionOK(s, tx[s])
    BY <1>2, IdleOK
<1>4. tx \in [Sessions -> Transaction]
    BY <1>2, <1>3 DEF Init, SessionOK
<1>5. LocksExclude
    BY <1>2 DEF LocksExclude, Idle
<1>6. CapacityKept
    BY <1>1, FS_EmptySet, PostgresAssumption DEF CapacityKept
<1>7. RowsOK
    BY <1>1 DEF RowsOK, EndpointsOK, DeliveriesOK, ClaimsOK
<1> QED
    BY <1>3, <1>4, <1>5, <1>6, <1>7, InvParts DEF Init

-----------------------------------------------------------------------------
(* What the other sessions see of a step                                   *)

SameDelivery(d) ==
    /\ deliveries'[d].event = deliveries[d].event
    /\ deliveries'[d].endpoint = deliveries[d].endpoint

\* The row is as it was, but its lease may have expired.
RowKept(d) ==
    /\ d \in Stored' /\ SameDelivery(d)
    /\ deliveries'[d].status = deliveries[d].status
    /\ deliveries'[d].token = deliveries[d].token
    /\ deliveries[d].expired => deliveries'[d].expired

Undisturbed(t) ==
    /\ \A d \in tx[t].locks \cap DeliveryIds : RowKept(d)
    /\ \A d \in Stored \cap Stored' : SameDelivery(d)
    /\ Stored' \subseteq Stored \/ advisory # t
    /\ advisory = t => advisory' = t

\* A row that is kept still satisfies what was asked of it.
LEMMA RowStillHeld ==
    ASSUME NEW r, NEW d, RowHeld(r, d), RowKept(d)
    PROVE  RowHeld(r, d)'
BY DEF RowHeld, RowKept, SameDelivery

\* What an enqueue has counted still holds when nothing is added to the outbox.
LEMMA StillCounted ==
    ASSUME DeliveriesOK, NEW r \in Transaction, Counted(r), Stored' \subseteq Stored,
           \A d \in Stored' : SameDelivery(d),
           IsFiniteSet(r.target)
    PROVE  Counted(r)'
<1>1. Cardinality(Stored') <= Cardinality(Stored) /\ Cardinality(Stored') \in Nat
    BY StoredFinite, FS_Subset, FS_CardinalityType
<1>2. Cardinality(r.target) \in Nat
    BY FS_CardinalityType
<1>3. r.missing \in Nat /\ Limit \in Nat /\ Cardinality(Stored) \in Nat
    BY PostgresAssumption, StoredFinite DEF Transaction
<1>4. (Cardinality(Stored) + Cardinality(r.target) <= Limit + r.missing)'
    BY <1>1, <1>2, <1>3 DEF Counted
<1>5. \A v, e : Duplicate(v, e)' => Duplicate(v, e)
    BY DEF Duplicate, SameDelivery
<1> QED
    BY <1>4, <1>5 DEF Counted

\* A session that is not disturbed by a step keeps what it has.
LEMMA OnlookerOK ==
    ASSUME Inv, NEW t \in Sessions, NEW r, r = tx[t], Undisturbed(t)
    PROVE  SessionOK(t, r)'
<1>1. SessionOK(t, r) /\ DeliveriesOK
    BY InvParts DEF RowsOK
<1>2. r \in Transaction /\ Placed(r)
    BY <1>1 DEF SessionOK
<1>3. \A d \in r.locks \cap DeliveryIds : RowHeld(r, d)'
    BY <1>1, RowStillHeld DEF SessionOK, Undisturbed
<1>4. AdvisoryHeld(t, r)'
    BY <1>1 DEF SessionOK, AdvisoryHeld, Undisturbed
<1>5. EnqueueOK(r)'
    <2>1. CASE r.op = "enqueue" /\ r.at \in {"rows", "commit"}
        <3>1. advisory = t
            BY <1>1, <2>1 DEF SessionOK, AdvisoryHeld
        <3>2. Stored' \subseteq Stored /\ \A d \in Stored' : SameDelivery(d)
            BY <3>1 DEF Undisturbed
        <3>3. Counted(r)
            BY <1>1, <2>1 DEF SessionOK, EnqueueOK
        <3>4. IsFiniteSet(r.target)
            BY <1>2, PostgresAssumption, FS_Subset DEF Transaction
        <3>5. Counted(r)'
            BY <1>1, <1>2, <3>2, <3>3, <3>4, StillCounted
        <3> QED
            BY <1>1, <3>5 DEF SessionOK, EnqueueOK
    <2>2. CASE ~(r.op = "enqueue" /\ r.at \in {"rows", "commit"})
        BY <1>1, <2>2 DEF SessionOK, EnqueueOK
    <2> QED
        BY <2>1, <2>2
<1> QED
    BY <1>2, <1>3, <1>4, <1>5 DEF SessionOK

\* The step of one session: its transaction becomes r, the others keep theirs.
LEMMA StepInv ==
    ASSUME Inv, NEW s \in Sessions, NEW r, tx' = [tx EXCEPT ![s] = r],
           RowsOK', CapacityKept', advisory' \in Sessions \cup {NoSession},
           SessionOK(s, r)',
           \A t \in Sessions \ {s} : Undisturbed(t) /\ r.locks \cap tx[t].locks = {}
    PROVE  Inv'
<1>1. tx \in [Sessions -> Transaction] /\ LocksExclude
    BY InvParts
<1>2. r \in Transaction
    BY DEF SessionOK
<1>3. tx' \in [Sessions -> Transaction] /\ tx'[s] = r
    BY <1>1, <1>2
<1>4. \A t \in Sessions \ {s} : tx'[t] = tx[t]
    BY <1>1
<1>5. ASSUME NEW t \in Sessions PROVE SessionOK(t, tx[t])'
    <2>1. CASE t = s
        BY <1>3, <2>1 DEF SessionOK, AdvisoryHeld
    <2>2. CASE t # s
        <3> DEFINE q == tx[t]
        <3>1. PICK q0 : q0 = q
            OBVIOUS
        <3>2. SessionOK(t, q0)'
            BY <2>2, <3>1, OnlookerOK
        <3>3. tx'[t] = q0
            BY <1>4, <2>2, <3>1
        <3> QED
            BY <3>2, <3>3 DEF SessionOK
    <2> QED
        BY <2>1, <2>2
<1>6. LocksExclude'
    BY <1>1, <1>3, <1>4 DEF LocksExclude
<1> QED
    BY <1>3, <1>5, <1>6 DEF Inv, TypeOK, RowsOK, EndpointsOK, DeliveriesOK, Leased, Stored

\* What no onlooker minds: the step rewrites or removes rows its own session has locked, and
\* whoever adds rows holds the advisory lock.
LEMMA OwnRowsOnly ==
    ASSUME Inv, NEW s \in Sessions,
           \A d \in Stored \ tx[s].locks : d \in Stored' /\ deliveries'[d] = deliveries[d],
           \A d \in Stored \cap Stored' : SameDelivery(d),
           Stored' \subseteq Stored \/ advisory = s,
           \A t \in Sessions \ {s} : advisory = t => advisory' = t
    PROVE  \A t \in Sessions \ {s} : Undisturbed(t)
<1> SUFFICES ASSUME NEW t \in Sessions \ {s} PROVE Undisturbed(t)
    OBVIOUS
<1>1. SessionOK(t, tx[t]) /\ tx[s].locks \cap tx[t].locks = {}
    BY InvParts DEF LocksExclude
<1>2. \A d \in tx[t].locks \cap DeliveryIds : d \in Stored \ tx[s].locks
    BY <1>1 DEF SessionOK, RowHeld
<1>3. \A d \in tx[t].locks \cap DeliveryIds : RowKept(d)
    BY <1>2 DEF RowKept, SameDelivery
<1> QED
    BY <1>3 DEF Undisturbed

\* A statement that reads and locks: the rows stay as they are.
LEMMA MoveInv ==
    ASSUME Inv, NEW s \in Sessions, NEW r, tx' = [tx EXCEPT ![s] = r],
           UNCHANGED <<endpoints, deliveries, claims>>,
           advisory' = advisory \/ (advisory = NoSession /\ advisory' = s),
           SessionOK(s, r)',
           \A t \in Sessions \ {s} : r.locks \cap tx[t].locks = {}
    PROVE  Inv'
<1>1. Stored' = Stored
    BY DEF Stored
<1>2. RowsOK' /\ CapacityKept'
    BY <1>1, InvParts DEF RowsOK, EndpointsOK, DeliveriesOK, Leased, ClaimsOK, CapacityKept
<1>3. advisory' \in Sessions \cup {NoSession}
    BY InvParts
<1>4. \A t \in Sessions \ {s} : advisory = t => advisory' = t
    BY PostgresAssumption
<1>5. \A t \in Sessions \ {s} : Undisturbed(t)
    BY <1>1, <1>4, OwnRowsOnly DEF SameDelivery
<1> QED
    BY <1>2, <1>3, <1>5, StepInv

\* A transaction ends: what it wrote is well-typed, and only rows it had locked have changed.
LEMMA FinishInv ==
    ASSUME Inv, NEW s \in Sessions, Finish(s), RowsOK', CapacityKept',
           \A d \in Stored \ tx[s].locks : d \in Stored' /\ deliveries'[d] = deliveries[d],
           \A d \in Stored \cap Stored' : SameDelivery(d),
           Stored' \subseteq Stored \/ advisory = s
    PROVE  Inv'
<1>1. tx' = [tx EXCEPT ![s] = Idle] /\ Idle.locks = {}
    BY DEF Finish, Idle
<1>2. advisory' \in Sessions \cup {NoSession}
    BY InvParts DEF Finish
<1>3. \A t \in Sessions \ {s} : advisory = t => advisory' = t
    BY DEF Finish
<1>4. \A t \in Sessions \ {s} : Undisturbed(t)
    BY <1>3, OwnRowsOnly
<1>5. PICK r : r = Idle
    OBVIOUS
<1>6. SessionOK(s, r)'
    <2>1. Idle \in Transaction /\ Idle.op = "idle" /\ Idle.locks = {}
        BY DEF Idle, Transaction
    <2> QED
        BY <1>5, <2>1 DEF SessionOK, Placed, EnqueueOK, AdvisoryHeld
<1> QED
    BY <1>1, <1>2, <1>4, <1>5, <1>6, StepInv

\* A transaction that is rolled back, or found nothing to do, leaves the rows alone.
LEMMA LeaveInv ==
    ASSUME Inv, NEW s \in Sessions, Leave(s)
    PROVE  Inv'
<1>1. Finish(s) /\ Stored' = Stored /\ UNCHANGED <<endpoints, deliveries, claims>>
    BY DEF Leave, Stored
<1>2. RowsOK' /\ CapacityKept'
    BY <1>1, InvParts DEF RowsOK, EndpointsOK, DeliveriesOK, Leased, ClaimsOK, CapacityKept
<1> QED
    BY <1>1, <1>2, FinishInv DEF SameDelivery

\* COMMIT of new values for some of the rows that are locked.
LEMMA CommitRowsInv ==
    ASSUME Inv, NEW s \in Sessions, NEW S \in SUBSET LockedDeliveries(s), NEW f,
           CommitRows(s, S, f),
           \A d \in S : /\ f[d] \in DeliveryRow /\ Leased(f[d])
                        /\ f[d].event = deliveries[d].event
                        /\ f[d].endpoint = deliveries[d].endpoint,
           EndpointsOK', ClaimsOK', DOMAIN claims' \subseteq Tokens
    PROVE  Inv'
<1>1. /\ deliveries' = [d \in Stored |-> IF d \in S THEN f[d] ELSE deliveries[d]]
      /\ Finish(s) /\ Stored' = Stored
    BY DEF CommitRows, Stored
<1>2. S \subseteq tx[s].locks
    BY DEF LockedDeliveries
<1>3. \A d \in Stored \ tx[s].locks : d \in Stored' /\ deliveries'[d] = deliveries[d]
    BY <1>1, <1>2
<1>4. \A d \in Stored : SameDelivery(d)
    BY <1>1 DEF SameDelivery
<1>5. DeliveriesOK'
    BY <1>1, InvParts DEF RowsOK, DeliveriesOK, Leased
<1>6. CapacityKept'
    BY <1>1, InvParts DEF CapacityKept
<1> QED
    BY <1>1, <1>3, <1>4, <1>5, <1>6, FinishInv DEF RowsOK

-----------------------------------------------------------------------------
(* Statements that read and lock                                           *)

\* A free row is locked by no other session.
LEMMA FreeUnlocked ==
    ASSUME NEW s, NEW R, NEW d \in Free(s, R), NEW t \in Sessions \ {s}
    PROVE  d \in R /\ d \notin tx[t].locks
BY DEF Free, LockedByOthers

\* A statement after which the transaction is well placed and what it locked is as it wants it.
LEMMA ReadInv ==
    ASSUME Inv, NEW s \in Sessions, NEW r, Go(s, r), UNCHANGED Rows,
           SessionOK(s, r),
           \A t \in Sessions \ {s} : r.locks \cap tx[t].locks = {}
    PROVE  Inv'
<1>1. UNCHANGED <<endpoints, deliveries, claims>> /\ advisory' = advisory /\ Stored' = Stored
    BY DEF Rows, Stored
<1>2. SessionOK(s, r)'
    BY <1>1 DEF SessionOK, RowHeld, EnqueueOK, Counted, Duplicate, AdvisoryHeld, Stored
<1> QED
    BY <1>1, <1>2, MoveInv DEF Go

\* The locks of a session are disjoint from those of the others.
LEMMA OwnLocks ==
    ASSUME Inv, NEW s \in Sessions
    PROVE  /\ \A t \in Sessions \ {s} : tx[s].locks \cap tx[t].locks = {}
           /\ tx[s] \in Transaction /\ SessionOK(s, tx[s])
BY InvParts DEF LocksExclude

\* The first statement of a transaction.
LEMMA BeginInv ==
    ASSUME Inv, NEW s \in Sessions, NEW r, Begin(s, r), SessionOK(s, r),
           \A t \in Sessions \ {s} : r.locks \cap tx[t].locks = {}
    PROVE  Inv'
BY ReadInv DEF Begin, Go, Rows

Points == {"idle", "advisory", "endpoint", "row", "read", "rows", "commit"}

\* A call before it has read anything.
LEMMA CallFields ==
    ASSUME NEW op \in AllOperations, NEW at \in Points
    PROVE  /\ Call(op, at) \in Transaction
           /\ Call(op, at).op = op /\ Call(op, at).at = at
           /\ Call(op, at).found = {} /\ Call(op, at).todo = {} /\ Call(op, at).locks = {}
<1>1. Idle \in Transaction /\ Idle.found = {} /\ Idle.todo = {} /\ Idle.locks = {}
    BY DEF Idle, Transaction
<1> QED
    BY <1>1 DEF Call, Transaction, Points

\* A transaction that begins without a lock.
LEMMA BareCallInv ==
    ASSUME Inv, NEW s \in Sessions, NEW r \in Transaction, Begin(s, r), Placed(r), r.locks = {},
           r.found = {}, r.todo = {}, r.op # "idle", r.at \in {"advisory", "endpoint", "row"}
    PROVE  Inv'
<1>1. r.op = "enqueue" => r.at = "advisory"
    BY DEF Placed
<1>2. EnqueueOK(r)
    BY <1>1 DEF EnqueueOK
<1>3. AdvisoryHeld(s, r)
    BY DEF AdvisoryHeld, Placed
<1>4. SessionOK(s, r)
    BY <1>2, <1>3 DEF SessionOK
<1> QED
    BY <1>4, BeginInv

\* Calls that wait for the advisory lock, an endpoint or a delivery.
LEMMA BareCallsInv ==
    ASSUME Inv, NEW s \in Sessions,
           \/ \E e \in DOMAIN endpoints, op \in {"update", "delete", "reset"} : BeginEndpoint(s, op, e)
           \/ BeginReplay(s) \/ BeginPrune(s) \/ BeginEnqueue(s)
           \/ \E d \in Stored : BeginRetry(s, d)
           \/ \E t \in DOMAIN claims : BeginComplete(s, t)
    PROVE  Inv'
<1>0. RowsOK
    BY InvParts
<1>1. ASSUME NEW e \in DOMAIN endpoints, NEW op \in {"update", "delete", "reset"},
             BeginEndpoint(s, op, e)
      PROVE  Inv'
    <2>1. op \in AllOperations /\ "endpoint" \in Points
        BY DEF AllOperations, Points
    <2>2. PICK r : r = [Call(op, "endpoint") EXCEPT !.endpoint = e]
        OBVIOUS
    <2>3. r \in Transaction /\ r.op = op /\ r.at = "endpoint" /\ r.found = {} /\ r.todo = {} /\ r.locks = {}
        BY <1>0, <2>1, <2>2, CallFields DEF Transaction, RowsOK, EndpointsOK
    <2>4. Begin(s, r)
        BY <1>1, <2>2 DEF BeginEndpoint
    <2> QED
        BY <2>3, <2>4, BareCallInv DEF Placed
<1>2. ASSUME NEW op \in {"enqueue", "replay", "prune"}, Begin(s, Call(op, "advisory"))
      PROVE  Inv'
    <2>1. op \in AllOperations /\ "advisory" \in Points
        BY DEF AllOperations, Points
    <2>2. PICK r : r = Call(op, "advisory")
        OBVIOUS
    <2>3. r \in Transaction /\ r.op = op /\ r.at = "advisory" /\ r.found = {} /\ r.todo = {} /\ r.locks = {}
        BY <2>1, <2>2, CallFields
    <2> QED
        BY <1>2, <2>2, <2>3, BareCallInv DEF Placed
<1>3. ASSUME NEW d \in Stored, BeginRetry(s, d) PROVE Inv'
    <2>1. "retry" \in AllOperations /\ "row" \in Points
        BY DEF AllOperations, Points
    <2>2. PICK r : r = [Call("retry", "row") EXCEPT !.target = {d}]
        OBVIOUS
    <2>3. r \in Transaction /\ r.op = "retry" /\ r.at = "row" /\ r.found = {} /\ r.todo = {} /\ r.locks = {}
        BY <1>0, <2>1, <2>2, CallFields DEF Transaction, RowsOK, DeliveriesOK
    <2>4. Begin(s, r)
        BY <1>3, <2>2 DEF BeginRetry
    <2> QED
        BY <2>3, <2>4, BareCallInv DEF Placed
<1>4. ASSUME NEW t \in DOMAIN claims, BeginComplete(s, t) PROVE Inv'
    <2>1. "complete" \in AllOperations /\ "row" \in Points
        BY DEF AllOperations, Points
    <2>2. /\ t \in Tokens /\ claims[t].delivery \in DeliveryIds
          /\ claims[t].endpoint \in Endpoints \cup {NoEndpoint}
        BY <1>0 DEF RowsOK, ClaimsOK, ClaimRecord
    <2>3. PICK r : r = [Call("complete", "row") EXCEPT !.token = t, !.target = {claims[t].delivery},
                          !.endpoint = claims[t].endpoint]
        OBVIOUS
    <2>4. r \in Transaction /\ r.op = "complete" /\ r.at = "row" /\ r.found = {} /\ r.todo = {} /\ r.locks = {}
        <3>1. PICK c : c = Call("complete", "row")
            OBVIOUS
        <3>2. PICK ds, e : ds = {claims[t].delivery} /\ e = claims[t].endpoint
            OBVIOUS
        <3>3. /\ c \in Transaction /\ c.op = "complete" /\ c.at = "row" /\ c.found = {} /\ c.todo = {} /\ c.locks = {}
              /\ ds \in SUBSET DeliveryIds /\ e \in Endpoints \cup {NoEndpoint}
            BY <2>1, <2>2, <3>1, <3>2, CallFields
        <3>4. r = [c EXCEPT !.token = t, !.target = ds, !.endpoint = e]
            BY <2>3, <3>1, <3>2
        <3> QED
            BY <2>2, <3>3, <3>4 DEF Transaction
    <2>5. Begin(s, r)
        BY <1>4, <2>3 DEF BeginComplete
    <2> QED
        BY <2>4, <2>5, BareCallInv DEF Placed
<1> QED
    BY <1>1, <1>2, <1>3, <1>4 DEF BeginReplay, BeginPrune, BeginEnqueue

\* A transaction that begins with locks on rows it has just found.
LEMMA LockedCallInv ==
    ASSUME Inv, NEW s \in Sessions, NEW op \in {"claim", "reconcile"}, NEW at \in {"read", "commit"},
           op = "claim" => at = "commit",
           NEW R, NEW S \in SUBSET Free(s, R), R \subseteq Stored,
           Begin(s, [Call(op, at) EXCEPT !.locks = S]),
           \A d \in S : /\ op = "claim" => \/ deliveries[d].status \in {"pending", "retry"}
                                           \/ deliveries[d].status = "delivering" /\ deliveries[d].expired
                        /\ op = "reconcile" => deliveries[d].status = "delivering"
    PROVE  Inv'
<1>1. op \in AllOperations /\ at \in Points
    BY DEF AllOperations, Points
<1>2. \A t \in Sessions \ {s} : S \cap tx[t].locks = {}
    BY FreeUnlocked
<1>3. S \subseteq Stored /\ S \subseteq DeliveryIds
    BY InvParts DEF Free, RowsOK, DeliveriesOK
<1>4. PICK r : r = [Call(op, at) EXCEPT !.locks = S]
    OBVIOUS
<1>5. r \in Transaction /\ r.op = op /\ r.at = at /\ r.locks = S
    BY <1>1, <1>3, <1>4, CallFields DEF Transaction
<1>6. Placed(r) /\ EnqueueOK(r) /\ AdvisoryHeld(s, r)
    BY <1>5 DEF Placed, EnqueueOK, AdvisoryHeld
<1>7. \A d \in S : RowHeld(r, d)
    BY <1>3, <1>5 DEF RowHeld
<1>8. SessionOK(s, r)
    BY <1>5, <1>6, <1>7 DEF SessionOK
<1> QED
    BY <1>2, <1>4, <1>5, <1>8, BeginInv

\* claimDeliveries locks rows it may take.
LEMMA LockClaimedInv ==
    ASSUME Inv, NEW s \in Sessions, LockClaimed(s) PROVE Inv'
<1>0. PICK open \in BOOLEAN : \E S \in SUBSET UnlockedClaimable(s, open) \ {{}} :
         Begin(s, [Call("claim", "commit") EXCEPT !.locks = S])
    BY DEF LockClaimed
<1>1. PICK S \in SUBSET Free(s, Claimable(open)) : Begin(s, [Call("claim", "commit") EXCEPT !.locks = S])
    BY <1>0 DEF UnlockedClaimable
<1>2. Claimable(open) \subseteq Stored
    BY DEF Claimable
<1>3. S \subseteq Claimable(open)
    BY DEF Free
<1> QED
    BY <1>1, <1>2, <1>3, LockedCallInv DEF Claimable

\* reconcile locks rows that are being delivered.
LEMMA LockReconciledInv ==
    ASSUME Inv, NEW s \in Sessions, LockReconciled(s) PROVE Inv'
<1> DEFINE R == {d \in Stored : deliveries[d].status = "delivering"}
<1>1. PICK S \in SUBSET Free(s, R) : Begin(s, [Call("reconcile", "read") EXCEPT !.locks = S])
    BY DEF LockReconciled
<1>2. S \subseteq R /\ R \subseteq Stored
    BY DEF Free
<1>3. \A d \in S : deliveries[d].status = "delivering"
    BY <1>2
<1> HIDE DEF R
<1> QED
    BY <1>1, <1>2, <1>3, LockedCallInv

\* Where a transaction is tells which operation it may be.
LEMMA OpsAt ==
    ASSUME NEW r \in Transaction, Placed(r)
    PROVE  /\ r.at = "advisory" => r.op \in {"enqueue", "prune", "replay"}
           /\ r.at = "endpoint" => r.op \in {"update", "delete", "reset", "complete"}
           /\ r.at = "rows" => r.op \in {"enqueue", "prune", "delete"}
<1>1. r.op \in {"idle", "create", "update", "delete", "enqueue", "replay", "retry", "claim",
                "complete", "reconcile", "prune", "reset"}
    BY DEF Transaction, AllOperations
<1>2. r.op = "idle" => r.at = "idle"
    BY DEF Placed, Idle
<1>3. r.op # "create"
    BY DEF Placed
<1> QED
    BY <1>1, <1>2, <1>3 DEF Placed

\* A transaction goes on: it keeps its operation, endpoint and token, and may lock more rows.
LEMMA GoOnInv ==
    ASSUME Inv, NEW s \in Sessions, NEW r \in Transaction, Go(s, r), UNCHANGED Rows,
           r.op = tx[s].op, r.endpoint = tx[s].endpoint, r.token = tx[s].token,
           tx[s].at # "advisory", Placed(r), EnqueueOK(r),
           NEW L, r.locks \subseteq tx[s].locks \cup L,
           \A d \in L \cap DeliveryIds : RowHeld(r, d),
           \A t \in Sessions \ {s} : L \cap tx[t].locks = {}
    PROVE  Inv'
<1>1. \A d \in tx[s].locks \cap DeliveryIds : RowHeld(r, d)
    BY OwnLocks DEF SessionOK, RowHeld
<1>2. AdvisoryHeld(s, r)
    BY OwnLocks DEF SessionOK, AdvisoryHeld
<1>3. SessionOK(s, r)
    BY <1>1, <1>2 DEF SessionOK
<1>4. \A t \in Sessions \ {s} : r.locks \cap tx[t].locks = {}
    BY OwnLocks
<1> QED
    BY <1>3, <1>4, ReadInv

\* The advisory lock is free: the session that takes it has read nothing yet.
LEMMA TakeAdvisoryInv ==
    ASSUME Inv, NEW s \in Sessions, TakeAdvisory(s) PROVE Inv'
<1>1. PICK r : r = [tx[s] EXCEPT !.at = "read"]
    OBVIOUS
<1>2. tx[s] \in Transaction /\ SessionOK(s, tx[s])
    BY OwnLocks
<1>3. /\ r \in Transaction /\ r.op = tx[s].op /\ r.at = "read" /\ r.locks = tx[s].locks
      /\ r.endpoint = tx[s].endpoint /\ r.token = tx[s].token
      /\ r.found = tx[s].found /\ r.events = tx[s].events
    BY <1>1, <1>2 DEF Transaction
<1>4. tx[s].at = "advisory" /\ UNCHANGED <<endpoints, deliveries, claims>> /\ advisory' = s
      /\ advisory = NoSession /\ Stored' = Stored
    BY DEF TakeAdvisory, Stored
<1>5. tx' = [tx EXCEPT ![s] = r]
    BY <1>1 DEF TakeAdvisory, Go
<1>6. tx[s].op \in {"enqueue", "prune", "replay"}
    BY <1>2, <1>4, OpsAt DEF SessionOK
<1>7. Placed(r)
    BY <1>3, <1>6 DEF Placed
<1>8. EnqueueOK(r)'
    BY <1>2, <1>3 DEF SessionOK, EnqueueOK
<1>9. \A d \in r.locks \cap DeliveryIds : RowHeld(r, d)'
    BY <1>2, <1>3, <1>4 DEF SessionOK, RowHeld
<1>10. SessionOK(s, r)'
    BY <1>3, <1>4, <1>7, <1>8, <1>9 DEF SessionOK, AdvisoryHeld
<1> QED
    BY <1>3, <1>4, <1>5, <1>10, OwnLocks, MoveInv

\* An endpoint is locked, by an update, a deletion, a reset or a completion.
LEMMA LockEndpointInv ==
    ASSUME Inv, NEW s \in Sessions, LockEndpoint(s) PROVE Inv'
<1> DEFINE e == tx[s].endpoint
<1>1. PICK r : r = [tx[s] EXCEPT !.locks = @ \cup {e},
                           !.at = IF tx[s].op = "delete" THEN "read" ELSE "commit"]
    OBVIOUS
<1>2. tx[s] \in Transaction /\ SessionOK(s, tx[s])
    BY OwnLocks
<1>3. /\ Go(s, r) /\ UNCHANGED Rows /\ tx[s].at = "endpoint"
      /\ e \in DOMAIN endpoints /\ e \in Free(s, {e})
    BY <1>1 DEF LockEndpoint
<1>4. e \in Endpoints
    BY <1>3, InvParts DEF RowsOK, EndpointsOK
<1>5. /\ r \in Transaction /\ r.op = tx[s].op /\ r.locks = tx[s].locks \cup {e}
      /\ r.endpoint = e /\ r.token = tx[s].token
      /\ r.at = IF tx[s].op = "delete" THEN "read" ELSE "commit"
    BY <1>1, <1>2, <1>4 DEF Transaction
<1>6. tx[s].op \in {"update", "delete", "reset", "complete"}
    BY <1>2, <1>3, OpsAt DEF SessionOK
<1>7. Placed(r) /\ EnqueueOK(r)
    BY <1>5, <1>6 DEF Placed, EnqueueOK
<1>8. {e} \cap DeliveryIds = {}
    BY <1>4, PostgresAssumption
<1>9. \A t \in Sessions \ {s} : {e} \cap tx[t].locks = {}
    BY <1>3, FreeUnlocked
<1> QED
    BY <1>3, <1>5, <1>7, <1>8, <1>9, GoOnInv

\* A missing endpoint ends the transaction, or the completion goes on without it.
LEMMA MissEndpointInv ==
    ASSUME Inv, NEW s \in Sessions, MissEndpoint(s) PROVE Inv'
<1>1. CASE Leave(s)
    BY <1>1, LeaveInv
<1>2. CASE tx[s].op = "complete" /\ Go(s, [tx[s] EXCEPT !.at = "commit"]) /\ UNCHANGED Rows
    <2>1. PICK r : r = [tx[s] EXCEPT !.at = "commit"]
        OBVIOUS
    <2>2. /\ r \in Transaction /\ r.op = tx[s].op /\ r.locks = tx[s].locks /\ r.at = "commit"
          /\ r.endpoint = tx[s].endpoint /\ r.token = tx[s].token
        BY <2>1, OwnLocks DEF Transaction
    <2>3. tx[s].at # "advisory"
        BY DEF MissEndpoint
    <2>4. Placed(r) /\ EnqueueOK(r)
        BY <1>2, <2>2 DEF Placed, EnqueueOK
    <2>5. PICK L : L = {}
        OBVIOUS
    <2>6. Go(s, r) /\ UNCHANGED Rows
        BY <1>2, <2>1
    <2> QED
        BY <2>2, <2>3, <2>4, <2>5, <2>6, GoOnInv
<1> QED
    BY <1>1, <1>2 DEF MissEndpoint

\* A row a statement still wants satisfies what the statement asks for.
LEMMA SoughtHeld ==
    ASSUME NEW s, NEW d, Sought(s, d), NEW r, r.op = tx[s].op, r.op \in {"enqueue", "prune", "delete"},
           r.endpoint = tx[s].endpoint
    PROVE  RowHeld(r, d)
BY DEF Sought, RowHeld

\* The next of many rows is locked, or passed over because it is no longer wanted.
LEMMA LockNextInv ==
    ASSUME Inv, NEW s \in Sessions, LockNext(s) PROVE Inv'
<1>1. PICK d \in tx[s].todo :
         /\ Sought(s, d) => d \in Free(s, {d})
         /\ Go(s, [tx[s] EXCEPT !.todo = @ \ {d},
                                !.locks = IF Sought(s, d) THEN @ \cup {d} ELSE @,
                                !.at = IF tx[s].todo = {d} THEN "commit" ELSE @])
    BY DEF LockNext
<1>2. PICK left, L, at : /\ left = tx[s].todo \ {d}
                         /\ L = (IF Sought(s, d) THEN {d} ELSE {})
                         /\ at = (IF tx[s].todo = {d} THEN "commit" ELSE tx[s].at)
    OBVIOUS
<1>3. PICK r : r = [tx[s] EXCEPT !.todo = left, !.locks = tx[s].locks \cup L, !.at = at]
    OBVIOUS
<1>4. tx[s] \in Transaction /\ SessionOK(s, tx[s]) /\ tx[s].at = "rows" /\ UNCHANGED Rows
    BY OwnLocks DEF LockNext
<1>5. Go(s, r)
    <2>1. r = [tx[s] EXCEPT !.todo = @ \ {d},
                                !.locks = IF Sought(s, d) THEN @ \cup {d} ELSE @,
                                !.at = IF tx[s].todo = {d} THEN "commit" ELSE @]
        BY <1>2, <1>3, <1>4 DEF Transaction
    <2> QED
        BY <1>1, <2>1
<1>6. d \in DeliveryIds
    BY <1>4 DEF Transaction
<1>7. left \in SUBSET DeliveryIds /\ L \in SUBSET DeliveryIds /\ at \in {"rows", "commit"}
    BY <1>2, <1>4, <1>6 DEF Transaction
<1>8. /\ r \in Transaction /\ r.op = tx[s].op /\ r.locks = tx[s].locks \cup L /\ r.at = at
      /\ r.endpoint = tx[s].endpoint /\ r.token = tx[s].token
      /\ r.found = tx[s].found /\ r.events = tx[s].events /\ r.target = tx[s].target
      /\ r.missing = tx[s].missing
    BY <1>3, <1>4, <1>7 DEF Transaction
<1>9. tx[s].op \in {"enqueue", "prune", "delete"}
    BY <1>4, OpsAt DEF SessionOK
<1>10. Placed(r)
    BY <1>7, <1>8, <1>9 DEF Placed
<1>11. EnqueueOK(r)
    BY <1>4, <1>7, <1>8 DEF SessionOK, EnqueueOK, Counted
<1>12. \A c \in L : RowHeld(r, c)
    BY <1>2, <1>8, <1>9, SoughtHeld
<1>13. \A t \in Sessions \ {s} : L \cap tx[t].locks = {}
    BY <1>1, <1>2, FreeUnlocked
<1> QED
    BY <1>4, <1>5, <1>8, <1>10, <1>11, <1>12, <1>13, GoOnInv

\* A statement that locks nothing yet: only what has been read changes.
LEMMA GoOnBareInv ==
    ASSUME Inv, NEW s \in Sessions, NEW r \in Transaction, Go(s, r), UNCHANGED Rows,
           r.op = tx[s].op, r.endpoint = tx[s].endpoint, r.token = tx[s].token,
           r.locks = tx[s].locks, tx[s].at # "advisory", Placed(r), EnqueueOK(r)
    PROVE  Inv'
<1>1. PICK L : L = {}
    OBVIOUS
<1> QED
    BY <1>1, GoOnInv

\* deleteEndpoint chooses the deliveries it is going to exhaust.
LEMMA ReadUnfinishedInv ==
    ASSUME Inv, NEW s \in Sessions, ReadUnfinished(s) PROVE Inv'
<1>1. PICK S, at : /\ S = {d \in Stored : Sought(s, d)}
                   /\ at = (IF S = {} THEN "commit" ELSE "rows")
    OBVIOUS
<1>2. PICK r : r = [tx[s] EXCEPT !.todo = S, !.at = at]
    OBVIOUS
<1>3. Go(s, r) /\ UNCHANGED Rows /\ tx[s].op = "delete" /\ tx[s].at = "read"
    BY <1>1, <1>2 DEF ReadUnfinished, LockAll, At
<1>4. S \in SUBSET DeliveryIds /\ at \in {"commit", "rows"}
    BY <1>1, InvParts DEF RowsOK, DeliveriesOK
<1>5. /\ r \in Transaction /\ r.op = "delete" /\ r.locks = tx[s].locks /\ r.at = at
      /\ r.endpoint = tx[s].endpoint /\ r.token = tx[s].token
    BY <1>2, <1>3, <1>4, OwnLocks DEF Transaction
<1>6. Placed(r) /\ EnqueueOK(r)
    BY <1>4, <1>5 DEF Placed, EnqueueOK
<1> QED
    BY <1>3, <1>5, <1>6, GoOnBareInv

\* An enqueue reads the endpoints that take its event.
LEMMA ReadEndpointsInv ==
    ASSUME Inv, NEW s \in Sessions, ReadEndpoints(s) PROVE Inv'
<1>1. PICK v \in Events, matched \in SUBSET EnabledEndpoints :
         Go(s, [tx[s] EXCEPT !.events = {v}, !.found = matched])
    BY DEF ReadEndpoints
<1>2. PICK r : r = [tx[s] EXCEPT !.events = {v}, !.found = matched]
    OBVIOUS
<1>3. Go(s, r) /\ UNCHANGED Rows /\ tx[s].op = "enqueue" /\ tx[s].at = "read"
    BY <1>1, <1>2 DEF ReadEndpoints, At
<1>4. matched \in SUBSET Endpoints
    BY InvParts DEF EnabledEndpoints, RowsOK, EndpointsOK
<1>5. /\ r \in Transaction /\ r.op = "enqueue" /\ r.locks = tx[s].locks /\ r.at = "read"
      /\ r.endpoint = tx[s].endpoint /\ r.token = tx[s].token /\ r.events = {v}
    BY <1>2, <1>3, <1>4, OwnLocks DEF Transaction
<1>6. Placed(r) /\ EnqueueOK(r)
    BY <1>5 DEF Placed, EnqueueOK
<1> QED
    BY <1>3, <1>5, <1>6, GoOnBareInv

\* An enqueue counts the outbox and chooses what is to make room.
LEMMA InsertInv ==
    ASSUME Inv, NEW s \in Sessions, Insert(s) PROVE Inv'
<1> DEFINE over == Cardinality(Stored) + Cardinality(New(s))
           room == IF over > Limit THEN over - Limit ELSE 0
<1>1. PICK P \in SUBSET FinalRows, ids \in SUBSET FreshDeliveryIds :
         /\ Cardinality(ids) = Cardinality(New(s))
         /\ LockAll(s, [tx[s] EXCEPT !.found = New(s), !.target = ids, !.missing = room], P)
    BY DEF Insert
<1>2. tx[s] \in Transaction /\ SessionOK(s, tx[s]) /\ DeliveriesOK
      /\ UNCHANGED Rows /\ tx[s].op = "enqueue" /\ tx[s].at = "read"
    BY OwnLocks, InvParts DEF Insert, At, RowsOK
<1>3. New(s) \subseteq tx[s].found /\ New(s) \in SUBSET Endpoints
    BY <1>2 DEF New, Transaction
<1>4. Cardinality(New(s)) \in Nat /\ Cardinality(Stored) \in Nat /\ Limit \in Nat
    BY <1>2, <1>3, StoredFinite, PostgresAssumption, FS_Subset, FS_CardinalityType
<1>5. room \in Nat /\ over <= Limit + room
    BY <1>4
<1>6. PICK x, found, excess, at : /\ found = New(s) /\ excess = room
                                  /\ at = (IF P = {} THEN "commit" ELSE "rows")
                                  /\ x = [tx[s] EXCEPT !.found = found, !.target = ids, !.missing = excess]
    OBVIOUS
<1>7. PICK r : r = [x EXCEPT !.todo = P, !.at = at]
    OBVIOUS
<1>8. Go(s, r)
    BY <1>1, <1>6, <1>7 DEF LockAll
<1>9. ids \in SUBSET DeliveryIds /\ ids \cap Stored = {}
    BY DEF FreshDeliveryIds
<1>10. P \in SUBSET DeliveryIds
    BY <1>2 DEF FinalRows, DeliveriesOK
<1>11. /\ x \in Transaction /\ x.op = "enqueue" /\ x.locks = tx[s].locks
       /\ x.endpoint = tx[s].endpoint /\ x.token = tx[s].token /\ x.events = tx[s].events
       /\ x.found = found /\ x.target = ids /\ x.missing = excess
    BY <1>2, <1>3, <1>5, <1>6, <1>9 DEF Transaction
<1>12. at \in {"commit", "rows"}
    BY <1>6
<1>13. /\ r \in Transaction /\ r.op = "enqueue" /\ r.locks = tx[s].locks /\ r.at = at
       /\ r.endpoint = tx[s].endpoint /\ r.token = tx[s].token /\ r.events = tx[s].events
       /\ r.found = found /\ r.target = ids /\ r.missing = excess
    BY <1>7, <1>10, <1>11, <1>12 DEF Transaction
<1>14. Placed(r)
    BY <1>12, <1>13 DEF Placed
<1>15. Counted(r)
    <2>1. \A e \in r.found, v \in r.events : ~Duplicate(v, e)
        BY <1>6, <1>13 DEF New
    <2>2. Cardinality(Stored) + Cardinality(r.target) <= Limit + r.missing
        BY <1>1, <1>5, <1>6, <1>13
    <2> QED
        BY <1>9, <1>13, <2>1, <2>2 DEF Counted
<1>16. EnqueueOK(r)
    BY <1>2, <1>3, <1>6, <1>12, <1>13, <1>15 DEF SessionOK, EnqueueOK, Insert
<1> QED
    BY <1>2, <1>8, <1>13, <1>14, <1>16, GoOnBareInv

\* replayDeadLetters locks exhausted deliveries, skipping those that are locked.
LEMMA LockExhaustedInv ==
    ASSUME Inv, NEW s \in Sessions, LockExhausted(s) PROVE Inv'
<1>1. PICK S \in SUBSET Exhausted(s) : Go(s, [tx[s] EXCEPT !.at = "commit", !.locks = S])
    BY DEF LockExhausted
<1>2. PICK r : r = [tx[s] EXCEPT !.at = "commit", !.locks = S]
    OBVIOUS
<1>3. Go(s, r) /\ UNCHANGED Rows /\ tx[s].op = "replay" /\ tx[s].at = "read"
    BY <1>1, <1>2 DEF LockExhausted, At
<1>4. \A d \in S : d \in Stored /\ deliveries[d].status = "exhausted"
    BY DEF Exhausted, Free
<1>5. S \subseteq DeliveryIds
    BY <1>4, InvParts DEF RowsOK, DeliveriesOK
<1>6. /\ r \in Transaction /\ r.op = "replay" /\ r.locks = S /\ r.at = "commit"
      /\ r.endpoint = tx[s].endpoint /\ r.token = tx[s].token
    BY <1>2, <1>3, <1>5, OwnLocks DEF Transaction
<1>7. Placed(r) /\ EnqueueOK(r)
    BY <1>6 DEF Placed, EnqueueOK
<1>8. \A d \in S : RowHeld(r, d)
    BY <1>4, <1>6 DEF RowHeld
<1>9. \A t \in Sessions \ {s} : S \cap tx[t].locks = {}
    <2>1. PICK R : Exhausted(s) = Free(s, R)
        BY DEF Exhausted
    <2> QED
        BY <2>1, FreeUnlocked
<1> QED
    BY <1>3, <1>6, <1>7, <1>8, <1>9, GoOnInv

\* retryDelivery locks a delivery that may be queued again.
LEMMA LockRetriedInv ==
    ASSUME Inv, NEW s \in Sessions, LockRetried(s) PROVE Inv'
<1>1. PICK d \in tx[s].target \cap Free(s, Stored) :
         /\ deliveries[d].status \in {"retry", "exhausted"}
         /\ Go(s, [tx[s] EXCEPT !.at = "read", !.locks = {d}])
    BY DEF LockRetried
<1>2. PICK r : r = [tx[s] EXCEPT !.at = "read", !.locks = {d}]
    OBVIOUS
<1>3. Go(s, r) /\ UNCHANGED Rows /\ tx[s].op = "retry" /\ tx[s].at = "row"
    BY <1>1, <1>2 DEF LockRetried, At
<1>4. d \in Stored /\ d \in DeliveryIds
    BY InvParts DEF Free, RowsOK, DeliveriesOK
<1>5. /\ r \in Transaction /\ r.op = "retry" /\ r.locks = {d} /\ r.at = "read"
      /\ r.endpoint = tx[s].endpoint /\ r.token = tx[s].token
    BY <1>2, <1>3, <1>4, OwnLocks DEF Transaction
<1>6. Placed(r) /\ EnqueueOK(r)
    BY <1>5 DEF Placed, EnqueueOK
<1>7. RowHeld(r, d)
    BY <1>1, <1>4, <1>5 DEF RowHeld
<1>8. \A t \in Sessions \ {s} : {d} \cap tx[t].locks = {}
    BY FreeUnlocked
<1> QED
    BY <1>3, <1>5, <1>6, <1>7, <1>8, GoOnInv

\* retryDelivery looks at the endpoint of the delivery it has locked.
LEMMA ReadRetriedInv ==
    ASSUME Inv, NEW s \in Sessions, ReadRetried(s) PROVE Inv'
<1>1. CASE Leave(s)
    BY <1>1, LeaveInv
<1>2. CASE Go(s, [tx[s] EXCEPT !.at = "commit"]) /\ UNCHANGED Rows
    <2>1. PICK r : r = [tx[s] EXCEPT !.at = "commit"]
        OBVIOUS
    <2>2. Go(s, r) /\ UNCHANGED Rows /\ tx[s].op = "retry" /\ tx[s].at = "read"
        BY <1>2, <2>1 DEF ReadRetried, At
    <2>3. /\ r \in Transaction /\ r.op = "retry" /\ r.locks = tx[s].locks /\ r.at = "commit"
          /\ r.endpoint = tx[s].endpoint /\ r.token = tx[s].token
        BY <2>1, <2>2, OwnLocks DEF Transaction
    <2>4. Placed(r) /\ EnqueueOK(r)
        BY <2>3 DEF Placed, EnqueueOK
    <2> QED
        BY <2>2, <2>3, <2>4, GoOnBareInv
<1> QED
    BY <1>1, <1>2 DEF ReadRetried

\* completeDelivery locks the delivery while the lease is still on it.
LEMMA LockCompletedInv ==
    ASSUME Inv, NEW s \in Sessions, LockCompleted(s) PROVE Inv'
<1>1. PICK d \in tx[s].target :
         /\ Sought(s, d) /\ d \in Free(s, {d})
         /\ Go(s, [tx[s] EXCEPT !.locks = {d},
                                !.at = IF claims[tx[s].token].usable THEN "endpoint" ELSE "commit"])
    BY DEF LockCompleted
<1>2. PICK at : at = (IF claims[tx[s].token].usable THEN "endpoint" ELSE "commit")
    OBVIOUS
<1>3. PICK r : r = [tx[s] EXCEPT !.locks = {d}, !.at = at]
    OBVIOUS
<1>4. Go(s, r) /\ UNCHANGED Rows /\ tx[s].op = "complete" /\ tx[s].at = "row"
    BY <1>1, <1>2, <1>3 DEF LockCompleted, At
<1>5. d \in DeliveryIds /\ at \in {"endpoint", "commit"}
    BY <1>2, OwnLocks DEF Transaction
<1>6. /\ r \in Transaction /\ r.op = "complete" /\ r.locks = {d} /\ r.at = at
      /\ r.endpoint = tx[s].endpoint /\ r.token = tx[s].token
    BY <1>3, <1>4, <1>5, OwnLocks DEF Transaction
<1>7. Placed(r) /\ EnqueueOK(r)
    BY <1>5, <1>6 DEF Placed, EnqueueOK
<1>8. RowHeld(r, d)
    BY <1>1, <1>4, <1>6 DEF RowHeld, Sought
<1>9. \A t \in Sessions \ {s} : {d} \cap tx[t].locks = {}
    BY <1>1, FreeUnlocked
<1> QED
    BY <1>4, <1>6, <1>7, <1>8, <1>9, GoOnInv

\* reconcile reads which endpoints are enabled.
LEMMA ReadReconciledInv ==
    ASSUME Inv, NEW s \in Sessions, ReadReconciled(s) PROVE Inv'
<1>1. PICK found : found = EnabledEndpoints
    OBVIOUS
<1>2. PICK r : r = [tx[s] EXCEPT !.at = "commit", !.found = found]
    OBVIOUS
<1>3. Go(s, r) /\ UNCHANGED Rows /\ tx[s].op = "reconcile" /\ tx[s].at = "read"
    BY <1>1, <1>2 DEF ReadReconciled, At
<1>4. found \in SUBSET Endpoints
    BY <1>1, InvParts DEF EnabledEndpoints, RowsOK, EndpointsOK
<1>5. /\ r \in Transaction /\ r.op = "reconcile" /\ r.locks = tx[s].locks /\ r.at = "commit"
      /\ r.endpoint = tx[s].endpoint /\ r.token = tx[s].token
    BY <1>2, <1>3, <1>4, OwnLocks DEF Transaction
<1>6. Placed(r) /\ EnqueueOK(r)
    BY <1>5 DEF Placed, EnqueueOK
<1> QED
    BY <1>3, <1>5, <1>6, GoOnBareInv

\* prune chooses finished deliveries by name, or locks some that are free.
LEMMA ReadFinishedInv ==
    ASSUME Inv, NEW s \in Sessions, ReadFinished(s) PROVE Inv'
<1>0. /\ tx[s].op = "prune" /\ tx[s].at = "read" /\ UNCHANGED Rows
      /\ \A d \in FinalRows : d \in DeliveryIds /\ d \in Stored /\ deliveries[d].status \in Final
    BY InvParts DEF ReadFinished, At, FinalRows, RowsOK, DeliveriesOK
<1>1. ASSUME NEW named \in SUBSET FinalRows, LockAll(s, tx[s], named) PROVE Inv'
    <2>1. PICK at : at = (IF named = {} THEN "commit" ELSE "rows")
        OBVIOUS
    <2>2. PICK r : r = [tx[s] EXCEPT !.todo = named, !.at = at]
        OBVIOUS
    <2>3. Go(s, r)
        BY <1>1, <2>1, <2>2 DEF LockAll
    <2>4. at \in {"commit", "rows"} /\ named \in SUBSET DeliveryIds
        BY <1>0, <2>1
    <2>5. /\ r \in Transaction /\ r.op = "prune" /\ r.locks = tx[s].locks /\ r.at = at
          /\ r.endpoint = tx[s].endpoint /\ r.token = tx[s].token
        BY <1>0, <2>2, <2>4, OwnLocks DEF Transaction
    <2>6. Placed(r) /\ EnqueueOK(r)
        BY <2>4, <2>5 DEF Placed, EnqueueOK
    <2> QED
        BY <1>0, <2>3, <2>5, <2>6, GoOnBareInv
<1>2. ASSUME NEW S \in SUBSET Free(s, FinalRows), Go(s, [tx[s] EXCEPT !.at = "commit", !.locks = S])
      PROVE  Inv'
    <2>1. PICK r : r = [tx[s] EXCEPT !.at = "commit", !.locks = S]
        OBVIOUS
    <2>2. S \subseteq FinalRows /\ S \subseteq DeliveryIds
        BY <1>0 DEF Free
    <2>3. /\ r \in Transaction /\ r.op = "prune" /\ r.locks = S /\ r.at = "commit"
          /\ r.endpoint = tx[s].endpoint /\ r.token = tx[s].token
        BY <1>0, <2>1, <2>2, OwnLocks DEF Transaction
    <2>4. Placed(r) /\ EnqueueOK(r)
        BY <2>3 DEF Placed, EnqueueOK
    <2>5. \A d \in S : RowHeld(r, d)
        BY <1>0, <2>2, <2>3 DEF RowHeld
    <2>6. \A t \in Sessions \ {s} : S \cap tx[t].locks = {}
        BY FreeUnlocked
    <2>7. Go(s, r)
        BY <1>2, <2>1
    <2> QED
        BY <1>0, <2>3, <2>4, <2>5, <2>6, <2>7, GoOnInv
<1> QED
    BY <1>1, <1>2 DEF ReadFinished

-----------------------------------------------------------------------------
(* Commits                                                                 *)

\* A row with a new status and without a lease is a row of the same delivery.
LEMMA ReleasedRow ==
    ASSUME NEW row \in DeliveryRow, NEW st \in (Active \cup Final) \ {"delivering"}
    PROVE  LET x == Release([row EXCEPT !.status = st])
           IN  /\ x \in DeliveryRow /\ Leased(x)
               /\ x.event = row.event /\ x.endpoint = row.endpoint /\ x.status = st
BY DEF DeliveryRow, Release, Leased

\* A row that is queued again is pending and has no lease.
LEMMA RequeuedRow ==
    ASSUME NEW row \in DeliveryRow
    PROVE  /\ Requeued(row) \in DeliveryRow /\ Leased(Requeued(row))
           /\ Requeued(row).event = row.event /\ Requeued(row).endpoint = row.endpoint
           /\ Requeued(row).status = "pending"
<1>1. 0 \in 0 .. MaxAttempts
    BY PostgresAssumption
<1> QED
    BY <1>1 DEF DeliveryRow, Requeued, Release, Leased, Active

\* A commit that writes endpoints only.
LEMMA CommitEndpointsInv ==
    ASSUME Inv, NEW s \in Sessions, Finish(s), EndpointsOK', UNCHANGED <<deliveries, claims>>
    PROVE  Inv'
<1>1. Stored' = Stored
    BY DEF Stored
<1>2. RowsOK' /\ CapacityKept'
    BY <1>1, InvParts DEF RowsOK, DeliveriesOK, Leased, ClaimsOK, CapacityKept
<1> QED
    BY <1>1, <1>2, FinishInv DEF SameDelivery

\* updateEndpoint switches an endpoint on or off.
LEMMA CommitUpdateInv ==
    ASSUME Inv, NEW s \in Sessions, CommitUpdate(s) PROVE Inv'
<1>1. PICK on \in BOOLEAN : endpoints' = [endpoints EXCEPT ![tx[s].endpoint].enabled = on]
    BY DEF CommitUpdate
<1>2. EndpointsOK
    BY InvParts DEF RowsOK
<1>3. DOMAIN endpoints' = DOMAIN endpoints
    BY <1>1
<1>4. ASSUME NEW e \in DOMAIN endpoints PROVE endpoints'[e] \in EndpointRow
    BY <1>1, <1>2 DEF EndpointsOK, EndpointRow
<1> QED
    BY <1>2, <1>3, <1>4, CommitEndpointsInv DEF CommitUpdate, EndpointsOK

\* A reset closes the circuit of an endpoint.
LEMMA CommitResetInv ==
    ASSUME Inv, NEW s \in Sessions, CommitReset(s) PROVE Inv'
<1>1. endpoints' = [endpoints EXCEPT ![tx[s].endpoint].failures = 0, ![tx[s].endpoint].circuit = "closed"]
    BY DEF CommitReset
<1>2. EndpointsOK /\ 0 \in 0 .. Threshold
    BY InvParts, PostgresAssumption DEF RowsOK
<1>3. DOMAIN endpoints' = DOMAIN endpoints
    BY <1>1
<1>4. ASSUME NEW e \in DOMAIN endpoints PROVE endpoints'[e] \in EndpointRow
    BY <1>1, <1>2 DEF EndpointsOK, EndpointRow
<1> QED
    BY <1>2, <1>3, <1>4, CommitEndpointsInv DEF CommitReset, EndpointsOK

\* deleteEndpoint exhausts what it has locked and removes the endpoint.
LEMMA CommitDeleteInv ==
    ASSUME Inv, NEW s \in Sessions, CommitDelete(s) PROVE Inv'
<1>1. PICK f : f = [d \in Stored |-> Release([deliveries[d] EXCEPT !.status = "exhausted"])]
    OBVIOUS
<1>2. CommitRows(s, LockedDeliveries(s), f) /\ claims' = claims
    BY <1>1 DEF CommitDelete
<1>3. RowsOK /\ LockedDeliveries(s) \subseteq Stored
    BY InvParts DEF LockedDeliveries
<1>4. ASSUME NEW d \in Stored
      PROVE  f[d] \in DeliveryRow /\ Leased(f[d]) /\ f[d].event = deliveries[d].event
             /\ f[d].endpoint = deliveries[d].endpoint
    <2>1. "exhausted" \in (Active \cup Final) \ {"delivering"} /\ deliveries[d] \in DeliveryRow
        BY <1>3 DEF Final, RowsOK, DeliveriesOK
    <2> QED
        BY <1>1, <2>1, ReleasedRow
<1>5. EndpointsOK'
    BY <1>3 DEF CommitDelete, RowsOK, EndpointsOK
<1>6. ClaimsOK' /\ DOMAIN claims' \subseteq Tokens
    BY <1>2, <1>3 DEF RowsOK, ClaimsOK
<1> QED
    BY <1>2, <1>3, <1>4, <1>5, <1>6, CommitRowsInv

\* replayDeadLetters and retryDelivery queue what they have locked.
LEMMA CommitRequeueInv ==
    ASSUME Inv, NEW s \in Sessions, CommitReplay(s) \/ CommitRetry(s) PROVE Inv'
<1>1. PICK f : f = [d \in Stored |-> Requeued(deliveries[d])]
    OBVIOUS
<1>2. CommitRows(s, LockedDeliveries(s), f) /\ UNCHANGED <<endpoints, claims>>
    BY <1>1 DEF CommitReplay, CommitRetry
<1>3. RowsOK /\ LockedDeliveries(s) \subseteq Stored
    BY InvParts DEF LockedDeliveries
<1>4. ASSUME NEW d \in Stored
      PROVE  f[d] \in DeliveryRow /\ Leased(f[d]) /\ f[d].event = deliveries[d].event
             /\ f[d].endpoint = deliveries[d].endpoint
    BY <1>1, <1>3, RequeuedRow DEF RowsOK, DeliveriesOK
<1>5. EndpointsOK' /\ ClaimsOK' /\ DOMAIN claims' \subseteq Tokens
    BY <1>2, <1>3 DEF RowsOK, ClaimsOK, EndpointsOK
<1> QED
    BY <1>2, <1>3, <1>4, <1>5, CommitRowsInv

\* reconcile gives up the expired leases among those it has locked.
LEMMA CommitReconcileInv ==
    ASSUME Inv, NEW s \in Sessions, CommitReconcile(s) PROVE Inv'
<1> DEFINE S == {d \in LockedDeliveries(s) : deliveries[d].expired}
<1>1. PICK f : f = [d \in Stored |->
         Release([deliveries[d] EXCEPT !.status =
           IF deliveries[d].endpoint \in tx[s].found /\ deliveries[d].attempts < MaxAttempts
           THEN "retry" ELSE "exhausted"])]
    OBVIOUS
<1>2. CommitRows(s, S, f) /\ UNCHANGED <<endpoints, claims>>
    BY <1>1 DEF CommitReconcile
<1>3. RowsOK /\ S \subseteq LockedDeliveries(s) /\ S \subseteq Stored
    BY InvParts DEF LockedDeliveries
<1>4. ASSUME NEW d \in Stored
      PROVE  f[d] \in DeliveryRow /\ Leased(f[d]) /\ f[d].event = deliveries[d].event
             /\ f[d].endpoint = deliveries[d].endpoint
    <2>1. PICK st : st = (IF deliveries[d].endpoint \in tx[s].found /\ deliveries[d].attempts < MaxAttempts
                          THEN "retry" ELSE "exhausted")
        OBVIOUS
    <2>2. st \in (Active \cup Final) \ {"delivering"} /\ deliveries[d] \in DeliveryRow
        BY <1>3, <2>1 DEF Active, Final, RowsOK, DeliveriesOK
    <2>3. f[d] = Release([deliveries[d] EXCEPT !.status = st])
        BY <1>1, <2>1
    <2> QED
        BY <2>2, <2>3, ReleasedRow
<1>5. EndpointsOK' /\ ClaimsOK' /\ DOMAIN claims' \subseteq Tokens
    BY <1>2, <1>3 DEF RowsOK, ClaimsOK, EndpointsOK
<1> HIDE DEF S
<1> QED
    BY <1>2, <1>3, <1>4, <1>5, CommitRowsInv

\* prune removes what it has locked.
LEMMA CommitPruneInv ==
    ASSUME Inv, NEW s \in Sessions, CommitPrune(s) PROVE Inv'
<1>1. /\ deliveries' = [d \in Stored \ LockedDeliveries(s) |-> deliveries[d]]
      /\ Finish(s) /\ UNCHANGED <<endpoints, claims>>
    BY DEF CommitPrune, WithoutRows
<1>2. Stored' = Stored \ LockedDeliveries(s)
    BY <1>1 DEF Stored
<1>3. \A d \in Stored' : deliveries'[d] = deliveries[d]
    BY <1>1, <1>2
<1>4. RowsOK /\ CapacityKept
    BY InvParts
<1>5. RowsOK'
    BY <1>1, <1>2, <1>3, <1>4 DEF RowsOK, EndpointsOK, DeliveriesOK, Leased, ClaimsOK
<1>6. CapacityKept'
    <2>1. Cardinality(Stored') <= Cardinality(Stored) /\ Cardinality(Stored') \in Nat
             /\ Cardinality(Stored) \in Nat
        BY <1>2, <1>4, StoredFinite, FS_Subset, FS_CardinalityType DEF RowsOK
    <2> QED
        BY <1>4, <2>1, PostgresAssumption DEF CapacityKept
<1> QED
    BY <1>1, <1>2, <1>3, <1>5, <1>6, FinishInv DEF LockedDeliveries, SameDelivery

\* An enqueue that made room stores no more than the limit: what it counted still holds.
LEMMA CommitEnqueueCapacity ==
    ASSUME Inv, NEW s \in Sessions, At(s, "enqueue", "commit"),
           Cardinality(LockedDeliveries(s)) >= tx[s].missing,
           NEW T, T = (Stored \ LockedDeliveries(s)) \cup tx[s].target
    PROVE  Cardinality(T) <= Limit
<1> DEFINE L == LockedDeliveries(s)
           N == tx[s].target
<1>1. /\ tx[s] \in Transaction /\ DeliveriesOK
      /\ Cardinality(Stored) + Cardinality(N) <= Limit + tx[s].missing
    BY OwnLocks, InvParts DEF RowsOK, SessionOK, EnqueueOK, Counted, At
<1>2. tx[s].missing \in Nat /\ Limit \in Nat
    BY <1>1, PostgresAssumption DEF Transaction
<1>3. IsFiniteSet(Stored) /\ IsFiniteSet(N) /\ IsFiniteSet(L) /\ IsFiniteSet(Stored \ L)
    <2>1. IsFiniteSet(N)
        BY <1>1, PostgresAssumption, FS_Subset DEF Transaction
    <2>2. L \subseteq Stored /\ Stored \ L \subseteq Stored
        BY DEF LockedDeliveries
    <2> QED
        BY <1>1, <2>1, <2>2, StoredFinite, FS_Subset
<1>4. Cardinality(Stored \ L) = Cardinality(Stored) - Cardinality(L)
    <2>1. Stored \cap L = L
        BY DEF LockedDeliveries
    <2> QED
        BY <1>3, <2>1, FS_Difference
<1>5. /\ Cardinality(T) = Cardinality(Stored \ L) + Cardinality(N) - Cardinality((Stored \ L) \cap N)
      /\ IsFiniteSet((Stored \ L) \cap N)
    BY <1>3, FS_Union, FS_Intersection
<1>6. /\ Cardinality(Stored) \in Nat /\ Cardinality(N) \in Nat /\ Cardinality(L) \in Nat
      /\ Cardinality((Stored \ L) \cap N) \in Nat
    BY <1>3, <1>5, FS_CardinalityType
<1> HIDE DEF L, N
<1>7. Cardinality(L) >= tx[s].missing
    BY DEF L
<1> QED
    BY <1>1, <1>2, <1>4, <1>5, <1>6, <1>7

\* An enqueue stores its deliveries in place of the finished ones it has locked.
LEMMA CommitEnqueueInv ==
    ASSUME Inv, NEW s \in Sessions, CommitEnqueue(s) PROVE Inv'
<1> DEFINE new == tx[s].target
           L == LockedDeliveries(s)
<1>1. PICK target \in [new -> tx[s].found] :
         deliveries' = [d \in (Stored \ L) \cup new |->
              IF d \in new
              THEN [event |-> CHOOSE v \in tx[s].events : TRUE, endpoint |-> target[d],
                    status |-> "pending", attempts |-> 0, token |-> NoToken, expired |-> FALSE]
              ELSE deliveries[d]]
    BY Zenon DEF CommitEnqueue
<1>2. /\ At(s, "enqueue", "commit") /\ Finish(s) /\ UNCHANGED <<endpoints, claims>>
      /\ Cardinality(LockedDeliveries(s)) >= tx[s].missing
    BY DEF CommitEnqueue
<1>3. /\ tx[s] \in Transaction /\ RowsOK /\ SessionOK(s, tx[s])
    BY OwnLocks, InvParts
<1>4. new \cap Stored = {} /\ new \subseteq DeliveryIds /\ advisory = s
    BY <1>2, <1>3 DEF SessionOK, EnqueueOK, Counted, At, AdvisoryHeld, Transaction
<1>5. Stored' = (Stored \ L) \cup new
    BY <1>1 DEF Stored
<1>6. \A d \in Stored \ L : d \in Stored' /\ deliveries'[d] = deliveries[d]
    BY <1>1, <1>4, <1>5
<1>7. ASSUME NEW d \in new
      PROVE  deliveries'[d] \in DeliveryRow /\ Leased(deliveries'[d])
    <2>1. tx[s].found # {} /\ target[d] \in Endpoints
        BY <1>3 DEF Transaction
    <2>2. PICK v \in Events : tx[s].events = {v}
        BY <1>2, <1>3, <2>1 DEF SessionOK, EnqueueOK, At
    <2>3. (CHOOSE w \in tx[s].events : TRUE) = v
        BY <2>2
    <2>4. deliveries'[d] = [event |-> v, endpoint |-> target[d], status |-> "pending", attempts |-> 0,
                            token |-> NoToken, expired |-> FALSE]
        BY <1>1, <2>3
    <2>5. 0 \in 0 .. MaxAttempts
        BY PostgresAssumption
    <2> QED
        BY <2>1, <2>4, <2>5 DEF DeliveryRow, Leased, Active
<1>8. DeliveriesOK'
    BY <1>3, <1>4, <1>5, <1>6, <1>7 DEF RowsOK, DeliveriesOK, Leased
<1>9. RowsOK'
    BY <1>2, <1>3, <1>8 DEF RowsOK, EndpointsOK, ClaimsOK
<1>10. CapacityKept'
    BY <1>2, <1>5, CommitEnqueueCapacity DEF CapacityKept
<1>11. \A d \in Stored \cap Stored' : SameDelivery(d)
    BY <1>4, <1>5, <1>6 DEF SameDelivery
<1>12. \A d \in Stored \ tx[s].locks : d \in Stored \ L
    BY DEF LockedDeliveries
<1> QED
    BY <1>2, <1>4, <1>6, <1>9, <1>10, <1>11, <1>12, FinishInv

\* A claim leases what it has locked and hands the attempts out.
LEMMA CommitClaimInv ==
    ASSUME Inv, NEW s \in Sessions, CommitClaim(s) PROVE Inv'
<1> DEFINE L == LockedDeliveries(s)
<1>1. PICK f \in [L -> FreshTokens] :
         /\ CommitRows(s, L, [d \in L |->
              [deliveries[d] EXCEPT !.status = "delivering", !.token = f[d], !.expired = FALSE,
                  !.attempts = IF @ < MaxAttempts THEN @ + 1 ELSE @]])
         /\ claims' = [t \in DOMAIN claims \cup {f[d] : d \in L} |->
              IF t \in DOMAIN claims THEN claims[t]
              ELSE LET d == CHOOSE x \in L : f[x] = t
                       known == deliveries[d].endpoint \in DOMAIN endpoints IN
                   [delivery |-> d, attempt |-> deliveries'[d].attempts,
                    endpoint |-> IF known THEN deliveries[d].endpoint ELSE NoEndpoint,
                    usable |-> known /\ endpoints[deliveries[d].endpoint].enabled]]
    BY Zenon DEF CommitClaim
<1>2. RowsOK /\ endpoints' = endpoints
    BY InvParts DEF CommitClaim
<1>3. L \subseteq Stored /\ \A d \in L : f[d] \in Tokens
    BY DEF LockedDeliveries, FreshTokens
<1>4. PICK g : g = [d \in L |->
              [deliveries[d] EXCEPT !.status = "delivering", !.token = f[d], !.expired = FALSE,
                  !.attempts = IF @ < MaxAttempts THEN @ + 1 ELSE @]]
    OBVIOUS
<1>5. ASSUME NEW d \in L
      PROVE  g[d] \in DeliveryRow /\ Leased(g[d]) /\ g[d].event = deliveries[d].event
             /\ g[d].endpoint = deliveries[d].endpoint
    <2>1. deliveries[d] \in DeliveryRow
        BY <1>2, <1>3 DEF RowsOK, DeliveriesOK
    <2>2. PICK n : n = (IF deliveries[d].attempts < MaxAttempts THEN deliveries[d].attempts + 1
                        ELSE deliveries[d].attempts)
        OBVIOUS
    <2>3. n \in 0 .. MaxAttempts
        BY <2>1, <2>2, PostgresAssumption DEF DeliveryRow
    <2>4. g[d] = [deliveries[d] EXCEPT !.status = "delivering", !.token = f[d], !.expired = FALSE,
                                        !.attempts = n]
        BY <1>4, <2>1, <2>2 DEF DeliveryRow
    <2>5. f[d] \in Tokens /\ f[d] # NoToken
        BY <1>3, PostgresAssumption
    <2>6. /\ g[d] \in DeliveryRow /\ g[d].event = deliveries[d].event
          /\ g[d].endpoint = deliveries[d].endpoint
          /\ g[d].status = "delivering" /\ g[d].token = f[d]
        BY <2>1, <2>3, <2>4, <2>5 DEF DeliveryRow, Active
    <2> QED
        BY <2>5, <2>6 DEF Leased
<1>6. deliveries' = [d \in Stored |-> IF d \in L THEN g[d] ELSE deliveries[d]]
    BY <1>1, <1>4 DEF CommitRows
<1>7. EndpointsOK'
    BY <1>2 DEF RowsOK, EndpointsOK
<1>8. DOMAIN claims' \subseteq Tokens
    BY <1>1, <1>2, <1>3 DEF RowsOK
<1>9. ClaimsOK'
    <2> SUFFICES ASSUME NEW t \in DOMAIN claims' PROVE claims'[t] \in ClaimRecord
        BY DEF ClaimsOK
    <2>1. CASE t \in DOMAIN claims
        BY <1>1, <1>2, <2>1 DEF RowsOK, ClaimsOK
    <2>2. CASE t \notin DOMAIN claims
        <3>1. PICK d \in L : d = CHOOSE x \in L : f[x] = t
            BY <1>1, <2>2
        <3>3. claims'[t] = [delivery |-> d, attempt |-> deliveries'[d].attempts,
                    endpoint |-> IF deliveries[d].endpoint \in DOMAIN endpoints
                                 THEN deliveries[d].endpoint ELSE NoEndpoint,
                    usable |-> deliveries[d].endpoint \in DOMAIN endpoints
                                 /\ endpoints[deliveries[d].endpoint].enabled]
            BY <1>1, <2>2, <3>1
        <3>4. deliveries'[d].attempts \in 0 .. MaxAttempts
            BY <1>3, <1>5, <1>6 DEF DeliveryRow
        <3>5. d \in DeliveryIds
            BY <1>2, <1>3 DEF RowsOK, DeliveriesOK
        <3>6. (IF deliveries[d].endpoint \in DOMAIN endpoints THEN deliveries[d].endpoint ELSE NoEndpoint)
                \in Endpoints \cup {NoEndpoint}
            BY <1>2 DEF RowsOK, EndpointsOK
        <3>7. (deliveries[d].endpoint \in DOMAIN endpoints /\ endpoints[deliveries[d].endpoint].enabled)
                \in BOOLEAN
            OBVIOUS
        <3>8. PICK a, e, u : /\ claims'[t] = [delivery |-> d, attempt |-> a, endpoint |-> e, usable |-> u]
                             /\ a \in 0 .. MaxAttempts /\ e \in Endpoints \cup {NoEndpoint}
                             /\ u \in BOOLEAN
            BY <3>3, <3>4, <3>6, <3>7, Zenon
        <3> QED
            BY <3>5, <3>8 DEF ClaimRecord
    <2> QED
        BY <2>1, <2>2
<1>10. CommitRows(s, L, g)
    BY <1>1, <1>4
<1> QED
    BY <1>5, <1>7, <1>8, <1>9, <1>10, CommitRowsInv

\* The answer to an attempt whose lease is lost is refused.
LEMMA LeaseLostInv ==
    ASSUME Inv, NEW s \in Sessions, LeaseLost(s) PROVE Inv'
<1>1. Finish(s) /\ Stored' = Stored /\ UNCHANGED <<endpoints, deliveries>>
    BY DEF LeaseLost, Stored
<1>2. RowsOK' /\ CapacityKept'
    BY <1>1, InvParts DEF LeaseLost, Answered, RowsOK, EndpointsOK, DeliveriesOK, Leased, ClaimsOK, CapacityKept
<1> QED
    BY <1>1, <1>2, FinishInv DEF SameDelivery

\* The circuit of an endpoint after an attempt.
LEMMA CircuitType ==
    ASSUME NEW row \in EndpointRow, NEW result PROVE Circuit(row, result) \in EndpointRow
<1>1. Threshold \in Nat /\ Threshold # 0
    BY PostgresAssumption
<1>2. row.failures + 1 < Threshold => row.failures + 1 \in 0 .. Threshold
    BY <1>1 DEF EndpointRow
<1>3. 0 \in 0 .. Threshold /\ Threshold \in 0 .. Threshold /\ row.failures \in Nat
    BY <1>1 DEF EndpointRow
<1>4. [row EXCEPT !.failures = 0, !.circuit = "closed"] \in EndpointRow
    BY <1>3 DEF EndpointRow
<1>5. [row EXCEPT !.failures = Threshold, !.circuit = "open"] \in EndpointRow
    BY <1>3 DEF EndpointRow
<1>6. CASE row.failures + 1 < Threshold
    <2>1. PICK n \in 0 .. Threshold : n = row.failures + 1
        BY <1>2, <1>6
    <2>2. [row EXCEPT !.failures = @ + 1, !.circuit = "closed"] = [row EXCEPT !.failures = n, !.circuit = "closed"]
        BY <2>1 DEF EndpointRow
    <2>3. [row EXCEPT !.failures = n, !.circuit = "closed"] \in EndpointRow
        BY DEF EndpointRow
    <2> QED
        BY <1>4, <1>5, <2>2, <2>3 DEF Circuit
<1>7. CASE ~(row.failures + 1 < Threshold)
    BY <1>1, <1>3, <1>4, <1>5, <1>7 DEF Circuit
<1> QED
    BY <1>6, <1>7

\* completeDelivery settles the delivery it has locked and counts for the circuit.
LEMMA CommitCompleteInv ==
    ASSUME Inv, NEW s \in Sessions, CommitComplete(s) PROVE Inv'
<1>1. PICK result :
         /\ CommitRows(s, LockedDeliveries(s), [d \in Stored |->
              Release([deliveries[d] EXCEPT !.status = Settled(s, result)])])
         /\ endpoints' = [e \in DOMAIN endpoints |->
              IF e \in tx[s].locks THEN Circuit(endpoints[e], result) ELSE endpoints[e]]
    BY DEF CommitComplete
<1>2. PICK f : f = [d \in Stored |-> Release([deliveries[d] EXCEPT !.status = Settled(s, result)])]
    OBVIOUS
<1>3. RowsOK /\ LockedDeliveries(s) \subseteq Stored
    BY InvParts DEF LockedDeliveries
<1>4. ASSUME NEW d \in Stored
      PROVE  f[d] \in DeliveryRow /\ Leased(f[d]) /\ f[d].event = deliveries[d].event
             /\ f[d].endpoint = deliveries[d].endpoint
    <2>1. Settled(s, result) \in (Active \cup Final) \ {"delivering"} /\ deliveries[d] \in DeliveryRow
        BY <1>3 DEF Settled, Active, Final, RowsOK, DeliveriesOK
    <2> QED
        BY <1>2, <2>1, ReleasedRow
<1>5. EndpointsOK'
    BY <1>1, <1>3, CircuitType DEF RowsOK, EndpointsOK
<1>6. ClaimsOK' /\ DOMAIN claims' \subseteq Tokens
    BY <1>3 DEF CommitComplete, Answered, RowsOK, ClaimsOK
<1>7. CommitRows(s, LockedDeliveries(s), f)
    BY <1>1, <1>2
<1> QED
    BY <1>3, <1>4, <1>5, <1>6, <1>7, CommitRowsInv

-----------------------------------------------------------------------------
(* Steps that leave every transaction where it is                          *)

\* Such a step preserves the invariant if it disturbs no session.
LEMMA EnvironmentInv ==
    ASSUME Inv, UNCHANGED <<tx, advisory>>, RowsOK', CapacityKept',
           \A t \in Sessions : Undisturbed(t)
    PROVE  Inv'
<1>1. ASSUME NEW t \in Sessions PROVE SessionOK(t, tx[t])'
    <2>1. PICK r : r = tx[t]
        OBVIOUS
    <2>2. SessionOK(t, r)' /\ tx'[t] = r
        BY <2>1, OnlookerOK
    <2> QED
        BY <2>2 DEF SessionOK
<1>2. LocksExclude'
    BY InvParts DEF LocksExclude
<1>3. advisory' \in Sessions \cup {NoSession} /\ tx' \in [Sessions -> Transaction]
    BY InvParts
<1> QED
    BY <1>1, <1>2, <1>3 DEF Inv, TypeOK, RowsOK, EndpointsOK, DeliveriesOK, Leased, Stored

\* createEndpoint, in one statement.
LEMMA CreateEndpointInv ==
    ASSUME Inv, NEW s \in Sessions, NEW e \in Endpoints, CreateEndpoint(s, e) PROVE Inv'
<1>1. /\ UNCHANGED <<tx, advisory, deliveries, claims>> /\ Stored' = Stored
      /\ endpoints' = [x \in DOMAIN endpoints \cup {e} |->
         IF x = e THEN [enabled |-> TRUE, failures |-> 0, circuit |-> "closed"] ELSE endpoints[x]]
    BY DEF CreateEndpoint, Stored
<1>2. RowsOK /\ CapacityKept
    BY InvParts
<1>3. 0 \in 0 .. Threshold
    BY PostgresAssumption
<1>4. EndpointsOK'
    BY <1>1, <1>2, <1>3 DEF RowsOK, EndpointsOK, EndpointRow
<1>5. RowsOK' /\ CapacityKept'
    BY <1>1, <1>2, <1>4 DEF RowsOK, DeliveriesOK, Leased, ClaimsOK, CapacityKept
<1>6. \A t \in Sessions : Undisturbed(t)
    BY <1>1, InvParts DEF Undisturbed, RowKept, SameDelivery, SessionOK, RowHeld
<1> QED
    BY <1>1, <1>5, <1>6, EnvironmentInv

\* A lease expires.
LEMMA ExpireInv ==
    ASSUME Inv, NEW d, Expire(d) PROVE Inv'
<1>1. /\ UNCHANGED <<tx, advisory, endpoints, claims>> /\ Stored' = Stored /\ d \in Stored
      /\ deliveries' = [deliveries EXCEPT ![d].expired = TRUE]
    BY DEF Expire, Stored
<1>2. RowsOK /\ CapacityKept
    BY InvParts
<1>3. ASSUME NEW c \in Stored
      PROVE  /\ deliveries'[c] \in DeliveryRow /\ Leased(deliveries'[c]) /\ RowKept(c)
    BY <1>1, <1>2 DEF RowsOK, DeliveriesOK, DeliveryRow, Leased, RowKept, SameDelivery, Stored
<1>4. RowsOK' /\ CapacityKept'
    BY <1>1, <1>2, <1>3 DEF RowsOK, EndpointsOK, DeliveriesOK, Leased, ClaimsOK, CapacityKept
<1>5. \A t \in Sessions : Undisturbed(t)
    BY <1>1, <1>3, InvParts DEF Undisturbed, RowKept, SessionOK, RowHeld
<1> QED
    BY <1>1, <1>4, <1>5, EnvironmentInv

\* The process that makes an attempt dies.
LEMMA AbandonInv ==
    ASSUME Inv, NEW t, Abandon(t) PROVE Inv'
<1>1. UNCHANGED <<tx, advisory, endpoints, deliveries>> /\ Stored' = Stored
    BY DEF Abandon, Stored
<1>2. RowsOK' /\ CapacityKept'
    BY <1>1, InvParts DEF Abandon, Answered, RowsOK, EndpointsOK, DeliveriesOK, Leased, ClaimsOK, CapacityKept
<1>3. \A u \in Sessions : Undisturbed(u)
    BY <1>1, InvParts DEF Undisturbed, RowKept, SameDelivery, SessionOK, RowHeld
<1> QED
    BY <1>1, <1>2, <1>3, EnvironmentInv

\* Every step preserves the invariant.
LEMMA NextInv == Inv /\ [Next]_vars => Inv'
<1> SUFFICES ASSUME Inv, [Next]_vars PROVE Inv'
    OBVIOUS
<1>1. ASSUME NEW s \in Sessions, Start(s) PROVE Inv'
    BY <1>1, CreateEndpointInv, BareCallsInv, LockClaimedInv, LockReconciledInv DEF Start
<1>2. ASSUME NEW s \in Sessions, Continue(s) PROVE Inv'
    <2>1. CASE TakeAdvisory(s) \/ LockEndpoint(s) \/ MissEndpoint(s) \/ LockNext(s)
        BY <2>1, TakeAdvisoryInv, LockEndpointInv, MissEndpointInv, LockNextInv
    <2>2. CASE \/ ReadUnfinished(s) \/ ReadEndpoints(s) \/ Insert(s) \/ LockExhausted(s)
               \/ LockRetried(s) \/ ReadRetried(s) \/ LockCompleted(s) \/ ReadReconciled(s)
               \/ ReadFinished(s)
        BY <2>2, ReadUnfinishedInv, ReadEndpointsInv, InsertInv, LockExhaustedInv, LockRetriedInv,
           ReadRetriedInv, LockCompletedInv, ReadReconciledInv, ReadFinishedInv
    <2>3. CASE \/ CommitUpdate(s) \/ CommitReset(s) \/ CommitDelete(s) \/ CommitEnqueue(s)
               \/ CommitReplay(s) \/ CommitRetry(s) \/ CommitClaim(s) \/ LeaseLost(s)
               \/ CommitComplete(s) \/ CommitReconcile(s) \/ CommitPrune(s)
        BY <2>3, CommitUpdateInv, CommitResetInv, CommitDeleteInv, CommitEnqueueInv, CommitRequeueInv,
           CommitClaimInv, LeaseLostInv, CommitCompleteInv, CommitReconcileInv, CommitPruneInv
    <2>4. CASE NoneMatched(s) \/ EnqueueRejected(s) \/ NotRetried(s)
        BY <2>4, LeaveInv DEF NoneMatched, EnqueueRejected, NotRetried
    <2> QED
        BY <1>2, <2>1, <2>2, <2>3, <2>4 DEF Continue
<1>3. ASSUME NEW s \in Sessions, Rollback(s) \/ DeadlockVictim(s) PROVE Inv'
    BY <1>3, LeaveInv DEF Rollback, DeadlockVictim
<1>4. ASSUME NEW d \in DeliveryIds, Expire(d) PROVE Inv'
    BY <1>4, ExpireInv
<1>5. ASSUME NEW t \in Tokens, Abandon(t) PROVE Inv'
    BY <1>5, AbandonInv
<1>6. CASE UNCHANGED vars
    <2>1. UNCHANGED <<tx, advisory, endpoints, deliveries, claims>> /\ Stored' = Stored
        BY <1>6 DEF vars, Stored
    <2>2. RowsOK' /\ CapacityKept'
        BY <2>1, InvParts DEF RowsOK, EndpointsOK, DeliveriesOK, Leased, ClaimsOK, CapacityKept
    <2>3. \A u \in Sessions : Undisturbed(u)
        BY <2>1, InvParts DEF Undisturbed, RowKept, SameDelivery, SessionOK, RowHeld
    <2> QED
        BY <2>1, <2>2, <2>3, EnvironmentInv
<1> QED
    BY <1>1, <1>2, <1>3, <1>4, <1>5, <1>6 DEF Next

\* The invariant holds in every reachable state.
THEOREM Invariance == Spec => []Inv
BY InitInv, NextInv, PTL DEF Spec

\* Every row can be read back with the schema of the outbox: a delivery has a lease token exactly
\* while it is being delivered, whatever transactions interleave.
THEOREM TypeCorrectness == Spec => []TypeOK
<1>1. Inv => TypeOK
    BY DEF Inv
<1> QED
    BY <1>1, Invariance, PTL

\* Concurrent enqueues never store more than the limit: the one that has counted is alone with the
\* advisory lock until it commits, and what it has locked to make room is still there.
THEOREM CapacityRespected == Spec => []CapacityKept
<1>1. Inv => CapacityKept
    BY DEF Inv
<1> QED
    BY <1>1, Invariance, PTL

-----------------------------------------------------------------------------
(* Leases that have not expired                                            *)

Live(d) == deliveries[d].status = "delivering" /\ ~deliveries[d].expired

LeaseRespected(d) ==
    Live(d) /\ d \in Stored' /\ deliveries'[d].token # deliveries[d].token
    => \/ deliveries[d].endpoint \notin DOMAIN endpoints'
       \/ deliveries'[d].status # "pending" /\ deliveries[d].token \notin DOMAIN claims'

\* A commit takes a lease that has not expired only with its endpoint, or as its owner.
LEMMA CommitLease ==
    ASSUME Inv, NEW s \in Sessions, NEW S \in SUBSET LockedDeliveries(s), NEW f, CommitRows(s, S, f),
           \A d \in S :
             \/ ~Live(d)
             \/ deliveries[d].endpoint \notin DOMAIN endpoints'
             \/ f[d].status # "pending" /\ deliveries[d].token \notin DOMAIN claims'
    PROVE  \A d \in Stored : LeaseRespected(d)
<1>1. deliveries' = [d \in Stored |-> IF d \in S THEN f[d] ELSE deliveries[d]]
    BY DEF CommitRows
<1> QED
    BY <1>1 DEF LeaseRespected

\* What a transaction has locked is as it wants it when it commits.
LEMMA LockedHeld ==
    ASSUME Inv, NEW s \in Sessions
    PROVE  \A d \in LockedDeliveries(s) : RowHeld(tx[s], d)
BY InvParts DEF LockedDeliveries, SessionOK, RowsOK, DeliveriesOK

\* No step takes a lease that has not expired from its owner, unless the endpoint goes.
LEMMA StepLease == Inv /\ [Next]_vars => \A d \in Stored : LeaseRespected(d)
<1> SUFFICES ASSUME Inv, [Next]_vars PROVE \A d \in Stored : LeaseRespected(d)
    OBVIOUS
<1> DEFINE Respected == \A d \in Stored : LeaseRespected(d)
<1>1. CASE UNCHANGED deliveries
    BY <1>1 DEF LeaseRespected
<1>2. ASSUME NEW s \in Sessions, CommitDelete(s) PROVE Respected
    <2>1. \A d \in LockedDeliveries(s) : deliveries[d].endpoint \notin DOMAIN endpoints'
        BY <1>2, LockedHeld DEF CommitDelete, RowHeld, At
    <2> QED
        BY <1>2, <2>1, CommitLease DEF CommitDelete
<1>3. ASSUME NEW s \in Sessions, CommitReplay(s) \/ CommitRetry(s) PROVE Respected
    <2>1. \A d \in LockedDeliveries(s) : ~Live(d)
        BY <1>3, LockedHeld DEF CommitReplay, CommitRetry, RowHeld, At, Live
    <2> QED
        BY <1>3, <2>1, CommitLease DEF CommitReplay, CommitRetry
<1>4. ASSUME NEW s \in Sessions, CommitClaim(s) PROVE Respected
    <2>1. \A d \in LockedDeliveries(s) : ~Live(d)
        BY <1>4, LockedHeld DEF CommitClaim, RowHeld, At, Live
    <2>2. PICK g : CommitRows(s, LockedDeliveries(s), g)
        BY <1>4 DEF CommitClaim
    <2> QED
        BY <2>1, <2>2, CommitLease
<1>5. ASSUME NEW s \in Sessions, CommitReconcile(s) PROVE Respected
    <2>1. PICK S, g : S \in SUBSET LockedDeliveries(s) /\ CommitRows(s, S, g) /\ \A d \in S : ~Live(d)
        BY <1>5 DEF CommitReconcile, Live
    <2> QED
        BY <2>1, CommitLease
<1>6. ASSUME NEW s \in Sessions, CommitComplete(s) PROVE Respected
    <2>1. PICK result : CommitRows(s, LockedDeliveries(s), [d \in Stored |->
              Release([deliveries[d] EXCEPT !.status = Settled(s, result)])])
        BY <1>6 DEF CommitComplete
    <2>2. PICK f : f = [d \in Stored |-> Release([deliveries[d] EXCEPT !.status = Settled(s, result)])]
        OBVIOUS
    <2>3. ASSUME NEW d \in LockedDeliveries(s)
          PROVE  f[d].status # "pending" /\ deliveries[d].token \notin DOMAIN claims'
        <3>1. d \in Stored /\ deliveries[d] \in DeliveryRow
            BY InvParts DEF LockedDeliveries, RowsOK, DeliveriesOK
        <3>2. Settled(s, result) \in (Active \cup Final) \ {"delivering"} /\ Settled(s, result) # "pending"
            BY DEF Settled, Active, Final
        <3>3. f[d].status # "pending"
            BY <2>2, <3>1, <3>2, ReleasedRow
        <3>4. deliveries[d].token = tx[s].token
            BY <1>6, LockedHeld DEF CommitComplete, RowHeld, At
        <3> QED
            BY <1>6, <3>3, <3>4 DEF CommitComplete, Answered
    <2>4. CommitRows(s, LockedDeliveries(s), f)
        BY <2>1, <2>2
    <2> QED
        BY <2>3, <2>4, CommitLease
<1>7. ASSUME NEW s \in Sessions, CommitEnqueue(s) PROVE Respected
    <2>1. tx[s].target \cap Stored = {}
        BY <1>7, OwnLocks DEF CommitEnqueue, SessionOK, EnqueueOK, Counted, At
    <2>2. \A d \in Stored \cap Stored' : deliveries'[d] = deliveries[d]
        BY <1>7, <2>1 DEF CommitEnqueue, Stored
    <2> QED
        BY <2>2 DEF LeaseRespected
<1>8. ASSUME NEW s \in Sessions, CommitPrune(s) PROVE Respected
    BY <1>8 DEF CommitPrune, WithoutRows, LeaseRespected, Stored
<1>9. ASSUME NEW d, Expire(d) PROVE Respected
    <2>1. \A c \in Stored : deliveries'[c].token = deliveries[c].token
        BY <1>9, InvParts DEF Expire, RowsOK, DeliveriesOK, DeliveryRow, Stored
    <2> QED
        BY <2>1 DEF LeaseRespected
<1>10. ASSUME NEW s \in Sessions, Start(s) PROVE Respected
    BY <1>1, <1>10 DEF Start, CreateEndpoint, BeginEndpoint, BeginReplay, BeginPrune, BeginEnqueue,
       BeginRetry, LockClaimed, LockReconciled, BeginComplete, Begin
<1>11. ASSUME NEW s \in Sessions, Continue(s) PROVE Respected
    <2>1. CASE TakeAdvisory(s) \/ LockEndpoint(s) \/ MissEndpoint(s) \/ LockNext(s)
        BY <1>1, <2>1 DEF TakeAdvisory, LockEndpoint, MissEndpoint, LockNext, Leave, Rows
    <2>2. CASE \/ ReadUnfinished(s) \/ ReadEndpoints(s) \/ Insert(s) \/ LockExhausted(s)
               \/ LockRetried(s) \/ ReadRetried(s) \/ LockCompleted(s) \/ ReadReconciled(s)
               \/ ReadFinished(s)
        BY <1>1, <2>2 DEF ReadUnfinished, ReadEndpoints, Insert, LockExhausted, LockRetried, ReadRetried,
           LockCompleted, ReadReconciled, ReadFinished, Leave, Rows
    <2>3. CASE CommitUpdate(s) \/ CommitReset(s) \/ LeaseLost(s)
        BY <1>1, <2>3 DEF CommitUpdate, CommitReset, LeaseLost
    <2>4. CASE \/ CommitDelete(s) \/ CommitEnqueue(s) \/ CommitReplay(s) \/ CommitRetry(s)
               \/ CommitClaim(s) \/ CommitComplete(s) \/ CommitReconcile(s) \/ CommitPrune(s)
        BY <2>4, <1>2, <1>3, <1>4, <1>5, <1>6, <1>7, <1>8
    <2>5. CASE NoneMatched(s) \/ EnqueueRejected(s) \/ NotRetried(s)
        BY <1>1, <2>5 DEF NoneMatched, EnqueueRejected, NotRetried, Leave
    <2> QED
        BY <1>11, <2>1, <2>2, <2>3, <2>4, <2>5 DEF Continue
<1>12. ASSUME NEW s \in Sessions, Rollback(s) \/ DeadlockVictim(s) PROVE Respected
    BY <1>1, <1>12 DEF Rollback, DeadlockVictim, Leave
<1>13. ASSUME NEW t, Abandon(t) PROVE Respected
    BY <1>1, <1>13 DEF Abandon
<1>14. CASE UNCHANGED vars
    BY <1>1, <1>14 DEF vars
<1> QED
    BY <1>9, <1>10, <1>11, <1>12, <1>13, <1>14 DEF Next

\* No claim, retry, replay or reconciliation takes a delivery from a lease that has not expired,
\* although its rows were chosen by an earlier statement.
THEOREM LiveLeaseRespected == Spec => LiveLeaseKept
<1>1. Inv /\ [Next]_vars =>
        [\A d \in Stored :
         (/\ deliveries[d].status = "delivering" /\ ~deliveries[d].expired
          /\ d \in DOMAIN deliveries' /\ deliveries'[d].token # deliveries[d].token)
         => \/ deliveries[d].endpoint \notin DOMAIN endpoints'
            \/ deliveries'[d].status # "pending" /\ deliveries[d].token \notin DOMAIN claims']_vars
    BY StepLease DEF LeaseRespected, Live, Stored
<1> QED
    BY <1>1, Invariance, PTL DEF Spec, LiveLeaseKept

-----------------------------------------------------------------------------
(* The transactions implement the lifecycle of deliveries                  *)

Row(d) ==
    [event |-> deliveries[d].event, endpoint |-> deliveries[d].endpoint,
     status |-> deliveries[d].status]

stored == [d \in Stored |-> Row(d)]

Wanted(r) == IF r.op = "enqueue" THEN r.todo \cup r.locks ELSE {}

chosen ==
    {d \in Stored : \E s \in Sessions : tx[s].op = "enqueue" /\ d \in tx[s].todo \cup tx[s].locks}

\* The session wants nothing more to make room than finished deliveries it has just chosen.
ChoiceKept(s) == Wanted(tx'[s]) \subseteq Wanted(tx[s]) \cup FinalRows

Choice == chosen' \subseteq chosen \cup FinalRows

\* What the sessions have chosen to make room was finished when it was chosen: a delivery that is
\* added cannot have been chosen, because whoever chooses holds the advisory lock.
LEMMA StepChoice ==
    ASSUME Inv, NEW s \in Sessions, \A t \in Sessions \ {s} : tx'[t] = tx[t],
           DeliveriesOK', ChoiceKept(s),
           Stored' \subseteq Stored \/ (advisory = s /\ Wanted(tx'[s]) = {})
    PROVE  Choice
<1> SUFFICES ASSUME NEW d \in Stored', NEW t \in Sessions, d \in Wanted(tx'[t])
             PROVE  d \in chosen \cup FinalRows
    BY DEF Choice, chosen, Wanted
<1>1. CASE t = s
    <2>1. d \in Stored
        BY <1>1
    <2>2. d \in Wanted(tx[s]) \cup FinalRows
        BY <1>1 DEF ChoiceKept
    <2> QED
        BY <2>1, <2>2 DEF chosen, Wanted
<1>2. CASE t # s
    <2>1. d \in Wanted(tx[t]) /\ tx[t].op = "enqueue"
        BY <1>2 DEF Wanted
    <2>2. CASE d \in tx[t].locks
        <3>1. d \in DeliveryIds
            BY DEF DeliveriesOK
        <3>2. d \in Stored
            BY <2>2, <3>1, OwnLocks DEF SessionOK, RowHeld
        <3> QED
            BY <2>1, <3>2 DEF chosen, Wanted
    <2>3. CASE d \notin tx[t].locks
        <3>1. d \in tx[t].todo
            BY <2>1, <2>3 DEF Wanted
        <3>2. tx[t].at # "advisory" /\ SessionOK(t, tx[t])
            BY <2>1, <3>1, OwnLocks DEF SessionOK, EnqueueOK
        <3>3. advisory = t
            BY <2>1, <3>2 DEF SessionOK, AdvisoryHeld
        <3>4. d \in Stored
            BY <1>2, <3>3
        <3> QED
            BY <2>1, <3>4 DEF chosen, Wanted
    <2> QED
        BY <2>2, <2>3
<1> QED
    BY <1>1, <1>2

\* The finished deliveries of the outbox are those of the lifecycle.
LEMMA FinishedRows == Outbox!With(Outbox!Finished) = FinalRows
BY DEF Outbox!With, Outbox!Finished, FinalRows, Final

\* A step that is the step of the lifecycle on the rows and chooses well is one of it.
LEMMA LifecycleStep ==
    ASSUME Choice,
           \/ UNCHANGED stored \/ Outbox!Claim \/ Outbox!Settle \/ Outbox!Requeue \/ Outbox!Exhaust
           \/ Outbox!Remove \/ Outbox!Enqueue
    PROVE  Outbox!NextLifecycle
BY FinishedRows DEF Outbox!NextLifecycle, Outbox!Choose, Choice, stored, Row, chosen, Wanted

\* A commit that gives the rows in S the statuses g changes the deliveries in S alike.
LEMMA RowsChange ==
    ASSUME NEW s, NEW S \in SUBSET Stored, NEW f, NEW g, CommitRows(s, S, f),
           \A d \in S : /\ f[d].event = deliveries[d].event
                        /\ f[d].endpoint = deliveries[d].endpoint
                        /\ f[d].status = g[d]
    PROVE  Outbox!Change(S, g)
<1>1. deliveries' = [d \in Stored |-> IF d \in S THEN f[d] ELSE deliveries[d]] /\ Stored' = Stored
    BY DEF CommitRows, Stored
<1>2. stored' = [d \in Stored |-> IF d \in S THEN [stored[d] EXCEPT !.status = g[d]] ELSE stored[d]]
    <2> DEFINE h == [d \in Stored |-> IF d \in S THEN [stored[d] EXCEPT !.status = g[d]] ELSE stored[d]]
    <2>1. ASSUME NEW d \in Stored PROVE Row(d)' = h[d]
        <3>1. CASE d \in S
            <4>1. Row(d)' = [event |-> deliveries[d].event, endpoint |-> deliveries[d].endpoint,
                             status |-> g[d]]
                BY <1>1, <3>1 DEF Row
            <4>2. stored[d] = [event |-> deliveries[d].event, endpoint |-> deliveries[d].endpoint,
                               status |-> deliveries[d].status]
                BY DEF stored, Row
            <4> QED
                BY <3>1, <4>1, <4>2
        <3>2. CASE d \notin S
            BY <1>1, <3>2 DEF Row, stored
        <3> QED
            BY <3>1, <3>2
    <2> HIDE DEF h
    <2>2. stored' = [d \in Stored |-> Row(d)']
        BY <1>1 DEF stored
    <2>3. stored' = [d \in Stored |-> h[d]]
        BY <2>1, <2>2
    <2> QED
        BY <2>3 DEF h
<1> QED
    BY <1>2 DEF Outbox!Change, stored, Row

\* What a status says in the lifecycle.
LEMMA WithRows == \A statuses : Outbox!With(statuses) = {d \in Stored : deliveries[d].status \in statuses}
BY DEF Outbox!With

\* replayDeadLetters and retryDelivery queue deliveries again that wait or are exhausted.
LEMMA RequeueStep ==
    ASSUME Inv, NEW s \in Sessions, CommitReplay(s) \/ CommitRetry(s) PROVE Outbox!Requeue
<1> DEFINE S == LockedDeliveries(s)
<1>1. PICK f : f = [d \in Stored |-> Requeued(deliveries[d])]
    OBVIOUS
<1>2. PICK g : g = [d \in S |-> "pending"]
    OBVIOUS
<1>3. CommitRows(s, S, f)
    BY <1>1 DEF CommitReplay, CommitRetry
<1>4. S \in SUBSET Stored /\ \A d \in Stored : deliveries[d] \in DeliveryRow
    BY InvParts DEF LockedDeliveries, RowsOK, DeliveriesOK
<1>5. \A d \in S : /\ f[d].event = deliveries[d].event
                   /\ f[d].endpoint = deliveries[d].endpoint
                   /\ f[d].status = g[d]
    BY <1>1, <1>2, <1>4, RequeuedRow
<1>6. S \in SUBSET Outbox!With({"retry", "exhausted"})
    BY <1>4, LockedHeld, WithRows DEF CommitReplay, CommitRetry, RowHeld, At
<1>7. Outbox!Change(S, g)
    BY <1>3, <1>4, <1>5, RowsChange
<1> HIDE DEF S
<1> QED
    BY <1>2, <1>6, <1>7 DEF Outbox!Requeue

\* deleteEndpoint exhausts unfinished deliveries.
LEMMA ExhaustStep ==
    ASSUME Inv, NEW s \in Sessions, CommitDelete(s) PROVE Outbox!Exhaust
<1> DEFINE S == LockedDeliveries(s)
<1>1. PICK f : f = [d \in Stored |-> Release([deliveries[d] EXCEPT !.status = "exhausted"])]
    OBVIOUS
<1>2. PICK g : g = [d \in S |-> "exhausted"]
    OBVIOUS
<1>3. CommitRows(s, S, f)
    BY <1>1 DEF CommitDelete
<1>4. S \in SUBSET Stored /\ \A d \in Stored : deliveries[d] \in DeliveryRow
    BY InvParts DEF LockedDeliveries, RowsOK, DeliveriesOK
<1>5. ASSUME NEW d \in S
      PROVE  /\ f[d].event = deliveries[d].event
             /\ f[d].endpoint = deliveries[d].endpoint
             /\ f[d].status = g[d]
    <2>1. "exhausted" \in (Active \cup Final) \ {"delivering"}
        BY DEF Final
    <2> QED
        BY <1>1, <1>2, <1>4, <2>1, ReleasedRow
<1>6. S \in SUBSET Outbox!With(Outbox!Unfinished)
    <2>1. \A d \in S : deliveries[d].status \in Active \cup Final /\ deliveries[d].status \notin Final
        BY <1>4, LockedHeld DEF CommitDelete, RowHeld, At, DeliveryRow
    <2> QED
        BY <1>4, <2>1, WithRows DEF Outbox!Unfinished, Active
<1>7. Outbox!Change(S, g)
    BY <1>3, <1>4, <1>5, RowsChange
<1> HIDE DEF S
<1> QED
    BY <1>2, <1>6, <1>7 DEF Outbox!Exhaust

\* A claim takes unfinished deliveries.
LEMMA ClaimStep ==
    ASSUME Inv, NEW s \in Sessions, CommitClaim(s) PROVE Outbox!Claim
<1> DEFINE S == LockedDeliveries(s)
<1>1. PICK tok \in [S -> FreshTokens] :
         CommitRows(s, S, [d \in S |->
              [deliveries[d] EXCEPT !.status = "delivering", !.token = tok[d], !.expired = FALSE,
                  !.attempts = IF @ < MaxAttempts THEN @ + 1 ELSE @]])
    BY DEF CommitClaim
<1>2. PICK f : f = [d \in S |->
              [deliveries[d] EXCEPT !.status = "delivering", !.token = tok[d], !.expired = FALSE,
                  !.attempts = IF @ < MaxAttempts THEN @ + 1 ELSE @]]
    OBVIOUS
<1>3. PICK g : g = [d \in S |-> "delivering"]
    OBVIOUS
<1>4. S \in SUBSET Stored /\ \A d \in Stored : deliveries[d] \in DeliveryRow
    BY InvParts DEF LockedDeliveries, RowsOK, DeliveriesOK
<1>5. \A d \in S : /\ f[d].event = deliveries[d].event
                   /\ f[d].endpoint = deliveries[d].endpoint
                   /\ f[d].status = g[d]
    BY <1>2, <1>3, <1>4 DEF DeliveryRow
<1>6. S \in SUBSET Outbox!With(Outbox!Unfinished)
    BY <1>4, LockedHeld, WithRows DEF CommitClaim, RowHeld, At, Outbox!Unfinished
<1>7. CommitRows(s, S, f)
    BY <1>1, <1>2
<1>8. Outbox!Change(S, g)
    BY <1>4, <1>5, <1>7, RowsChange
<1> HIDE DEF S
<1> QED
    BY <1>3, <1>6, <1>8 DEF Outbox!Claim

\* An attempt is answered, or its expired lease is given up.
LEMMA SettleStep ==
    ASSUME Inv, NEW s \in Sessions, CommitComplete(s) \/ CommitReconcile(s) PROVE Outbox!Settle
<1>1. PICK S \in SUBSET LockedDeliveries(s), st \in [Stored -> Outbox!Finished \cup {"retry"}] :
         CommitRows(s, S, [d \in Stored |-> Release([deliveries[d] EXCEPT !.status = st[d]])])
    <2>1. CASE CommitComplete(s)
        <3>1. PICK result : CommitRows(s, LockedDeliveries(s), [d \in Stored |->
              Release([deliveries[d] EXCEPT !.status = Settled(s, result)])])
            BY <2>1 DEF CommitComplete
        <3>2. Settled(s, result) \in Outbox!Finished \cup {"retry"}
            BY DEF Settled, Outbox!Finished
        <3>3. PICK st \in [Stored -> Outbox!Finished \cup {"retry"}] : st = [d \in Stored |-> Settled(s, result)]
            BY <3>2
        <3>4. [d \in Stored |-> Release([deliveries[d] EXCEPT !.status = Settled(s, result)])]
                = [d \in Stored |-> Release([deliveries[d] EXCEPT !.status = st[d]])]
            BY <3>3
        <3>5. CommitRows(s, LockedDeliveries(s), [d \in Stored |-> Release([deliveries[d] EXCEPT !.status = st[d]])])
            BY <3>1, <3>4
        <3> QED
            BY <3>5
    <2>2. CASE CommitReconcile(s)
        <3> DEFINE back(d) == IF deliveries[d].endpoint \in tx[s].found /\ deliveries[d].attempts < MaxAttempts
                              THEN "retry" ELSE "exhausted"
                   S == {d \in LockedDeliveries(s) : deliveries[d].expired}
        <3>1. CommitRows(s, S, [d \in Stored |-> Release([deliveries[d] EXCEPT !.status = back(d)])])
            BY <2>2 DEF CommitReconcile
        <3>2. \A d : back(d) \in Outbox!Finished \cup {"retry"}
            BY DEF Outbox!Finished
        <3>3. S \in SUBSET LockedDeliveries(s)
            OBVIOUS
        <3> HIDE DEF back, S
        <3>4. PICK st \in [Stored -> Outbox!Finished \cup {"retry"}] : st = [d \in Stored |-> back(d)]
            BY <3>2
        <3>5. [d \in Stored |-> Release([deliveries[d] EXCEPT !.status = back(d)])]
                = [d \in Stored |-> Release([deliveries[d] EXCEPT !.status = st[d]])]
            BY <3>4
        <3>6. CommitRows(s, S, [d \in Stored |-> Release([deliveries[d] EXCEPT !.status = st[d]])])
            BY <3>1, <3>5
        <3> QED
            BY <3>3, <3>6
    <2> QED
        BY <2>1, <2>2
<1>2. PICK f : f = [d \in Stored |-> Release([deliveries[d] EXCEPT !.status = st[d]])]
    OBVIOUS
<1>3. PICK g : g = [d \in S |-> st[d]]
    OBVIOUS
<1>4. S \in SUBSET Stored /\ \A d \in Stored : deliveries[d] \in DeliveryRow
    BY InvParts DEF LockedDeliveries, RowsOK, DeliveriesOK
<1>5. ASSUME NEW d \in S
      PROVE  /\ f[d].event = deliveries[d].event
             /\ f[d].endpoint = deliveries[d].endpoint
             /\ f[d].status = g[d]
    <2>1. st[d] \in (Active \cup Final) \ {"delivering"}
        BY <1>4 DEF Active, Final, Outbox!Finished
    <2> QED
        BY <1>2, <1>3, <1>4, <2>1, ReleasedRow
<1>6. S \in SUBSET Outbox!With({"delivering"})
    BY <1>4, LockedHeld, WithRows DEF CommitComplete, CommitReconcile, RowHeld, At
<1>7. g \in [S -> Outbox!Finished \cup {"retry"}]
    BY <1>3, <1>4
<1>8. CommitRows(s, S, f)
    BY <1>1, <1>2
<1>9. Outbox!Change(S, g)
    BY <1>4, <1>5, <1>8, RowsChange
<1> QED
    BY <1>6, <1>7, <1>9 DEF Outbox!Settle

\* prune removes finished deliveries.
LEMMA RemoveStep ==
    ASSUME Inv, NEW s \in Sessions, CommitPrune(s) PROVE Outbox!Remove
<1> DEFINE gone == LockedDeliveries(s)
<1>1. deliveries' = [d \in Stored \ gone |-> deliveries[d]] /\ Stored' = Stored \ gone
    BY DEF CommitPrune, WithoutRows, Stored
<1>2. gone \in SUBSET Outbox!With(Outbox!Finished)
    BY LockedHeld, WithRows DEF CommitPrune, RowHeld, At, Outbox!Finished, Final
<1>3. stored' = [d \in Stored \ gone |-> stored[d]]
    BY <1>1 DEF stored, Row
<1> HIDE DEF gone
<1> QED
    BY <1>2, <1>3 DEF Outbox!Remove, stored, Row

\* Deliveries n of the event v to the endpoints t, in place of the deliveries g.
Adds(v, g, n, t) ==
    /\ \A d, e \in n : t[d] = t[e] => d = e
    /\ \A d \in n, e \in DOMAIN stored : <<stored[e].event, stored[e].endpoint>> # <<v, t[d]>>
    /\ stored' = [d \in (DOMAIN stored \ g) \cup n |->
         IF d \in n THEN [event |-> v, endpoint |-> t[d], status |-> "pending"] ELSE stored[d]]

\* An enqueue adds deliveries of one event to endpoints that have none of it, in place of
\* deliveries it had chosen.
LEMMA EnqueueStep ==
    ASSUME Inv, NEW s \in Sessions, CommitEnqueue(s) PROVE Outbox!Enqueue
<1> DEFINE new == tx[s].target
           gone == LockedDeliveries(s)
           event == CHOOSE v \in tx[s].events : TRUE
<1>1. PICK target \in [new -> tx[s].found] :
         /\ \A d, e \in new : target[d] = target[e] => d = e
         /\ deliveries' = [d \in (Stored \ gone) \cup new |->
              IF d \in new
              THEN [event |-> event, endpoint |-> target[d],
                    status |-> "pending", attempts |-> 0, token |-> NoToken, expired |-> FALSE]
              ELSE deliveries[d]]
    BY Zenon DEF CommitEnqueue
<1>2. At(s, "enqueue", "commit") /\ tx[s] \in Transaction /\ SessionOK(s, tx[s])
    BY OwnLocks DEF CommitEnqueue
<1>3. Counted(tx[s]) /\ new \in SUBSET (DeliveryIds \ Stored)
    BY <1>2 DEF SessionOK, EnqueueOK, Counted, At, Transaction
<1>4. gone \in SUBSET (Outbox!With(Outbox!Finished) \cup chosen)
    BY <1>2 DEF At, LockedDeliveries, chosen, Wanted
<1>5. Stored' = (Stored \ gone) \cup new
    BY <1>1 DEF Stored
<1>6. target \in [new -> Endpoints]
    BY <1>2 DEF Transaction
<1>7. PICK v \in Events : tx[s].events = {v}
    BY <1>2 DEF SessionOK, EnqueueOK, At
<1>8. event = v
    BY <1>7
<1>9. \A d \in new, e \in Stored :
             <<deliveries[e].event, deliveries[e].endpoint>> # <<v, target[d]>>
    BY <1>3, <1>7 DEF Counted, Duplicate
<1>10. stored' = [d \in (Stored \ gone) \cup new |->
                      IF d \in new THEN [event |-> v, endpoint |-> target[d], status |-> "pending"]
                                   ELSE stored[d]]
    BY <1>1, <1>5, <1>8 DEF stored, Row
<1>11. DOMAIN stored = Stored /\ \A e \in Stored : /\ stored[e].event = deliveries[e].event
                                                  /\ stored[e].endpoint = deliveries[e].endpoint
    BY DEF stored, Row
<1> HIDE DEF new, gone, event
<1>12. \A d, e \in new : target[d] = target[e] => d = e
    BY <1>1
<1>13. \A d \in new, e \in DOMAIN stored : <<stored[e].event, stored[e].endpoint>> # <<v, target[d]>>
    BY <1>9, <1>11
<1>14. new \in SUBSET (DeliveryIds \ DOMAIN stored)
    BY <1>3, <1>11
<1>15. stored' = [d \in (DOMAIN stored \ gone) \cup new |->
             IF d \in new THEN [event |-> v, endpoint |-> target[d], status |-> "pending"]
                          ELSE stored[d]]
    BY <1>10, <1>11
<1>16. Adds(v, gone, new, target)
    BY <1>12, <1>13, <1>15 DEF Adds
<1>17. \E w \in Events, g \in SUBSET (Outbox!With(Outbox!Finished) \cup chosen),
             n \in SUBSET (DeliveryIds \ DOMAIN stored) : \E t \in [n -> Endpoints] : Adds(w, g, n, t)
    BY <1>4, <1>6, <1>14, <1>16
<1> QED
    BY <1>17, Zenon DEF Outbox!Enqueue, Adds, stored, Row, chosen

\* A step of a session that leaves the deliveries alone is a choice, at most.
LEMMA QuietStep ==
    ASSUME Inv, Inv', NEW s \in Sessions, NEW r, tx' = [tx EXCEPT ![s] = r],
           UNCHANGED deliveries, Wanted(r) \subseteq Wanted(tx[s]) \cup FinalRows
    PROVE  Outbox!NextLifecycle
<1>1. tx'[s] = r /\ \A t \in Sessions \ {s} : tx'[t] = tx[t]
    BY InvParts
<1>2. DeliveriesOK' /\ Stored' = Stored
    BY DEF Inv, TypeOK, DeliveriesOK, Leased, Stored
<1>3. Choice
    BY <1>1, <1>2, StepChoice DEF ChoiceKept
<1>4. UNCHANGED stored
    BY <1>2 DEF stored, Row
<1> QED
    BY <1>3, <1>4, LifecycleStep

\* A transaction that is over wants nothing.
LEMMA FinishChoice ==
    ASSUME Inv, NEW s \in Sessions, Finish(s)
    PROVE  /\ \A t \in Sessions \ {s} : tx'[t] = tx[t]
           /\ Wanted(tx'[s]) = {}
BY InvParts DEF Finish, Wanted, Idle

\* A transaction that ends without a change to the deliveries.
LEMMA QuietFinish ==
    ASSUME Inv, Inv', NEW s \in Sessions, Finish(s), UNCHANGED deliveries
    PROVE  Outbox!NextLifecycle
<1>1. PICK r : r = Idle
    OBVIOUS
<1>2. Wanted(r) = {}
    BY <1>1 DEF Wanted, Idle
<1> QED
    BY <1>1, <1>2, QuietStep DEF Finish

\* The commits that change deliveries.
LEMMA CommitStep ==
    ASSUME Inv, Inv', NEW s \in Sessions,
           \/ CommitDelete(s) \/ CommitReplay(s) \/ CommitRetry(s) \/ CommitClaim(s)
           \/ CommitComplete(s) \/ CommitReconcile(s) \/ CommitPrune(s) \/ CommitEnqueue(s)
    PROVE  Outbox!NextLifecycle
<1>1. Finish(s)
    BY DEF CommitDelete, CommitReplay, CommitRetry, CommitClaim, CommitComplete, CommitReconcile,
       CommitPrune, CommitEnqueue, CommitRows
<1>2. (\A t \in Sessions \ {s} : tx'[t] = tx[t]) /\ Wanted(tx'[s]) = {}
    BY <1>1, FinishChoice
<1>3. DeliveriesOK'
    BY DEF Inv, TypeOK, DeliveriesOK, Leased, Stored
<1>4. Stored' \subseteq Stored \/ advisory = s
    <2>1. CASE CommitEnqueue(s)
        BY <2>1, OwnLocks DEF CommitEnqueue, At, SessionOK, AdvisoryHeld
    <2>2. CASE CommitPrune(s)
        BY <2>2 DEF CommitPrune, WithoutRows, Stored
    <2>3. CASE \E S, f : CommitRows(s, S, f)
        BY <2>3 DEF CommitRows, Stored
    <2> QED
        BY <2>1, <2>2, <2>3 DEF CommitDelete, CommitReplay, CommitRetry, CommitClaim, CommitComplete,
           CommitReconcile
<1>5. Choice
    BY <1>2, <1>3, <1>4, StepChoice DEF ChoiceKept
<1>6. Outbox!Requeue \/ Outbox!Exhaust \/ Outbox!Claim \/ Outbox!Settle \/ Outbox!Remove \/ Outbox!Enqueue
    BY RequeueStep, ExhaustStep, ClaimStep, SettleStep, RemoveStep, EnqueueStep
<1> QED
    BY <1>5, <1>6, LifecycleStep

\* The statements that read or lock in a transaction other than an enqueue.
LEMMA OtherStatement ==
    ASSUME Inv, Inv', NEW s \in Sessions, NEW r, Go(s, r), UNCHANGED deliveries, r.op # "enqueue"
    PROVE  Outbox!NextLifecycle
BY QuietStep DEF Go, Wanted

\* The statements of an enqueue before its commit: only finished deliveries are chosen.
LEMMA EnqueueStatement ==
    ASSUME Inv, Inv', NEW s \in Sessions,
           TakeAdvisory(s) \/ ReadEndpoints(s) \/ Insert(s) \/ LockNext(s)
    PROVE  Outbox!NextLifecycle
<1>0. tx[s] \in Transaction
    BY OwnLocks
<1>1. PICK r : Go(s, r) /\ UNCHANGED deliveries /\ r.op = tx[s].op
               /\ r.todo \cup r.locks \subseteq tx[s].todo \cup tx[s].locks \cup FinalRows
    <2>1. CASE TakeAdvisory(s)
        <3>1. PICK r : r = [tx[s] EXCEPT !.at = "read"]
            OBVIOUS
        <3>2. r.op = tx[s].op /\ r.todo = tx[s].todo /\ r.locks = tx[s].locks
            BY <1>0, <3>1 DEF Transaction
        <3>3. Go(s, r) /\ UNCHANGED deliveries
            BY <2>1, <3>1 DEF TakeAdvisory
        <3> QED
            BY <3>2, <3>3
    <2>2. CASE ReadEndpoints(s)
        <3>1. PICK vs, es : Go(s, [tx[s] EXCEPT !.events = vs, !.found = es])
            BY <2>2 DEF ReadEndpoints
        <3>2. PICK r : r = [tx[s] EXCEPT !.events = vs, !.found = es]
            OBVIOUS
        <3>3. r.op = tx[s].op /\ r.todo = tx[s].todo /\ r.locks = tx[s].locks
            BY <1>0, <3>2 DEF Transaction
        <3>4. Go(s, r) /\ UNCHANGED deliveries
            BY <2>2, <3>1, <3>2 DEF ReadEndpoints, Rows
        <3> QED
            BY <3>3, <3>4
    <2>3. CASE Insert(s)
        <3>1. PICK P, ids, excess :
                P \in SUBSET FinalRows /\ LockAll(s, [tx[s] EXCEPT !.found = New(s), !.target = ids, !.missing = excess], P)
            BY <2>3 DEF Insert
        <3>2. PICK x, at : /\ x = [tx[s] EXCEPT !.found = New(s), !.target = ids, !.missing = excess]
                           /\ at = (IF P = {} THEN "commit" ELSE "rows")
            OBVIOUS
        <3>3. PICK r : r = [x EXCEPT !.todo = P, !.at = at]
            OBVIOUS
        <3>4. DOMAIN x = DOMAIN tx[s] /\ x.op = tx[s].op /\ x.locks = tx[s].locks
            BY <1>0, <3>2 DEF Transaction
        <3>5. r.op = tx[s].op /\ r.todo = P /\ r.locks = tx[s].locks
            BY <1>0, <3>3, <3>4 DEF Transaction
        <3>6. Go(s, r) /\ UNCHANGED deliveries
            BY <2>3, <3>1, <3>2, <3>3 DEF LockAll, Insert, Rows
        <3> QED
            BY <3>1, <3>5, <3>6
    <2>4. CASE LockNext(s)
        <3>1. PICK d \in tx[s].todo :
                 Go(s, [tx[s] EXCEPT !.todo = @ \ {d},
                                     !.locks = IF Sought(s, d) THEN @ \cup {d} ELSE @,
                                     !.at = IF tx[s].todo = {d} THEN "commit" ELSE @])
            BY <2>4 DEF LockNext
        <3>2. PICK r : r = [tx[s] EXCEPT !.todo = @ \ {d},
                                     !.locks = IF Sought(s, d) THEN @ \cup {d} ELSE @,
                                     !.at = IF tx[s].todo = {d} THEN "commit" ELSE @]
            OBVIOUS
        <3>3. r.op = tx[s].op /\ r.todo \subseteq tx[s].todo /\ r.locks \subseteq tx[s].locks \cup {d}
            BY <1>0, <3>2 DEF Transaction
        <3>4. Go(s, r) /\ UNCHANGED deliveries
            BY <2>4, <3>1, <3>2 DEF LockNext, Rows
        <3> QED
            BY <3>3, <3>4
    <2> QED
        BY <2>1, <2>2, <2>3, <2>4
<1>2. Wanted(r) \subseteq Wanted(tx[s]) \cup FinalRows
    BY <1>1 DEF Wanted
<1> QED
    BY <1>1, <1>2, QuietStep DEF Go

\* The other statements read and lock; they choose nothing.
LEMMA OtherStatements ==
    ASSUME Inv, Inv', NEW s \in Sessions,
           \/ LockEndpoint(s) \/ MissEndpoint(s) \/ ReadUnfinished(s) \/ LockExhausted(s)
           \/ LockRetried(s) \/ ReadRetried(s) \/ LockCompleted(s) \/ ReadReconciled(s)
           \/ ReadFinished(s)
    PROVE  Outbox!NextLifecycle
<1>0. tx[s] \in Transaction /\ Placed(tx[s])
    BY OwnLocks DEF SessionOK
<1>1. CASE Leave(s)
    BY <1>1, QuietFinish DEF Leave
<1>2. CASE \E r : Go(s, r) /\ r.op = tx[s].op /\ UNCHANGED Rows /\ tx[s].op # "enqueue"
    BY <1>2, OtherStatement DEF Rows
<1>3. \A at : [tx[s] EXCEPT !.at = at].op = tx[s].op
    BY <1>0 DEF Transaction
<1>4. \A at, locks : [tx[s] EXCEPT !.at = at, !.locks = locks].op = tx[s].op
    BY <1>0 DEF Transaction
<1>5. ASSUME NEW S, LockAll(s, tx[s], S), UNCHANGED Rows, tx[s].op # "enqueue"
      PROVE  Outbox!NextLifecycle
    <2>1. PICK at : at = IF S = {} THEN "commit" ELSE "rows"
        OBVIOUS
    <2>2. [tx[s] EXCEPT !.todo = S, !.at = at].op = tx[s].op
        BY <1>0 DEF Transaction
    <2> QED
        BY <1>2, <1>5, <2>1, <2>2 DEF LockAll
<1>6. CASE LockEndpoint(s)
    <2>1. tx[s].op # "enqueue"
        BY <1>0, <1>6, OpsAt DEF LockEndpoint
    <2>2. PICK at, locks : Go(s, [tx[s] EXCEPT !.locks = locks, !.at = at])
        BY <1>6 DEF LockEndpoint
    <2>3. [tx[s] EXCEPT !.locks = locks, !.at = at].op = tx[s].op
        BY <1>0 DEF Transaction
    <2> QED
        BY <1>2, <1>6, <2>1, <2>2, <2>3 DEF LockEndpoint
<1>7. CASE MissEndpoint(s)
    BY <1>1, <1>2, <1>3, <1>7 DEF MissEndpoint
<1>8. CASE ReadUnfinished(s)
    BY <1>5, <1>8 DEF ReadUnfinished, At
<1>9. CASE LockExhausted(s)
    BY <1>2, <1>4, <1>9 DEF LockExhausted, At
<1>10. CASE LockRetried(s)
    BY <1>2, <1>4, <1>10 DEF LockRetried, At
<1>11. CASE ReadRetried(s)
    BY <1>1, <1>2, <1>3, <1>11 DEF ReadRetried, At
<1>12. CASE LockCompleted(s)
    <2>1. PICK at, locks : Go(s, [tx[s] EXCEPT !.locks = locks, !.at = at])
        BY <1>12 DEF LockCompleted
    <2>2. [tx[s] EXCEPT !.locks = locks, !.at = at].op = tx[s].op
        BY <1>0 DEF Transaction
    <2> QED
        BY <1>2, <1>12, <2>1, <2>2 DEF LockCompleted, At
<1>13. CASE ReadReconciled(s)
    <2>1. [tx[s] EXCEPT !.at = "commit", !.found = EnabledEndpoints].op = tx[s].op
        BY <1>0 DEF Transaction
    <2> QED
        BY <1>2, <1>13, <2>1 DEF ReadReconciled, At
<1>14. CASE ReadFinished(s)
    BY <1>2, <1>4, <1>5, <1>14 DEF ReadFinished, At
<1> QED
    BY <1>6, <1>7, <1>8, <1>9, <1>10, <1>11, <1>12, <1>13, <1>14

\* A transaction that begins wants nothing, yet.
LEMMA FirstStatement ==
    ASSUME Inv, Inv', NEW s \in Sessions, NEW r, Begin(s, r),
           r.op # "enqueue" \/ (r.todo = {} /\ r.locks = {})
    PROVE  Outbox!NextLifecycle
<1>1. Wanted(r) = {}
    BY DEF Wanted
<1> QED
    BY <1>1, QuietStep DEF Begin


\* The operations that begin, and createEndpoint, which is one statement.
LEMMA StartStep ==
    ASSUME Inv, Inv', NEW s \in Sessions, Start(s)
    PROVE  [Outbox!NextLifecycle]_<<stored, chosen>>
<1>0. {"update", "delete", "reset", "enqueue", "replay", "prune", "retry", "claim", "complete", "reconcile"}
        \subseteq AllOperations /\ {"advisory", "endpoint", "row", "read", "commit"} \subseteq Points
    BY DEF AllOperations, Points
<1>1. ASSUME NEW e \in Endpoints, CreateEndpoint(s, e) PROVE UNCHANGED <<stored, chosen>>
    BY <1>1 DEF CreateEndpoint, stored, Row, chosen, Stored
<1>2. ASSUME NEW op \in {"update", "delete", "reset"}, NEW e, BeginEndpoint(s, op, e)
      PROVE  Outbox!NextLifecycle
    <2>1. PICK r : r = [Call(op, "endpoint") EXCEPT !.endpoint = e]
        OBVIOUS
    <2>2. r.op = op
        BY <1>0, <2>1, CallFields DEF Transaction
    <2> QED
        BY <1>2, <2>1, <2>2, FirstStatement DEF BeginEndpoint
<1>3. CASE BeginReplay(s) \/ BeginPrune(s) \/ BeginEnqueue(s)
    <2>1. PICK op \in AllOperations : Begin(s, Call(op, "advisory"))
        BY <1>0, <1>3 DEF BeginReplay, BeginPrune, BeginEnqueue
    <2>2. Call(op, "advisory").todo = {} /\ Call(op, "advisory").locks = {}
        BY <1>0, CallFields
    <2> QED
        BY <2>1, <2>2, FirstStatement
<1>4. ASSUME NEW d, BeginRetry(s, d) PROVE Outbox!NextLifecycle
    <2>1. PICK r : r = [Call("retry", "row") EXCEPT !.target = {d}]
        OBVIOUS
    <2>2. r.op = "retry"
        BY <1>0, <2>1, CallFields DEF Transaction
    <2> QED
        BY <1>4, <2>1, <2>2, FirstStatement DEF BeginRetry
<1>5. CASE LockClaimed(s)
    <2>1. PICK S : Begin(s, [Call("claim", "commit") EXCEPT !.locks = S])
        BY <1>5 DEF LockClaimed
    <2>2. PICK r : r = [Call("claim", "commit") EXCEPT !.locks = S]
        OBVIOUS
    <2>3. r.op = "claim"
        BY <1>0, <2>2, CallFields DEF Transaction
    <2> QED
        BY <2>1, <2>2, <2>3, FirstStatement
<1>6. CASE LockReconciled(s)
    <2>1. PICK S : Begin(s, [Call("reconcile", "read") EXCEPT !.locks = S])
        BY <1>6 DEF LockReconciled
    <2>2. PICK r : r = [Call("reconcile", "read") EXCEPT !.locks = S]
        OBVIOUS
    <2>3. r.op = "reconcile"
        BY <1>0, <2>2, CallFields DEF Transaction
    <2> QED
        BY <2>1, <2>2, <2>3, FirstStatement
<1>7. ASSUME NEW t, BeginComplete(s, t) PROVE Outbox!NextLifecycle
    <2>1. PICK r : r = [Call("complete", "row") EXCEPT !.token = t, !.target = {claims[t].delivery},
                   !.endpoint = claims[t].endpoint]
        OBVIOUS
    <2>2. r.op = "complete"
        BY <1>0, <2>1, CallFields DEF Transaction
    <2> QED
        BY <1>7, <2>1, <2>2, FirstStatement DEF BeginComplete
<1> QED
    BY <1>1, <1>2, <1>3, <1>4, <1>5, <1>6, <1>7 DEF Start

\* Every step is a step of the delivery lifecycle, or leaves it alone.
LEMMA LifecycleNext == Inv /\ Inv' /\ [Next]_vars => [Outbox!NextLifecycle]_<<stored, chosen>>
<1> SUFFICES ASSUME Inv, Inv', [Next]_vars PROVE [Outbox!NextLifecycle]_<<stored, chosen>>
    OBVIOUS
<1>1. ASSUME NEW s \in Sessions, Start(s) PROVE [Outbox!NextLifecycle]_<<stored, chosen>>
    BY <1>1, StartStep
<1>2. ASSUME NEW s \in Sessions, Continue(s) PROVE Outbox!NextLifecycle
    <2>1. CASE TakeAdvisory(s) \/ ReadEndpoints(s) \/ Insert(s) \/ LockNext(s)
        BY <2>1, EnqueueStatement
    <2>2. CASE \/ LockEndpoint(s) \/ MissEndpoint(s) \/ ReadUnfinished(s) \/ LockExhausted(s)
               \/ LockRetried(s) \/ ReadRetried(s) \/ LockCompleted(s) \/ ReadReconciled(s)
               \/ ReadFinished(s)
        BY <2>2, OtherStatements
    <2>3. CASE \/ CommitDelete(s) \/ CommitReplay(s) \/ CommitRetry(s) \/ CommitClaim(s)
               \/ CommitComplete(s) \/ CommitReconcile(s) \/ CommitPrune(s) \/ CommitEnqueue(s)
        BY <2>3, CommitStep
    <2>4. CASE \/ NoneMatched(s) \/ EnqueueRejected(s) \/ NotRetried(s)
               \/ CommitUpdate(s) \/ CommitReset(s) \/ LeaseLost(s)
        BY <2>4, QuietFinish
           DEF NoneMatched, EnqueueRejected, NotRetried, Leave, CommitUpdate, CommitReset, LeaseLost
    <2> QED
        BY <1>2, <2>1, <2>2, <2>3, <2>4 DEF Continue
<1>3. ASSUME NEW s \in Sessions, Rollback(s) \/ DeadlockVictim(s) PROVE Outbox!NextLifecycle
    BY <1>3, QuietFinish DEF Rollback, DeadlockVictim, Leave
<1>4. ASSUME NEW d \in DeliveryIds, Expire(d) PROVE UNCHANGED <<stored, chosen>>
    <2>1. deliveries' = [deliveries EXCEPT ![d].expired = TRUE] /\ UNCHANGED tx /\ Stored' = Stored
        BY <1>4 DEF Expire, Stored
    <2>2. \A e \in Stored : deliveries[e] \in DeliveryRow
        BY InvParts DEF RowsOK, DeliveriesOK
    <2>3. \A e \in Stored : Row(e)' = Row(e)
        BY <2>1, <2>2 DEF Row, DeliveryRow, Stored
    <2> QED
        BY <2>1, <2>3 DEF stored, chosen
<1>5. ASSUME NEW t \in Tokens, Abandon(t) PROVE UNCHANGED <<stored, chosen>>
    BY <1>5 DEF Abandon, stored, Row, chosen, Stored
<1>6. CASE UNCHANGED vars
    BY <1>6 DEF vars, stored, Row, chosen, Stored
<1> QED
    BY <1>1, <1>2, <1>3, <1>4, <1>5, <1>6 DEF Next

\* Transactions whose statements interleave, wait for each other and look again at rows that
\* changed meanwhile take effect as single steps of the delivery lifecycle.
THEOREM ImplementsDeliveryLifecycle == Spec => ImplementsLifecycle
<1>1. Init => Outbox!InitLifecycle
    BY DEF Init, Outbox!InitLifecycle, Stored
<1>2. Inv /\ Inv' /\ [Next]_vars
        => [Outbox!NextLifecycle]_<<[d \in Stored |-> [event |-> deliveries[d].event,
              endpoint |-> deliveries[d].endpoint, status |-> deliveries[d].status]],
            {d \in Stored : \E s \in Sessions :
                 tx[s].op = "enqueue" /\ d \in tx[s].todo \cup tx[s].locks}>>
    BY LifecycleNext DEF stored, Row, chosen
<1> QED
    BY <1>1, <1>2, Invariance, PTL DEF Spec, ImplementsLifecycle, Outbox!Lifecycle
=============================================================================
