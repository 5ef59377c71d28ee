-------------------------- MODULE PostgresWebhooks --------------------------
(***************************************************************************)
(* The webhook outbox in PostgreSQL (outbound-webhook-postgres.ts).        *)
(* Every operation is a transaction at READ COMMITTED; a step is one       *)
(* statement of one.  A statement reads the rows committed when it starts, *)
(* a row it locks stays locked until the transaction ends, and what it     *)
(* writes shows at the commit.  An UPDATE or DELETE that waited for a row  *)
(* looks at it again; SKIP LOCKED passes it over.                          *)
(*                                                                         *)
(* The advisory lock is taken by enqueue, replay and prune.  The retry of  *)
(* one delivery and the deletion of an endpoint do not take it, and there  *)
(* is no foreign key from a delivery to its endpoint.                      *)
(*                                                                         *)
(* Time is left out: a lease expires by a step of the environment, and     *)
(* whether an attempt is due or a circuit has cooled down is open to the   *)
(* claim.  Attempts are counted up to MaxAttempts.                         *)
(***************************************************************************)
EXTENDS Naturals, FiniteSets

CONSTANTS
    Sessions,      \* database connections
    Endpoints, DeliveryIds, Events, Tokens,
    Limit,         \* enqueueOptions.limit
    MaxAttempts,   \* maxAttempts of every endpoint
    Threshold,     \* circuitFailureThreshold of every endpoint
    NoToken, NoEndpoint, NoSession,
    Operations     \* the operations the sessions run

AllOperations == {"create", "update", "delete", "enqueue", "replay", "retry", "claim", "complete",
                  "reconcile", "prune", "reset"}

ASSUME PostgresAssumption ==
    /\ {Limit, MaxAttempts, Threshold} \subseteq Nat \ {0}
    /\ NoToken \notin Tokens /\ NoEndpoint \notin Endpoints /\ NoSession \notin Sessions
    /\ Endpoints \cap DeliveryIds = {}
    /\ Operations \subseteq AllOperations
    /\ IsFiniteSet(DeliveryIds) /\ IsFiniteSet(Endpoints)    \* UUIDs

VARIABLES
    endpoints,    \* committed rows of webhook_endpoints, by id
    deliveries,   \* committed rows of webhook_deliveries, by id
    advisory,     \* the session that holds the capacity lock
    tx,           \* the transaction each session is in
    claims        \* attempts being made, by lease token

vars == <<endpoints, deliveries, advisory, tx, claims>>

Active == {"pending", "delivering", "retry"}
Final == {"succeeded", "exhausted"}

EndpointRow == [enabled : BOOLEAN, failures : 0..Threshold, circuit : {"closed", "open"}]

DeliveryRow ==
    [event : Events, endpoint : Endpoints, status : Active \cup Final, attempts : 0 .. MaxAttempts,
     token : Tokens \cup {NoToken}, expired : BOOLEAN]

Results == {"success", "retryable", "fatal"}

\* A transaction: its operation, the statement it is at, what it was called
\* with, what it has read (found, todo) and the rows it has locked (locks).
Transaction ==
    [op : AllOperations \cup {"idle"},
     at : {"idle", "advisory", "endpoint", "row", "read", "rows", "commit"},
     endpoint : Endpoints \cup {NoEndpoint}, events : SUBSET Events, target : SUBSET DeliveryIds,
     token : Tokens \cup {NoToken},
     found : SUBSET Endpoints, todo : SUBSET DeliveryIds, locks : SUBSET (Endpoints \cup DeliveryIds),
     missing : Nat]

Idle ==
    [op |-> "idle", at |-> "idle", endpoint |-> NoEndpoint, events |-> {}, target |-> {},
     token |-> NoToken, found |-> {}, todo |-> {},
     locks |-> {}, missing |-> 0]

Init ==
    /\ endpoints = [e \in {} |-> {}] /\ deliveries = [d \in {} |-> {}]
    /\ advisory = NoSession
    /\ tx = [s \in Sessions |-> Idle]
    /\ claims = [t \in {} |-> {}]

-----------------------------------------------------------------------------
(* Rows and locks.                                                         *)

Stored == DOMAIN deliveries
FinalRows == {d \in Stored : deliveries[d].status \in Final}
EnabledEndpoints == {e \in DOMAIN endpoints : endpoints[e].enabled}

LockedByOthers(s) == UNION {tx[t].locks : t \in Sessions \ {s}}
Free(s, rows) == rows \ LockedByOthers(s)

\* A row the statement of the session still wants: WHERE is evaluated again
\* for a row that another transaction changed meanwhile.  The DELETE of an
\* enqueue only asks for an id that its subquery, which is not evaluated again,
\* has chosen.
Sought(s, d) ==
    /\ d \in Stored
    /\ tx[s].op = "delete" =>
         deliveries[d].endpoint = tx[s].endpoint /\ deliveries[d].status \notin Final
    /\ tx[s].op = "prune" => deliveries[d].status \in Final
    /\ tx[s].op = "complete" =>
         deliveries[d].status = "delivering" /\ deliveries[d].token = tx[s].token

\* The rows a session waits for before its next statement can go on.
Needs(s) ==
    IF tx[s].at = "endpoint" THEN {tx[s].endpoint} \cap DOMAIN endpoints
    ELSE IF tx[s].at = "row" THEN {d \in tx[s].target : Sought(s, d)}
    ELSE {}

WaitsFor(s, t) ==
    /\ s # t
    /\ \/ tx[s].at = "advisory" /\ advisory = t
       \/ Needs(s) \cap tx[t].locks # {}
       \/ tx[s].at = "rows" /\ tx[s].todo \cap tx[t].locks # {}

\* Some sessions, s among them, that wait for each other.
InCycle(s) ==
    \E S \in SUBSET Sessions :
      /\ s \in S
      /\ \A x \in S : (\E y \in S : WaitsFor(x, y)) /\ (\E y \in S : WaitsFor(y, x))

FreshTokens ==
    Tokens \ (DOMAIN claims \cup {deliveries[d].token : d \in Stored}
                            \cup {tx[s].token : s \in Sessions})

FreshDeliveryIds ==
    DeliveryIds \ (Stored \cup {claims[t].delivery : t \in DOMAIN claims}
                          \cup UNION {tx[s].target \cup tx[s].todo : s \in Sessions})

KeepToken(row) == [row EXCEPT !.expired = FALSE]
Release(row) == [row EXCEPT !.token = NoToken, !.expired = FALSE]

WithoutRows(gone) == [d \in Stored \ gone |-> deliveries[d]]

-----------------------------------------------------------------------------
(* The course of a transaction.                                            *)

Begin(s, t) ==
    /\ tx[s].op = "idle" /\ t.op \in Operations
    /\ tx' = [tx EXCEPT ![s] = t]
    /\ UNCHANGED <<endpoints, deliveries, advisory, claims>>

Call(op, at) == [Idle EXCEPT !.op = op, !.at = at]

Go(s, t) == tx' = [tx EXCEPT ![s] = t]

\* COMMIT or ROLLBACK: the locks are released.
Finish(s) ==
    /\ tx' = [tx EXCEPT ![s] = Idle]
    /\ advisory' = IF advisory = s THEN NoSession ELSE advisory

\* A transaction that found nothing to do, or threw, changes nothing.
Leave(s) == Finish(s) /\ UNCHANGED <<endpoints, deliveries, claims>>

At(s, op, at) == tx[s].op = op /\ tx[s].at = at

Rows == <<endpoints, deliveries, advisory, claims>>

SkipAdvisory(s) ==
    /\ tx[s].at = "advisory"
    /\ Go(s, [tx[s] EXCEPT !.at = "read"])
    /\ UNCHANGED Rows

\* pg_advisory_xact_lock
TakeAdvisory(s) ==
    /\ tx[s].at = "advisory" /\ advisory = NoSession
    /\ advisory' = s
    /\ Go(s, [tx[s] EXCEPT !.at = "read"])
    /\ UNCHANGED <<endpoints, deliveries, claims>>

\* SELECT ... FOR UPDATE of one endpoint, or the UPDATE of one.
LockEndpoint(s) ==
    LET e == tx[s].endpoint IN
    /\ tx[s].at = "endpoint"
    /\ e \in DOMAIN endpoints /\ e \in Free(s, {e})
    /\ Go(s, [tx[s] EXCEPT !.locks = @ \cup {e},
                           !.at = IF tx[s].op = "delete" THEN "read" ELSE "commit"])
    /\ UNCHANGED Rows

\* There is no such endpoint: the operation throws, but a completion goes on.
MissEndpoint(s) ==
    /\ tx[s].at = "endpoint" /\ tx[s].endpoint \notin DOMAIN endpoints
    /\ \/ tx[s].op # "complete" /\ Leave(s)
       \/ tx[s].op = "complete" /\ Go(s, [tx[s] EXCEPT !.at = "commit"]) /\ UNCHANGED Rows

\* A statement on many deliveries locks them one after the other.
LockNext(s) ==
    /\ tx[s].at = "rows"
    /\ \E d \in tx[s].todo :
         /\ Sought(s, d) => d \in Free(s, {d})
         /\ Go(s, [tx[s] EXCEPT !.todo = @ \ {d},
                                !.locks = IF Sought(s, d) THEN @ \cup {d} ELSE @,
                                !.at = IF tx[s].todo = {d} THEN "commit" ELSE @])
    /\ UNCHANGED Rows

\* The statement wants the rows in S.
LockAll(s, t, S) == Go(s, [t EXCEPT !.todo = S, !.at = IF S = {} THEN "commit" ELSE "rows"])

LockedDeliveries(s) == tx[s].locks \cap Stored

\* Commit with the rows in S changed by f.
CommitRows(s, S, f) ==
    /\ deliveries' = [d \in Stored |-> IF d \in S THEN f[d] ELSE deliveries[d]]
    /\ Finish(s)

-----------------------------------------------------------------------------
(* Endpoints.                                                              *)

\* createEndpoint is one statement.
CreateEndpoint(s, e) ==
    /\ tx[s].op = "idle" /\ "create" \in Operations
    /\ e \in Endpoints \ (DOMAIN endpoints \cup {deliveries[d].endpoint : d \in Stored}
                            \cup {claims[t].endpoint : t \in DOMAIN claims}
                            \cup UNION {tx[t].found \cup {tx[t].endpoint} : t \in Sessions})
    /\ endpoints' = [x \in DOMAIN endpoints \cup {e} |->
         IF x = e THEN [enabled |-> TRUE, failures |-> 0, circuit |-> "closed"] ELSE endpoints[x]]
    /\ UNCHANGED <<deliveries, advisory, tx, claims>>

BeginEndpoint(s, op, e) ==
    /\ op \in {"update", "delete", "reset"}
    /\ Begin(s, [Call(op, "endpoint") EXCEPT !.endpoint = e])

CommitUpdate(s) ==
    /\ At(s, "update", "commit")
    /\ \E on \in BOOLEAN : endpoints' = [endpoints EXCEPT ![tx[s].endpoint].enabled = on]
    /\ Finish(s)
    /\ UNCHANGED <<deliveries, claims>>

CommitReset(s) ==
    /\ At(s, "reset", "commit")
    /\ endpoints' = [endpoints EXCEPT ![tx[s].endpoint].failures = 0,
                                      ![tx[s].endpoint].circuit = "closed"]
    /\ Finish(s)
    /\ UNCHANGED <<deliveries, claims>>

\* deleteEndpoint: with the endpoint locked, the unfinished deliveries the
\* UPDATE sees are exhausted and the endpoint goes.
ReadUnfinished(s) ==
    /\ At(s, "delete", "read")
    /\ LockAll(s, tx[s], {d \in Stored : Sought(s, d)})
    /\ UNCHANGED Rows

CommitDelete(s) ==
    /\ At(s, "delete", "commit")
    /\ endpoints' = [e \in DOMAIN endpoints \ {tx[s].endpoint} |-> endpoints[e]]
    /\ CommitRows(s, LockedDeliveries(s), [d \in Stored |->
         Release([deliveries[d] EXCEPT !.status = "exhausted"])])
    /\ UNCHANGED claims

-----------------------------------------------------------------------------
(* The outbox.                                                             *)

\* What a call asks for is chosen where it first matters: here, the event when
\* the endpoints are read.
BeginEnqueue(s) == Begin(s, Call("enqueue", "advisory"))

UnfinishedDuplicate(v, e) ==
    \E d \in Stored : /\ deliveries[d].event = v /\ deliveries[d].endpoint = e
                      /\ deliveries[d].status \notin Final

Duplicate(v, e) == \E d \in Stored : deliveries[d].event = v /\ deliveries[d].endpoint = e

\* The endpoints that take the event (any of the enabled ones) are read; the
\* insert, in a statement of its own, counts what is stored and chooses
\* finished deliveries to make room.
ReadEndpoints(s) ==
    /\ At(s, "enqueue", "read") /\ tx[s].found = {}
    /\ \E v \in Events, matched \in SUBSET EnabledEndpoints \ {{}} :
         Go(s, [tx[s] EXCEPT !.events = {v}, !.found = matched])
    /\ UNCHANGED Rows

NoneMatched(s) == At(s, "enqueue", "read") /\ tx[s].found = {} /\ Leave(s)

New(s) == {e \in tx[s].found : \A v \in tx[s].events : ~Duplicate(v, e)}

Insert(s) ==
    /\ At(s, "enqueue", "read") /\ tx[s].found # {}
    /\ LET over == Cardinality(Stored) + Cardinality(New(s))
           excess == IF over > Limit THEN over - Limit ELSE 0
           chosen == {P \in SUBSET FinalRows :
                        Cardinality(P) = IF excess < Cardinality(FinalRows) THEN excess
                                         ELSE Cardinality(FinalRows)} IN
       \E P \in chosen : \E ids \in SUBSET FreshDeliveryIds :
         /\ Cardinality(ids) = Cardinality(New(s))
         /\ LockAll(s, [tx[s] EXCEPT !.found = New(s), !.target = ids, !.missing = excess], P)
    /\ UNCHANGED Rows

\* The store is full of active deliveries: everything is rolled back.
EnqueueRejected(s) ==
    /\ At(s, "enqueue", "commit")
    /\ Cardinality(LockedDeliveries(s)) < tx[s].missing
    /\ Leave(s)

CommitEnqueue(s) ==
    /\ At(s, "enqueue", "commit")
    /\ Cardinality(LockedDeliveries(s)) >= tx[s].missing
    /\ \E target \in [tx[s].target -> tx[s].found] :
         /\ \A d, e \in tx[s].target : target[d] = target[e] => d = e
         /\ deliveries' = [d \in (Stored \ LockedDeliveries(s)) \cup tx[s].target |->
              IF d \in tx[s].target
              THEN [event |-> CHOOSE v \in tx[s].events : TRUE, endpoint |-> target[d],
                    status |-> "pending", attempts |-> 0, token |-> NoToken, expired |-> FALSE]
              ELSE deliveries[d]]
    /\ Finish(s)
    /\ UNCHANGED <<endpoints, claims>>

Requeued(row) == Release([row EXCEPT !.status = "pending", !.attempts = 0])

\* replayDeadLetters: one UPDATE of exhausted deliveries of enabled endpoints.
BeginReplay(s) == Begin(s, Call("replay", "advisory"))

Exhausted(s) ==
    Free(s, {d \in Stored : deliveries[d].status = "exhausted"
                              /\ deliveries[d].endpoint \in EnabledEndpoints})

LockExhausted(s) ==
    /\ At(s, "replay", "read")
    /\ \E S \in SUBSET Exhausted(s) :
         Go(s, [tx[s] EXCEPT !.at = "commit", !.locks = S])
    /\ UNCHANGED Rows

CommitReplay(s) ==
    /\ At(s, "replay", "commit")
    /\ CommitRows(s, LockedDeliveries(s), [d \in Stored |-> Requeued(deliveries[d])])
    /\ UNCHANGED <<endpoints, claims>>

\* retryDelivery: the delivery is locked, then its endpoint is looked at.
BeginRetry(s, d) == Begin(s, [Call("retry", "row") EXCEPT !.target = {d}])

LockRetried(s) ==
    /\ At(s, "retry", "row")
    /\ \E d \in tx[s].target \cap Free(s, Stored) :
         /\ deliveries[d].status \in {"retry", "exhausted"}
         /\ Go(s, [tx[s] EXCEPT !.at = "read", !.locks = {d}])
    /\ UNCHANGED Rows

\* It is missing, queued already, being delivered or done.
NotRetried(s) ==
    /\ At(s, "retry", "row")
    /\ \A d \in tx[s].target : d \in Stored =>
         d \in Free(s, {d}) /\ deliveries[d].status \notin {"retry", "exhausted"}
    /\ Leave(s)

ReadRetried(s) ==
    /\ At(s, "retry", "read")
    /\ \E d \in tx[s].locks :
         \/ /\ deliveries[d].endpoint \in EnabledEndpoints
            /\ Go(s, [tx[s] EXCEPT !.at = "commit"]) /\ UNCHANGED Rows
         \/ /\ deliveries[d].endpoint \notin EnabledEndpoints
            /\ Leave(s)

CommitRetry(s) ==
    /\ At(s, "retry", "commit")
    /\ CommitRows(s, LockedDeliveries(s), [d \in Stored |-> Requeued(deliveries[d])])
    /\ UNCHANGED <<endpoints, claims>>

-----------------------------------------------------------------------------
(* Dispatch.                                                               *)

\* Due, or its lease has expired; the circuit of its endpoint must be closed,
\* unless it has cooled down or deliveries are named and circuits bypassed.
Claimable(open) ==
    {d \in Stored : /\ deliveries[d].status \in {"pending", "retry"}
                       \/ (deliveries[d].status = "delivering" /\ deliveries[d].expired)
                    /\ deliveries[d].endpoint \in DOMAIN endpoints
                    /\ open \/ endpoints[deliveries[d].endpoint].circuit # "open"}

\* claimDeliveries: the rows are locked, locked ones are skipped.
AnyClaimable(s, open) == Claimable(open)

UnlockedClaimable(s, open) == Free(s, Claimable(open))

LockClaimed(s) ==
    \E open \in BOOLEAN : \E S \in SUBSET UnlockedClaimable(s, open) \ {{}} :
         Begin(s, [Call("claim", "commit") EXCEPT !.locks = S])

\* Each row gets a token of its own; the endpoints are read at the end.
CommitClaim(s) ==
    /\ At(s, "claim", "commit")
    /\ \E f \in [LockedDeliveries(s) -> FreshTokens] :
         /\ \A d, e \in LockedDeliveries(s) : f[d] = f[e] => d = e
         /\ CommitRows(s, LockedDeliveries(s), [d \in LockedDeliveries(s) |->
              [deliveries[d] EXCEPT !.status = "delivering", !.token = f[d], !.expired = FALSE,
                  !.attempts = IF @ < MaxAttempts THEN @ + 1 ELSE @]])
         /\ claims' = [t \in DOMAIN claims \cup {f[d] : d \in LockedDeliveries(s)} |->
              IF t \in DOMAIN claims THEN claims[t]
              ELSE LET d == CHOOSE x \in LockedDeliveries(s) : f[x] = t
                       known == deliveries[d].endpoint \in DOMAIN endpoints IN
                   [delivery |-> d, attempt |-> deliveries'[d].attempts,
                    endpoint |-> IF known THEN deliveries[d].endpoint ELSE NoEndpoint,
                    usable |-> known /\ endpoints[deliveries[d].endpoint].enabled]]
    /\ UNCHANGED endpoints

\* completeDelivery: the delivery is updated if the token is still on it, else
\* the answer is refused; then the circuit of the endpoint.  An endpoint that
\* was missing or disabled at the claim is not tried and its row left alone.
BeginComplete(s, t) ==
    /\ t \in DOMAIN claims
    /\ Begin(s, [Call("complete", "row") EXCEPT !.token = t, !.target = {claims[t].delivery},
                   !.endpoint = claims[t].endpoint])

LockCompleted(s) ==
    /\ At(s, "complete", "row")
    /\ \E d \in tx[s].target :
         /\ Sought(s, d) /\ d \in Free(s, {d})
         /\ Go(s, [tx[s] EXCEPT !.locks = {d},
                                !.at = IF claims[tx[s].token].usable THEN "endpoint" ELSE "commit"])
    /\ UNCHANGED Rows

Answered(t) == claims' = [x \in DOMAIN claims \ {t} |-> claims[x]]

LeaseLost(s) ==
    /\ At(s, "complete", "row")
    /\ \A d \in tx[s].target : ~Sought(s, d)
    /\ Finish(s) /\ Answered(tx[s].token)
    /\ UNCHANGED <<endpoints, deliveries>>

Circuit(row, result) ==
    IF result = "success" THEN [row EXCEPT !.failures = 0, !.circuit = "closed"]
    ELSE IF row.failures + 1 >= Threshold
         THEN [row EXCEPT !.failures = Threshold, !.circuit = "open"]
         ELSE [row EXCEPT !.failures = @ + 1, !.circuit = "closed"]

Settled(s, result) ==
    IF result = "success" THEN "succeeded"
    ELSE IF \/ result = "fatal" \/ tx[s].endpoint = NoEndpoint
            \/ claims[tx[s].token].attempt = MaxAttempts
         THEN "exhausted" ELSE "retry"

\* The result is part of the call; it matters only here.
CommitComplete(s) ==
    /\ At(s, "complete", "commit")
    /\ \E result \in IF claims[tx[s].token].usable THEN Results ELSE {"fatal"} :
         /\ CommitRows(s, LockedDeliveries(s), [d \in Stored |->
              Release([deliveries[d] EXCEPT !.status = Settled(s, result)])])
         /\ endpoints' = [e \in DOMAIN endpoints |->
              IF e \in tx[s].locks THEN Circuit(endpoints[e], result) ELSE endpoints[e]]
    /\ Answered(tx[s].token)

\* reconcile: expired leases are given up.
LockReconciled(s) ==
    \E S \in SUBSET Free(s, {d \in Stored : deliveries[d].status = "delivering"}) \ {{}} :
      Begin(s, [Call("reconcile", "read") EXCEPT !.locks = S])

ReadReconciled(s) ==
    /\ At(s, "reconcile", "read")
    /\ Go(s, [tx[s] EXCEPT !.at = "commit", !.found = EnabledEndpoints])
    /\ UNCHANGED Rows

CommitReconcile(s) ==
    /\ At(s, "reconcile", "commit")
    /\ CommitRows(s, {d \in LockedDeliveries(s) : deliveries[d].expired}, [d \in Stored |->
         Release([deliveries[d] EXCEPT !.status =
           IF deliveries[d].endpoint \in tx[s].found /\ deliveries[d].attempts < MaxAttempts
           THEN "retry" ELSE "exhausted"])])
    /\ UNCHANGED <<endpoints, claims>>

-----------------------------------------------------------------------------
(* Maintenance.                                                            *)

\* prune: some of the oldest finished deliveries, those locked being skipped,
\* or exactly those that are named, for which it waits.
BeginPrune(s) == Begin(s, Call("prune", "advisory"))

ReadFinished(s) ==
    /\ At(s, "prune", "read")
    /\ \/ \E named \in SUBSET FinalRows : LockAll(s, tx[s], named)
       \/ \E S \in SUBSET Free(s, FinalRows) : Go(s, [tx[s] EXCEPT !.at = "commit", !.locks = S])
    /\ UNCHANGED Rows

CommitPrune(s) ==
    /\ At(s, "prune", "commit")
    /\ deliveries' = WithoutRows(LockedDeliveries(s))
    /\ Finish(s)
    /\ UNCHANGED <<endpoints, claims>>

-----------------------------------------------------------------------------
(* The environment.                                                        *)

\* A lease expires.
Expire(d) ==
    /\ d \in Stored /\ deliveries[d].status = "delivering" /\ ~deliveries[d].expired
    /\ deliveries' = [deliveries EXCEPT ![d].expired = TRUE]
    /\ UNCHANGED <<endpoints, advisory, tx, claims>>

\* The process that makes an attempt dies.
Abandon(t) ==
    /\ t \in DOMAIN claims /\ \A s \in Sessions : tx[s].token # t
    /\ Answered(t)
    /\ UNCHANGED <<endpoints, deliveries, advisory, tx>>

\* PostgreSQL aborts a transaction that waits in a cycle; a connection may be
\* lost at any time before the commit.
Rollback(s) ==
    /\ tx[s].op # "idle"
    /\ Leave(s)

DeadlockVictim(s) == InCycle(s) /\ Leave(s)

-----------------------------------------------------------------------------
Start(s) ==
    \/ \E e \in Endpoints : CreateEndpoint(s, e)
    \/ \E e \in DOMAIN endpoints, op \in {"update", "delete", "reset"} : BeginEndpoint(s, op, e)
    \/ BeginReplay(s) \/ BeginPrune(s) \/ BeginEnqueue(s)
    \/ \E d \in Stored : BeginRetry(s, d)
    \/ LockClaimed(s) \/ LockReconciled(s)
    \/ \E t \in DOMAIN claims : (\A x \in Sessions : tx[x].token # t) /\ BeginComplete(s, t)

Continue(s) ==
    \/ TakeAdvisory(s) \/ LockEndpoint(s) \/ MissEndpoint(s) \/ LockNext(s)
    \/ CommitUpdate(s) \/ CommitReset(s) \/ ReadUnfinished(s) \/ CommitDelete(s)
    \/ ReadEndpoints(s) \/ NoneMatched(s) \/ Insert(s) \/ EnqueueRejected(s) \/ CommitEnqueue(s)
    \/ LockExhausted(s) \/ CommitReplay(s)
    \/ LockRetried(s) \/ NotRetried(s) \/ ReadRetried(s) \/ CommitRetry(s)
    \/ CommitClaim(s) \/ LockCompleted(s) \/ LeaseLost(s) \/ CommitComplete(s)
    \/ ReadReconciled(s) \/ CommitReconcile(s) \/ ReadFinished(s) \/ CommitPrune(s)

Next ==
    \/ \E s \in Sessions : Start(s) \/ Continue(s) \/ Rollback(s) \/ DeadlockVictim(s)
    \/ \E d \in DeliveryIds : Expire(d)
    \/ \E t \in Tokens : Abandon(t)

Spec == Init /\ [][Next]_vars

-----------------------------------------------------------------------------
\* Every row can be read back: toDelivery parses it with the schema of the outbox, which wants
\* a lease exactly while the delivery is being delivered.
TypeOK ==
    /\ DOMAIN endpoints \subseteq Endpoints /\ \A e \in DOMAIN endpoints : endpoints[e] \in EndpointRow
    /\ DOMAIN deliveries \subseteq DeliveryIds /\ \A d \in Stored : deliveries[d] \in DeliveryRow
    /\ \A d \in Stored : deliveries[d].status = "delivering" <=> deliveries[d].token # NoToken
    /\ advisory \in Sessions \cup {NoSession}
    /\ tx \in [Sessions -> Transaction]
    /\ DOMAIN claims \subseteq Tokens

(***************************************************************************)
(* Transactions whose statements interleave, wait for each other and look  *)
(* again at rows that changed meanwhile still take effect as single steps  *)
(* of the delivery lifecycle: no event is queued twice for an endpoint, a  *)
(* success is never taken back, and only deliveries disappear that are     *)
(* finished or were so when an enqueue chose them to make room.            *)
(***************************************************************************)
Outbox == INSTANCE DeliveryLifecycle WITH
    stored <- [d \in Stored |-> [event |-> deliveries[d].event, endpoint |-> deliveries[d].endpoint,
                                 status |-> deliveries[d].status]],
    chosen <- {d \in Stored : \E s \in Sessions :
                 tx[s].op = "enqueue" /\ d \in tx[s].todo \cup tx[s].locks}

ImplementsLifecycle == Outbox!Lifecycle

(***************************************************************************)
(* The deliveries are counted and made room for in a transaction, so that  *)
(* concurrent enqueues never leave more than the limit.                    *)
(***************************************************************************)
CapacityKept == Cardinality(Stored) <= Limit

(***************************************************************************)
(* A claim, retry or replay never takes a delivery from a lease that has   *)
(* not expired; only its attempt, or the deletion of its endpoint, does.   *)
(***************************************************************************)
LiveLeaseKept ==
    [][\A d \in Stored :
         (/\ deliveries[d].status = "delivering" /\ ~deliveries[d].expired
          /\ d \in DOMAIN deliveries' /\ deliveries'[d].token # deliveries[d].token)
         => \/ deliveries[d].endpoint \notin DOMAIN endpoints'
            \/ deliveries'[d].status # "pending" /\ deliveries[d].token \notin DOMAIN claims']_vars

(***************************************************************************)
(* An unfinished delivery has an endpoint: deleting an endpoint exhausts   *)
(* its unfinished deliveries.                                              *)
(***************************************************************************)
UnfinishedHasEndpoint ==
    \A d \in Stored : deliveries[d].status \notin Final => deliveries[d].endpoint \in DOMAIN endpoints
=============================================================================
