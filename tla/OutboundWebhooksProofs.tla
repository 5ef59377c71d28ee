---------------------- MODULE OutboundWebhooksProofs ----------------------
(* Theorems about the outbound webhook outbox, for every value of the constants. *)
EXTENDS OutboundWebhooks, TLAPS

\* The initial store is empty and well-typed.
LEMMA InitTypeOK == Init => TypeOK
<1> SUFFICES ASSUME Init PROVE TypeOK
    OBVIOUS
<1>1. endpoints \in [DOMAIN endpoints -> EndpointConfigs] /\ DOMAIN endpoints \subseteq Endpoints
    BY DEF Init
<1>2. endpointRuntime \in [Endpoints -> Runtime]
    BY DEF Init, ClosedCircuit, Runtime
<1>3. Stored \subseteq DeliveryIds /\ deliveries \in [Stored -> Delivery]
    BY DEF Init, Stored
<1>4. dispatch \in [Workers -> Dispatch]
    BY DEF Init, IdleDispatch, Dispatch
<1>5. DOMAIN inflight \subseteq Tokens /\ inflight \in [DOMAIN inflight -> Attempt]
    BY DEF Init
<1>6. \A d \in Stored : deliveries[d].status = "delivering" <=> deliveries[d].leaseToken # NoToken
    BY DEF Init, Stored
<1> QED
    BY <1>1, <1>2, <1>3, <1>4, <1>5, <1>6 DEF TypeOK

-----------------------------------------------------------------------------
(* Operators on records *)

\* Assigning a field a value of its kind keeps a delivery a delivery.
LEMMA DeliveryUpdates ==
    ASSUME NEW r \in Delivery
    PROVE  /\ \A x \in Active \cup Final : [r EXCEPT !.status = x] \in Delivery
           /\ \A x \in Nat : [r EXCEPT !.attemptCount = x] \in Delivery
           /\ \A x \in Int : /\ [r EXCEPT !.nextAttemptAt = x] \in Delivery
                             /\ [r EXCEPT !.completedAt = x] \in Delivery
                             /\ [r EXCEPT !.leaseExpiresAt = x] \in Delivery
           /\ \A x \in Tokens \cup {NoToken} : [r EXCEPT !.leaseToken = x] \in Delivery
BY DEF Delivery

\* Releasing a lease keeps a delivery a delivery and touches nothing but the lease.
LEMMA ReleaseLeaseType ==
    ASSUME NEW r \in Delivery
    PROVE  /\ ReleaseLease(r) \in Delivery
           /\ ReleaseLease(r).leaseToken = NoToken
           /\ ReleaseLease(r).status = r.status
           /\ ReleaseLease(r).eventId = r.eventId
           /\ ReleaseLease(r).endpointId = r.endpointId
           /\ ReleaseLease(r).attemptCount = r.attemptCount
<1>1. 0 \in Int
    OBVIOUS
<1>2. ReleaseLease(r) \in Delivery
    BY <1>1, DeliveryUpdates, Zenon DEF ReleaseLease
<1> QED
    BY <1>2 DEF ReleaseLease, Delivery

\* A new delivery is pending and holds no lease.
LEMMA NewDeliveryType ==
    ASSUME NEW v \in Events, NEW e \in Endpoints
    PROVE  NewDelivery(v, e) \in Delivery
BY DEF NewDelivery, Delivery, Active

\* The counters saturate at CounterCap and stay natural numbers.
LEMMA IncrementType == ASSUME NEW n \in Nat PROVE Increment(n) \in Nat
BY ConfigAssumption DEF Increment

\* The backoff is a natural number that never exceeds MaxRetryDelayMs.
LEMMA RetryDelayBound ==
    ASSUME NEW n \in Nat
    PROVE  RetryDelay(n) \in Nat /\ RetryDelay(n) <= MaxRetryDelayMs
<1> DEFINE delay == BaseRetryDelayMs * 2 ^ (IF n > 0 THEN n - 1 ELSE 0)
<1> HIDE DEF delay
<1>1. RetryDelay(n) = IF delay \in 0 .. MaxRetryDelayMs THEN delay ELSE MaxRetryDelayMs
    BY DEF RetryDelay, delay
<1> QED
    BY <1>1, ConfigAssumption

\* Ageing a timestamp keeps it an integer.
LEMMA EarlierType == ASSUME NEW n \in Int PROVE Earlier(n) \in Int
BY DEF Earlier

\* The heads of a sorted set are subsets of it.
LEMMA HeadsSubset == ASSUME NEW S, NEW key, NEW P \in Heads(S, key) PROVE P \subseteq S
BY DEF Heads

\* What a requeue leaves in the store.
LEMMA RequeuedType ==
    ASSUME TypeOK, NEW d \in Stored, NEW s \in Int
    PROVE  /\ Requeued(d, s) \in Delivery
           /\ Requeued(d, s).status = "pending"
           /\ Requeued(d, s).leaseToken = NoToken
           /\ Requeued(d, s).eventId = deliveries[d].eventId
           /\ Requeued(d, s).endpointId = deliveries[d].endpointId
<1> DEFINE r == [deliveries[d] EXCEPT !.status = "pending", !.attemptCount = 0,
                                      !.nextAttemptAt = s, !.completedAt = 0]
<1>1. deliveries[d] \in Delivery
    BY DEF TypeOK
<1>2. r \in Delivery
    <2>1. 0 \in Int /\ 0 \in Nat /\ "pending" \in Active \cup Final
        BY DEF Active
    <2> QED
        BY <1>1, <2>1, DeliveryUpdates, Zenon
<1>3. /\ r.status = "pending" /\ r.eventId = deliveries[d].eventId
      /\ r.endpointId = deliveries[d].endpointId
    BY <1>1 DEF Delivery
<1> HIDE DEF r
<1>4. Requeued(d, s) = ReleaseLease(r)
    BY DEF Requeued, r
<1> QED
    BY <1>2, <1>3, <1>4, ReleaseLeaseType

\* What a claim leaves in the store.
LEMMA ClaimedDeliveryType ==
    ASSUME TypeOK, NEW d \in Stored, NEW t \in Tokens, NEW s \in Int
    PROVE  /\ ClaimedDelivery(d, t, s) \in Delivery
           /\ ClaimedDelivery(d, t, s).status = "delivering"
           /\ ClaimedDelivery(d, t, s).leaseToken = t
           /\ ClaimedDelivery(d, t, s).eventId = deliveries[d].eventId
           /\ ClaimedDelivery(d, t, s).endpointId = deliveries[d].endpointId
<1>1. deliveries[d] \in Delivery
    BY DEF TypeOK
<1>2. Increment(deliveries[d].attemptCount) \in Nat
    BY <1>1, IncrementType DEF Delivery
<1>3. s + LeaseMs \in Int
    BY ConfigAssumption
<1> QED
    BY <1>1, <1>2, <1>3 DEF ClaimedDelivery, Delivery, Active

\* What a claim hands to its dispatcher.
LEMMA ClaimedAttemptType ==
    ASSUME TypeOK, NEW w \in Workers, NEW d \in Stored
    PROVE  /\ ClaimedAttempt(w, d) \in Attempt
           /\ ClaimedAttempt(w, d).delivery = d
           /\ ClaimedAttempt(w, d).endpointId = deliveries[d].endpointId
<1>1. deliveries[d] \in Delivery /\ d \in DeliveryIds
    BY DEF TypeOK
<1>2. Snapshot(deliveries[d].endpointId) \in EndpointConfigs \cup {NoEndpoint}
    BY DEF TypeOK, Snapshot
<1> QED
    BY <1>1, <1>2 DEF ClaimedAttempt, Attempt, Delivery

\* What a completion leaves in the store: a delivery without a lease.
LEMMA CompletedDeliveryType ==
    ASSUME TypeOK, NEW t \in DOMAIN inflight, NEW s \in Int, Fenced(t)
    PROVE  LET d == inflight[t].delivery
           IN  /\ CompletedDelivery(t, s) \in Delivery
               /\ CompletedDelivery(t, s).status # "delivering"
               /\ CompletedDelivery(t, s).leaseToken = NoToken
               /\ CompletedDelivery(t, s).eventId = deliveries[d].eventId
               /\ CompletedDelivery(t, s).endpointId = deliveries[d].endpointId
<1> DEFINE a == inflight[t]
           latest == deliveries[a.delivery]
           retry == /\ a.result = "retryable" /\ a.endpoint # NoEndpoint
                    /\ HasAttemptLeft(latest.attemptCount, a.endpoint)
           r == [latest EXCEPT
                   !.status = IF a.result = "success" THEN "succeeded"
                              ELSE IF retry THEN "retry" ELSE "exhausted",
                   !.nextAttemptAt = IF retry THEN s + RetryDelay(latest.attemptCount) ELSE @,
                   !.completedAt = IF retry THEN 0 ELSE s]
<1>1. latest \in Delivery
    BY DEF TypeOK, Fenced
<1>2. s + RetryDelay(latest.attemptCount) \in Int
    BY <1>1, RetryDelayBound DEF Delivery
<1>3. latest.nextAttemptAt \in Int
    BY <1>1 DEF Delivery
<1> HIDE DEF retry
<1>4. r \in Delivery
    <2> DEFINE status == IF a.result = "success" THEN "succeeded"
                         ELSE IF retry THEN "retry" ELSE "exhausted"
               nextAttemptAt == IF retry THEN s + RetryDelay(latest.attemptCount)
                                ELSE latest.nextAttemptAt
               completedAt == IF retry THEN 0 ELSE s
    <2>1. status \in Active \cup Final /\ nextAttemptAt \in Int /\ completedAt \in Int
        BY <1>2, <1>3 DEF Active, Final
    <2>2. r = [latest EXCEPT !.status = status, !.nextAttemptAt = nextAttemptAt,
                             !.completedAt = completedAt]
        OBVIOUS
    <2> HIDE DEF status, nextAttemptAt, completedAt, r
    <2> QED
        BY <1>1, <2>1, <2>2, DeliveryUpdates, Zenon
<1>5. r.status # "delivering" /\ r.eventId = latest.eventId /\ r.endpointId = latest.endpointId
    BY <1>1 DEF Delivery
<1>6. CompletedDelivery(t, s) = ReleaseLease(r)
    BY DEF CompletedDelivery, retry
<1> HIDE DEF r
<1> QED
    BY <1>4, <1>5, <1>6, ReleaseLeaseType

\* What a completion leaves of the circuits: only the endpoint of the attempt is touched.
LEMMA RuntimeAfterAttemptType ==
    ASSUME TypeOK, NEW t \in DOMAIN inflight, NEW s \in Int, inflight[t].result # "posting"
    PROVE  /\ RuntimeAfterAttempt(t, s) \in [Endpoints -> Runtime]
           /\ \A e \in Endpoints : e # inflight[t].endpointId =>
                RuntimeAfterAttempt(t, s)[e] = endpointRuntime[e]
<1> DEFINE a == inflight[t]
           failures == Increment(endpointRuntime[a.endpointId].consecutiveFailures)
           open == failures >= a.endpoint.circuitFailureThreshold
           next == IF a.result = "success" THEN ClosedCircuit
                   ELSE [consecutiveFailures |-> failures,
                         circuitState |-> IF open THEN "open" ELSE "closed",
                         circuitOpenUntil |-> IF open THEN s + a.endpoint.circuitCooldownMs ELSE 0]
<1>1. a \in Attempt /\ a.endpointId \in Endpoints /\ endpointRuntime \in [Endpoints -> Runtime]
    BY DEF TypeOK, Attempt
<1>2. CASE a.endpoint = NoEndpoint \/ (a.result # "success" /\ ~a.endpoint.enabled)
    BY <1>1, <1>2 DEF RuntimeAfterAttempt
<1>3. CASE ~(a.endpoint = NoEndpoint \/ (a.result # "success" /\ ~a.endpoint.enabled))
    <2>1. RuntimeAfterAttempt(t, s) = [endpointRuntime EXCEPT ![a.endpointId] = next]
        BY <1>3 DEF RuntimeAfterAttempt
    <2>2. a.endpoint \in EndpointConfig
        BY <1>1, <1>3, ConfigAssumption DEF Attempt
    <2>3. s + a.endpoint.circuitCooldownMs \in Int
        BY <2>2 DEF EndpointConfig
    <2>4. failures \in Nat
        BY <1>1, IncrementType DEF Runtime
    <2> HIDE DEF open, failures
    <2>5. next \in Runtime
        BY <2>3, <2>4 DEF Runtime, ClosedCircuit
    <2> HIDE DEF next
    <2> QED
        BY <1>1, <2>1, <2>5
<1> QED
    BY <1>2, <1>3

-----------------------------------------------------------------------------
(***************************************************************************)
(* The inductive invariant.  CircuitHasEndpoint is not inductive alone: a  *)
(* completion writes the circuit of the endpoint its attempt was claimed   *)
(* for, and that endpoint exists because the fence makes the delivery an   *)
(* unfinished one (UnfinishedHasEndpoint) that still belongs to the same   *)
(* attempt and so to the same endpoint (AttemptOwnsLease).                 *)
(***************************************************************************)

\* A lease token that is still in flight names the delivery it was issued for.
AttemptOwnsLease ==
    \A d \in Stored : deliveries[d].leaseToken \in DOMAIN inflight =>
       /\ inflight[deliveries[d].leaseToken].delivery = d
       /\ inflight[deliveries[d].leaseToken].endpointId = deliveries[d].endpointId

LeaseFieldsAgree ==
    \A d \in Stored : deliveries[d].status = "delivering" <=> deliveries[d].leaseToken # NoToken

OutboxOK ==
    /\ Stored \subseteq DeliveryIds
    /\ deliveries \in [Stored -> Delivery]
    /\ LeaseFieldsAgree
    /\ Deduplicated
    /\ AttemptOwnsLease

EndpointsOK ==
    /\ DOMAIN endpoints \subseteq Endpoints
    /\ endpoints \in [DOMAIN endpoints -> EndpointConfigs]
    /\ endpointRuntime \in [Endpoints -> Runtime]

DispatchersOK ==
    /\ dispatch \in [Workers -> Dispatch]
    /\ DOMAIN inflight \subseteq Tokens
    /\ inflight \in [DOMAIN inflight -> Attempt]

Inv ==
    /\ OutboxOK
    /\ EndpointsOK
    /\ DispatchersOK
    /\ UnfinishedHasEndpoint
    /\ CircuitHasEndpoint

\* The invariant contains type correctness.
LEMMA InvTypeOK == Inv => TypeOK
BY DEF Inv, OutboxOK, EndpointsOK, DispatchersOK, LeaseFieldsAgree, TypeOK

\* The initial state satisfies the invariant.
LEMMA InitInv == Init => Inv
<1> SUFFICES ASSUME Init PROVE Inv
    OBVIOUS
<1>1. TypeOK
    BY InitTypeOK
<1>2. Stored = {}
    BY DEF Init, Stored
<1>3. Deduplicated /\ AttemptOwnsLease /\ UnfinishedHasEndpoint
    BY <1>2 DEF Deduplicated, AttemptOwnsLease, UnfinishedHasEndpoint
<1>4. CircuitHasEndpoint
    BY DEF Init, CircuitHasEndpoint
<1> QED
    BY <1>1, <1>3, <1>4
    DEF TypeOK, Inv, OutboxOK, EndpointsOK, DispatchersOK, LeaseFieldsAgree

\* A step that neither adds a delivery nor an attempt, keeps the event and the endpoint of
\* every delivery, and keeps or clears its lease token, preserves the state of the outbox.
LEMMA OutboxRewritten ==
    ASSUME OutboxOK,
           Stored' \subseteq Stored,
           deliveries' \in [Stored' -> Delivery],
           \A d \in Stored' :
              /\ deliveries'[d].eventId = deliveries[d].eventId
              /\ deliveries'[d].endpointId = deliveries[d].endpointId
              /\ deliveries'[d].leaseToken \in {deliveries[d].leaseToken, NoToken}
              /\ deliveries'[d].status = "delivering" <=> deliveries'[d].leaseToken # NoToken,
           DOMAIN inflight' \subseteq DOMAIN inflight,
           \A t \in DOMAIN inflight' :
              /\ inflight'[t].delivery = inflight[t].delivery
              /\ inflight'[t].endpointId = inflight[t].endpointId,
           DOMAIN inflight \subseteq Tokens
    PROVE  OutboxOK'
<1>1. Stored' \subseteq DeliveryIds /\ LeaseFieldsAgree'
    BY DEF OutboxOK, LeaseFieldsAgree
<1>2. Deduplicated'
    BY DEF OutboxOK, Deduplicated
<1>3. AttemptOwnsLease'
    <2> SUFFICES ASSUME NEW d \in Stored', deliveries'[d].leaseToken \in DOMAIN inflight'
                 PROVE  /\ inflight'[deliveries'[d].leaseToken].delivery = d
                        /\ inflight'[deliveries'[d].leaseToken].endpointId = deliveries'[d].endpointId
        BY DEF AttemptOwnsLease
    <2>1. deliveries'[d].leaseToken # NoToken
        BY ConfigAssumption
    <2>2. deliveries'[d].leaseToken = deliveries[d].leaseToken
        BY <2>1
    <2> QED
        BY <2>2 DEF OutboxOK, AttemptOwnsLease
<1> QED
    BY <1>1, <1>2, <1>3 DEF OutboxOK

\* A step that leaves the outbox and the attempts alone preserves the state of the outbox.
LEMMA OutboxUntouched ==
    ASSUME OutboxOK, UNCHANGED <<deliveries, inflight>>
    PROVE  OutboxOK'
BY DEF OutboxOK, Stored, LeaseFieldsAgree, Deduplicated, AttemptOwnsLease

-----------------------------------------------------------------------------
(* One lemma per operation *)

\* createEndpoint adds an endpoint with an unused id.
LEMMA CreateEndpointInv ==
    ASSUME Inv, NEW e \in Endpoints, NEW config \in EndpointConfigs, CreateEndpoint(e, config)
    PROVE  Inv'
<1>1. OutboxOK' /\ DispatchersOK'
    BY OutboxUntouched DEF CreateEndpoint, Inv, DispatchersOK
<1>2. EndpointsOK'
    BY DEF CreateEndpoint, Inv, EndpointsOK
<1>3. DOMAIN endpoints \subseteq DOMAIN endpoints'
    BY DEF CreateEndpoint
<1>4. UnfinishedHasEndpoint' /\ CircuitHasEndpoint'
    BY <1>3 DEF CreateEndpoint, Inv, UnfinishedHasEndpoint, CircuitHasEndpoint, Stored
<1> QED
    BY <1>1, <1>2, <1>4 DEF Inv

\* updateEndpoint replaces the record of an existing endpoint.
LEMMA UpdateEndpointInv ==
    ASSUME Inv, NEW e \in Endpoints, NEW config \in EndpointConfigs, UpdateEndpoint(e, config)
    PROVE  Inv'
<1>1. OutboxOK' /\ DispatchersOK'
    BY OutboxUntouched DEF UpdateEndpoint, Inv, DispatchersOK
<1>2. EndpointsOK'
    BY DEF UpdateEndpoint, Inv, EndpointsOK
<1>3. DOMAIN endpoints = DOMAIN endpoints'
    BY DEF UpdateEndpoint
<1>4. UnfinishedHasEndpoint' /\ CircuitHasEndpoint'
    BY <1>3 DEF UpdateEndpoint, Inv, UnfinishedHasEndpoint, CircuitHasEndpoint, Stored
<1> QED
    BY <1>1, <1>2, <1>4 DEF Inv

\* resetCircuit closes the circuit of an existing endpoint.
LEMMA ResetCircuitInv ==
    ASSUME Inv, NEW e \in Endpoints, ResetCircuit(e)
    PROVE  Inv'
<1>1. OutboxOK' /\ DispatchersOK'
    BY OutboxUntouched DEF ResetCircuit, Inv, DispatchersOK
<1>2. EndpointsOK'
    BY DEF ResetCircuit, Inv, EndpointsOK, ClosedCircuit, Runtime
<1>3. UnfinishedHasEndpoint' /\ CircuitHasEndpoint'
    BY DEF ResetCircuit, Inv, UnfinishedHasEndpoint, CircuitHasEndpoint, Stored, EndpointsOK
<1> QED
    BY <1>1, <1>2, <1>3 DEF Inv

\* deleteEndpoint finishes every unfinished delivery of the endpoint it removes.
LEMMA DeleteEndpointInv ==
    ASSUME Inv, NEW e \in Endpoints, NEW s \in Int, DeleteEndpoint(e, s)
    PROVE  Inv'
<1>1. Stored' = Stored
    BY DEF DeleteEndpoint, Stored
<1>2. ASSUME NEW d \in Stored
      PROVE  /\ deliveries'[d] \in Delivery
             /\ deliveries'[d].eventId = deliveries[d].eventId
             /\ deliveries'[d].endpointId = deliveries[d].endpointId
             /\ deliveries'[d].leaseToken \in {deliveries[d].leaseToken, NoToken}
             /\ deliveries'[d].status = "delivering" <=> deliveries'[d].leaseToken # NoToken
             /\ deliveries'[d].status \in Active => /\ deliveries[d].status \in Active
                                                    /\ deliveries[d].endpointId # e
    <2> DEFINE r == [deliveries[d] EXCEPT !.status = "exhausted", !.completedAt = s]
    <2>1. deliveries[d] \in Delivery
        BY DEF Inv, OutboxOK
    <2>2. r \in Delivery
        <3>1. "exhausted" \in Active \cup Final
            BY DEF Final
        <3> QED
            BY <2>1, <3>1, DeliveryUpdates, Zenon
    <2>3. /\ r.status = "exhausted" /\ r.eventId = deliveries[d].eventId
          /\ r.endpointId = deliveries[d].endpointId
        BY <2>1 DEF Delivery
    <2> HIDE DEF r
    <2>4. CASE UnfinishedFor(d, e)
        <3>1. deliveries'[d] = ReleaseLease(r)
            BY <2>4 DEF DeleteEndpoint, r
        <3> QED
            BY <2>2, <2>3, <3>1, ReleaseLeaseType DEF Active
    <2>5. CASE ~UnfinishedFor(d, e)
        <3>1. deliveries'[d] = deliveries[d]
            BY <2>5 DEF DeleteEndpoint
        <3> QED
            BY <2>1, <2>5, <3>1 DEF Inv, OutboxOK, LeaseFieldsAgree, UnfinishedFor, Active, Final
    <2> QED
        BY <2>4, <2>5
<1>3. OutboxOK'
    <2>1. deliveries' \in [Stored' -> Delivery]
        BY <1>1, <1>2 DEF DeleteEndpoint
    <2>2. inflight' = inflight /\ DOMAIN inflight \subseteq Tokens
        BY DEF DeleteEndpoint, Inv, DispatchersOK
    <2> QED
        BY <1>1, <1>2, <2>1, <2>2, OutboxRewritten DEF Inv
<1>4. EndpointsOK' /\ DispatchersOK'
    <2>1. DispatchersOK'
        BY DEF DeleteEndpoint, Inv, DispatchersOK
    <2>2. ClosedCircuit \in Runtime
        BY DEF ClosedCircuit, Runtime
    <2>3. endpointRuntime' \in [Endpoints -> Runtime]
        BY <2>2 DEF DeleteEndpoint, Inv, EndpointsOK
    <2>4. DOMAIN endpoints' \subseteq Endpoints /\ endpoints' \in [DOMAIN endpoints' -> EndpointConfigs]
        BY DEF DeleteEndpoint, Inv, EndpointsOK
    <2> QED
        BY <2>1, <2>3, <2>4 DEF EndpointsOK
<1>5. DOMAIN endpoints' = DOMAIN endpoints \ {e}
    BY DEF DeleteEndpoint
<1>6. UnfinishedHasEndpoint'
    BY <1>1, <1>2, <1>5 DEF Inv, UnfinishedHasEndpoint
<1>7. CircuitHasEndpoint'
    BY <1>5 DEF DeleteEndpoint, Inv, EndpointsOK, CircuitHasEndpoint
<1> QED
    BY <1>3, <1>4, <1>6, <1>7 DEF Inv

\* enqueue adds pending deliveries under unused ids, one per endpoint that has none for the
\* event, and removes nothing but finished ones.
LEMMA EnqueueInv ==
    ASSUME Inv, NEW v \in Events, NEW selected \in SUBSET Endpoints, NEW bypass \in BOOLEAN,
           Enqueue(v, selected, bypass)
    PROVE  Inv'
<1> DEFINE queued == {e \in MatchedEndpoints(v, selected, bypass) : ~AlreadyQueued(v, e)}
<1>1. PICK id \in [queued -> FreshDeliveryIds], evicted \in Evictions(Cardinality(queued)) :
             /\ \A e, f \in queued : id[e] = id[f] => e = f
             /\ deliveries' =
                  [d \in (Stored \ evicted) \cup {id[e] : e \in queued} |->
                     IF d \in Stored THEN deliveries[d]
                     ELSE NewDelivery(v, CHOOSE e \in queued : id[e] = d)]
    BY Zenon DEF Enqueue
<1>2. UNCHANGED <<endpoints, endpointRuntime, dispatch, inflight>>
    BY DEF Enqueue
<1>3. queued \subseteq Endpoints /\ \A e \in queued : e \in DOMAIN endpoints /\ ~AlreadyQueued(v, e)
    BY DEF MatchedEndpoints, EnabledEndpoint
<1> HIDE DEF queued
<1>4. Stored' = (Stored \ evicted) \cup {id[e] : e \in queued}
    BY <1>1 DEF Stored
<1>5. ASSUME NEW d \in Stored' PROVE d \in Stored \/ \E e \in queued : d = id[e]
    BY <1>4
<1>6. ASSUME NEW d \in Stored', d \in Stored PROVE deliveries'[d] = deliveries[d]
    BY <1>1, <1>4, <1>6
<1>7. ASSUME NEW e \in queued
      PROVE  /\ id[e] \in Stored' /\ id[e] \notin Stored /\ id[e] \in DeliveryIds
             /\ deliveries'[id[e]] = NewDelivery(v, e)
    <2>1. id[e] \in FreshDeliveryIds
        BY <1>1
    <2>2. id[e] \in Stored' /\ id[e] \notin Stored /\ id[e] \in DeliveryIds
        BY <1>4, <2>1 DEF FreshDeliveryIds
    <2>3. (CHOOSE f \in queued : id[f] = id[e]) = e
        BY <1>1
    <2> QED
        BY <1>1, <1>4, <2>2, <2>3
<1>8. \A e \in queued : /\ NewDelivery(v, e) \in Delivery
                        /\ NewDelivery(v, e).eventId = v /\ NewDelivery(v, e).endpointId = e
                        /\ NewDelivery(v, e).status = "pending"
                        /\ NewDelivery(v, e).leaseToken = NoToken
    BY <1>3, NewDeliveryType DEF NewDelivery
<1>9. OutboxOK'
    <2>1. Stored' \subseteq DeliveryIds
        BY <1>5, <1>7 DEF Inv, OutboxOK
    <2>2. deliveries' \in [Stored' -> Delivery]
        <3>1. \A d \in Stored' : deliveries'[d] \in Delivery
            BY <1>5, <1>6, <1>7, <1>8 DEF Inv, OutboxOK
        <3>2. deliveries' = [d \in Stored' |-> deliveries'[d]]
            BY <1>1, <1>4
        <3> QED
            BY <3>1, <3>2
    <2>3. LeaseFieldsAgree'
        BY <1>5, <1>6, <1>7, <1>8 DEF Inv, OutboxOK, LeaseFieldsAgree
    <2>4. Deduplicated'
        <3> SUFFICES ASSUME NEW c \in Stored', NEW d \in Stored',
                            deliveries'[c].eventId = deliveries'[d].eventId,
                            deliveries'[c].endpointId = deliveries'[d].endpointId
                     PROVE  c = d
            BY DEF Deduplicated
        <3>1. CASE c \in Stored /\ d \in Stored
            BY <1>6, <3>1 DEF Inv, OutboxOK, Deduplicated
        <3>2. ASSUME NEW x \in Stored', x \in Stored, NEW e \in queued,
                     deliveries'[x].eventId = deliveries'[id[e]].eventId,
                     deliveries'[x].endpointId = deliveries'[id[e]].endpointId
              PROVE  FALSE
            BY <1>3, <1>6, <1>7, <1>8, <3>2 DEF AlreadyQueued
        <3>3. CASE c \notin Stored /\ d \notin Stored
            <4>1. PICK e \in queued : c = id[e]
                BY <1>5, <3>3
            <4>2. PICK f \in queued : d = id[f]
                BY <1>5, <3>3
            <4> QED
                BY <1>7, <1>8, <4>1, <4>2
        <3> QED
            BY <1>5, <3>1, <3>2, <3>3
    <2>5. AttemptOwnsLease'
        <3>1. NoToken \notin DOMAIN inflight
            BY ConfigAssumption DEF Inv, DispatchersOK
        <3> QED
            BY <1>2, <1>5, <1>6, <1>7, <1>8, <3>1 DEF Inv, OutboxOK, AttemptOwnsLease
    <2> QED
        BY <2>1, <2>2, <2>3, <2>4, <2>5 DEF OutboxOK
<1>10. EndpointsOK' /\ DispatchersOK'
    BY <1>2 DEF Inv, EndpointsOK, DispatchersOK
<1>11. UnfinishedHasEndpoint' /\ CircuitHasEndpoint'
    BY <1>2, <1>3, <1>5, <1>6, <1>7, <1>8 DEF Inv, UnfinishedHasEndpoint, CircuitHasEndpoint
<1> QED
    BY <1>9, <1>10, <1>11 DEF Inv

\* A step that changes nothing but the outbox, rewrites records the way OutboxRewritten allows
\* and makes a delivery unfinished only if its endpoint is stored, preserves the invariant.
LEMMA MaintenanceInv ==
    ASSUME Inv,
           UNCHANGED <<endpoints, endpointRuntime, dispatch, inflight>>,
           Stored' \subseteq Stored,
           deliveries' = [d \in Stored' |-> deliveries'[d]],
           \A d \in Stored' :
              \/ deliveries'[d] = deliveries[d]
              \/ /\ deliveries'[d] \in Delivery
                 /\ deliveries'[d].eventId = deliveries[d].eventId
                 /\ deliveries'[d].endpointId = deliveries[d].endpointId
                 /\ deliveries'[d].leaseToken = NoToken
                 /\ deliveries'[d].status # "delivering"
                 /\ deliveries'[d].status \in Active => deliveries[d].endpointId \in DOMAIN endpoints
    PROVE  Inv'
<1>1. \A d \in Stored' :
        /\ deliveries'[d] \in Delivery
        /\ deliveries'[d].eventId = deliveries[d].eventId
        /\ deliveries'[d].endpointId = deliveries[d].endpointId
        /\ deliveries'[d].leaseToken \in {deliveries[d].leaseToken, NoToken}
        /\ deliveries'[d].status = "delivering" <=> deliveries'[d].leaseToken # NoToken
        /\ deliveries'[d].status \in Active => deliveries[d].endpointId \in DOMAIN endpoints
    BY DEF Inv, OutboxOK, LeaseFieldsAgree, UnfinishedHasEndpoint
<1>2. OutboxOK'
    <2>1. deliveries' \in [Stored' -> Delivery]
        BY <1>1
    <2>2. DOMAIN inflight \subseteq Tokens
        BY DEF Inv, DispatchersOK
    <2> QED
        BY <1>1, <2>1, <2>2, OutboxRewritten DEF Inv
<1>3. EndpointsOK' /\ DispatchersOK'
    BY DEF Inv, EndpointsOK, DispatchersOK
<1>4. UnfinishedHasEndpoint' /\ CircuitHasEndpoint'
    BY <1>1 DEF Inv, UnfinishedHasEndpoint, CircuitHasEndpoint
<1> QED
    BY <1>2, <1>3, <1>4 DEF Inv

\* retryDelivery requeues one delivery of an enabled endpoint.
LEMMA RetryDeliveryInv ==
    ASSUME Inv, NEW d \in DeliveryIds, NEW s \in Int, RetryDelivery(d, s)
    PROVE  Inv'
<1>1. Stored' = Stored /\ deliveries' = [c \in Stored' |-> deliveries'[c]]
    BY DEF RetryDelivery, Stored, Inv, OutboxOK
<1>2. deliveries'[d] = Requeued(d, s) /\ \A c \in Stored \ {d} : deliveries'[c] = deliveries[c]
    BY DEF RetryDelivery, Stored, Inv, OutboxOK
<1>3. d \in Stored /\ deliveries[d].endpointId \in DOMAIN endpoints
    BY DEF RetryDelivery, EnabledEndpoint
<1>4. UNCHANGED <<endpoints, endpointRuntime, dispatch, inflight>>
    BY DEF RetryDelivery
<1>5. "pending" # "delivering"
    OBVIOUS
<1> QED
    BY <1>1, <1>2, <1>3, <1>4, <1>5, RequeuedType, InvTypeOK, MaintenanceInv

\* replayDeadLetters requeues dead letters of enabled endpoints.
LEMMA ReplayDeadLettersInv ==
    ASSUME Inv, NEW ids \in SUBSET DeliveryIds, NEW s \in Int, ReplayDeadLetters(ids, s)
    PROVE  Inv'
<1> DEFINE replayed == {d \in ids \cap Stored : /\ deliveries[d].status = "exhausted"
                                                /\ EnabledEndpoint(deliveries[d].endpointId)}
<1>1. deliveries' = [d \in Stored |-> IF d \in replayed THEN Requeued(d, s) ELSE deliveries[d]]
    BY DEF ReplayDeadLetters
<1>2. \A d \in replayed : d \in Stored /\ deliveries[d].endpointId \in DOMAIN endpoints
    BY DEF EnabledEndpoint
<1> HIDE DEF replayed
<1>3. Stored' = Stored /\ deliveries' = [d \in Stored' |-> deliveries'[d]]
    BY <1>1 DEF Stored
<1>4. UNCHANGED <<endpoints, endpointRuntime, dispatch, inflight>>
    BY DEF ReplayDeadLetters
<1>5. \A d \in Stored : deliveries'[d] = IF d \in replayed THEN Requeued(d, s) ELSE deliveries[d]
    BY <1>1
<1> QED
    BY <1>2, <1>3, <1>4, <1>5, RequeuedType, InvTypeOK, MaintenanceInv

\* reconcile takes expired leases back; only a delivery whose endpoint is enabled waits again.
LEMMA ReconcileInv ==
    ASSUME Inv, NEW s \in Int, Reconcile(s)
    PROVE  Inv'
<1> DEFINE delivering == {d \in Stored : deliveries[d].status = "delivering"}
           CanRetry(d) ==
              /\ EnabledEndpoint(deliveries[d].endpointId)
              /\ HasAttemptLeft(deliveries[d].attemptCount, endpoints[deliveries[d].endpointId])
           TakenBack(d) == [deliveries[d] EXCEPT
                              !.status = IF CanRetry(d) THEN "retry" ELSE "exhausted",
                              !.nextAttemptAt = s,
                              !.completedAt = IF CanRetry(d) THEN 0 ELSE s]
<1>1. PICK candidates \in Heads(delivering, [d \in delivering |-> deliveries[d].leaseExpiresAt]) :
         deliveries' = [d \in Stored |->
            IF d \in {c \in candidates : LeaseExpired(c, s)}
            THEN ReleaseLease(TakenBack(d)) ELSE deliveries[d]]
    BY Zenon DEF Reconcile
<1>2. UNCHANGED <<endpoints, endpointRuntime, dispatch, inflight>>
    BY DEF Reconcile
<1>3. Stored' = Stored /\ deliveries' = [d \in Stored' |-> deliveries'[d]]
    BY <1>1 DEF Stored
<1>4. ASSUME NEW d \in Stored
      PROVE  /\ TakenBack(d) \in Delivery
             /\ TakenBack(d).eventId = deliveries[d].eventId
             /\ TakenBack(d).endpointId = deliveries[d].endpointId
             /\ TakenBack(d).status # "delivering"
             /\ TakenBack(d).status \in Active => deliveries[d].endpointId \in DOMAIN endpoints
    <2>1. deliveries[d] \in Delivery
        BY DEF Inv, OutboxOK
    <2> DEFINE status == IF CanRetry(d) THEN "retry" ELSE "exhausted"
               completedAt == IF CanRetry(d) THEN 0 ELSE s
    <2>2. CanRetry(d) => deliveries[d].endpointId \in DOMAIN endpoints
        BY DEF EnabledEndpoint
    <2> HIDE DEF CanRetry
    <2>3. status \in Active \cup Final /\ completedAt \in Int
        BY DEF Active, Final
    <2>4. status # "delivering" /\ (status \in Active => CanRetry(d))
        BY DEF Active
    <2>5. TakenBack(d) = [deliveries[d] EXCEPT !.status = status, !.nextAttemptAt = s,
                                               !.completedAt = completedAt]
        OBVIOUS
    <2> HIDE DEF status, completedAt, TakenBack
    <2>6. [deliveries[d] EXCEPT !.status = status, !.nextAttemptAt = s,
                                !.completedAt = completedAt] \in Delivery
        BY <2>1, <2>3, DeliveryUpdates, Zenon
    <2>7. /\ TakenBack(d).status = status
          /\ TakenBack(d).eventId = deliveries[d].eventId
          /\ TakenBack(d).endpointId = deliveries[d].endpointId
        BY <2>1, <2>5 DEF Delivery
    <2> QED
        BY <2>2, <2>4, <2>5, <2>6, <2>7
<1> HIDE DEF TakenBack
<1>5. \A d \in Stored : deliveries'[d] \in {ReleaseLease(TakenBack(d)), deliveries[d]}
    BY <1>1
<1> QED
    BY <1>2, <1>3, <1>4, <1>5, ReleaseLeaseType, MaintenanceInv

\* prune removes deliveries and leaves the others as they are.
LEMMA PruneInv ==
    ASSUME Inv, NEW before \in Int, NEW ids \in SUBSET DeliveryIds, Prune(before, ids)
    PROVE  Inv'
<1>1. PICK eligible : deliveries' = [d \in Stored \ eligible |-> deliveries[d]]
    BY DEF Prune, Without
<1>2. Stored' \subseteq Stored /\ deliveries' = [d \in Stored' |-> deliveries'[d]]
    BY <1>1 DEF Stored
<1>3. \A d \in Stored' : deliveries'[d] = deliveries[d]
    BY <1>1 DEF Stored
<1>4. UNCHANGED <<endpoints, endpointRuntime, dispatch, inflight>>
    BY DEF Prune
<1> QED
    BY <1>2, <1>3, <1>4, MaintenanceInv

\* Starting and ending a dispatch call only changes the caller's progress.
LEMMA DispatchCallInv ==
    ASSUME Inv, UNCHANGED <<endpoints, endpointRuntime, deliveries, inflight>>,
           dispatch' \in [Workers -> Dispatch]
    PROVE  Inv'
<1>1. OutboxOK'
    BY OutboxUntouched DEF Inv
<1>2. EndpointsOK' /\ DispatchersOK'
    BY DEF Inv, EndpointsOK, DispatchersOK
<1>3. UnfinishedHasEndpoint' /\ CircuitHasEndpoint'
    BY DEF Inv, UnfinishedHasEndpoint, CircuitHasEndpoint, Stored
<1> QED
    BY <1>1, <1>2, <1>3 DEF Inv

\* A dispatch call starts with nothing processed and no batch.
LEMMA StartDispatchInv ==
    ASSUME Inv, NEW w \in Workers, NEW targeted \in BOOLEAN, NEW targets \in SUBSET DeliveryIds,
           NEW bypass \in BOOLEAN, StartDispatch(w, targeted, targets, bypass)
    PROVE  Inv'
<1>1. [active |-> TRUE, targeted |-> targeted, targets |-> targets, bypass |-> bypass,
       processed |-> {}, batch |-> {}] \in Dispatch
    BY DEF Dispatch
<1>2. dispatch' \in [Workers -> Dispatch]
    BY <1>1 DEF StartDispatch, Inv, DispatchersOK
<1> QED
    BY <1>2, DispatchCallInv DEF StartDispatch

\* A dispatch call that is over is idle again.
LEMMA EndDispatchInv ==
    ASSUME Inv, NEW w \in Workers, NEW s \in Int, EndDispatch(w, s)
    PROVE  Inv'
<1>1. IdleDispatch \in Dispatch
    BY DEF IdleDispatch, Dispatch
<1>2. dispatch' \in [Workers -> Dispatch]
    BY <1>1 DEF EndDispatch, Inv, DispatchersOK
<1> QED
    BY <1>2, DispatchCallInv DEF EndDispatch

\* A claim leases due deliveries under unused tokens and hands each to one attempt.
LEMMA ClaimInv ==
    ASSUME Inv, NEW w \in Workers, NEW s \in Int, Claim(w, s)
    PROVE  Inv'
<1> DEFINE Leased(batch, token) ==
         /\ \A c, d \in batch : token[c] = token[d] => c = d
         /\ deliveries' = [d \in Stored |->
              IF d \in batch THEN ClaimedDelivery(d, token[d], s) ELSE deliveries[d]]
         /\ inflight' = [t \in DOMAIN inflight \cup {token[d] : d \in batch} |->
              IF t \in DOMAIN inflight THEN inflight[t]
              ELSE ClaimedAttempt(w, CHOOSE d \in batch : token[d] = t)]
         /\ dispatch' = [dispatch EXCEPT ![w].processed = @ \cup batch,
                                         ![w].batch = {token[d] : d \in batch}]
<1>0. PICK batch \in Heads(Claimable(w, s), [d \in Claimable(w, s) |-> deliveries[d].nextAttemptAt]) :
         \E token \in [batch -> FreshTokens] : Leased(batch, token)
    BY Zenon DEF Claim
<1>1. PICK token \in [batch -> FreshTokens] : Leased(batch, token)
    BY <1>0
<1>2. UNCHANGED <<endpoints, endpointRuntime>>
    BY DEF Claim
<1>3. batch \subseteq Claimable(w, s) /\ batch \subseteq Stored /\ batch \subseteq DeliveryIds
    BY HeadsSubset DEF Claimable, Inv, OutboxOK
<1>4. \A d \in batch : /\ deliveries[d].status \in Active
                       /\ deliveries[d].endpointId \in DOMAIN endpoints
    BY <1>3 DEF Claimable, Active, Inv, UnfinishedHasEndpoint
<1>5. \A d \in batch : /\ token[d] \in Tokens /\ token[d] \notin DOMAIN inflight
                       /\ \A c \in Stored : deliveries[c].leaseToken # token[d]
    BY <1>1 DEF FreshTokens
<1>6. Stored' = Stored
    BY <1>1 DEF Stored
<1>7. DOMAIN inflight' = DOMAIN inflight \cup {token[d] : d \in batch}
    BY <1>1
<1>8. ASSUME NEW d \in batch
      PROVE  /\ deliveries'[d] = ClaimedDelivery(d, token[d], s)
             /\ inflight'[token[d]] = ClaimedAttempt(w, d)
    <2>1. (CHOOSE c \in batch : token[c] = token[d]) = d
        BY <1>1
    <2> QED
        BY <1>1, <1>3, <1>5, <2>1
<1>9. /\ \A d \in Stored \ batch : deliveries'[d] = deliveries[d]
      /\ \A t \in DOMAIN inflight : inflight'[t] = inflight[t]
    BY <1>1
<1>10. \A d \in batch : /\ ClaimedDelivery(d, token[d], s) \in Delivery
                        /\ ClaimedDelivery(d, token[d], s).status = "delivering"
                        /\ ClaimedDelivery(d, token[d], s).leaseToken = token[d]
                        /\ ClaimedDelivery(d, token[d], s).eventId = deliveries[d].eventId
                        /\ ClaimedDelivery(d, token[d], s).endpointId = deliveries[d].endpointId
                        /\ ClaimedAttempt(w, d) \in Attempt
                        /\ ClaimedAttempt(w, d).delivery = d
                        /\ ClaimedAttempt(w, d).endpointId = deliveries[d].endpointId
    BY <1>3, <1>5, ClaimedDeliveryType, ClaimedAttemptType, InvTypeOK
<1>11. OutboxOK'
    <2>1. deliveries' \in [Stored' -> Delivery]
        <3>1. \A d \in Stored : deliveries'[d] \in Delivery
            BY <1>8, <1>9, <1>10 DEF Inv, OutboxOK
        <3>2. deliveries' = [d \in Stored' |-> deliveries'[d]]
            BY <1>1, <1>6
        <3> QED
            BY <1>6, <3>1, <3>2
    <2>2. LeaseFieldsAgree'
        <3>1. \A d \in batch : token[d] # NoToken
            BY <1>5, ConfigAssumption
        <3> QED
            BY <1>6, <1>8, <1>9, <1>10, <3>1 DEF Inv, OutboxOK, LeaseFieldsAgree
    <2>3. Deduplicated'
        <3>1. \A d \in Stored : /\ deliveries'[d].eventId = deliveries[d].eventId
                                /\ deliveries'[d].endpointId = deliveries[d].endpointId
            BY <1>8, <1>9, <1>10
        <3> QED
            BY <1>6, <3>1 DEF Inv, OutboxOK, Deduplicated
    <2>4. AttemptOwnsLease'
        <3> SUFFICES ASSUME NEW d \in Stored, deliveries'[d].leaseToken \in DOMAIN inflight'
                     PROVE  /\ inflight'[deliveries'[d].leaseToken].delivery = d
                            /\ inflight'[deliveries'[d].leaseToken].endpointId
                                 = deliveries'[d].endpointId
            BY <1>6 DEF AttemptOwnsLease
        <3>1. CASE d \in batch
            BY <1>8, <1>10, <3>1
        <3>2. CASE d \notin batch
            <4>1. deliveries'[d] = deliveries[d]
                BY <1>9, <3>2
            <4>2. deliveries[d].leaseToken \in DOMAIN inflight
                BY <1>5, <1>7, <4>1
            <4> QED
                BY <1>9, <4>1, <4>2 DEF Inv, OutboxOK, AttemptOwnsLease
        <3> QED
            BY <3>1, <3>2
    <2> QED
        BY <1>6, <2>1, <2>2, <2>3, <2>4 DEF Inv, OutboxOK
<1>12. EndpointsOK'
    BY <1>2 DEF Inv, EndpointsOK
<1>13. DispatchersOK'
    <2>1. DOMAIN inflight' \subseteq Tokens
        BY <1>5, <1>7 DEF Inv, DispatchersOK
    <2>2. inflight' \in [DOMAIN inflight' -> Attempt]
        <3>1. \A t \in DOMAIN inflight' : inflight'[t] \in Attempt
            BY <1>7, <1>8, <1>9, <1>10 DEF Inv, DispatchersOK
        <3>2. inflight' = [t \in DOMAIN inflight' |-> inflight'[t]]
            BY <1>1
        <3> QED
            BY <3>1, <3>2
    <2>3. dispatch' \in [Workers -> Dispatch]
        <3> DEFINE tokens == {token[d] : d \in batch}
        <3>1. dispatch[w] \in Dispatch /\ dispatch \in [Workers -> Dispatch]
            BY DEF Inv, DispatchersOK
        <3>2. tokens \subseteq Tokens
            BY <1>5
        <3> HIDE DEF tokens
        <3>3. [dispatch[w] EXCEPT !.processed = @ \cup batch, !.batch = tokens] \in Dispatch
            BY <1>3, <3>1, <3>2 DEF Dispatch
        <3>4. dispatch' = [dispatch EXCEPT ![w] =
                             [dispatch[w] EXCEPT !.processed = @ \cup batch, !.batch = tokens]]
            BY <1>1, <3>1 DEF tokens
        <3> QED
            BY <3>1, <3>3, <3>4
    <2> QED
        BY <2>1, <2>2, <2>3 DEF DispatchersOK
<1>14. UnfinishedHasEndpoint'
    BY <1>2, <1>4, <1>6, <1>8, <1>9, <1>10 DEF Inv, UnfinishedHasEndpoint
<1>15. CircuitHasEndpoint'
    BY <1>2 DEF Inv, CircuitHasEndpoint
<1> QED
    BY <1>11, <1>12, <1>13, <1>14, <1>15 DEF Inv

\* A step that only removes attempts, or moves them on, and keeps the store preserves the
\* invariant.
LEMMA AttemptsInv ==
    ASSUME Inv, UNCHANGED <<endpoints, endpointRuntime, deliveries>>,
           dispatch' \in [Workers -> Dispatch],
           DOMAIN inflight' \subseteq DOMAIN inflight,
           inflight' \in [DOMAIN inflight' -> Attempt],
           \A t \in DOMAIN inflight' : /\ inflight'[t].delivery = inflight[t].delivery
                                       /\ inflight'[t].endpointId = inflight[t].endpointId
    PROVE  Inv'
<1>1. Stored' = Stored
    BY DEF Stored
<1>2. DispatchersOK' /\ DOMAIN inflight \subseteq Tokens
    BY DEF Inv, DispatchersOK
<1>3. OutboxOK'
    <2>1. deliveries' \in [Stored' -> Delivery]
        BY <1>1 DEF Inv, OutboxOK
    <2>2. \A d \in Stored' :
              /\ deliveries'[d].eventId = deliveries[d].eventId
              /\ deliveries'[d].endpointId = deliveries[d].endpointId
              /\ deliveries'[d].leaseToken \in {deliveries[d].leaseToken, NoToken}
              /\ deliveries'[d].status = "delivering" <=> deliveries'[d].leaseToken # NoToken
        BY <1>1 DEF Inv, OutboxOK, LeaseFieldsAgree
    <2> QED
        BY <1>1, <1>2, <2>1, <2>2, OutboxRewritten DEF Inv
<1>4. EndpointsOK'
    BY DEF Inv, EndpointsOK
<1>5. UnfinishedHasEndpoint' /\ CircuitHasEndpoint'
    BY <1>1 DEF Inv, UnfinishedHasEndpoint, CircuitHasEndpoint
<1> QED
    BY <1>2, <1>3, <1>4, <1>5 DEF Inv

\* The request of an attempt ends.
LEMMA DeliverInv ==
    ASSUME Inv, NEW t \in DOMAIN inflight, NEW result \in Outcomes, Deliver(t, result)
    PROVE  Inv'
<1>1. inflight' = [inflight EXCEPT ![t].result = result]
    BY DEF Deliver
<1>2. inflight \in [DOMAIN inflight -> Attempt] /\ dispatch \in [Workers -> Dispatch]
    BY DEF Inv, DispatchersOK
<1>3. [inflight[t] EXCEPT !.result = result] \in Attempt
    BY <1>2 DEF Attempt
<1>4. DOMAIN inflight' = DOMAIN inflight /\ inflight' \in [DOMAIN inflight' -> Attempt]
    BY <1>1, <1>2, <1>3
<1>5. \A u \in DOMAIN inflight : /\ inflight'[u].delivery = inflight[u].delivery
                                 /\ inflight'[u].endpointId = inflight[u].endpointId
    BY <1>1, <1>2 DEF Attempt
<1> QED
    BY <1>2, <1>4, <1>5, AttemptsInv DEF Deliver

\* What settling an attempt leaves of the dispatchers.
LEMMA SettleType ==
    ASSUME DispatchersOK, NEW t \in DOMAIN inflight, Settle(t)
    PROVE  /\ DispatchersOK'
           /\ DOMAIN inflight' = DOMAIN inflight \ {t}
           /\ \A u \in DOMAIN inflight' : inflight'[u] = inflight[u]
<1> DEFINE w == inflight[t].worker
<1>1. w \in Workers /\ dispatch[w] \in Dispatch /\ dispatch \in [Workers -> Dispatch]
    BY DEF DispatchersOK, Attempt
<1>2. inflight' = [u \in DOMAIN inflight \ {t} |-> inflight[u]]
    BY DEF Settle
<1>3. dispatch' = [dispatch EXCEPT ![w] = [dispatch[w] EXCEPT !.batch = @ \ {t}]]
    BY <1>1 DEF Settle
<1> HIDE DEF w
<1>4. [dispatch[w] EXCEPT !.batch = @ \ {t}] \in Dispatch
    BY <1>1 DEF Dispatch
<1>5. dispatch' \in [Workers -> Dispatch]
    BY <1>1, <1>3, <1>4
<1> QED
    BY <1>2, <1>5 DEF DispatchersOK

\* A skipped completion settles the attempt and keeps the store.
LEMMA SkipCompletionInv ==
    ASSUME Inv, NEW t \in DOMAIN inflight, SkipCompletion(t)
    PROVE  Inv'
<1>1. UNCHANGED <<endpoints, endpointRuntime, deliveries>> /\ Settle(t)
    BY DEF SkipCompletion
<1> QED
    BY <1>1, SettleType, AttemptsInv DEF Inv, DispatchersOK

\* A completion by the owner of the lease finishes the delivery or has it wait, and writes the
\* circuit of an endpoint that is still stored.
LEMMA CompleteInv ==
    ASSUME Inv, NEW t \in DOMAIN inflight, NEW s \in Int, Complete(t, s)
    PROVE  Inv'
<1> DEFINE d == inflight[t].delivery
<1>1. Fenced(t) /\ inflight[t].result # "posting" /\ Settle(t) /\ endpoints' = endpoints
    BY DEF Complete
<1>2. /\ d \in Stored /\ deliveries[d].status = "delivering" /\ deliveries[d].leaseToken = t
      /\ inflight[t].endpointId = deliveries[d].endpointId
      /\ deliveries[d].endpointId \in DOMAIN endpoints
    BY <1>1 DEF Fenced, Inv, OutboxOK, AttemptOwnsLease, UnfinishedHasEndpoint, Active
<1>3. deliveries' = [deliveries EXCEPT ![d] = CompletedDelivery(t, s)]
    BY DEF Complete
<1>4. /\ CompletedDelivery(t, s) \in Delivery
      /\ CompletedDelivery(t, s).status # "delivering"
      /\ CompletedDelivery(t, s).leaseToken = NoToken
      /\ CompletedDelivery(t, s).eventId = deliveries[d].eventId
      /\ CompletedDelivery(t, s).endpointId = deliveries[d].endpointId
    BY <1>1, CompletedDeliveryType, InvTypeOK
<1> HIDE DEF d
<1>5. /\ Stored' = Stored /\ deliveries' \in [Stored' -> Delivery]
      /\ deliveries'[d] = CompletedDelivery(t, s)
      /\ \A c \in Stored \ {d} : deliveries'[c] = deliveries[c]
    BY <1>2, <1>3, <1>4 DEF Stored, Inv, OutboxOK
<1>6. /\ DispatchersOK' /\ DOMAIN inflight' \subseteq DOMAIN inflight
      /\ \A u \in DOMAIN inflight' : inflight'[u] = inflight[u]
    BY <1>1, SettleType DEF Inv
<1>7. OutboxOK'
    <2>1. \A c \in Stored' :
             /\ deliveries'[c].eventId = deliveries[c].eventId
             /\ deliveries'[c].endpointId = deliveries[c].endpointId
             /\ deliveries'[c].leaseToken \in {deliveries[c].leaseToken, NoToken}
             /\ deliveries'[c].status = "delivering" <=> deliveries'[c].leaseToken # NoToken
        BY <1>2, <1>4, <1>5 DEF Inv, OutboxOK, LeaseFieldsAgree
    <2>2. DOMAIN inflight \subseteq Tokens
        BY DEF Inv, DispatchersOK
    <2> QED
        BY <1>5, <1>6, <2>1, <2>2, OutboxRewritten DEF Inv
<1>8. /\ endpointRuntime' \in [Endpoints -> Runtime]
      /\ \A e \in Endpoints : e # inflight[t].endpointId => endpointRuntime'[e] = endpointRuntime[e]
    BY <1>1, RuntimeAfterAttemptType, InvTypeOK DEF Complete
<1>9. EndpointsOK'
    BY <1>1, <1>8 DEF Inv, EndpointsOK
<1>10. UnfinishedHasEndpoint'
    BY <1>1, <1>2, <1>4, <1>5 DEF Inv, UnfinishedHasEndpoint
<1>11. CircuitHasEndpoint'
    BY <1>1, <1>2, <1>8 DEF Inv, CircuitHasEndpoint
<1> QED
    BY <1>6, <1>7, <1>9, <1>10, <1>11 DEF Inv

\* A completion that throws ends the dispatch call that still waits for it.
LEMMA CompletionThrowsInv ==
    ASSUME Inv, NEW t \in DOMAIN inflight, CompletionThrows(t)
    PROVE  Inv'
<1> DEFINE w == inflight[t].worker
<1>1. w \in Workers /\ dispatch[w] \in Dispatch /\ dispatch \in [Workers -> Dispatch]
    BY DEF Inv, DispatchersOK, Attempt
<1>2. IdleDispatch \in Dispatch
    BY DEF IdleDispatch, Dispatch
<1>3. dispatch' = [dispatch EXCEPT ![w] = IF t \in dispatch[w].batch THEN IdleDispatch ELSE dispatch[w]]
    BY <1>1 DEF CompletionThrows
<1>4. inflight' = [u \in DOMAIN inflight \ {t} |-> inflight[u]]
    BY DEF CompletionThrows
<1> HIDE DEF w
<1>5. dispatch' \in [Workers -> Dispatch]
    BY <1>1, <1>2, <1>3
<1>6. UNCHANGED <<endpoints, endpointRuntime, deliveries>>
    BY DEF CompletionThrows
<1> QED
    BY <1>4, <1>5, <1>6, AttemptsInv DEF Inv, DispatchersOK

\* A crash drops the attempts of one process.
LEMMA CrashInv ==
    ASSUME Inv, NEW w \in Workers, Crash(w)
    PROVE  Inv'
<1>1. IdleDispatch \in Dispatch
    BY DEF IdleDispatch, Dispatch
<1>2. dispatch' \in [Workers -> Dispatch]
    BY <1>1 DEF Crash, Inv, DispatchersOK
<1>3. inflight' = [t \in {u \in DOMAIN inflight : inflight[u].worker # w} |-> inflight[t]]
    BY DEF Crash
<1>4. UNCHANGED <<endpoints, endpointRuntime, deliveries>>
    BY DEF Crash
<1> QED
    BY <1>2, <1>3, <1>4, AttemptsInv DEF Inv, DispatchersOK

\* The passage of time moves timestamps and nothing else.
LEMMA TickInv ==
    ASSUME Inv, Tick
    PROVE  Inv'
<1>1. Stored' = Stored
    BY DEF Tick, Stored
<1>2. ASSUME NEW d \in Stored
      PROVE  /\ deliveries'[d] \in Delivery
             /\ deliveries'[d].eventId = deliveries[d].eventId
             /\ deliveries'[d].endpointId = deliveries[d].endpointId
             /\ deliveries'[d].leaseToken = deliveries[d].leaseToken
             /\ deliveries'[d].status = deliveries[d].status
    <2> DEFINE n == Earlier(deliveries[d].nextAttemptAt)
               c == IF deliveries[d].status \in Final THEN Earlier(deliveries[d].completedAt)
                    ELSE deliveries[d].completedAt
               l == IF deliveries[d].status = "delivering" THEN Earlier(deliveries[d].leaseExpiresAt)
                    ELSE deliveries[d].leaseExpiresAt
    <2>1. deliveries[d] \in Delivery
        BY DEF Inv, OutboxOK
    <2>2. n \in Int /\ c \in Int /\ l \in Int
        BY <2>1, EarlierType DEF Delivery
    <2>3. deliveries'[d] = [deliveries[d] EXCEPT !.nextAttemptAt = n, !.completedAt = c,
                                                 !.leaseExpiresAt = l]
        BY DEF Tick
    <2> HIDE DEF n, c, l
    <2>4. [deliveries[d] EXCEPT !.nextAttemptAt = n, !.completedAt = c, !.leaseExpiresAt = l]
             \in Delivery
        BY <2>1, <2>2, DeliveryUpdates, Zenon
    <2> QED
        BY <2>1, <2>3, <2>4 DEF Delivery
<1>3. OutboxOK'
    <2>1. deliveries' \in [Stored' -> Delivery]
        BY <1>1, <1>2 DEF Tick
    <2>2. DOMAIN inflight \subseteq Tokens /\ inflight' = inflight
        BY DEF Tick, Inv, DispatchersOK
    <2>3. LeaseFieldsAgree
        BY DEF Inv, OutboxOK
    <2> QED
        BY <1>1, <1>2, <2>1, <2>2, <2>3, OutboxRewritten DEF Inv, LeaseFieldsAgree
<1>4. ASSUME NEW e \in Endpoints
      PROVE  endpointRuntime'[e] \in Runtime /\ (endpointRuntime[e] = ClosedCircuit => endpointRuntime'[e] = ClosedCircuit)
    <2> DEFINE u == IF endpointRuntime[e].circuitState = "open"
                    THEN Earlier(endpointRuntime[e].circuitOpenUntil)
                    ELSE endpointRuntime[e].circuitOpenUntil
    <2>1. endpointRuntime[e] \in Runtime
        BY DEF Inv, EndpointsOK
    <2>2. u \in Int
        BY <2>1, EarlierType DEF Runtime
    <2>3. endpointRuntime'[e] = [endpointRuntime[e] EXCEPT !.circuitOpenUntil = u]
        BY DEF Tick
    <2>4. endpointRuntime[e] = ClosedCircuit => u = 0
        BY DEF ClosedCircuit
    <2> HIDE DEF u
    <2> QED
        BY <2>1, <2>2, <2>3, <2>4 DEF Runtime, ClosedCircuit
<1>5. EndpointsOK' /\ DispatchersOK'
    <2>1. endpointRuntime' \in [Endpoints -> Runtime]
        BY <1>4 DEF Tick
    <2> QED
        BY <2>1 DEF Tick, Inv, EndpointsOK, DispatchersOK
<1>6. UnfinishedHasEndpoint'
    BY <1>1, <1>2 DEF Tick, Inv, UnfinishedHasEndpoint
<1>7. CircuitHasEndpoint'
    BY <1>4 DEF Tick, Inv, CircuitHasEndpoint
<1> QED
    BY <1>3, <1>5, <1>6, <1>7 DEF Inv

-----------------------------------------------------------------------------
(* Invariance *)

\* Clock readings are integers that do not lie in the future.
LEMMA ClockReadingsType == \A s \in ClockReadings : s \in Int /\ s <= 0
BY ConfigAssumption DEF ClockReadings

\* Every step of the system preserves the invariant.
LEMMA NextInv ==
    ASSUME Inv, [Next]_vars
    PROVE  Inv'
<1>1. CASE OperatorStep
    <2>1. ASSUME NEW e \in Endpoints, NEW c \in EndpointConfigs, CreateEndpoint(e, c) PROVE Inv'
        BY <2>1, CreateEndpointInv
    <2>2. ASSUME NEW e \in Endpoints, NEW c \in EndpointConfigs, UpdateEndpoint(e, c) PROVE Inv'
        BY <2>2, UpdateEndpointInv
    <2>3. ASSUME NEW e \in Endpoints, NEW s \in ClockReadings, DeleteEndpoint(e, s) PROVE Inv'
        BY <2>3, DeleteEndpointInv, ClockReadingsType
    <2>4. ASSUME NEW e \in Endpoints, ResetCircuit(e) PROVE Inv'
        BY <2>4, ResetCircuitInv
    <2>5. ASSUME NEW d \in DeliveryIds, NEW s \in ClockReadings, RetryDelivery(d, s) PROVE Inv'
        BY <2>5, RetryDeliveryInv, ClockReadingsType
    <2>6. ASSUME NEW ids \in SUBSET DeliveryIds, NEW s \in ClockReadings, ReplayDeadLetters(ids, s)
          PROVE  Inv'
        BY <2>6, ReplayDeadLettersInv, ClockReadingsType
    <2>7. ASSUME NEW before \in -Horizon .. 1, NEW ids \in SUBSET DeliveryIds, Prune(before, ids)
          PROVE  Inv'
        BY <2>7, PruneInv
    <2> QED
        BY <1>1, <2>1, <2>2, <2>3, <2>4, <2>5, <2>6, <2>7, Zenon DEF OperatorStep
<1>2. CASE EnqueueStep
    BY <1>2, EnqueueInv DEF EnqueueStep
<1>3. CASE \E s \in ClockReadings : Reconcile(s)
    BY <1>3, ReconcileInv, ClockReadingsType
<1>4. ASSUME NEW w \in Workers, DispatchStep(w) PROVE Inv'
    <2>1. CASE StartDispatch(w, FALSE, {}, FALSE)
        <3>1. FALSE \in BOOLEAN /\ {} \in SUBSET DeliveryIds
            OBVIOUS
        <3> QED
            BY <2>1, <3>1, StartDispatchInv
    <2>2. ASSUME NEW d \in DeliveryIds, NEW bypass \in BOOLEAN, StartDispatch(w, TRUE, {d}, bypass)
          PROVE  Inv'
        <3>1. TRUE \in BOOLEAN /\ {d} \in SUBSET DeliveryIds
            OBVIOUS
        <3> QED
            BY <2>2, <3>1, StartDispatchInv
    <2>3. ASSUME NEW s \in ClockReadings, Claim(w, s) PROVE Inv'
        BY <2>3, ClaimInv, ClockReadingsType
    <2>4. ASSUME NEW s \in ClockReadings, EndDispatch(w, s) PROVE Inv'
        BY <2>4, EndDispatchInv, ClockReadingsType
    <2> QED
        BY <1>4, <2>1, <2>2, <2>3, <2>4 DEF DispatchStep
<1>5. ASSUME NEW w \in Workers, Crash(w) PROVE Inv'
    BY <1>5, CrashInv
<1>6. ASSUME NEW t \in DOMAIN inflight, AttemptStep(t) PROVE Inv'
    <2>1. ASSUME NEW result \in Outcomes, Deliver(t, result) PROVE Inv'
        BY <2>1, DeliverInv
    <2>2. ASSUME NEW s \in ClockReadings, Complete(t, s) PROVE Inv'
        BY <2>2, CompleteInv, ClockReadingsType
    <2>3. CASE SkipCompletion(t)
        BY <2>3, SkipCompletionInv
    <2>4. CASE CompletionThrows(t)
        BY <2>4, CompletionThrowsInv
    <2> QED
        BY <1>6, <2>1, <2>2, <2>3, <2>4 DEF AttemptStep
<1>7. CASE Tick
    BY <1>7, TickInv
<1>8. CASE UNCHANGED vars
    <2>1. UNCHANGED <<endpoints, endpointRuntime, deliveries, inflight>> /\ dispatch' = dispatch
        BY <1>8 DEF vars
    <2> QED
        BY <2>1, DispatchCallInv DEF Inv, DispatchersOK
<1> QED
    BY <1>1, <1>2, <1>3, <1>4, <1>5, <1>6, <1>7, <1>8 DEF Next

\* The invariant holds in every reachable state.
THEOREM Invariance == Spec => []Inv
<1>1. Init => Inv
    BY InitInv
<1>2. Inv /\ [Next]_vars => Inv'
    BY NextInv
<1> QED
    BY <1>1, <1>2, PTL DEF Spec

\* Stored records, dispatch calls and attempts always have their kind, and a delivery has a
\* lease token exactly while it is being delivered (the schemas of the JSON store).
THEOREM TypeCorrectness == Spec => []TypeOK
BY Invariance, InvTypeOK, PTL

\* However often and in whatever order events are enqueued, evicted, retried and replayed, an
\* event is stored at most once per endpoint.
THEOREM NoDuplicateDelivery == Spec => []Deduplicated
<1>1. Inv => Deduplicated
    BY DEF Inv, OutboxOK
<1> QED
    BY <1>1, Invariance, PTL

\* A delivery that still has to be attempted always has a stored endpoint, whatever deletions,
\* retries, replays and late completions interleave.
THEOREM UnfinishedNeverOrphaned == Spec => []UnfinishedHasEndpoint
<1>1. Inv => UnfinishedHasEndpoint
    BY DEF Inv
<1> QED
    BY <1>1, Invariance, PTL

\* No completion, however late, leaves circuit state behind for a deleted endpoint.
THEOREM NoCircuitOfDeletedEndpoint == Spec => []CircuitHasEndpoint
<1>1. Inv => CircuitHasEndpoint
    BY DEF Inv
<1> QED
    BY <1>1, Invariance, PTL

-----------------------------------------------------------------------------
(* What a step may do to a delivery *)

Kept(d) ==
    /\ d \in Stored'
    /\ deliveries'[d].status = deliveries[d].status
    /\ deliveries'[d].leaseToken = deliveries[d].leaseToken

Removed(d) == d \notin Stored' /\ deliveries[d].status \in Final

LeaseGivenUp(d) ==
    \/ deliveries[d].leaseToken \in DOMAIN inflight \ DOMAIN inflight'
    \/ deliveries[d].endpointId \notin DOMAIN endpoints'

Rewritten(d) ==
    /\ d \in Stored' /\ deliveries[d].status # "succeeded"
    /\ deliveries[d].status = "delivering" /\ deliveries[d].leaseExpiresAt > 0 => LeaseGivenUp(d)

Effect(d) == Kept(d) \/ Removed(d) \/ Rewritten(d)

\* A step that does not write the outbox keeps every delivery.
LEMMA UntouchedEffect == ASSUME UNCHANGED deliveries PROVE \A d \in Stored : Effect(d)
BY DEF Effect, Kept, Stored

\* deleteEndpoint rewrites the unfinished deliveries of the endpoint that goes.
LEMMA DeleteEndpointEffect ==
    ASSUME NEW e \in Endpoints, NEW s, DeleteEndpoint(e, s)
    PROVE  \A d \in Stored : Effect(d)
<1> SUFFICES ASSUME NEW d \in Stored PROVE Effect(d)
    OBVIOUS
<1>1. d \in Stored' /\ DOMAIN endpoints' = DOMAIN endpoints \ {e}
    BY DEF DeleteEndpoint, Stored
<1>2. CASE UnfinishedFor(d, e)
    BY <1>1, <1>2 DEF UnfinishedFor, Effect, Rewritten, LeaseGivenUp, Final
<1>3. CASE ~UnfinishedFor(d, e)
    <2>1. deliveries'[d] = deliveries[d]
        BY <1>3 DEF DeleteEndpoint
    <2> QED
        BY <1>1, <2>1 DEF Effect, Kept
<1> QED
    BY <1>2, <1>3

\* enqueue keeps what is stored but for the finished deliveries it evicts.
LEMMA EnqueueEffect ==
    ASSUME NEW v, NEW selected, NEW bypass, Enqueue(v, selected, bypass)
    PROVE  \A d \in Stored : Effect(d)
<1> DEFINE queued == {e \in MatchedEndpoints(v, selected, bypass) : ~AlreadyQueued(v, e)}
<1>1. PICK id \in [queued -> FreshDeliveryIds], evicted \in Evictions(Cardinality(queued)) :
             deliveries' = [d \in (Stored \ evicted) \cup {id[e] : e \in queued} |->
                     IF d \in Stored THEN deliveries[d]
                     ELSE NewDelivery(v, CHOOSE e \in queued : id[e] = d)]
    BY Zenon DEF Enqueue
<1>2. \A d \in evicted : deliveries[d].status \in Final
    BY HeadsSubset DEF Evictions, Terminal
<1> HIDE DEF queued
<1>3. \A d \in Stored \ evicted : d \in Stored' /\ deliveries'[d] = deliveries[d]
    BY <1>1 DEF Stored
<1>4. \A e \in queued : id[e] \notin Stored
    BY <1>1 DEF FreshDeliveryIds
<1>5. \A d \in Stored : d \in evicted => d \notin Stored'
    BY <1>1, <1>4 DEF Stored
<1> QED
    BY <1>2, <1>3, <1>5 DEF Effect, Kept, Removed

\* retryDelivery and replayDeadLetters rewrite deliveries that are waiting or dead.
LEMMA RequeueEffect ==
    ASSUME Inv,
           \/ \E d \in DeliveryIds, s \in ClockReadings : RetryDelivery(d, s)
           \/ \E ids \in SUBSET DeliveryIds, s \in ClockReadings : ReplayDeadLetters(ids, s)
    PROVE  \A d \in Stored : Effect(d)
<1>1. Stored' = Stored
    BY DEF RetryDelivery, ReplayDeadLetters, Stored
<1>2. ASSUME NEW d \in Stored
      PROVE  deliveries'[d] = deliveries[d] \/ deliveries[d].status \in {"retry", "exhausted"}
    BY DEF RetryDelivery, ReplayDeadLetters, Inv, OutboxOK
<1> QED
    BY <1>1, <1>2 DEF Effect, Kept, Rewritten

\* reconcile rewrites deliveries whose lease has expired.
LEMMA ReconcileEffect ==
    ASSUME Inv, NEW s \in ClockReadings, Reconcile(s)
    PROVE  \A d \in Stored : Effect(d)
<1> DEFINE delivering == {d \in Stored : deliveries[d].status = "delivering"}
           CanRetry(d) ==
              /\ EnabledEndpoint(deliveries[d].endpointId)
              /\ HasAttemptLeft(deliveries[d].attemptCount, endpoints[deliveries[d].endpointId])
           TakenBack(d) == ReleaseLease([deliveries[d] EXCEPT
                              !.status = IF CanRetry(d) THEN "retry" ELSE "exhausted",
                              !.nextAttemptAt = s,
                              !.completedAt = IF CanRetry(d) THEN 0 ELSE s])
<1>1. PICK candidates \in Heads(delivering, [d \in delivering |-> deliveries[d].leaseExpiresAt]) :
         deliveries' = [d \in Stored |->
            IF d \in {c \in candidates : LeaseExpired(c, s)} THEN TakenBack(d) ELSE deliveries[d]]
    BY Zenon DEF Reconcile
<1> HIDE DEF TakenBack
<1>2. Stored' = Stored
    BY <1>1 DEF Stored
<1>3. \A d \in candidates : deliveries[d].status = "delivering"
    BY HeadsSubset
<1>4. ASSUME NEW d \in Stored
      PROVE  \/ deliveries'[d] = deliveries[d]
             \/ deliveries[d].status = "delivering" /\ deliveries[d].leaseExpiresAt <= s
    BY <1>1, <1>3 DEF LeaseExpired
<1>5. \A d \in Stored : deliveries[d].leaseExpiresAt \in Int
    BY DEF Inv, OutboxOK, Delivery
<1>6. s \in Int /\ s <= 0
    BY ClockReadingsType
<1> QED
    BY <1>2, <1>4, <1>5, <1>6 DEF Effect, Kept, Rewritten

\* prune removes finished deliveries.
LEMMA PruneEffect ==
    ASSUME NEW before, NEW ids, Prune(before, ids)
    PROVE  \A d \in Stored : Effect(d)
<1> DEFINE eligible == {d \in ids \cap Terminal : deliveries[d].completedAt < before}
<1>1. deliveries' = [d \in Stored \ eligible |-> deliveries[d]]
    BY DEF Prune, Without
<1>2. \A d \in eligible : deliveries[d].status \in Final
    BY DEF Terminal
<1> HIDE DEF eligible
<1> QED
    BY <1>1, <1>2 DEF Stored, Effect, Kept, Removed

\* A claim rewrites waiting deliveries and those whose lease has expired.
LEMMA ClaimEffect ==
    ASSUME Inv, NEW w \in Workers, NEW s \in ClockReadings, Claim(w, s)
    PROVE  \A d \in Stored : Effect(d)
<1>1. PICK batch \in Heads(Claimable(w, s), [d \in Claimable(w, s) |-> deliveries[d].nextAttemptAt]) :
         \E token : deliveries' = [d \in Stored |->
            IF d \in batch THEN ClaimedDelivery(d, token[d], s) ELSE deliveries[d]]
    BY Zenon DEF Claim
<1>2. Stored' = Stored
    BY <1>1 DEF Stored
<1>3. \A d \in Stored : deliveries'[d] = deliveries[d] \/ d \in Claimable(w, s)
    BY <1>1, HeadsSubset
<1>4. \A d \in Claimable(w, s) : /\ deliveries[d].status # "succeeded"
                                 /\ deliveries[d].status = "delivering" => deliveries[d].leaseExpiresAt <= s
    BY DEF Claimable, LeaseExpired
<1>5. \A d \in Stored : deliveries[d].leaseExpiresAt \in Int
    BY DEF Inv, OutboxOK, Delivery
<1>6. s \in Int /\ s <= 0
    BY ClockReadingsType
<1> QED
    BY <1>2, <1>3, <1>4, <1>5, <1>6 DEF Effect, Kept, Rewritten

\* A completion rewrites the delivery whose lease it owns and gives the lease up.
LEMMA CompleteEffect ==
    ASSUME Inv, NEW t \in DOMAIN inflight, NEW s, Complete(t, s)
    PROVE  \A d \in Stored : Effect(d)
<1>1. Stored' = Stored
    BY DEF Complete, Stored, Inv, OutboxOK
<1>2. \A d \in Stored : deliveries'[d] = deliveries[d] \/ d = inflight[t].delivery
    BY DEF Complete, Inv, OutboxOK
<1>3. LET d == inflight[t].delivery
      IN  deliveries[d].status = "delivering" /\ deliveries[d].leaseToken = t
    BY DEF Complete, Fenced
<1>4. t \notin DOMAIN inflight'
    BY DEF Complete, Settle
<1> QED
    BY <1>1, <1>2, <1>3, <1>4 DEF Effect, Kept, Rewritten, LeaseGivenUp

\* The passage of time keeps status and lease token.
LEMMA TickEffect ==
    ASSUME Inv, Tick
    PROVE  \A d \in Stored : Effect(d)
<1>1. Stored' = Stored
    BY DEF Tick, Stored
<1>2. \A d \in Stored : /\ deliveries'[d].status = deliveries[d].status
                        /\ deliveries'[d].leaseToken = deliveries[d].leaseToken
    BY DEF Tick, Inv, OutboxOK, Delivery
<1> QED
    BY <1>1, <1>2 DEF Effect, Kept

\* A step keeps a delivery, removes it finished, or rewrites it without taking back a success
\* or somebody's unexpired lease.
LEMMA StepEffect ==
    ASSUME Inv, [Next]_vars
    PROVE  \A d \in Stored : Effect(d)
<1>1. CASE OperatorStep
    <2>1. CASE \E e \in Endpoints, c \in EndpointConfigs : CreateEndpoint(e, c) \/ UpdateEndpoint(e, c)
        BY <2>1, UntouchedEffect DEF CreateEndpoint, UpdateEndpoint
    <2>2. CASE \E e \in Endpoints, s \in ClockReadings : DeleteEndpoint(e, s)
        BY <2>2, DeleteEndpointEffect
    <2>3. CASE \E e \in Endpoints : ResetCircuit(e)
        BY <2>3, UntouchedEffect DEF ResetCircuit
    <2>4. CASE \/ \E d \in DeliveryIds, s \in ClockReadings : RetryDelivery(d, s)
               \/ \E ids \in SUBSET DeliveryIds, s \in ClockReadings : ReplayDeadLetters(ids, s)
        BY <2>4, RequeueEffect
    <2>5. CASE \E before \in -Horizon .. 1, ids \in SUBSET DeliveryIds : Prune(before, ids)
        BY <2>5, PruneEffect
    <2> QED
        BY <1>1, <2>1, <2>2, <2>3, <2>4, <2>5, Zenon DEF OperatorStep
<1>2. CASE EnqueueStep
    BY <1>2, EnqueueEffect DEF EnqueueStep
<1>3. CASE \E s \in ClockReadings : Reconcile(s)
    BY <1>3, ReconcileEffect
<1>4. ASSUME NEW w \in Workers, DispatchStep(w) PROVE \A d \in Stored : Effect(d)
    <2>1. ASSUME NEW s \in ClockReadings, Claim(w, s) PROVE \A d \in Stored : Effect(d)
        BY <2>1, ClaimEffect
    <2>2. CASE UNCHANGED deliveries
        BY <2>2, UntouchedEffect
    <2> QED
        BY <1>4, <2>1, <2>2 DEF DispatchStep, StartDispatch, EndDispatch
<1>5. ASSUME NEW w \in Workers, Crash(w) PROVE \A d \in Stored : Effect(d)
    BY <1>5, UntouchedEffect DEF Crash
<1>6. ASSUME NEW t \in DOMAIN inflight, AttemptStep(t) PROVE \A d \in Stored : Effect(d)
    <2>1. ASSUME NEW s \in ClockReadings, Complete(t, s) PROVE \A d \in Stored : Effect(d)
        BY <2>1, CompleteEffect
    <2>2. CASE UNCHANGED deliveries
        BY <2>2, UntouchedEffect
    <2> QED
        BY <1>6, <2>1, <2>2 DEF AttemptStep, Deliver, SkipCompletion, CompletionThrows
<1>7. CASE Tick
    BY <1>7, TickEffect
<1>8. CASE UNCHANGED vars
    BY <1>8, UntouchedEffect DEF vars
<1> QED
    BY <1>1, <1>2, <1>3, <1>4, <1>5, <1>6, <1>7, <1>8 DEF Next

\* No retry, replay, reconciliation, claim or late completion takes a success back.
THEOREM SuccessIsFinal == Spec => SucceededIsFinal
<1>1. Inv /\ [Next]_vars =>
        [\A d \in Stored : deliveries[d].status = "succeeded" /\ d \in Stored' =>
            deliveries'[d].status = "succeeded"]_vars
    BY StepEffect DEF Effect, Kept, Removed, Rewritten
<1> QED
    BY <1>1, Invariance, PTL DEF Spec, SucceededIsFinal

\* Neither the capacity limit nor a prune removes a delivery that still has to be delivered.
THEOREM UnfinishedNeverRemoved == Spec => OnlyFinishedRemoved
<1>1. Inv /\ [Next]_vars => [\A d \in Stored : d \notin Stored' => deliveries[d].status \in Final]_vars
    BY StepEffect DEF Effect, Kept, Removed, Rewritten
<1> QED
    BY <1>1, Invariance, PTL DEF Spec, OnlyFinishedRemoved

\* An unexpired lease is only given up by its owner or by the deletion of the endpoint, even
\* though other processes act on clock readings that are up to MaxLag old.
THEOREM LiveLeaseRespected == Spec => LiveLeaseKept
<1>1. Inv /\ [Next]_vars =>
        [\A d \in Stored :
            deliveries[d].status = "delivering" /\ deliveries[d].leaseExpiresAt > 0 =>
              \/ d \in Stored' /\ deliveries'[d].leaseToken = deliveries[d].leaseToken
              \/ deliveries[d].leaseToken \in DOMAIN inflight \ DOMAIN inflight'
              \/ deliveries[d].endpointId \notin DOMAIN endpoints']_vars
    BY StepEffect DEF Effect, Kept, Removed, Rewritten, LeaseGivenUp, Final
<1> QED
    BY <1>1, Invariance, PTL DEF Spec, LiveLeaseKept
-----------------------------------------------------------------------------
(* Where the status "retry" comes from *)

Within(n) == \E c \in EndpointConfigs : n < c.maxAttempts

\* A stored delivery does not wait for another attempt, or it was waiting already with as many
\* attempts used, or some configuration allows it one more.
Justified(d) ==
    \/ deliveries'[d].status # "retry"
    \/ /\ d \in Stored
       /\ deliveries[d].status = "retry"
       /\ deliveries'[d].attemptCount = deliveries[d].attemptCount
    \/ Within(deliveries'[d].attemptCount)

\* Deliveries that are the same as before are justified.
LEMMA SameJustified ==
    ASSUME NEW d \in Stored, deliveries'[d] = deliveries[d]
    PROVE  Justified(d)
BY DEF Justified

\* A step that does not write the outbox starts no wait.
LEMMA UntouchedJustified ==
    ASSUME UNCHANGED deliveries
    PROVE  \A d \in Stored' : Justified(d)
BY SameJustified DEF Stored

\* deleteEndpoint only exhausts deliveries.
LEMMA DeleteEndpointJustified ==
    ASSUME Inv, NEW e \in Endpoints, NEW s \in Int, DeleteEndpoint(e, s)
    PROVE  \A d \in Stored' : Justified(d)
<1> SUFFICES ASSUME NEW d \in Stored' PROVE Justified(d)
    OBVIOUS
<1> DEFINE x == [deliveries[d] EXCEPT !.status = "exhausted", !.completedAt = s]
<1>1. d \in Stored
    BY DEF DeleteEndpoint, Stored
<1>2. deliveries[d] \in Delivery
    BY <1>1 DEF Inv, OutboxOK
<1>3. x \in Delivery /\ x.status = "exhausted"
    BY <1>2 DEF Delivery, Final
<1>4. deliveries'[d] = IF UnfinishedFor(d, e) THEN ReleaseLease(x) ELSE deliveries[d]
    BY <1>1 DEF DeleteEndpoint
<1> HIDE DEF x
<1>5. ReleaseLease(x).status = "exhausted"
    BY <1>3, ReleaseLeaseType
<1> QED
    BY <1>1, <1>4, <1>5, SameJustified DEF Justified

\* enqueue only adds pending deliveries.
LEMMA EnqueueJustified ==
    ASSUME NEW v, NEW selected, NEW bypass, Enqueue(v, selected, bypass)
    PROVE  \A d \in Stored' : Justified(d)
<1> DEFINE queued == {e \in MatchedEndpoints(v, selected, bypass) : ~AlreadyQueued(v, e)}
<1>1. PICK id \in [queued -> FreshDeliveryIds], evicted \in Evictions(Cardinality(queued)) :
             deliveries' = [d \in (Stored \ evicted) \cup {id[e] : e \in queued} |->
                     IF d \in Stored THEN deliveries[d]
                     ELSE NewDelivery(v, CHOOSE e \in queued : id[e] = d)]
    BY Zenon DEF Enqueue
<1> HIDE DEF queued
<1>2. ASSUME NEW d \in Stored'
      PROVE  \/ d \in Stored /\ deliveries'[d] = deliveries[d]
             \/ \E e : deliveries'[d] = NewDelivery(v, e)
    BY <1>1 DEF Stored
<1>3. \A e : NewDelivery(v, e).status = "pending"
    BY DEF NewDelivery
<1> QED
    BY <1>2, <1>3, SameJustified DEF Justified

\* retryDelivery and replayDeadLetters queue deliveries as pending.
LEMMA RequeueJustified ==
    ASSUME Inv,
           \/ \E d \in DeliveryIds, s \in ClockReadings : RetryDelivery(d, s)
           \/ \E ids \in SUBSET DeliveryIds, s \in ClockReadings : ReplayDeadLetters(ids, s)
    PROVE  \A d \in Stored' : Justified(d)
<1>1. \A s \in ClockReadings : s \in Int
    BY ClockReadingsType
<1>2. \A d \in Stored, s \in Int : Requeued(d, s).status = "pending"
    BY InvTypeOK, RequeuedType
<1>3. CASE \E d \in DeliveryIds, s \in ClockReadings : RetryDelivery(d, s)
    <2>1. PICK d \in DeliveryIds, s \in ClockReadings : RetryDelivery(d, s)
        BY <1>3
    <2>2. Stored' = Stored /\ d \in Stored /\ deliveries'[d] = Requeued(d, s)
        BY <2>1 DEF RetryDelivery, Stored, Inv, OutboxOK
    <2>3. \A c \in Stored \ {d} : deliveries'[c] = deliveries[c]
        BY <2>1 DEF RetryDelivery, Inv, OutboxOK
    <2> QED
        BY <1>1, <1>2, <2>2, <2>3, SameJustified DEF Justified
<1>4. CASE \E ids \in SUBSET DeliveryIds, s \in ClockReadings : ReplayDeadLetters(ids, s)
    <2>1. PICK ids \in SUBSET DeliveryIds, s \in ClockReadings : ReplayDeadLetters(ids, s)
        BY <1>4
    <2>2. Stored' = Stored
        BY <2>1 DEF ReplayDeadLetters, Stored
    <2>3. \A d \in Stored : deliveries'[d] = Requeued(d, s) \/ deliveries'[d] = deliveries[d]
        BY <2>1 DEF ReplayDeadLetters
    <2> QED
        BY <1>1, <1>2, <2>2, <2>3, SameJustified DEF Justified
<1> QED
    BY <1>3, <1>4

Settling(r, x, st) == x \in Delivery /\ x.status = st /\ x.attemptCount = r.attemptCount

\* Rewriting the status and the two times of a delivery keeps it one, with its attempts.
LEMMA SettledType ==
    ASSUME NEW r \in Delivery, NEW st \in Active \cup Final, NEW next \in Int, NEW done \in Int
    PROVE  Settling(r, [r EXCEPT !.status = st, !.nextAttemptAt = next, !.completedAt = done], st)
BY DEF Delivery, Settling

\* reconcile lets a delivery wait only if its endpoint allows another attempt.
LEMMA ReconcileJustified ==
    ASSUME Inv, NEW s \in ClockReadings, Reconcile(s)
    PROVE  \A d \in Stored' : Justified(d)
<1> DEFINE delivering == {d \in Stored : deliveries[d].status = "delivering"}
           CanRetry(d) ==
              /\ EnabledEndpoint(deliveries[d].endpointId)
              /\ HasAttemptLeft(deliveries[d].attemptCount, endpoints[deliveries[d].endpointId])
           Back(d) == [deliveries[d] EXCEPT
                              !.status = IF CanRetry(d) THEN "retry" ELSE "exhausted",
                              !.nextAttemptAt = s,
                              !.completedAt = IF CanRetry(d) THEN 0 ELSE s]
<1>1. PICK candidates \in Heads(delivering, [d \in delivering |-> deliveries[d].leaseExpiresAt]) :
         deliveries' = [d \in Stored |->
            IF d \in {c \in candidates : LeaseExpired(c, s)} THEN ReleaseLease(Back(d)) ELSE deliveries[d]]
    BY Zenon DEF Reconcile
<1>2. s \in Int
    BY ClockReadingsType
<1> HIDE DEF CanRetry
<1>3. ASSUME NEW d \in Stored
      PROVE  /\ Back(d) \in Delivery
             /\ Back(d).status = IF CanRetry(d) THEN "retry" ELSE "exhausted"
             /\ Back(d).attemptCount = deliveries[d].attemptCount
    <2>1. deliveries[d] \in Delivery
        BY DEF Inv, OutboxOK
    <2>2. PICK st \in Active \cup Final, done \in Int :
             /\ st = (IF CanRetry(d) THEN "retry" ELSE "exhausted")
             /\ done = (IF CanRetry(d) THEN 0 ELSE s)
        BY <1>2 DEF Active, Final
    <2>3. Back(d) = [deliveries[d] EXCEPT !.status = st, !.nextAttemptAt = s, !.completedAt = done]
        BY <2>2
    <2>4. Settling(deliveries[d], Back(d), st)
        BY <1>2, <2>1, <2>3, SettledType, Zenon
    <2> HIDE DEF Back
    <2> QED
        BY <2>2, <2>4 DEF Settling
<1>4. ASSUME NEW d \in Stored, CanRetry(d) PROVE Within(deliveries[d].attemptCount)
    <2>1. endpoints[deliveries[d].endpointId] \in EndpointConfigs
        BY <1>4, InvTypeOK DEF CanRetry, EnabledEndpoint, TypeOK
    <2> QED
        BY <1>4, <2>1 DEF CanRetry, HasAttemptLeft, Within
<1> HIDE DEF Back
<1>5. ASSUME NEW d \in Stored
      PROVE  /\ ReleaseLease(Back(d)).status = IF CanRetry(d) THEN "retry" ELSE "exhausted"
             /\ ReleaseLease(Back(d)).attemptCount = deliveries[d].attemptCount
    BY <1>3, ReleaseLeaseType
<1>6. Stored' = Stored
    BY <1>1 DEF Stored
<1>7. \A d \in Stored : deliveries'[d] = deliveries[d] \/ deliveries'[d] = ReleaseLease(Back(d))
    BY <1>1
<1>8. ASSUME NEW d \in Stored' PROVE Justified(d)
    <2>1. d \in Stored
        BY <1>6
    <2>2. CASE deliveries'[d] = deliveries[d]
        BY <2>1, <2>2, SameJustified
    <2>3. CASE deliveries'[d] = ReleaseLease(Back(d))
        BY <2>1, <2>3, <1>4, <1>5 DEF Justified
    <2> QED
        BY <2>1, <2>2, <2>3, <1>7
<1> QED
    BY <1>8

\* prune keeps the rest as it is.
LEMMA PruneJustified ==
    ASSUME NEW before, NEW ids, Prune(before, ids)
    PROVE  \A d \in Stored' : Justified(d)
<1>1. \A d \in Stored' : d \in Stored /\ deliveries'[d] = deliveries[d]
    BY DEF Prune, Without, Stored
<1> QED
    BY <1>1, SameJustified

\* A claim makes deliveries wait no longer.
LEMMA ClaimJustified ==
    ASSUME Inv, NEW w \in Workers, NEW s \in ClockReadings, Claim(w, s)
    PROVE  \A d \in Stored' : Justified(d)
<1>1. PICK batch \in Heads(Claimable(w, s), [d \in Claimable(w, s) |-> deliveries[d].nextAttemptAt]) :
         \E token : deliveries' = [d \in Stored |->
            IF d \in batch THEN ClaimedDelivery(d, token[d], s) ELSE deliveries[d]]
    BY Zenon DEF Claim
<1>2. Stored' = Stored
    BY <1>1 DEF Stored
<1>3. \A d \in Stored : \A t : ClaimedDelivery(d, t, s).status = "delivering"
    BY DEF ClaimedDelivery, Inv, OutboxOK, Delivery
<1>4. \A d \in Stored : deliveries'[d] = deliveries[d] \/ \E t : deliveries'[d] = ClaimedDelivery(d, t, s)
    BY <1>1
<1> QED
    BY <1>2, <1>3, <1>4, SameJustified DEF Justified

\* A completion lets its delivery wait only if the endpoint of its claim allows another attempt.
LEMMA CompleteJustified ==
    ASSUME Inv, NEW t \in DOMAIN inflight, NEW s \in Int, Complete(t, s)
    PROVE  \A d \in Stored' : Justified(d)
<1> DEFINE a == inflight[t]
           latest == deliveries[a.delivery]
           retry == /\ a.result = "retryable" /\ a.endpoint # NoEndpoint
                    /\ HasAttemptLeft(latest.attemptCount, a.endpoint)
           x == [latest EXCEPT
                   !.status = IF a.result = "success" THEN "succeeded"
                              ELSE IF retry THEN "retry" ELSE "exhausted",
                   !.nextAttemptAt = IF retry THEN s + RetryDelay(latest.attemptCount) ELSE @,
                   !.completedAt = IF retry THEN 0 ELSE s]
<1>1. a.delivery \in Stored
    BY DEF Complete, Fenced
<1>2. latest \in Delivery
    BY <1>1 DEF Inv, OutboxOK
<1>3. s + RetryDelay(latest.attemptCount) \in Int
    BY <1>2, RetryDelayBound DEF Delivery
<1>4. retry => Within(latest.attemptCount)
    BY InvTypeOK DEF TypeOK, Attempt, HasAttemptLeft, Within
<1>5. CompletedDelivery(t, s) = ReleaseLease(x)
    BY DEF CompletedDelivery
<1> HIDE DEF retry, latest
<1>6. x \in Delivery /\ x.attemptCount = latest.attemptCount /\ (x.status = "retry" => retry)
    <2>1. latest.nextAttemptAt \in Int
        BY <1>2 DEF Delivery
    <2>2. PICK st \in Active \cup Final, next \in Int, done \in Int :
             /\ st = (IF a.result = "success" THEN "succeeded"
                      ELSE IF retry THEN "retry" ELSE "exhausted")
             /\ next = (IF retry THEN s + RetryDelay(latest.attemptCount) ELSE latest.nextAttemptAt)
             /\ done = (IF retry THEN 0 ELSE s)
        BY <1>3, <2>1 DEF Active, Final
    <2>3. x = [latest EXCEPT !.status = st, !.nextAttemptAt = next, !.completedAt = done]
        BY <2>2
    <2>4. st = "retry" => retry
        BY <2>2
    <2>5. Settling(latest, x, st)
        BY <1>2, <2>3, SettledType, Zenon
    <2> HIDE DEF x
    <2> QED
        BY <2>4, <2>5 DEF Settling
<1> HIDE DEF x
<1> USE DEF latest
<1>7. /\ CompletedDelivery(t, s).attemptCount = latest.attemptCount
      /\ CompletedDelivery(t, s).status = x.status
    BY <1>5, <1>6, ReleaseLeaseType
<1>8. Stored' = Stored /\ deliveries'[a.delivery] = CompletedDelivery(t, s)
    BY <1>1 DEF Complete, Stored, Inv, OutboxOK
<1>9. \A d \in Stored \ {a.delivery} : deliveries'[d] = deliveries[d]
    BY DEF Complete, Inv, OutboxOK
<1>10. Justified(a.delivery)
    BY <1>4, <1>6, <1>7, <1>8 DEF Justified
<1> QED
    BY <1>8, <1>9, <1>10, SameJustified

\* The passage of time changes neither a status nor a count.
LEMMA TickJustified ==
    ASSUME Inv, Tick
    PROVE  \A d \in Stored' : Justified(d)
<1>1. Stored' = Stored
    BY DEF Tick, Stored
<1>2. \A d \in Stored : /\ deliveries'[d].status = deliveries[d].status
                        /\ deliveries'[d].attemptCount = deliveries[d].attemptCount
    BY DEF Tick, Inv, OutboxOK, Delivery
<1> QED
    BY <1>1, <1>2 DEF Justified

\* Whatever the step, no delivery starts to wait without an attempt that is left.
LEMMA StepJustified ==
    ASSUME Inv, [Next]_vars
    PROVE  \A d \in Stored' : Justified(d)
<1>0. \A s \in ClockReadings : s \in Int
    BY ClockReadingsType
<1>1. CASE OperatorStep
    <2>1. CASE \E e \in Endpoints, c \in EndpointConfigs : CreateEndpoint(e, c) \/ UpdateEndpoint(e, c)
        BY <2>1, UntouchedJustified DEF CreateEndpoint, UpdateEndpoint
    <2>2. CASE \E e \in Endpoints, s \in ClockReadings : DeleteEndpoint(e, s)
        BY <2>2, <1>0, DeleteEndpointJustified
    <2>3. CASE \E e \in Endpoints : ResetCircuit(e)
        BY <2>3, UntouchedJustified DEF ResetCircuit
    <2>4. CASE \/ \E d \in DeliveryIds, s \in ClockReadings : RetryDelivery(d, s)
               \/ \E ids \in SUBSET DeliveryIds, s \in ClockReadings : ReplayDeadLetters(ids, s)
        BY <2>4, RequeueJustified
    <2>5. CASE \E before \in -Horizon .. 1, ids \in SUBSET DeliveryIds : Prune(before, ids)
        BY <2>5, PruneJustified
    <2> QED
        BY <1>1, <2>1, <2>2, <2>3, <2>4, <2>5, Zenon DEF OperatorStep
<1>2. CASE EnqueueStep
    BY <1>2, EnqueueJustified DEF EnqueueStep
<1>3. CASE \E s \in ClockReadings : Reconcile(s)
    BY <1>3, ReconcileJustified
<1>4. ASSUME NEW w \in Workers, DispatchStep(w) PROVE \A d \in Stored' : Justified(d)
    <2>1. ASSUME NEW s \in ClockReadings, Claim(w, s) PROVE \A d \in Stored' : Justified(d)
        BY <2>1, ClaimJustified
    <2>2. CASE UNCHANGED deliveries
        BY <2>2, UntouchedJustified
    <2> QED
        BY <1>4, <2>1, <2>2 DEF DispatchStep, StartDispatch, EndDispatch
<1>5. ASSUME NEW w \in Workers, Crash(w) PROVE \A d \in Stored' : Justified(d)
    BY <1>5, UntouchedJustified DEF Crash
<1>6. ASSUME NEW t \in DOMAIN inflight, AttemptStep(t) PROVE \A d \in Stored' : Justified(d)
    <2>1. ASSUME NEW s \in ClockReadings, Complete(t, s) PROVE \A d \in Stored' : Justified(d)
        BY <2>1, <1>0, CompleteJustified
    <2>2. CASE UNCHANGED deliveries
        BY <2>2, UntouchedJustified
    <2> QED
        BY <1>6, <2>1, <2>2 DEF AttemptStep, Deliver, SkipCompletion, CompletionThrows
<1>7. CASE Tick
    BY <1>7, TickJustified
<1>8. CASE UNCHANGED vars
    BY <1>8, UntouchedJustified DEF vars
<1> QED
    BY <1>1, <1>2, <1>3, <1>4, <1>5, <1>6, <1>7, <1>8 DEF Next

\* A delivery waits for another automatic attempt only if some configuration of an endpoint
\* allows one more than it has used, whatever updates, reconciliations and late completions
\* interleave.
THEOREM RetriesWithinBudget == Spec => []RetryHasBudget
<1>1. Init => RetryHasBudget
    BY DEF Init, RetryHasBudget, Stored
<1>2. Inv /\ RetryHasBudget /\ [Next]_vars => RetryHasBudget'
    BY StepJustified DEF Justified, Within, RetryHasBudget
<1> QED
    BY <1>1, <1>2, Invariance, PTL DEF Spec
=============================================================================
