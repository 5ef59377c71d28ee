-------------------------- MODULE OutboundWebhooks --------------------------
(***************************************************************************)
(* The outbound webhook outbox of packages/automation, as kept by the JSON *)
(* file repository (outbound-webhooks.ts), together with the dispatchers   *)
(* that drain it.  Every repository operation runs inside                  *)
(* updateJsonFileStore and is therefore one atomic step here; module       *)
(* JsonFileStore is about that atomicity.  Between a claim and the         *)
(* completion that answers it the store is unlocked: other dispatchers,    *)
(* operators and the clock interleave freely.                              *)
(*                                                                         *)
(* Time.  Timestamps are kept relative to the present (an integer n means  *)
(* "n ticks from now"); Tick shifts all of them.  A timestamp further back *)
(* than Horizon is kept at -Horizon.  An operation reads the clock before  *)
(* it waits for the store lock, so its reading s may lie up to MaxLag      *)
(* ticks in the past when the step takes effect.                           *)
(*                                                                         *)
(* Identifiers.  A randomUUID() is any value that nothing refers to.       *)
(***************************************************************************)
EXTENDS Integers, FiniteSets

CONSTANTS
    Events,             \* event ids; an event has one type, so filters are sets of events
    Endpoints,          \* endpoint ids
    EndpointConfigs,    \* the endpoint records operators may store
    DeliveryIds,        \* delivery ids
    Tokens,             \* lease tokens
    Workers,            \* processes that call dispatchOutboundWebhooks
    NoToken,            \* an absent leaseToken
    NoEndpoint,         \* the endpoint snapshot of a claim whose endpoint is gone
    LeaseMs, BaseRetryDelayMs, MaxRetryDelayMs,
    StoreLimit,         \* resolveStoreLimit(options.limit)
    DispatchLimit, Concurrency,
    MaxLag,             \* longest wait for the store lock
    Horizon,            \* age beyond which timestamps are not told apart
    CounterCap          \* where attemptCount and consecutiveFailures saturate

EndpointConfig ==
    [name : STRING, eventFilters : SUBSET Events, enabled : BOOLEAN,
     maxAttempts : Nat, circuitFailureThreshold : Nat, circuitCooldownMs : Nat]

ASSUME ConfigAssumption ==
    /\ EndpointConfigs \subseteq EndpointConfig
    /\ \A c \in EndpointConfigs :
         /\ c.maxAttempts \in 1 .. CounterCap - 1
         /\ c.circuitFailureThreshold \in 1 .. CounterCap
         /\ c.circuitCooldownMs > 0
    /\ NoEndpoint \notin EndpointConfigs
    /\ NoToken \notin Tokens
    /\ LeaseMs \in Nat /\ BaseRetryDelayMs \in Nat /\ MaxRetryDelayMs \in Nat
    /\ MaxLag \in Nat /\ Horizon \in Nat /\ CounterCap \in Nat
    /\ MaxLag <= Horizon

VARIABLES
    endpoints,          \* stored endpoints, by id
    endpointRuntime,    \* circuit breaker of each endpoint id; an absent record is ClosedCircuit
    deliveries,         \* stored deliveries, by id
    dispatch,           \* per worker, the progress of its dispatchOutboundWebhooks call
    inflight            \* attempts between claim and completion, by lease token

vars == <<endpoints, endpointRuntime, deliveries, dispatch, inflight>>

-----------------------------------------------------------------------------
(* Records *)

Active == {"pending", "delivering", "retry"}
Final == {"succeeded", "exhausted"}

Delivery ==
    [eventId : Events, endpointId : Endpoints, status : Active \cup Final,
     attemptCount : Nat, nextAttemptAt : Int, completedAt : Int,
     leaseToken : Tokens \cup {NoToken}, leaseExpiresAt : Int]

Runtime ==
    [consecutiveFailures : Nat, circuitState : {"closed", "open"}, circuitOpenUntil : Int]

Outcomes == {"success", "retryable", "fatal"}

Attempt ==
    [worker : Workers, delivery : DeliveryIds, endpointId : Endpoints,
     endpoint : EndpointConfigs \cup {NoEndpoint}, result : Outcomes \cup {"posting"}]

Dispatch ==
    [active : BOOLEAN, targeted : BOOLEAN, targets : SUBSET DeliveryIds, bypass : BOOLEAN,
     processed : SUBSET DeliveryIds, batch : SUBSET Tokens]

ClosedCircuit ==
    [consecutiveFailures |-> 0, circuitState |-> "closed", circuitOpenUntil |-> 0]

IdleDispatch ==
    [active |-> FALSE, targeted |-> FALSE, targets |-> {}, bypass |-> FALSE,
     processed |-> {}, batch |-> {}]

Init ==
    /\ endpoints = [e \in {} |-> NoEndpoint]
    /\ endpointRuntime = [e \in Endpoints |-> ClosedCircuit]
    /\ deliveries = [d \in {} |-> {}]
    /\ dispatch = [w \in Workers |-> IdleDispatch]
    /\ inflight = [t \in {} |-> {}]

-----------------------------------------------------------------------------
(* Helpers *)

Stored == DOMAIN deliveries

NotInFlight == {d \in Stored : deliveries[d].status # "delivering"}
Terminal == {d \in Stored : deliveries[d].status \in Final}

EnabledEndpoint(e) == e \in DOMAIN endpoints /\ endpoints[e].enabled

\* What an operation that waited for the lock may have read from the clock.
ClockReadings == -MaxLag .. 0

Increment(n) == IF n < CounterCap THEN n + 1 ELSE n

\* The heads of S when it is sorted by key (which of two equal keys comes first is arbitrary).
Heads(S, key) == {P \in SUBSET S : \A x \in P, y \in S \ P : key[x] <= key[y]}

\* Removing the deliveries in D from the store.
Without(D) == [d \in Stored \ D |-> deliveries[d]]

\* min(cap, base * 2^(attemptCount - 1)); both bounds are natural numbers.
RetryDelay(attemptCount) ==
    LET delay == BaseRetryDelayMs * 2 ^ (IF attemptCount > 0 THEN attemptCount - 1 ELSE 0)
    IN  IF delay \in 0 .. MaxRetryDelayMs THEN delay ELSE MaxRetryDelayMs

ReleaseExpiryOnly(record) == [record EXCEPT !.leaseExpiresAt = 0]
ReleaseLease(record) == [record EXCEPT !.leaseToken = NoToken, !.leaseExpiresAt = 0]

NeverExpires(d, s) == FALSE
ExpiresEarly(d, s) == deliveries[d].leaseExpiresAt <= s + 1
LeaseExpired(d, s) == deliveries[d].leaseExpiresAt <= s

OneAttemptMore(attemptCount, endpoint) == attemptCount <= endpoint.maxAttempts
HasAttemptLeft(attemptCount, endpoint) == attemptCount < endpoint.maxAttempts

FreshTokens == Tokens \ (DOMAIN inflight \cup {deliveries[d].leaseToken : d \in Stored})

FreshDeliveryIds ==
    DeliveryIds \ (Stored \cup {inflight[t].delivery : t \in DOMAIN inflight}
                          \cup UNION {dispatch[w].targets \cup dispatch[w].processed : w \in Workers})

FreshEndpointIds ==
    Endpoints \ (DOMAIN endpoints \cup {deliveries[d].endpointId : d \in Stored}
                                  \cup {inflight[t].endpointId : t \in DOMAIN inflight})

-----------------------------------------------------------------------------
(* Endpoint administration *)

NameTaken(name, others) == \E e \in others : endpoints[e].name = name

\* createEndpoint: the name must be free; the id is a new UUID.
CreateEndpoint(e, config) ==
    /\ e \in FreshEndpointIds
    /\ ~NameTaken(config.name, DOMAIN endpoints)
    /\ endpoints' = [x \in DOMAIN endpoints \cup {e} |-> IF x = e THEN config ELSE endpoints[x]]
    /\ UNCHANGED <<endpointRuntime, deliveries, dispatch, inflight>>

\* updateEndpoint: the merged record must not take another endpoint's name.
UpdateEndpoint(e, config) ==
    /\ e \in DOMAIN endpoints
    /\ ~NameTaken(config.name, DOMAIN endpoints \ {e})
    /\ endpoints' = [endpoints EXCEPT ![e] = config]
    /\ UNCHANGED <<endpointRuntime, deliveries, dispatch, inflight>>

WaitingFor(d, e) ==
    deliveries[d].endpointId = e /\ deliveries[d].status \in {"pending", "retry"}
UnfinishedFor(d, e) == deliveries[d].endpointId = e /\ deliveries[d].status \notin Final

\* deleteEndpoint: the endpoint and its circuit go, its unfinished deliveries are exhausted.
DeleteEndpoint(e, s) ==
    /\ e \in DOMAIN endpoints
    /\ endpoints' = [x \in DOMAIN endpoints \ {e} |-> endpoints[x]]
    /\ endpointRuntime' = [endpointRuntime EXCEPT ![e] = ClosedCircuit]
    /\ deliveries' = [d \in Stored |->
         IF UnfinishedFor(d, e)
         THEN ReleaseLease([deliveries[d] EXCEPT !.status = "exhausted", !.completedAt = s])
         ELSE deliveries[d]]
    /\ UNCHANGED <<dispatch, inflight>>

\* resetOutboundWebhookEndpointCircuit: close the circuit, forget the failures.
ResetCircuit(e) ==
    /\ e \in DOMAIN endpoints
    /\ endpointRuntime[e] # ClosedCircuit
    /\ endpointRuntime' = [endpointRuntime EXCEPT ![e] = ClosedCircuit]
    /\ UNCHANGED <<endpoints, deliveries, dispatch, inflight>>

-----------------------------------------------------------------------------
(* The outbox *)

NewDelivery(v, e) ==
    [eventId |-> v, endpointId |-> e, status |-> "pending", attemptCount |-> 0,
     nextAttemptAt |-> 0, completedAt |-> 0, leaseToken |-> NoToken, leaseExpiresAt |-> 0]

MatchedEndpoints(v, selected, bypassEventFilters) ==
    {e \in selected : EnabledEndpoint(e) /\ (bypassEventFilters \/ v \in endpoints[e].eventFilters)}

StillQueued(v, e) ==
    \E d \in Stored : /\ deliveries[d].eventId = v /\ deliveries[d].endpointId = e
                      /\ deliveries[d].status \in Active
AlreadyQueued(v, e) == \E d \in Stored : deliveries[d].eventId = v /\ deliveries[d].endpointId = e

\* pruneDeliveries: the sets of oldest finished deliveries whose removal makes room for n more
\* (none when too few are finished: the enqueue is then refused as a whole).
Evictions(n) ==
    LET excess == Cardinality(Stored) + n - StoreLimit
    IN  {R \in Heads(Terminal, [d \in Terminal |-> deliveries[d].completedAt]) :
           Cardinality(R) = IF excess > 0 THEN excess ELSE 0}

\* enqueueOutboundWebhookEvent: one pending delivery per matching endpoint that has none.
Enqueue(v, selected, bypassEventFilters) ==
    LET queued == {e \in MatchedEndpoints(v, selected, bypassEventFilters) : ~AlreadyQueued(v, e)}
    IN  /\ queued # {}
        /\ \E id \in [queued -> FreshDeliveryIds], evicted \in Evictions(Cardinality(queued)) :
             /\ \A e, f \in queued : id[e] = id[f] => e = f
             /\ deliveries' =
                  [d \in (Stored \ evicted) \cup {id[e] : e \in queued} |->
                     IF d \in Stored THEN deliveries[d]
                     ELSE NewDelivery(v, CHOOSE e \in queued : id[e] = d)]
        /\ UNCHANGED <<endpoints, endpointRuntime, dispatch, inflight>>

Requeued(d, s) ==
    ReleaseLease([deliveries[d] EXCEPT !.status = "pending", !.attemptCount = 0,
                                       !.nextAttemptAt = s, !.completedAt = 0])

\* retryOutboundWebhookDelivery: an operator requeues one waiting or dead delivery.
RetryDelivery(d, s) ==
    /\ d \in Stored
    /\ deliveries[d].status \in {"retry", "exhausted"}
    /\ EnabledEndpoint(deliveries[d].endpointId)
    /\ deliveries' = [deliveries EXCEPT ![d] = Requeued(d, s)]
    /\ UNCHANGED <<endpoints, endpointRuntime, dispatch, inflight>>

\* replayOutboundWebhookDeadLetters: a reviewed set of dead letters is requeued; those that
\* are no longer dead letters, or whose endpoint is unavailable, are passed over.
ReplayDeadLetters(ids, s) ==
    LET replayed == {d \in ids \cap Stored : /\ deliveries[d].status = "exhausted"
                                             /\ EnabledEndpoint(deliveries[d].endpointId)}
    IN  /\ replayed # {}
        /\ deliveries' = [d \in Stored |-> IF d \in replayed THEN Requeued(d, s) ELSE deliveries[d]]
        /\ UNCHANGED <<endpoints, endpointRuntime, dispatch, inflight>>

\* reconcileOutboundWebhookDeliveries: of the first leases to expire, those expired at s are
\* taken back; the delivery waits for another attempt if it has one left.
Reconcile(s) ==
    LET delivering == {d \in Stored : deliveries[d].status = "delivering"}
    IN  \E candidates \in Heads(delivering, [d \in delivering |-> deliveries[d].leaseExpiresAt]) :
          LET expired == {d \in candidates : LeaseExpired(d, s)}
              CanRetry(d) ==
                 /\ EnabledEndpoint(deliveries[d].endpointId)
                 /\ HasAttemptLeft(deliveries[d].attemptCount, endpoints[deliveries[d].endpointId])
          IN  /\ expired # {}
              /\ deliveries' = [d \in Stored |->
                   IF d \in expired
                   THEN ReleaseLease([deliveries[d] EXCEPT
                           !.status = IF CanRetry(d) THEN "retry" ELSE "exhausted",
                           !.nextAttemptAt = s,
                           !.completedAt = IF CanRetry(d) THEN 0 ELSE s])
                   ELSE deliveries[d]]
              /\ UNCHANGED <<endpoints, endpointRuntime, dispatch, inflight>>

\* pruneOutboundWebhookDeliveries: finished deliveries older than the cutoff are removed, all
\* of those the caller listed or the oldest ones.
Prune(before, ids) ==
    LET eligible == {d \in ids \cap Terminal : deliveries[d].completedAt < before}
    IN  /\ eligible # {}
        /\ deliveries' = Without(eligible)
        /\ UNCHANGED <<endpoints, endpointRuntime, dispatch, inflight>>

-----------------------------------------------------------------------------
(* Dispatchers *)

\* dispatchOutboundWebhooks is called; only a targeted call may bypass the circuit breaker.
StartDispatch(w, targeted, targets, bypass) ==
    /\ ~dispatch[w].active
    /\ bypass => targeted /\ targets # {}
    /\ dispatch' = [dispatch EXCEPT ![w] =
         [active |-> TRUE, targeted |-> targeted, targets |-> targets, bypass |-> bypass,
          processed |-> {}, batch |-> {}]]
    /\ UNCHANGED <<endpoints, endpointRuntime, deliveries, inflight>>

CircuitOpen(e, s) ==
    endpointRuntime[e].circuitState = "open" /\ endpointRuntime[e].circuitOpenUntil > s

Claimable(w, s) ==
    {d \in Stored :
       /\ dispatch[w].bypass \/ ~CircuitOpen(deliveries[d].endpointId, s)
       /\ d \notin dispatch[w].processed
       /\ dispatch[w].targeted => d \in dispatch[w].targets
       /\ \/ deliveries[d].status = "delivering" /\ LeaseExpired(d, s)
          \/ deliveries[d].status \in {"pending", "retry"} /\ deliveries[d].nextAttemptAt <= s}

BatchSize(w, claimable) ==
    LET left == DispatchLimit - Cardinality(dispatch[w].processed)
        size == IF Concurrency < left THEN Concurrency ELSE left
    IN  IF Cardinality(claimable) < size THEN Cardinality(claimable) ELSE size

ClaimedDelivery(d, t, s) ==
    [deliveries[d] EXCEPT !.status = "delivering", !.attemptCount = Increment(@),
                          !.leaseToken = t, !.leaseExpiresAt = s + LeaseMs]

Snapshot(e) == IF e \in DOMAIN endpoints THEN endpoints[e] ELSE NoEndpoint

ClaimedAttempt(w, d) ==
    [worker |-> w, delivery |-> d, endpointId |-> deliveries[d].endpointId,
     endpoint |-> Snapshot(deliveries[d].endpointId), result |-> "posting"]

\* claimOutboundWebhookDeliveries, called by the dispatch loop once its last batch has settled:
\* the due deliveries that have waited longest are leased under new tokens.
Claim(w, s) ==
    /\ dispatch[w].active /\ dispatch[w].batch = {}
    /\ \E batch \in Heads(Claimable(w, s), [d \in Claimable(w, s) |-> deliveries[d].nextAttemptAt]) :
         /\ batch # {}
         /\ Cardinality(batch) = BatchSize(w, Claimable(w, s))
         /\ \E token \in [batch -> FreshTokens] :
              /\ \A c, d \in batch : token[c] = token[d] => c = d
              /\ deliveries' = [d \in Stored |->
                   IF d \in batch THEN ClaimedDelivery(d, token[d], s) ELSE deliveries[d]]
              /\ inflight' = [t \in DOMAIN inflight \cup {token[d] : d \in batch} |->
                   IF t \in DOMAIN inflight THEN inflight[t]
                   ELSE ClaimedAttempt(w, CHOOSE d \in batch : token[d] = t)]
              /\ dispatch' = [dispatch EXCEPT ![w].processed = @ \cup batch,
                                              ![w].batch = {token[d] : d \in batch}]
    /\ UNCHANGED <<endpoints, endpointRuntime>>

\* The loop ends when its limit is used up or a claim comes back empty.
EndDispatch(w, s) ==
    /\ dispatch[w].active /\ dispatch[w].batch = {}
    /\ \/ Cardinality(dispatch[w].processed) >= DispatchLimit
       \/ Claimable(w, s) = {}
    /\ dispatch' = [dispatch EXCEPT ![w] = IdleDispatch]
    /\ UNCHANGED <<endpoints, endpointRuntime, deliveries, inflight>>

\* deliverClaimedWebhook: nothing is sent for a missing or disabled endpoint; otherwise the
\* request is answered 2xx, fails in a way worth retrying (no secret, DNS, timeout, 408, 409,
\* 425, 429, 5xx), or is refused for good (URL policy, any other status).  A request that is
\* reported as failed may have reached the receiver all the same.
Deliver(t, result) ==
    LET a == inflight[t]
    IN  /\ a.result = "posting"
        /\ a.endpoint = NoEndpoint \/ ~a.endpoint.enabled => result = "fatal"
        /\ inflight' = [inflight EXCEPT ![t].result = result]
        /\ UNCHANGED <<endpoints, endpointRuntime, deliveries, dispatch>>

FencedByDelivery(t) == inflight[t].delivery \in Stored
Fenced(t) ==
    LET d == inflight[t].delivery
    IN  d \in Stored /\ deliveries[d].status = "delivering" /\ deliveries[d].leaseToken = t

\* The record completeDelivery stores for the attempt t.
CompletedDelivery(t, s) ==
    LET a == inflight[t]
        latest == deliveries[a.delivery]
        retry == /\ a.result = "retryable" /\ a.endpoint # NoEndpoint
                 /\ HasAttemptLeft(latest.attemptCount, a.endpoint)
    IN  ReleaseLease([latest EXCEPT
           !.status = IF a.result = "success" THEN "succeeded"
                      ELSE IF retry THEN "retry" ELSE "exhausted",
           !.nextAttemptAt = IF retry THEN s + RetryDelay(latest.attemptCount) ELSE @,
           !.completedAt = IF retry THEN 0 ELSE s])

\* updateEndpointRuntimeAfterAttempt: judged by the endpoint as it was at the claim.
RuntimeAfterAttempt(t, s) ==
    LET a == inflight[t]
        failures == Increment(endpointRuntime[a.endpointId].consecutiveFailures)
        open == failures >= a.endpoint.circuitFailureThreshold
    IN  IF a.endpoint = NoEndpoint \/ (a.result # "success" /\ ~a.endpoint.enabled)
        THEN endpointRuntime
        ELSE [endpointRuntime EXCEPT ![a.endpointId] =
                IF a.result = "success" THEN ClosedCircuit
                ELSE [consecutiveFailures |-> failures,
                      circuitState |-> IF open THEN "open" ELSE "closed",
                      circuitOpenUntil |-> IF open THEN s + a.endpoint.circuitCooldownMs ELSE 0]]

\* The attempt t leaves the dispatch call it belongs to.
Settle(t) ==
    /\ inflight' = [u \in DOMAIN inflight \ {t} |-> inflight[u]]
    /\ dispatch' = [dispatch EXCEPT ![inflight[t].worker].batch = @ \ {t}]

\* completeOutboundWebhookDelivery by the owner of the lease.
Complete(t, s) ==
    /\ inflight[t].result # "posting"
    /\ Fenced(t)
    /\ deliveries' = [deliveries EXCEPT ![inflight[t].delivery] = CompletedDelivery(t, s)]
    /\ endpointRuntime' = RuntimeAfterAttempt(t, s)
    /\ Settle(t)
    /\ UNCHANGED endpoints

\* A completion whose lease is no longer owned is reported as skipped; the store keeps its state.
SkipCompletion(t) ==
    /\ inflight[t].result # "posting"
    /\ ~Fenced(t) /\ inflight[t].delivery \in Stored
    /\ Settle(t)
    /\ UNCHANGED <<endpoints, endpointRuntime, deliveries>>

\* The delivery is gone, or the store cannot be locked or written: the error ends the dispatch
\* call; the other attempts of its batch go on unobserved.
CompletionThrows(t) ==
    LET w == inflight[t].worker
    IN  /\ inflight[t].result # "posting"
        /\ inflight' = [u \in DOMAIN inflight \ {t} |-> inflight[u]]
        /\ dispatch' = [dispatch EXCEPT ![w] = IF t \in @.batch THEN IdleDispatch ELSE @]
        /\ UNCHANGED <<endpoints, endpointRuntime, deliveries>>

\* The process dies: its attempts are never completed, their leases stay in the store.
Crash(w) ==
    /\ dispatch[w].active \/ \E t \in DOMAIN inflight : inflight[t].worker = w
    /\ inflight' = [t \in {u \in DOMAIN inflight : inflight[u].worker # w} |-> inflight[t]]
    /\ dispatch' = [dispatch EXCEPT ![w] = IdleDispatch]
    /\ UNCHANGED <<endpoints, endpointRuntime, deliveries>>

-----------------------------------------------------------------------------
(* Time *)

Earlier(time) == IF time > -Horizon THEN time - 1 ELSE time

Tick ==
    /\ deliveries' = [d \in Stored |->
         [deliveries[d] EXCEPT
            !.nextAttemptAt = Earlier(@),
            !.completedAt = IF deliveries[d].status \in Final THEN Earlier(@) ELSE @,
            !.leaseExpiresAt = IF deliveries[d].status = "delivering" THEN Earlier(@) ELSE @]]
    /\ endpointRuntime' = [e \in Endpoints |->
         [endpointRuntime[e] EXCEPT
            !.circuitOpenUntil = IF endpointRuntime[e].circuitState = "open" THEN Earlier(@) ELSE @]]
    /\ UNCHANGED <<endpoints, dispatch, inflight>>

-----------------------------------------------------------------------------
OperatorStep ==
    \/ \E e \in Endpoints, c \in EndpointConfigs : CreateEndpoint(e, c) \/ UpdateEndpoint(e, c)
    \/ \E e \in Endpoints, s \in ClockReadings : DeleteEndpoint(e, s)
    \/ \E e \in Endpoints : ResetCircuit(e)
    \/ \E d \in DeliveryIds, s \in ClockReadings : RetryDelivery(d, s)
    \/ \E ids \in SUBSET DeliveryIds, s \in ClockReadings : ReplayDeadLetters(ids, s)
    \/ \E before \in -Horizon .. 1, ids \in SUBSET DeliveryIds : Prune(before, ids)

EnqueueStep ==
    \E v \in Events, selected \in SUBSET Endpoints, bypass \in BOOLEAN : Enqueue(v, selected, bypass)

DispatchStep(w) ==
    \/ StartDispatch(w, FALSE, {}, FALSE)
    \/ \E d \in DeliveryIds, bypass \in BOOLEAN : StartDispatch(w, TRUE, {d}, bypass)
    \/ \E s \in ClockReadings : Claim(w, s) \/ EndDispatch(w, s)

AttemptStep(t) ==
    \/ \E result \in Outcomes : Deliver(t, result)
    \/ \E s \in ClockReadings : Complete(t, s)
    \/ SkipCompletion(t)
    \/ CompletionThrows(t)

Next ==
    \/ OperatorStep
    \/ EnqueueStep
    \/ \E s \in ClockReadings : Reconcile(s)
    \/ \E w \in Workers : DispatchStep(w) \/ Crash(w)
    \/ \E t \in DOMAIN inflight : AttemptStep(t)
    \/ Tick

Spec == Init /\ [][Next]_vars

(***************************************************************************)
(* Progress.  An endpoint's timeoutMs is at most 30 s and covers address   *)
(* resolution and the request together; the default lease is 90 s.  So a   *)
(* dispatcher that is alive completes before its lease runs out: time does *)
(* not pass the end of a lease whose owner is still at work.  Dispatchers  *)
(* are called again and again (webhooks tick, the worker loop), attempts   *)
(* end (the abort timer), time passes.                                     *)
(***************************************************************************)
TimelyTick ==
    /\ \A t \in DOMAIN inflight : Fenced(t) => deliveries[inflight[t].delivery].leaseExpiresAt > 1
    /\ Tick

TimelyNext ==
    \/ OperatorStep
    \/ EnqueueStep
    \/ \E s \in ClockReadings : Reconcile(s)
    \/ \E w \in Workers : DispatchStep(w) \/ Crash(w)
    \/ \E t \in DOMAIN inflight : AttemptStep(t)
    \/ TimelyTick

DispatchLoop(w) ==
    \/ StartDispatch(w, FALSE, {}, FALSE)
    \/ \E s \in ClockReadings : Claim(w, s) \/ EndDispatch(w, s)

FinishAttempt(t) == t \in DOMAIN inflight /\ AttemptStep(t)

FairSpec ==
    /\ Init /\ [][TimelyNext]_vars
    /\ WF_vars(TimelyTick)
    /\ \A w \in Workers : WF_vars(DispatchLoop(w))
    /\ \A t \in Tokens : WF_vars(FinishAttempt(t))

-----------------------------------------------------------------------------
(* Properties *)

\* Every variable holds a value of its kind: stored records follow the zod schemas, and the
\* lease fields are set exactly while a delivery is being delivered.
TypeOK ==
    /\ DOMAIN endpoints \subseteq Endpoints
    /\ endpoints \in [DOMAIN endpoints -> EndpointConfigs]
    /\ endpointRuntime \in [Endpoints -> Runtime]
    /\ Stored \subseteq DeliveryIds
    /\ deliveries \in [Stored -> Delivery]
    /\ dispatch \in [Workers -> Dispatch]
    /\ DOMAIN inflight \subseteq Tokens
    /\ inflight \in [DOMAIN inflight -> Attempt]
    /\ \A d \in Stored : deliveries[d].status = "delivering" <=> deliveries[d].leaseToken # NoToken

\* An event is stored at most once per endpoint, whatever enqueues are repeated.
Deduplicated ==
    \A c, d \in Stored :
       /\ deliveries[c].eventId = deliveries[d].eventId
       /\ deliveries[c].endpointId = deliveries[d].endpointId
       => c = d

\* No unfinished delivery outlives its endpoint: deleting an endpoint finishes its deliveries,
\* and neither a retry, a replay nor a late completion revives one.
UnfinishedHasEndpoint ==
    \A d \in Stored : deliveries[d].status \in Active => deliveries[d].endpointId \in DOMAIN endpoints

\* A deleted endpoint leaves no circuit state behind, even when an attempt that was in flight
\* at the deletion is completed afterwards.
CircuitHasEndpoint ==
    \A e \in Endpoints : endpointRuntime[e] # ClosedCircuit => e \in DOMAIN endpoints

\* A delivery only waits for another automatic attempt if some configuration that an endpoint
\* had allows one more than it has used.
RetryHasBudget ==
    \A d \in Stored : deliveries[d].status = "retry" =>
       \E c \in EndpointConfigs : deliveries[d].attemptCount < c.maxAttempts

\* A success is never taken back: no retry, replay, reconciliation or late completion of an
\* older attempt changes a succeeded delivery.
SucceededIsFinal ==
    [][\A d \in Stored : deliveries[d].status = "succeeded" /\ d \in Stored' =>
          deliveries'[d].status = "succeeded"]_vars

\* Only finished deliveries leave the outbox: neither the capacity limit of an enqueue nor a
\* prune drops one that still has to be delivered.
OnlyFinishedRemoved ==
    [][\A d \in Stored : d \notin Stored' => deliveries[d].status \in Final]_vars

\* A lease that has not expired is only given up by the attempt that owns it or by the
\* deletion of the endpoint; nobody else claims, requeues or finishes the delivery meanwhile.
LiveLeaseKept ==
    [][\A d \in Stored :
          deliveries[d].status = "delivering" /\ deliveries[d].leaseExpiresAt > 0 =>
            \/ d \in Stored' /\ deliveries'[d].leaseToken = deliveries[d].leaseToken
            \/ deliveries[d].leaseToken \in DOMAIN inflight \ DOMAIN inflight'
            \/ deliveries[d].endpointId \notin DOMAIN endpoints']_vars

\* A process that dies just when its call is over disturbs nothing.
Disturbance ==
    \/ OperatorStep
    \/ \E w \in Workers : dispatch'[w].targeted /\ ~dispatch[w].active
    \/ \E w \in Workers : Crash(w) /\ \A s \in ClockReadings : ~EndDispatch(w, s)
    \/ \E t \in DOMAIN inflight : CompletionThrows(t)

\* Once operators (who may also dispatch deliveries of their choice), crashes and store errors
\* stop interfering, every queued delivery is finished: an expired lease, an open circuit or
\* a backoff only ever delays it, and so does a full store with other deliveries.
EventuallyFinished ==
    <>[][~Disturbance]_vars =>
       \A d \in DeliveryIds :
          (d \in Stored /\ deliveries[d].status \in Active)
          ~> (d \notin Stored \/ deliveries[d].status \in Final)
=============================================================================
