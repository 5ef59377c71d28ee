------------------------- MODULE DeliveryLifecycle -------------------------
(***************************************************************************)
(* What a store of outbound webhook deliveries promises, whichever         *)
(* repository keeps it (OutboundWebhookRepository, outbound-webhooks.ts).  *)
(* A delivery is created once for an event and an endpoint, is claimed,    *)
(* settled by the attempt that holds it, may be queued again unless it     *)
(* succeeded, and is removed only when it is finished.  Each step takes    *)
(* effect at once, on a set of deliveries.                                 *)
(*                                                                         *)
(* To make room an enqueue chooses finished deliveries, and removes them   *)
(* whatever became of them since.                                          *)
(***************************************************************************)
EXTENDS FiniteSets

CONSTANTS DeliveryIds, Events, Endpoints

VARIABLES
    stored,   \* event, endpoint and status of each delivery, by id
    chosen    \* deliveries that were finished when an enqueue chose them

Unfinished == {"pending", "delivering", "retry"}
Finished == {"succeeded", "exhausted"}

With(statuses) == {d \in DOMAIN stored : stored[d].status \in statuses}

InitLifecycle == stored = [d \in {} |-> {}] /\ chosen = {}

\* The deliveries in S get the status that f gives them.
Change(S, f) ==
    stored' = [d \in DOMAIN stored |->
                 IF d \in S THEN [stored[d] EXCEPT !.status = f[d]] ELSE stored[d]]

\* Deliveries of one event, one for each of some endpoints that have none of
\* it yet; finished and chosen ones may make room.
Enqueue ==
    \E v \in Events, gone \in SUBSET (With(Finished) \cup chosen), new \in SUBSET (DeliveryIds \ DOMAIN stored) :
      \E target \in [new -> Endpoints] :
        /\ \A d, e \in new : target[d] = target[e] => d = e
        /\ \A d \in new, e \in DOMAIN stored :
             <<stored[e].event, stored[e].endpoint>> # <<v, target[d]>>
        /\ stored' = [d \in (DOMAIN stored \ gone) \cup new |->
             IF d \in new THEN [event |-> v, endpoint |-> target[d], status |-> "pending"]
                          ELSE stored[d]]

Claim == \E S \in SUBSET With(Unfinished) : Change(S, [d \in S |-> "delivering"])

\* An attempt is answered, or given up by reconciliation.
Settle ==
    \E S \in SUBSET With({"delivering"}) : \E f \in [S -> Finished \cup {"retry"}] : Change(S, f)

\* An operator queues deliveries again.
Requeue == \E S \in SUBSET With({"retry", "exhausted"}) : Change(S, [d \in S |-> "pending"])

\* An endpoint is deleted.
Exhaust == \E S \in SUBSET With(Unfinished) : Change(S, [d \in S |-> "exhausted"])

Remove ==
    \E gone \in SUBSET With(Finished) : stored' = [d \in DOMAIN stored \ gone |-> stored[d]]

\* An enqueue chooses what is to make room for it, or gives it up.
Choose == UNCHANGED stored

NextLifecycle ==
    /\ Choose \/ Claim \/ Settle \/ Requeue \/ Exhaust \/ Remove \/ Enqueue
    /\ chosen' \subseteq chosen \cup With(Finished)

Lifecycle == InitLifecycle /\ [][NextLifecycle]_<<stored, chosen>>
=============================================================================
