------------------------- MODULE MCOutboundWebhooks -------------------------
(* Small instances of OutboundWebhooks for TLC. *)
EXTENDS OutboundWebhooks, TLC

MCConfig(name, enabled, maxAttempts, threshold) ==
    [name |-> name, eventFilters |-> Events, enabled |-> enabled, maxAttempts |-> maxAttempts,
     circuitFailureThreshold |-> threshold, circuitCooldownMs |-> threshold]

\* One endpoint, which operators may disable and enable again.
OneName == {MCConfig("a", TRUE, 2, 2), MCConfig("a", FALSE, 2, 2)}

\* The same with a circuit that opens at once.
OneFuse == {MCConfig("a", TRUE, 2, 1), MCConfig("a", FALSE, 2, 1)}

Symmetry == Permutations(Tokens) \cup Permutations(Events) \cup Permutations(DeliveryIds)
            \cup Permutations(Workers) \cup Permutations(Endpoints)
=============================================================================
