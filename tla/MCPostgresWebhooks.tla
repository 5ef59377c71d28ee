------------------------- MODULE MCPostgresWebhooks -------------------------
(* Small instances of PostgresWebhooks for TLC. *)
EXTENDS PostgresWebhooks, TLC

Symmetry == Permutations(Sessions) \cup Permutations(Tokens) \cup Permutations(DeliveryIds)
            \cup Permutations(Events) \cup Permutations(Endpoints)
=============================================================================
