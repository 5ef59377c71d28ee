------------------------ MODULE MCTransactionalSend ------------------------
(* Small instances of TransactionalSend for TLC. *)
EXTENDS TransactionalSend, TLC

Symmetry == Permutations(Callers) \cup Permutations(Keys) \cup Permutations(Payloads)
            \cup Permutations(ClaimTokens)
=============================================================================
