-------------------------- MODULE MCJsonFileStore --------------------------
(* Small instances of JsonFileStore for TLC: callers c1 and c2 share a process. *)
EXTENDS JsonFileStore, TLC

CONSTANTS c1, c2, c3, p1, p2, p3

TwoOneProcesses == (c1 :> p1) @@ (c2 :> p1) @@ (c3 :> p2)
TwoProcesses == (c1 :> p1) @@ (c3 :> p2)
ThreeProcesses == (c1 :> p1) @@ (c2 :> p2) @@ (c3 :> p3)
AnyTransaction == Permutations(Transactions)
OneHost == [p \in Processes |-> "host"]
=============================================================================
