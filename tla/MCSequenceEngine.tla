-------------------------- MODULE MCSequenceEngine --------------------------
(* Small instances of SequenceEngine for TLC. *)
EXTENDS SequenceEngine, TLC

SendStep == [type |-> "send"]

TwoSends == <<<<SendStep, SendStep>>>>

\* A second revision with the other kinds of step.
TwoRevisions == <<
    <<SendStep, SendStep>>,
    <<[type |-> "condition", targets |-> {2, 3}], [type |-> "wait_until"],
      [type |-> "wait", duration |-> 1], [type |-> "stop"]>>
>>

Symmetry == Permutations(Executions) \cup Permutations(Operators) \cup Permutations(ClaimTokens)
=============================================================================
