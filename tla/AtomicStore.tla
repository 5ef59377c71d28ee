---------------------------- MODULE AtomicStore ----------------------------
(***************************************************************************)
(* What updateJsonFileStore and writeJsonFileStore promise their callers:  *)
(* one value that changes in single steps.  An update applies to the value *)
(* that the previous transaction left; a write replaces it.  The value is  *)
(* abstracted to the set of transactions whose effect it contains.         *)
(***************************************************************************)
CONSTANTS Transactions, Replacements
VARIABLE value

Init == value = {}

Update(x) == x \in Transactions \ Replacements /\ value' = value \cup {x}

Replace(x) == x \in Replacements /\ value' = {x}

Next == \E x \in Transactions : Update(x) \/ Replace(x)

Spec == Init /\ [][Next]_value
=============================================================================
