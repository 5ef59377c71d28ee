----------------------------- MODULE MCAbTests -----------------------------
(* Small instances of AbTests for TLC. *)
EXTENDS AbTests, TLC

Config(mode, launches, deploys) == [mode |-> mode, launches |-> launches, deploys |-> deploys]
Budget(config, b, f, c, i) ==
    [config |-> config, busy |-> b, faults |-> f, changes |-> c, interventions |-> i]

\* For a test that launches and deploys by itself: two operations at once and
\* a failure; one at a time with two failures (one of them in the undoing of
\* the other), or with one and a change of the audience or a campaign operation
\* by somebody else.  The other configurations without any of these.
Troubles ==
    {Budget(Config("holdout", TRUE, TRUE), 2, 1, 0, 0),
     Budget(Config("holdout", TRUE, TRUE), 1, 2, 0, 0),
     Budget(Config("holdout", TRUE, TRUE), 1, 1, 1, 0),
     Budget(Config("holdout", TRUE, TRUE), 1, 1, 0, 1),
     Budget(Config("holdout", FALSE, FALSE), 2, 0, 0, 0),
     Budget(Config("full-split", FALSE, FALSE), 2, 0, 0, 0)}

Symmetry == Permutations(Procs)
=============================================================================
