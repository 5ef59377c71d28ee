------------------------------ MODULE AbTests ------------------------------
(***************************************************************************)
(* A/B tests over Listmonk (packages/abtest).  An operation is a sequence  *)
(* of transactions of the test store; a transaction holds the store's lock *)
(* while it calls Listmonk, and commits its copy of the record at the end  *)
(* (updateJsonFileStore, see JsonFileStore and AtomicStore).  Creating a   *)
(* test takes six of them, launching one takes two.  What is lost when one *)
(* fails is the record, never what Listmonk has done.                      *)
(*                                                                         *)
(* Listmonk moves campaigns on by itself, and so do its operators through  *)
(* the campaign operations (packages/operations), which take no lock.      *)
(* Every request may fail, or take effect and lose its answer.             *)
(***************************************************************************)
EXTENDS Naturals, FiniteSets

CONSTANTS
    TestIds, Procs,
    NVariants,      \* variants of a test
    Seeds,          \* assignment seeds
    NoProc, NoTest,
    MaxCampaigns, MaxLists,   \* bounds on what is ever created in Listmonk
    Budgets         \* what may happen to tests of one configuration: bounds on operations under way
                    \* at once, failures, changes of the audience and campaign operations by others

Variants == 1 .. NVariants
Holdout == 0
Winner == NVariants + 1   \* the campaign that sends the winner to the holdout
Roles == {Holdout} \cup Variants
CampaignIds == 1 .. MaxCampaigns
ListIds == 1 .. MaxLists

\* mode, autoLaunch and autoDeployWinner of a configuration
AllConfigs == [mode : {"holdout", "full-split"}, launches : BOOLEAN, deploys : BOOLEAN]

ASSUME AbTestsAssumption ==
    /\ NVariants \in {2, 3}
    /\ {MaxCampaigns, MaxLists} \subseteq Nat
    /\ Budgets \subseteq [config : AllConfigs, busy : Nat, faults : Nat, changes : Nat, interventions : Nat]
    /\ NoProc \notin Procs /\ NoTest \notin TestIds /\ Seeds \subseteq Nat \ {0} /\ Seeds # {}

VARIABLES
    tests,       \* the committed records, by test id
    campaigns,   \* campaigns in Listmonk, by id
    lists,       \* temporary lists in Listmonk, by id
    created,     \* how many campaigns and lists were ever created
    at,          \* the operation and transaction each process is at
    tx,          \* the transaction that holds the lock of the store
    clock,       \* per test that was ever created: 0, 1 when its launch window has come, 2 when it has ended
    audience,    \* version of the subscribers of the source lists
    operator,    \* a campaign operation somebody is in
    budget       \* the configuration of the tests; how many operations may be under way at once; how many failed
                 \* requests, lost answers and crashes, changes of the audience, and campaign operations by others
                 \* may still come

vars == <<tests, campaigns, lists, created, at, tx, clock, audience, operator, budget>>

remote == <<campaigns, lists, created>>
world == <<clock, audience, operator>>

TestStatus == {"draft", "scheduled", "running", "analyzing", "deploying", "completed", "cancelled", "inconclusive"}
TERMINAL_STATUSES == {"completed", "cancelled", "inconclusive"}
CampaignStatus == {"draft", "scheduled", "running", "paused", "finished", "cancelled"}

\* A filled list holds the group that a seed and an audience give it; a list
\* that was not filled, or partly, holds none.
NoGroup == <<0, 0>>
Groups == {NoGroup} \cup (Seeds \X (1 .. audience))

Empty == [i \in {} |-> 0]
Set(f, i, v) == [j \in DOMAIN f \cup {i} |-> IF j = i THEN v ELSE f[j]]
Without(f, S) == [j \in DOMAIN f \ S |-> f[j]]
Values(f) == {f[i] : i \in DOMAIN f}
Least(S) == CHOOSE i \in S : \A j \in S : i <= j

Idle == [op |-> "idle", next |-> "idle", test |-> NoTest]
NoTx == [by |-> NoProc, step |-> "none"]

Init ==
    /\ tests = Empty /\ campaigns = Empty /\ lists = Empty
    /\ created = [campaigns |-> 0, lists |-> 0]
    /\ at = [p \in Procs |-> Idle] /\ tx = NoTx
    /\ clock = Empty /\ audience = 1
    /\ operator = [campaign |-> 0, target |-> "none"]
    /\ budget \in Budgets

-----------------------------------------------------------------------------
(* Transactions.                                                           *)

Locked == tx.by # NoProc

\* A process that takes up an operation on a stored test, and one whose next
\* transaction of the operation it is in is next.
Enters(p, x) == ~Locked /\ at[p] = Idle /\ x \in DOMAIN tests
Ready(p, op, next) == ~Locked /\ at[p].op = op /\ at[p].next = next
Found(p) == at[p].test \in DOMAIN tests
Stored(p) == tests[at[p].test]

\* The process goes on with its next transaction, or is done.
Proceed(p, next) == at' = [at EXCEPT ![p] = IF next = "done" THEN Idle ELSE [@ EXCEPT !.next = next]]

\* A transaction without requests that stores rec.
Store(p, rec, next) ==
    /\ tests' = Set(tests, at[p].test, rec)
    /\ Proceed(p, next)
    /\ UNCHANGED <<tx, budget>> /\ UNCHANGED remote /\ UNCHANGED world

\* The operation returns, or throws, without a change.
Return(p) ==
    /\ at' = [at EXCEPT ![p] = Idle]
    /\ UNCHANGED <<tests, tx, budget>> /\ UNCHANGED remote /\ UNCHANGED world

Pass(p, next) ==
    /\ Proceed(p, next)
    /\ UNCHANGED <<tests, tx, budget>> /\ UNCHANGED remote /\ UNCHANGED world

\* An operation of one transaction that makes no request.
StoreAt(x, rec) ==
    /\ tests' = Set(tests, x, rec)
    /\ UNCHANGED <<at, tx, budget>> /\ UNCHANGED remote /\ UNCHANGED world

\* A transaction that calls Listmonk keeps a copy of the record; made is what
\* it has created, todo what it has to do, seen what it was told, errors what
\* went wrong.
Locks(p, rec, step, todo) ==
    /\ tx' = [by |-> p, step |-> step, rec |-> rec, made |-> {}, todo |-> todo, seen |-> Empty,
              errors |-> {}, group |-> NoGroup]
    /\ UNCHANGED <<tests, budget>> /\ UNCHANGED remote /\ UNCHANGED world

Open(p, rec, step, todo) == Locks(p, rec, step, todo) /\ UNCHANGED at

\* The same for an operation of one transaction.
OpenAt(p, op, x, step, todo) ==
    /\ Locks(p, tests[x], step, todo)
    /\ at' = [at EXCEPT ![p] = [op |-> op, next |-> op, test |-> x]]

In(p, step) == tx.by = p /\ tx.step = step

Continue(t) == tx' = t /\ UNCHANGED <<tests, at>> /\ UNCHANGED world

Commit(p, rec, next) ==
    /\ tests' = Set(tests, at[p].test, rec)
    /\ tx' = NoTx /\ Proceed(p, next)
    /\ UNCHANGED budget /\ UNCHANGED remote /\ UNCHANGED world

AbortInLock(p) ==
    /\ at' = [at EXCEPT ![p] = Idle]
    /\ UNCHANGED <<tests, tx>> /\ UNCHANGED world

\* AbTestWriteTransactionError: nothing is stored.
Abort(p) ==
    /\ tx' = NoTx /\ at' = [at EXCEPT ![p] = Idle]
    /\ UNCHANGED tests /\ UNCHANGED world

-----------------------------------------------------------------------------
(* Requests.                                                               *)

\* ok: done and answered; failed: not done; lost: done, but the caller sees an
\* error (it gives up after 30 seconds).
Outcomes == {"ok", "failed", "lost"}
Fail(n) == n <= budget.faults /\ budget' = [budget EXCEPT !.faults = @ - n]
Sent(out) == Fail(IF out = "ok" THEN 0 ELSE 1)
Done(out) == out # "failed"

\* Only requests that change nothing are sent again by the client.
AnyMethod(method) == method \in {"GET", "HEAD", "OPTIONS", "POST", "PUT", "DELETE"}
Repeated(method) == method \in {"GET", "HEAD", "OPTIONS"}

\* The transitions that Listmonk accepts, as the campaign operations know them.
CAMPAIGN_TRANSITIONS ==
    [draft |-> {"scheduled", "running"}, scheduled |-> {"running"}, running |-> {"paused", "cancelled"},
     paused |-> {"running"}, finished |-> {}, cancelled |-> {}]

Exists(c) == c \in DOMAIN campaigns
Accepts(c, target) == Exists(c) /\ target \in CAMPAIGN_TRANSITIONS[campaigns[c].status]
Deletable(c) == Exists(c) /\ campaigns[c].status # "running"
Editable(c) == Exists(c) /\ campaigns[c].status \in {"draft", "scheduled", "paused"}

SetStatus(c, status) == campaigns' = [campaigns EXCEPT ![c].status = status]
RemoveCampaigns(S) == campaigns' = Without(campaigns, S)
RemoveLists(S) == lists' = Without(lists, S)

CreateCampaign(x, variant, target) ==
    /\ created.campaigns < MaxCampaigns
    /\ created' = [created EXCEPT !.campaigns = @ + 1]
    /\ campaigns' = Set(campaigns, created.campaigns + 1,
         [test |-> x, variant |-> variant, status |-> "draft", list |-> target])
    /\ UNCHANGED lists

CreateList(x, role) ==
    /\ created.lists < MaxLists
    /\ created' = [created EXCEPT !.lists = @ + 1]
    /\ lists' = Set(lists, created.lists + 1, [test |-> x, role |-> role, group |-> NoGroup])
    /\ UNCHANGED campaigns

BaseLists == 0   \* a campaign that still has the lists of the base configuration

Tagged(x, v) == {c \in DOMAIN campaigns : campaigns[c].test = x /\ campaigns[c].variant = v}
TaggedLists(x, role) == {l \in DOMAIN lists : lists[l].test = x /\ lists[l].role = role}

-----------------------------------------------------------------------------
(* Creation: the intent, the campaigns, the seed, the lists, the launch    *)
(* window and the launch are stored one after the other, each before the   *)
(* next is begun.                                                          *)

Draft(config) ==
    [status |-> "draft", config |-> config, pending |-> TRUE, mapping |-> Empty, split |-> Empty,
     seed |-> 0, window |-> FALSE, started |-> FALSE, winner |-> 0]

\* The key of the request finds the test that an earlier attempt recorded; a
\* completed one is returned as it is.
RecordCreateIntent(p, x) ==
    /\ ~Locked /\ at[p] = Idle
    /\ \/ /\ x \notin DOMAIN clock   \* a new id
          /\ tests' = Set(tests, x, Draft(budget.config)) /\ clock' = Set(clock, x, 0)
       \/ /\ x \in DOMAIN tests /\ tests[x].pending
          /\ UNCHANGED <<tests, clock>>
    /\ at' = [at EXCEPT ![p] = [op |-> "create", next |-> "campaigns", test |-> x]]
    /\ UNCHANGED <<tx, audience, operator, budget>> /\ UNCHANGED remote

\* Deleted meanwhile.
NotFound(p) == ~Locked /\ at[p].op # "idle" /\ ~Found(p) /\ Return(p)

BeginCampaigns(p) ==
    /\ Ready(p, "create", "campaigns") /\ Found(p)
    /\ LET rec == Stored(p) IN
       IF rec.pending /\ rec.mapping = Empty THEN Open(p, rec, "tagged", {})
       ELSE Pass(p, IF rec.pending THEN "seed" ELSE "finalize")

\* Campaigns of an attempt that was cut short are found by their tags.
Reconciled(x) == [v \in {w \in Variants : Tagged(x, w) # {}} |-> Least(Tagged(x, v))]

MissingIfNone(x) == IF Reconciled(x) = Empty THEN Variants ELSE {}
Missing(x) == Variants \ DOMAIN Reconciled(x)

FindCampaigns(p, out) ==
    LET x == at[p].test IN
    /\ In(p, "tagged") /\ out # "lost" /\ Sent(out)
    /\ IF out = "ok" /\ \A v \in Variants : Cardinality(Tagged(x, v)) <= 1
       THEN Continue([tx EXCEPT !.step = "campaigns", !.rec.mapping = Reconciled(x),
                                !.todo = Missing(x)])
       ELSE Abort(p)
    /\ UNCHANGED remote

CreateVariantCampaign(p, out) ==
    /\ In(p, "campaigns") /\ tx.todo # {} /\ Sent(out)
    /\ IF Done(out) THEN CreateCampaign(at[p].test, Least(tx.todo), BaseLists) ELSE UNCHANGED remote
    /\ Continue(IF out = "ok"
         THEN LET c == created.campaigns + 1 IN
              [tx EXCEPT !.made = @ \cup {c}, !.todo = @ \ {Least(@)},
                         !.rec.mapping = Set(@, Least(tx.todo), c)]
         ELSE IF Repeated("POST") THEN tx ELSE [tx EXCEPT !.step = "undo"])

\* What was created is deleted as far as it can be (deleteCampaignsBestEffort).
UndoCampaigns(p) ==
    /\ In(p, "undo")
    /\ \E gone \in SUBSET {c \in tx.made : Deletable(c)} :
         /\ RemoveCampaigns(gone)
         /\ Fail(Cardinality({c \in tx.made : Deletable(c)} \ gone))
    /\ Abort(p)
    /\ UNCHANGED <<lists, created>>

CommitCampaigns(p) == In(p, "campaigns") /\ tx.todo = {} /\ Commit(p, tx.rec, "seed")

\* The seed is stored before a list is made, so that a retry splits alike.
NoSeedYet(p) == Stored(p)
StampSeed(p) ==
    IF Stored(p).pending /\ Stored(p).seed = 0 /\ Stored(p).config.mode = "holdout"
    THEN [Stored(p) EXCEPT !.seed = CHOOSE s \in Seeds : TRUE] ELSE Stored(p)

RecordSegmentationSeed(p) ==
    Ready(p, "create", "seed") /\ Found(p) /\ Store(p, StampSeed(p), "segment")

RolesOf(rec) == IF rec.config.mode = "holdout" THEN Roles ELSE Variants

BeginSegmentation(p) ==
    /\ Ready(p, "create", "segment") /\ Found(p)
    /\ LET rec == Stored(p) IN
       IF rec.pending /\ rec.mapping # Empty /\ rec.split = Empty
       THEN Open(p, rec, "audience", RolesOf(rec)) ELSE Pass(p, "window")

\* The tagged lists of an earlier attempt are adopted (only for a holdout
\* test), the audience is resolved and split.
Adopted(x, rec) ==
    [r \in {s \in RolesOf(rec) : rec.config.mode = "holdout" /\ TaggedLists(x, s) # {}} |->
       Least(TaggedLists(x, r))]

ResolveAudience(p, out) ==
    LET x == at[p].test rec == tx.rec IN
    /\ In(p, "audience") /\ out # "lost" /\ Sent(out)
    /\ IF out = "ok" /\ \A r \in DOMAIN Adopted(x, rec) : Cardinality(TaggedLists(x, r)) = 1
       THEN \E s \in (IF rec.seed = 0 THEN Seeds ELSE {rec.seed}) :
              Continue([tx EXCEPT !.step = "list", !.rec.split = Adopted(x, rec),
                                  !.rec.seed = IF rec.config.mode = "holdout" THEN s ELSE 0,
                                  !.group = <<s, audience>>])
       ELSE Abort(p)
    /\ UNCHANGED remote

MakeList(p, out) ==
    /\ In(p, "list") /\ tx.todo # {} /\ Least(tx.todo) \notin DOMAIN tx.rec.split /\ Sent(out)
    /\ IF Done(out) THEN CreateList(at[p].test, Least(tx.todo)) ELSE UNCHANGED remote
    /\ Continue(IF out = "ok"
         THEN LET l == created.lists + 1 IN
              [tx EXCEPT !.made = @ \cup {l}, !.rec.split = Set(@, Least(tx.todo), l)]
         ELSE IF Repeated("POST") THEN tx ELSE [tx EXCEPT !.step = "unlist"])

\* Members are added in chunks; those of an adopted list that do not belong
\* to the group are removed.
Added(old, group) == IF old \in {NoGroup, group} THEN group ELSE NoGroup
Filled(old, group) == group

FillList(p, out) ==
    /\ In(p, "list") /\ tx.todo # {} /\ Least(tx.todo) \in DOMAIN tx.rec.split /\ Sent(out)
    /\ LET l == tx.rec.split[Least(tx.todo)] IN
       \/ /\ l \in DOMAIN lists /\ Done(out)
          /\ lists' = [lists EXCEPT ![l].group = Filled(@, tx.group)]
       \/ /\ l \in DOMAIN lists /\ out = "failed"
          /\ \E group \in {lists[l].group, NoGroup} : lists' = [lists EXCEPT ![l].group = group]
    /\ Continue(IF out = "ok" THEN [tx EXCEPT !.todo = @ \ {Least(@)}] ELSE [tx EXCEPT !.step = "unlist"])
    /\ UNCHANGED <<campaigns, created>>

UndoLists(p) ==
    /\ In(p, "unlist")
    /\ \E gone \in SUBSET tx.made :
         /\ RemoveLists(gone)
         /\ Fail(Cardinality(tx.made \ gone))
    /\ Abort(p)
    /\ UNCHANGED <<campaigns, created>>

CommitSegmentation(p) == In(p, "list") /\ tx.todo = {} /\ Commit(p, tx.rec, "window")

\* The send window is stored before anything is scheduled.
NoWindowYet(p) == Stored(p)
StampWindow(p) ==
    IF Stored(p).pending /\ Stored(p).config.launches THEN [Stored(p) EXCEPT !.window = TRUE] ELSE Stored(p)

RecordAutoLaunchWindow(p) ==
    Ready(p, "create", "window") /\ Found(p) /\ Store(p, StampWindow(p), "finalize")

BeginFinalize(p) ==
    /\ Ready(p, "create", "finalize") /\ Found(p)
    /\ LET rec == Stored(p) IN
       IF ~rec.pending THEN Return(p)
       ELSE IF rec.config.launches THEN Open(p, rec, "update", DOMAIN rec.mapping)
       ELSE Store(p, [rec EXCEPT !.pending = FALSE], "done")

-----------------------------------------------------------------------------
(* Launch.                                                                 *)

Launched(rec) == rec.status \in {"scheduled", "running"} /\ rec.started
Launchable(rec) == ~rec.pending /\ rec.status \in {"draft", "scheduled"}

\* startedAt and the window are stored before anything is scheduled.
RecordLaunchIntent(p, x) ==
    /\ Enters(p, x) /\ ~tests[x].pending
    /\ Launched(tests[x]) \/ Launchable(tests[x])
    /\ tests' = Set(tests, x, [tests[x] EXCEPT !.started = TRUE, !.window = TRUE])
    /\ at' = [at EXCEPT ![p] = [op |-> "launch", next |-> "launch", test |-> x]]
    /\ UNCHANGED <<tx, budget>> /\ UNCHANGED remote /\ UNCHANGED world

BeginLaunch(p) ==
    /\ Ready(p, "launch", "launch") /\ Found(p)
    /\ LET rec == Stored(p) IN
       IF rec.status # "draft" THEN Return(p)
       ELSE Open(p, rec, "update", DOMAIN rec.mapping)

\* launchTest: campaign by campaign, the lists and the window are set, then
\* the status.
UpdateCampaign(p, out) ==
    LET v == Least(tx.todo) c == tx.rec.mapping[v] IN
    /\ In(p, "update") /\ tx.todo # {}
    /\ IF v \in DOMAIN tx.rec.split /\ Editable(c)
       THEN /\ Sent(out)
            /\ campaigns' = IF Done(out) THEN [campaigns EXCEPT ![c].list = tx.rec.split[v]] ELSE campaigns
            /\ IF out = "ok" THEN Continue([tx EXCEPT !.step = "schedule"]) ELSE Abort(p)
       ELSE Abort(p) /\ UNCHANGED <<campaigns, budget>>
    /\ UNCHANGED <<lists, created>>

ScheduleCampaign(p, out) ==
    LET v == Least(tx.todo) c == tx.rec.mapping[v] IN
    /\ In(p, "schedule")
    /\ IF Accepts(c, "scheduled")
       THEN /\ Sent(out)
            /\ IF Done(out) THEN SetStatus(c, "scheduled") ELSE UNCHANGED campaigns
            /\ IF out = "ok" THEN Continue([tx EXCEPT !.step = "update", !.todo = @ \ {v}]) ELSE Abort(p)
       ELSE Abort(p) /\ UNCHANGED <<campaigns, budget>>
    /\ UNCHANGED <<lists, created>>

CommitLaunch(p) ==
    /\ In(p, "update") /\ tx.todo = {}
    /\ Commit(p, [tx.rec EXCEPT !.status = "scheduled", !.started = TRUE, !.pending = FALSE], "done")

-----------------------------------------------------------------------------
(* Stop (cancelAbTest): the status of every campaign is read, then every   *)
(* campaign is cancelled, deleted or left by what was read.                *)

BeginStop(p, x) ==
    /\ Enters(p, x) /\ ~tests[x].pending /\ tests[x].status \in {"running", "scheduled"}
    /\ OpenAt(p, "stop", x, "fetch", Values(tests[x].mapping))

FetchCampaignStatus(p, c, out) ==
    /\ In(p, "fetch") /\ c \in tx.todo /\ out # "lost" /\ Sent(out)
    /\ Continue([tx EXCEPT !.todo = @ \ {c}, !.seen = Set(@, c,
         IF out = "failed" THEN "unknown" ELSE IF Exists(c) THEN campaigns[c].status ELSE "gone")])
    /\ UNCHANGED remote

PlanCancel(p) ==
    /\ In(p, "fetch") /\ tx.todo = {}
    /\ Continue([tx EXCEPT !.step = "act", !.todo = DOMAIN tx.seen]) /\ UNCHANGED budget /\ UNCHANGED remote

Planned(status) ==
    IF status = "running" THEN "cancel"
    ELSE IF status \in {"unknown", "gone", "finished", "cancelled"} THEN "leave" ELSE "delete"

\* The planned action on one campaign; a campaign that is not there any more
\* counts as dealt with.
ActOnCampaign(p, c, out) ==
    LET action == Planned(tx.seen[c]) legal == IF action = "cancel" THEN Accepts(c, "cancelled") ELSE Deletable(c)
        finished == [tx EXCEPT !.todo = @ \ {c}] failed == [finished EXCEPT !.errors = @ \cup {c}] IN
    /\ In(p, "act") /\ c \in tx.todo
    /\ \/ /\ action = "leave" \/ ~Exists(c)
          /\ Continue(finished) /\ UNCHANGED <<campaigns, budget>>
       \/ /\ action # "leave" /\ Exists(c) /\ ~legal
          /\ Continue(failed) /\ UNCHANGED <<campaigns, budget>>
       \/ /\ action # "leave" /\ Exists(c) /\ legal /\ Sent(out)
          /\ IF ~Done(out) THEN UNCHANGED campaigns
             ELSE IF action = "cancel" THEN SetStatus(c, "cancelled") ELSE RemoveCampaigns({c})
          /\ Continue(IF out # "ok" THEN failed
                      ELSE [finished EXCEPT !.made = IF action = "delete" THEN @ \cup {c} ELSE @])
    /\ UNCHANGED <<lists, created>>

\* Campaigns that may still need their lists: left or cancelled ones, those an
\* action failed on, and the winner.
IgnoringFailures(t) == {c \in DOMAIN t.seen : t.seen[c] \in {"unknown", "running", "finished", "cancelled"}}
Surviving(t) ==
    {c \in DOMAIN t.seen : t.seen[c] \in {"unknown", "running", "finished", "cancelled"}}
      \cup t.errors \cup ({t.rec.winner} \ {0})

\* The lists go when no campaign survives; the stop counts only if nothing
\* failed and every status was read.
StoppedAsFarAsSeen(t, kept) == t.errors = {} /\ kept = {}
Stopped(t, kept) == t.errors = {} /\ kept = {} /\ \A c \in DOMAIN t.seen : t.seen[c] # "unknown"

FinishStop(p) ==
    /\ In(p, "act") /\ tx.todo = {}
    /\ \E kept \in SUBSET {l \in Values(tx.rec.split) : l \in DOMAIN lists} :
         LET gone == IF Surviving(tx) = {} THEN {l \in Values(tx.rec.split) : l \in DOMAIN lists} \ kept ELSE {} IN
         /\ Surviving(tx) # {} => kept = {}
         /\ RemoveLists(gone) /\ Fail(Cardinality(kept))
         /\ IF Stopped(tx, kept)
            THEN /\ tests' = Set(tests, at[p].test, [tx.rec EXCEPT !.status = "cancelled"])
                 /\ tx' = NoTx /\ Proceed(p, "done") /\ UNCHANGED world
            ELSE Abort(p)
    /\ UNCHANGED <<campaigns, created>>

-----------------------------------------------------------------------------
(* Deletion (deleteTest): the campaigns and lists in the record of a test  *)
(* that has not ended are deleted first.                                   *)

BeginDelete(p, x) ==
    /\ Enters(p, x)
    /\ IF tests[x].status \in TERMINAL_STATUSES \/ tests[x].mapping = Empty
       THEN /\ tests' = Without(tests, {x})
            /\ UNCHANGED <<at, tx, budget>> /\ UNCHANGED remote /\ UNCHANGED world
       ELSE OpenAt(p, "delete", x, "look", Values(tests[x].mapping) \cup ({tests[x].winner} \ {0}))

Skip(t, errors) == [t EXCEPT !.step = "look", !.todo = @ \ {Least(@)}, !.errors = errors]

\* Each campaign in turn: its status, a cancellation if it is running, then
\* the deletion.
LookAtCampaign(p, out) ==
    LET c == Least(tx.todo) IN
    /\ In(p, "look") /\ tx.todo # {} /\ out # "lost" /\ Sent(out)
    /\ Continue(IF out = "failed" THEN Skip(tx, tx.errors \cup {c})
                ELSE IF ~Exists(c) THEN Skip(tx, tx.errors)
                ELSE [tx EXCEPT !.step = IF campaigns[c].status = "running" THEN "cancel" ELSE "delete"])
    /\ UNCHANGED remote

CancelBeforeDelete(p, out) ==
    LET c == Least(tx.todo) IN
    /\ In(p, "cancel")
    /\ IF Accepts(c, "cancelled")
       THEN /\ Sent(out)
            /\ IF Done(out) THEN SetStatus(c, "cancelled") ELSE UNCHANGED campaigns
            /\ Continue(IF out = "ok" THEN [tx EXCEPT !.step = "delete"] ELSE Skip(tx, tx.errors \cup {c}))
       ELSE /\ UNCHANGED <<campaigns, budget>>
            /\ Continue(IF Exists(c) THEN Skip(tx, tx.errors \cup {c}) ELSE [tx EXCEPT !.step = "delete"])
    /\ UNCHANGED <<lists, created>>

DeleteTestCampaign(p, out) ==
    LET c == Least(tx.todo) IN
    /\ In(p, "delete")
    /\ IF Deletable(c)
       THEN /\ Sent(out)
            /\ IF Done(out) THEN RemoveCampaigns({c}) ELSE UNCHANGED campaigns
            /\ Continue(Skip(tx, IF out = "ok" THEN tx.errors ELSE tx.errors \cup {c}))
       ELSE /\ UNCHANGED <<campaigns, budget>>
            /\ Continue(Skip(tx, IF Exists(c) THEN tx.errors \cup {c} ELSE tx.errors))
    /\ UNCHANGED <<lists, created>>

\* The lists are deleted only after all campaigns were; a failure keeps the
\* record.
CleanedUp(t) == TRUE
Deletes(t) == t.errors = {}

FinishDelete(p) ==
    /\ In(p, "look") /\ tx.todo = {}
    /\ IF Deletes(tx)
       THEN LET mine == {l \in Values(tx.rec.split) : l \in DOMAIN lists} IN
            \E kept \in SUBSET mine :
              /\ RemoveLists(mine \ kept) /\ Fail(Cardinality(kept))
              /\ IF kept = {} THEN /\ tests' = Without(tests, {at[p].test})
                                   /\ tx' = NoTx /\ Proceed(p, "done") /\ UNCHANGED world
                              ELSE Abort(p)
       ELSE Abort(p) /\ UNCHANGED <<lists, budget>>
    /\ UNCHANGED <<campaigns, created>>

-----------------------------------------------------------------------------
(* Progress: run and tick advance a test by one step, and the last one     *)
(* deploys the winner to the holdout list.  When that fails the test is    *)
(* being analyzed again, whether the record is stored (tick) or not (run). *)

Advance(p, x) ==
    /\ Enters(p, x)
    /\ \/ /\ tests[x].status = "scheduled" /\ tests[x].window /\ clock[x] >= 1
          /\ StoreAt(x, [tests[x] EXCEPT !.status = "running"])
       \/ /\ tests[x].status = "running" /\ clock[x] = 2
          /\ StoreAt(x, [tests[x] EXCEPT !.status = "analyzing"])
       \/ /\ tests[x].status = "analyzing"
          /\ OpenAt(p, "advance", x, "analyze", {})

\* deployWinner looks neither at the status nor for an earlier winner.
BeginDeploy(p, x) ==
    /\ Enters(p, x) /\ tests[x].config.mode = "holdout" /\ Holdout \in DOMAIN tests[x].split
    /\ OpenAt(p, "deploy", x, "analyze", {})

\* The results decide whether there is a winner, not before the end.
Analyze(p, significant, out) ==
    LET rec == tx.rec deploys == at[p].op = "deploy" \/ (rec.config.deploys /\ rec.config.mode = "holdout") IN
    /\ In(p, "analyze") /\ out # "lost" /\ Sent(out)
    /\ significant => clock[at[p].test] = 2
    /\ IF out = "failed" \/ (at[p].op = "deploy" /\ ~significant) THEN Abort(p)
       ELSE IF significant /\ deploys THEN Continue([tx EXCEPT !.step = "winner", !.rec.status = "deploying"])
       ELSE /\ tests' = Set(tests, at[p].test,
                 [rec EXCEPT !.status = IF significant THEN "completed" ELSE "inconclusive"])
            /\ tx' = NoTx /\ Proceed(p, "done") /\ UNCHANGED world
    /\ UNCHANGED remote

CreateWinner(p, out) ==
    /\ In(p, "winner") /\ Sent(out)
    /\ IF Done(out) THEN CreateCampaign(at[p].test, Winner, tx.rec.split[Holdout]) ELSE UNCHANGED remote
    /\ IF out = "ok" THEN Continue([tx EXCEPT !.step = IF tx.rec.config.deploys THEN "start" ELSE "deployed",
                                              !.made = {created.campaigns + 1}])
                     ELSE Abort(p)

\* autoDeployWinner does not look at the answer: only an exception is an error.
StartWinner(p, out, thrown) ==
    LET c == Least(tx.made) IN
    /\ In(p, "start") /\ Sent(out)
    /\ thrown => out # "ok"
    /\ out = "lost" => thrown
    /\ IF Done(out) /\ Accepts(c, "running") THEN SetStatus(c, "running") ELSE UNCHANGED campaigns
    /\ IF thrown THEN Abort(p) ELSE Continue([tx EXCEPT !.step = "deployed"])
    /\ UNCHANGED <<lists, created>>

CommitDeploy(p) ==
    /\ In(p, "deployed")
    /\ Commit(p, [tx.rec EXCEPT !.status = "completed", !.winner = Least(tx.made)], "done")

\* The process dies, and the lock of its transaction is taken from it.
Crash(p) ==
    /\ at[p] # Idle /\ Fail(1)
    /\ at' = [at EXCEPT ![p] = Idle]
    /\ tx' = IF tx.by = p THEN NoTx ELSE tx
    /\ UNCHANGED tests /\ UNCHANGED remote /\ UNCHANGED world

-----------------------------------------------------------------------------
(* Listmonk and its operators.                                             *)

\* A window that was stored comes, and its test ends.
Tick(x) ==
    /\ x \in DOMAIN tests /\ tests[x].window /\ clock[x] < 2
    /\ clock' = [clock EXCEPT ![x] = @ + 1]
    /\ UNCHANGED <<tests, at, tx, audience, operator, budget>> /\ UNCHANGED remote

Fire(c) ==
    /\ campaigns[c].status = "scheduled" /\ clock[campaigns[c].test] >= 1
    /\ SetStatus(c, "running")
    /\ UNCHANGED <<tests, lists, created, at, tx, budget>> /\ UNCHANGED world

Finish(c) ==
    /\ campaigns[c].status = "running"
    /\ SetStatus(c, "finished")
    /\ UNCHANGED <<tests, lists, created, at, tx, budget>> /\ UNCHANGED world

\* Only while a split is still to come: later nothing looks at the audience.
Subscribe ==
    /\ \E x \in DOMAIN tests : tests[x].pending /\ tests[x].split = Empty
    /\ budget.changes > 0 /\ budget' = [budget EXCEPT !.changes = @ - 1]
    /\ audience' = audience + 1
    /\ UNCHANGED <<tests, at, tx, clock, operator>> /\ UNCHANGED remote

\* transitionCampaign: the status is read and checked, then written; a
\* campaign that is in the target state is left as it is.
ReadForTransition(c, target) ==
    /\ operator.campaign = 0 /\ budget.interventions > 0
    /\ Accepts(c, target)
    /\ operator' = [campaign |-> c, target |-> target]
    /\ budget' = [budget EXCEPT !.interventions = @ - 1]
    /\ UNCHANGED <<tests, at, tx, clock, audience>> /\ UNCHANGED remote

WriteTransition ==
    LET c == operator.campaign IN
    /\ c # 0
    /\ operator' = [campaign |-> 0, target |-> "none"]
    /\ IF Accepts(c, operator.target) THEN SetStatus(c, operator.target) ELSE UNCHANGED campaigns
    /\ UNCHANGED <<tests, lists, created, at, tx, clock, audience, budget>>

-----------------------------------------------------------------------------
Operation(p) ==
    /\ Cardinality({q \in Procs : at[q] # Idle}) < budget.busy
    /\ \E x \in TestIds :
         \/ RecordCreateIntent(p, x) \/ RecordLaunchIntent(p, x) \/ BeginStop(p, x)
         \/ BeginDelete(p, x) \/ Advance(p, x) \/ BeginDeploy(p, x)

Step(p) ==
    \/ NotFound(p)
    \/ BeginCampaigns(p) \/ UndoCampaigns(p) \/ CommitCampaigns(p) \/ RecordSegmentationSeed(p)
    \/ BeginSegmentation(p) \/ UndoLists(p) \/ CommitSegmentation(p)
    \/ RecordAutoLaunchWindow(p) \/ BeginFinalize(p)
    \/ BeginLaunch(p) \/ CommitLaunch(p)
    \/ PlanCancel(p) \/ FinishStop(p)
    \/ FinishDelete(p) \/ CommitDeploy(p)
    \/ \E out \in Outcomes :
         \/ FindCampaigns(p, out) \/ CreateVariantCampaign(p, out)
         \/ ResolveAudience(p, out) \/ MakeList(p, out) \/ FillList(p, out)
         \/ UpdateCampaign(p, out) \/ ScheduleCampaign(p, out)
         \/ LookAtCampaign(p, out) \/ CancelBeforeDelete(p, out) \/ DeleteTestCampaign(p, out)
         \/ CreateWinner(p, out)
         \/ \E c \in CampaignIds : FetchCampaignStatus(p, c, out) \/ ActOnCampaign(p, c, out)
         \/ \E b \in BOOLEAN : Analyze(p, b, out) \/ StartWinner(p, out, b)

Listmonk ==
    \/ \E x \in TestIds : Tick(x)
    \/ \E c \in DOMAIN campaigns : Fire(c) \/ Finish(c)
    \/ Subscribe

Others ==
    \/ \E c \in DOMAIN campaigns, target \in {"running", "paused", "cancelled"} : ReadForTransition(c, target)
    \/ WriteTransition

Next ==
    \/ \E p \in Procs : Operation(p) \/ Step(p) \/ Crash(p)
    \/ Listmonk \/ Others

Spec == Init /\ [][Next]_vars

-----------------------------------------------------------------------------
IsMap(f, S, T) == DOMAIN f \subseteq S /\ \A i \in DOMAIN f : f[i] \in T

IsRecord(rec) ==
    /\ rec.status \in TestStatus /\ rec.config \in AllConfigs
    /\ {rec.pending, rec.window, rec.started} \subseteq BOOLEAN
    /\ IsMap(rec.mapping, Variants, CampaignIds) /\ IsMap(rec.split, Roles, ListIds)
    /\ rec.seed \in Seeds \cup {0} /\ rec.winner \in CampaignIds \cup {0}

(***************************************************************************)
(* Records, campaigns and lists have their types, and the lock of the      *)
(* store is held only by a process that is in an operation: a transaction  *)
(* that fails gives it up.                                                 *)
(***************************************************************************)
TypeOK ==
    /\ DOMAIN tests \subseteq TestIds /\ \A x \in DOMAIN tests : IsRecord(tests[x])
    /\ DOMAIN campaigns \subseteq CampaignIds
    /\ \A c \in DOMAIN campaigns : campaigns[c] \in
         [test : TestIds, variant : Variants \cup {Winner}, status : CampaignStatus, list : ListIds \cup {BaseLists}]
    /\ DOMAIN lists \subseteq ListIds
    /\ \A l \in DOMAIN lists : lists[l] \in [test : TestIds, role : Roles, group : Groups]
    /\ tx.by \in Procs \cup {NoProc} /\ (Locked => at[tx.by] # Idle)

(***************************************************************************)
(* However often a creation fails, dies and is taken up again, and however *)
(* many processes take it up, Listmonk never has two campaigns for one     *)
(* variant of a test.                                                      *)
(***************************************************************************)
OneCampaignPerVariant ==
    \A x \in TestIds, v \in Variants : Cardinality(Tagged(x, v)) <= 1

(***************************************************************************)
(* The lists in the record of a test were filled from one split of one     *)
(* audience, so no subscriber is in two groups, whatever earlier attempts  *)
(* left in lists that were adopted.                                        *)
(***************************************************************************)
OneSplit ==
    \A x \in DOMAIN tests : \A r, s \in DOMAIN tests[x].split :
      {tests[x].split[r], tests[x].split[s]} \subseteq DOMAIN lists =>
        /\ lists[tests[x].split[r]].group = lists[tests[x].split[s]].group
        /\ lists[tests[x].split[r]].group # NoGroup

(***************************************************************************)
(* A retry splits as the attempt before it did: the members of a list of a *)
(* holdout test change only with the audience.                             *)
(***************************************************************************)
SplitStable ==
    [][\A l \in DOMAIN lists \cap DOMAIN lists' :
         LET before == lists[l].group after == lists'[l].group IN
         (before # NoGroup /\ after # NoGroup /\ before[2] = after[2]) => before = after]_vars

(***************************************************************************)
(* A test that is no longer being created names a campaign for each of its *)
(* variants and a list for each of its groups, whatever was adopted from   *)
(* attempts that were cut short.                                           *)
(***************************************************************************)
ProvisionedIsComplete ==
    \A x \in DOMAIN tests : ~tests[x].pending =>
      DOMAIN tests[x].mapping = Variants /\ DOMAIN tests[x].split = RolesOf(tests[x])

Live(c) == campaigns[c].status \in {"scheduled", "running", "paused"}

(***************************************************************************)
(* A campaign that was launched to a temporary list has that list as long  *)
(* as it may send: stopping or deleting a test never takes the list of a   *)
(* campaign that escaped.                                                  *)
(***************************************************************************)
LaunchedHasAudience ==
    \A c \in DOMAIN campaigns :
      Live(c) /\ campaigns[c].variant # Winner /\ campaigns[c].list # BaseLists
        => campaigns[c].list \in DOMAIN lists

(***************************************************************************)
(* Once a test is recorded as cancelled none of its campaigns can send,    *)
(* although they are acted upon by a status that may be out of date.       *)
(***************************************************************************)
StoppedIsQuiet ==
    \A x \in DOMAIN tests : tests[x].status = "cancelled" =>
      \A v \in DOMAIN tests[x].mapping :
        LET c == tests[x].mapping[v] IN Exists(c) => campaigns[c].status \in {"finished", "cancelled"}

(***************************************************************************)
(* A record that names campaigns of a test that has not ended goes only    *)
(* when everything it names is gone.                                       *)
(***************************************************************************)
DeletedIsGone ==
    [][\A x \in DOMAIN tests \ DOMAIN tests' :
         (tests[x].status \notin TERMINAL_STATUSES /\ tests[x].mapping # Empty) =>
           /\ Values(tests[x].mapping) \cap DOMAIN campaigns' = {}
           /\ Values(tests[x].split) \cap DOMAIN lists' = {}]_vars

(***************************************************************************)
(* A campaign of a test is scheduled only after its window was stored.     *)
(***************************************************************************)
ScheduledHasWindow ==
    \A c \in DOMAIN campaigns :
      campaigns[c].status = "scheduled" /\ campaigns[c].test \in DOMAIN tests => tests[campaigns[c].test].window
=============================================================================
