--------------------------- MODULE AbTestsProofs ---------------------------
(***************************************************************************)
(* Theorems about the A/B tests, for every number of tests, processes and  *)
(* failures, every bound on what is created and every configuration.       *)
(*                                                                         *)
(* TestsOK, CampaignsOK and ListsOK relate the stored records to what      *)
(* Listmonk has; they hold between any two requests.  ProcsOK says what    *)
(* was stored before a process went on to its next transaction, and TxOK   *)
(* what a transaction has found out and done so far.                       *)
(***************************************************************************)
EXTENDS AbTests, FiniteSetTheorems, WellFoundedInduction, TLAPS

Maps(S, T) == UNION {[D -> T] : D \in SUBSET S}

Record ==
    [status : TestStatus, config : AllConfigs, pending : BOOLEAN, mapping : Maps(Variants, CampaignIds),
     split : Maps(Roles, ListIds), seed : Seeds \cup {0}, window : BOOLEAN, started : BOOLEAN,
     winner : CampaignIds \cup {0}]

-----------------------------------------------------------------------------
(* The stored records.  Each predicate takes the record as a parameter, as *)
(* some are needed of the record a transaction is about to store.          *)

\* Campaigns and groups are complete when they are recorded, and in this order.
RecordOK(rec) ==
    /\ rec \in Record
    /\ rec.mapping = Empty \/ DOMAIN rec.mapping = Variants
    /\ rec.split = Empty \/ DOMAIN rec.split = RolesOf(rec)
    /\ rec.split # Empty => rec.mapping # Empty
    /\ ~rec.pending => rec.split # Empty
    /\ rec.pending => rec.status \in {"draft", "completed"}

\* What a record names is its own.
NamesCampaigns(x, rec) ==
    \A v \in DOMAIN rec.mapping :
      Exists(rec.mapping[v]) => campaigns[rec.mapping[v]].test = x /\ campaigns[rec.mapping[v]].variant = v

NamesLists(x, rec) ==
    \A r \in DOMAIN rec.split :
      rec.split[r] \in DOMAIN lists => lists[rec.split[r]].test = x /\ lists[rec.split[r]].role = r

\* No identifier is named before it was given out.
Given(rec) ==
    /\ \A v \in DOMAIN rec.mapping : rec.mapping[v] <= created.campaigns
    /\ \A r \in DOMAIN rec.split : rec.split[r] <= created.lists

\* As long as a campaign is there, all lists are.
Supplied(rec) ==
    (\E v \in DOMAIN rec.mapping : Exists(rec.mapping[v])) =>
      \A r \in DOMAIN rec.split : rec.split[r] \in DOMAIN lists

SplitOnce(rec) ==
    \A r, s \in DOMAIN rec.split :
      {rec.split[r], rec.split[s]} \subseteq DOMAIN lists =>
        lists[rec.split[r]].group = lists[rec.split[s]].group /\ lists[rec.split[r]].group # NoGroup

Over == {"finished", "cancelled"}

Quiet(rec) ==
    rec.status = "cancelled" =>
      \A v \in DOMAIN rec.mapping : Exists(rec.mapping[v]) => campaigns[rec.mapping[v]].status \in Over

TestOK(x) ==
    LET rec == tests[x] IN
    /\ RecordOK(rec)
    /\ NamesCampaigns(x, rec) /\ NamesLists(x, rec) /\ Given(rec)
    /\ Supplied(rec) /\ SplitOnce(rec) /\ Quiet(rec)

TestsOK ==
    /\ DOMAIN tests \subseteq DOMAIN clock /\ DOMAIN clock \subseteq TestIds
    /\ \A x \in DOMAIN tests : TestOK(x)

-----------------------------------------------------------------------------
(* Listmonk *)

Campaign == [test : TestIds, variant : Variants \cup {Winner}, status : CampaignStatus, list : ListIds \cup {BaseLists}]
AllGroups == {NoGroup} \cup (Seeds \X (Nat \ {0}))
List == [test : TestIds, role : Roles, group : AllGroups]

CreatedOK == created \in [campaigns : 0 .. MaxCampaigns, lists : 0 .. MaxLists]

\* A campaign with a temporary list is in the record of its test, and the list is there.
HasList(c) ==
    LET x == campaigns[c].test l == campaigns[c].list IN
    campaigns[c].variant # Winner /\ l # BaseLists =>
      /\ l \in DOMAIN lists /\ lists[l].test = x
      /\ x \in DOMAIN tests =>
           tests[x].split # Empty /\ \E v \in DOMAIN tests[x].mapping : tests[x].mapping[v] = c

HasWindow(c) ==
    campaigns[c].status = "scheduled" /\ campaigns[c].test \in DOMAIN tests => tests[campaigns[c].test].window

CampaignsOK ==
    /\ campaigns \in [DOMAIN campaigns -> Campaign] /\ DOMAIN campaigns \subseteq 1 .. created.campaigns
    /\ \A c \in DOMAIN campaigns : campaigns[c].test \in DOMAIN clock /\ HasList(c) /\ HasWindow(c)
    /\ \A c, d \in DOMAIN campaigns :
         campaigns[c].test = campaigns[d].test /\ campaigns[c].variant = campaigns[d].variant
           /\ campaigns[c].variant # Winner => c = d

\* The groups of a holdout test come from the seed in its record.
SeededBy(l, rec) ==
    rec.config.mode = "holdout" /\ lists[l].group # NoGroup => lists[l].group[1] = rec.seed

ListsOK ==
    /\ lists \in [DOMAIN lists -> List] /\ DOMAIN lists \subseteq 1 .. created.lists
    /\ audience \in Nat \ {0}
    /\ \A l \in DOMAIN lists :
         /\ lists[l].group \in Groups /\ lists[l].test \in DOMAIN clock
         /\ lists[l].test \in DOMAIN tests => SeededBy(l, tests[lists[l].test])

StoredInv == TestsOK /\ CampaignsOK /\ ListsOK

BudgetOK == "config" \in DOMAIN budget /\ budget.config \in AllConfigs

WorldOK == CreatedOK /\ operator.target # "scheduled" /\ BudgetOK

-----------------------------------------------------------------------------
(* The processes *)

Operations == {"create", "launch", "stop", "delete", "advance", "deploy"}
Transactions == Operations \cup {"campaigns", "seed", "segment", "window", "finalize"}

\* What is recorded when a process comes to its next transaction.
Reached(a, rec) ==
    /\ a.op = "create" =>
         /\ a.next \in {"campaigns", "seed", "segment", "window", "finalize"}
         /\ a.next # "campaigns" => rec.mapping # Empty
         /\ a.next \in {"segment", "window", "finalize"} /\ rec.pending /\ rec.config.mode = "holdout" =>
              rec.seed # 0
         /\ a.next \in {"window", "finalize"} => rec.split # Empty
         /\ a.next = "finalize" /\ rec.pending /\ rec.config.launches => rec.window
    /\ a.op = "launch" => ~rec.pending /\ rec.window

ProcOK(a) ==
    \/ a = Idle
    \/ /\ a \in [op : Operations, next : Transactions, test : DOMAIN clock]
       /\ a.test \in DOMAIN tests => Reached(a, tests[a.test])

ProcsOK == DOMAIN at = Procs /\ \A p \in Procs : ProcOK(at[p])

-----------------------------------------------------------------------------
(* The transaction t of a process that is at a, on the test with the record rec *)

Creates == {"tagged", "campaigns", "undo"}
Splits == {"audience", "list", "unlist"}
Launches == {"update", "schedule"}
Stops == {"fetch", "act"}
Removes == {"look", "cancel", "delete"}
Deploys == {"winner", "start", "deployed"}

Seen == {"unknown", "gone"} \cup CampaignStatus

Tx == [by : Procs, step : Creates \cup Splits \cup Launches \cup Stops \cup Removes \cup Deploys \cup {"analyze"},
       rec : Record, made : SUBSET Nat, todo : SUBSET Nat, seen : Maps(CampaignIds, Seen),
       errors : SUBSET Nat, group : AllGroups]

\* No campaign of the variants that are still to be created is there.
Creating(t, a, rec) ==
    /\ a.op = "create" /\ a.next = "campaigns"
    /\ rec.pending /\ rec.mapping = Empty
    /\ t.rec = [rec EXCEPT !.mapping = t.rec.mapping]
    /\ t.step = "campaigns" =>
         /\ t.todo \subseteq Variants /\ DOMAIN t.rec.mapping = Variants \ t.todo
         /\ NamesCampaigns(a.test, t.rec) /\ Given(t.rec)
         /\ \A c \in DOMAIN campaigns : campaigns[c].test = a.test => campaigns[c].variant \notin t.todo

\* The lists that are not to do hold the groups of the transaction's split.
Splitting(t, a, rec) ==
    /\ a.op = "create" /\ a.next = "segment"
    /\ rec.pending /\ rec.mapping # Empty /\ rec.split = Empty
    /\ t.rec = [rec EXCEPT !.split = t.rec.split, !.seed = t.rec.seed]
    /\ rec.config.mode = "holdout" => rec.seed # 0 /\ t.rec.seed = rec.seed
    /\ \A l \in t.made : l <= created.lists /\ (l \in DOMAIN lists => lists[l].test = a.test)
    /\ t.step = "audience" => t.todo = RolesOf(rec)
    /\ t.step = "list" =>
         /\ t.todo \subseteq RolesOf(rec)
         /\ DOMAIN t.rec.split \subseteq RolesOf(rec) /\ RolesOf(rec) \ t.todo \subseteq DOMAIN t.rec.split
         /\ t.group \in Groups \ {NoGroup} /\ (rec.config.mode = "holdout" => t.group[1] = rec.seed)
         /\ NamesLists(a.test, t.rec) /\ Given(t.rec)
         /\ \A r \in DOMAIN t.rec.split :
              LET l == t.rec.split[r] IN
              /\ l \in DOMAIN lists
              /\ r \notin t.todo => lists[l].group = t.group
              /\ r \in t.todo /\ rec.config.mode # "holdout" => lists[l].group = NoGroup

\* Neither a stopped test nor one without its lists or its window is launched.
Launching(t, a, rec) ==
    /\ t.rec = rec /\ rec.window /\ rec.split # Empty
    /\ \/ a.op = "create" /\ a.next = "finalize" /\ rec.pending
       \/ a.op = "launch" /\ ~rec.pending /\ rec.status = "draft"
    /\ t.todo \subseteq DOMAIN rec.mapping
    /\ t.step = "schedule" => t.todo # {}

ActedOn(c, status) ==
    /\ Planned(status) = "cancel" /\ Exists(c) => campaigns[c].status = "cancelled"
    /\ Planned(status) = "delete" => ~Exists(c)

\* A status that was read may be out of date, but what is over stays over, and
\* what was acted upon without an error is cancelled or gone.
Stopping(t, rec) ==
    /\ t.rec = rec /\ ~rec.pending
    /\ DOMAIN t.seen \subseteq Values(rec.mapping)
    /\ \A c \in DOMAIN t.seen :
         /\ t.seen[c] = "gone" => ~Exists(c)
         /\ t.seen[c] \in Over /\ Exists(c) => campaigns[c].status \in Over
    /\ t.step = "fetch" => Values(rec.mapping) = DOMAIN t.seen \cup t.todo
    /\ t.step = "act" =>
         /\ DOMAIN t.seen = Values(rec.mapping) /\ t.todo \subseteq DOMAIN t.seen
         /\ \A c \in DOMAIN t.seen \ (t.todo \cup t.errors) : ActedOn(c, t.seen[c])

\* What is neither to do nor among the errors is gone.
Removing(t, rec) ==
    /\ t.rec = rec
    /\ t.step # "look" => t.todo # {}
    /\ \A c \in Values(rec.mapping) \ (t.todo \cup t.errors) : ~Exists(c)

Deploying(t, rec) ==
    /\ t.rec = [rec EXCEPT !.status = "deploying"]
    /\ rec.config.mode = "holdout" /\ rec.split # Empty
    /\ t.step # "winner" => \E c \in CampaignIds : t.made = {c} /\ (Exists(c) => campaigns[c].variant = Winner)

TransactionOK(t, a, rec) ==
    /\ t \in Tx
    /\ t.step \in Creates => Creating(t, a, rec)
    /\ t.step \in Splits => Splitting(t, a, rec)
    /\ t.step \in Launches => Launching(t, a, rec)
    /\ t.step \in Stops => Stopping(t, rec)
    /\ t.step \in Removes => Removing(t, rec)
    /\ t.step \in Deploys => Deploying(t, rec)
    /\ t.step = "analyze" =>
         /\ t.rec = rec
         /\ \/ a.op = "advance" /\ rec.status = "analyzing"
            \/ a.op = "deploy" /\ rec.config.mode = "holdout" /\ rec.split # Empty

TxOK ==
    \/ tx = NoTx
    \/ /\ tx.by \in Procs /\ at[tx.by] # Idle /\ at[tx.by].test \in DOMAIN tests
       /\ TransactionOK(tx, at[tx.by], tests[at[tx.by].test])

Inv == StoredInv /\ WorldOK /\ ProcsOK /\ TxOK

-----------------------------------------------------------------------------
(* Constants, maps and least elements *)

LEMMA Constants ==
    /\ Variants \subseteq Nat \ {0} /\ 1 \in Variants /\ Winner \notin Variants /\ Winner \in Nat
    /\ Roles = Variants \cup {0} /\ Roles \subseteq Nat /\ Holdout \in Roles /\ Holdout = 0
    /\ MaxCampaigns \in Nat /\ MaxLists \in Nat
    /\ CampaignIds = 1 .. MaxCampaigns /\ ListIds = 1 .. MaxLists
    /\ Seeds \subseteq Nat \ {0} /\ Seeds # {}
    /\ NoProc \notin Procs /\ NoTest \notin TestIds
    /\ \A b \in Budgets : b.config \in AllConfigs /\ "config" \in DOMAIN b
<1>1. /\ NVariants \in Nat /\ NVariants >= 1
      /\ MaxCampaigns \in Nat /\ MaxLists \in Nat
    BY AbTestsAssumption
<1>2. /\ Variants \subseteq Nat \ {0} /\ 1 \in Variants /\ Winner \notin Variants /\ Winner \in Nat
    BY <1>1 DEF Variants, Winner
<1>3. \A b \in Budgets : b.config \in AllConfigs /\ "config" \in DOMAIN b
    BY AbTestsAssumption
<1> QED
    BY <1>1, <1>2, <1>3, AbTestsAssumption DEF Roles, Holdout, CampaignIds, ListIds

\* A map has its values where it has its keys.
LEMMA MapFacts ==
    ASSUME NEW S, NEW T, NEW f \in Maps(S, T)
    PROVE  /\ DOMAIN f \subseteq S /\ f \in [DOMAIN f -> T]
           /\ f # Empty => DOMAIN f # {}
<1>1. PICK D \in SUBSET S : f \in [D -> T]
    BY DEF Maps
<1> QED
    BY <1>1 DEF Empty

\* A function from some of S is a map.
LEMMA MapOf ==
    ASSUME NEW S, NEW T, NEW D \in SUBSET S, NEW f \in [D -> T]
    PROVE  f \in Maps(S, T)
BY DEF Maps

\* The map without keys.
LEMMA EmptyMap ==
    ASSUME NEW S, NEW T
    PROVE  Empty \in Maps(S, T) /\ DOMAIN Empty = {}
<1>1. Empty \in [{} -> T] /\ DOMAIN Empty = {}
    BY DEF Empty
<1> QED
    BY <1>1, MapOf

\* Setting one key changes that key only.
LEMMA SetFacts ==
    ASSUME NEW f, NEW i, NEW v
    PROVE  /\ DOMAIN Set(f, i, v) = DOMAIN f \cup {i} /\ Set(f, i, v)[i] = v
           /\ \A j \in DOMAIN f : j # i => Set(f, i, v)[j] = f[j]
           /\ Set(f, i, v) # Empty
BY DEF Set, Empty

\* Setting a key keeps the range of a function.
LEMMA SetType ==
    ASSUME NEW f, NEW i, NEW T, NEW v \in T, f \in [DOMAIN f -> T]
    PROVE  Set(f, i, v) \in [DOMAIN f \cup {i} -> T]
BY DEF Set

\* Setting a key keeps the type of a map.
LEMMA SetMap ==
    ASSUME NEW S, NEW T, NEW f \in Maps(S, T), NEW i \in S, NEW v \in T
    PROVE  Set(f, i, v) \in Maps(S, T)
<1>1. Set(f, i, v) \in [DOMAIN f \cup {i} -> T] /\ DOMAIN f \cup {i} \subseteq S
    BY MapFacts, SetType
<1> QED
    BY <1>1, MapOf

\* Removing keys changes none of the others.
LEMMA WithoutFacts ==
    ASSUME NEW f, NEW S
    PROVE  /\ DOMAIN Without(f, S) = DOMAIN f \ S
           /\ \A j \in DOMAIN f \ S : Without(f, S)[j] = f[j]
           /\ \A T : f \in [DOMAIN f -> T] => Without(f, S) \in [DOMAIN f \ S -> T]
BY DEF Without

\* A nonempty set of numbers contains its least element.
LEMMA LeastIn ==
    ASSUME NEW S \in SUBSET Nat, S # {}
    PROVE  Least(S) \in S
<1> DEFINE R == {ss \in Nat \X Nat : ss[1] < ss[2]}
<1>1. IsWellFoundedOn(R, Nat)
    BY NatLessThanWellFounded DEF OpToRel
<1> HIDE DEF R
<1>2. PICK m \in S : \A k \in S : <<k, m>> \notin R
    BY <1>1, WFMin
<1>3. ASSUME NEW k \in S PROVE m <= k
    <2>1. k \in Nat /\ m \in Nat /\ ~(k < m)
        BY <1>2, <<k, m>>[1] = k, <<k, m>>[2] = m DEF R
    <2> QED
        BY <2>1
<1> QED
    BY <1>3 DEF Least

\* A record with a plan of its groups has a campaign for each variant.
LEMMA RecordFacts ==
    ASSUME NEW rec, RecordOK(rec)
    PROVE  /\ rec \in Record
           /\ DOMAIN rec.mapping \subseteq Variants /\ rec.mapping \in [DOMAIN rec.mapping -> CampaignIds]
           /\ DOMAIN rec.split \subseteq Roles /\ rec.split \in [DOMAIN rec.split -> ListIds]
           /\ rec.mapping = Empty => DOMAIN rec.mapping = {}
           /\ rec.mapping # Empty => DOMAIN rec.mapping = Variants
           /\ rec.split = Empty => DOMAIN rec.split = {}
           /\ rec.split # Empty => DOMAIN rec.split = RolesOf(rec) /\ rec.mapping # Empty
           /\ RolesOf(rec) \subseteq Roles /\ RolesOf(rec) \subseteq Nat /\ RolesOf(rec) # {} /\ Variants \subseteq RolesOf(rec)
           /\ rec.config.mode = "holdout" => Holdout \in RolesOf(rec)
<1>1. rec \in Record /\ rec.mapping \in Maps(Variants, CampaignIds) /\ rec.split \in Maps(Roles, ListIds)
    BY DEF RecordOK, Record
<1>2. /\ DOMAIN rec.mapping \subseteq Variants /\ rec.mapping \in [DOMAIN rec.mapping -> CampaignIds]
      /\ DOMAIN rec.split \subseteq Roles /\ rec.split \in [DOMAIN rec.split -> ListIds]
    BY <1>1, MapFacts
<1>3. DOMAIN Empty = {}
    BY EmptyMap
<1> QED
    BY <1>1, <1>2, <1>3, Constants DEF RecordOK, RolesOf

-----------------------------------------------------------------------------
(* What steps do to the records and to Listmonk                            *)

\* Campaigns go or change their status, but none is scheduled or revived.
Ages ==
    /\ DOMAIN campaigns' \subseteq DOMAIN campaigns
    /\ campaigns' \in [DOMAIN campaigns' -> Campaign]
    /\ \A c \in DOMAIN campaigns' :
         LET old == campaigns[c] new == campaigns'[c] IN
         /\ new.test = old.test /\ new.variant = old.variant /\ new.list = old.list
         /\ new.status = "scheduled" => old.status = "scheduled"
         /\ old.status \in Over => new.status = old.status

\* Lists go.
Unlists(S) ==
    /\ DOMAIN lists' = DOMAIN lists \ S
    /\ lists' \in [DOMAIN lists' -> List]
    /\ \A l \in DOMAIN lists' : lists'[l] = lists[l]

\* The lists in S belong to tests that name none yet or have no campaign left.
Spare(S) ==
    \A l \in S \cap DOMAIN lists :
      LET x == lists[l].test IN
      /\ x \in DOMAIN tests
      /\ tests[x].split = Empty \/ \A v \in DOMAIN tests[x].mapping : ~Exists(tests[x].mapping[v])

\* A record is stored again and names what it named.
SameNames(old, new) ==
    /\ new.mapping = old.mapping /\ new.split = old.split
    /\ new.config = old.config /\ new.seed = old.seed
    /\ old.window => new.window

Settles ==
    /\ DOMAIN tests' \subseteq DOMAIN tests
    /\ \A x \in DOMAIN tests' : RecordOK(tests'[x]) /\ SameNames(tests[x], tests'[x]) /\ Quiet(tests'[x])

Passes == DOMAIN clock' = DOMAIN clock /\ audience' \in Nat /\ audience' >= audience

\* Records without new names, campaigns that age and spare lists that go keep the invariants.
LEMMA SettlingKeeps ==
    ASSUME StoredInv, Settles, Ages, NEW S, Unlists(S), Spare(S), created' = created, Passes
    PROVE  StoredInv'
<1>1. ASSUME NEW x \in DOMAIN tests'
      PROVE  TestOK(x)'
    <2> DEFINE old == tests[x]
               new == tests'[x]
    <2>1. x \in DOMAIN tests /\ TestOK(x) /\ RecordOK(new) /\ SameNames(old, new) /\ Quiet(new)
        BY DEF Settles, StoredInv, TestsOK
    <2>2. (RecordOK(tests[x]))'
        BY <2>1 DEF RecordOK
    <2> HIDE DEF old, new
    <2>3. (NamesCampaigns(x, tests[x]))'
        BY <2>1 DEF old, new, TestOK, SameNames, Ages, NamesCampaigns, Exists
    <2>4. (NamesLists(x, tests[x]))'
        BY <2>1 DEF old, new, TestOK, SameNames, Unlists, NamesLists
    <2>5. (Given(tests[x]))'
        BY <2>1 DEF old, new, TestOK, SameNames, Given
    <2>6. (Supplied(tests[x]))'
        <3>1. SUFFICES ASSUME NEW v \in DOMAIN old.mapping, old.mapping[v] \in DOMAIN campaigns', NEW r \in DOMAIN old.split
              PROVE  old.split[r] \in DOMAIN lists'
            BY <2>1 DEF new, SameNames, Supplied, Exists
        <3>2. Exists(old.mapping[v]) /\ old.split[r] \in DOMAIN lists
            BY <2>1, <3>1 DEF TestOK, Supplied, Ages, Exists, old
        <3>3. lists[old.split[r]].test = x /\ old.split # Empty
            BY <2>1, <3>2, EmptyMap DEF TestOK, NamesLists, old
        <3>4. old.split[r] \notin S
            BY <3>2, <3>3 DEF Spare, old
        <3> QED
            BY <3>2, <3>4 DEF Unlists
    <2>7. (SplitOnce(tests[x]))'
        BY <2>1 DEF old, new, TestOK, SameNames, Unlists, SplitOnce
    <2>8. (Quiet(tests[x]))'
        BY <2>1 DEF new, Quiet, Ages, Exists
    <2> QED
        BY <2>2, <2>3, <2>4, <2>5, <2>6, <2>7, <2>8 DEF TestOK
<1>2. TestsOK'
    BY <1>1 DEF StoredInv, TestsOK, Settles, Passes
<1>3. ASSUME NEW c \in DOMAIN campaigns'
      PROVE  /\ campaigns'[c].test \in DOMAIN clock'
             /\ HasWindow(c)'
    BY DEF Ages, StoredInv, CampaignsOK, HasWindow, Settles, SameNames, Passes
<1>4. ASSUME NEW c \in DOMAIN campaigns'
      PROVE  HasList(c)'
    <2> DEFINE x == campaigns[c].test
               l == campaigns[c].list
    <2>1. c \in DOMAIN campaigns /\ HasList(c) /\ campaigns'[c].test = x /\ campaigns'[c].list = l
          /\ campaigns'[c].variant = campaigns[c].variant
        BY DEF Ages, StoredInv, CampaignsOK
    <2>2. ASSUME campaigns[c].variant # Winner, l # BaseLists
          PROVE  /\ l \in DOMAIN lists' /\ lists'[l].test = x
                 /\ x \in DOMAIN tests' =>
                      tests'[x].split # Empty /\ \E v \in DOMAIN tests'[x].mapping : tests'[x].mapping[v] = c
        <3>1. l \in DOMAIN lists /\ lists[l].test = x
            BY <2>1, <2>2 DEF HasList
        <3>2. x \in DOMAIN tests => tests[x].split # Empty /\ \E v \in DOMAIN tests[x].mapping : tests[x].mapping[v] = c
            BY <2>1, <2>2 DEF HasList
        <3>3. l \notin S
            BY <2>1, <3>1, <3>2 DEF Spare, Exists
        <3> QED
            BY <3>1, <3>2, <3>3 DEF Unlists, Settles, SameNames
    <2> QED
        BY <2>1, <2>2 DEF HasList
<1>5. CampaignsOK'
    BY <1>3, <1>4 DEF Ages, StoredInv, CampaignsOK
<1>6. ListsOK'
    <2>1. ASSUME NEW l \in DOMAIN lists'
          PROVE  /\ lists'[l].group \in Groups' /\ lists'[l].test \in DOMAIN clock'
                 /\ lists'[l].test \in DOMAIN tests' => SeededBy(l, tests[lists[l].test])'
        <3>1. l \in DOMAIN lists /\ lists'[l] = lists[l] /\ lists[l].group \in Groups /\ lists[l].test \in DOMAIN clock
            BY DEF Unlists, StoredInv, ListsOK
        <3>2. Groups \subseteq Groups'
            BY DEF Groups, Passes, StoredInv, ListsOK
        <3>3. lists'[l].test \in DOMAIN tests' => SeededBy(l, tests[lists[l].test])'
            BY <3>1 DEF StoredInv, ListsOK, SeededBy, Settles, SameNames
        <3> QED
            BY <3>1, <3>2, <3>3 DEF Passes
    <2> QED
        BY <2>1 DEF Unlists, StoredInv, ListsOK, Passes
<1> QED
    BY <1>2, <1>5, <1>6 DEF StoredInv

Seeded(x, rec) == \A l \in DOMAIN lists : lists[l].test = x => SeededBy(l, rec)

\* The record may be stored for the test x.
Fits(x, rec) ==
    /\ RecordOK(rec) /\ NamesCampaigns(x, rec) /\ NamesLists(x, rec) /\ Given(rec)
    /\ Supplied(rec) /\ SplitOnce(rec) /\ Quiet(rec) /\ Seeded(x, rec)

\* The new record names what the old one named, or the first campaigns or lists.
Extends(old, new) ==
    /\ old.split # Empty => new.split = old.split /\ new.mapping = old.mapping
    /\ old.window => new.window

\* A record that had no lists yet gets its campaigns or its lists, or one gets its seed.
LEMMA RecordingKeeps ==
    ASSUME StoredInv, NEW x \in DOMAIN tests, NEW rec, tests' = Set(tests, x, rec),
           UNCHANGED <<campaigns, lists, created, clock, audience>>, Extends(tests[x], rec), Fits(x, rec)
    PROVE  StoredInv'
<1>0. /\ tests[x].split # Empty => rec.split = tests[x].split /\ rec.mapping = tests[x].mapping
      /\ RecordOK(rec) /\ NamesCampaigns(x, rec) /\ NamesLists(x, rec) /\ Given(rec) /\ Supplied(rec) /\ SplitOnce(rec)
      /\ Quiet(rec) /\ (tests[x].window => rec.window)
      /\ \A l \in DOMAIN lists : lists[l].test = x => SeededBy(l, rec)
    BY DEF Fits, Extends, Seeded
<1>1. DOMAIN tests' = DOMAIN tests /\ tests'[x] = rec /\ \A y \in DOMAIN tests : y # x => tests'[y] = tests[y]
    BY DEF Set
<1>2. ASSUME NEW y \in DOMAIN tests PROVE TestOK(y)'
    <2>1. TestOK(y) /\ (y = x => tests'[y] = rec) /\ (y # x => tests'[y] = tests[y])
        BY <1>1 DEF StoredInv, TestsOK
    <2> QED
        BY <1>0, <2>1 DEF TestOK, NamesCampaigns, NamesLists, Given, Supplied, SplitOnce, Quiet, Exists
<1>3. ASSUME NEW c \in DOMAIN campaigns PROVE HasList(c)' /\ HasWindow(c)'
    <2>1. HasList(c) /\ HasWindow(c)
        BY DEF StoredInv, CampaignsOK
    <2> QED
        BY <1>0, <1>1, <2>1 DEF HasList, HasWindow
<1>4. ASSUME NEW l \in DOMAIN lists, lists[l].test \in DOMAIN tests PROVE SeededBy(l, tests[lists[l].test])'
    <2>1. CASE lists[l].test = x
        BY <1>0, <1>1, <2>1 DEF SeededBy
    <2>2. CASE lists[l].test # x
        <3>1. SeededBy(l, tests[lists[l].test])
            BY <1>4 DEF StoredInv, ListsOK
        <3>2. tests'[lists[l].test] = tests[lists[l].test]
            BY <1>1, <1>4, <2>2
        <3> QED
            BY <3>1, <3>2 DEF SeededBy
    <2> QED
        BY <2>1, <2>2
<1>5. TestsOK'
    BY <1>1, <1>2 DEF StoredInv, TestsOK
<1>6. CampaignsOK'
    BY <1>3 DEF StoredInv, CampaignsOK
<1>7. ListsOK'
    BY <1>1, <1>4 DEF StoredInv, ListsOK, Groups
<1> QED
    BY <1>5, <1>6, <1>7 DEF StoredInv

\* A new test.
LEMMA NewRecordKeeps ==
    ASSUME StoredInv, WorldOK, NEW x \in TestIds \ DOMAIN clock,
           tests' = Set(tests, x, Draft(budget.config)), clock' = Set(clock, x, 0),
           UNCHANGED <<campaigns, lists, created, audience>>
    PROVE  StoredInv'
<1> DEFINE rec == Draft(budget.config)
<1>1. DOMAIN tests' = DOMAIN tests \cup {x} /\ tests'[x] = rec /\ \A y \in DOMAIN tests : y # x => tests'[y] = tests[y]
    BY DEF Set
<1>2. DOMAIN clock' = DOMAIN clock \cup {x} /\ x \notin DOMAIN tests
    BY SetFacts DEF StoredInv, TestsOK
<1>3. /\ rec.mapping = Empty /\ rec.split = Empty /\ rec.pending = TRUE /\ rec.status = "draft"
      /\ rec \in Record
    BY EmptyMap DEF Draft, Record, WorldOK, BudgetOK, TestStatus
<1>4. RecordOK(rec) /\ DOMAIN rec.mapping = {} /\ DOMAIN rec.split = {}
    BY <1>3, EmptyMap DEF RecordOK
<1> HIDE DEF rec
<1>5. TestOK(x)'
    BY <1>1, <1>3, <1>4 DEF TestOK, NamesCampaigns, NamesLists, Given, Supplied, SplitOnce, Quiet
<1>6. ASSUME NEW y \in DOMAIN tests PROVE TestOK(y)'
    <2>1. TestOK(y) /\ tests'[y] = tests[y]
        BY <1>1, <1>2 DEF StoredInv, TestsOK
    <2> QED
        BY <2>1 DEF TestOK, NamesCampaigns, NamesLists, Given, Supplied, SplitOnce, Quiet, Exists
<1>7. ASSUME NEW c \in DOMAIN campaigns PROVE HasList(c)' /\ HasWindow(c)' /\ campaigns[c].test \in DOMAIN clock
    <2>1. HasList(c) /\ HasWindow(c) /\ campaigns[c].test \in DOMAIN clock /\ campaigns[c].test # x
        BY DEF StoredInv, CampaignsOK
    <2> QED
        BY <1>1, <2>1 DEF HasList, HasWindow
<1>8. ASSUME NEW l \in DOMAIN lists PROVE lists[l].test \in DOMAIN clock /\ lists[l].test # x
    BY DEF StoredInv, ListsOK
<1>9. TestsOK'
    BY <1>1, <1>2, <1>5, <1>6 DEF StoredInv, TestsOK
<1>10. CampaignsOK'
    BY <1>2, <1>7 DEF StoredInv, CampaignsOK
<1>11. ListsOK'
    BY <1>1, <1>2, <1>8 DEF StoredInv, ListsOK, Groups, SeededBy
<1> QED
    BY <1>9, <1>10, <1>11 DEF StoredInv

\* A campaign of a test that has its window, and was not stopped, is scheduled.
LEMMA SchedulingKeeps ==
    ASSUME StoredInv, NEW c \in DOMAIN campaigns, campaigns[c].test \in DOMAIN tests,
           tests[campaigns[c].test].window, tests[campaigns[c].test].status # "cancelled",
           SetStatus(c, "scheduled"), UNCHANGED <<tests, lists, created, clock, audience>>
    PROVE  StoredInv'
<1>1. campaigns \in [DOMAIN campaigns -> Campaign]
    BY DEF StoredInv, CampaignsOK
<1>2. PICK s \in CampaignStatus : s = "scheduled"
    BY DEF CampaignStatus
<1>3. campaigns' = [campaigns EXCEPT ![c].status = s]
    BY <1>2 DEF SetStatus
<1>4. campaigns' \in [DOMAIN campaigns -> Campaign] /\ DOMAIN campaigns' = DOMAIN campaigns
    BY <1>1, <1>3 DEF Campaign
<1>5. \A d \in DOMAIN campaigns :
        /\ campaigns'[d].test = campaigns[d].test /\ campaigns'[d].variant = campaigns[d].variant
        /\ campaigns'[d].list = campaigns[d].list /\ (d # c => campaigns'[d].status = campaigns[d].status)
    BY <1>1, <1>3 DEF Campaign
<1>6. ASSUME NEW y \in DOMAIN tests PROVE TestOK(y)'
    <2>1. TestOK(y)
        BY DEF StoredInv, TestsOK
    <2>2. (NamesCampaigns(y, tests[y]))' /\ (Supplied(tests[y]))'
        BY <1>4, <1>5, <2>1 DEF TestOK, NamesCampaigns, Supplied, Exists
    <2>3. (Quiet(tests[y]))'
        BY <1>4, <1>5, <2>1 DEF TestOK, NamesCampaigns, Quiet, Exists
    <2> QED
        BY <2>1, <2>2, <2>3 DEF TestOK, NamesLists, Given, SplitOnce, RecordOK, Record
<1>7. ASSUME NEW d \in DOMAIN campaigns PROVE HasList(d)' /\ HasWindow(d)'
    <2>1. HasList(d) /\ HasWindow(d)
        BY DEF StoredInv, CampaignsOK
    <2>2. HasList(d)'
        BY <1>5, <2>1 DEF HasList
    <2>3. HasWindow(d)'
        BY <1>5, <2>1 DEF HasWindow
    <2> QED
        BY <2>2, <2>3
<1>8. TestsOK' /\ ListsOK'
    BY <1>6 DEF StoredInv, TestsOK, ListsOK, Groups, SeededBy
<1>9. CampaignsOK'
    BY <1>4, <1>5, <1>7 DEF StoredInv, CampaignsOK
<1> QED
    BY <1>8, <1>9 DEF StoredInv

\* A campaign of a test gets one of its lists, all of which are there.
LEMMA ListingKeeps ==
    ASSUME StoredInv, NEW x \in DOMAIN tests, NEW v \in DOMAIN tests[x].mapping, NEW c, c = tests[x].mapping[v],
           Exists(c), NEW r \in DOMAIN tests[x].split, tests[x].split # Empty,
           campaigns' = [campaigns EXCEPT ![c].list = tests[x].split[r]],
           UNCHANGED <<tests, lists, created, clock, audience>>
    PROVE  StoredInv'
<1>1. campaigns \in [DOMAIN campaigns -> Campaign]
    BY DEF StoredInv, CampaignsOK
<1>2. TestOK(x) /\ RecordOK(tests[x])
    BY DEF StoredInv, TestsOK, TestOK
<1>3. PICK l \in ListIds \cup {BaseLists} : l = tests[x].split[r]
    BY <1>2, RecordFacts
<1>4. l \in DOMAIN lists /\ lists[l].test = x /\ campaigns[c].test = x
    BY <1>2, <1>3 DEF TestOK, Supplied, NamesLists, NamesCampaigns
<1>5. campaigns' = [campaigns EXCEPT ![c].list = l]
    BY <1>3
<1>6. campaigns' \in [DOMAIN campaigns -> Campaign] /\ DOMAIN campaigns' = DOMAIN campaigns
    <2>1. [campaigns[c] EXCEPT !.list = l] \in Campaign
        BY <1>1 DEF Campaign, Exists
    <2> QED
        BY <1>1, <1>5, <2>1
<1>7. \A d \in DOMAIN campaigns :
        /\ campaigns'[d].test = campaigns[d].test /\ campaigns'[d].variant = campaigns[d].variant
        /\ campaigns'[d].status = campaigns[d].status /\ (d # c => campaigns'[d].list = campaigns[d].list)
        /\ (d = c => campaigns'[d].list = l)
    BY <1>1, <1>5 DEF Campaign, Exists
<1>8. ASSUME NEW y \in DOMAIN tests PROVE TestOK(y)'
    <2>1. TestOK(y)
        BY DEF StoredInv, TestsOK
    <2>2. (NamesCampaigns(y, tests[y]))' /\ (Supplied(tests[y]))' /\ (Quiet(tests[y]))'
        BY <1>6, <1>7, <2>1 DEF TestOK, NamesCampaigns, Supplied, Quiet, Exists
    <2> QED
        BY <2>1, <2>2 DEF TestOK, NamesLists, Given, SplitOnce, RecordOK, Record
<1>9. ASSUME NEW d \in DOMAIN campaigns PROVE HasList(d)' /\ HasWindow(d)'
    <2>1. HasList(d) /\ HasWindow(d)
        BY DEF StoredInv, CampaignsOK
    <2>2. HasList(d)'
        BY <1>4, <1>7, <2>1 DEF HasList
    <2>3. HasWindow(d)'
        BY <1>7, <2>1 DEF HasWindow
    <2> QED
        BY <2>2, <2>3
<1>10. TestsOK' /\ ListsOK'
    BY <1>8 DEF StoredInv, TestsOK, ListsOK, Groups, SeededBy
<1>11. CampaignsOK'
    BY <1>6, <1>7, <1>9 DEF StoredInv, CampaignsOK
<1> QED
    BY <1>10, <1>11 DEF StoredInv

\* A campaign is created for a variant that has none, or for a winner.
LEMMA NewCampaignKeeps ==
    ASSUME StoredInv, CreatedOK, NEW x \in DOMAIN clock, NEW v \in Variants \cup {Winner}, NEW l \in ListIds \cup {BaseLists},
           CreateCampaign(x, v, l), v = Winner \/ l = BaseLists,
           v # Winner => \A c \in DOMAIN campaigns : campaigns[c].test = x => campaigns[c].variant # v,
           UNCHANGED <<tests, clock, audience>>
    PROVE  /\ StoredInv' /\ CreatedOK'
           /\ created'.campaigns = created.campaigns + 1 /\ created'.lists = created.lists
           /\ LET c == created.campaigns + 1 IN
              /\ c \in CampaignIds /\ c \notin DOMAIN campaigns /\ DOMAIN campaigns' = DOMAIN campaigns \cup {c}
              /\ campaigns'[c].test = x /\ campaigns'[c].variant = v
              /\ \A d \in DOMAIN campaigns : campaigns'[d] = campaigns[d]
<1> DEFINE c == created.campaigns + 1
<1>1. /\ created \in [campaigns : 0 .. MaxCampaigns, lists : 0 .. MaxLists]
      /\ created.campaigns < MaxCampaigns /\ MaxCampaigns \in Nat /\ CampaignIds = 1 .. MaxCampaigns
    BY Constants DEF CreatedOK, CreateCampaign
<1>2. PICK n \in 0 .. MaxCampaigns : n = created.campaigns + 1
    BY <1>1
<1>3. created' = [created EXCEPT !.campaigns = n]
    BY <1>1, <1>2 DEF CreateCampaign
<1>4. CreatedOK' /\ created'.campaigns = c /\ created'.lists = created.lists /\ c \in CampaignIds
    BY <1>1, <1>2, <1>3 DEF CreatedOK
<1>5. campaigns \in [DOMAIN campaigns -> Campaign] /\ DOMAIN campaigns \subseteq 1 .. created.campaigns
    BY DEF StoredInv, CampaignsOK
<1>6. c \notin DOMAIN campaigns
    BY <1>1, <1>5
<1> DEFINE new == [test |-> x, variant |-> v, status |-> "draft", list |-> l]
<1>7. new \in Campaign
    BY DEF Campaign, CampaignStatus, StoredInv, TestsOK
<1>8. campaigns' = Set(campaigns, c, new) /\ lists' = lists
    BY DEF CreateCampaign
<1>9. new.test = x /\ new.variant = v /\ new.list = l /\ new.status = "draft"
    OBVIOUS
<1> HIDE DEF new, c
<1>10. /\ campaigns' \in [DOMAIN campaigns' -> Campaign] /\ DOMAIN campaigns' = DOMAIN campaigns \cup {c}
       /\ campaigns'[c] = new /\ \A d \in DOMAIN campaigns : campaigns'[d] = campaigns[d]
    BY <1>5, <1>6, <1>7, <1>8 DEF Set
<1>11. ASSUME NEW y \in DOMAIN tests PROVE TestOK(y)'
    <2>1. TestOK(y) /\ RecordOK(tests[y])
        BY DEF StoredInv, TestsOK, TestOK
    <2>2. \A w \in DOMAIN tests[y].mapping : tests[y].mapping[w] # c /\ tests[y].mapping[w] <= created'.campaigns
        <3>1. \A w \in DOMAIN tests[y].mapping : tests[y].mapping[w] \in CampaignIds /\ tests[y].mapping[w] <= created.campaigns
            BY <2>1, RecordFacts DEF TestOK, Given
        <3> QED
            BY <1>1, <1>4, <3>1 DEF c
    <2>3. (NamesCampaigns(y, tests[y]))' /\ (Supplied(tests[y]))' /\ (Quiet(tests[y]))'
        BY <1>8, <1>10, <2>1, <2>2 DEF TestOK, NamesCampaigns, Supplied, Quiet, Exists
    <2>4. (Given(tests[y]))'
        BY <1>4, <2>1, <2>2 DEF TestOK, Given
    <2> QED
        BY <1>8, <2>1, <2>3, <2>4 DEF TestOK, NamesLists, SplitOnce, RecordOK, Record
<1>12. ASSUME NEW d \in DOMAIN campaigns' PROVE HasList(d)' /\ HasWindow(d)' /\ campaigns'[d].test \in DOMAIN clock'
    <2>1. CASE d = c
        BY <1>9, <1>10, <2>1 DEF HasList, HasWindow
    <2>2. CASE d # c
        <3>1. d \in DOMAIN campaigns /\ campaigns'[d] = campaigns[d] /\ HasList(d) /\ HasWindow(d) /\ campaigns[d].test \in DOMAIN clock
            BY <1>10, <2>2 DEF StoredInv, CampaignsOK
        <3> QED
            BY <1>8, <3>1 DEF HasList, HasWindow
    <2> QED
        BY <2>1, <2>2
<1>13. ASSUME NEW d \in DOMAIN campaigns', NEW e \in DOMAIN campaigns', campaigns'[d].test = campaigns'[e].test,
              campaigns'[d].variant = campaigns'[e].variant, campaigns'[d].variant # Winner
       PROVE  d = e
    <2>1. CASE d = c \/ e = c
        BY <1>9, <1>10, <1>13, <2>1
    <2>2. CASE d # c /\ e # c
        BY <1>10, <1>13, <2>2 DEF StoredInv, CampaignsOK
    <2> QED
        BY <2>1, <2>2
<1>14. TestsOK' /\ ListsOK'
    BY <1>4, <1>8, <1>11 DEF StoredInv, TestsOK, ListsOK, Groups, SeededBy
<1>15. DOMAIN campaigns' \subseteq 1 .. created'.campaigns
    BY <1>1, <1>4, <1>5, <1>10 DEF c
<1>16. CampaignsOK'
    BY <1>10, <1>12, <1>13, <1>15 DEF CampaignsOK
<1> QED
    BY <1>4, <1>6, <1>9, <1>10, <1>14, <1>16 DEF StoredInv, c

\* A list is created.
LEMMA NewListKeeps ==
    ASSUME StoredInv, CreatedOK, NEW x \in DOMAIN clock, NEW r \in Roles, CreateList(x, r),
           UNCHANGED <<tests, clock, audience>>
    PROVE  /\ StoredInv' /\ CreatedOK' /\ campaigns' = campaigns
           /\ created'.lists = created.lists + 1 /\ created'.campaigns = created.campaigns
           /\ LET l == created.lists + 1 IN
              /\ l \in ListIds /\ l \notin DOMAIN lists /\ DOMAIN lists' = DOMAIN lists \cup {l}
              /\ lists'[l].test = x /\ lists'[l].role = r /\ lists'[l].group = NoGroup
              /\ \A m \in DOMAIN lists : lists'[m] = lists[m]
<1> DEFINE l == created.lists + 1
<1>1. /\ created \in [campaigns : 0 .. MaxCampaigns, lists : 0 .. MaxLists]
      /\ created.lists < MaxLists /\ MaxLists \in Nat /\ ListIds = 1 .. MaxLists
    BY Constants DEF CreatedOK, CreateList
<1>2. PICK n \in 0 .. MaxLists : n = created.lists + 1
    BY <1>1
<1>3. created' = [created EXCEPT !.lists = n]
    BY <1>1, <1>2 DEF CreateList
<1>4. CreatedOK' /\ created'.lists = l /\ created'.campaigns = created.campaigns /\ l \in ListIds
    BY <1>1, <1>2, <1>3 DEF CreatedOK
<1>5. lists \in [DOMAIN lists -> List] /\ DOMAIN lists \subseteq 1 .. created.lists
    BY DEF StoredInv, ListsOK
<1>6. l \notin DOMAIN lists
    BY <1>1, <1>5
<1> DEFINE new == [test |-> x, role |-> r, group |-> NoGroup]
<1>7. new \in List
    BY DEF List, AllGroups, StoredInv, TestsOK
<1>8. lists' = Set(lists, l, new) /\ campaigns' = campaigns
    BY DEF CreateList
<1>9. new.test = x /\ new.role = r /\ new.group = NoGroup
    OBVIOUS
<1> HIDE DEF new, l
<1>10. /\ lists' \in [DOMAIN lists' -> List] /\ DOMAIN lists' = DOMAIN lists \cup {l}
       /\ lists'[l] = new /\ \A m \in DOMAIN lists : lists'[m] = lists[m]
    BY <1>5, <1>6, <1>7, <1>8 DEF Set
<1>11. ASSUME NEW y \in DOMAIN tests PROVE TestOK(y)'
    <2>1. TestOK(y) /\ RecordOK(tests[y])
        BY DEF StoredInv, TestsOK, TestOK
    <2>2. \A s \in DOMAIN tests[y].split : tests[y].split[s] # l /\ tests[y].split[s] <= created'.lists
        <3>1. \A s \in DOMAIN tests[y].split : tests[y].split[s] \in ListIds /\ tests[y].split[s] <= created.lists
            BY <2>1, RecordFacts DEF TestOK, Given
        <3> QED
            BY <1>1, <1>4, <3>1 DEF l
    <2>3. (NamesLists(y, tests[y]))' /\ (SplitOnce(tests[y]))' /\ (Supplied(tests[y]))'
        BY <1>8, <1>10, <2>1, <2>2 DEF TestOK, NamesLists, Supplied, SplitOnce, Exists
    <2>4. (Given(tests[y]))'
        BY <1>4, <2>1, <2>2 DEF TestOK, Given
    <2> QED
        BY <1>8, <2>1, <2>3, <2>4 DEF TestOK, NamesCampaigns, Quiet, RecordOK, Record, Exists
<1>12. ASSUME NEW d \in DOMAIN campaigns PROVE HasList(d)' /\ HasWindow(d)'
    <2>1. HasList(d) /\ HasWindow(d)
        BY DEF StoredInv, CampaignsOK
    <2> QED
        BY <1>8, <1>10, <2>1 DEF HasList, HasWindow
<1>13. ASSUME NEW m \in DOMAIN lists'
       PROVE  /\ lists'[m].group \in Groups' /\ lists'[m].test \in DOMAIN clock'
              /\ lists'[m].test \in DOMAIN tests' => SeededBy(m, tests[lists[m].test])'
    <2>1. CASE m = l
        BY <1>9, <1>10, <2>1 DEF Groups, SeededBy
    <2>2. CASE m # l
        <3>1. m \in DOMAIN lists /\ lists'[m] = lists[m]
            BY <1>10, <2>2
        <3> QED
            BY <3>1 DEF StoredInv, ListsOK, Groups, SeededBy
    <2> QED
        BY <2>1, <2>2
<1>14. DOMAIN lists' \subseteq 1 .. created'.lists
    BY <1>1, <1>4, <1>5, <1>10 DEF l
<1>15. TestsOK' /\ ListsOK'
    BY <1>10, <1>11, <1>13, <1>14 DEF StoredInv, TestsOK, ListsOK
<1>16. CampaignsOK'
    BY <1>4, <1>8, <1>12 DEF StoredInv, CampaignsOK
<1> QED
    BY <1>4, <1>6, <1>8, <1>9, <1>10, <1>15, <1>16 DEF StoredInv, l

DrawnBy(g, rec) == rec.config.mode = "holdout" /\ g # NoGroup => g[1] = rec.seed

\* A list of a test that names none yet gets a group of the test's split.
LEMMA FillingKeeps ==
    ASSUME StoredInv, NEW x \in DOMAIN tests, tests[x].split = Empty, NEW l \in DOMAIN lists, lists[l].test = x,
           NEW g \in Groups, DrawnBy(g, tests[x]),
           lists' = [lists EXCEPT ![l].group = g], UNCHANGED <<tests, campaigns, created, clock, audience>>
    PROVE  /\ StoredInv' /\ DOMAIN lists' = DOMAIN lists
           /\ lists'[l].test = x /\ lists'[l].role = lists[l].role /\ lists'[l].group = g
           /\ \A m \in DOMAIN lists : m # l => lists'[m] = lists[m]
<1>1. lists \in [DOMAIN lists -> List]
    BY DEF StoredInv, ListsOK
<1>2. g \in AllGroups
    BY DEF Groups, AllGroups, StoredInv, ListsOK
<1>3. lists' \in [DOMAIN lists -> List] /\ DOMAIN lists' = DOMAIN lists
    <2>1. [lists[l] EXCEPT !.group = g] \in List
        BY <1>1, <1>2 DEF List
    <2> QED
        BY <1>1, <2>1
<1>4. /\ lists'[l].test = x /\ lists'[l].role = lists[l].role /\ lists'[l].group = g
      /\ \A m \in DOMAIN lists : m # l => lists'[m] = lists[m]
    BY <1>1 DEF List
<1>5. ASSUME NEW y \in DOMAIN tests PROVE TestOK(y)'
    <2>1. TestOK(y)
        BY DEF StoredInv, TestsOK
    <2>2. \A s \in DOMAIN tests[y].split : tests[y].split[s] # l
        BY <2>1, EmptyMap DEF TestOK, NamesLists
    <2>3. (NamesLists(y, tests[y]))' /\ (SplitOnce(tests[y]))' /\ (Supplied(tests[y]))'
        BY <1>3, <1>4, <2>1, <2>2 DEF TestOK, NamesLists, Supplied, SplitOnce, Exists
    <2> QED
        BY <2>1, <2>3 DEF TestOK, NamesCampaigns, Given, Quiet, RecordOK, Record, Exists
<1>6. ASSUME NEW d \in DOMAIN campaigns PROVE HasList(d)' /\ HasWindow(d)'
    <2>1. HasList(d) /\ HasWindow(d)
        BY DEF StoredInv, CampaignsOK
    <2> QED
        BY <1>3, <1>4, <2>1 DEF HasList, HasWindow
<1>7. ASSUME NEW m \in DOMAIN lists'
      PROVE  /\ lists'[m].group \in Groups' /\ lists'[m].test \in DOMAIN clock'
             /\ lists'[m].test \in DOMAIN tests' => SeededBy(m, tests[lists[m].test])'
    <2>1. CASE m = l
        BY <1>4, <2>1 DEF Groups, SeededBy, StoredInv, TestsOK, DrawnBy
    <2>2. CASE m # l
        <3>1. m \in DOMAIN lists /\ lists'[m] = lists[m]
            BY <1>3, <1>4, <2>2
        <3> QED
            BY <3>1 DEF StoredInv, ListsOK, Groups, SeededBy
    <2> QED
        BY <2>1, <2>2
<1>8. TestsOK' /\ ListsOK'
    BY <1>3, <1>5, <1>7 DEF StoredInv, TestsOK, ListsOK
<1>9. CampaignsOK'
    BY <1>6 DEF StoredInv, CampaignsOK
<1> QED
    BY <1>3, <1>4, <1>8, <1>9 DEF StoredInv

-----------------------------------------------------------------------------
(* Processes, budgets and transactions that others leave alone             *)

\* Records are not taken back to an earlier stage.
Keeps(old, new) ==
    /\ new.config = old.config
    /\ old.mapping # Empty => new.mapping # Empty
    /\ old.split # Empty => new.split # Empty
    /\ ~old.pending => ~new.pending
    /\ old.config.mode = "holdout" /\ old.seed # 0 => new.seed # 0
    /\ old.window => new.window

Progress ==
    /\ DOMAIN clock \subseteq DOMAIN clock'
    /\ \A x \in DOMAIN tests' \cap DOMAIN clock : x \in DOMAIN tests /\ Keeps(tests[x], tests'[x])

\* A process is as far as before while the record keeps what that took.
LEMMA ReachedStays ==
    ASSUME NEW a, NEW old, NEW new, Reached(a, old), Keeps(old, new)
    PROVE  Reached(a, new)
BY DEF Reached, Keeps

\* A process stays sound while its test and its clock do.
LEMMA ProcStays ==
    ASSUME NEW a, ProcOK(a), Progress
    PROVE  a = Idle \/ /\ a \in [op : Operations, next : Transactions, test : DOMAIN clock']
                       /\ a.test \in DOMAIN tests' => Reached(a, tests'[a.test])
<1>1. CASE a # Idle
    <2>1. a \in [op : Operations, next : Transactions, test : DOMAIN clock]
        BY <1>1 DEF ProcOK
    <2>2. ASSUME a.test \in DOMAIN tests' PROVE Reached(a, tests'[a.test])
        <3>1. a.test \in DOMAIN tests /\ Keeps(tests[a.test], tests'[a.test])
            BY <2>1, <2>2 DEF Progress
        <3>2. Reached(a, tests[a.test])
            BY <1>1, <3>1 DEF ProcOK
        <3> QED
            BY <3>1, <3>2, ReachedStays
    <2> QED
        BY <2>1, <2>2 DEF Progress
<1> QED
    BY <1>1

\* A process that is done, or has come to a transaction for which everything is recorded.
LEMMA ProcsMove ==
    ASSUME ProcsOK, Progress, NEW p \in Procs, NEW a, at' = [at EXCEPT ![p] = a],
           a = Idle \/ /\ a \in [op : Operations, next : Transactions, test : DOMAIN clock']
                       /\ a.test \in DOMAIN tests' => Reached(a, tests'[a.test])
    PROVE  ProcsOK' /\ at'[p] = a
<1>1. DOMAIN at' = Procs /\ at'[p] = a /\ \A q \in Procs : q # p => at'[q] = at[q]
    BY DEF ProcsOK
<1>2. ASSUME NEW q \in Procs PROVE ProcOK(at[q])'
    <2>1. CASE q = p
        BY <1>1, <2>1 DEF ProcOK
    <2>2. CASE q # p
        <3>1. ProcOK(at[q]) /\ at'[q] = at[q]
            BY <1>1, <2>2 DEF ProcsOK
        <3>2. at[q] = Idle \/ /\ at[q] \in [op : Operations, next : Transactions, test : DOMAIN clock']
                              /\ at[q].test \in DOMAIN tests' => Reached(at[q], tests'[at[q].test])
            BY <3>1, ProcStays
        <3> QED
            BY <3>1, <3>2 DEF ProcOK
    <2> QED
        BY <2>1, <2>2
<1> QED
    BY <1>1, <1>2 DEF ProcsOK

\* Every process stays sound when none moves.
LEMMA ProcsStay ==
    ASSUME ProcsOK, Progress, at' = at
    PROVE  ProcsOK'
<1>1. ASSUME NEW q \in Procs PROVE ProcOK(at[q])'
    <2>1. ProcOK(at[q])
        BY DEF ProcsOK
    <2>2. at[q] = Idle \/ /\ at[q] \in [op : Operations, next : Transactions, test : DOMAIN clock']
                          /\ at[q].test \in DOMAIN tests' => Reached(at[q], tests'[at[q].test])
        BY <2>1, ProcStays
    <2> QED
        BY <2>2 DEF ProcOK
<1> QED
    BY <1>1 DEF ProcsOK

\* A record that does not change loses nothing.
LEMMA KeepsReflexive == ASSUME NEW rec PROVE Keeps(rec, rec)
BY DEF Keeps

\* Records that do not change lose nothing.
LEMMA NoProgressNeeded ==
    ASSUME UNCHANGED tests, DOMAIN clock' = DOMAIN clock, TestsOK
    PROVE  Progress
BY KeepsReflexive DEF Progress

\* A failure only takes from the budget.
LEMMA FailKeeps ==
    ASSUME BudgetOK, NEW n, Fail(n)
    PROVE  BudgetOK'
BY DEF BudgetOK, Fail

\* A request only takes from the budget.
LEMMA SentKeeps ==
    ASSUME BudgetOK, NEW out, Sent(out)
    PROVE  BudgetOK'
BY FailKeeps DEF Sent

\* Without a change in Listmonk nothing ages.
LEMMA UnchangedAges ==
    ASSUME CampaignsOK, UNCHANGED campaigns
    PROVE  Ages
BY DEF Ages, CampaignsOK

\* Campaigns that age do not disturb the transaction under way.
LEMMA TransactionAges ==
    ASSUME Inv, UNCHANGED <<tests, lists, created, tx>>, tx # NoTx => at'[tx.by] = at[tx.by], Ages, Passes
    PROVE  TxOK'
<1> DEFINE a == at[tx.by]
           x == a.test
           rec == tests[x]
<1>1. CASE tx = NoTx
    BY <1>1 DEF TxOK
<1>2. CASE tx # NoTx
    <2>1. /\ tx.by \in Procs /\ a # Idle /\ x \in DOMAIN tests
          /\ TransactionOK(tx, a, rec)
        BY <1>2 DEF Inv, TxOK
    <2> SUFFICES TransactionOK(tx, a, rec)'
        BY <2>1 DEF TxOK
    <2> HIDE DEF a, rec
    <2>2. ASSUME NEW c \in DOMAIN campaigns'
          PROVE  /\ c \in DOMAIN campaigns /\ campaigns'[c].test = campaigns[c].test
                 /\ campaigns'[c].variant = campaigns[c].variant
                 /\ campaigns[c].status \in Over => campaigns'[c].status = campaigns[c].status
        BY DEF Ages
    <2>3. Groups \subseteq Groups'
        BY DEF Groups, Passes, Inv, StoredInv, ListsOK
    <2>4. tx \in Tx
        BY <2>1 DEF TransactionOK
    <2>5. a' = a /\ rec' = rec
        BY <1>2 DEF a, rec
    <2>6. ASSUME tx.step \in Creates PROVE Creating(tx, a, rec)'
        <3>1. Creating(tx, a, rec)
            BY <2>1, <2>6 DEF TransactionOK
        <3> QED
            BY <2>2, <2>5, <3>1 DEF Creating, NamesCampaigns, Given, Exists
    <2>7. ASSUME tx.step \in Splits PROVE Splitting(tx, a, rec)'
        <3>1. Splitting(tx, a, rec)
            BY <2>1, <2>7 DEF TransactionOK
        <3> QED
            BY <2>3, <2>5, <3>1 DEF Splitting, NamesLists, Given
    <2>8. ASSUME tx.step \in Launches PROVE Launching(tx, a, rec)'
        <3>1. Launching(tx, a, rec)
            BY <2>1, <2>8 DEF TransactionOK
        <3> QED
            BY <2>5, <3>1 DEF Launching
    <2>9. ASSUME tx.step \in Stops PROVE Stopping(tx, rec)'
        <3>1. Stopping(tx, rec)
            BY <2>1, <2>9 DEF TransactionOK
        <3>2. "cancelled" \in Over
            BY DEF Over
        <3> QED
            BY <2>2, <2>5, <3>1, <3>2 DEF Stopping, ActedOn, Exists
    <2>10. ASSUME tx.step \in Removes PROVE Removing(tx, rec)'
        <3>1. Removing(tx, rec)
            BY <2>1, <2>10 DEF TransactionOK
        <3> QED
            BY <2>2, <2>5, <3>1 DEF Removing, Exists
    <2>11. ASSUME tx.step \in Deploys PROVE Deploying(tx, rec)'
        <3>1. Deploying(tx, rec)
            BY <2>1, <2>11 DEF TransactionOK
        <3> QED
            BY <2>2, <2>5, <3>1 DEF Deploying, Exists
    <2> QED
        BY <2>1, <2>4, <2>5, <2>6, <2>7, <2>8, <2>9, <2>10, <2>11 DEF TransactionOK
<1> QED
    BY <1>1, <1>2

-----------------------------------------------------------------------------
(* What an action is made of                                               *)

\* A campaign whose status Listmonk changes, unless it schedules it.
LEMMA TransitionAges ==
    ASSUME CampaignsOK, NEW c \in DOMAIN campaigns, NEW s \in CampaignStatus, s # "scheduled",
           campaigns[c].status \notin Over, SetStatus(c, s)
    PROVE  Ages
<1>1. campaigns \in [DOMAIN campaigns -> Campaign]
    BY DEF CampaignsOK
<1>2. [campaigns[c] EXCEPT !.status = s] \in Campaign
    BY <1>1 DEF Campaign
<1>3. campaigns' \in [DOMAIN campaigns -> Campaign] /\ DOMAIN campaigns' = DOMAIN campaigns
    BY <1>1, <1>2 DEF SetStatus
<1>4. \A d \in DOMAIN campaigns :
        /\ campaigns'[d].test = campaigns[d].test /\ campaigns'[d].variant = campaigns[d].variant
        /\ campaigns'[d].list = campaigns[d].list /\ (d # c => campaigns'[d].status = campaigns[d].status)
        /\ (d = c => campaigns'[d].status = s)
    BY <1>1 DEF Campaign, SetStatus
<1> QED
    BY <1>3, <1>4 DEF Ages

\* A campaign ages by a transition Listmonk accepts.
LEMMA AcceptedAges ==
    ASSUME CampaignsOK, NEW c, NEW s, s # "scheduled", Accepts(c, s), SetStatus(c, s)
    PROVE  Ages
<1>1. c \in DOMAIN campaigns /\ campaigns[c].status \in CampaignStatus /\ s \in CAMPAIGN_TRANSITIONS[campaigns[c].status]
    BY DEF Accepts, Exists, CampaignsOK, Campaign
<1>2. campaigns[c].status \notin Over /\ s \in CampaignStatus
    BY <1>1 DEF CAMPAIGN_TRANSITIONS, CampaignStatus, Over
<1> QED
    BY <1>1, <1>2, TransitionAges

\* Removing campaigns leaves the others as they are.
LEMMA RemovalAges ==
    ASSUME CampaignsOK, NEW S, RemoveCampaigns(S)
    PROVE  Ages /\ DOMAIN campaigns' = DOMAIN campaigns \ S
<1>1. /\ DOMAIN campaigns' = DOMAIN campaigns \ S
      /\ \A d \in DOMAIN campaigns' : campaigns'[d] = campaigns[d]
      /\ campaigns' \in [DOMAIN campaigns' -> Campaign]
    BY DEF RemoveCampaigns, Without, CampaignsOK
<1> QED
    BY <1>1 DEF Ages

\* Records that do not change name what they named.
LEMMA UnchangedSettles ==
    ASSUME TestsOK, UNCHANGED tests
    PROVE  Settles
BY DEF TestsOK, TestOK, Settles, SameNames

\* Lists that do not change are all there.
LEMMA UnchangedUnlists ==
    ASSUME ListsOK, UNCHANGED lists
    PROVE  Unlists({}) /\ Spare({})
BY DEF Unlists, ListsOK, Spare

\* Campaigns age and nothing else of what is stored changes.
LEMMA AgingKeeps ==
    ASSUME StoredInv, UNCHANGED <<tests, lists, created>>, Ages, Passes
    PROVE  StoredInv' /\ (ProcsOK => Progress)
<1>1. Settles /\ Unlists({}) /\ Spare({})
    BY UnchangedSettles, UnchangedUnlists DEF StoredInv
<1>2. StoredInv'
    BY <1>1, SettlingKeeps
<1> QED
    BY <1>2, NoProgressNeeded DEF StoredInv, Passes

\* Time does not pass in a step of a process.
LEMMA WorldPasses ==
    ASSUME ListsOK, UNCHANGED world
    PROVE  Passes
BY DEF world, Passes, ListsOK

\* A record is stored again.
LEMMA StoringKeeps ==
    ASSUME StoredInv, NEW x \in DOMAIN tests, NEW rec, tests' = Set(tests, x, rec),
           RecordOK(rec), SameNames(tests[x], rec), Quiet(rec), ~tests[x].pending => ~rec.pending,
           UNCHANGED remote, UNCHANGED world
    PROVE  StoredInv' /\ Progress
<1>1. DOMAIN tests' = DOMAIN tests /\ tests'[x] = rec /\ \A y \in DOMAIN tests : y # x => tests'[y] = tests[y]
    BY DEF Set
<1>2. ASSUME NEW y \in DOMAIN tests'
      PROVE  RecordOK(tests'[y]) /\ SameNames(tests[y], tests'[y]) /\ Quiet(tests'[y])
    BY <1>1 DEF StoredInv, TestsOK, TestOK, SameNames
<1>3. Settles
    BY <1>1, <1>2 DEF Settles
<1>4. Passes /\ Ages /\ Unlists({}) /\ Spare({})
    BY WorldPasses, UnchangedAges, UnchangedUnlists DEF StoredInv, remote
<1>5. StoredInv'
    BY <1>3, <1>4, SettlingKeeps DEF remote
<1>6. Keeps(tests[x], rec)
    BY DEF SameNames, Keeps
<1>7. Progress
    BY <1>1, <1>6, KeepsReflexive DEF Progress, world, StoredInv, TestsOK
<1> QED
    BY <1>5, <1>7

\* Whoever may enter finds no transaction.
LEMMA Unlocked ==
    ASSUME TxOK, ~Locked
    PROVE  tx = NoTx
BY Constants DEF TxOK, Locked

\* Without a transaction nothing is asked of it.
LEMMA NoTxOK == ASSUME tx' = NoTx PROVE TxOK'
BY DEF TxOK

\* What a process in a transaction knows.
LEMMA InFacts ==
    ASSUME Inv, NEW p \in Procs, NEW step, In(p, step)
    PROVE  /\ tx.by = p /\ tx.step = step /\ tx \in Tx /\ tx # NoTx /\ at[p] # Idle
           /\ at[p] \in [op : Operations, next : Transactions, test : DOMAIN clock]
           /\ at[p].test \in DOMAIN tests /\ at[p].test \in DOMAIN clock /\ at[p].test \in TestIds
           /\ TransactionOK(tx, at[p], tests[at[p].test]) /\ Reached(at[p], tests[at[p].test])
           /\ TestOK(at[p].test) /\ RecordOK(tests[at[p].test])
<1>1. tx.by = p /\ tx.step = step
    BY DEF In
<1>2. tx # NoTx
    BY <1>1, Constants DEF NoTx
<1>3. at[p] # Idle /\ at[p].test \in DOMAIN tests /\ TransactionOK(tx, at[p], tests[at[p].test])
    BY <1>1, <1>2 DEF Inv, TxOK
<1>4. ProcOK(at[p])
    BY DEF Inv, ProcsOK
<1> QED
    BY <1>1, <1>2, <1>3, <1>4 DEF TransactionOK, ProcOK, Inv, StoredInv, TestsOK, TestOK

\* A transaction goes on.
LEMMA ContinuingKeeps ==
    ASSUME Inv, NEW p \in Procs, NEW step, In(p, step), NEW t, Continue(t), t.by = p,
           StoredInv', CreatedOK', BudgetOK', TransactionOK(t, at[p], tests[at[p].test])'
    PROVE  Inv'
<1>1. UNCHANGED <<tests, at, clock, operator>> /\ tx' = t
    BY DEF Continue, world
<1>2. ProcsOK'
    BY <1>1, ProcsStay, NoProgressNeeded DEF Inv, StoredInv
<1>3. TxOK'
    BY <1>1, InFacts DEF TxOK
<1> QED
    BY <1>1, <1>2, <1>3 DEF Inv, WorldOK

\* A process gives up, or dies, in its transaction or outside of one.
LEMMA LeavingKeeps ==
    ASSUME Inv, NEW p \in Procs, at' = [at EXCEPT ![p] = Idle], UNCHANGED tests, UNCHANGED world,
           StoredInv', CreatedOK', BudgetOK', TxOK'
    PROVE  Inv'
<1>1. Progress
    BY NoProgressNeeded DEF Inv, StoredInv, world
<1>2. ProcsOK'
    BY <1>1, ProcsMove DEF Inv
<1> QED
    BY <1>2 DEF Inv, WorldOK, world

\* An aborted transaction stores nothing, and its process is idle.
LEMMA AbortKeeps ==
    ASSUME Inv, NEW p \in Procs, Abort(p), StoredInv', CreatedOK', BudgetOK'
    PROVE  Inv'
BY NoTxOK, LeavingKeeps DEF Abort

\* The same when campaigns did nothing but age.
LEMMA AbortAging ==
    ASSUME Inv, NEW p \in Procs, Abort(p), Ages, UNCHANGED <<lists, created>>, BudgetOK'
    PROVE  Inv'
<1>1. Passes /\ UNCHANGED tests
    BY WorldPasses DEF Abort, Inv, StoredInv
<1>2. StoredInv' /\ CreatedOK'
    BY <1>1, AgingKeeps DEF Inv, WorldOK, CreatedOK
<1> QED
    BY <1>2, AbortKeeps

\* An operation that returns without a change keeps everything.
LEMMA ReturnKeeps ==
    ASSUME Inv, NEW p \in Procs, Return(p), ~Locked
    PROVE  Inv'
<1>1. tx' = NoTx /\ UNCHANGED <<tests, campaigns, lists, created, budget>>
    BY Unlocked DEF Return, Inv, remote
<1>2. Passes /\ Ages
    BY <1>1, WorldPasses, UnchangedAges DEF Return, Inv, StoredInv
<1>3. StoredInv'
    BY <1>1, <1>2, AgingKeeps DEF Inv
<1> QED
    BY <1>1, <1>3, NoTxOK, LeavingKeeps DEF Return, Inv, WorldOK, CreatedOK, BudgetOK

\* A process passes on to a transaction for which everything is recorded.
LEMMA PassKeeps ==
    ASSUME Inv, NEW p \in Procs, NEW next \in Transactions, Pass(p, next), ~Locked, at[p].op = "create", Found(p),
           Reached([at[p] EXCEPT !.next = next], tests[at[p].test])
    PROVE  Inv'
<1> DEFINE a == [at[p] EXCEPT !.next = next]
<1>1. tx' = NoTx /\ UNCHANGED <<tests, campaigns, lists, created, budget, clock, operator>>
    BY Unlocked DEF Pass, Inv, remote, world
<1>2. Passes /\ Ages
    BY <1>1, WorldPasses, UnchangedAges DEF Pass, Inv, StoredInv
<1>3. StoredInv'
    BY <1>1, <1>2, AgingKeeps DEF Inv
<1>4. at[p] \in [op : Operations, next : Transactions, test : DOMAIN clock]
    BY DEF Inv, ProcsOK, ProcOK, Idle
<1>5. a \in [op : Operations, next : Transactions, test : DOMAIN clock] /\ a.test = at[p].test
    BY <1>4
<1>6. at' = [at EXCEPT ![p] = a]
    BY <1>4 DEF Pass, Proceed, Transactions, Operations
<1> HIDE DEF a
<1>7. Progress
    BY <1>1, NoProgressNeeded DEF Inv, StoredInv
<1>8. Reached(a, tests'[a.test])
    BY <1>1, <1>5 DEF a
<1>9. ProcsOK'
    BY <1>1, <1>5, <1>6, <1>7, <1>8, ProcsMove DEF Inv
<1> QED
    BY <1>1, <1>3, <1>9, NoTxOK DEF Inv, WorldOK, CreatedOK, BudgetOK

\* A process that ends its transaction moves on; the others stay where they are.
LEMMA MovingKeeps ==
    ASSUME Inv, NEW p \in Procs, NEW a, at' = [at EXCEPT ![p] = a],
           a = Idle \/ /\ a \in [op : Operations, next : Transactions, test : DOMAIN clock']
                       /\ a.test \in DOMAIN tests' => Reached(a, tests'[a.test]),
           Progress, StoredInv', CreatedOK', BudgetOK', operator' = operator, tx' = NoTx
    PROVE  Inv'
BY ProcsMove, NoTxOK DEF Inv, WorldOK

\* Where Proceed leaves a process.
LEMMA ProceedFacts ==
    ASSUME NEW p, at[p] \in [op : Operations, next : Transactions, test : DOMAIN clock], NEW next, Proceed(p, next)
    PROVE  /\ next = "done" => at' = [at EXCEPT ![p] = Idle]
           /\ next \in Transactions =>
                /\ at' = [at EXCEPT ![p] = [at[p] EXCEPT !.next = next]]
                /\ [at[p] EXCEPT !.next = next] \in [op : Operations, next : Transactions, test : DOMAIN clock]
                /\ [at[p] EXCEPT !.next = next].test = at[p].test /\ [at[p] EXCEPT !.next = next].op = at[p].op
                /\ [at[p] EXCEPT !.next = next].next = next
BY DEF Proceed, Transactions, Operations

\* A process between two transactions of an operation on a stored test.
LEMMA ReadyFacts ==
    ASSUME Inv, NEW p \in Procs, NEW op \in Operations, NEW next, Ready(p, op, next), Found(p)
    PROVE  /\ ~Locked /\ tx = NoTx /\ at[p].op = op /\ at[p].next = next
           /\ at[p] \in [op : Operations, next : Transactions, test : DOMAIN clock]
           /\ at[p].test \in DOMAIN tests /\ at[p].test \in DOMAIN clock /\ at[p].test \in TestIds
           /\ Reached(at[p], tests[at[p].test]) /\ TestOK(at[p].test) /\ RecordOK(tests[at[p].test])
           /\ tests[at[p].test].config = Stored(p).config
<1>1. ~Locked /\ at[p].op = op /\ at[p].next = next /\ tx = NoTx /\ at[p].test \in DOMAIN tests
    BY Unlocked DEF Ready, Found, Inv
<1>2. ProcOK(at[p]) /\ at[p] # Idle
    BY <1>1 DEF Inv, ProcsOK, Idle, Operations
<1> QED
    BY <1>1, <1>2 DEF ProcOK, Inv, StoredInv, TestsOK, TestOK, Stored

Opened(p, rec, step, todo) ==
    [by |-> p, step |-> step, rec |-> rec, made |-> {}, todo |-> todo, seen |-> Empty, errors |-> {}, group |-> NoGroup]

\* A transaction stays sound while what it relies on is there.
LEMMA TransactionSame ==
    ASSUME NEW t, NEW a, NEW rec, UNCHANGED <<campaigns, lists, created, audience>>, TransactionOK(t, a, rec)
    PROVE  TransactionOK(t, a, rec)'
<1>1. t.step \in Creates => Creating(t, a, rec)'
    BY DEF TransactionOK, Creating, NamesCampaigns, Given, Exists
<1>2. t.step \in Splits => Splitting(t, a, rec)'
    BY DEF TransactionOK, Splitting, NamesLists, Given, Groups
<1>3. t.step \in Stops => Stopping(t, rec)'
    BY DEF TransactionOK, Stopping, ActedOn, Exists
<1>4. t.step \in Removes => Removing(t, rec)'
    BY DEF TransactionOK, Removing, Exists
<1>5. t.step \in Deploys => Deploying(t, rec)'
    BY DEF TransactionOK, Deploying, Exists
<1> QED
    BY <1>1, <1>2, <1>3, <1>4, <1>5 DEF TransactionOK, Launching

Comes(p, a) == at' = [at EXCEPT ![p] = a] \/ (at' = at /\ at[p] = a)

\* A transaction of a process that is at a, or comes to it, on the test x begins.
LEMMA OpeningKeeps ==
    ASSUME Inv, ~Locked, NEW p \in Procs, NEW step, NEW todo, NEW x \in DOMAIN tests, Locks(p, tests[x], step, todo),
           NEW a \in [op : Operations, next : Transactions, test : DOMAIN clock], a.test = x,
           Comes(p, a), Reached(a, tests[x]),
           TransactionOK(Opened(p, tests[x], step, todo), a, tests[x])
    PROVE  Inv'
<1>1. /\ UNCHANGED <<tests, campaigns, lists, created, clock, audience, operator, budget>>
      /\ tx' = Opened(p, tests[x], step, todo)
    BY DEF Locks, remote, world, Opened
<1>2. Passes /\ Ages /\ Progress
    BY <1>1, UnchangedAges, NoProgressNeeded DEF Passes, Inv, StoredInv, ListsOK
<1>3. StoredInv' /\ WorldOK'
    BY <1>1, <1>2, AgingKeeps DEF Inv, WorldOK, CreatedOK, BudgetOK
<1>4. ProcsOK' /\ at'[p] = a
    BY <1>1, <1>2, ProcsMove, ProcsStay DEF Inv, Comes
<1>5. PICK t : t = Opened(p, tests[x], step, todo)
    OBVIOUS
<1>6. PICK rec : rec = tests[x]
    OBVIOUS
<1>7. TransactionOK(t, a, rec)
    BY <1>5, <1>6
<1>8. TransactionOK(t, a, rec)'
    BY <1>1, <1>7, TransactionSame
<1>9. t.by = p
    BY <1>5 DEF Opened
<1>10. a # Idle
    BY DEF Idle, Operations
<1>11. TxOK'
    BY <1>1, <1>4, <1>5, <1>6, <1>8, <1>9, <1>10 DEF TxOK
<1> QED
    BY <1>3, <1>4, <1>11 DEF Inv

-----------------------------------------------------------------------------
(* Listmonk, its operators and crashes                                     *)

LEMMA WorldKeeps ==
    ASSUME Inv, UNCHANGED <<tests, lists, created, at, tx>>, Ages, Passes, operator'.target # "scheduled", BudgetOK'
    PROVE  Inv'
<1>1. StoredInv' /\ CreatedOK'
    BY AgingKeeps DEF Inv, WorldOK, CreatedOK
<1>2. ProcsOK'
    BY ProcsStay, NoProgressNeeded DEF Inv, StoredInv, Passes
<1>3. TxOK'
    BY TransactionAges
<1> QED
    BY <1>1, <1>2, <1>3 DEF Inv, WorldOK

\* Time passes for a test.
LEMMA TickKeeps ==
    ASSUME Inv, NEW x, Tick(x)
    PROVE  Inv'
<1>1. DOMAIN clock' = DOMAIN clock /\ UNCHANGED <<tests, campaigns, lists, created, at, tx, audience, operator, budget>>
    BY DEF Tick, remote
<1>2. Passes /\ Ages /\ operator'.target # "scheduled" /\ BudgetOK'
    BY <1>1, UnchangedAges DEF Passes, Inv, StoredInv, ListsOK, WorldOK, BudgetOK
<1> QED
    BY <1>1, <1>2, WorldKeeps

\* A scheduled campaign starts.
LEMMA FireKeeps ==
    ASSUME Inv, NEW c \in DOMAIN campaigns, Fire(c) \/ Finish(c)
    PROVE  Inv'
<1>1. UNCHANGED <<tests, lists, created, at, tx, budget>> /\ UNCHANGED world
    BY DEF Fire, Finish
<1>2. PICK s \in {"running", "finished"} : SetStatus(c, s) /\ campaigns[c].status \notin Over
    BY DEF Fire, Finish, Over
<1>3. Ages
    BY <1>2, TransitionAges DEF Inv, StoredInv, CampaignStatus
<1>4. Passes /\ operator'.target # "scheduled" /\ BudgetOK'
    BY <1>1, WorldPasses DEF Inv, StoredInv, WorldOK, BudgetOK, world
<1> QED
    BY <1>1, <1>3, <1>4, WorldKeeps

\* The audience changes.
LEMMA SubscribeKeeps ==
    ASSUME Inv, Subscribe
    PROVE  Inv'
<1>1. UNCHANGED <<tests, campaigns, lists, created, at, tx, clock, operator>> /\ audience' = audience + 1
      /\ budget' = [budget EXCEPT !.changes = @ - 1]
    BY DEF Subscribe, remote
<1>2. Passes /\ Ages /\ operator'.target # "scheduled" /\ BudgetOK'
    BY <1>1, UnchangedAges DEF Passes, Inv, StoredInv, ListsOK, WorldOK, BudgetOK
<1> QED
    BY <1>1, <1>2, WorldKeeps

\* An operator reads the status of a campaign.
LEMMA ReadForTransitionKeeps ==
    ASSUME Inv, NEW c, NEW target \in {"running", "paused", "cancelled"}, ReadForTransition(c, target)
    PROVE  Inv'
<1>1. UNCHANGED <<tests, campaigns, lists, created, at, tx, clock, audience>>
      /\ operator' = [campaign |-> c, target |-> target] /\ budget' = [budget EXCEPT !.interventions = @ - 1]
    BY DEF ReadForTransition, remote
<1>2. Passes /\ Ages /\ operator'.target # "scheduled" /\ BudgetOK'
    BY <1>1, UnchangedAges DEF Passes, Inv, StoredInv, ListsOK, WorldOK, BudgetOK
<1> QED
    BY <1>1, <1>2, WorldKeeps

\* The status that was read may have changed; Listmonk refuses what is not a transition.
LEMMA WriteTransitionKeeps ==
    ASSUME Inv, WriteTransition
    PROVE  Inv'
<1> DEFINE c == operator.campaign
<1>1. UNCHANGED <<tests, lists, created, at, tx, clock, audience, budget>> /\ operator' = [campaign |-> 0, target |-> "none"]
      /\ IF Accepts(c, operator.target) THEN SetStatus(c, operator.target) ELSE UNCHANGED campaigns
    BY DEF WriteTransition
<1>2. Ages
    BY <1>1, AcceptedAges, UnchangedAges DEF Inv, StoredInv, WorldOK
<1>3. Passes /\ operator'.target # "scheduled" /\ BudgetOK'
    BY <1>1 DEF Passes, Inv, StoredInv, ListsOK, WorldOK, BudgetOK
<1> QED
    BY <1>1, <1>2, <1>3, WorldKeeps

\* A process dies, with its transaction.
LEMMA CrashKeeps ==
    ASSUME Inv, NEW p \in Procs, Crash(p)
    PROVE  Inv'
<1>1. UNCHANGED <<tests, campaigns, lists, created>> /\ UNCHANGED world /\ at' = [at EXCEPT ![p] = Idle] /\ Fail(1)
      /\ tx' = IF tx.by = p THEN NoTx ELSE tx
    BY DEF Crash, remote
<1>2. Passes /\ Ages
    BY <1>1, WorldPasses, UnchangedAges DEF Inv, StoredInv
<1>3. StoredInv' /\ CreatedOK' /\ BudgetOK'
    BY <1>1, <1>2, AgingKeeps, FailKeeps DEF Inv, WorldOK, CreatedOK
<1>4. TxOK'
    <2>1. CASE tx.by = p
        BY <1>1, <2>1, NoTxOK
    <2>2. CASE tx.by # p
        <3>1. tx' = tx /\ (tx # NoTx => at'[tx.by] = at[tx.by])
            BY <1>1, <2>2 DEF Inv, TxOK, ProcsOK
        <3> QED
            BY <1>1, <1>2, <3>1, TransactionAges
    <2> QED
        BY <2>1, <2>2
<1> QED
    BY <1>1, <1>3, <1>4, LeavingKeeps

-----------------------------------------------------------------------------
(* Creation: the intent and the campaigns                                  *)

LEMMA RecordCreateIntentKeeps ==
    ASSUME Inv, NEW p \in Procs, NEW x \in TestIds, RecordCreateIntent(p, x)
    PROVE  Inv'
<1> DEFINE a == [op |-> "create", next |-> "campaigns", test |-> x]
<1>1. /\ at' = [at EXCEPT ![p] = a] /\ tx' = NoTx
      /\ UNCHANGED <<campaigns, lists, created, audience, operator, budget>>
    BY Unlocked DEF RecordCreateIntent, Inv, remote
<1>2. \A rec : Reached(a, rec)
    BY DEF Reached
<1>3. CASE x \notin DOMAIN clock /\ tests' = Set(tests, x, Draft(budget.config)) /\ clock' = Set(clock, x, 0)
    <2>1. StoredInv'
        BY <1>1, <1>3, NewRecordKeeps DEF Inv
    <2>2. DOMAIN clock' = DOMAIN clock \cup {x} /\ DOMAIN tests' = DOMAIN tests \cup {x}
          /\ \A y \in DOMAIN tests : y # x => tests'[y] = tests[y]
        BY <1>3 DEF Set
    <2>3. Progress
        BY <1>3, <2>2, KeepsReflexive DEF Progress
    <2>4. a \in [op : Operations, next : Transactions, test : DOMAIN clock']
        BY <2>2 DEF Operations, Transactions
    <2> QED
        BY <1>1, <1>2, <2>1, <2>3, <2>4, MovingKeeps DEF Inv, WorldOK, CreatedOK, BudgetOK
<1>4. CASE x \in DOMAIN tests /\ UNCHANGED <<tests, clock>>
    <2>1. Passes /\ Ages /\ Progress
        BY <1>1, <1>4, UnchangedAges, NoProgressNeeded DEF Passes, Inv, StoredInv, ListsOK
    <2>2. StoredInv'
        BY <1>1, <1>4, <2>1, AgingKeeps DEF Inv
    <2>3. a \in [op : Operations, next : Transactions, test : DOMAIN clock']
        BY <1>4 DEF Operations, Transactions, Inv, StoredInv, TestsOK
    <2> QED
        BY <1>1, <1>2, <2>1, <2>2, <2>3, MovingKeeps DEF Inv, WorldOK, CreatedOK, BudgetOK
<1> QED
    BY <1>3, <1>4 DEF RecordCreateIntent

\* provisionTest begins with what the record lacks.
LEMMA BeginCampaignsKeeps ==
    ASSUME Inv, NEW p \in Procs, BeginCampaigns(p)
    PROVE  Inv'
<1> DEFINE x == at[p].test
           rec == tests[x]
<1>1. Ready(p, "create", "campaigns") /\ Found(p) /\ Stored(p) = rec /\ "create" \in Operations
    BY DEF BeginCampaigns, Stored, Operations
<1>2. /\ ~Locked /\ at[p].op = "create" /\ at[p].next = "campaigns" /\ x \in DOMAIN tests
      /\ at[p] \in [op : Operations, next : Transactions, test : DOMAIN clock]
      /\ Reached(at[p], rec) /\ RecordOK(rec)
    BY <1>1, ReadyFacts
<1>3. CASE rec.pending /\ rec.mapping = Empty
    <2>1. Locks(p, rec, "tagged", {}) /\ UNCHANGED at
        BY <1>1, <1>3 DEF BeginCampaigns, Open
    <2>2. rec \in Record
        BY <1>2 DEF RecordOK
    <2> HIDE DEF rec
    <2>0. PICK t : t = Opened(p, rec, "tagged", {})
        OBVIOUS
    <2>3. t \in Tx /\ t.step = "tagged" /\ t.rec = rec
        BY <2>0, <2>2, EmptyMap DEF Opened, Tx, Creates, AllGroups
    <2>4. t.rec = [rec EXCEPT !.mapping = t.rec.mapping]
        BY <2>2, <2>3 DEF Record
    <2>5. TransactionOK(t, at[p], rec)
        BY <1>2, <1>3, <2>3, <2>4 DEF TransactionOK, Creating, Creates, Splits, Launches, Stops, Removes, Deploys
    <2> QED
        BY <1>2, <2>0, <2>1, <2>5, OpeningKeeps DEF rec, Comes
<1>4. CASE ~(rec.pending /\ rec.mapping = Empty)
    <2>1. PICK next \in {"seed", "finalize"} : Pass(p, next) /\ next = IF rec.pending THEN "seed" ELSE "finalize"
        BY <1>1, <1>4 DEF BeginCampaigns
    <2>2. Reached([at[p] EXCEPT !.next = next], rec)
        BY <1>2, <1>4, <2>1 DEF Reached, RecordOK
    <2> QED
        BY <1>1, <1>2, <2>1, <2>2, PassKeeps DEF Transactions
<1> QED
    BY <1>3, <1>4

\* What is adopted are the campaigns of the test, one for each variant it has any of.
LEMMA ReconciledFacts ==
    ASSUME StoredInv, CreatedOK, NEW x
    PROVE  /\ Reconciled(x) \in Maps(Variants, CampaignIds)
           /\ NamesCampaigns(x, [mapping |-> Reconciled(x)])
           /\ \A v \in DOMAIN Reconciled(x) : Reconciled(x)[v] <= created.campaigns
           /\ \A c \in DOMAIN campaigns : campaigns[c].test = x => campaigns[c].variant \notin Missing(x)
           /\ Missing(x) \subseteq Variants /\ DOMAIN Reconciled(x) = Variants \ Missing(x)
<1> DEFINE m == Reconciled(x)
           D == {w \in Variants : Tagged(x, w) # {}}
<1>1. created.campaigns \in 0 .. MaxCampaigns /\ MaxCampaigns \in Nat /\ CampaignIds = 1 .. MaxCampaigns
      /\ DOMAIN campaigns \subseteq 1 .. created.campaigns
    BY Constants DEF CreatedOK, StoredInv, CampaignsOK
<1>2. ASSUME NEW v \in D PROVE Least(Tagged(x, v)) \in Tagged(x, v)
    <2>1. Tagged(x, v) \subseteq Nat /\ Tagged(x, v) # {}
        BY <1>1 DEF Tagged
    <2> QED
        BY <2>1, LeastIn
<1>3. m = [v \in D |-> Least(Tagged(x, v))]
    BY DEF Reconciled
<1>4. DOMAIN m = D /\ \A v \in D : m[v] \in Tagged(x, v)
    BY <1>2, <1>3
<1> HIDE DEF m
<1>5. \A v \in D : m[v] \in DOMAIN campaigns /\ campaigns[m[v]].test = x /\ campaigns[m[v]].variant = v
    BY <1>4 DEF Tagged
<1>6. \A v \in D : m[v] \in CampaignIds /\ m[v] <= created.campaigns
    BY <1>1, <1>5
<1>7. m \in [D -> CampaignIds] /\ D \subseteq Variants
    BY <1>3, <1>4, <1>6
<1>8. m \in Maps(Variants, CampaignIds)
    BY <1>7, MapOf
<1>9. \A c \in DOMAIN campaigns : campaigns[c].test = x => campaigns[c].variant \notin Missing(x)
    BY <1>4 DEF Missing, Tagged, m
<1> QED
    BY <1>4, <1>5, <1>6, <1>8, <1>9 DEF NamesCampaigns, m, Missing

\* A transaction that goes on without a change in Listmonk.
LEMMA LearningKeeps ==
    ASSUME Inv, NEW p \in Procs, NEW step, In(p, step), NEW t, Continue(t), t.by = p, UNCHANGED <<campaigns, lists, created>>,
           BudgetOK', TransactionOK(t, at[p], tests[at[p].test])
    PROVE  Inv'
<1>1. UNCHANGED <<tests, at, clock, audience, operator>> /\ tx' = t
    BY DEF Continue, world
<1>2. StoredInv' /\ CreatedOK'
    BY <1>1, AgingKeeps, UnchangedAges DEF Passes, Inv, StoredInv, ListsOK, WorldOK, CreatedOK
<1>3. PICK a, rec : a = at[p] /\ rec = tests[at[p].test]
    OBVIOUS
<1>4. TransactionOK(t, a, rec)'
    BY <1>1, <1>3, TransactionSame
<1>5. TransactionOK(t, at[p], tests[at[p].test])'
    BY <1>1, <1>3, <1>4
<1> QED
    BY <1>2, <1>5, ContinuingKeeps

\* The lookup by tags: what is missing has no campaign.
LEMMA FindCampaignsKeeps ==
    ASSUME Inv, NEW p \in Procs, NEW out, FindCampaigns(p, out)
    PROVE  Inv'
<1> DEFINE x == at[p].test
           rec == tests[x]
           m == Reconciled(x)
           found == out = "ok" /\ \A v \in Variants : Cardinality(Tagged(x, v)) <= 1
<1>1. In(p, "tagged") /\ Sent(out) /\ UNCHANGED <<campaigns, lists, created>>
    BY DEF FindCampaigns, remote
<1>2. /\ tx.by = p /\ tx.step = "tagged" /\ tx \in Tx /\ at[p] # Idle
      /\ at[p] \in [op : Operations, next : Transactions, test : DOMAIN clock]
      /\ TransactionOK(tx, at[p], rec) /\ RecordOK(rec) /\ x \in DOMAIN tests
    BY <1>1, InFacts
<1>3. BudgetOK'
    BY <1>1, SentKeeps DEF Inv, WorldOK
<1>4. CASE found
    <2>1. PICK t : t = [tx EXCEPT !.step = "campaigns", !.rec.mapping = m, !.todo = Missing(x)]
        OBVIOUS
    <2>2. Continue(t)
        BY <1>4, <2>1 DEF FindCampaigns
    <2>4. /\ m \in Maps(Variants, CampaignIds)
          /\ NamesCampaigns(x, [mapping |-> m])
          /\ \A v \in DOMAIN m : m[v] <= created.campaigns
          /\ \A c \in DOMAIN campaigns : campaigns[c].test = x => campaigns[c].variant \notin Missing(x)
          /\ Missing(x) \subseteq Variants /\ DOMAIN m = Variants \ Missing(x)
        BY ReconciledFacts DEF Inv, WorldOK
    <2>5. Creating(tx, at[p], rec) /\ tx.rec \in Record
        BY <1>2 DEF TransactionOK, Creates, Tx
    <2>6. /\ [tx.rec EXCEPT !.mapping = m] \in Record
          /\ [tx.rec EXCEPT !.mapping = m] = [rec EXCEPT !.mapping = m]
          /\ [tx.rec EXCEPT !.mapping = m].mapping = m /\ [tx.rec EXCEPT !.mapping = m].split = rec.split
        BY <1>2, <2>4, <2>5 DEF Record, Creating, RecordOK
    <2>7. Variants \subseteq Nat
        BY Constants
    <2>8. /\ t \in Tx /\ t.by = p /\ t.step = "campaigns" /\ t.rec = [tx.rec EXCEPT !.mapping = m]
          /\ t.todo = Missing(x)
        BY <1>2, <2>1, <2>4, <2>6, <2>7 DEF Tx, Creates
    <2>9. rec.split = Empty /\ DOMAIN rec.split = {}
        BY <1>2, <2>5, RecordFacts DEF RecordOK, Creating
    <2> HIDE DEF m, rec
    <2>10. Creating(t, at[p], rec)
        BY <2>4, <2>5, <2>6, <2>8, <2>9 DEF Creating, NamesCampaigns, Given
    <2>11. TransactionOK(t, at[p], rec)
        BY <2>8, <2>10 DEF TransactionOK, Creates, Splits, Launches, Stops, Removes, Deploys
    <2> QED
        BY <1>1, <1>3, <2>2, <2>8, <2>11, LearningKeeps DEF rec
<1>5. CASE ~found
    <2>1. Abort(p)
        BY <1>5 DEF FindCampaigns
    <2> QED
        BY <1>1, <1>3, <2>1, AbortAging, UnchangedAges DEF Inv, StoredInv
<1> QED
    BY <1>4, <1>5

\* A campaign whose answer is lost stays; nobody creates for its variant again in this transaction.
LEMMA CreateVariantCampaignKeeps ==
    ASSUME Inv, NEW p \in Procs, NEW out, CreateVariantCampaign(p, out)
    PROVE  Inv'
<1> DEFINE x == at[p].test
           rec == tests[x]
           c == created.campaigns + 1
<1>0. PICK v : v = Least(tx.todo)
    OBVIOUS
<1>1. In(p, "campaigns") /\ Sent(out) /\ tx.todo # {}
      /\ IF Done(out) THEN CreateCampaign(x, v, BaseLists) ELSE UNCHANGED remote
    BY <1>0 DEF CreateVariantCampaign
<1>2. /\ tx.by = p /\ tx.step = "campaigns" /\ tx \in Tx /\ at[p] # Idle
      /\ at[p] \in [op : Operations, next : Transactions, test : DOMAIN clock]
      /\ TransactionOK(tx, at[p], rec) /\ RecordOK(rec) /\ x \in DOMAIN tests /\ x \in DOMAIN clock
    BY <1>1, InFacts
<1>3. BudgetOK'
    BY <1>1, SentKeeps DEF Inv, WorldOK
<1>4. Creating(tx, at[p], rec) /\ tx.rec \in Record /\ tx.made \subseteq Nat /\ tx.todo \subseteq Variants
    BY <1>2 DEF TransactionOK, Creating, Creates, Tx
<1>5. v \in tx.todo /\ v \in Variants /\ v # Winner
    BY <1>0, <1>1, <1>4, LeastIn, Constants
<1>6. PICK t : Continue(t) /\ t = IF out = "ok" THEN [tx EXCEPT !.made = @ \cup {c}, !.todo = @ \ {v}, !.rec.mapping = Set(@, v, c)]
                                                ELSE [tx EXCEPT !.step = "undo"]
    BY <1>0 DEF CreateVariantCampaign, Repeated
<1>7. UNCHANGED <<tests, clock, audience, operator, at>> /\ tx' = t
    BY <1>6 DEF Continue, world
<1>8. created.campaigns \in Nat
    BY Constants DEF Inv, WorldOK, CreatedOK
<1>9. CASE Done(out)
    <2>1. CreateCampaign(x, v, BaseLists) /\ lists' = lists
        BY <1>1, <1>9 DEF CreateCampaign
    <2>2. \A d \in DOMAIN campaigns : campaigns[d].test = x => campaigns[d].variant # v
        BY <1>2, <1>4, <1>5 DEF Creating
    <2>3. /\ StoredInv' /\ CreatedOK' /\ c \in CampaignIds /\ c \notin DOMAIN campaigns
          /\ created'.campaigns = c /\ created'.lists = created.lists
          /\ DOMAIN campaigns' = DOMAIN campaigns \cup {c}
          /\ campaigns'[c].test = x /\ campaigns'[c].variant = v
          /\ \A d \in DOMAIN campaigns : campaigns'[d] = campaigns[d]
        BY <1>2, <1>5, <1>7, <2>1, <2>2, NewCampaignKeeps DEF Inv, WorldOK
    <2>4. TransactionOK(t, at[p], rec)'
        <3>1. CASE out = "ok"
            <4> DEFINE m == Set(tx.rec.mapping, v, c)
            <4>1. m \in Maps(Variants, CampaignIds)
                BY <1>4, <1>5, <2>3, SetMap DEF Record
            <4>2. DOMAIN m = DOMAIN tx.rec.mapping \cup {v} /\ m[v] = c
                  /\ \A w \in DOMAIN tx.rec.mapping : w # v => m[w] = tx.rec.mapping[w]
                BY DEF Set
            <4> HIDE DEF m
            <4>3. /\ [tx.rec EXCEPT !.mapping = m] \in Record
                  /\ [tx.rec EXCEPT !.mapping = m] = [rec EXCEPT !.mapping = m]
                  /\ [tx.rec EXCEPT !.mapping = m].mapping = m /\ [tx.rec EXCEPT !.mapping = m].split = tx.rec.split
                BY <1>2, <1>4, <4>1 DEF Record, Creating, RecordOK
            <4>4. tx.made \cup {c} \subseteq Nat /\ tx.todo \ {v} \subseteq Nat
                BY <1>2, <1>4, <1>8 DEF Tx
            <4>5. t = [tx EXCEPT !.made = tx.made \cup {c}, !.todo = tx.todo \ {v}, !.rec = [tx.rec EXCEPT !.mapping = m]]
                BY <1>2, <1>6, <3>1 DEF m, Tx
            <4>6. /\ t \in Tx /\ t.step = "campaigns" /\ t.rec = [tx.rec EXCEPT !.mapping = m] /\ t.todo = tx.todo \ {v}
                BY <1>2, <4>3, <4>4, <4>5 DEF Tx
            <4> HIDE DEF c
            <4>7. ASSUME NEW w \in DOMAIN m
                  PROVE  /\ m[w] \in DOMAIN campaigns' => campaigns'[m[w]].test = x /\ campaigns'[m[w]].variant = w
                         /\ m[w] <= created'.campaigns
                <5>1. CASE w = v
                    BY <2>3, <4>2, <5>1, <1>8 DEF c
                <5>2. CASE w # v
                    <6>1. w \in DOMAIN tx.rec.mapping /\ m[w] = tx.rec.mapping[w] /\ m[w] <= created.campaigns /\ m[w] \in Nat
                          /\ (m[w] \in DOMAIN campaigns => campaigns[m[w]].test = x /\ campaigns[m[w]].variant = w)
                        <7>1. tx.rec.mapping \in [DOMAIN tx.rec.mapping -> CampaignIds] /\ CampaignIds \subseteq Nat
                            BY <1>4, MapFacts, Constants DEF Record
                        <7> QED
                            BY <1>2, <1>4, <4>2, <5>2, <7>1 DEF Creating, NamesCampaigns, Given, Exists
                    <6> QED
                        BY <1>8, <2>3, <6>1 DEF c
                <5> QED
                    BY <5>1, <5>2
            <4>8. t.rec.mapping = m /\ t.rec.split = tx.rec.split
                BY <4>3, <4>6
            <4>9. NamesCampaigns(x, t.rec)'
                BY <1>7, <4>7, <4>8 DEF NamesCampaigns, Exists
            <4>10. Given(t.rec)'
                BY <1>2, <1>4, <2>3, <4>7, <4>8 DEF Given, Creating
            <4>11. \A d \in DOMAIN campaigns' : campaigns'[d].test = x => campaigns'[d].variant \notin t.todo
                BY <1>2, <1>4, <2>3, <4>6 DEF Creating
            <4>12. /\ t.todo \subseteq Variants /\ DOMAIN t.rec.mapping = Variants \ t.todo
                   /\ t.rec = [rec EXCEPT !.mapping = t.rec.mapping]
                BY <1>2, <1>4, <1>5, <4>2, <4>3, <4>6, <4>8 DEF Creating
            <4>13. Creating(t, at[p], rec)'
                BY <1>4, <1>7, <4>6, <4>9, <4>10, <4>11, <4>12 DEF Creating
            <4> QED
                BY <4>6, <4>13 DEF TransactionOK, Creates, Splits, Launches, Stops, Removes, Deploys
        <3>2. CASE out # "ok"
            <4>1. t = [tx EXCEPT !.step = "undo"]
                BY <1>6, <3>2
            <4>2. t \in Tx /\ t.step = "undo" /\ t.rec = tx.rec
                BY <1>2, <4>1 DEF Tx, Creates
            <4>3. Creating(t, at[p], rec)'
                BY <1>4, <1>7, <4>2 DEF Creating
            <4> QED
                BY <4>2, <4>3 DEF TransactionOK, Creates, Splits, Launches, Stops, Removes, Deploys
        <3> QED
            BY <3>1, <3>2
    <2>5. t.by = p
        BY <1>2, <1>6 DEF Tx
    <2> QED
        BY <1>1, <1>3, <1>6, <2>3, <2>4, <2>5, ContinuingKeeps
<1>10. CASE ~Done(out)
    <2>1. t = [tx EXCEPT !.step = "undo"] /\ UNCHANGED <<campaigns, lists, created>>
        BY <1>1, <1>6, <1>10 DEF Done, remote
    <2>2. t \in Tx /\ t.step = "undo" /\ t.rec = tx.rec /\ t.by = p
        BY <1>2, <2>1 DEF Tx, Creates
    <2>3. Creating(t, at[p], rec)
        BY <1>4, <2>2 DEF Creating
    <2>4. TransactionOK(t, at[p], rec)
        BY <2>2, <2>3 DEF TransactionOK, Creates, Splits, Launches, Stops, Removes, Deploys
    <2> QED
        BY <1>1, <1>3, <1>6, <2>1, <2>2, <2>4, LearningKeeps
<1> QED
    BY <1>9, <1>10

\* The campaigns made in a transaction that failed are deleted.
LEMMA UndoCampaignsKeeps ==
    ASSUME Inv, NEW p \in Procs, UndoCampaigns(p)
    PROVE  Inv'
<1>1. PICK gone : RemoveCampaigns(gone) /\ Fail(Cardinality({c \in tx.made : Deletable(c)} \ gone))
    BY DEF UndoCampaigns
<1>2. Abort(p) /\ UNCHANGED <<lists, created>>
    BY DEF UndoCampaigns
<1>3. Ages
    BY <1>1, RemovalAges DEF Inv, StoredInv
<1>4. BudgetOK'
    BY <1>1, FailKeeps DEF Inv, WorldOK
<1> QED
    BY <1>2, <1>3, <1>4, AbortAging

\* A commit, or a transaction without requests, by a process that moves on to next.
LEMMA CommittingKeeps ==
    ASSUME Inv, NEW p \in Procs, at[p] \in [op : Operations, next : Transactions, test : DOMAIN clock],
           at[p].test \in DOMAIN tests, NEW rec, NEW next \in Transactions \cup {"done"},
           tests' = Set(tests, at[p].test, rec), Proceed(p, next), tx' = NoTx,
           UNCHANGED budget, UNCHANGED remote, UNCHANGED world,
           StoredInv', Keeps(tests[at[p].test], rec),
           next # "done" => Reached([at[p] EXCEPT !.next = next], rec)
    PROVE  Inv'
<1> DEFINE x == at[p].test
           a == IF next = "done" THEN Idle ELSE [at[p] EXCEPT !.next = next]
<1>1. DOMAIN tests' = DOMAIN tests /\ tests'[x] = rec /\ \A y \in DOMAIN tests : y # x => tests'[y] = tests[y]
    BY DEF Set
<1>2. Progress
    BY <1>1, KeepsReflexive DEF Progress, world, Inv, StoredInv, TestsOK
<1>3. at' = [at EXCEPT ![p] = a]
    BY ProceedFacts
<1>4. a = Idle \/ /\ a \in [op : Operations, next : Transactions, test : DOMAIN clock]
                  /\ a.test = x /\ Reached(a, rec)
    BY ProceedFacts
<1> HIDE DEF a
<1>5. a = Idle \/ /\ a \in [op : Operations, next : Transactions, test : DOMAIN clock']
                  /\ a.test \in DOMAIN tests' => Reached(a, tests'[a.test])
    BY <1>1, <1>4 DEF world
<1>6. CreatedOK' /\ BudgetOK' /\ operator' = operator
    BY DEF Inv, WorldOK, CreatedOK, BudgetOK, remote, world
<1> QED
    BY <1>2, <1>3, <1>5, <1>6, MovingKeeps

\* The campaigns of all variants are recorded.
LEMMA CommitCampaignsKeeps ==
    ASSUME Inv, NEW p \in Procs, CommitCampaigns(p)
    PROVE  Inv'
<1> DEFINE x == at[p].test
           rec == tests[x]
           new == tx.rec
<1>1. In(p, "campaigns") /\ tx.todo = {} /\ Commit(p, new, "seed")
    BY DEF CommitCampaigns
<1>2. /\ tx.step = "campaigns" /\ tx \in Tx
      /\ at[p] \in [op : Operations, next : Transactions, test : DOMAIN clock]
      /\ TransactionOK(tx, at[p], rec) /\ RecordOK(rec) /\ x \in DOMAIN tests
    BY <1>1, InFacts
<1>3. Creating(tx, at[p], rec) /\ new \in Record
    BY <1>2 DEF TransactionOK, Creates, Tx
<1>4. /\ new.status = rec.status /\ new.config = rec.config /\ new.pending = rec.pending /\ new.split = rec.split
      /\ new.seed = rec.seed /\ new.window = rec.window
    BY <1>2, <1>3 DEF Creating, RecordOK, Record
<1>5. rec.pending /\ rec.split = Empty /\ DOMAIN rec.split = {}
    BY <1>2, <1>3, RecordFacts DEF RecordOK, Creating
<1>6. DOMAIN new.mapping = Variants /\ NamesCampaigns(x, new) /\ Given(new) /\ DOMAIN new.mapping # {}
    BY <1>1, <1>2, <1>3, Constants DEF Creating
<1>7. new.mapping # Empty
    BY <1>6, EmptyMap
<1> HIDE DEF new, rec
<1>8. RecordOK(new) /\ NamesLists(x, new) /\ Supplied(new) /\ SplitOnce(new) /\ Quiet(new)
    BY <1>2, <1>3, <1>4, <1>5, <1>6, <1>7 DEF RecordOK, RolesOf, NamesLists, Supplied, SplitOnce, Quiet
<1>9. \A l \in DOMAIN lists : lists[l].test = x => SeededBy(l, new)
    BY <1>2, <1>4 DEF SeededBy, Inv, StoredInv, ListsOK, rec
<1>10. StoredInv'
    <2>1. tests' = Set(tests, x, new) /\ UNCHANGED <<campaigns, lists, created, clock, audience>>
        BY <1>1 DEF Commit, remote, world
    <2>2. Extends(rec, new)
        BY <1>4, <1>5 DEF Extends
    <2>3. Fits(x, new)
        BY <1>6, <1>8, <1>9 DEF Fits, Seeded
    <2> QED
        BY <1>2, <2>1, <2>2, <2>3, RecordingKeeps DEF Inv, rec
<1>11. Keeps(rec, new)
    BY <1>3, <1>4, <1>5, <1>7 DEF Keeps
<1>12. Reached([at[p] EXCEPT !.next = "seed"], new)
    BY <1>2, <1>3, <1>7 DEF Reached, Creating
<1> QED
    BY <1>1, <1>2, <1>10, <1>11, <1>12, CommittingKeeps DEF Commit, Transactions, rec

\* The test was deleted in the meantime.
LEMMA NotFoundKeeps ==
    ASSUME Inv, NEW p \in Procs, NotFound(p)
    PROVE  Inv'
BY ReturnKeeps DEF NotFound

-----------------------------------------------------------------------------
(* Creation: the seed and the lists                                        *)

\* Nothing was split by a test without a seed.
LEMMA RecordSegmentationSeedKeeps ==
    ASSUME Inv, NEW p \in Procs, RecordSegmentationSeed(p)
    PROVE  Inv'
<1> DEFINE x == at[p].test
           rec == tests[x]
<1>0. PICK new : new = StampSeed(p)
    OBVIOUS
<1>1. Ready(p, "create", "seed") /\ Found(p) /\ Store(p, new, "segment") /\ "create" \in Operations
    BY <1>0 DEF RecordSegmentationSeed, Operations
<1>2. /\ tx = NoTx /\ at[p].op = "create" /\ at[p].next = "seed" /\ x \in DOMAIN tests
      /\ at[p] \in [op : Operations, next : Transactions, test : DOMAIN clock]
      /\ Reached(at[p], rec) /\ TestOK(x) /\ RecordOK(rec)
    BY <1>1, ReadyFacts
<1>3. PICK s \in Seeds : s = CHOOSE r \in Seeds : TRUE
    BY Constants
<1>4. new = IF rec.pending /\ rec.seed = 0 /\ rec.config.mode = "holdout" THEN [rec EXCEPT !.seed = s] ELSE rec
    BY <1>0, <1>3 DEF StampSeed, Stored
<1>5. rec \in Record
    BY <1>2 DEF RecordOK
<1>6. /\ new \in Record /\ new.status = rec.status /\ new.config = rec.config /\ new.pending = rec.pending
      /\ new.split = rec.split /\ new.mapping = rec.mapping /\ new.window = rec.window
      /\ new.seed = rec.seed \/ (rec.seed = 0 /\ new.seed = s)
      /\ rec.pending /\ rec.config.mode = "holdout" => new.seed # 0
    BY <1>4, <1>5, Constants DEF Record
<1>7. /\ RecordOK(rec) /\ NamesCampaigns(x, rec) /\ NamesLists(x, rec) /\ Given(rec)
      /\ Supplied(rec) /\ SplitOnce(rec) /\ Quiet(rec)
    BY <1>2 DEF TestOK
<1>8. Seeded(x, rec)
    BY <1>2 DEF Seeded, Inv, StoredInv, ListsOK
<1> HIDE DEF rec
<1>9. Seeded(x, new)
    <2>1. SUFFICES ASSUME NEW l \in DOMAIN lists, lists[l].test = x, new.config.mode = "holdout", lists[l].group # NoGroup
                   PROVE  lists[l].group[1] = new.seed
        BY DEF Seeded, SeededBy
    <2>2. lists[l].group[1] = rec.seed
        BY <1>6, <1>8, <2>1 DEF Seeded, SeededBy
    <2>3. lists[l].group \in Seeds \X (Nat \ {0})
        BY <2>1 DEF Inv, StoredInv, ListsOK, List, AllGroups
    <2>4. rec.seed # 0
        BY <2>2, <2>3, Constants
    <2> QED
        BY <1>6, <2>2, <2>4
<1>10. Fits(x, new)
    <2>1. RecordOK(new)
        BY <1>6, <1>7 DEF RecordOK, RolesOf
    <2>2. NamesCampaigns(x, new) /\ NamesLists(x, new) /\ Given(new) /\ Supplied(new) /\ SplitOnce(new) /\ Quiet(new)
        BY <1>6, <1>7 DEF NamesCampaigns, NamesLists, Given, Supplied, SplitOnce, Quiet
    <2> QED
        BY <1>9, <2>1, <2>2 DEF Fits
<1>11. Extends(rec, new) /\ Keeps(rec, new)
    BY <1>6, Constants DEF Extends, Keeps
<1>12. /\ tests' = Set(tests, x, new) /\ UNCHANGED <<campaigns, lists, created, clock, audience>>
       /\ tx' = NoTx /\ Proceed(p, "segment") /\ UNCHANGED budget /\ UNCHANGED remote /\ UNCHANGED world
    BY <1>1, <1>2 DEF Store, remote, world
<1>13. StoredInv'
    BY <1>2, <1>10, <1>11, <1>12, RecordingKeeps DEF Inv, rec
<1>14. Reached([at[p] EXCEPT !.next = "segment"], new)
    BY <1>2, <1>6 DEF Reached
<1> QED
    BY <1>2, <1>11, <1>12, <1>13, <1>14, CommittingKeeps DEF Transactions, rec

\* The groups that have no list yet get one.
LEMMA BeginSegmentationKeeps ==
    ASSUME Inv, NEW p \in Procs, BeginSegmentation(p)
    PROVE  Inv'
<1> DEFINE x == at[p].test
           rec == tests[x]
           splits == rec.pending /\ rec.mapping # Empty /\ rec.split = Empty
<1>1. Ready(p, "create", "segment") /\ Found(p) /\ Stored(p) = rec /\ "create" \in Operations
    BY DEF BeginSegmentation, Stored, Operations
<1>2. /\ ~Locked /\ at[p].op = "create" /\ at[p].next = "segment" /\ x \in DOMAIN tests
      /\ at[p] \in [op : Operations, next : Transactions, test : DOMAIN clock]
      /\ Reached(at[p], rec) /\ RecordOK(rec)
    BY <1>1, ReadyFacts
<1>3. CASE splits
    <2>1. Locks(p, rec, "audience", RolesOf(rec)) /\ UNCHANGED at
        BY <1>1, <1>3 DEF BeginSegmentation, Open
    <2>2. rec \in Record /\ RolesOf(rec) \subseteq Nat
        BY <1>2, RecordFacts
    <2> HIDE DEF rec
    <2>0. PICK t : t = Opened(p, rec, "audience", RolesOf(rec))
        OBVIOUS
    <2>3. t \in Tx /\ t.step = "audience" /\ t.rec = rec /\ t.made = {} /\ t.todo = RolesOf(rec)
        BY <2>0, <2>2, EmptyMap DEF Opened, Tx, Splits, AllGroups
    <2>4. t.rec = [rec EXCEPT !.split = t.rec.split, !.seed = t.rec.seed]
        BY <2>2, <2>3 DEF Record
    <2>5. rec.config.mode = "holdout" => rec.seed # 0
        BY <1>2, <1>3 DEF Reached
    <2>6. Splitting(t, at[p], rec)
        BY <1>2, <1>3, <2>3, <2>4, <2>5 DEF Splitting
    <2>7. TransactionOK(t, at[p], rec)
        BY <2>3, <2>6 DEF TransactionOK, Creates, Splits, Launches, Stops, Removes, Deploys
    <2> QED
        BY <1>2, <2>0, <2>1, <2>7, OpeningKeeps DEF rec, Comes
<1>4. CASE ~splits
    <2>1. Pass(p, "window") /\ "window" \in Transactions
        BY <1>1, <1>4 DEF BeginSegmentation, Transactions
    <2>2. rec.mapping # Empty
        BY <1>2 DEF Reached
    <2>3. rec.split # Empty
        BY <1>2, <1>4, <2>2 DEF RecordOK
    <2>4. Reached([at[p] EXCEPT !.next = "window"], rec)
        BY <1>2, <2>2, <2>3 DEF Reached
    <2> QED
        BY <1>1, <1>2, <2>1, <2>4, PassKeeps
<1> QED
    BY <1>3, <1>4

\* What is adopted are lists of the test, one for each group it has any of, and only by a holdout test.
LEMMA AdoptedFacts ==
    ASSUME StoredInv, CreatedOK, NEW x, NEW rec, RolesOf(rec) \subseteq Roles
    PROVE  /\ Adopted(x, rec) \in Maps(Roles, ListIds)
           /\ NamesLists(x, [split |-> Adopted(x, rec)])
           /\ \A r \in DOMAIN Adopted(x, rec) : Adopted(x, rec)[r] <= created.lists /\ Adopted(x, rec)[r] \in DOMAIN lists
           /\ DOMAIN Adopted(x, rec) \subseteq RolesOf(rec)
           /\ rec.config.mode # "holdout" => DOMAIN Adopted(x, rec) = {}
<1> DEFINE D == {s \in RolesOf(rec) : rec.config.mode = "holdout" /\ TaggedLists(x, s) # {}}
           m == Adopted(x, rec)
<1>1. created.lists \in 0 .. MaxLists /\ MaxLists \in Nat /\ ListIds = 1 .. MaxLists
      /\ DOMAIN lists \subseteq 1 .. created.lists
    BY Constants DEF CreatedOK, StoredInv, ListsOK
<1>2. ASSUME NEW r \in D PROVE Least(TaggedLists(x, r)) \in TaggedLists(x, r)
    <2>1. TaggedLists(x, r) \subseteq Nat /\ TaggedLists(x, r) # {}
        BY <1>1 DEF TaggedLists
    <2> QED
        BY <2>1, LeastIn
<1>3. m = [r \in D |-> Least(TaggedLists(x, r))]
    BY DEF Adopted
<1>4. DOMAIN m = D /\ \A r \in D : m[r] \in TaggedLists(x, r)
    BY <1>2, <1>3
<1> HIDE DEF m
<1>5. \A r \in D : m[r] \in DOMAIN lists /\ lists[m[r]].test = x /\ lists[m[r]].role = r
    BY <1>4 DEF TaggedLists
<1>6. \A r \in D : m[r] \in ListIds /\ m[r] <= created.lists
    BY <1>1, <1>5
<1>7. m \in [D -> ListIds] /\ D \subseteq Roles
    BY <1>3, <1>4, <1>6
<1>8. m \in Maps(Roles, ListIds)
    BY <1>7, MapOf
<1> QED
    BY <1>4, <1>5, <1>6, <1>8 DEF NamesLists, m

\* The audience is split by the seed that was stored.
LEMMA ResolveAudienceKeeps ==
    ASSUME Inv, NEW p \in Procs, NEW out, ResolveAudience(p, out)
    PROVE  Inv'
<1> DEFINE x == at[p].test
           rec == tests[x]
           m == Adopted(x, tx.rec)
           found == out = "ok" /\ \A r \in DOMAIN m : Cardinality(TaggedLists(x, r)) = 1
<1>1. In(p, "audience") /\ Sent(out) /\ UNCHANGED <<campaigns, lists, created>>
    BY DEF ResolveAudience, remote
<1>2. /\ tx.by = p /\ tx.step = "audience" /\ tx \in Tx
      /\ at[p] \in [op : Operations, next : Transactions, test : DOMAIN clock]
      /\ TransactionOK(tx, at[p], rec) /\ RecordOK(rec) /\ x \in DOMAIN tests
    BY <1>1, InFacts
<1>3. BudgetOK'
    BY <1>1, SentKeeps DEF Inv, WorldOK
<1>4. Splitting(tx, at[p], rec) /\ tx.rec \in Record /\ rec \in Record
    BY <1>2 DEF TransactionOK, Splits, Tx, RecordOK
<1>5. CASE found
    <2>1. PICK s \in (IF tx.rec.seed = 0 THEN Seeds ELSE {tx.rec.seed}) :
             Continue([tx EXCEPT !.step = "list", !.rec.split = m,
                                 !.rec.seed = IF tx.rec.config.mode = "holdout" THEN s ELSE 0,
                                 !.group = <<s, audience>>])
        BY <1>5 DEF ResolveAudience
    <2>2. PICK seed : seed = IF tx.rec.config.mode = "holdout" THEN s ELSE 0
        OBVIOUS
    <2>3. PICK t : t = [tx EXCEPT !.step = "list", !.rec.split = m, !.rec.seed = seed, !.group = <<s, audience>>]
        OBVIOUS
    <2>4. Continue(t)
        BY <2>1, <2>2, <2>3
    <2>5. s \in Seeds /\ seed \in Seeds \cup {0} /\ s # 0 /\ audience \in Nat \ {0}
        BY <1>4, <2>1, <2>2, Constants DEF Record, Inv, StoredInv, ListsOK
    <2>6. tx.rec.config = rec.config /\ RolesOf(tx.rec) = RolesOf(rec) /\ RolesOf(rec) \subseteq Roles /\ RolesOf(rec) \subseteq Nat
        <3>1. tx.rec.config = rec.config
            BY <1>4 DEF Splitting, Record
        <3> QED
            BY <1>2, <3>1, RecordFacts DEF RolesOf
    <2>7. /\ m \in Maps(Roles, ListIds)
          /\ NamesLists(x, [split |-> m])
          /\ \A r \in DOMAIN m : m[r] <= created.lists /\ m[r] \in DOMAIN lists
          /\ DOMAIN m \subseteq RolesOf(rec)
          /\ rec.config.mode # "holdout" => DOMAIN m = {}
        BY <2>6, AdoptedFacts DEF Inv, WorldOK
    <2> HIDE DEF m
    <2>8. PICK r1 : r1 = [tx.rec EXCEPT !.split = m, !.seed = seed]
        OBVIOUS
    <2>9. /\ r1 \in Record /\ r1 = [rec EXCEPT !.split = m, !.seed = seed]
          /\ r1.split = m /\ r1.seed = seed /\ r1.mapping = rec.mapping
        BY <1>4, <2>5, <2>7, <2>8 DEF Splitting, Record
    <2>10. <<s, audience>> \in Seeds \X (Nat \ {0}) /\ <<s, audience>>[1] = s
        BY <2>5
    <2>11. <<s, audience>> \in Groups \ {NoGroup} /\ <<s, audience>> \in AllGroups
        BY <2>5, <2>10 DEF Groups, NoGroup, AllGroups
    <2>12. t = [tx EXCEPT !.step = "list", !.rec = r1, !.group = <<s, audience>>]
        BY <1>2, <1>4, <2>3, <2>8 DEF Tx
    <2>13. /\ t \in Tx /\ t.by = p /\ t.step = "list" /\ t.rec = r1 /\ t.group = <<s, audience>>
           /\ t.made = tx.made /\ t.todo = tx.todo
        BY <1>2, <2>9, <2>11, <2>12 DEF Tx, Splits
    <2>14. rec.config.mode = "holdout" => rec.seed # 0 /\ seed = rec.seed /\ s = rec.seed
        BY <1>4, <2>1, <2>2, <2>6 DEF Splitting
    <2>15. NamesLists(x, r1)
        BY <2>7, <2>9 DEF NamesLists
    <2>16. Given(r1)
        BY <1>2, <2>7, <2>9 DEF Given, Inv, StoredInv, TestsOK, TestOK
    <2> HIDE DEF rec
    <2>17. Splitting(t, at[p], rec)
        <3>1. /\ at[p].op = "create" /\ at[p].next = "segment" /\ rec.pending /\ rec.mapping # Empty /\ rec.split = Empty
              /\ \A l \in t.made : l <= created.lists /\ (l \in DOMAIN lists => lists[l].test = at[p].test)
              /\ t.todo = RolesOf(rec)
            BY <1>2, <1>4, <2>13 DEF Splitting
        <3>2. t.rec = [rec EXCEPT !.split = t.rec.split, !.seed = t.rec.seed]
            BY <2>9, <2>13
        <3>3. t.group \in Groups \ {NoGroup} /\ (rec.config.mode = "holdout" => t.group[1] = rec.seed /\ t.rec.seed = rec.seed)
            BY <2>9, <2>10, <2>11, <2>13, <2>14
        <3> QED
            BY <2>7, <2>9, <2>13, <2>14, <2>15, <2>16, <3>1, <3>2, <3>3 DEF Splitting
    <2>18. TransactionOK(t, at[p], rec)
        BY <2>13, <2>17 DEF TransactionOK, Creates, Splits, Launches, Stops, Removes, Deploys
    <2> QED
        BY <1>1, <1>3, <2>4, <2>13, <2>18, LearningKeeps DEF rec
<1>6. CASE ~found
    <2>1. Abort(p)
        BY <1>6 DEF ResolveAudience
    <2> QED
        BY <1>1, <1>3, <2>1, AbortAging, UnchangedAges DEF Inv, StoredInv
<1> QED
    BY <1>5, <1>6

\* A list is created for a group that has none; one whose answer is lost stays.
LEMMA MakeListKeeps ==
    ASSUME Inv, NEW p \in Procs, NEW out, MakeList(p, out)
    PROVE  Inv'
<1> DEFINE x == at[p].test
           rec == tests[x]
           l == created.lists + 1
<1>0. PICK v : v = Least(tx.todo)
    OBVIOUS
<1>1. In(p, "list") /\ Sent(out) /\ tx.todo # {} /\ v \notin DOMAIN tx.rec.split
      /\ IF Done(out) THEN CreateList(x, v) ELSE UNCHANGED remote
    BY <1>0 DEF MakeList
<1>2. /\ tx.by = p /\ tx.step = "list" /\ tx \in Tx
      /\ at[p] \in [op : Operations, next : Transactions, test : DOMAIN clock]
      /\ TransactionOK(tx, at[p], rec) /\ RecordOK(rec) /\ x \in DOMAIN tests /\ x \in DOMAIN clock
    BY <1>1, InFacts
<1>3. BudgetOK'
    BY <1>1, SentKeeps DEF Inv, WorldOK
<1>4. Splitting(tx, at[p], rec) /\ tx.rec \in Record /\ tx.made \subseteq Nat /\ rec \in Record
    BY <1>2 DEF TransactionOK, Splits, Tx, RecordOK
<1>5. RolesOf(rec) \subseteq Nat /\ RolesOf(rec) \subseteq Roles /\ tx.todo \subseteq RolesOf(rec)
    BY <1>2, <1>4, RecordFacts DEF Splitting
<1>6. v \in tx.todo /\ v \in Roles
    BY <1>0, <1>1, <1>5, LeastIn
<1>7. PICK t : Continue(t) /\ t = IF out = "ok" THEN [tx EXCEPT !.made = @ \cup {l}, !.rec.split = Set(@, v, l)]
                                                ELSE [tx EXCEPT !.step = "unlist"]
    BY <1>0 DEF MakeList, Repeated
<1>8. UNCHANGED <<tests, clock, audience, operator, at>> /\ tx' = t /\ t.by = p
    BY <1>2, <1>7 DEF Continue, world, Tx
<1>9. created.lists \in Nat
    BY Constants DEF Inv, WorldOK, CreatedOK
<1>10. ASSUME t = [tx EXCEPT !.step = "unlist"]
       PROVE  t \in Tx /\ t.step = "unlist" /\ t.rec = tx.rec /\ t.made = tx.made
    BY <1>2, <1>10 DEF Tx, Splits
<1>11. CASE Done(out)
    <2>1. CreateList(x, v) /\ campaigns' = campaigns
        BY <1>1, <1>11 DEF CreateList
    <2>2. /\ StoredInv' /\ CreatedOK' /\ l \in ListIds /\ l \notin DOMAIN lists
          /\ created'.lists = l /\ created'.campaigns = created.campaigns
          /\ DOMAIN lists' = DOMAIN lists \cup {l}
          /\ lists'[l].test = x /\ lists'[l].role = v /\ lists'[l].group = NoGroup
          /\ \A m \in DOMAIN lists : lists'[m] = lists[m]
        BY <1>2, <1>6, <1>8, <2>1, NewListKeeps DEF Inv, WorldOK
    <2>3. \A k \in tx.made : k \in Nat /\ k <= created.lists /\ (k \in DOMAIN lists => lists[k].test = x)
        BY <1>4 DEF Splitting
    <2>4. \A k \in tx.made \cup {l} : k <= created'.lists /\ (k \in DOMAIN lists' => lists'[k].test = x)
        BY <1>9, <2>2, <2>3
    <2> HIDE DEF l
    <2>5. CASE out = "ok"
        <3>1. PICK m : m = Set(tx.rec.split, v, l)
            OBVIOUS
        <3>2. m \in Maps(Roles, ListIds)
            BY <1>4, <1>6, <2>2, <3>1, SetMap DEF Record
        <3>3. DOMAIN m = DOMAIN tx.rec.split \cup {v} /\ m[v] = l
              /\ \A r \in DOMAIN tx.rec.split : r # v /\ m[r] = tx.rec.split[r]
            BY <1>1, <3>1 DEF Set
        <3>4. PICK r1 : r1 = [tx.rec EXCEPT !.split = m]
            OBVIOUS
        <3>5. /\ r1 \in Record /\ r1 = [rec EXCEPT !.split = m, !.seed = r1.seed]
              /\ r1.split = m /\ r1.seed = tx.rec.seed /\ r1.mapping = tx.rec.mapping
            BY <1>4, <3>2, <3>4 DEF Splitting, Record
        <3>6. t = [tx EXCEPT !.made = tx.made \cup {l}, !.rec = r1]
            BY <1>2, <1>4, <1>7, <2>5, <3>1, <3>4 DEF Tx
        <3>7. l \in Nat
            BY <1>9 DEF l
        <3>8. t \in Tx /\ t.step = "list" /\ t.rec = r1 /\ t.made = tx.made \cup {l} /\ t.todo = tx.todo /\ t.group = tx.group
            BY <1>2, <1>4, <3>5, <3>6, <3>7 DEF Tx
        <3>9. /\ at[p].op = "create" /\ at[p].next = "segment" /\ rec.pending /\ rec.mapping # Empty /\ rec.split = Empty
              /\ rec.config.mode = "holdout" => rec.seed # 0 /\ tx.rec.seed = rec.seed /\ tx.group[1] = rec.seed
              /\ DOMAIN tx.rec.split \subseteq RolesOf(rec) /\ RolesOf(rec) \ tx.todo \subseteq DOMAIN tx.rec.split
              /\ tx.group \in Groups \ {NoGroup}
            BY <1>2, <1>4 DEF Splitting
        <3>10. ASSUME NEW r \in DOMAIN tx.rec.split
               PROVE  LET k == tx.rec.split[r] IN
                      /\ k \in DOMAIN lists /\ lists[k].test = x /\ lists[k].role = r /\ k <= created.lists /\ k \in ListIds
                      /\ r \notin tx.todo => lists[k].group = tx.group
                      /\ r \in tx.todo /\ rec.config.mode # "holdout" => lists[k].group = NoGroup
            <4>1. tx.rec.split[r] \in ListIds
                BY <1>4, MapFacts DEF Record
            <4> QED
                BY <1>2, <1>4, <4>1 DEF Splitting, NamesLists, Given
        <3>11. ASSUME NEW r \in DOMAIN m
               PROVE  /\ m[r] \in DOMAIN lists' /\ lists'[m[r]].test = x /\ lists'[m[r]].role = r /\ m[r] <= created'.lists
                      /\ r \notin tx.todo => lists'[m[r]].group = tx.group
                      /\ r \in tx.todo /\ rec.config.mode # "holdout" => lists'[m[r]].group = NoGroup
            <4>1. CASE r = v
                BY <1>6, <2>2, <3>3, <3>7, <4>1
            <4>2. CASE r # v
                <5>1. PICK k : k = tx.rec.split[r] /\ r \in DOMAIN tx.rec.split /\ m[r] = k
                    BY <3>3, <4>2
                <5>2. /\ k \in DOMAIN lists /\ lists[k].test = x /\ lists[k].role = r /\ k <= created.lists /\ k \in Nat
                      /\ r \notin tx.todo => lists[k].group = tx.group
                      /\ r \in tx.todo /\ rec.config.mode # "holdout" => lists[k].group = NoGroup
                    BY <3>10, <5>1, Constants
                <5>3. lists'[k] = lists[k] /\ k \in DOMAIN lists' /\ k <= created'.lists
                    BY <1>9, <2>2, <5>2 DEF l
                <5> QED
                    BY <5>1, <5>2, <5>3
            <4> QED
                BY <4>1, <4>2
        <3>12. NamesLists(x, t.rec)' /\ Given(t.rec)'
            <4>1. \A w \in DOMAIN t.rec.mapping : t.rec.mapping[w] <= created'.campaigns
                BY <1>2, <1>4, <2>2, <3>5, <3>8 DEF Splitting, Given
            <4> QED
                BY <1>8, <3>5, <3>8, <3>11, <4>1 DEF NamesLists, Given
        <3>13. tx.group \in Groups'
            BY <1>8, <3>9 DEF Groups
        <3>14. Splitting(t, at[p], rec)'
            <4> HIDE DEF x, rec
            <4>1. x' = x /\ rec' = rec /\ at' = at
                BY <1>8 DEF x, rec
            <4>2. /\ t.rec = [rec EXCEPT !.split = t.rec.split, !.seed = t.rec.seed]
                  /\ rec.config.mode = "holdout" => rec.seed # 0 /\ t.rec.seed = rec.seed /\ t.group[1] = rec.seed
                BY <3>5, <3>8, <3>9
            <4>3. /\ t.todo \subseteq RolesOf(rec)
                  /\ DOMAIN t.rec.split \subseteq RolesOf(rec) /\ RolesOf(rec) \ t.todo \subseteq DOMAIN t.rec.split
                BY <1>5, <1>6, <3>3, <3>5, <3>8, <3>9
            <4>4. \A k \in t.made : k <= created'.lists /\ (k \in DOMAIN lists' => lists'[k].test = x)
                BY <2>4, <3>8
            <4>5. \A r \in DOMAIN t.rec.split :
                    LET k == t.rec.split[r] IN
                    /\ k \in DOMAIN lists'
                    /\ r \notin t.todo => lists'[k].group = t.group
                    /\ r \in t.todo /\ rec.config.mode # "holdout" => lists'[k].group = NoGroup
                BY <3>5, <3>8, <3>11
            <4>6. t.group \in Groups' \ {NoGroup}
                BY <3>8, <3>9, <3>13
            <4>7. RolesOf(rec)' = RolesOf(rec) /\ x = at[p].test
                BY <4>1 DEF RolesOf, x
            <4> QED
                BY <3>8, <3>9, <3>12, <4>1, <4>2, <4>3, <4>4, <4>5, <4>6, <4>7 DEF Splitting
        <3>15. TransactionOK(t, at[p], rec)'
            BY <3>8, <3>14 DEF TransactionOK, Creates, Splits, Launches, Stops, Removes, Deploys
        <3> QED
            BY <1>1, <1>3, <1>7, <1>8, <2>2, <3>15, ContinuingKeeps
    <2>6. CASE out # "ok"
        <3>1. t \in Tx /\ t.step = "unlist" /\ t.rec = tx.rec /\ t.made = tx.made
            BY <1>7, <1>10, <2>6
        <3>2. Splitting(t, at[p], rec)'
            BY <1>4, <1>8, <2>4, <3>1 DEF Splitting
        <3>3. TransactionOK(t, at[p], rec)'
            BY <3>1, <3>2 DEF TransactionOK, Creates, Splits, Launches, Stops, Removes, Deploys
        <3> QED
            BY <1>1, <1>3, <1>7, <1>8, <2>2, <3>3, ContinuingKeeps
    <2> QED
        BY <2>5, <2>6
<1>12. CASE ~Done(out)
    <2>1. t \in Tx /\ t.step = "unlist" /\ t.rec = tx.rec /\ t.made = tx.made /\ UNCHANGED <<campaigns, lists, created>>
        BY <1>1, <1>7, <1>10, <1>12 DEF Done, remote
    <2>2. Splitting(t, at[p], rec)
        BY <1>4, <2>1 DEF Splitting
    <2>3. TransactionOK(t, at[p], rec)
        BY <2>1, <2>2 DEF TransactionOK, Creates, Splits, Launches, Stops, Removes, Deploys
    <2> QED
        BY <1>1, <1>3, <1>7, <1>8, <2>1, <2>3, LearningKeeps
<1> QED
    BY <1>11, <1>12

\* A list gets the group of the transaction's split, or loses what it had.
LEMMA FillListKeeps ==
    ASSUME Inv, NEW p \in Procs, NEW out, FillList(p, out)
    PROVE  Inv'
<1> DEFINE x == at[p].test
           rec == tests[x]
<1>0. PICK v : v = Least(tx.todo)
    OBVIOUS
<1>1. PICK l : l = tx.rec.split[v]
    OBVIOUS
<1>2. PICK g : /\ l \in DOMAIN lists /\ lists' = [lists EXCEPT ![l].group = g]
               /\ g \in {tx.group, lists[l].group, NoGroup}
               /\ out = "ok" => g = tx.group
    <2>1. CASE l \in DOMAIN lists /\ Done(out) /\ lists' = [lists EXCEPT ![l].group = Filled(@, tx.group)]
        BY <2>1 DEF Filled
    <2>2. CASE /\ l \in DOMAIN lists /\ out = "failed"
               /\ \E group \in {lists[l].group, NoGroup} : lists' = [lists EXCEPT ![l].group = group]
        BY <2>2
    <2> QED
        BY <1>0, <1>1, <2>1, <2>2 DEF FillList
<1>3. /\ In(p, "list") /\ Sent(out) /\ tx.todo # {} /\ v \in DOMAIN tx.rec.split /\ UNCHANGED <<campaigns, created>>
      /\ Continue(IF out = "ok" THEN [tx EXCEPT !.todo = @ \ {v}] ELSE [tx EXCEPT !.step = "unlist"])
    BY <1>0 DEF FillList
<1>4. /\ tx.by = p /\ tx.step = "list" /\ tx \in Tx
      /\ at[p] \in [op : Operations, next : Transactions, test : DOMAIN clock]
      /\ TransactionOK(tx, at[p], rec) /\ RecordOK(rec) /\ x \in DOMAIN tests /\ x \in DOMAIN clock
    BY <1>3, InFacts
<1>5. BudgetOK'
    BY <1>3, SentKeeps DEF Inv, WorldOK
<1>6. Splitting(tx, at[p], rec) /\ RolesOf(rec) \subseteq Nat
    BY <1>4, RecordFacts DEF TransactionOK, Splits
<1>7. /\ at[p].op = "create" /\ at[p].next = "segment" /\ rec.pending /\ rec.mapping # Empty /\ rec.split = Empty
      /\ tx.rec = [rec EXCEPT !.split = tx.rec.split, !.seed = tx.rec.seed]
      /\ rec.config.mode = "holdout" => rec.seed # 0 /\ tx.rec.seed = rec.seed /\ tx.group[1] = rec.seed
      /\ tx.todo \subseteq RolesOf(rec) /\ DOMAIN tx.rec.split \subseteq RolesOf(rec)
      /\ RolesOf(rec) \ tx.todo \subseteq DOMAIN tx.rec.split
      /\ tx.group \in Groups \ {NoGroup}
      /\ \A k \in tx.made : k <= created.lists /\ (k \in DOMAIN lists => lists[k].test = x)
      /\ Given(tx.rec)
    BY <1>4, <1>6 DEF Splitting
<1>8. ASSUME NEW r \in DOMAIN tx.rec.split
      PROVE  LET k == tx.rec.split[r] IN
             /\ k \in DOMAIN lists /\ lists[k].test = x /\ lists[k].role = r
             /\ r \notin tx.todo => lists[k].group = tx.group
             /\ r \in tx.todo /\ rec.config.mode # "holdout" => lists[k].group = NoGroup
    BY <1>4, <1>6 DEF Splitting, NamesLists
<1>9. v \in tx.todo /\ tx.todo \subseteq Nat /\ lists[l].test = x /\ lists[l].role = v
    BY <1>0, <1>1, <1>3, <1>6, <1>7, <1>8, LeastIn
<1>10. PICK t : Continue(t) /\ t = IF out = "ok" THEN [tx EXCEPT !.todo = tx.todo \ {v}] ELSE [tx EXCEPT !.step = "unlist"]
    BY <1>3, <1>4 DEF Tx
<1>11. UNCHANGED <<tests, clock, audience, operator, at>> /\ tx' = t /\ t.by = p
    BY <1>4, <1>10 DEF Continue, world, Tx
<1>12. g \in Groups /\ DrawnBy(g, rec)
    <2>1. lists[l].group \in Groups /\ SeededBy(l, rec)
        BY <1>2, <1>4, <1>9 DEF Inv, StoredInv, ListsOK
    <2> QED
        BY <1>2, <1>7, <2>1 DEF SeededBy, Groups, DrawnBy
<1>13. /\ StoredInv' /\ DOMAIN lists' = DOMAIN lists
       /\ lists'[l].test = x /\ lists'[l].role = v /\ lists'[l].group = g
       /\ \A m \in DOMAIN lists : m # l => lists'[m] = lists[m]
    <2>1. UNCHANGED <<tests, campaigns, created, clock, audience>>
        BY <1>3, <1>11
    <2>2. StoredInv /\ x \in DOMAIN tests /\ tests[x].split = Empty /\ DrawnBy(g, tests[x]) /\ g \in Groups
        BY <1>4, <1>7, <1>12 DEF Inv
    <2>3. l \in DOMAIN lists /\ lists[l].test = x /\ lists[l].role = v /\ lists' = [lists EXCEPT ![l].group = g]
        BY <1>2, <1>9
    <2> HIDE DEF x
    <2> QED
        BY <2>1, <2>2, <2>3, FillingKeeps
<1>14. CreatedOK' /\ t.rec = tx.rec /\ t.made = tx.made /\ t.group = tx.group
    BY <1>3, <1>4, <1>10 DEF Inv, WorldOK, CreatedOK, Tx
<1> HIDE DEF x, rec
<1>15. x' = x /\ rec' = rec /\ at' = at /\ x = at[p].test /\ RolesOf(rec)' = RolesOf(rec) /\ Groups' = Groups
    BY <1>11 DEF x, rec, RolesOf, Groups
<1>16. \A k \in t.made : k <= created'.lists /\ (k \in DOMAIN lists' => lists'[k].test = x)
    BY <1>3, <1>7, <1>13, <1>14
<1>17. TransactionOK(t, at[p], rec)'
    <2>1. CASE out = "ok"
        <3>1. t \in Tx /\ t.step = "list" /\ t.todo = tx.todo \ {v}
            BY <1>4, <1>9, <1>10, <2>1 DEF Tx
        <3>2. ASSUME NEW r \in DOMAIN t.rec.split
              PROVE  LET k == t.rec.split[r] IN
                     /\ k \in DOMAIN lists' /\ lists'[k].test = x /\ lists'[k].role = r
                     /\ r \notin t.todo => lists'[k].group = t.group
                     /\ r \in t.todo /\ rec.config.mode # "holdout" => lists'[k].group = NoGroup
            <4>1. CASE r = v
                BY <1>1, <1>2, <1>13, <1>14, <2>1, <3>1, <4>1
            <4>2. CASE r # v
                <5>1. PICK k : k = tx.rec.split[r]
                    OBVIOUS
                <5>2. k # l /\ k \in DOMAIN lists
                    BY <1>8, <1>9, <1>14, <4>2, <5>1
                <5>3. lists'[k] = lists[k] /\ k \in DOMAIN lists'
                    BY <1>13, <5>2
                <5> QED
                    BY <1>8, <1>14, <3>1, <4>2, <5>1, <5>3
            <4> QED
                BY <4>1, <4>2
        <3>3. NamesLists(x, t.rec)' /\ Given(t.rec)'
            BY <1>3, <1>7, <1>14, <1>15, <3>2 DEF NamesLists, Given
        <3>4. /\ t.todo \subseteq RolesOf(rec) /\ DOMAIN t.rec.split \subseteq RolesOf(rec)
              /\ RolesOf(rec) \ t.todo \subseteq DOMAIN t.rec.split
            BY <1>3, <1>7, <1>14, <3>1
        <3>5. Splitting(t, at[p], rec)'
            BY <1>7, <1>14, <1>15, <1>16, <3>1, <3>2, <3>3, <3>4 DEF Splitting
        <3> QED
            BY <3>1, <3>5 DEF TransactionOK, Creates, Splits, Launches, Stops, Removes, Deploys
    <2>2. CASE out # "ok"
        <3>1. t \in Tx /\ t.step = "unlist"
            BY <1>4, <1>10, <2>2 DEF Tx, Splits
        <3>2. Splitting(t, at[p], rec)'
            BY <1>7, <1>14, <1>15, <1>16, <3>1 DEF Splitting
        <3> QED
            BY <3>1, <3>2 DEF TransactionOK, Creates, Splits, Launches, Stops, Removes, Deploys
    <2> QED
        BY <2>1, <2>2
<1> QED
    BY <1>3, <1>5, <1>10, <1>11, <1>13, <1>14, <1>17, ContinuingKeeps DEF x, rec

\* The lists that go are in no record yet.
LEMMA UndoListsKeeps ==
    ASSUME Inv, NEW p \in Procs, UndoLists(p)
    PROVE  Inv'
<1>1. PICK gone \in SUBSET tx.made : RemoveLists(gone) /\ Fail(Cardinality(tx.made \ gone))
    BY DEF UndoLists
<1>2. In(p, "unlist") /\ Abort(p) /\ UNCHANGED <<campaigns, created>>
    BY DEF UndoLists
<1>3. /\ tx.step = "unlist" /\ TransactionOK(tx, at[p], tests[at[p].test]) /\ at[p].test \in DOMAIN tests
    BY <1>2, InFacts
<1>4. Splitting(tx, at[p], tests[at[p].test])
    BY <1>3 DEF TransactionOK, Splits
<1>5. Spare(gone)
    BY <1>1, <1>3, <1>4 DEF Splitting, Spare
<1>6. Unlists(gone)
    BY <1>1 DEF RemoveLists, Without, Unlists, Inv, StoredInv, ListsOK
<1>7. UNCHANGED tests /\ Passes /\ Settles /\ Ages
    BY <1>2, WorldPasses, UnchangedSettles, UnchangedAges DEF Abort, Inv, StoredInv
<1>8. StoredInv'
    BY <1>2, <1>5, <1>6, <1>7, SettlingKeeps DEF Inv
<1>9. BudgetOK' /\ CreatedOK'
    BY <1>1, <1>2, FailKeeps DEF Inv, WorldOK, CreatedOK
<1> QED
    BY <1>2, <1>8, <1>9, AbortKeeps

\* The record names a list for each group, filled by one split.
LEMMA CommitSegmentationKeeps ==
    ASSUME Inv, NEW p \in Procs, CommitSegmentation(p)
    PROVE  Inv'
<1> DEFINE x == at[p].test
           rec == tests[x]
           new == tx.rec
<1>1. In(p, "list") /\ tx.todo = {} /\ Commit(p, new, "window")
    BY DEF CommitSegmentation
<1>2. /\ tx.step = "list" /\ tx \in Tx
      /\ at[p] \in [op : Operations, next : Transactions, test : DOMAIN clock]
      /\ TransactionOK(tx, at[p], rec) /\ RecordOK(rec) /\ TestOK(x) /\ x \in DOMAIN tests
    BY <1>1, InFacts
<1>3. Splitting(tx, at[p], rec) /\ new \in Record /\ rec \in Record
    BY <1>2 DEF TransactionOK, Splits, Tx, RecordOK
<1>4. /\ new.status = rec.status /\ new.config = rec.config /\ new.pending = rec.pending /\ new.mapping = rec.mapping
      /\ new.window = rec.window /\ (rec.config.mode = "holdout" => new.seed = rec.seed /\ rec.seed # 0)
    BY <1>3 DEF Splitting, Record
<1>5. rec.pending /\ rec.split = Empty /\ rec.mapping # Empty /\ at[p].op = "create"
    BY <1>3 DEF Splitting
<1>6. RolesOf(rec) # {}
    BY <1>2, RecordFacts
<1>7. /\ DOMAIN new.split = RolesOf(rec) /\ NamesLists(x, new) /\ Given(new)
      /\ \A r \in DOMAIN new.split : new.split[r] \in DOMAIN lists /\ lists[new.split[r]].group = tx.group
      /\ tx.group # NoGroup
    BY <1>1, <1>2, <1>3 DEF Splitting
<1>8. new.split # Empty /\ RolesOf(rec) = RolesOf(new)
    BY <1>4, <1>6, <1>7, EmptyMap DEF RolesOf
<1>9. /\ NamesCampaigns(x, rec) /\ Quiet(rec) /\ Seeded(x, rec)
    BY <1>2 DEF TestOK, Seeded, Inv, StoredInv, ListsOK
<1> HIDE DEF new, rec
<1>10. RecordOK(new)
    BY <1>2, <1>3, <1>4, <1>5, <1>7, <1>8 DEF RecordOK
<1>11. NamesCampaigns(x, new) /\ Quiet(new) /\ Seeded(x, new)
    BY <1>4, <1>9 DEF NamesCampaigns, Quiet, Seeded, SeededBy
<1>12. Supplied(new) /\ SplitOnce(new)
    BY <1>7 DEF Supplied, SplitOnce
<1>13. Fits(x, new)
    BY <1>7, <1>10, <1>11, <1>12 DEF Fits
<1>14. Extends(rec, new) /\ Keeps(rec, new)
    BY <1>4, <1>5, <1>8 DEF Extends, Keeps
<1>15. StoredInv'
    <2>1. tests' = Set(tests, x, new) /\ UNCHANGED <<campaigns, lists, created, clock, audience>>
        BY <1>1 DEF Commit, remote, world
    <2> QED
        BY <1>2, <1>13, <1>14, <2>1, RecordingKeeps DEF Inv, rec
<1>16. Reached([at[p] EXCEPT !.next = "window"], new)
    BY <1>2, <1>4, <1>5, <1>8 DEF Reached
<1> QED
    BY <1>1, <1>2, <1>14, <1>15, <1>16, CommittingKeeps DEF Commit, Transactions, rec

\* Names, seed and configuration stay, and what was completed or got its window stays so.
Resaves(old, new) ==
    /\ RecordOK(new) /\ SameNames(old, new) /\ Quiet(new)
    /\ ~old.pending => ~new.pending

\* A record that is stored again by a process that moves on to next.
LEMMA ResavingKeeps ==
    ASSUME Inv, NEW p \in Procs, at[p] \in [op : Operations, next : Transactions, test : DOMAIN clock],
           at[p].test \in DOMAIN tests, NEW rec, NEW next \in Transactions \cup {"done"},
           tests' = Set(tests, at[p].test, rec), Proceed(p, next), tx' = NoTx,
           UNCHANGED budget, UNCHANGED remote, UNCHANGED world, Resaves(tests[at[p].test], rec),
           next # "done" => Reached([at[p] EXCEPT !.next = next], rec)
    PROVE  Inv'
<1> DEFINE x == at[p].test
<1>1. RecordOK(rec) /\ SameNames(tests[x], rec) /\ Quiet(rec) /\ (~tests[x].pending => ~rec.pending)
    BY DEF Resaves
<1>2. StoredInv'
    BY <1>1, StoringKeeps DEF Inv
<1>3. Keeps(tests[x], rec)
    BY <1>1 DEF SameNames, Keeps
<1> QED
    BY <1>2, <1>3, CommittingKeeps

-----------------------------------------------------------------------------
(* Creation: the window; launch                                            *)

LEMMA RecordAutoLaunchWindowKeeps ==
    ASSUME Inv, NEW p \in Procs, RecordAutoLaunchWindow(p)
    PROVE  Inv'
<1> DEFINE x == at[p].test
           rec == tests[x]
<1>0. PICK new : new = StampWindow(p)
    OBVIOUS
<1>1. Ready(p, "create", "window") /\ Found(p) /\ Store(p, new, "finalize") /\ "create" \in Operations
    BY <1>0 DEF RecordAutoLaunchWindow, Operations
<1>2. /\ tx = NoTx /\ at[p].op = "create" /\ at[p].next = "window" /\ x \in DOMAIN tests
      /\ at[p] \in [op : Operations, next : Transactions, test : DOMAIN clock]
      /\ Reached(at[p], rec) /\ TestOK(x) /\ RecordOK(rec)
    BY <1>1, ReadyFacts
<1>3. new = IF rec.pending /\ rec.config.launches THEN [rec EXCEPT !.window = TRUE] ELSE rec
    BY <1>0 DEF StampWindow, Stored
<1>4. rec \in Record /\ Quiet(rec)
    BY <1>2 DEF RecordOK, TestOK
<1> HIDE DEF rec
<1>5. /\ new \in Record /\ new.status = rec.status /\ new.config = rec.config /\ new.pending = rec.pending
      /\ new.split = rec.split /\ new.mapping = rec.mapping /\ new.seed = rec.seed
      /\ rec.window => new.window
      /\ rec.pending /\ rec.config.launches => new.window
    BY <1>3, <1>4 DEF Record
<1>6. RecordOK(new) /\ Quiet(new)
    BY <1>2, <1>4, <1>5 DEF RecordOK, RolesOf, Quiet
<1>7. Resaves(rec, new)
    BY <1>5, <1>6 DEF Resaves, SameNames
<1>8. Reached([at[p] EXCEPT !.next = "finalize"], new)
    BY <1>2, <1>5 DEF Reached
<1>9. /\ tests' = Set(tests, x, new) /\ tx' = NoTx /\ Proceed(p, "finalize")
      /\ UNCHANGED budget /\ UNCHANGED remote /\ UNCHANGED world
    BY <1>1, <1>2 DEF Store
<1> QED
    BY <1>2, <1>7, <1>8, <1>9, ResavingKeeps DEF Transactions, rec

\* The transaction that launches begins with a stored window and complete lists.
LEMMA LaunchOpens ==
    ASSUME Inv, ~Locked, NEW p \in Procs, at[p] \in [op : Operations, next : Transactions, test : DOMAIN clock],
           NEW x \in DOMAIN tests, x = at[p].test, Open(p, tests[x], "update", DOMAIN tests[x].mapping),
           Reached(at[p], tests[x]), RecordOK(tests[x]), tests[x].window, tests[x].split # Empty,
           \/ at[p].op = "create" /\ at[p].next = "finalize" /\ tests[x].pending
           \/ at[p].op = "launch" /\ ~tests[x].pending /\ tests[x].status = "draft"
    PROVE  Inv'
<1> DEFINE rec == tests[x]
<1>1. Locks(p, rec, "update", DOMAIN rec.mapping) /\ UNCHANGED at
    BY DEF Open
<1>2. rec \in Record /\ DOMAIN rec.mapping \subseteq Nat
    BY RecordFacts, Constants
<1> HIDE DEF rec
<1>3. PICK t : t = Opened(p, rec, "update", DOMAIN rec.mapping)
    OBVIOUS
<1>4. t \in Tx /\ t.step = "update" /\ t.rec = rec /\ t.todo = DOMAIN rec.mapping
    BY <1>2, <1>3, EmptyMap DEF Opened, Tx, Launches, AllGroups
<1>5. Launching(t, at[p], rec)
    BY <1>4 DEF Launching, rec
<1>6. TransactionOK(t, at[p], rec)
    BY <1>4, <1>5 DEF TransactionOK, Creates, Splits, Launches, Stops, Removes, Deploys
<1>7. Comes(p, at[p])
    BY <1>1 DEF Comes
<1> QED
    BY <1>1, <1>3, <1>6, <1>7, OpeningKeeps DEF rec

\* The campaigns are to be pointed at their lists.
LEMMA BeginFinalizeKeeps ==
    ASSUME Inv, NEW p \in Procs, BeginFinalize(p)
    PROVE  Inv'
<1> DEFINE x == at[p].test
           rec == tests[x]
<1>1. Ready(p, "create", "finalize") /\ Found(p) /\ Stored(p) = rec /\ "create" \in Operations
    BY DEF BeginFinalize, Stored, Operations
<1>2. /\ ~Locked /\ tx = NoTx /\ at[p].op = "create" /\ at[p].next = "finalize" /\ x \in DOMAIN tests
      /\ at[p] \in [op : Operations, next : Transactions, test : DOMAIN clock]
      /\ Reached(at[p], rec) /\ RecordOK(rec) /\ TestOK(x)
    BY <1>1, ReadyFacts
<1>3. CASE ~rec.pending
    BY <1>1, <1>2, <1>3, ReturnKeeps DEF BeginFinalize
<1>4. CASE rec.pending /\ rec.config.launches
    <2>1. Open(p, rec, "update", DOMAIN rec.mapping)
        BY <1>1, <1>4 DEF BeginFinalize
    <2>2. rec.window /\ rec.split # Empty
        BY <1>2, <1>4 DEF Reached
    <2> QED
        BY <1>2, <1>4, <2>1, <2>2, LaunchOpens
<1>5. CASE rec.pending /\ ~rec.config.launches
    <2>1. PICK new : new = [rec EXCEPT !.pending = FALSE] /\ Store(p, new, "done")
        BY <1>1, <1>5 DEF BeginFinalize
    <2>2. rec.split # Empty /\ rec \in Record /\ Quiet(rec)
        BY <1>2 DEF Reached, RecordOK, TestOK
    <2>3. /\ tests' = Set(tests, x, new) /\ tx' = NoTx /\ Proceed(p, "done")
          /\ UNCHANGED budget /\ UNCHANGED remote /\ UNCHANGED world
        BY <1>2, <2>1 DEF Store
    <2> HIDE DEF rec
    <2>4. /\ new \in Record /\ new.status = rec.status /\ new.config = rec.config /\ ~new.pending
          /\ new.split = rec.split /\ new.mapping = rec.mapping /\ new.seed = rec.seed /\ new.window = rec.window
        BY <2>1, <2>2 DEF Record
    <2>5. RecordOK(new) /\ Quiet(new)
        BY <1>2, <2>2, <2>4 DEF RecordOK, RolesOf, Quiet
    <2>6. Resaves(rec, new)
        BY <2>4, <2>5 DEF Resaves, SameNames
    <2> QED
        BY <1>2, <2>3, <2>6, ResavingKeeps DEF rec
<1> QED
    BY <1>3, <1>4, <1>5

\* The intent is stored only for a test that is complete.
LEMMA RecordLaunchIntentKeeps ==
    ASSUME Inv, NEW p \in Procs, NEW x, RecordLaunchIntent(p, x)
    PROVE  Inv'
<1> DEFINE rec == tests[x]
           a == [op |-> "launch", next |-> "launch", test |-> x]
<1>0. PICK new : new = [rec EXCEPT !.started = TRUE, !.window = TRUE]
    OBVIOUS
<1>1. /\ ~Locked /\ x \in DOMAIN tests /\ ~rec.pending /\ tests' = Set(tests, x, new) /\ at' = [at EXCEPT ![p] = a]
      /\ UNCHANGED <<tx, budget>> /\ UNCHANGED remote /\ UNCHANGED world
    BY <1>0 DEF RecordLaunchIntent, Enters
<1>2. tx' = NoTx /\ x \in DOMAIN clock
    BY <1>1, Unlocked DEF Inv, StoredInv, TestsOK
<1>3. TestOK(x) /\ RecordOK(rec) /\ rec \in Record /\ Quiet(rec)
    BY <1>1 DEF Inv, StoredInv, TestsOK, TestOK, RecordOK
<1> HIDE DEF rec
<1>4. /\ new \in Record /\ new.status = rec.status /\ new.config = rec.config /\ new.pending = rec.pending /\ new.window
      /\ new.split = rec.split /\ new.mapping = rec.mapping /\ new.seed = rec.seed
    BY <1>0, <1>3 DEF Record
<1>5. RecordOK(new) /\ Quiet(new)
    BY <1>3, <1>4 DEF RecordOK, RolesOf, Quiet
<1>6. SameNames(rec, new) /\ (~rec.pending => ~new.pending)
    BY <1>4 DEF SameNames
<1>7. StoredInv' /\ Progress
    BY <1>1, <1>5, <1>6, StoringKeeps DEF Inv, rec
<1>8. a \in [op : Operations, next : Transactions, test : DOMAIN clock']
    BY <1>1, <1>2 DEF Operations, Transactions, world
<1>9. tests'[x] = new
    BY <1>1 DEF Set
<1>10. Reached(a, tests'[a.test])
    BY <1>1, <1>4, <1>9 DEF Reached
<1>11. CreatedOK' /\ BudgetOK' /\ operator' = operator
    BY <1>1 DEF Inv, WorldOK, CreatedOK, BudgetOK, remote, world
<1> QED
    BY <1>1, <1>2, <1>7, <1>8, <1>10, <1>11, MovingKeeps

\* The campaigns are to be scheduled.
LEMMA BeginLaunchKeeps ==
    ASSUME Inv, NEW p \in Procs, BeginLaunch(p)
    PROVE  Inv'
<1> DEFINE x == at[p].test
           rec == tests[x]
<1>1. Ready(p, "launch", "launch") /\ Found(p) /\ Stored(p) = rec /\ "launch" \in Operations
    BY DEF BeginLaunch, Stored, Operations
<1>2. /\ ~Locked /\ at[p].op = "launch" /\ x \in DOMAIN tests
      /\ at[p] \in [op : Operations, next : Transactions, test : DOMAIN clock]
      /\ Reached(at[p], rec) /\ RecordOK(rec)
    BY <1>1, ReadyFacts
<1>3. CASE rec.status # "draft"
    BY <1>1, <1>2, <1>3, ReturnKeeps DEF BeginLaunch
<1>4. CASE rec.status = "draft"
    <2>1. Open(p, rec, "update", DOMAIN rec.mapping)
        BY <1>1, <1>4 DEF BeginLaunch
    <2>2. rec.window /\ ~rec.pending /\ rec.split # Empty
        BY <1>2 DEF Reached, RecordOK
    <2> QED
        BY <1>2, <1>4, <2>1, <2>2, LaunchOpens
<1> QED
    BY <1>3, <1>4

\* What a transaction that launches knows of the variant whose turn it is.
LEMMA LaunchFacts ==
    ASSUME Inv, NEW p \in Procs, NEW step \in Launches, In(p, step), NEW v, v = Least(tx.todo), tx.todo # {}
    PROVE  /\ at[p].test \in DOMAIN tests /\ tx \in Tx /\ tx.by = p /\ tx.step = step
           /\ Launching(tx, at[p], tests[at[p].test]) /\ tx.rec = tests[at[p].test]
           /\ v \in tx.todo /\ v \in DOMAIN tests[at[p].test].mapping /\ tx.rec.window /\ tx.rec.split # Empty
           /\ tx.rec.status # "cancelled"
<1>1. /\ at[p].test \in DOMAIN tests /\ tx \in Tx /\ tx.by = p /\ tx.step = step
      /\ TransactionOK(tx, at[p], tests[at[p].test]) /\ RecordOK(tests[at[p].test])
    BY InFacts
<1>2. Launching(tx, at[p], tests[at[p].test])
    BY <1>1 DEF TransactionOK
<1>3. tx.todo \subseteq DOMAIN tests[at[p].test].mapping /\ tx.todo \subseteq Nat
    BY <1>1, <1>2 DEF Launching, Tx
<1>4. v \in tx.todo
    BY <1>3, LeastIn
<1> QED
    BY <1>1, <1>2, <1>3, <1>4 DEF Launching, RecordOK

\* The lists are set, and stay set when the answer is lost.
LEMMA UpdateCampaignKeeps ==
    ASSUME Inv, NEW p \in Procs, NEW out, UpdateCampaign(p, out)
    PROVE  Inv'
<1> DEFINE x == at[p].test
           rec == tests[x]
<1>0. PICK v : v = Least(tx.todo)
    OBVIOUS
<1>1. PICK c : c = tx.rec.mapping[v]
    OBVIOUS
<1>2. /\ In(p, "update") /\ tx.todo # {} /\ UNCHANGED <<lists, created>>
      /\ \/ /\ v \in DOMAIN tx.rec.split /\ Editable(c) /\ Sent(out)
            /\ campaigns' = IF Done(out) THEN [campaigns EXCEPT ![c].list = tx.rec.split[v]] ELSE campaigns
            /\ IF out = "ok" THEN Continue([tx EXCEPT !.step = "schedule"]) ELSE Abort(p)
         \/ Abort(p) /\ UNCHANGED <<campaigns, budget>>
    BY <1>0, <1>1 DEF UpdateCampaign
<1>3. /\ x \in DOMAIN tests /\ tx \in Tx /\ tx.by = p /\ tx.step = "update"
      /\ Launching(tx, at[p], rec) /\ tx.rec = rec
      /\ v \in tx.todo /\ v \in DOMAIN rec.mapping /\ rec.split # Empty
    BY <1>0, <1>2, LaunchFacts DEF Launches
<1>4. UNCHANGED <<tests, clock, audience>> /\ (Continue([tx EXCEPT !.step = "schedule"]) \/ Abort(p)) /\ UNCHANGED world
    BY <1>2 DEF Continue, Abort, world
<1>5. BudgetOK' /\ CreatedOK'
    BY <1>2, SentKeeps DEF Inv, WorldOK, CreatedOK, BudgetOK
<1>6. StoredInv'
    <2>1. CASE UNCHANGED campaigns
        BY <1>2, <1>4, <2>1, AgingKeeps, UnchangedAges, WorldPasses DEF Inv, StoredInv
    <2>2. CASE campaigns' # campaigns
        <3>1. /\ v \in DOMAIN rec.split /\ Exists(c) /\ c = rec.mapping[v]
              /\ campaigns' = [campaigns EXCEPT ![c].list = rec.split[v]]
            BY <1>1, <1>2, <1>3, <2>2 DEF Editable
        <3> QED
            BY <1>2, <1>3, <1>4, <3>1, ListingKeeps DEF Inv
    <2> QED
        BY <2>1, <2>2
<1>7. CASE Abort(p)
    BY <1>5, <1>6, <1>7, AbortKeeps
<1>8. CASE Continue([tx EXCEPT !.step = "schedule"])
    <2>1. PICK t : t = [tx EXCEPT !.step = "schedule"] /\ Continue(t)
        BY <1>8
    <2>2. t \in Tx /\ t.by = p /\ t.step = "schedule" /\ t.todo = tx.todo /\ t.rec = tx.rec
        BY <1>3, <2>1 DEF Tx, Launches
    <2>3. UNCHANGED <<tests, at>>
        BY <2>1 DEF Continue
    <2>4. Launching(t, at[p], rec)'
        BY <1>3, <2>2, <2>3 DEF Launching
    <2>5. TransactionOK(t, at[p], rec)'
        BY <2>2, <2>4 DEF TransactionOK, Creates, Splits, Launches, Stops, Removes, Deploys
    <2> QED
        BY <1>2, <1>5, <1>6, <2>1, <2>2, <2>5, ContinuingKeeps
<1> QED
    BY <1>4, <1>7, <1>8

\* A campaign is scheduled for a window that was stored before.
LEMMA ScheduleCampaignKeeps ==
    ASSUME Inv, NEW p \in Procs, NEW out, ScheduleCampaign(p, out)
    PROVE  Inv'
<1> DEFINE x == at[p].test
           rec == tests[x]
<1>0. PICK v : v = Least(tx.todo)
    OBVIOUS
<1>1. PICK c : c = tx.rec.mapping[v]
    OBVIOUS
<1>2. /\ In(p, "schedule") /\ UNCHANGED <<lists, created>>
      /\ \/ /\ Accepts(c, "scheduled") /\ Sent(out)
            /\ IF Done(out) THEN SetStatus(c, "scheduled") ELSE UNCHANGED campaigns
            /\ IF out = "ok" THEN Continue([tx EXCEPT !.step = "update", !.todo = @ \ {v}]) ELSE Abort(p)
         \/ Abort(p) /\ UNCHANGED <<campaigns, budget>>
    BY <1>0, <1>1 DEF ScheduleCampaign
<1>3. tx.todo # {}
    BY <1>2, InFacts DEF TransactionOK, Launching, Launches
<1>4. /\ x \in DOMAIN tests /\ tx \in Tx /\ tx.by = p /\ tx.step = "schedule"
      /\ Launching(tx, at[p], rec) /\ tx.rec = rec /\ rec.status # "cancelled"
      /\ v \in tx.todo /\ v \in DOMAIN rec.mapping /\ rec.split # Empty /\ rec.window
    BY <1>0, <1>2, <1>3, LaunchFacts DEF Launches
<1>5. UNCHANGED <<tests, clock, audience>> /\ UNCHANGED world
      /\ (Continue([tx EXCEPT !.step = "update", !.todo = @ \ {v}]) \/ Abort(p))
    BY <1>2 DEF Continue, Abort, world
<1>6. BudgetOK' /\ CreatedOK'
    BY <1>2, SentKeeps DEF Inv, WorldOK, CreatedOK, BudgetOK
<1>7. StoredInv'
    <2>1. CASE UNCHANGED campaigns
        BY <1>2, <1>5, <2>1, AgingKeeps, UnchangedAges, WorldPasses DEF Inv, StoredInv
    <2>2. CASE campaigns' # campaigns
        <3>1. Exists(c) /\ c = rec.mapping[v] /\ SetStatus(c, "scheduled")
            BY <1>1, <1>2, <1>4, <2>2 DEF Accepts
        <3>2. c \in DOMAIN campaigns /\ campaigns[c].test = x
            BY <1>4, <3>1 DEF Inv, StoredInv, TestsOK, TestOK, NamesCampaigns, Exists
        <3> QED
            BY <1>2, <1>4, <1>5, <3>1, <3>2, SchedulingKeeps DEF Inv
    <2> QED
        BY <2>1, <2>2
<1>8. CASE Abort(p)
    BY <1>6, <1>7, <1>8, AbortKeeps
<1>9. CASE Continue([tx EXCEPT !.step = "update", !.todo = @ \ {v}])
    <2>1. PICK t : t = [tx EXCEPT !.step = "update", !.todo = @ \ {v}] /\ Continue(t)
        BY <1>9
    <2>2. t \in Tx /\ t.by = p /\ t.step = "update" /\ t.todo = tx.todo \ {v} /\ t.rec = tx.rec
        BY <1>4, <2>1 DEF Tx, Launches
    <2>3. UNCHANGED <<tests, at>>
        BY <2>1 DEF Continue
    <2>4. Launching(t, at[p], rec)'
        BY <1>4, <2>2, <2>3 DEF Launching
    <2>5. TransactionOK(t, at[p], rec)'
        BY <2>2, <2>4 DEF TransactionOK, Creates, Splits, Launches, Stops, Removes, Deploys
    <2> QED
        BY <1>2, <1>6, <1>7, <2>1, <2>2, <2>5, ContinuingKeeps
<1> QED
    BY <1>5, <1>8, <1>9

\* The launch is recorded.
LEMMA CommitLaunchKeeps ==
    ASSUME Inv, NEW p \in Procs, CommitLaunch(p)
    PROVE  Inv'
<1> DEFINE x == at[p].test
           rec == tests[x]
<1>0. PICK new : new = [tx.rec EXCEPT !.status = "scheduled", !.started = TRUE, !.pending = FALSE]
    OBVIOUS
<1>1. In(p, "update") /\ tx.todo = {} /\ Commit(p, new, "done")
    BY <1>0 DEF CommitLaunch
<1>2. /\ tx.step = "update" /\ at[p] \in [op : Operations, next : Transactions, test : DOMAIN clock]
      /\ TransactionOK(tx, at[p], rec) /\ RecordOK(rec) /\ x \in DOMAIN tests
    BY <1>1, InFacts
<1>3. Launching(tx, at[p], rec)
    BY <1>2 DEF TransactionOK, Launches
<1>4. tx.rec = rec /\ rec.split # Empty /\ rec \in Record
    BY <1>2, <1>3 DEF Launching, RecordOK
<1> HIDE DEF rec
<1>5. /\ new \in Record /\ new.status = "scheduled" /\ new.config = rec.config /\ ~new.pending
      /\ new.split = rec.split /\ new.mapping = rec.mapping /\ new.seed = rec.seed /\ new.window = rec.window
    BY <1>0, <1>4 DEF Record, TestStatus
<1>6. RecordOK(new) /\ Quiet(new)
    BY <1>2, <1>4, <1>5 DEF RecordOK, RolesOf, Quiet
<1>7. Resaves(rec, new)
    BY <1>5, <1>6 DEF Resaves, SameNames
<1> QED
    BY <1>1, <1>2, <1>7, ResavingKeeps DEF Commit, rec

-----------------------------------------------------------------------------
(* Stop                                                                    *)

\* An operation of one transaction begins.
LEMMA OpeningAtKeeps ==
    ASSUME Inv, NEW p \in Procs, NEW x, NEW op \in Operations \ {"create", "launch"}, NEW step, NEW todo,
           Enters(p, x), OpenAt(p, op, x, step, todo), NEW a, a = [op |-> op, next |-> op, test |-> x],
           TransactionOK(Opened(p, tests[x], step, todo), a, tests[x])
    PROVE  Inv'
<1>1. ~Locked /\ x \in DOMAIN tests /\ x \in DOMAIN clock
    BY DEF Enters, Inv, StoredInv, TestsOK
<1>2. Locks(p, tests[x], step, todo) /\ Comes(p, a)
    BY DEF OpenAt, Comes
<1>3. a \in [op : Operations, next : Transactions, test : DOMAIN clock] /\ a.test = x
    BY <1>1 DEF Transactions
<1>4. Reached(a, tests[x])
    BY DEF Reached
<1> QED
    BY <1>1, <1>2, <1>3, <1>4, OpeningKeeps

\* What the record of a test names, as sets of identifiers.
LEMMA NamedValues ==
    ASSUME NEW rec, RecordOK(rec)
    PROVE  /\ Values(rec.mapping) \subseteq CampaignIds /\ Values(rec.mapping) \subseteq Nat
           /\ \A v \in DOMAIN rec.mapping : rec.mapping[v] \in Values(rec.mapping)
           /\ \A r \in DOMAIN rec.split : rec.split[r] \in Values(rec.split)
BY RecordFacts, Constants DEF Values

\* A stop begins with the status of every campaign.
LEMMA BeginStopKeeps ==
    ASSUME Inv, NEW p \in Procs, NEW x, BeginStop(p, x)
    PROVE  Inv'
<1> DEFINE rec == tests[x]
<1>1. Enters(p, x) /\ ~rec.pending /\ OpenAt(p, "stop", x, "fetch", Values(rec.mapping))
    BY DEF BeginStop
<1>2. x \in DOMAIN tests /\ RecordOK(rec) /\ rec \in Record
    BY <1>1 DEF Enters, Inv, StoredInv, TestsOK, TestOK, RecordOK
<1>3. PICK a : a = [op |-> "stop", next |-> "stop", test |-> x]
    OBVIOUS
<1> HIDE DEF rec
<1>4. PICK t : t = Opened(p, rec, "fetch", Values(rec.mapping))
    OBVIOUS
<1>5. Empty \in Maps(CampaignIds, Seen) /\ DOMAIN Empty = {}
    BY EmptyMap
<1>6. t \in Tx /\ t.step = "fetch" /\ t.rec = rec /\ t.todo = Values(rec.mapping) /\ t.seen = Empty
    BY <1>2, <1>4, <1>5, NamedValues DEF Opened, Tx, Stops, AllGroups
<1>7. Stopping(t, rec)
    BY <1>1, <1>5, <1>6 DEF Stopping, rec
<1>8. TransactionOK(t, a, rec)
    BY <1>6, <1>7 DEF TransactionOK, Creates, Splits, Launches, Stops, Removes, Deploys
<1> QED
    BY <1>1, <1>3, <1>4, <1>8, OpeningAtKeeps DEF rec, Operations

\* The status of one campaign.
LEMMA FetchCampaignStatusKeeps ==
    ASSUME Inv, NEW p \in Procs, NEW c, NEW out, FetchCampaignStatus(p, c, out)
    PROVE  Inv'
<1> DEFINE rec == tests[at[p].test]
<1>0. PICK s : s = IF out = "failed" THEN "unknown" ELSE IF Exists(c) THEN campaigns[c].status ELSE "gone"
    OBVIOUS
<1>1. PICK t : t = [tx EXCEPT !.todo = @ \ {c}, !.seen = Set(@, c, s)]
    OBVIOUS
<1>2. In(p, "fetch") /\ c \in tx.todo /\ Sent(out) /\ Continue(t) /\ UNCHANGED <<campaigns, lists, created>>
    BY <1>0, <1>1 DEF FetchCampaignStatus, remote
<1>3. tx \in Tx /\ tx.by = p /\ tx.step = "fetch" /\ TransactionOK(tx, at[p], rec) /\ RecordOK(rec)
    BY <1>2, InFacts
<1>4. Stopping(tx, rec)
    BY <1>3 DEF TransactionOK, Stops
<1>5. Values(rec.mapping) \subseteq CampaignIds /\ Values(rec.mapping) = DOMAIN tx.seen \cup tx.todo
    BY <1>3, <1>4, NamedValues DEF Stopping
<1>6. s \in Seen /\ (s = "gone" => ~Exists(c)) /\ (s \in Over /\ Exists(c) => campaigns[c].status \in Over)
    BY <1>0 DEF Seen, Over, Exists, CampaignStatus, Campaign, Inv, StoredInv, CampaignsOK
<1>7. PICK m : m = Set(tx.seen, c, s)
    OBVIOUS
<1>8. m \in Maps(CampaignIds, Seen)
    BY <1>2, <1>3, <1>5, <1>6, <1>7, SetMap DEF Tx
<1>9. DOMAIN m = DOMAIN tx.seen \cup {c} /\ m[c] = s /\ \A d \in DOMAIN tx.seen : d # c => m[d] = tx.seen[d]
    BY <1>7 DEF Set
<1>10. t \in Tx /\ t.by = p /\ t.step = "fetch" /\ t.rec = tx.rec /\ t.todo = tx.todo \ {c} /\ t.seen = m
    BY <1>1, <1>3, <1>7, <1>8 DEF Tx
<1> HIDE DEF rec
<1>11. ASSUME NEW d \in DOMAIN m
       PROVE  (m[d] = "gone" => ~Exists(d)) /\ (m[d] \in Over /\ Exists(d) => campaigns[d].status \in Over)
    <2>1. CASE d = c
        BY <1>6, <1>9, <2>1
    <2>2. CASE d # c
        BY <1>4, <1>9, <2>2 DEF Stopping
    <2> QED
        BY <2>1, <2>2
<1>12. Stopping(t, rec)
    BY <1>2, <1>4, <1>5, <1>9, <1>10, <1>11 DEF Stopping
<1>13. TransactionOK(t, at[p], rec)
    BY <1>10, <1>12 DEF TransactionOK, Creates, Splits, Launches, Stops, Removes, Deploys
<1> QED
    BY <1>2, <1>10, <1>13, SentKeeps, LearningKeeps DEF rec, Inv, WorldOK

\* The statuses are known: what may send is to be cancelled.
LEMMA PlanCancelKeeps ==
    ASSUME Inv, NEW p \in Procs, PlanCancel(p)
    PROVE  Inv'
<1> DEFINE rec == tests[at[p].test]
<1>1. PICK t : t = [tx EXCEPT !.step = "act", !.todo = DOMAIN tx.seen]
    OBVIOUS
<1>2. In(p, "fetch") /\ tx.todo = {} /\ Continue(t) /\ UNCHANGED <<campaigns, lists, created, budget>>
    BY <1>1 DEF PlanCancel, remote
<1>3. tx \in Tx /\ tx.by = p /\ tx.step = "fetch" /\ TransactionOK(tx, at[p], rec) /\ RecordOK(rec)
    BY <1>2, InFacts
<1>4. Stopping(tx, rec)
    BY <1>3 DEF TransactionOK, Stops
<1>5. Values(rec.mapping) \subseteq Nat /\ Values(rec.mapping) = DOMAIN tx.seen
    BY <1>2, <1>3, <1>4, NamedValues DEF Stopping
<1>6. t \in Tx /\ t.by = p /\ t.step = "act" /\ t.rec = tx.rec /\ t.todo = DOMAIN tx.seen /\ t.seen = tx.seen
    BY <1>1, <1>3, <1>5 DEF Tx, Stops
<1> HIDE DEF rec
<1>7. Stopping(t, rec)
    BY <1>4, <1>5, <1>6 DEF Stopping
<1>8. TransactionOK(t, at[p], rec)
    BY <1>6, <1>7 DEF TransactionOK, Creates, Splits, Launches, Stops, Removes, Deploys
<1>9. BudgetOK'
    BY <1>2 DEF Inv, WorldOK, BudgetOK
<1> QED
    BY <1>2, <1>6, <1>8, <1>9, LearningKeeps DEF rec

\* One campaign has been acted upon, or is among the errors, while all of them aged.
LEMMA ActedKeeps ==
    ASSUME Inv, NEW p \in Procs, In(p, "act"), NEW c \in tx.todo, NEW t \in Tx, Continue(t),
           t.by = p, t.step = "act", t.rec = tx.rec, t.seen = tx.seen, t.todo = tx.todo \ {c}, tx.errors \subseteq t.errors,
           Ages, UNCHANGED <<lists, created>>, BudgetOK', c \in t.errors \/ ActedOn(c, t.seen[c])'
    PROVE  Inv'
<1> DEFINE rec == tests[at[p].test]
<1>1. tx.step = "act" /\ TransactionOK(tx, at[p], rec)
    BY InFacts
<1>2. Stopping(tx, rec)
    BY <1>1 DEF TransactionOK, Stops
<1>3. UNCHANGED <<tests, at>> /\ tx' = t /\ Passes
    BY WorldPasses DEF Continue, Inv, StoredInv
<1>4. StoredInv' /\ CreatedOK'
    BY <1>3, AgingKeeps DEF Inv, WorldOK, CreatedOK
<1> HIDE DEF rec
<1>5. rec' = rec
    BY <1>3 DEF rec
<1>6. ASSUME NEW d, Exists(d)'
      PROVE  /\ Exists(d) /\ (campaigns[d].status \in Over => campaigns'[d].status = campaigns[d].status)
    BY <1>6 DEF Ages, Exists
<1>7. ASSUME NEW d \in DOMAIN t.seen
      PROVE  /\ t.seen[d] = "gone" => ~Exists(d)'
             /\ t.seen[d] \in Over /\ Exists(d)' => campaigns'[d].status \in Over
    BY <1>2, <1>6 DEF Stopping
<1>8. ASSUME NEW d \in DOMAIN t.seen \ (t.todo \cup t.errors)
      PROVE  ActedOn(d, t.seen[d])'
    <2>1. CASE d = c
        BY <1>8, <2>1
    <2>2. CASE d # c
        <3>1. ActedOn(d, t.seen[d])
            BY <1>1, <1>2, <1>8, <2>2 DEF Stopping
        <3> QED
            BY <1>3, <1>6, <3>1 DEF ActedOn, Over, Planned
    <2> QED
        BY <2>1, <2>2
<1>9. Stopping(t, rec)'
    BY <1>1, <1>2, <1>5, <1>7, <1>8 DEF Stopping
<1>10. TransactionOK(t, at[p], rec)'
    BY <1>9 DEF TransactionOK, Creates, Splits, Launches, Stops, Removes, Deploys
<1> QED
    BY <1>4, <1>10, ContinuingKeeps DEF rec

\* A campaign is cancelled or deleted by a status that may be out of date.
LEMMA ActOnCampaignKeeps ==
    ASSUME Inv, NEW p \in Procs, NEW c, NEW out, ActOnCampaign(p, c, out)
    PROVE  Inv'
<1>0. PICK action : action = Planned(tx.seen[c])
    OBVIOUS
<1> DEFINE legal == IF action = "cancel" THEN Accepts(c, "cancelled") ELSE Deletable(c)
           finished == [tx EXCEPT !.todo = @ \ {c}]
           failed == [finished EXCEPT !.errors = @ \cup {c}]
<1>1. In(p, "act") /\ c \in tx.todo /\ UNCHANGED <<lists, created>>
    BY DEF ActOnCampaign
<1>2. tx \in Tx /\ tx.by = p /\ tx.step = "act"
    BY <1>1, InFacts
<1>3. c \in Nat /\ action \in {"cancel", "leave", "delete"}
    BY <1>0, <1>1, <1>2 DEF Tx, Planned
<1>4. /\ finished \in Tx /\ finished.by = p /\ finished.step = "act" /\ finished.rec = tx.rec /\ finished.seen = tx.seen
      /\ finished.todo = tx.todo \ {c} /\ finished.errors = tx.errors
    BY <1>2 DEF Tx
<1>5. /\ failed \in Tx /\ failed.by = p /\ failed.step = "act" /\ failed.rec = tx.rec /\ failed.seen = tx.seen
      /\ failed.todo = tx.todo \ {c} /\ failed.errors = tx.errors \cup {c}
    BY <1>2, <1>3 DEF Tx
<1>6. CASE (action = "leave" \/ ~Exists(c)) /\ Continue(finished) /\ UNCHANGED <<campaigns, budget>>
    <2>1. PICK t : t = finished
        OBVIOUS
    <2> HIDE DEF finished, failed, legal
    <2>2. ActedOn(c, t.seen[c])'
        BY <1>0, <1>4, <1>6, <2>1 DEF ActedOn, Exists, Planned
    <2>3. Ages /\ BudgetOK'
        BY <1>6, UnchangedAges DEF Inv, StoredInv, WorldOK, BudgetOK
    <2> QED
        BY <1>1, <1>4, <1>6, <2>1, <2>2, <2>3, ActedKeeps
<1>7. CASE Continue(failed) /\ UNCHANGED <<campaigns, budget>>
    <2> HIDE DEF finished, failed, legal
    <2>3. Ages /\ BudgetOK'
        BY <1>7, UnchangedAges DEF Inv, StoredInv, WorldOK, BudgetOK
    <2> QED
        BY <1>1, <1>5, <1>7, <2>3, ActedKeeps
<1>8. CASE /\ action # "leave" /\ Exists(c) /\ legal /\ Sent(out)
           /\ IF ~Done(out) THEN UNCHANGED campaigns
              ELSE IF action = "cancel" THEN SetStatus(c, "cancelled") ELSE RemoveCampaigns({c})
           /\ Continue(IF out # "ok" THEN failed
                       ELSE [finished EXCEPT !.made = IF action = "delete" THEN @ \cup {c} ELSE @])
    <2>1. Ages
        <3>1. CASE ~Done(out)
            BY <1>8, <3>1, UnchangedAges DEF Inv, StoredInv
        <3>2. CASE Done(out) /\ action = "cancel"
            BY <1>8, <3>2, AcceptedAges DEF Inv, StoredInv
        <3>3. CASE Done(out) /\ action # "cancel"
            BY <1>8, <3>3, RemovalAges DEF Inv, StoredInv
        <3> QED
            BY <3>1, <3>2, <3>3
    <2>2. BudgetOK'
        BY <1>8, SentKeeps DEF Inv, WorldOK
    <2>3. CASE out # "ok"
        <3>1. Continue(failed)
            BY <1>8, <2>3
        <3> HIDE DEF finished, failed, legal
        <3> QED
            BY <1>1, <1>5, <2>1, <2>2, <3>1, ActedKeeps
    <2>4. CASE out = "ok"
        <3>1. PICK t : t = [finished EXCEPT !.made = IF action = "delete" THEN @ \cup {c} ELSE @] /\ Continue(t)
            BY <1>8, <2>4
        <3>2. /\ t \in Tx /\ t.by = p /\ t.step = "act" /\ t.rec = tx.rec /\ t.seen = tx.seen
              /\ t.todo = tx.todo \ {c} /\ t.errors = tx.errors
            <4> HIDE DEF finished
            <4> QED
                BY <1>3, <1>4, <3>1 DEF Tx
        <3>3. ActedOn(c, t.seen[c])'
            <4>1. CASE action = "cancel"
                <5>1. SetStatus(c, "cancelled")
                    BY <1>8, <2>4, <4>1 DEF Done
                <5>2. campaigns \in [DOMAIN campaigns -> Campaign] /\ c \in DOMAIN campaigns
                    BY <1>8 DEF Inv, StoredInv, CampaignsOK, Exists
                <5>3. campaigns'[c].status = "cancelled"
                    BY <5>1, <5>2 DEF SetStatus, Campaign
                <5> QED
                    BY <1>0, <3>2, <4>1, <5>3 DEF ActedOn, Planned
            <4>2. CASE action = "delete"
                <5>1. RemoveCampaigns({c})
                    BY <1>8, <2>4, <4>2 DEF Done
                <5>2. ~Exists(c)'
                    BY <5>1, RemovalAges DEF Exists, Inv, StoredInv
                <5> QED
                    BY <5>2 DEF ActedOn
            <4> QED
                BY <1>3, <1>8, <4>1, <4>2
        <3> HIDE DEF finished, failed, legal
        <3> QED
            BY <1>1, <2>1, <2>2, <3>1, <3>2, <3>3, ActedKeeps
    <2> QED
        BY <2>3, <2>4
<1> QED
    BY <1>0, <1>6, <1>7, <1>8 DEF ActOnCampaign

\* Everything was acted upon without an error and nothing survives, so nothing is there.
LEMMA NothingSurvives ==
    ASSUME NEW t, NEW rec, Stopping(t, rec), t.step = "act", t.todo = {}, t.errors = {}
    PROVE  /\ Surviving(t) = {} => \A c \in Values(rec.mapping) : ~Exists(c)
           /\ (\A c \in DOMAIN t.seen : t.seen[c] # "unknown") =>
                \A c \in Values(rec.mapping) : Exists(c) => campaigns[c].status \in Over
<1>1. ASSUME NEW c \in Values(rec.mapping)
      PROVE  /\ c \in DOMAIN t.seen /\ ActedOn(c, t.seen[c])
             /\ t.seen[c] = "gone" => ~Exists(c)
             /\ t.seen[c] \in Over /\ Exists(c) => campaigns[c].status \in Over
    BY DEF Stopping
<1>2. ASSUME NEW c \in Values(rec.mapping), Surviving(t) = {} PROVE ~Exists(c)
    BY <1>1, <1>2 DEF Surviving, ActedOn, Planned
<1>3. ASSUME NEW c \in Values(rec.mapping), t.seen[c] # "unknown", Exists(c) PROVE campaigns[c].status \in Over
    BY <1>1, <1>3 DEF ActedOn, Planned, Over
<1> QED
    BY <1>1, <1>2, <1>3

\* The lists a record names, when no campaign it names is there, may go.
LEMMA NamedAreSpare ==
    ASSUME StoredInv, NEW x \in DOMAIN tests, NEW S \in SUBSET Values(tests[x].split),
           \A c \in Values(tests[x].mapping) : ~Exists(c)
    PROVE  Spare(S)
<1>1. NamesLists(x, tests[x]) /\ RecordOK(tests[x])
    BY DEF StoredInv, TestsOK, TestOK
<1>2. ASSUME NEW l \in S \cap DOMAIN lists PROVE lists[l].test = x
    BY <1>1 DEF NamesLists, Values
<1>3. \A v \in DOMAIN tests[x].mapping : ~Exists(tests[x].mapping[v])
    BY <1>1, NamedValues
<1> QED
    BY <1>2, <1>3 DEF Spare

\* Removing spare lists takes none from a campaign that may send.
LEMMA RemovalUnlists ==
    ASSUME ListsOK, NEW S, RemoveLists(S)
    PROVE  Unlists(S)
BY DEF RemoveLists, Without, Unlists, ListsOK

\* A test is recorded as cancelled, and a list goes, only when nothing can send to it.
LEMMA FinishStopKeeps ==
    ASSUME Inv, NEW p \in Procs, FinishStop(p)
    PROVE  Inv'
<1> DEFINE x == at[p].test
           rec == tests[x]
           mine == {l \in Values(tx.rec.split) : l \in DOMAIN lists}
<1>1. PICK kept \in SUBSET mine :
        LET gone == IF Surviving(tx) = {} THEN mine \ kept ELSE {} IN
        /\ RemoveLists(gone) /\ Fail(Cardinality(kept))
        /\ IF Stopped(tx, kept)
           THEN /\ tests' = Set(tests, x, [tx.rec EXCEPT !.status = "cancelled"])
                /\ tx' = NoTx /\ Proceed(p, "done") /\ UNCHANGED world
           ELSE Abort(p)
    BY DEF FinishStop
<1>2. PICK gone : gone = IF Surviving(tx) = {} THEN mine \ kept ELSE {}
    OBVIOUS
<1>3. In(p, "act") /\ tx.todo = {} /\ UNCHANGED <<campaigns, created>> /\ RemoveLists(gone) /\ Fail(Cardinality(kept))
    BY <1>1, <1>2 DEF FinishStop
<1>4. /\ tx.step = "act" /\ TransactionOK(tx, at[p], rec) /\ RecordOK(rec) /\ x \in DOMAIN tests /\ TestOK(x)
      /\ at[p] \in [op : Operations, next : Transactions, test : DOMAIN clock]
    BY <1>3, InFacts
<1>5. Stopping(tx, rec)
    BY <1>4 DEF TransactionOK, Stops
<1>6. tx.rec = rec /\ ~rec.pending /\ rec \in Record
    BY <1>4, <1>5 DEF Stopping, RecordOK
<1>7. Spare(gone)
    <2>1. CASE Surviving(tx) = {}
        <3>1. tx.errors = {}
            BY <2>1 DEF Surviving
        <3>2. \A c \in Values(rec.mapping) : ~Exists(c)
            BY <1>3, <1>4, <1>5, <2>1, <3>1, NothingSurvives
        <3>3. gone \in SUBSET Values(rec.split)
            BY <1>2, <1>6, <2>1
        <3> QED
            BY <1>4, <3>2, <3>3, NamedAreSpare DEF Inv
    <2>2. CASE Surviving(tx) # {}
        BY <1>2, <2>2 DEF Spare
    <2> QED
        BY <2>1, <2>2
<1>8. Unlists(gone) /\ Ages /\ BudgetOK' /\ CreatedOK'
    BY <1>3, RemovalUnlists, UnchangedAges, FailKeeps DEF Inv, StoredInv, WorldOK, CreatedOK
<1>9. CASE Stopped(tx, kept)
    <2>1. PICK new : new = [rec EXCEPT !.status = "cancelled"]
        OBVIOUS
    <2>2. /\ tests' = Set(tests, x, new) /\ tx' = NoTx /\ Proceed(p, "done") /\ UNCHANGED world
        BY <1>1, <1>2, <1>6, <1>9, <2>1
    <2>3. tx.errors = {} /\ \A c \in DOMAIN tx.seen : tx.seen[c] # "unknown"
        BY <1>9 DEF Stopped
    <2>4. \A c \in Values(rec.mapping) : Exists(c) => campaigns[c].status \in Over
        BY <1>3, <1>4, <1>5, <2>3, NothingSurvives
    <2> HIDE DEF rec
    <2>5. /\ new \in Record /\ new.status = "cancelled" /\ new.config = rec.config /\ new.pending = rec.pending
          /\ new.split = rec.split /\ new.mapping = rec.mapping /\ new.seed = rec.seed /\ new.window = rec.window
        BY <1>6, <2>1 DEF Record, TestStatus
    <2>6. RecordOK(new)
        BY <1>4, <1>6, <2>5 DEF RecordOK, RolesOf
    <2>7. Quiet(new)
        BY <1>4, <2>4, <2>5, NamedValues DEF Quiet
    <2>8. SameNames(rec, new) /\ Keeps(rec, new)
        BY <2>5 DEF SameNames, Keeps
    <2>9. DOMAIN tests' = DOMAIN tests /\ tests'[x] = new /\ \A y \in DOMAIN tests : y # x => tests'[y] = tests[y]
        BY <1>4, <2>2 DEF Set
    <2>10. Settles
        <3>1. ASSUME NEW y \in DOMAIN tests'
              PROVE  RecordOK(tests'[y]) /\ SameNames(tests[y], tests'[y]) /\ Quiet(tests'[y])
            <4>1. CASE y = x
                BY <2>6, <2>7, <2>8, <2>9, <4>1 DEF rec
            <4>2. CASE y # x
                BY <2>9, <4>2 DEF Inv, StoredInv, TestsOK, TestOK, SameNames
            <4> QED
                BY <4>1, <4>2
        <3> QED
            BY <2>9, <3>1 DEF Settles
    <2>11. Passes
        BY <2>2, WorldPasses DEF Inv, StoredInv
    <2>12. StoredInv'
        BY <1>3, <1>7, <1>8, <2>10, <2>11, SettlingKeeps DEF Inv
    <2>13. Progress
        BY <2>2, <2>8, <2>9, KeepsReflexive DEF Progress, world, Inv, StoredInv, TestsOK, rec
    <2>14. at' = [at EXCEPT ![p] = Idle] /\ operator' = operator
        BY <1>4, <2>2, ProceedFacts DEF world
    <2> QED
        BY <1>8, <2>2, <2>12, <2>13, <2>14, MovingKeeps
<1>10. CASE ~Stopped(tx, kept)
    <2>1. Abort(p)
        BY <1>1, <1>10
    <2>2. UNCHANGED tests /\ Passes /\ Settles
        BY <2>1, WorldPasses, UnchangedSettles DEF Abort, Inv, StoredInv
    <2>3. StoredInv'
        BY <1>3, <1>7, <1>8, <2>2, SettlingKeeps DEF Inv
    <2> QED
        BY <1>8, <2>1, <2>3, AbortKeeps
<1> QED
    BY <1>9, <1>10

-----------------------------------------------------------------------------
(* Deletion                                                                *)

LEMMA BeginDeleteKeeps ==
    ASSUME Inv, NEW p \in Procs, NEW x, BeginDelete(p, x)
    PROVE  Inv'
<1> DEFINE rec == tests[x]
<1>1. Enters(p, x)
    BY DEF BeginDelete
<1>2. x \in DOMAIN tests /\ RecordOK(rec) /\ rec \in Record /\ tx = NoTx
    BY <1>1, Unlocked DEF Enters, Inv, StoredInv, TestsOK, TestOK, RecordOK
<1>3. CASE /\ tests' = Without(tests, {x})
           /\ UNCHANGED <<at, tx, budget>> /\ UNCHANGED remote /\ UNCHANGED world
    <2>1. DOMAIN tests' = DOMAIN tests \ {x} /\ \A y \in DOMAIN tests' : tests'[y] = tests[y]
        BY <1>3 DEF Without
    <2>2. Settles /\ Progress
        BY <1>3, <2>1, KeepsReflexive DEF Settles, SameNames, Progress, Inv, StoredInv, TestsOK, TestOK, world
    <2>3. Passes /\ Ages /\ Unlists({}) /\ Spare({}) /\ UNCHANGED created
        BY <1>3, WorldPasses, UnchangedAges, UnchangedUnlists DEF Inv, StoredInv, remote
    <2>4. StoredInv'
        BY <2>2, <2>3, SettlingKeeps DEF Inv
    <2>5. ProcsOK' /\ TxOK'
        BY <1>2, <1>3, <2>2, ProcsStay, NoTxOK DEF Inv
    <2> QED
        BY <1>3, <2>4, <2>5 DEF Inv, WorldOK, CreatedOK, BudgetOK, remote, world
<1>4. CASE OpenAt(p, "delete", x, "look", Values(rec.mapping) \cup ({rec.winner} \ {0}))
    <2>1. PICK a, todo : a = [op |-> "delete", next |-> "delete", test |-> x]
                         /\ todo = Values(rec.mapping) \cup ({rec.winner} \ {0})
        OBVIOUS
    <2> HIDE DEF rec
    <2>2. todo \subseteq Nat /\ Values(rec.mapping) \subseteq todo
        BY <1>2, <2>1, NamedValues, Constants DEF Record
    <2>3. PICK t : t = Opened(p, rec, "look", todo)
        OBVIOUS
    <2>4. t \in Tx /\ t.step = "look" /\ t.rec = rec /\ t.todo = todo
        BY <1>2, <2>2, <2>3, EmptyMap DEF Opened, Tx, Removes, AllGroups
    <2>5. Removing(t, rec)
        BY <2>2, <2>4 DEF Removing
    <2>6. TransactionOK(t, a, rec)
        BY <2>4, <2>5 DEF TransactionOK, Creates, Splits, Launches, Stops, Removes, Deploys
    <2> QED
        BY <1>1, <1>4, <2>1, <2>3, <2>6, OpeningAtKeeps DEF rec, Operations
<1> QED
    BY <1>3, <1>4 DEF BeginDelete

\* What a deletion knows of the campaign whose turn it is.
LEMMA RemovingFacts ==
    ASSUME Inv, NEW p \in Procs, NEW step \in Removes, In(p, step), step # "look" \/ tx.todo # {}
    PROVE  /\ tx \in Tx /\ tx.by = p /\ tx.step = step /\ tx.todo # {} /\ Least(tx.todo) \in tx.todo /\ Least(tx.todo) \in Nat
           /\ Removing(tx, tests[at[p].test]) /\ at[p].test \in DOMAIN tests
<1>1. /\ tx \in Tx /\ tx.by = p /\ tx.step = step /\ at[p].test \in DOMAIN tests
      /\ TransactionOK(tx, at[p], tests[at[p].test])
    BY InFacts
<1>2. Removing(tx, tests[at[p].test])
    BY <1>1 DEF TransactionOK
<1>3. tx.todo # {} /\ tx.todo \subseteq Nat
    BY <1>1, <1>2 DEF Removing, Tx
<1>4. Least(tx.todo) \in tx.todo
    BY <1>3, LeastIn
<1> QED
    BY <1>1, <1>2, <1>3, <1>4

\* A deletion goes on while campaigns age; what it has done with is gone or among the errors.
LEMMA RemovingKeeps ==
    ASSUME Inv, NEW p \in Procs, NEW step \in Removes, In(p, step), NEW t \in Tx, Continue(t), t.by = p, t.step \in Removes,
           t.rec = tx.rec, Removing(tx, tests[at[p].test]), t.step # "look" => t.todo # {}, tx.errors \subseteq t.errors,
           NEW c, tx.todo \ {c} \subseteq t.todo, c \in t.todo \cup t.errors \/ ~Exists(c)',
           Ages, UNCHANGED <<lists, created>>, BudgetOK'
    PROVE  Inv'
<1> DEFINE rec == tests[at[p].test]
<1>1. UNCHANGED <<tests, at>> /\ tx' = t /\ Passes
    BY WorldPasses DEF Continue, Inv, StoredInv
<1>2. StoredInv' /\ CreatedOK'
    BY <1>1, AgingKeeps DEF Inv, WorldOK, CreatedOK
<1> HIDE DEF rec
<1>3. rec' = rec /\ Removing(tx, rec)
    BY <1>1 DEF rec
<1>4. ASSUME NEW d \in Values(rec.mapping) \ (t.todo \cup t.errors) PROVE ~Exists(d)'
    <2>1. CASE d = c
        BY <1>4, <2>1
    <2>2. CASE d # c
        <3>1. ~Exists(d)
            BY <1>3, <1>4, <2>2 DEF Removing
        <3> QED
            BY <3>1 DEF Ages, Exists
    <2> QED
        BY <2>1, <2>2
<1>5. Removing(t, rec)'
    BY <1>3, <1>4 DEF Removing, Values
<1>6. TransactionOK(t, at[p], rec)'
    BY <1>5 DEF TransactionOK, Creates, Splits, Launches, Stops, Removes, Deploys
<1> QED
    BY <1>2, <1>6, ContinuingKeeps DEF rec

\* The transaction t goes on from the campaign c: done with it, or still at it.
SkipsTo(t, c, errors) ==
    /\ t \in Tx /\ t.by = tx.by /\ t.rec = tx.rec /\ t.errors = errors
    /\ t.step = "look" /\ t.todo = tx.todo \ {c}

StaysAt(t, step) ==
    /\ t \in Tx /\ t.by = tx.by /\ t.rec = tx.rec /\ t.errors = tx.errors
    /\ t.step = step /\ t.todo = tx.todo

\* Skip takes the campaign at hand off what is to do.
LEMMA SkipFacts ==
    ASSUME tx \in Tx, NEW c, c = Least(tx.todo), NEW errors \in SUBSET Nat, NEW t, t = Skip(tx, errors)
    PROVE  SkipsTo(t, c, errors)
BY DEF Skip, Tx, Removes, SkipsTo

\* The other steps of a deletion stay with the campaign at hand.
LEMMA StayFacts ==
    ASSUME tx \in Tx, NEW step \in Removes, NEW t, t = [tx EXCEPT !.step = step]
    PROVE  StaysAt(t, step)
BY DEF Tx, StaysAt

\* A campaign is skipped when it is gone or has become an error.
LEMMA SkippingKeeps ==
    ASSUME Inv, NEW p \in Procs, NEW step \in Removes, In(p, step), step # "look" \/ tx.todo # {},
           NEW c, c = Least(tx.todo), NEW errors, Continue(Skip(tx, errors)),
           errors = tx.errors \cup {c} \/ (errors = tx.errors /\ ~Exists(c)'),
           Ages, UNCHANGED <<lists, created>>, BudgetOK'
    PROVE  Inv'
<1>1. tx \in Tx /\ tx.by = p /\ c \in Nat /\ Removing(tx, tests[at[p].test])
    BY RemovingFacts
<1>2. errors \in SUBSET Nat
    BY <1>1 DEF Tx
<1>3. PICK t : t = Skip(tx, errors) /\ Continue(t)
    OBVIOUS
<1>4. SkipsTo(t, c, errors)
    BY <1>1, <1>2, <1>3, SkipFacts
<1>5. /\ t \in Tx /\ t.by = p /\ t.rec = tx.rec /\ t.step \in Removes /\ t.step = "look" /\ tx.errors \subseteq t.errors
      /\ tx.todo \ {c} \subseteq t.todo /\ (c \in t.todo \cup t.errors \/ ~Exists(c)')
    BY <1>1, <1>4 DEF SkipsTo, Removes
<1> QED
    BY <1>1, <1>3, <1>5, RemovingKeeps

\* A step that stays with the campaign at hand.
LEMMA StayingKeeps ==
    ASSUME Inv, NEW p \in Procs, NEW step \in Removes, In(p, step), step # "look" \/ tx.todo # {},
           NEW next \in {"cancel", "delete"}, Continue([tx EXCEPT !.step = next]),
           Ages, UNCHANGED <<lists, created>>, BudgetOK'
    PROVE  Inv'
<1>1. tx \in Tx /\ tx.by = p /\ tx.todo # {} /\ Least(tx.todo) \in tx.todo /\ Removing(tx, tests[at[p].test])
    BY RemovingFacts
<1>2. PICK t : t = [tx EXCEPT !.step = next] /\ Continue(t)
    OBVIOUS
<1>3. StaysAt(t, next)
    BY <1>1, <1>2, StayFacts DEF Removes
<1>4. PICK c : c = Least(tx.todo)
    OBVIOUS
<1>5. /\ t \in Tx /\ t.by = p /\ t.rec = tx.rec /\ t.step \in Removes /\ t.todo # {} /\ tx.errors \subseteq t.errors
      /\ tx.todo \ {c} \subseteq t.todo /\ c \in t.todo \cup t.errors
    BY <1>1, <1>3, <1>4 DEF StaysAt, Removes
<1> QED
    BY <1>1, <1>2, <1>5, RemovingKeeps

\* The status of the next campaign is looked at.
LEMMA LookAtCampaignKeeps ==
    ASSUME Inv, NEW p \in Procs, NEW out, LookAtCampaign(p, out)
    PROVE  Inv'
<1>0. PICK c : c = Least(tx.todo)
    OBVIOUS
<1>1. /\ In(p, "look") /\ tx.todo # {} /\ Sent(out) /\ UNCHANGED <<campaigns, lists, created>>
      /\ Continue(IF out = "failed" THEN Skip(tx, tx.errors \cup {c})
                  ELSE IF ~Exists(c) THEN Skip(tx, tx.errors)
                  ELSE [tx EXCEPT !.step = IF campaigns[c].status = "running" THEN "cancel" ELSE "delete"])
    BY <1>0 DEF LookAtCampaign, remote
<1>2. BudgetOK' /\ Ages /\ "look" \in Removes
    BY <1>1, SentKeeps, UnchangedAges DEF Inv, WorldOK, StoredInv, Removes
<1>3. CASE Continue(Skip(tx, tx.errors \cup {c}))
    <2>1. PICK errors : errors = tx.errors \cup {c}
        OBVIOUS
    <2> QED
        BY <1>0, <1>1, <1>2, <1>3, <2>1, SkippingKeeps
<1>4. CASE ~Exists(c) /\ Continue(Skip(tx, tx.errors))
    <2>1. PICK errors : errors = tx.errors
        OBVIOUS
    <2>2. ~Exists(c)'
        BY <1>1, <1>4 DEF Exists
    <2> QED
        BY <1>0, <1>1, <1>2, <1>4, <2>1, <2>2, SkippingKeeps
<1>5. CASE \E next \in {"cancel", "delete"} : Continue([tx EXCEPT !.step = next])
    BY <1>1, <1>2, <1>5, StayingKeeps
<1> QED
    BY <1>1, <1>3, <1>4, <1>5

\* A running campaign is cancelled before it is deleted.
LEMMA CancelBeforeDeleteKeeps ==
    ASSUME Inv, NEW p \in Procs, NEW out, CancelBeforeDelete(p, out)
    PROVE  Inv'
<1>0. PICK c : c = Least(tx.todo)
    OBVIOUS
<1>1. In(p, "cancel") /\ UNCHANGED <<lists, created>> /\ "cancel" \in Removes
    BY DEF CancelBeforeDelete, Removes
<1>2. \/ /\ Accepts(c, "cancelled") /\ Sent(out)
         /\ IF Done(out) THEN SetStatus(c, "cancelled") ELSE UNCHANGED campaigns
         /\ Continue(IF out = "ok" THEN [tx EXCEPT !.step = "delete"] ELSE Skip(tx, tx.errors \cup {c}))
      \/ /\ UNCHANGED <<campaigns, budget>>
         /\ Continue(IF Exists(c) THEN Skip(tx, tx.errors \cup {c}) ELSE [tx EXCEPT !.step = "delete"])
    BY <1>0 DEF CancelBeforeDelete
<1>3. Ages
    BY <1>2, AcceptedAges, UnchangedAges DEF Inv, StoredInv
<1>4. BudgetOK'
    BY <1>2, SentKeeps DEF Inv, WorldOK, BudgetOK
<1>5. CASE Continue(Skip(tx, tx.errors \cup {c}))
    <2>1. PICK errors : errors = tx.errors \cup {c}
        OBVIOUS
    <2> QED
        BY <1>0, <1>1, <1>3, <1>4, <1>5, <2>1, SkippingKeeps
<1>6. CASE Continue([tx EXCEPT !.step = "delete"])
    BY <1>1, <1>3, <1>4, <1>6, StayingKeeps
<1> QED
    BY <1>2, <1>5, <1>6

\* The campaign is deleted.
LEMMA DeleteTestCampaignKeeps ==
    ASSUME Inv, NEW p \in Procs, NEW out, DeleteTestCampaign(p, out)
    PROVE  Inv'
<1>0. PICK c : c = Least(tx.todo)
    OBVIOUS
<1>1. In(p, "delete") /\ UNCHANGED <<lists, created>> /\ "delete" \in Removes
    BY DEF DeleteTestCampaign, Removes
<1>2. \/ /\ Sent(out)
         /\ IF Done(out) THEN RemoveCampaigns({c}) ELSE UNCHANGED campaigns
         /\ Continue(Skip(tx, IF out = "ok" THEN tx.errors ELSE tx.errors \cup {c}))
      \/ /\ UNCHANGED <<campaigns, budget>>
         /\ Continue(Skip(tx, IF Exists(c) THEN tx.errors \cup {c} ELSE tx.errors))
    BY <1>0 DEF DeleteTestCampaign
<1>3. Ages
    BY <1>2, RemovalAges, UnchangedAges DEF Inv, StoredInv
<1>4. BudgetOK'
    BY <1>2, SentKeeps DEF Inv, WorldOK, BudgetOK
<1>5. PICK errors : Continue(Skip(tx, errors)) /\ (errors = tx.errors \cup {c} \/ (errors = tx.errors /\ ~Exists(c)'))
    <2>1. CASE /\ Sent(out)
               /\ IF Done(out) THEN RemoveCampaigns({c}) ELSE UNCHANGED campaigns
               /\ Continue(Skip(tx, IF out = "ok" THEN tx.errors ELSE tx.errors \cup {c}))
        <3>1. CASE out = "ok"
            <4>1. ~Exists(c)'
                BY <2>1, <3>1, RemovalAges DEF Done, Exists, Inv, StoredInv
            <4> QED
                BY <2>1, <3>1, <4>1
        <3>2. CASE out # "ok"
            BY <2>1, <3>2
        <3> QED
            BY <3>1, <3>2
    <2>2. CASE /\ UNCHANGED <<campaigns, budget>>
               /\ Continue(Skip(tx, IF Exists(c) THEN tx.errors \cup {c} ELSE tx.errors))
        <3>1. Exists(c)' <=> Exists(c)
            BY <2>2 DEF Exists
        <3> QED
            BY <2>2, <3>1
    <2> QED
        BY <1>2, <2>1, <2>2
<1> QED
    BY <1>0, <1>1, <1>3, <1>4, <1>5, SkippingKeeps

\* The record goes when everything it names is gone.
LEMMA FinishDeleteKeeps ==
    ASSUME Inv, NEW p \in Procs, FinishDelete(p)
    PROVE  Inv'
<1> DEFINE x == at[p].test
           rec == tests[x]
           mine == {l \in Values(tx.rec.split) : l \in DOMAIN lists}
<1>1. In(p, "look") /\ tx.todo = {} /\ UNCHANGED <<campaigns, created>>
    BY DEF FinishDelete
<1>2. /\ tx.step = "look" /\ TransactionOK(tx, at[p], rec) /\ RecordOK(rec) /\ x \in DOMAIN tests
      /\ at[p] \in [op : Operations, next : Transactions, test : DOMAIN clock]
    BY <1>1, InFacts
<1>3. Removing(tx, rec) /\ tx.rec = rec
    BY <1>2 DEF TransactionOK, Removes, Removing
<1>4. CASE Abort(p) /\ UNCHANGED <<lists, budget>>
    BY <1>1, <1>4, AbortAging, UnchangedAges DEF Inv, StoredInv, WorldOK, BudgetOK
<1>5. CASE Deletes(tx)
    <2>1. PICK kept \in SUBSET mine :
            /\ RemoveLists(mine \ kept) /\ Fail(Cardinality(kept))
            /\ IF kept = {} THEN /\ tests' = Without(tests, {x})
                                 /\ tx' = NoTx /\ Proceed(p, "done") /\ UNCHANGED world
                            ELSE Abort(p)
        BY <1>5 DEF FinishDelete
    <2>2. \A c \in Values(rec.mapping) : ~Exists(c)
        BY <1>1, <1>3, <1>5 DEF Deletes, Removing
    <2>3. PICK gone : gone = mine \ kept
        OBVIOUS
    <2>4. gone \in SUBSET Values(rec.split)
        BY <1>3, <2>3
    <2>5. Spare(gone)
        BY <1>2, <2>2, <2>4, NamedAreSpare DEF Inv
    <2>6. Unlists(gone) /\ Ages /\ BudgetOK' /\ CreatedOK'
        BY <1>1, <2>1, <2>3, RemovalUnlists, UnchangedAges, FailKeeps DEF Inv, StoredInv, WorldOK, CreatedOK
    <2>7. CASE kept = {}
        <3>1. tests' = Without(tests, {x}) /\ tx' = NoTx /\ Proceed(p, "done") /\ UNCHANGED world
            BY <2>1, <2>7
        <3>2. DOMAIN tests' = DOMAIN tests \ {x} /\ \A y \in DOMAIN tests' : tests'[y] = tests[y]
            BY <3>1 DEF Without
        <3>3. Settles /\ Progress
            BY <3>1, <3>2, KeepsReflexive DEF Settles, SameNames, Progress, Inv, StoredInv, TestsOK, TestOK, world
        <3>4. Passes
            BY <3>1, WorldPasses DEF Inv, StoredInv
        <3>5. StoredInv'
            BY <1>1, <2>5, <2>6, <3>3, <3>4, SettlingKeeps DEF Inv
        <3>6. at' = [at EXCEPT ![p] = Idle] /\ operator' = operator
            BY <1>2, <3>1, ProceedFacts DEF world
        <3> QED
            BY <2>6, <3>1, <3>3, <3>5, <3>6, MovingKeeps
    <2>8. CASE kept # {}
        <3>1. Abort(p)
            BY <2>1, <2>8
        <3>2. UNCHANGED tests /\ Passes /\ Settles
            BY <3>1, WorldPasses, UnchangedSettles DEF Abort, Inv, StoredInv
        <3>3. StoredInv'
            BY <1>1, <2>5, <2>6, <3>2, SettlingKeeps DEF Inv
        <3> QED
            BY <2>6, <3>1, <3>3, AbortKeeps
    <2> QED
        BY <2>7, <2>8
<1> QED
    BY <1>4, <1>5 DEF FinishDelete

-----------------------------------------------------------------------------
(* Progress and the winner                                                 *)

LEMMA AdvanceKeeps ==
    ASSUME Inv, NEW p \in Procs, NEW x, Advance(p, x)
    PROVE  Inv'
<1> DEFINE rec == tests[x]
<1>1. Enters(p, x)
    BY DEF Advance
<1>2. x \in DOMAIN tests /\ RecordOK(rec) /\ rec \in Record /\ tx = NoTx
    BY <1>1, Unlocked DEF Enters, Inv, StoredInv, TestsOK, TestOK, RecordOK
<1>3. ASSUME NEW s \in {"running", "analyzing"}, StoreAt(x, [rec EXCEPT !.status = s]), rec.status \in {"scheduled", "running"}
      PROVE  Inv'
    <2>1. PICK new : new = [rec EXCEPT !.status = s] /\ StoreAt(x, new)
        BY <1>3
    <2> HIDE DEF rec
    <2>2. /\ new \in Record /\ new.status = s /\ new.config = rec.config /\ new.pending = rec.pending
          /\ new.split = rec.split /\ new.mapping = rec.mapping /\ new.seed = rec.seed /\ new.window = rec.window
        BY <1>2, <2>1 DEF Record, TestStatus
    <2>3. ~rec.pending
        BY <1>2, <1>3 DEF RecordOK
    <2>4. RecordOK(new) /\ Quiet(new) /\ SameNames(rec, new) /\ (~rec.pending => ~new.pending)
        BY <1>2, <2>2, <2>3 DEF RecordOK, RolesOf, Quiet, SameNames
    <2>5. tests' = Set(tests, x, new) /\ UNCHANGED <<at, tx, budget>> /\ UNCHANGED remote /\ UNCHANGED world
        BY <2>1 DEF StoreAt
    <2>6. StoredInv' /\ Progress
        BY <1>2, <2>4, <2>5, StoringKeeps DEF Inv, rec
    <2>7. ProcsOK' /\ TxOK'
        BY <1>2, <2>5, <2>6, ProcsStay, NoTxOK DEF Inv
    <2> QED
        BY <2>5, <2>6, <2>7 DEF Inv, WorldOK, CreatedOK, BudgetOK, remote, world
<1>4. CASE rec.status = "analyzing" /\ OpenAt(p, "advance", x, "analyze", {})
    <2>1. PICK a : a = [op |-> "advance", next |-> "advance", test |-> x]
        OBVIOUS
    <2> HIDE DEF rec
    <2>2. PICK t : t = Opened(p, rec, "analyze", {})
        OBVIOUS
    <2>3. t \in Tx /\ t.step = "analyze" /\ t.rec = rec
        BY <1>2, <2>2, EmptyMap DEF Opened, Tx, AllGroups
    <2>4. TransactionOK(t, a, rec)
        BY <1>4, <2>1, <2>3 DEF TransactionOK, Creates, Splits, Launches, Stops, Removes, Deploys
    <2> QED
        BY <1>1, <1>4, <2>1, <2>2, <2>4, OpeningAtKeeps DEF rec, Operations
<1> QED
    BY <1>3, <1>4 DEF Advance

\* The winner is to be deployed.
LEMMA BeginDeployKeeps ==
    ASSUME Inv, NEW p \in Procs, NEW x, BeginDeploy(p, x)
    PROVE  Inv'
<1> DEFINE rec == tests[x]
<1>1. Enters(p, x) /\ rec.config.mode = "holdout" /\ Holdout \in DOMAIN rec.split /\ OpenAt(p, "deploy", x, "analyze", {})
    BY DEF BeginDeploy
<1>2. x \in DOMAIN tests /\ RecordOK(rec) /\ rec \in Record
    BY <1>1 DEF Enters, Inv, StoredInv, TestsOK, TestOK, RecordOK
<1>3. PICK a : a = [op |-> "deploy", next |-> "deploy", test |-> x]
    OBVIOUS
<1> HIDE DEF rec
<1>4. rec.split # Empty
    BY <1>1, EmptyMap
<1>5. PICK t : t = Opened(p, rec, "analyze", {})
    OBVIOUS
<1>6. t \in Tx /\ t.step = "analyze" /\ t.rec = rec
    BY <1>2, <1>5, EmptyMap DEF Opened, Tx, AllGroups
<1>7. TransactionOK(t, a, rec)
    BY <1>1, <1>3, <1>4, <1>6 DEF TransactionOK, Creates, Splits, Launches, Stops, Removes, Deploys, rec
<1> QED
    BY <1>1, <1>3, <1>5, <1>7, OpeningAtKeeps DEF rec, Operations

\* A test is analyzed, and deploys by itself if it is told to.
LEMMA AnalyzeKeeps ==
    ASSUME Inv, NEW p \in Procs, NEW significant, NEW out, Analyze(p, significant, out)
    PROVE  Inv'
<1> DEFINE x == at[p].test
           rec == tests[x]
           deploys == at[p].op = "deploy" \/ (tx.rec.config.deploys /\ tx.rec.config.mode = "holdout")
<1>1. /\ In(p, "analyze") /\ Sent(out) /\ UNCHANGED <<campaigns, lists, created>>
      /\ IF out = "failed" \/ (at[p].op = "deploy" /\ ~significant) THEN Abort(p)
         ELSE IF significant /\ deploys THEN Continue([tx EXCEPT !.step = "winner", !.rec.status = "deploying"])
         ELSE /\ tests' = Set(tests, x, [tx.rec EXCEPT !.status = IF significant THEN "completed" ELSE "inconclusive"])
              /\ tx' = NoTx /\ Proceed(p, "done") /\ UNCHANGED world
    BY DEF Analyze, remote
<1>2. /\ tx.by = p /\ tx.step = "analyze" /\ tx \in Tx
      /\ at[p] \in [op : Operations, next : Transactions, test : DOMAIN clock]
      /\ TransactionOK(tx, at[p], rec) /\ RecordOK(rec) /\ x \in DOMAIN tests
    BY <1>1, InFacts
<1>3. BudgetOK' /\ CreatedOK'
    BY <1>1, SentKeeps DEF Inv, WorldOK, CreatedOK
<1>4. /\ tx.rec = rec
      /\ \/ at[p].op = "advance" /\ rec.status = "analyzing"
         \/ at[p].op = "deploy" /\ rec.config.mode = "holdout" /\ rec.split # Empty
    BY <1>2 DEF TransactionOK
<1>5. rec \in Record
    BY <1>2 DEF RecordOK
<1>6. CASE Abort(p)
    BY <1>1, <1>3, <1>6, AbortAging, UnchangedAges DEF Inv, StoredInv
<1>7. CASE deploys /\ Continue([tx EXCEPT !.step = "winner", !.rec.status = "deploying"])
    <2>1. PICK t : t = [tx EXCEPT !.step = "winner", !.rec.status = "deploying"] /\ Continue(t)
        BY <1>7
    <2>2. rec.config.mode = "holdout" /\ rec.split # Empty
        BY <1>2, <1>4, <1>7 DEF RecordOK
    <2> HIDE DEF rec
    <2>3. PICK new : new = [rec EXCEPT !.status = "deploying"]
        OBVIOUS
    <2>4. new \in Record
        BY <1>5, <2>3 DEF Record, TestStatus
    <2>5. t = [tx EXCEPT !.step = "winner", !.rec = new]
        BY <1>2, <1>4, <1>5, <2>1, <2>3 DEF Tx
    <2>6. t \in Tx /\ t.by = p /\ t.step = "winner" /\ t.rec = new
        BY <1>2, <2>4, <2>5 DEF Tx, Deploys
    <2>7. Deploying(t, rec)
        BY <2>2, <2>3, <2>6 DEF Deploying
    <2>8. TransactionOK(t, at[p], rec)
        BY <2>6, <2>7 DEF TransactionOK, Creates, Splits, Launches, Stops, Removes, Deploys
    <2> QED
        BY <1>1, <1>3, <2>1, <2>6, <2>8, LearningKeeps DEF rec
<1>8. ASSUME NEW s \in {"completed", "inconclusive"}, tests' = Set(tests, x, [tx.rec EXCEPT !.status = s]),
             tx' = NoTx, Proceed(p, "done"), UNCHANGED world, at[p].op # "deploy"
      PROVE  Inv'
    <2>1. PICK new : new = [rec EXCEPT !.status = s] /\ tests' = Set(tests, x, new)
        BY <1>4, <1>8
    <2>2. ~rec.pending
        BY <1>2, <1>4, <1>8 DEF RecordOK
    <2> HIDE DEF rec
    <2>3. /\ new \in Record /\ new.status = s /\ new.config = rec.config /\ new.pending = rec.pending
          /\ new.split = rec.split /\ new.mapping = rec.mapping /\ new.seed = rec.seed /\ new.window = rec.window
        BY <1>5, <2>1 DEF Record, TestStatus
    <2>4. RecordOK(new) /\ Quiet(new) /\ SameNames(rec, new) /\ (~rec.pending => ~new.pending)
        BY <1>2, <2>2, <2>3 DEF RecordOK, RolesOf, Quiet, SameNames
    <2>5. UNCHANGED remote /\ UNCHANGED world
        BY <1>1, <1>8 DEF remote
    <2>6. StoredInv' /\ Progress
        BY <1>2, <2>1, <2>4, <2>5, StoringKeeps DEF Inv, rec
    <2>7. at' = [at EXCEPT ![p] = Idle] /\ operator' = operator
        BY <1>2, <1>8, ProceedFacts DEF world
    <2> QED
        BY <1>3, <1>8, <2>6, <2>7, MovingKeeps
<1>9. CASE /\ tests' = Set(tests, x, [tx.rec EXCEPT !.status = IF significant THEN "completed" ELSE "inconclusive"])
           /\ tx' = NoTx /\ Proceed(p, "done") /\ UNCHANGED world /\ at[p].op # "deploy"
    <2>1. PICK s \in {"completed", "inconclusive"} : s = IF significant THEN "completed" ELSE "inconclusive"
        OBVIOUS
    <2> QED
        BY <1>8, <1>9, <2>1
<1> QED
    BY <1>1, <1>6, <1>7, <1>9

\* What a deployment knows.
LEMMA DeployFacts ==
    ASSUME Inv, NEW p \in Procs, NEW step \in Deploys, In(p, step)
    PROVE  /\ tx.by = p /\ tx.step = step /\ tx \in Tx /\ at[p].test \in DOMAIN tests /\ at[p].test \in DOMAIN clock
           /\ at[p] \in [op : Operations, next : Transactions, test : DOMAIN clock]
           /\ Deploying(tx, tests[at[p].test]) /\ RecordOK(tests[at[p].test])
           /\ step # "winner" => \E c \in CampaignIds :
                tx.made = {c} /\ Least(tx.made) = c /\ (Exists(c) => campaigns[c].variant = Winner)
<1>1. /\ tx.by = p /\ tx.step = step /\ tx \in Tx /\ at[p].test \in DOMAIN tests /\ at[p].test \in DOMAIN clock
      /\ at[p] \in [op : Operations, next : Transactions, test : DOMAIN clock]
      /\ TransactionOK(tx, at[p], tests[at[p].test]) /\ RecordOK(tests[at[p].test])
    BY InFacts
<1>2. Deploying(tx, tests[at[p].test])
    BY <1>1 DEF TransactionOK
<1>3. ASSUME step # "winner"
      PROVE  \E c \in CampaignIds :
               tx.made = {c} /\ Least(tx.made) = c /\ (Exists(c) => campaigns[c].variant = Winner)
    <2>1. PICK c \in CampaignIds : tx.made = {c} /\ (Exists(c) => campaigns[c].variant = Winner)
        BY <1>1, <1>2, <1>3 DEF Deploying
    <2>2. Least(tx.made) \in tx.made
        BY <1>1, <2>1, LeastIn DEF Tx
    <2> QED
        BY <2>1, <2>2
<1> QED
    BY <1>1, <1>2, <1>3

\* The winner's campaign goes to the list of the holdout; one whose answer is lost stays.
LEMMA CreateWinnerKeeps ==
    ASSUME Inv, NEW p \in Procs, NEW out, CreateWinner(p, out)
    PROVE  Inv'
<1> DEFINE x == at[p].test
           rec == tests[x]
           c == created.campaigns + 1
<1>1. /\ In(p, "winner") /\ Sent(out)
      /\ IF Done(out) THEN CreateCampaign(x, Winner, tx.rec.split[Holdout]) ELSE UNCHANGED remote
      /\ IF out = "ok" THEN Continue([tx EXCEPT !.step = IF tx.rec.config.deploys THEN "start" ELSE "deployed", !.made = {c}])
                       ELSE Abort(p)
    BY DEF CreateWinner
<1>2. /\ tx.by = p /\ tx.step = "winner" /\ tx \in Tx /\ x \in DOMAIN tests /\ x \in DOMAIN clock
      /\ Deploying(tx, rec) /\ RecordOK(rec)
    BY <1>1, DeployFacts DEF Deploys
<1>3. BudgetOK' /\ UNCHANGED <<tests, clock, audience>>
    BY <1>1, SentKeeps DEF Inv, WorldOK, Continue, Abort, world
<1>4. tx.rec.split = rec.split /\ rec.split[Holdout] \in ListIds
    <2>1. rec \in Record /\ rec.split # Empty /\ rec.config.mode = "holdout" /\ tx.rec = [rec EXCEPT !.status = "deploying"]
        BY <1>2 DEF Deploying, RecordOK
    <2>2. tx.rec.split = rec.split
        BY <2>1 DEF Record
    <2> QED
        BY <1>2, <2>1, <2>2, RecordFacts
<1>5. CASE Done(out)
    <2>1. PICK l \in ListIds \cup {BaseLists} : l = tx.rec.split[Holdout]
        BY <1>4
    <2>2. CreateCampaign(x, Winner, l) /\ Winner \in Variants \cup {Winner}
        BY <1>1, <1>5, <2>1
    <2>3. /\ StoredInv' /\ CreatedOK' /\ c \in CampaignIds /\ campaigns'[c].variant = Winner
        BY <1>2, <1>3, <2>2, NewCampaignKeeps DEF Inv, WorldOK
    <2>4. CASE Abort(p)
        BY <1>3, <2>3, <2>4, AbortKeeps
    <2>5. CASE out = "ok"
        <3>1. PICK step \in {"start", "deployed"} : step = IF tx.rec.config.deploys THEN "start" ELSE "deployed"
            OBVIOUS
        <3>2. PICK t : t = [tx EXCEPT !.step = step, !.made = {c}] /\ Continue(t)
            BY <1>1, <2>5, <3>1
        <3>3. c \in Nat
            BY <2>3, Constants
        <3> HIDE DEF c
        <3>4. t \in Tx /\ t.by = p /\ t.step = step /\ t.made = {c} /\ t.rec = tx.rec
            BY <1>2, <3>2, <3>3 DEF Tx, Deploys
        <3>5. UNCHANGED <<tests, at>>
            BY <3>2 DEF Continue
        <3>6. Deploying(t, rec)'
            BY <1>2, <2>3, <3>4, <3>5 DEF Deploying
        <3>7. TransactionOK(t, at[p], rec)'
            BY <3>4, <3>6 DEF TransactionOK, Creates, Splits, Launches, Stops, Removes, Deploys
        <3> QED
            BY <1>1, <1>3, <2>3, <3>2, <3>4, <3>7, ContinuingKeeps
    <2> QED
        BY <1>1, <2>4, <2>5
<1>6. CASE ~Done(out)
    <2>1. Abort(p) /\ UNCHANGED <<campaigns, lists, created>>
        BY <1>1, <1>6 DEF Done, remote
    <2> QED
        BY <1>3, <2>1, AbortAging, UnchangedAges DEF Inv, StoredInv
<1> QED
    BY <1>5, <1>6

\* The campaign of the winner is started.
LEMMA StartWinnerKeeps ==
    ASSUME Inv, NEW p \in Procs, NEW out, NEW thrown, StartWinner(p, out, thrown)
    PROVE  Inv'
<1> DEFINE x == at[p].test
           rec == tests[x]
<1>0. PICK c : c = Least(tx.made)
    OBVIOUS
<1>1. /\ In(p, "start") /\ Sent(out) /\ UNCHANGED <<lists, created>>
      /\ IF Done(out) /\ Accepts(c, "running") THEN SetStatus(c, "running") ELSE UNCHANGED campaigns
      /\ IF thrown THEN Abort(p) ELSE Continue([tx EXCEPT !.step = "deployed"])
    BY <1>0 DEF StartWinner
<1>2. BudgetOK' /\ CreatedOK'
    BY <1>1, SentKeeps DEF Inv, WorldOK, CreatedOK
<1>3. Ages
    BY <1>1, AcceptedAges, UnchangedAges DEF Inv, StoredInv
<1>4. CASE Abort(p)
    BY <1>1, <1>2, <1>3, <1>4, AbortAging
<1>5. CASE Continue([tx EXCEPT !.step = "deployed"])
    <2>1. PICK t : t = [tx EXCEPT !.step = "deployed"] /\ Continue(t)
        BY <1>5
    <2>2. /\ tx.by = p /\ tx.step = "start" /\ tx \in Tx /\ Deploying(tx, rec)
        BY <1>1, DeployFacts DEF Deploys
    <2>3. t \in Tx /\ t.by = p /\ t.step = "deployed" /\ t.made = tx.made /\ t.rec = tx.rec
        BY <2>1, <2>2 DEF Tx, Deploys
    <2>4. UNCHANGED <<tests, at>> /\ Passes
        BY <2>1, WorldPasses DEF Continue, Inv, StoredInv
    <2>5. StoredInv'
        BY <1>1, <1>3, <2>4, AgingKeeps DEF Inv
    <2>6. Deploying(t, rec)'
        BY <1>3, <2>2, <2>3, <2>4 DEF Deploying, Ages, Exists
    <2>7. TransactionOK(t, at[p], rec)'
        BY <2>3, <2>6 DEF TransactionOK, Creates, Splits, Launches, Stops, Removes, Deploys
    <2> QED
        BY <1>1, <1>2, <2>1, <2>3, <2>5, <2>7, ContinuingKeeps
<1> QED
    BY <1>1, <1>4, <1>5

\* The winner is recorded.
LEMMA CommitDeployKeeps ==
    ASSUME Inv, NEW p \in Procs, CommitDeploy(p)
    PROVE  Inv'
<1> DEFINE x == at[p].test
           rec == tests[x]
<1>0. PICK new : new = [tx.rec EXCEPT !.status = "completed", !.winner = Least(tx.made)]
    OBVIOUS
<1>1. In(p, "deployed") /\ Commit(p, new, "done")
    BY <1>0 DEF CommitDeploy
<1>2. /\ at[p] \in [op : Operations, next : Transactions, test : DOMAIN clock]
      /\ Deploying(tx, rec) /\ RecordOK(rec) /\ x \in DOMAIN tests
      /\ Least(tx.made) \in CampaignIds
    BY <1>1, DeployFacts DEF Deploys
<1>3. rec \in Record /\ tx.rec = [rec EXCEPT !.status = "deploying"]
    BY <1>2 DEF Deploying, RecordOK
<1> HIDE DEF rec
<1>4. /\ new \in Record /\ new.status = "completed" /\ new.config = rec.config /\ new.pending = rec.pending
      /\ new.split = rec.split /\ new.mapping = rec.mapping /\ new.seed = rec.seed /\ new.window = rec.window
    BY <1>0, <1>2, <1>3 DEF Record, TestStatus
<1>5. RecordOK(new) /\ Quiet(new)
    BY <1>2, <1>4 DEF RecordOK, RolesOf, Quiet
<1>6. Resaves(rec, new)
    BY <1>4, <1>5 DEF Resaves, SameNames
<1> QED
    BY <1>1, <1>2, <1>6, ResavingKeeps DEF Commit, rec

-----------------------------------------------------------------------------
(* The invariant                                                           *)

LEMMA InitInv == Init => Inv
<1> SUFFICES ASSUME Init PROVE Inv
    OBVIOUS
<1>1. DOMAIN tests = {} /\ DOMAIN campaigns = {} /\ DOMAIN lists = {} /\ DOMAIN clock = {} /\ audience = 1
      /\ created = [campaigns |-> 0, lists |-> 0] /\ at = [p \in Procs |-> Idle] /\ tx = NoTx
      /\ operator = [campaign |-> 0, target |-> "none"] /\ budget \in Budgets
    BY EmptyMap DEF Init
<1>2. campaigns \in [{} -> Campaign] /\ lists \in [{} -> List]
    BY DEF Init, Empty
<1>3. StoredInv
    BY <1>1, <1>2 DEF StoredInv, TestsOK, CampaignsOK, ListsOK
<1>4. WorldOK
    BY <1>1, Constants DEF WorldOK, CreatedOK, BudgetOK
<1>5. ProcsOK /\ TxOK
    BY <1>1 DEF ProcsOK, ProcOK, TxOK
<1> QED
    BY <1>3, <1>4, <1>5 DEF Inv

\* A step that changes nothing.
LEMMA StutterKeeps ==
    ASSUME Inv, UNCHANGED vars
    PROVE  Inv'
<1>1. UNCHANGED <<tests, campaigns, lists, created, at, tx, clock, audience, operator, budget>>
    BY DEF vars
<1>2. Ages /\ Passes /\ operator'.target # "scheduled" /\ BudgetOK'
    BY <1>1, UnchangedAges DEF Passes, Inv, StoredInv, ListsOK, WorldOK, BudgetOK
<1> QED
    BY <1>1, <1>2, WorldKeeps

\* Every first transaction of an operation keeps the invariant.
LEMMA OperationKeeps ==
    ASSUME Inv, NEW p \in Procs, Operation(p)
    PROVE  Inv'
BY RecordCreateIntentKeeps, RecordLaunchIntentKeeps, BeginStopKeeps, BeginDeleteKeeps, AdvanceKeeps, BeginDeployKeeps
   DEF Operation

\* Every later step keeps the invariant.
LEMMA StepKeeps ==
    ASSUME Inv, NEW p \in Procs, Step(p)
    PROVE  Inv'
<1>1. CASE \/ NotFound(p)
           \/ BeginCampaigns(p) \/ UndoCampaigns(p) \/ CommitCampaigns(p) \/ RecordSegmentationSeed(p)
           \/ BeginSegmentation(p) \/ UndoLists(p) \/ CommitSegmentation(p)
           \/ RecordAutoLaunchWindow(p) \/ BeginFinalize(p)
    BY <1>1, NotFoundKeeps, BeginCampaignsKeeps, UndoCampaignsKeeps, CommitCampaignsKeeps, RecordSegmentationSeedKeeps,
       BeginSegmentationKeeps, UndoListsKeeps, CommitSegmentationKeeps, RecordAutoLaunchWindowKeeps, BeginFinalizeKeeps
<1>2. CASE \/ BeginLaunch(p) \/ CommitLaunch(p)
           \/ PlanCancel(p) \/ FinishStop(p)
           \/ FinishDelete(p) \/ CommitDeploy(p)
    BY <1>2, BeginLaunchKeeps, CommitLaunchKeeps, PlanCancelKeeps, FinishStopKeeps, FinishDeleteKeeps, CommitDeployKeeps
<1>3. ASSUME NEW out \in Outcomes,
             \/ FindCampaigns(p, out) \/ CreateVariantCampaign(p, out)
             \/ ResolveAudience(p, out) \/ MakeList(p, out) \/ FillList(p, out)
             \/ UpdateCampaign(p, out) \/ ScheduleCampaign(p, out)
             \/ LookAtCampaign(p, out) \/ CancelBeforeDelete(p, out) \/ DeleteTestCampaign(p, out)
             \/ CreateWinner(p, out)
      PROVE  Inv'
    BY <1>3, FindCampaignsKeeps, CreateVariantCampaignKeeps, ResolveAudienceKeeps, MakeListKeeps, FillListKeeps,
       UpdateCampaignKeeps, ScheduleCampaignKeeps, LookAtCampaignKeeps, CancelBeforeDeleteKeeps,
       DeleteTestCampaignKeeps, CreateWinnerKeeps
<1>4. ASSUME NEW out \in Outcomes, NEW c \in CampaignIds, FetchCampaignStatus(p, c, out) \/ ActOnCampaign(p, c, out)
      PROVE  Inv'
    BY <1>4, FetchCampaignStatusKeeps, ActOnCampaignKeeps
<1>5. ASSUME NEW out \in Outcomes, NEW b \in BOOLEAN, Analyze(p, b, out) \/ StartWinner(p, out, b)
      PROVE  Inv'
    BY <1>5, AnalyzeKeeps, StartWinnerKeeps
<1> QED
    BY <1>1, <1>2, <1>3, <1>4, <1>5 DEF Step

\* The invariant is inductive.
LEMMA StepInv == Inv /\ [Next]_vars => Inv'
<1> SUFFICES ASSUME Inv, [Next]_vars PROVE Inv'
    OBVIOUS
<1>1. ASSUME NEW p \in Procs, Operation(p) \/ Step(p) \/ Crash(p) PROVE Inv'
    BY <1>1, OperationKeeps, StepKeeps, CrashKeeps
<1>2. CASE Listmonk
    BY <1>2, TickKeeps, FireKeeps, SubscribeKeeps DEF Listmonk
<1>3. CASE Others
    BY <1>3, ReadForTransitionKeeps, WriteTransitionKeeps DEF Others
<1>4. CASE UNCHANGED vars
    BY <1>4, StutterKeeps
<1> QED
    BY <1>1, <1>2, <1>3, <1>4 DEF Next

\* What is stored, what Listmonk has and what each transaction has done fit together.
THEOREM Consistent == Spec => []Inv
BY InitInv, StepInv, PTL DEF Spec

-----------------------------------------------------------------------------
(* What follows from it                                                    *)

LEMMA InvTypes == Inv => TypeOK
<1> SUFFICES ASSUME Inv PROVE TypeOK
    OBVIOUS
<1>1. created.campaigns \in 0 .. MaxCampaigns /\ created.lists \in 0 .. MaxLists
      /\ MaxCampaigns \in Nat /\ MaxLists \in Nat /\ CampaignIds = 1 .. MaxCampaigns /\ ListIds = 1 .. MaxLists
    BY Constants DEF Inv, WorldOK, CreatedOK
<1>2. ASSUME NEW x \in DOMAIN tests PROVE x \in TestIds /\ IsRecord(tests[x])
    <2>1. x \in TestIds /\ RecordOK(tests[x])
        BY DEF Inv, StoredInv, TestsOK, TestOK
    <2>2. IsMap(tests[x].mapping, Variants, CampaignIds) /\ IsMap(tests[x].split, Roles, ListIds)
        BY <2>1, RecordFacts DEF IsMap
    <2>3. tests[x] \in Record
        BY <2>1, RecordFacts
    <2> HIDE DEF RecordOK
    <2>4. /\ tests[x].status \in TestStatus /\ tests[x].config \in AllConfigs
          /\ {tests[x].pending, tests[x].window, tests[x].started} \subseteq BOOLEAN
          /\ tests[x].seed \in Seeds \cup {0} /\ tests[x].winner \in CampaignIds \cup {0}
        BY <2>3 DEF Record
    <2> QED
        BY <2>1, <2>2, <2>4 DEF IsRecord
<1>3. /\ DOMAIN campaigns \subseteq CampaignIds
      /\ \A c \in DOMAIN campaigns : campaigns[c] \in Campaign
    BY <1>1 DEF Inv, StoredInv, CampaignsOK
<1>4. /\ DOMAIN lists \subseteq ListIds
      /\ \A l \in DOMAIN lists : lists[l] \in [test : TestIds, role : Roles, group : Groups]
    BY <1>1 DEF Inv, StoredInv, ListsOK, List
<1>5. tx.by \in Procs \cup {NoProc} /\ (Locked => at[tx.by] # Idle)
    BY DEF Inv, TxOK, NoTx, Locked
<1> QED
    BY <1>2, <1>3, <1>4, <1>5 DEF TypeOK, Campaign

(***************************************************************************)
(* Records, campaigns and lists have their types, and only a process that  *)
(* is in an operation holds the lock of the store (updateJsonFileStore).   *)
(***************************************************************************)
THEOREM TypeCorrectness == Spec => []TypeOK
BY Consistent, InvTypes, PTL

\* A set without two different members has one at most.
LEMMA AtMostOne ==
    ASSUME NEW S, \A a, b \in S : a = b
    PROVE  Cardinality(S) <= 1
<1>1. CASE S = {}
    BY <1>1, FS_EmptySet
<1>2. CASE S # {}
    <2>1. PICK a \in S : S = {a}
        BY <1>2
    <2>2. Cardinality({a}) = 1
        BY FS_Singleton
    <2> QED
        BY <2>1, <2>2
<1> QED
    BY <1>1, <1>2

\* What the invariant says of the campaigns of a variant.
LEMMA InvVariants == Inv => OneCampaignPerVariant
<1> SUFFICES ASSUME Inv, NEW x \in TestIds, NEW v \in Variants PROVE Cardinality(Tagged(x, v)) <= 1
    BY DEF OneCampaignPerVariant
<1>1. v # Winner
    BY Constants
<1>2. \A c, d \in Tagged(x, v) : c = d
    BY <1>1 DEF Tagged, Inv, StoredInv, CampaignsOK
<1> QED
    BY <1>2, AtMostOne

(***************************************************************************)
(* However often a creation fails, dies or is taken up again, and by       *)
(* however many processes, there are never two campaigns for a variant: a  *)
(* variant is created for only after a lookup by tags found nothing.       *)
(***************************************************************************)
THEOREM NoDuplicateCampaigns == Spec => []OneCampaignPerVariant
BY Consistent, InvVariants, PTL

\* What the invariant says of the lists of a test.
LEMMA InvSplit == Inv => OneSplit
BY DEF Inv, StoredInv, TestsOK, TestOK, SplitOnce, OneSplit

(***************************************************************************)
(* The lists a record names were filled from one split of one audience,    *)
(* whichever of them were adopted from attempts that were cut short.       *)
(***************************************************************************)
THEOREM NobodyInTwoGroups == Spec => []OneSplit
BY Consistent, InvSplit, PTL

\* What it says of a test that is no longer being created.
LEMMA InvProvisioned == Inv => ProvisionedIsComplete
<1> SUFFICES ASSUME Inv, NEW x \in DOMAIN tests, ~tests[x].pending
             PROVE  DOMAIN tests[x].mapping = Variants /\ DOMAIN tests[x].split = RolesOf(tests[x])
    BY DEF ProvisionedIsComplete
<1>1. RecordOK(tests[x])
    BY DEF Inv, StoredInv, TestsOK, TestOK
<1> QED
    BY <1>1 DEF RecordOK

(***************************************************************************)
(* A test whose creation is recorded as complete names a campaign for each *)
(* variant and a list for each group.                                      *)
(***************************************************************************)
THEOREM CompleteWhenCreated == Spec => []ProvisionedIsComplete
BY Consistent, InvProvisioned, PTL

\* What it says of the lists of launched campaigns.
LEMMA InvAudience == Inv => LaunchedHasAudience
BY DEF Inv, StoredInv, CampaignsOK, HasList, LaunchedHasAudience

(***************************************************************************)
(* No stop and no deletion takes the list of a campaign that may send,     *)
(* whatever Listmonk and its operators did to the campaign meanwhile.      *)
(***************************************************************************)
THEOREM AudienceKept == Spec => []LaunchedHasAudience
BY Consistent, InvAudience, PTL

\* What it says of a cancelled test.
LEMMA InvQuiet == Inv => StoppedIsQuiet
BY DEF Inv, StoredInv, TestsOK, TestOK, Quiet, Over, StoppedIsQuiet

(***************************************************************************)
(* A test that is recorded as cancelled has no campaign that can send,     *)
(* although cancelAbTest acts by a status that may be out of date.         *)
(***************************************************************************)
THEOREM CancelledIsQuiet == Spec => []StoppedIsQuiet
BY Consistent, InvQuiet, PTL

\* What it says of a scheduled campaign.
LEMMA InvWindow == Inv => ScheduledHasWindow
BY DEF Inv, StoredInv, CampaignsOK, HasWindow, ScheduledHasWindow

(***************************************************************************)
(* The window of a launch is stored before any campaign is scheduled.      *)
(***************************************************************************)
THEOREM WindowBeforeSchedule == Spec => []ScheduledHasWindow
BY Consistent, InvWindow, PTL

-----------------------------------------------------------------------------
(* What no step does                                                       *)

\* Whatever is there before and after a step has the members it had, except
\* for the list that is being filled.
SameMembers == \A l \in DOMAIN lists \cap DOMAIN lists' : lists'[l] = lists[l]

\* Removing lists changes the members of no other list.
LEMMA UnlistedMembers == ASSUME NEW S, RemoveLists(S) PROVE SameMembers
BY DEF RemoveLists, Without, SameMembers

\* A new list changes the members of no other list.
LEMMA NewListMembers ==
    ASSUME Inv, NEW x, NEW r, CreateList(x, r)
    PROVE  SameMembers
<1>1. DOMAIN lists \subseteq 1 .. created.lists /\ created.lists \in Nat
    BY Constants DEF Inv, StoredInv, ListsOK, WorldOK, CreatedOK
<1>2. created.lists + 1 \notin DOMAIN lists
    BY <1>1
<1> QED
    BY <1>2 DEF CreateList, Set, SameMembers

\* The first transaction of an operation touches no list.
LEMMA OperationMembers ==
    ASSUME NEW p \in Procs, Operation(p)
    PROVE  UNCHANGED lists
BY DEF Operation, RecordCreateIntent, RecordLaunchIntent, BeginStop, BeginDelete, Advance, BeginDeploy,
       OpenAt, Locks, StoreAt, remote

\* A step changes the members of a list only by filling it.
LEMMA StepMembers ==
    ASSUME Inv, NEW p \in Procs, Step(p)
    PROVE  SameMembers \/ \E out \in Outcomes : FillList(p, out)
<1>0. UNCHANGED lists => SameMembers
    BY DEF SameMembers
<1>1. CASE NotFound(p) \/ BeginCampaigns(p) \/ RecordSegmentationSeed(p) \/ BeginSegmentation(p)
           \/ RecordAutoLaunchWindow(p) \/ BeginFinalize(p) \/ BeginLaunch(p)
    BY <1>0, <1>1 DEF NotFound, BeginCampaigns, RecordSegmentationSeed, BeginSegmentation, RecordAutoLaunchWindow,
       BeginFinalize, BeginLaunch, Return, Pass, Store, Open, Locks, remote
<1>2. CASE UndoCampaigns(p) \/ CommitCampaigns(p) \/ CommitSegmentation(p) \/ CommitLaunch(p) \/ PlanCancel(p)
           \/ CommitDeploy(p)
    BY <1>0, <1>2 DEF UndoCampaigns, CommitCampaigns, CommitSegmentation, CommitLaunch, PlanCancel, CommitDeploy, Commit, remote
<1>3. CASE UndoLists(p) \/ FinishStop(p) \/ FinishDelete(p)
    BY <1>0, <1>3, UnlistedMembers DEF UndoLists, FinishStop, FinishDelete
<1>4. ASSUME NEW out \in Outcomes,
             \/ FindCampaigns(p, out) \/ CreateVariantCampaign(p, out) \/ ResolveAudience(p, out)
             \/ UpdateCampaign(p, out) \/ ScheduleCampaign(p, out)
             \/ LookAtCampaign(p, out) \/ CancelBeforeDelete(p, out) \/ DeleteTestCampaign(p, out)
             \/ CreateWinner(p, out)
      PROVE  SameMembers
    BY <1>0, <1>4 DEF FindCampaigns, CreateVariantCampaign, ResolveAudience, UpdateCampaign, ScheduleCampaign,
       LookAtCampaign, CancelBeforeDelete, DeleteTestCampaign, CreateWinner, CreateCampaign, remote
<1>5. ASSUME NEW out \in Outcomes, MakeList(p, out) PROVE SameMembers
    BY <1>0, <1>5, NewListMembers DEF MakeList, remote
<1>6. ASSUME NEW out \in Outcomes, NEW c \in CampaignIds, FetchCampaignStatus(p, c, out) \/ ActOnCampaign(p, c, out)
      PROVE  SameMembers
    BY <1>0, <1>6 DEF FetchCampaignStatus, ActOnCampaign, remote
<1>7. ASSUME NEW out \in Outcomes, NEW b \in BOOLEAN, Analyze(p, b, out) \/ StartWinner(p, out, b)
      PROVE  SameMembers
    BY <1>0, <1>7 DEF Analyze, StartWinner, remote
<1> QED
    BY <1>1, <1>2, <1>3, <1>4, <1>5, <1>6, <1>7 DEF Step

\* A list of a holdout test is filled from the stored seed, one of a full split once.
LEMMA FillingStable ==
    ASSUME Inv, NEW p \in Procs, NEW out, FillList(p, out), NEW l \in DOMAIN lists \cap DOMAIN lists',
           lists[l].group # NoGroup, lists'[l].group # NoGroup, lists[l].group[2] = lists'[l].group[2]
    PROVE  lists'[l].group = lists[l].group
<1> DEFINE x == at[p].test
           rec == tests[x]
<1>0. PICK v : v = Least(tx.todo)
    OBVIOUS
<1>1. PICK k : k = tx.rec.split[v]
    OBVIOUS
<1>2. PICK g : k \in DOMAIN lists /\ lists' = [lists EXCEPT ![k].group = g] /\ g \in {tx.group, lists[k].group, NoGroup}
    <2>1. CASE k \in DOMAIN lists /\ Done(out) /\ lists' = [lists EXCEPT ![k].group = Filled(@, tx.group)]
        BY <2>1 DEF Filled
    <2>2. CASE /\ k \in DOMAIN lists /\ out = "failed"
               /\ \E group \in {lists[k].group, NoGroup} : lists' = [lists EXCEPT ![k].group = group]
        BY <2>2
    <2> QED
        BY <1>0, <1>1, <2>1, <2>2 DEF FillList
<1>3. In(p, "list") /\ tx.todo # {} /\ v \in DOMAIN tx.rec.split
    BY <1>0 DEF FillList
<1>4. /\ tx.step = "list" /\ tx \in Tx /\ TransactionOK(tx, at[p], rec) /\ x \in DOMAIN tests /\ RecordOK(rec)
    BY <1>3, InFacts
<1>5. Splitting(tx, at[p], rec) /\ tx.todo \subseteq Nat
    BY <1>4 DEF TransactionOK, Splits, Tx
<1>6. v \in tx.todo
    BY <1>0, <1>3, <1>5, LeastIn
<1>7. /\ rec.config.mode = "holdout" => tx.group[1] = rec.seed
      /\ lists[k].test = x /\ (rec.config.mode # "holdout" => lists[k].group = NoGroup)
      /\ tx.group \in AllGroups /\ tx.group # NoGroup
    BY <1>1, <1>3, <1>4, <1>5, <1>6 DEF Splitting, NamesLists, Tx
<1>8. lists[k].group \in AllGroups /\ SeededBy(k, rec) /\ lists \in [DOMAIN lists -> List]
    BY <1>2, <1>4, <1>7 DEF Inv, StoredInv, ListsOK, List
<1>9. CASE l # k
    BY <1>2, <1>8, <1>9
<1>10. CASE l = k
    <2>1. lists'[k].group = g
        BY <1>2, <1>8 DEF List
    <2>2. CASE g = tx.group
        <3>1. lists[k].group \in Seeds \X (Nat \ {0}) /\ g \in Seeds \X (Nat \ {0})
            BY <1>7, <1>8, <1>10, <2>2 DEF AllGroups
        <3>2. lists[k].group[1] = g[1] /\ lists[k].group[2] = g[2]
            BY <1>7, <1>8, <1>10, <2>1, <2>2 DEF SeededBy
        <3>3. lists[k].group = g
            BY <3>1, <3>2
        <3> QED
            BY <1>10, <2>1, <3>3
    <2> QED
        BY <1>2, <1>10, <2>1, <2>2
<1> QED
    BY <1>9, <1>10

\* The step of SplitStable.
LEMMA SplitStep ==
    ASSUME Inv, [Next]_vars, NEW l \in DOMAIN lists \cap DOMAIN lists',
           lists[l].group # NoGroup, lists'[l].group # NoGroup, lists[l].group[2] = lists'[l].group[2]
    PROVE  lists[l].group = lists'[l].group
<1>1. ASSUME NEW p \in Procs, Operation(p) \/ Step(p) \/ Crash(p) PROVE lists[l].group = lists'[l].group
    <2>1. CASE Operation(p)
        BY <2>1, OperationMembers
    <2>2. CASE Step(p)
        BY <2>2, StepMembers, FillingStable DEF SameMembers
    <2>3. CASE Crash(p)
        BY <2>3 DEF Crash, remote
    <2> QED
        BY <1>1, <2>1, <2>2, <2>3
<1>2. CASE Listmonk
    BY <1>2 DEF Listmonk, Tick, Fire, Finish, Subscribe, remote
<1>3. CASE Others
    BY <1>3 DEF Others, ReadForTransition, WriteTransition, remote
<1>4. CASE UNCHANGED vars
    BY <1>4 DEF vars
<1> QED
    BY <1>1, <1>2, <1>3, <1>4 DEF Next

(***************************************************************************)
(* A retry splits as the attempt before it did: the members of a list      *)
(* change only with the audience, since the seed is stored before any      *)
(* list is made (recordSegmentationSeed).                                  *)
(***************************************************************************)
THEOREM RetriesSplitAlike == Spec => SplitStable
<1>1. Inv /\ [Next]_vars =>
        [\A l \in DOMAIN lists \cap DOMAIN lists' :
           LET before == lists[l].group after == lists'[l].group IN
           (before # NoGroup /\ after # NoGroup /\ before[2] = after[2]) => before = after]_vars
    BY SplitStep
<1> QED
    BY <1>1, Consistent, PTL DEF Spec, SplitStable

-----------------------------------------------------------------------------
(* Which steps take a record away                                          *)

NoneDeleted == DOMAIN tests \subseteq DOMAIN tests'

\* A record may go if it names nothing, or its test has ended, or what it
\* names is gone.
MayGo(x) ==
    (tests[x].status \notin TERMINAL_STATUSES /\ tests[x].mapping # Empty) =>
      /\ Values(tests[x].mapping) \cap DOMAIN campaigns' = {}
      /\ Values(tests[x].split) \cap DOMAIN lists' = {}

\* Storing a record takes none away.
LEMMA StoredStay == ASSUME NEW x, NEW rec, tests' = Set(tests, x, rec) PROVE NoneDeleted
BY DEF Set, NoneDeleted

\* The first transaction of a deletion removes only what may go.
LEMMA OperationDeletes ==
    ASSUME NEW p \in Procs, Operation(p), NEW x \in DOMAIN tests \ DOMAIN tests'
    PROVE  MayGo(x)
<1>1. CASE \E y \in TestIds : BeginDelete(p, y)
    BY <1>1 DEF BeginDelete, OpenAt, Locks, Without, MayGo
<1>2. CASE \E y \in TestIds : RecordCreateIntent(p, y)
    BY <1>2, StoredStay DEF RecordCreateIntent, NoneDeleted
<1>3. CASE \E y \in TestIds : RecordLaunchIntent(p, y) \/ BeginStop(p, y) \/ Advance(p, y) \/ BeginDeploy(p, y)
    BY <1>3, StoredStay DEF RecordLaunchIntent, BeginStop, Advance, BeginDeploy, OpenAt, Locks, StoreAt, NoneDeleted
<1> QED
    BY <1>1, <1>2, <1>3 DEF Operation

\* A deletion stores nothing until every list it names is gone with its campaigns.
LEMMA FinishDeletes ==
    ASSUME Inv, NEW p \in Procs, FinishDelete(p), NEW x \in DOMAIN tests \ DOMAIN tests'
    PROVE  MayGo(x)
<1> DEFINE rec == tests[at[p].test]
           mine == {l \in Values(tx.rec.split) : l \in DOMAIN lists}
<1>1. In(p, "look") /\ tx.todo = {} /\ UNCHANGED campaigns
    BY DEF FinishDelete
<1>2. tx.step = "look" /\ TransactionOK(tx, at[p], rec)
    BY <1>1, InFacts
<1>3. Removing(tx, rec) /\ tx.rec = rec
    BY <1>2 DEF TransactionOK, Removes, Removing
<1>4. ~Abort(p)
    BY DEF Abort
<1>5. Deletes(tx) /\ RemoveLists(mine) /\ tests' = Without(tests, {at[p].test})
    <2>1. PICK kept \in SUBSET mine :
            /\ Deletes(tx) /\ RemoveLists(mine \ kept)
            /\ IF kept = {} THEN tests' = Without(tests, {at[p].test}) ELSE Abort(p)
        BY <1>4 DEF FinishDelete
    <2>2. kept = {}
        BY <1>4, <2>1
    <2>3. mine \ kept = mine
        BY <2>2
    <2> QED
        BY <2>1, <2>2, <2>3
<1>6. x = at[p].test
    BY <1>5 DEF Without
<1>7. \A c \in Values(rec.mapping) : ~Exists(c)
    BY <1>1, <1>3, <1>5 DEF Deletes, Removing
<1>8. Values(rec.mapping) \cap DOMAIN campaigns' = {}
    BY <1>1, <1>7 DEF Exists
<1>9. Values(rec.split) \cap DOMAIN lists' = {}
    BY <1>3, <1>5 DEF RemoveLists, Without
<1> QED
    BY <1>6, <1>8, <1>9 DEF MayGo

\* Of the later steps only the last one of a deletion removes a record.
LEMMA StepDeletes ==
    ASSUME Inv, NEW p \in Procs, Step(p)
    PROVE  NoneDeleted \/ FinishDelete(p)
<1>0. UNCHANGED tests => NoneDeleted
    BY DEF NoneDeleted
<1>1. CASE NotFound(p) \/ BeginCampaigns(p) \/ RecordSegmentationSeed(p) \/ BeginSegmentation(p)
           \/ RecordAutoLaunchWindow(p) \/ BeginFinalize(p) \/ BeginLaunch(p)
    BY <1>0, <1>1, StoredStay DEF NotFound, BeginCampaigns, RecordSegmentationSeed, BeginSegmentation,
       RecordAutoLaunchWindow, BeginFinalize, BeginLaunch, Return, Pass, Store, Open, Locks
<1>2. CASE UndoCampaigns(p) \/ CommitCampaigns(p) \/ CommitSegmentation(p) \/ CommitLaunch(p) \/ PlanCancel(p)
           \/ CommitDeploy(p)
    BY <1>0, <1>2, StoredStay DEF UndoCampaigns, CommitCampaigns, CommitSegmentation, CommitLaunch, PlanCancel,
       CommitDeploy, Commit, Abort, Continue
<1>3. CASE UndoLists(p) \/ FinishStop(p) \/ FinishDelete(p)
    BY <1>0, <1>3, StoredStay DEF UndoLists, FinishStop, Abort
<1>4. ASSUME NEW out \in Outcomes,
             \/ FindCampaigns(p, out) \/ CreateVariantCampaign(p, out) \/ ResolveAudience(p, out) \/ MakeList(p, out)
             \/ FillList(p, out) \/ UpdateCampaign(p, out) \/ ScheduleCampaign(p, out)
             \/ LookAtCampaign(p, out) \/ CancelBeforeDelete(p, out) \/ DeleteTestCampaign(p, out)
             \/ CreateWinner(p, out)
      PROVE  NoneDeleted
    BY <1>0, <1>4, StoredStay DEF FindCampaigns, CreateVariantCampaign, ResolveAudience, MakeList, FillList,
       UpdateCampaign, ScheduleCampaign, LookAtCampaign, CancelBeforeDelete, DeleteTestCampaign, CreateWinner,
       Continue, Abort, AbortInLock
<1>5. ASSUME NEW out \in Outcomes, NEW c \in CampaignIds, FetchCampaignStatus(p, c, out) \/ ActOnCampaign(p, c, out)
      PROVE  NoneDeleted
    BY <1>0, <1>5 DEF FetchCampaignStatus, ActOnCampaign, Continue, Abort
<1>6. ASSUME NEW out \in Outcomes, NEW b \in BOOLEAN, Analyze(p, b, out) \/ StartWinner(p, out, b)
      PROVE  NoneDeleted
    BY <1>0, <1>6, StoredStay DEF Analyze, StartWinner, Continue, Abort, StoreAt, OpenAt, Locks
<1> QED
    BY <1>1, <1>2, <1>3, <1>4, <1>5, <1>6 DEF Step

\* The step of DeletedIsGone.
LEMMA DeletingStep ==
    ASSUME Inv, [Next]_vars, NEW x \in DOMAIN tests \ DOMAIN tests'
    PROVE  MayGo(x)
<1>1. ASSUME NEW p \in Procs, Operation(p) \/ Step(p) \/ Crash(p) PROVE MayGo(x)
    <2>1. CASE Operation(p)
        BY <2>1, OperationDeletes
    <2>2. CASE Step(p)
        BY <2>2, StepDeletes, FinishDeletes DEF NoneDeleted
    <2>3. CASE Crash(p)
        BY <2>3 DEF Crash
    <2> QED
        BY <1>1, <2>1, <2>2, <2>3
<1>2. CASE Listmonk
    BY <1>2 DEF Listmonk, Tick, Fire, Finish, Subscribe
<1>3. CASE Others
    BY <1>3 DEF Others, ReadForTransition, WriteTransition
<1>4. CASE UNCHANGED vars
    BY <1>4 DEF vars
<1> QED
    BY <1>1, <1>2, <1>3, <1>4 DEF Next

(***************************************************************************)
(* A record that names campaigns of a test that has not ended goes only    *)
(* when everything it names is gone (deleteTest).                          *)
(***************************************************************************)
THEOREM NothingLeftBehind == Spec => DeletedIsGone
<1>1. Inv /\ [Next]_vars =>
        [\A x \in DOMAIN tests \ DOMAIN tests' :
           (tests[x].status \notin TERMINAL_STATUSES /\ tests[x].mapping # Empty) =>
             /\ Values(tests[x].mapping) \cap DOMAIN campaigns' = {}
             /\ Values(tests[x].split) \cap DOMAIN lists' = {}]_vars
    BY DeletingStep DEF MayGo
<1> QED
    BY <1>1, Consistent, PTL DEF Spec, DeletedIsGone
=============================================================================
