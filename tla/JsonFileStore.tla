--------------------------- MODULE JsonFileStore ---------------------------
(***************************************************************************)
(* The JSON file store of packages/common (json-file-store.ts): a lock     *)
(* file created by link(2), recovery of the locks that dead processes left *)
(* behind under a second lock file (the recovery sentinel), and the        *)
(* read/modify/write transaction run under the lock.                       *)
(*                                                                         *)
(* One step is one system call on a shared file.  A caller is one call of  *)
(* updateJsonFileStore or writeJsonFileStore; several callers may share a  *)
(* process, and with it the map knownAbandonedLockTokens and its fate.     *)
(***************************************************************************)
EXTENDS FiniteSets, Integers

CONSTANTS
    Callers, Processes, ProcessOf,    \* ProcessOf[c] is the process caller c runs in
    HostOf,                           \* HostOf[p] is the host process p runs on
    Tokens, NoToken,                  \* randomUUID() and its absence
    NoFile,                           \* the content of a file that does not exist
    Transactions, Replacements,       \* Replacements are calls of writeJsonFileStore
    MaxCrashes,                       \* bound: processes that may die
    SentinelLeaks                     \* whether a sentinel may be left behind by a crash or an I/O error

Paths == {"lock", "recovery"}

ASSUME StoreAssumption ==
    /\ ProcessOf \in [Callers -> Processes]
    /\ NoToken \notin Tokens
    /\ NoFile \notin [token : Tokens, process : Processes]
    /\ Replacements \subseteq Transactions
    /\ MaxCrashes \in Nat
    /\ SentinelLeaks \in BOOLEAN

VARIABLES
    files,      \* content of <path>.lock and <path>.lock.recovery
    value,      \* the stored value: the transactions it contains
    alive,      \* the processes that run
    abandoned,  \* per process and path, the knownAbandonedLockTokens entry
    call        \* per caller, where its call is and its local variables

vars == <<files, value, alive, abandoned, call>>

Metadata == [token : Tokens, process : Processes]

Points == {"idle", "acquire", "recover", "readOwner", "checkOwner", "confirmOwner", "unlink",
           "retry", "read", "commit", "release", "releaseUnlink"}

Call == [at : Points, path : Paths, token : [Paths -> Tokens \cup {NoToken}],
         seen : Metadata \cup {NoFile}, known : BOOLEAN,
         current : SUBSET Transactions, transaction : SUBSET Transactions]

IdleCall == [at |-> "idle", path |-> "lock", token |-> [p \in Paths |-> NoToken],
             seen |-> NoFile, known |-> FALSE, current |-> {}, transaction |-> {}]

Init ==
    /\ files = [p \in Paths |-> NoFile]
    /\ value = {}
    /\ alive = Processes
    /\ abandoned = [p \in Processes |-> [q \in Paths |-> NoToken]]
    /\ call = [c \in Callers |-> IdleCall]

-----------------------------------------------------------------------------
At(c, point) == call[c].at = point /\ ProcessOf[c] \in alive

Go(c, point) == call' = [call EXCEPT ![c].at = point]

\* Tokens that no file, caller or map refers to: what randomUUID() may return.
FreshTokens ==
    Tokens \ ((UNION {{call[c].token[p] : p \in Paths} : c \in Callers})
              \cup {call[c].seen.token : c \in {d \in Callers : call[d].seen # NoFile}}
              \cup {files[p].token : p \in {q \in Paths : files[q] # NoFile}}
              \cup (UNION {{abandoned[p][q] : q \in Paths} : p \in Processes}))

NewToken == CHOOSE t \in FreshTokens : TRUE

\* createLockFile: link(2) makes the complete file appear unless one is there.
CreateFile(c, path, created, exists) ==
    IF files[path] = NoFile
    THEN /\ FreshTokens # {}
         /\ files' = [files EXCEPT ![path] = [token |-> NewToken, process |-> ProcessOf[c]]]
         /\ abandoned' = [abandoned EXCEPT ![ProcessOf[c]][path] = NoToken]
         /\ call' = [call EXCEPT ![c] = [created EXCEPT !.token[path] = NewToken]]
    ELSE /\ call' = [call EXCEPT ![c] = exists]
         /\ UNCHANGED <<files, abandoned>>

-----------------------------------------------------------------------------
(* acquireLock *)

Begin(c, x) ==
    /\ At(c, "idle")
    /\ x \notin value /\ \A d \in Callers : x \notin call[d].transaction
    /\ call' = [call EXCEPT ![c].at = "acquire", ![c].transaction = {x}]
    /\ UNCHANGED <<files, value, alive, abandoned>>

\* A write has no current value to read.
CreateLock(c) ==
    /\ At(c, "acquire")
    /\ CreateFile(c, "lock",
         [call[c] EXCEPT !.at = IF call[c].transaction \subseteq Replacements THEN "commit" ELSE "read"],
         [call[c] EXCEPT !.at = "recover"])
    /\ UNCHANGED <<value, alive>>

RecoverWithoutSentinel(c) ==
    /\ At(c, "recover")
    /\ call' = [call EXCEPT ![c].at = "readOwner", ![c].path = "lock"]
    /\ UNCHANGED <<files, value, alive, abandoned>>
\* removeAbandonedLock: with the sentinel the lock may be examined; without it, the sentinel.
CreateSentinel(c) ==
    /\ At(c, "recover")
    /\ CreateFile(c, "recovery",
         [call[c] EXCEPT !.at = "readOwner", !.path = "lock"],
         [call[c] EXCEPT !.at = "readOwner", !.path = "recovery"])
    /\ UNCHANGED <<value, alive>>

\* The timeout of acquireLock may be over or not.
Retry(c) ==
    /\ At(c, "retry")
    /\ call' = [call EXCEPT ![c] = [IdleCall EXCEPT !.at = "acquire", !.transaction = call[c].transaction]]
    /\ UNCHANGED <<files, value, alive, abandoned>>

TimeOut(c) ==
    /\ At(c, "retry")
    /\ call' = [call EXCEPT ![c] = IdleCall]
    /\ UNCHANGED <<files, value, alive, abandoned>>

-----------------------------------------------------------------------------
(* removeDeadOwnerFile(path) *)

\* After examining the lock the sentinel is released; after examining the sentinel the caller waits.
Examined(c) ==
    [call[c] EXCEPT !.at = IF call[c].path = "lock" THEN "release" ELSE "retry",
                    !.path = "recovery", !.seen = NoFile, !.known = FALSE]

ReadOwner(c) ==
    /\ At(c, "readOwner")
    /\ call' = [call EXCEPT ![c] =
         IF files[call[c].path] = NoFile THEN Examined(c)
         ELSE [call[c] EXCEPT !.at = "checkOwner", !.seen = files[call[c].path]]]
    /\ UNCHANGED <<files, value, alive, abandoned>>

KnownAbandoned(c) == abandoned[ProcessOf[c]][call[c].path] = call[c].seen.token

AnyOwner(c) == TRUE
OnlyKnownAbandoned(c) == HostOf[call[c].seen.process] = HostOf[ProcessOf[c]] /\ KnownAbandoned(c)
\* The owner is on this host and dead, or this process knows that it gave the file up.
OwnerIsDead(c) ==
    /\ HostOf[call[c].seen.process] = HostOf[ProcessOf[c]]
    /\ KnownAbandoned(c) \/ call[c].seen.process \notin alive

CheckOwner(c) ==
    /\ At(c, "checkOwner")
    /\ call' = [call EXCEPT ![c] =
         IF OwnerIsDead(c) THEN [call[c] EXCEPT !.at = "confirmOwner", !.known = KnownAbandoned(c)]
         ELSE Examined(c)]
    /\ UNCHANGED <<files, value, alive, abandoned>>

ForgetAbandoned(c) ==
    IF call[c].known THEN [abandoned EXCEPT ![ProcessOf[c]][call[c].path] = NoToken] ELSE abandoned

ConfirmOwner(c) ==
    LET file == files[call[c].path]
        same == file # NoFile /\ file.token = call[c].seen.token
    IN  /\ At(c, "confirmOwner")
        /\ call' = [call EXCEPT ![c] = IF same THEN [call[c] EXCEPT !.at = "unlink"] ELSE Examined(c)]
        /\ abandoned' = IF file # NoFile /\ ~same THEN ForgetAbandoned(c) ELSE abandoned
        /\ UNCHANGED <<files, value, alive>>

\* unlink(2) removes whatever file the path names by now.
Unlink(c) ==
    /\ At(c, "unlink")
    /\ files' = [files EXCEPT ![call[c].path] = NoFile]
    /\ abandoned' = ForgetAbandoned(c)
    /\ call' = [call EXCEPT ![c] = Examined(c)]
    /\ UNCHANGED <<value, alive>>

\* A file cannot be read or removed: the examination ends, and with it the call (TimeOut).
RecoveryFails(c) ==
    /\ At(c, "readOwner") \/ At(c, "confirmOwner") \/ At(c, "unlink")
    /\ files[call[c].path] # NoFile
    /\ call' = [call EXCEPT ![c] = Examined(c)]
    /\ UNCHANGED <<files, value, alive, abandoned>>

-----------------------------------------------------------------------------
(* The transaction and releaseLock *)

ReadValue(c) ==
    /\ At(c, "read")
    /\ call' = [call EXCEPT ![c].at = "commit", ![c].current = value]
    /\ UNCHANGED <<files, value, alive, abandoned>>

\* The callback's value replaces the file in one rename(2).
Commit(c) ==
    /\ At(c, "commit")
    /\ value' = call[c].current \cup call[c].transaction
    /\ call' = [call EXCEPT ![c].at = "release", ![c].path = "lock"]
    /\ UNCHANGED <<files, alive, abandoned>>

\* The callback, the schema or the file system refuses: nothing is replaced.
Abort(c) ==
    /\ At(c, "read") \/ At(c, "commit")
    /\ call' = [call EXCEPT ![c].at = "release", ![c].path = "lock"]
    /\ UNCHANGED <<files, value, alive, abandoned>>

\* runWithOwnedLock is done with call[c].path.
Released(c) ==
    /\ abandoned' = IF abandoned[ProcessOf[c]][call[c].path] = call[c].token[call[c].path]
                    THEN [abandoned EXCEPT ![ProcessOf[c]][call[c].path] = NoToken]
                    ELSE abandoned
    /\ call' = [call EXCEPT ![c] =
         IF call[c].path = "lock" THEN IdleCall
         ELSE [call[c] EXCEPT !.at = "retry", !.token["recovery"] = NoToken]]

OwnsFile(c) ==
    files[call[c].path] # NoFile /\ files[call[c].path].token = call[c].token[call[c].path]

Release(c) ==
    /\ At(c, "release")
    /\ IF OwnsFile(c) THEN Go(c, "releaseUnlink") /\ UNCHANGED abandoned ELSE Released(c)
    /\ UNCHANGED <<files, value, alive>>

ReleaseUnlink(c) ==
    /\ At(c, "releaseUnlink")
    /\ files' = [files EXCEPT ![call[c].path] = NoFile]
    /\ Released(c)
    /\ UNCHANGED <<value, alive>>

\* Reading or unlinking the lock file fails: the process remembers the token, the call throws.
ReleaseFails(c) ==
    /\ At(c, "release") \/ At(c, "releaseUnlink")
    /\ files[call[c].path] # NoFile
    /\ SentinelLeaks \/ call[c].path = "lock"
    /\ abandoned' = [abandoned EXCEPT ![ProcessOf[c]][call[c].path] = call[c].token[call[c].path]]
    /\ call' = [call EXCEPT ![c] = IdleCall]
    /\ UNCHANGED <<files, value, alive>>

-----------------------------------------------------------------------------
OwnsSentinel(p) == files["recovery"] # NoFile /\ files["recovery"].process = p

\* A process dies; what it left on disk stays.
Crash(p) ==
    /\ p \in alive
    /\ Cardinality(Processes \ alive) < MaxCrashes
    /\ OwnsSentinel(p) => SentinelLeaks
    /\ alive' = alive \ {p}
    /\ call' = [c \in Callers |-> IF ProcessOf[c] = p THEN IdleCall ELSE call[c]]
    /\ UNCHANGED <<files, value, abandoned>>

Recovering(c) ==
    CreateSentinel(c) \/ ReadOwner(c) \/ CheckOwner(c) \/ ConfirmOwner(c) \/ Unlink(c)

Finishing(c) == Release(c) \/ ReleaseUnlink(c)

Step(c) ==
    \/ CreateLock(c) \/ Recovering(c) \/ RecoveryFails(c) \/ Retry(c) \/ TimeOut(c)
    \/ ReadValue(c) \/ Commit(c) \/ Abort(c)
    \/ Finishing(c) \/ ReleaseFails(c)

Next ==
    \/ \E c \in Callers : Step(c) \/ \E x \in Transactions : Begin(c, x)
    \/ \E p \in Processes : Crash(p)

Spec == Init /\ [][Next]_vars

\* Calls take their next step as long as their process lives, and a process whose call timed
\* out or failed calls again: the workers and schedulers of the automation package do.
Work(c) ==
    \/ CreateLock(c) \/ Recovering(c) \/ Retry(c) \/ TimeOut(c)
    \/ ReadValue(c) \/ Commit(c) \/ Abort(c) \/ Finishing(c)
    \/ \E x \in Transactions : Begin(c, x)

FairSpec == Spec /\ \A c \in Callers : WF_vars(Work(c))

-----------------------------------------------------------------------------
(* Properties *)

\* Every variable holds a value of its kind.
TypeOK ==
    /\ files \in [Paths -> Metadata \cup {NoFile}]
    /\ value \subseteq Transactions
    /\ alive \subseteq Processes
    /\ abandoned \in [Processes -> [Paths -> Tokens \cup {NoToken}]]
    /\ call \in [Callers -> Call]

\* The callers between acquireLock and the end of their transaction.
InTransaction == {c \in Callers : call[c].at \in {"read", "commit"}}

\* Writers serialize: at most one call reads and replaces the value at a time, even while the
\* locks of dead processes are being recovered.
MutualExclusion == \A c, d \in InTransaction : c = d

\* A lock file or sentinel of a live process that has not given it up is removed only by its
\* owner: recovery leaves it intact.
LiveOwnerKept ==
    [][\A path \in Paths :
         /\ files[path] # NoFile
         /\ files[path].process \in alive
         /\ abandoned[files[path].process][path] # files[path].token
         /\ files'[path] # files[path]
         => \E c \in Callers : call[c].at = "releaseUnlink" /\ call[c].path = path
                               /\ call[c].token[path] = files[path].token /\ call'[c] # call[c]]_vars

HeldByDead(path) == files[path] # NoFile /\ files[path].process \notin alive

\* The lock of a dead process does not block the store for good: as long as some process is
\* left that has work to do and its file operations do not keep failing, the lock is removed,
\* also when sentinels are left behind.
DeadLockRecovered ==
    <>[][\A c \in Callers : ~RecoveryFails(c)]_vars =>
       (HeldByDead("lock") ~> (~HeldByDead("lock") \/ value = Transactions))

\* The file store implements the atomic store: no update is lost or applied to a stale value.
Store == INSTANCE AtomicStore
Serializable == Store!Spec
=============================================================================
