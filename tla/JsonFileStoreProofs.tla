------------------------ MODULE JsonFileStoreProofs ------------------------
(***************************************************************************)
(* What holds of JsonFileStore for any number of callers, processes, hosts *)
(* and tokens, as long as no sentinel is left behind (~SentinelLeaks; the  *)
(* run store_sentinel shows what happens otherwise).                       *)
(*                                                                         *)
(* The invariant says who owns the two files: a call in its transaction    *)
(* owns the lock file, one that examines the lock owns the sentinel, and   *)
(* what a call has decided to remove has been given up by its owner.       *)
(***************************************************************************)
EXTENDS JsonFileStore, TLAPS

Examining == {"readOwner", "checkOwner", "confirmOwner", "unlink"}
Releasing == {"release", "releaseUnlink"}

\* A call in state r owns the file at path.
Owning(r, path) ==
    \/ path = "lock" /\ r.at \in {"read", "commit"}
    \/ path = "recovery" /\ r.at \in Examining /\ r.path = "lock"
    \/ path = r.path /\ r.at \in Releasing

\* The owner of the file at path is dead, or its process knows that it gave it up.
GivenUp(path) ==
    \/ files[path].process \notin alive
    \/ abandoned[files[path].process][path] = files[path].token

SeesFile(r) == files[r.path] # NoFile /\ files[r.path].token = r.seen.token

\* What holds of the call r of caller c.
CallOK(c, r) ==
    /\ r \in Call
    /\ r.at = "idle" => r = IdleCall
    /\ r.at # "idle" => ProcessOf[c] \in alive /\ \E x \in Transactions : r.transaction = {x}
    /\ r.at \in {"acquire", "read"} => r.current = {}
    /\ r.at = "read" => ~(r.transaction \subseteq Replacements)
    /\ r.at = "commit" => r.current = IF r.transaction \subseteq Replacements THEN {} ELSE value
    /\ \A path \in Paths : Owning(r, path) =>
         /\ files[path] # NoFile /\ files[path].token = r.token[path]
         /\ files[path].process = ProcessOf[c]
         /\ \A p \in Processes : abandoned[p][path] # r.token[path]
    /\ r.at \in {"checkOwner", "confirmOwner", "unlink"} => r.seen # NoFile
    /\ r.seen # NoFile => \A path \in Paths :
         files[path] # NoFile /\ files[path].token = r.seen.token => files[path] = r.seen
    /\ r.at \in {"confirmOwner", "unlink"} /\ SeesFile(r) => GivenUp(r.path)
    /\ r.at = "unlink" => SeesFile(r)

CallsOK == \A c \in Callers : CallOK(c, call[c])

TokensDiffer ==
    \A c, d \in Callers : \A path \in Paths :
        call[c].token[path] # NoToken /\ call[c].token[path] = call[d].token[path] => c = d

\* The two files differ, and a process only knows files of its own to be given up.
FilesOK ==
    /\ files["lock"] # NoFile /\ files["recovery"] # NoFile =>
         files["lock"].token # files["recovery"].token
    /\ \A path \in Paths : files[path] # NoFile =>
         \A p \in Processes : abandoned[p][path] = files[path].token => files[path].process = p

\* No sentinel is left behind.
SentinelOK ==
    /\ files["recovery"] # NoFile => files["recovery"].process \in alive
    /\ \A p \in Processes : abandoned[p]["recovery"] = NoToken

Inv == TypeOK /\ CallsOK /\ TokensDiffer /\ FilesOK /\ SentinelOK

-----------------------------------------------------------------------------
(* Owners *)

USE StoreAssumption DEF Paths

\* What is owned has not been given up.
LEMMA OwnedKept ==
    ASSUME TypeOK, NEW c \in Callers, CallOK(c, call[c]), NEW path \in Paths, Owning(call[c], path)
    PROVE  /\ ~GivenUp(path)
           /\ files[path] # NoFile /\ files[path] \in Metadata
           /\ files[path].token = call[c].token[path] /\ files[path].process = ProcessOf[c]
           /\ call[c].token[path] \in Tokens
           /\ call[c].at # "idle" /\ ProcessOf[c] \in alive /\ ProcessOf[c] \in Processes
<1>1. /\ files[path] # NoFile /\ files[path].token = call[c].token[path]
      /\ files[path].process = ProcessOf[c]
      /\ \A p \in Processes : abandoned[p][path] # call[c].token[path]
    BY DEF CallOK
<1>2. files[path] \in Metadata
    BY <1>1 DEF TypeOK
<1>3. call[c].at # "idle"
    BY DEF Owning, Examining, Releasing
<1>4. ProcessOf[c] \in alive /\ ProcessOf[c] \in Processes
    BY <1>3 DEF CallOK
<1> QED
    BY <1>1, <1>2, <1>3, <1>4 DEF GivenUp, Metadata

\* A file has one owner.
LEMMA OneOwner ==
    ASSUME Inv, NEW c \in Callers, NEW d \in Callers, NEW path \in Paths,
           Owning(call[c], path), Owning(call[d], path)
    PROVE  c = d
<1>1. CallOK(c, call[c]) /\ CallOK(d, call[d]) /\ TypeOK
    BY DEF Inv, CallsOK
<1>2. call[c].token[path] = call[d].token[path] /\ call[c].token[path] # NoToken
    BY <1>1, OwnedKept
<1> QED
    BY <1>2 DEF Inv, TokensDiffer

\* A sentinel is never given up.
LEMMA SentinelKept ==
    ASSUME TypeOK, SentinelOK, files["recovery"] # NoFile
    PROVE  ~GivenUp("recovery")
BY DEF SentinelOK, GivenUp, TypeOK, Metadata

\* Only the lock is ever removed by an examination, and by the owner of the sentinel.
LEMMA UnlinksLock ==
    ASSUME Inv, NEW c \in Callers, call[c].at = "unlink"
    PROVE  /\ call[c].path = "lock" /\ Owning(call[c], "recovery")
           /\ files["lock"] # NoFile /\ files["lock"].token = call[c].seen.token /\ GivenUp("lock")
<1>1. CallOK(c, call[c]) /\ TypeOK /\ SentinelOK
    BY DEF Inv, CallsOK
<1>2. SeesFile(call[c]) /\ GivenUp(call[c].path) /\ call[c].path \in Paths
    BY <1>1 DEF CallOK, Call
<1>3. call[c].path # "recovery"
    BY <1>1, <1>2, SentinelKept DEF SeesFile
<1> QED
    BY <1>2, <1>3 DEF SeesFile, Owning, Examining

\* Nothing in the state refers to a fresh token.
LEMMA FreshFacts ==
    ASSUME NEW t \in FreshTokens
    PROVE  /\ t \in Tokens
           /\ \A c \in Callers : \A path \in Paths : call[c].token[path] # t
           /\ \A c \in Callers : call[c].seen # NoFile => call[c].seen.token # t
           /\ \A path \in Paths : files[path] # NoFile => files[path].token # t
           /\ \A p \in Processes : \A path \in Paths : abandoned[p][path] # t
<1> DEFINE held == UNION {{call[c].token[p] : p \in Paths} : c \in Callers}
           seen == {call[c].seen.token : c \in {d \in Callers : call[d].seen # NoFile}}
           stored == {files[p].token : p \in {q \in Paths : files[q] # NoFile}}
           forgotten == UNION {{abandoned[p][q] : q \in Paths} : p \in Processes}
<1>1. t \in Tokens /\ t \notin held /\ t \notin seen /\ t \notin stored /\ t \notin forgotten
    BY DEF FreshTokens
<1>2. \A c \in Callers : \A path \in Paths : call[c].token[path] # t
    <2> SUFFICES ASSUME NEW c \in Callers, NEW path \in Paths PROVE call[c].token[path] \in held
        BY <1>1
    <2>1. call[c].token[path] \in {call[c].token[p] : p \in Paths}
        OBVIOUS
    <2> QED
        BY <2>1
<1>3. \A c \in Callers : call[c].seen # NoFile => call[c].seen.token # t
    BY <1>1
<1>4. \A path \in Paths : files[path] # NoFile => files[path].token # t
    BY <1>1
<1>5. \A p \in Processes : \A path \in Paths : abandoned[p][path] # t
    <2> SUFFICES ASSUME NEW p \in Processes, NEW path \in Paths PROVE abandoned[p][path] \in forgotten
        BY <1>1
    <2>1. abandoned[p][path] \in {abandoned[p][q] : q \in Paths}
        OBVIOUS
    <2> QED
        BY <2>1
<1> HIDE DEF held, seen, stored, forgotten
<1> QED
    BY <1>1, <1>2, <1>3, <1>4, <1>5

-----------------------------------------------------------------------------
(* Steps of one call that leave the shared state alone *)

\* A step that changes only the call of c to r, which neither takes a token nor
\* owns what it did not own.
LEMMA LocalStep ==
    ASSUME Inv, NEW c \in Callers, NEW r,
           call' = [call EXCEPT ![c] = r], UNCHANGED <<files, value, alive, abandoned>>,
           CallOK(c, r),
           \A path \in Paths : r.token[path] \in {call[c].token[path], NoToken}
    PROVE  Inv'
<1>1. r \in Call
    BY DEF CallOK
<1>2. TypeOK'
    BY <1>1 DEF Inv, TypeOK
<1>3. call'[c] = r /\ \A d \in Callers \ {c} : call'[d] = call[d]
    BY DEF Inv, TypeOK
<1>4. CallsOK'
    <2> SUFFICES ASSUME NEW d \in Callers PROVE CallOK(d, call[d])'
        BY DEF CallsOK
    <2>1. CallOK(d, call'[d])
        BY <1>3 DEF Inv, CallsOK
    <2> QED
        BY <2>1 DEF CallOK, SeesFile, GivenUp
<1>5. TokensDiffer'
    BY <1>3 DEF TokensDiffer, Inv
<1>6. FilesOK' /\ SentinelOK'
    BY DEF Inv, FilesOK, SentinelOK
<1> QED
    BY <1>2, <1>4, <1>5, <1>6 DEF Inv

(* A caller between two transactions owns nothing and remembers nothing. *)
LEMMA IdleOK ==
    ASSUME NEW c \in Callers
    PROVE  CallOK(c, IdleCall) /\ \A path \in Paths : IdleCall.token[path] = NoToken
BY DEF CallOK, IdleCall, Call, Points, Owning, Examining, Releasing

(* A call starts by looking for the lock file (acquireFileLock). *)
LEMMA BeginStep ==
    ASSUME Inv, NEW c \in Callers, NEW x \in Transactions, Begin(c, x) PROVE Inv'
<1> DEFINE r == [call[c] EXCEPT !.at = "acquire", !.transaction = {x}]
<1>1. call[c] = IdleCall /\ call[c] \in Call /\ ProcessOf[c] \in alive /\ call \in [Callers -> Call]
    BY DEF Inv, CallsOK, CallOK, TypeOK, Begin, At
<1>2. call' = [call EXCEPT ![c] = r]
    BY <1>1 DEF Begin
<1>3. /\ r \in Call /\ r.at = "acquire" /\ r.token = call[c].token /\ r.seen = NoFile
      /\ r.current = {} /\ r.transaction = {x}
    <2>1. r = [IdleCall EXCEPT !.at = "acquire", !.transaction = {x}]
        BY <1>1
    <2> HIDE DEF r
    <2> QED
        BY <1>1, <2>1 DEF IdleCall, Call, Points
<1>4. CallOK(c, r)
    BY <1>1, <1>3 DEF CallOK, Owning, Examining, Releasing
<1> QED
    BY <1>2, <1>3, <1>4, LocalStep DEF Begin

(* A call that waited for a lock looks again. *)
LEMMA RetryStep ==
    ASSUME Inv, NEW c \in Callers, Retry(c) PROVE Inv'
<1> DEFINE r == [IdleCall EXCEPT !.at = "acquire", !.transaction = call[c].transaction]
<1>1. CallOK(c, call[c]) /\ call[c].at = "retry" /\ call' = [call EXCEPT ![c] = r]
    BY DEF Inv, CallsOK, Retry, At
<1>2. call[c].transaction \subseteq Transactions
    BY <1>1 DEF CallOK
<1>3. /\ r \in Call /\ r.at = "acquire" /\ r.seen = NoFile /\ r.current = {}
      /\ r.transaction = call[c].transaction /\ \A path \in Paths : r.token[path] = NoToken
    BY <1>2 DEF IdleCall, Call, Points
<1>4. CallOK(c, r)
    BY <1>1, <1>3 DEF CallOK, Owning, Examining, Releasing
<1> QED
    BY <1>1, <1>3, <1>4, LocalStep DEF Retry

(* A call that gives up waiting returns without having touched anything. *)
LEMMA TimeOutStep ==
    ASSUME Inv, NEW c \in Callers, TimeOut(c) PROVE Inv'
BY IdleOK, LocalStep DEF TimeOut

\* A call that finds the file it wanted to create.
LEMMA ExistsStep ==
    ASSUME Inv, NEW c \in Callers, NEW point \in {"recover", "readOwner"}, NEW path \in Paths,
           call[c].at \in {"acquire", "recover"}, point = "recover" \/ path = "recovery",
           call' = [call EXCEPT ![c] = [call[c] EXCEPT !.at = point, !.path = path]],
           UNCHANGED <<files, value, alive, abandoned>>
    PROVE  Inv'
<1> DEFINE r == [call[c] EXCEPT !.at = point, !.path = path]
<1>1. CallOK(c, call[c])
    BY DEF Inv, CallsOK
<1>2. CallOK(c, r)
    BY <1>1 DEF CallOK, Call, Points, Owning, Examining, Releasing
<1> QED
    BY <1>1, <1>2, LocalStep DEF CallOK, Call

\* The end of an examination.
LEMMA ExaminedOK ==
    ASSUME NEW c \in Callers, CallOK(c, call[c]), call[c].at \in Examining
    PROVE  CallOK(c, Examined(c)) /\ Examined(c).token = call[c].token
<1> DEFINE r == Examined(c)
<1>1. /\ r \in Call /\ r.token = call[c].token /\ r.transaction = call[c].transaction
      /\ r.seen = NoFile /\ r.path = "recovery"
      /\ r.at = IF call[c].path = "lock" THEN "release" ELSE "retry"
    BY DEF Examined, CallOK, Call, Points
<1>2. CallOK(c, r)
    <2>1. call[c].at # "idle"
        BY DEF Examining
    <2>2. \A q \in Paths : Owning(r, q) => q = "recovery" /\ Owning(call[c], q)
        BY <1>1 DEF Owning, Examining, Releasing
    <2> HIDE DEF r
    <2> QED
        BY <1>1, <2>1, <2>2 DEF CallOK
<1> QED
    BY <1>1, <1>2

(* Reading the owner out of a lock file: gone, or examined from here on. *)
LEMMA ReadOwnerStep ==
    ASSUME Inv, NEW c \in Callers, ReadOwner(c) PROVE Inv'
<1> DEFINE r == [call[c] EXCEPT !.at = "checkOwner", !.seen = files[call[c].path]]
<1>1. CallOK(c, call[c]) /\ call[c].at = "readOwner" /\ TypeOK
    BY DEF Inv, CallsOK, ReadOwner, At
<1>2. CASE files[call[c].path] = NoFile
    <2>1. call[c].at \in Examining
        BY <1>1 DEF Examining
    <2>2. call' = [call EXCEPT ![c] = Examined(c)]
        BY <1>2 DEF ReadOwner
    <2> QED
        BY <1>1, <2>1, <2>2, ExaminedOK, LocalStep DEF ReadOwner
<1>3. CASE files[call[c].path] # NoFile
    <2>1. call' = [call EXCEPT ![c] = r]
        BY <1>3 DEF ReadOwner
    <2>2. \A path \in Paths : files[path] # NoFile /\ files[path].token = files[call[c].path].token
             => files[path] = files[call[c].path]
        BY <1>1, <1>3 DEF Inv, FilesOK, CallOK, Call
    <2>3. files[call[c].path] \in Metadata
        BY <1>1, <1>3 DEF TypeOK, CallOK, Call
    <2>4. /\ r \in Call /\ r.at = "checkOwner" /\ r.path = call[c].path /\ r.token = call[c].token
          /\ r.seen = files[call[c].path] /\ r.transaction = call[c].transaction
        BY <1>1, <2>3 DEF CallOK, Call, Points
    <2>5. CallOK(c, r)
        BY <1>1, <1>3, <2>2, <2>4 DEF CallOK, Owning, Examining, Releasing
    <2> QED
        BY <2>1, <2>4, <2>5, LocalStep DEF ReadOwner
<1> QED
    BY <1>2, <1>3

\* What the check finds dead or abandoned has been given up, if it is still there.
LEMMA CheckOwnerStep ==
    ASSUME Inv, NEW c \in Callers, CheckOwner(c) PROVE Inv'
<1> DEFINE r == [call[c] EXCEPT !.at = "confirmOwner", !.known = KnownAbandoned(c)]
<1>1. CallOK(c, call[c]) /\ call[c].at = "checkOwner" /\ TypeOK
    BY DEF Inv, CallsOK, CheckOwner, At
<1>2. CASE ~OwnerIsDead(c)
    BY <1>1, <1>2, ExaminedOK, LocalStep DEF CheckOwner, Examining
<1>3. CASE OwnerIsDead(c)
    <2>1. call' = [call EXCEPT ![c] = r]
        BY <1>3 DEF CheckOwner
    <2>2. SeesFile(call[c]) => GivenUp(call[c].path)
        <3> SUFFICES ASSUME SeesFile(call[c]) PROVE GivenUp(call[c].path)
            OBVIOUS
        <3>1. files[call[c].path] = call[c].seen /\ call[c].path \in Paths
            BY <1>1 DEF SeesFile, CallOK, Call
        <3>2. CASE call[c].seen.process \notin alive
            BY <3>1, <3>2 DEF GivenUp
        <3>3. CASE KnownAbandoned(c)
            <4>1. files[call[c].path].process = ProcessOf[c]
                BY <3>1, <3>3 DEF Inv, FilesOK, KnownAbandoned, SeesFile
            <4> QED
                BY <3>1, <3>3, <4>1 DEF GivenUp, KnownAbandoned
        <3> QED
            BY <1>3, <3>2, <3>3 DEF OwnerIsDead
    <2>3. KnownAbandoned(c) \in BOOLEAN
        BY DEF KnownAbandoned
    <2>4. r \in Call /\ r.at = "confirmOwner" /\ r.path = call[c].path /\ r.token = call[c].token
          /\ r.seen = call[c].seen /\ r.transaction = call[c].transaction
        BY <1>1, <2>3 DEF CallOK, Call, Points
    <2>5. CallOK(c, r)
        BY <1>1, <2>2, <2>4 DEF CallOK, SeesFile, GivenUp, Owning, Examining, Releasing
    <2> QED
        BY <2>1, <2>4, <2>5, LocalStep DEF CheckOwner
<1> QED
    BY <1>2, <1>3

(* An error while a dead owner is examined ends the recovery, with the file left as it is. *)
LEMMA RecoveryFailsStep ==
    ASSUME Inv, NEW c \in Callers, RecoveryFails(c) PROVE Inv'
<1>1. CallOK(c, call[c]) /\ call[c].at \in Examining
    BY DEF Inv, CallsOK, RecoveryFails, At, Examining
<1> QED
    BY <1>1, ExaminedOK, LocalStep DEF RecoveryFails

(* The transaction reads the value under its lock. *)
LEMMA ReadValueStep ==
    ASSUME Inv, NEW c \in Callers, ReadValue(c) PROVE Inv'
<1> DEFINE r == [call[c] EXCEPT !.at = "commit", !.current = value]
<1>1. CallOK(c, call[c]) /\ call[c].at = "read" /\ call \in [Callers -> Call] /\ value \subseteq Transactions
    BY DEF Inv, CallsOK, ReadValue, At, TypeOK
<1>2. call' = [call EXCEPT ![c] = r]
    BY <1>1 DEF ReadValue
<1>3. /\ r \in Call /\ r.at = "commit" /\ r.token = call[c].token /\ r.seen = call[c].seen
      /\ r.current = value /\ r.transaction = call[c].transaction
    BY <1>1 DEF CallOK, Call, Points
<1>4. CallOK(c, r)
    BY <1>1, <1>3 DEF CallOK, Owning, Examining, Releasing
<1> QED
    BY <1>2, <1>3, <1>4, LocalStep DEF ReadValue

(* The operation or its rename throws: the value stays as it was and the lock is released. *)
LEMMA AbortStep ==
    ASSUME Inv, NEW c \in Callers, Abort(c) PROVE Inv'
<1> DEFINE r == [call[c] EXCEPT !.at = "release", !.path = "lock"]
<1>1. CallOK(c, call[c]) /\ call[c].at \in {"read", "commit"} /\ call \in [Callers -> Call]
    BY DEF Inv, CallsOK, Abort, At, TypeOK
<1>2. call' = [call EXCEPT ![c] = r]
    BY <1>1 DEF Abort
<1>3. /\ r \in Call /\ r.at = "release" /\ r.path = "lock" /\ r.token = call[c].token
      /\ r.seen = call[c].seen /\ r.transaction = call[c].transaction
    BY <1>1 DEF CallOK, Call, Points
<1>4. CallOK(c, r)
    BY <1>1, <1>3 DEF CallOK, Owning, Examining, Releasing
<1> QED
    BY <1>2, <1>3, <1>4, LocalStep DEF Abort

\* An owner finds its file.
LEMMA ReleaseStep ==
    ASSUME Inv, NEW c \in Callers, Release(c) PROVE Inv'
<1> DEFINE r == [call[c] EXCEPT !.at = "releaseUnlink"]
<1>1. CallOK(c, call[c]) /\ call[c].at = "release" /\ call \in [Callers -> Call] /\ TypeOK
    BY DEF Inv, CallsOK, Release, At, TypeOK
<1>2. call[c].path \in Paths /\ Owning(call[c], call[c].path)
    BY <1>1 DEF Owning, Releasing, CallOK, Call
<1>3. OwnsFile(c)
    BY <1>1, <1>2, OwnedKept DEF OwnsFile
<1>4. call' = [call EXCEPT ![c] = r] /\ UNCHANGED abandoned
    BY <1>1, <1>3 DEF Release, Go
<1>5. CallOK(c, r) /\ r.token = call[c].token
    BY <1>1 DEF CallOK, Call, Points, Owning, Examining, Releasing
<1> QED
    BY <1>4, <1>5, LocalStep DEF Release

-----------------------------------------------------------------------------
(* Steps that change the files, the maps of abandoned tokens or the value *)

\* createLockFile succeeds: the call of c becomes r, which owns a file with the token t.
Created(c, path, t, r) ==
    /\ files[path] = NoFile /\ ProcessOf[c] \in alive
    /\ files' = [files EXCEPT ![path] = [token |-> t, process |-> ProcessOf[c]]]
    /\ abandoned' = [abandoned EXCEPT ![ProcessOf[c]][path] = NoToken]
    /\ call' = [call EXCEPT ![c] = r]
    /\ UNCHANGED <<value, alive>>
    /\ r \in Call /\ r.token = [call[c].token EXCEPT ![path] = t] /\ r.seen = call[c].seen
    /\ r.at \in {"read", "commit", "readOwner"}
    /\ \A q \in Paths : Owning(r, q) => q = path
    /\ r.at = "read" => r.current = {} /\ ~(r.transaction \subseteq Replacements)
    /\ r.at = "commit" => r.current = {} /\ r.transaction \subseteq Replacements
    /\ \E x \in Transactions : r.transaction = {x}

(* Linking a complete lock file: it is in nobody's hands but the creator's, and nobody examines it yet. *)
LEMMA CreatedStep ==
    ASSUME Inv, NEW c \in Callers, NEW path \in Paths, NEW t \in FreshTokens, NEW r, Created(c, path, t, r)
    PROVE  Inv'
<1> USE DEF Created
<1>1. /\ t \in Tokens
      /\ \A d \in Callers : \A q \in Paths : call[d].token[q] # t
      /\ \A d \in Callers : call[d].seen # NoFile => call[d].seen.token # t
      /\ \A q \in Paths : files[q] # NoFile => files[q].token # t
      /\ \A p \in Processes : \A q \in Paths : abandoned[p][q] # t
    BY FreshFacts
<1> DEFINE file == [token |-> t, process |-> ProcessOf[c]]
<1>2. file \in Metadata /\ file # NoFile /\ file.token = t /\ file.process = ProcessOf[c]
    BY <1>1 DEF Metadata
<1>3. files'[path] = file /\ \A q \in Paths \ {path} : files'[q] = files[q]
    BY DEF Inv, TypeOK
<1>4. /\ abandoned' \in [Processes -> [Paths -> Tokens \cup {NoToken}]]
      /\ abandoned'[ProcessOf[c]][path] = NoToken
      /\ \A p \in Processes : \A q \in Paths :
           abandoned'[p][q] = abandoned[p][q] \/ (p = ProcessOf[c] /\ q = path)
    BY DEF Inv, TypeOK
<1>5. call'[c] = r /\ \A d \in Callers \ {c} : call'[d] = call[d]
    BY DEF Inv, TypeOK
<1>6. TypeOK'
    BY <1>2, <1>4 DEF Inv, TypeOK
<1>7. \A q \in Paths : r.token[q] = IF q = path THEN t ELSE call[c].token[q]
    BY DEF Inv, TypeOK, Call
<1>8. CallsOK'
    <2> SUFFICES ASSUME NEW d \in Callers, NEW e, e = call'[d] PROVE CallOK(d, e)'
        BY DEF CallsOK
    <2>1. CASE d = c
        <3>1. CallOK(c, call[c])
            BY DEF Inv, CallsOK
        <3>2. r.at # "idle" /\ r.at \notin {"acquire", "checkOwner", "confirmOwner", "unlink"}
            OBVIOUS
        <3>3. \A q \in Paths : Owning(r, q) =>
                /\ files'[q] # NoFile /\ files'[q].token = r.token[q]
                /\ files'[q].process = ProcessOf[c]
                /\ \A p \in Processes : abandoned'[p][q] # r.token[q]
            BY <1>1, <1>2, <1>3, <1>4, <1>7
        <3>4. r.seen # NoFile => \A q \in Paths :
                files'[q] # NoFile /\ files'[q].token = r.seen.token => files'[q] = r.seen
            BY <1>1, <1>2, <1>3, <3>1 DEF CallOK
        <3> QED
            <4>1. e = r
                BY <1>5, <2>1
            <4>2. CallOK(c, r)'
                BY <3>1, <3>2, <3>3, <3>4 DEF CallOK, Owning
            <4> QED
                BY <2>1, <4>1, <4>2
    <2>2. CASE d # c
        <3>1. CallOK(d, e) /\ call[d] = e
            BY <1>5, <2>2 DEF Inv, CallsOK
        <3>2. \A q \in Paths : Owning(e, q) => q # path
            BY <3>1 DEF CallOK
        <3>3. \A q \in Paths : Owning(e, q) =>
                /\ files'[q] # NoFile /\ files'[q].token = e.token[q]
                /\ files'[q].process = ProcessOf[d]
                /\ \A p \in Processes : abandoned'[p][q] # e.token[q]
            BY <1>3, <1>4, <3>1, <3>2 DEF CallOK
        <3>4. e.seen # NoFile => \A q \in Paths :
                files'[q] # NoFile /\ files'[q].token = e.seen.token => files'[q] = e.seen
            BY <1>1, <1>2, <1>3, <3>1 DEF CallOK
        <3>5. e.at \in {"confirmOwner", "unlink"} =>
                /\ SeesFile(e)' <=> SeesFile(e)
                /\ SeesFile(e) => GivenUp(e.path)'
            <4> SUFFICES ASSUME e.at \in {"confirmOwner", "unlink"}
                         PROVE  (SeesFile(e)' <=> SeesFile(e)) /\ (SeesFile(e) => GivenUp(e.path)')
                OBVIOUS
            <4>1. e.path \in Paths /\ e.seen # NoFile
                BY <3>1 DEF CallOK, Call
            <4>2. SeesFile(e)' <=> SeesFile(e)
                BY <1>1, <1>2, <1>3, <3>1, <4>1 DEF SeesFile
            <4>3. SeesFile(e) => e.path # path /\ GivenUp(e.path) /\ files[e.path] \in Metadata
                BY <3>1, <4>1 DEF SeesFile, CallOK, Inv, TypeOK
            <4>4. SeesFile(e) => GivenUp(e.path)'
                BY <1>3, <1>4, <4>1, <4>3 DEF GivenUp, Metadata
            <4> QED
                BY <4>2, <4>4
        <3> QED
            BY <3>1, <3>3, <3>4, <3>5 DEF CallOK, Owning
    <2> QED
        BY <2>1, <2>2
<1>9. TokensDiffer'
    <2> SUFFICES ASSUME NEW d \in Callers, NEW e \in Callers, NEW q \in Paths,
                        call'[d].token[q] # NoToken, call'[d].token[q] = call'[e].token[q], d # e
                 PROVE  FALSE
        BY DEF TokensDiffer
    <2>1. CASE d # c /\ e # c
        BY <1>5, <2>1 DEF TokensDiffer, Inv
    <2>2. CASE d = c \/ e = c
        <3>1. CASE q = path
            BY <1>1, <1>5, <1>7, <2>2, <3>1
        <3>2. CASE q # path
            <4>1. call'[d].token[q] = call[d].token[q] /\ call'[e].token[q] = call[e].token[q]
                BY <1>5, <1>7, <3>2
            <4> QED
                BY <4>1 DEF TokensDiffer, Inv
        <3> QED
            BY <3>1, <3>2
    <2> QED
        BY <2>1, <2>2
<1>10. FilesOK'
    <2>1. files'["lock"] # NoFile /\ files'["recovery"] # NoFile =>
            files'["lock"].token # files'["recovery"].token
        BY <1>1, <1>2, <1>3 DEF Inv, FilesOK
    <2>2. ASSUME NEW q \in Paths, files'[q] # NoFile, NEW p \in Processes,
                 abandoned'[p][q] = files'[q].token
          PROVE  files'[q].process = p
        <3>1. CASE q = path
            BY <1>1, <1>2, <1>3, <1>4, <2>2, <3>1
        <3>2. CASE q # path
            BY <1>3, <1>4, <2>2, <3>2 DEF Inv, FilesOK
        <3> QED
            BY <3>1, <3>2
    <2> QED
        BY <2>1, <2>2 DEF FilesOK
<1>11. SentinelOK'
    BY <1>2, <1>3, <1>4 DEF Inv, SentinelOK
<1> QED
    BY <1>6, <1>8, <1>9, <1>10, <1>11 DEF Inv

(* The lock is created by link, or found in place. *)
LEMMA CreateLockStep ==
    ASSUME Inv, NEW c \in Callers, CreateLock(c) PROVE Inv'
<1> DEFINE point == IF call[c].transaction \subseteq Replacements THEN "commit" ELSE "read"
           created == [call[c] EXCEPT !.at = point]
           r == [created EXCEPT !.token["lock"] = NewToken]
<1>1. CallOK(c, call[c]) /\ call[c].at = "acquire" /\ ProcessOf[c] \in alive
    BY DEF Inv, CallsOK, CreateLock, At
<1>2. CASE files["lock"] # NoFile
    <2>1. call' = [call EXCEPT ![c] = [call[c] EXCEPT !.at = "recover"]] /\ UNCHANGED <<files, value, alive, abandoned>>
        BY <1>2 DEF CreateLock, CreateFile
    <2>2. [call[c] EXCEPT !.at = "recover"] = [call[c] EXCEPT !.at = "recover", !.path = call[c].path]
          /\ call[c].path \in Paths
        BY <1>1 DEF CallOK, Call
    <2> QED
        BY <1>1, <2>1, <2>2, ExistsStep
<1>3. CASE files["lock"] = NoFile
    <2>1. /\ FreshTokens # {}
          /\ files' = [files EXCEPT !["lock"] = [token |-> NewToken, process |-> ProcessOf[c]]]
          /\ abandoned' = [abandoned EXCEPT ![ProcessOf[c]]["lock"] = NoToken]
          /\ call' = [call EXCEPT ![c] = r]
          /\ UNCHANGED <<value, alive>>
        BY <1>3 DEF CreateLock, CreateFile
    <2>2. NewToken \in FreshTokens /\ NewToken \in Tokens
        BY <2>1 DEF NewToken, FreshTokens
    <2>3. /\ r \in Call
          /\ r.at = point /\ r.token = [call[c].token EXCEPT !["lock"] = NewToken]
          /\ r.seen = call[c].seen /\ r.current = call[c].current
          /\ r.transaction = call[c].transaction
        BY <1>1, <2>2 DEF CallOK, Call, Points
    <2>4. \A q \in Paths : Owning(r, q) => q = "lock"
        BY <2>3 DEF Owning, Examining, Releasing
    <2>5. r.current = {} /\ \E x \in Transactions : r.transaction = {x}
        BY <1>1, <2>3 DEF CallOK
    <2>6. /\ r.at \in {"read", "commit", "readOwner"}
          /\ r.at = "read" => r.current = {} /\ ~(r.transaction \subseteq Replacements)
          /\ r.at = "commit" => r.current = {} /\ r.transaction \subseteq Replacements
        BY <2>3, <2>5
    <2> HIDE DEF r
    <2> QED
        <3>1. Created(c, "lock", NewToken, r)
            BY <1>1, <1>3, <2>1, <2>3, <2>4, <2>5, <2>6 DEF Created
        <3> QED
            BY <2>2, <3>1, CreatedStep
<1> QED
    BY <1>2, <1>3

(* The recovery sentinel is created by link, or found in place. *)
LEMMA CreateSentinelStep ==
    ASSUME Inv, NEW c \in Callers, CreateSentinel(c) PROVE Inv'
<1> DEFINE created == [call[c] EXCEPT !.at = "readOwner", !.path = "lock"]
           r == [created EXCEPT !.token["recovery"] = NewToken]
<1>1. CallOK(c, call[c]) /\ call[c].at = "recover" /\ ProcessOf[c] \in alive
    BY DEF Inv, CallsOK, CreateSentinel, At
<1>2. CASE files["recovery"] # NoFile
    BY <1>1, <1>2, ExistsStep DEF CreateSentinel, CreateFile
<1>3. CASE files["recovery"] = NoFile
    <2>1. /\ FreshTokens # {}
          /\ files' = [files EXCEPT !["recovery"] = [token |-> NewToken, process |-> ProcessOf[c]]]
          /\ abandoned' = [abandoned EXCEPT ![ProcessOf[c]]["recovery"] = NoToken]
          /\ call' = [call EXCEPT ![c] = r]
          /\ UNCHANGED <<value, alive>>
        BY <1>3 DEF CreateSentinel, CreateFile
    <2>2. NewToken \in FreshTokens /\ NewToken \in Tokens
        BY <2>1 DEF NewToken, FreshTokens
    <2>3. /\ r \in Call
          /\ r.at = "readOwner" /\ r.path = "lock"
          /\ r.token = [call[c].token EXCEPT !["recovery"] = NewToken]
          /\ r.seen = call[c].seen
          /\ r.transaction = call[c].transaction
        BY <1>1, <2>2 DEF CallOK, Call, Points
    <2>4. \A q \in Paths : Owning(r, q) => q = "recovery"
        BY <2>3 DEF Owning, Examining, Releasing
    <2>5. \E x \in Transactions : r.transaction = {x}
        BY <1>1, <2>3 DEF CallOK
    <2>6. /\ r.at \in {"read", "commit", "readOwner"}
          /\ r.at = "read" => r.current = {} /\ ~(r.transaction \subseteq Replacements)
          /\ r.at = "commit" => r.current = {} /\ r.transaction \subseteq Replacements
        BY <2>3, <2>5
    <2> HIDE DEF r
    <2> QED
        <3>1. Created(c, "recovery", NewToken, r)
            BY <1>1, <1>3, <2>1, <2>3, <2>4, <2>5, <2>6 DEF Created
        <3> QED
            BY <2>2, <3>1, CreatedStep
<1> QED
    BY <1>2, <1>3

\* A transaction replaces the value that it read: nobody else owns the lock.
LEMMA CommitStep ==
    ASSUME Inv, NEW c \in Callers, Commit(c) PROVE Inv'
<1>0. PICK r : r = [call[c] EXCEPT !.at = "release", !.path = "lock"]
    OBVIOUS
<1>1. CallOK(c, call[c]) /\ call[c].at = "commit" /\ TypeOK
    BY DEF Inv, CallsOK, Commit, At
<1>2. call' = [call EXCEPT ![c] = r]
    BY <1>0, <1>1 DEF Commit, TypeOK
<1>3. r \in Call /\ r.at = "release" /\ r.path = "lock" /\ r.token = call[c].token
      /\ r.seen = call[c].seen /\ r.transaction = call[c].transaction
    BY <1>0, <1>1 DEF CallOK, Call, Points
<1>4. call'[c] = r /\ \A d \in Callers \ {c} : call'[d] = call[d]
    BY <1>1, <1>2 DEF TypeOK
<1>5. TypeOK'
    <2>1. value' \subseteq Transactions
        BY <1>1 DEF Commit, CallOK, Call
    <2> QED
        BY <1>1, <1>2, <1>3, <2>1 DEF TypeOK, Commit
<1>6. CallsOK'
    <2> SUFFICES ASSUME NEW d \in Callers, NEW e, e = call'[d] PROVE CallOK(d, e)'
        BY DEF CallsOK
    <2>1. CASE d = c
        <3>1. e = r
            BY <1>4, <2>1
        <3>2. \A q \in Paths : Owning(r, q) => Owning(call[c], q) /\ q = "lock"
            BY <1>1, <1>3 DEF Owning, Examining, Releasing
        <3>3. CallOK(c, r)'
            <4>1. UNCHANGED <<files, alive, abandoned>>
                BY DEF Commit
            <4> QED
                BY <1>1, <1>3, <3>2, <4>1 DEF CallOK, Owning
        <3> QED
            BY <2>1, <3>1, <3>3
    <2>2. CASE d # c
        <3>1. CallOK(d, e) /\ e = call[d]
            BY <1>4, <2>2 DEF Inv, CallsOK
        <3>2. e.at # "commit"
            BY <1>1, <2>2, <3>1, OneOwner DEF Owning
        <3>3. UNCHANGED <<files, alive, abandoned>>
            BY DEF Commit
        <3>4. (SeesFile(e)' <=> SeesFile(e)) /\ (GivenUp(e.path)' <=> GivenUp(e.path))
            BY <3>3 DEF SeesFile, GivenUp
        <3>5. \A q \in Paths : Owning(e, q)' <=> Owning(e, q)
            BY DEF Owning
        <3> QED
            BY <3>1, <3>2, <3>3, <3>4, <3>5 DEF CallOK
    <2> QED
        BY <2>1, <2>2
<1>7. TokensDiffer'
    <2>1. \A d \in Callers : call'[d].token = call[d].token
        BY <1>3, <1>4
    <2> QED
        BY <2>1 DEF TokensDiffer, Inv
<1>8. FilesOK' /\ SentinelOK'
    BY DEF Inv, FilesOK, SentinelOK, Commit
<1> QED
    BY <1>5, <1>6, <1>7, <1>8 DEF Inv

\* The file at path is removed, and the process of c forgets it: nobody else
\* owns it or is about to remove it.
LEMMA RemovedStep ==
    ASSUME Inv, NEW c \in Callers, NEW path \in Paths, NEW r,
           files' = [files EXCEPT ![path] = NoFile],
           abandoned' \in {abandoned, [abandoned EXCEPT ![ProcessOf[c]][path] = NoToken]},
           call' = [call EXCEPT ![c] = r], UNCHANGED <<value, alive>>,
           CallOK(c, r), r.at \in {"idle", "retry", "release"}, ~Owning(r, path),
           \A q \in Paths : r.token[q] \in {call[c].token[q], NoToken},
           \A d \in Callers \ {c} : ~Owning(call[d], path) /\ ~(call[d].at = "unlink" /\ call[d].path = path)
    PROVE  Inv'
<1>1. files'[path] = NoFile /\ \A q \in Paths \ {path} : files'[q] = files[q]
    BY DEF Inv, TypeOK
<1>2. /\ abandoned' \in [Processes -> [Paths -> Tokens \cup {NoToken}]]
      /\ \A p \in Processes : \A q \in Paths : abandoned'[p][q] = abandoned[p][q] \/ abandoned'[p][q] = NoToken
      /\ \A p \in Processes : \A q \in Paths \ {path} : abandoned'[p][q] = abandoned[p][q]
    <2>1. abandoned \in [Processes -> [Paths -> Tokens \cup {NoToken}]] /\ ProcessOf[c] \in Processes
        BY DEF Inv, TypeOK
    <2>2. CASE abandoned' = abandoned
        BY <2>1, <2>2
    <2>3. CASE abandoned' = [abandoned EXCEPT ![ProcessOf[c]][path] = NoToken]
        <3>1. abandoned' \in [Processes -> [Paths -> Tokens \cup {NoToken}]]
            BY <2>1, <2>3
        <3>2. \A p \in Processes : abandoned'[p] =
                IF p = ProcessOf[c] THEN [abandoned[p] EXCEPT ![path] = NoToken] ELSE abandoned[p]
            BY <2>1, <2>3
        <3>3. \A p \in Processes : \A q \in Paths : abandoned'[p][q] =
                IF p = ProcessOf[c] /\ q = path THEN NoToken ELSE abandoned[p][q]
            BY <2>1, <3>2
        <3> QED
            BY <3>1, <3>3
    <2> QED
        BY <2>2, <2>3
<1>3. call'[c] = r /\ \A d \in Callers \ {c} : call'[d] = call[d]
    BY DEF Inv, TypeOK
<1>4. TypeOK'
    BY <1>2 DEF Inv, TypeOK, CallOK
<1>5. CallsOK'
    <2> SUFFICES ASSUME NEW d \in Callers, NEW e, e = call'[d] PROVE CallOK(d, e)'
        BY DEF CallsOK
    <2>1. CallOK(d, e) /\ ~Owning(e, path) /\ ~(e.at = "unlink" /\ e.path = path)
        BY <1>3 DEF Inv, CallsOK
    <2>2. \A q \in Paths : Owning(e, q) =>
            /\ files'[q] # NoFile /\ files'[q].token = e.token[q]
            /\ files'[q].process = ProcessOf[d]
            /\ \A p \in Processes : abandoned'[p][q] # e.token[q]
        <3> SUFFICES ASSUME NEW q \in Paths, Owning(e, q)
                     PROVE  /\ files'[q] # NoFile /\ files'[q].token = e.token[q]
                            /\ files'[q].process = ProcessOf[d]
                            /\ \A p \in Processes : abandoned'[p][q] # e.token[q]
            OBVIOUS
        <3>1. q # path
            BY <2>1
        <3> QED
            BY <1>1, <1>2, <2>1, <3>1 DEF CallOK
    <2>3. e.seen # NoFile => \A q \in Paths :
            files'[q] # NoFile /\ files'[q].token = e.seen.token => files'[q] = e.seen
        BY <1>1, <2>1 DEF CallOK
    <2>4. e.at \in {"confirmOwner", "unlink"} =>
            /\ SeesFile(e)' => GivenUp(e.path)'
            /\ e.at = "unlink" => SeesFile(e)'
        <3> SUFFICES ASSUME e.at \in {"confirmOwner", "unlink"}
                     PROVE  (SeesFile(e)' => GivenUp(e.path)') /\ (e.at = "unlink" => SeesFile(e)')
            OBVIOUS
        <3>1. e.path \in Paths
            BY <2>1 DEF CallOK, Call
        <3>2. CASE e.path = path
            BY <1>1, <2>1, <3>2 DEF SeesFile
        <3>3. CASE e.path # path
            <4>1. SeesFile(e)' <=> SeesFile(e)
                BY <1>1, <3>1, <3>3 DEF SeesFile
            <4>2. SeesFile(e) => GivenUp(e.path) /\ files[e.path] \in Metadata
                BY <2>1, <3>1 DEF SeesFile, CallOK, Inv, TypeOK
            <4>3. SeesFile(e) => GivenUp(e.path)'
                BY <1>1, <1>2, <3>1, <3>3, <4>2 DEF GivenUp, Metadata
            <4> QED
                BY <2>1, <4>1, <4>3 DEF CallOK
        <3> QED
            BY <3>2, <3>3
    <2> QED
        BY <2>1, <2>2, <2>3, <2>4 DEF CallOK, Owning
<1>6. TokensDiffer'
    BY <1>3 DEF TokensDiffer, Inv
<1>7. FilesOK'
    <2>1. files'["lock"] # NoFile /\ files'["recovery"] # NoFile =>
            files'["lock"].token # files'["recovery"].token
        BY <1>1 DEF Inv, FilesOK
    <2>2. ASSUME NEW q \in Paths, files'[q] # NoFile, NEW p \in Processes,
                 abandoned'[p][q] = files'[q].token
          PROVE  files'[q].process = p
        BY <1>1, <1>2, <2>2 DEF Inv, FilesOK
    <2> QED
        BY <2>1, <2>2 DEF FilesOK
<1>8. SentinelOK'
    BY <1>1, <1>2 DEF Inv, SentinelOK
<1> QED
    BY <1>4, <1>5, <1>6, <1>7, <1>8 DEF Inv

\* Only a lock that was given up is removed by an examination.
LEMMA UnlinkStep ==
    ASSUME Inv, NEW c \in Callers, Unlink(c) PROVE Inv'
<1>1. CallOK(c, call[c]) /\ call[c].at = "unlink" /\ TypeOK
    BY DEF Inv, CallsOK, Unlink, At
<1>2. call[c].path = "lock" /\ Owning(call[c], "recovery") /\ files["lock"] # NoFile /\ GivenUp("lock")
    BY <1>1, UnlinksLock
<1>3. CallOK(c, Examined(c)) /\ Examined(c).token = call[c].token
    BY <1>1, ExaminedOK DEF Examining
<1>4. Examined(c).at = "release" /\ ~Owning(Examined(c), "lock")
    BY <1>1, <1>2 DEF Examined, Owning, Examining, Releasing, CallOK, Call
<1>5. \A d \in Callers \ {c} : ~Owning(call[d], "lock") /\ ~(call[d].at = "unlink" /\ call[d].path = "lock")
    <2> SUFFICES ASSUME NEW d \in Callers, d # c
                 PROVE  ~Owning(call[d], "lock") /\ ~(call[d].at = "unlink" /\ call[d].path = "lock")
        OBVIOUS
    <2>1. ~Owning(call[d], "lock")
        BY <1>2, OwnedKept DEF Inv, CallsOK
    <2>2. call[d].at # "unlink"
        BY <1>2, UnlinksLock, OneOwner
    <2> QED
        BY <2>1, <2>2
<1>6. abandoned' \in {abandoned, [abandoned EXCEPT ![ProcessOf[c]]["lock"] = NoToken]}
    BY <1>2 DEF Unlink, ForgetAbandoned
<1>7. files' = [files EXCEPT !["lock"] = NoFile]
      /\ call' = [call EXCEPT ![c] = Examined(c)] /\ UNCHANGED <<value, alive>>
    BY <1>2 DEF Unlink
<1> QED
    BY <1>3, <1>4, <1>5, <1>6, <1>7, RemovedStep

\* What the call of c becomes when it is done with the file it owned.
LEMMA ReleasedOK ==
    ASSUME Inv, NEW c \in Callers, call[c].at \in Releasing
    PROVE  \E r : /\ Released(c) => call' = [call EXCEPT ![c] = r]
                  /\ CallOK(c, r) /\ r.at \in {"idle", "retry"}
                  /\ \A q \in Paths : ~Owning(r, q) /\ r.token[q] \in {call[c].token[q], NoToken}
<1>1. CallOK(c, call[c])
    BY DEF Inv, CallsOK
<1>2. CASE call[c].path = "lock"
    BY <1>2, IdleOK DEF Released, Owning, IdleCall, Examining, Releasing
<1>3. CASE call[c].path # "lock"
    <2> DEFINE r == [call[c] EXCEPT !.at = "retry", !.token["recovery"] = NoToken]
    <2>1. Released(c) => call' = [call EXCEPT ![c] = r]
        BY <1>3 DEF Released
    <2>2. /\ r \in Call /\ r.at = "retry" /\ r.seen = call[c].seen /\ r.transaction = call[c].transaction
          /\ \A q \in Paths : r.token[q] \in {call[c].token[q], NoToken}
        BY <1>1 DEF CallOK, Call, Points
    <2>3. \A q \in Paths : ~Owning(r, q)
        BY <2>2 DEF Owning, Examining, Releasing
    <2>4. call[c].at # "idle"
        BY DEF Releasing
    <2>5. CallOK(c, r)
        BY <1>1, <2>2, <2>3, <2>4 DEF CallOK
    <2> HIDE DEF r
    <2> QED
        BY <2>1, <2>2, <2>3, <2>5
<1> QED
    BY <1>2, <1>3

(* The release unlinks the file the caller owns. *)
LEMMA ReleaseUnlinkStep ==
    ASSUME Inv, NEW c \in Callers, ReleaseUnlink(c) PROVE Inv'
<1> DEFINE path == call[c].path
<1>1. CallOK(c, call[c]) /\ call[c].at = "releaseUnlink" /\ TypeOK /\ Released(c)
    BY DEF Inv, CallsOK, ReleaseUnlink, At
<1>2. path \in Paths /\ Owning(call[c], path)
    BY <1>1 DEF Owning, Releasing, CallOK, Call
<1>3. PICK r : /\ call' = [call EXCEPT ![c] = r]
               /\ CallOK(c, r) /\ r.at \in {"idle", "retry"}
               /\ \A q \in Paths : ~Owning(r, q) /\ r.token[q] \in {call[c].token[q], NoToken}
    BY <1>1, ReleasedOK DEF Releasing
<1>4. ~GivenUp(path)
    BY <1>1, <1>2, OwnedKept
<1>5. \A d \in Callers \ {c} : ~Owning(call[d], path) /\ ~(call[d].at = "unlink" /\ call[d].path = path)
    <2> SUFFICES ASSUME NEW d \in Callers, d # c
                 PROVE  ~Owning(call[d], path) /\ ~(call[d].at = "unlink" /\ call[d].path = path)
        OBVIOUS
    <2>1. ~Owning(call[d], path)
        BY <1>2, OneOwner
    <2>2. ~(call[d].at = "unlink" /\ call[d].path = path)
        BY <1>4, UnlinksLock
    <2> QED
        BY <2>1, <2>2
<1>6. abandoned' \in {abandoned, [abandoned EXCEPT ![ProcessOf[c]][path] = NoToken]}
    BY <1>1 DEF Released
<1>7. files' = [files EXCEPT ![path] = NoFile] /\ UNCHANGED <<value, alive>>
    BY DEF ReleaseUnlink
<1> HIDE DEF path
<1> QED
    BY <1>2, <1>3, <1>5, <1>6, <1>7, RemovedStep

\* An examination forgets a file that was given up and has been replaced since:
\* nobody else is examining the lock, and no sentinel was ever given up.
LEMMA ConfirmOwnerStep ==
    ASSUME Inv, NEW c \in Callers, ConfirmOwner(c) PROVE Inv'
<1> DEFINE path == call[c].path
           file == files[path]
           same == file # NoFile /\ file.token = call[c].seen.token
<1>1. CallOK(c, call[c]) /\ call[c].at = "confirmOwner" /\ TypeOK /\ path \in Paths
    BY DEF Inv, CallsOK, ConfirmOwner, At, CallOK, Call
<1>2. CASE same
    <2> DEFINE r == [call[c] EXCEPT !.at = "unlink"]
    <2>1. call' = [call EXCEPT ![c] = r] /\ UNCHANGED <<files, value, alive, abandoned>>
        BY <1>2 DEF ConfirmOwner
    <2>2. SeesFile(call[c]) /\ GivenUp(path)
        BY <1>1, <1>2 DEF SeesFile, CallOK
    <2>3. r \in Call /\ r.at = "unlink" /\ r.path = path /\ r.token = call[c].token
          /\ r.seen = call[c].seen /\ r.transaction = call[c].transaction
        BY <1>1 DEF CallOK, Call, Points
    <2>4. CallOK(c, r)
        BY <1>1, <2>2, <2>3 DEF CallOK, SeesFile, Owning, Examining, Releasing
    <2> QED
        BY <2>1, <2>3, <2>4, LocalStep
<1>3. CASE ~same /\ abandoned' = abandoned
    <2>1. call' = [call EXCEPT ![c] = Examined(c)] /\ UNCHANGED <<files, value, alive, abandoned>>
        BY <1>3 DEF ConfirmOwner
    <2> QED
        BY <1>1, <2>1, ExaminedOK, LocalStep DEF Examining
<1>4. CASE ~same /\ abandoned' # abandoned
    <2>1. call' = [call EXCEPT ![c] = Examined(c)] /\ UNCHANGED <<files, value, alive>>
        BY <1>4 DEF ConfirmOwner
    <2>2. abandoned' = [abandoned EXCEPT ![ProcessOf[c]][path] = NoToken]
        BY <1>4 DEF ConfirmOwner, ForgetAbandoned
    <2>3. path = "lock"
        <3> SUFFICES ASSUME path = "recovery" PROVE abandoned' = abandoned
            BY <1>1, <1>4
        <3> QED
            BY <1>1, <2>2 DEF Inv, SentinelOK, TypeOK
    <2>4. \A p \in Processes : /\ abandoned'[p]["recovery"] = abandoned[p]["recovery"]
                               /\ abandoned'[p]["lock"] \in {abandoned[p]["lock"], NoToken}
        BY <1>1, <2>2, <2>3 DEF TypeOK
    <2>5. abandoned' \in [Processes -> [Paths -> Tokens \cup {NoToken}]]
        BY <1>1, <2>2 DEF TypeOK
    <2>6. CallOK(c, Examined(c)) /\ Examined(c).token = call[c].token
        BY <1>1, ExaminedOK DEF Examining
    <2>7. call'[c] = Examined(c) /\ \A d \in Callers \ {c} : call'[d] = call[d]
        BY <1>1, <2>1 DEF TypeOK
    <2>8. Examined(c).at \notin {"confirmOwner", "unlink"}
        BY <1>1 DEF Examined, CallOK, Call
    <2>9. Owning(call[c], "recovery")
        BY <1>1, <2>3 DEF Owning, Examining
    <2>10. TypeOK'
        BY <1>1, <2>1, <2>5, <2>6 DEF TypeOK, CallOK
    <2>11. CallsOK'
        <3> SUFFICES ASSUME NEW d \in Callers, NEW e, e = call'[d] PROVE CallOK(d, e)'
            BY DEF CallsOK
        <3>1. CallOK(d, e)
            BY <2>6, <2>7 DEF Inv, CallsOK
        <3>2. \A q \in Paths : Owning(e, q) => \A p \in Processes : abandoned'[p][q] # e.token[q]
            <4> SUFFICES ASSUME NEW q \in Paths, Owning(e, q), NEW p \in Processes
                         PROVE  abandoned'[p][q] # e.token[q]
                OBVIOUS
            <4>1. files[q] # NoFile /\ files[q].token = e.token[q] /\ abandoned[p][q] # e.token[q]
                BY <3>1 DEF CallOK
            <4>2. e.token[q] \in Tokens
                BY <1>1, <4>1 DEF TypeOK, Metadata
            <4> QED
                BY <2>4, <4>1, <4>2
        <3>3. e.at \in {"confirmOwner", "unlink"} /\ SeesFile(e) => GivenUp(e.path)'
            <4> SUFFICES ASSUME e.at \in {"confirmOwner", "unlink"}, SeesFile(e) PROVE GivenUp(e.path)'
                OBVIOUS
            <4>1. d # c /\ e = call[d]
                BY <2>7, <2>8, <3>1
            <4>2. e.path = "recovery"
                <5>1. e.path # "lock"
                    BY <2>9, <4>1, OneOwner DEF Owning, Examining
                <5> QED
                    BY <3>1, <5>1 DEF CallOK, Call
            <4>3. GivenUp("recovery") /\ files["recovery"] \in Metadata
                BY <1>1, <3>1, <4>2 DEF CallOK, SeesFile, TypeOK
            <4> QED
                BY <2>1, <2>4, <4>2, <4>3 DEF GivenUp, Metadata
        <3> QED
            BY <2>1, <3>1, <3>2, <3>3 DEF CallOK, Owning, SeesFile
    <2>12. TokensDiffer'
        BY <2>6, <2>7 DEF TokensDiffer, Inv
    <2>13. FilesOK'
        <3>1. ASSUME NEW q \in Paths, files[q] # NoFile, NEW p \in Processes,
                     abandoned'[p][q] = files[q].token
              PROVE  files[q].process = p
            <4>1. files[q].token \in Tokens
                BY <1>1, <3>1 DEF TypeOK, Metadata
            <4> QED
                BY <2>4, <3>1, <4>1 DEF Inv, FilesOK
        <3> QED
            BY <2>1, <3>1 DEF Inv, FilesOK
    <2>14. SentinelOK'
        BY <2>1, <2>4 DEF Inv, SentinelOK
    <2> QED
        BY <2>10, <2>11, <2>12, <2>13, <2>14 DEF Inv
<1> QED
    BY <1>2, <1>3, <1>4

\* The lock file stays, and the process of its owner knows that it was given up.
LEMMA ReleaseFailsStep ==
    ASSUME Inv, ~SentinelLeaks, NEW c \in Callers, ReleaseFails(c) PROVE Inv'
<1>1. CallOK(c, call[c]) /\ call[c].at \in Releasing /\ TypeOK /\ call[c].path = "lock"
    BY DEF Inv, CallsOK, ReleaseFails, At, CallOK, Call, Releasing
<1> DEFINE t == call[c].token["lock"]
<1>2. Owning(call[c], "lock")
    BY <1>1 DEF Owning
<1>3. files["lock"] # NoFile /\ files["lock"].token = t /\ files["lock"].process = ProcessOf[c] /\ t \in Tokens
    BY <1>1, <1>2, OwnedKept
<1>4. abandoned' = [abandoned EXCEPT ![ProcessOf[c]]["lock"] = t]
      /\ call' = [call EXCEPT ![c] = IdleCall] /\ UNCHANGED <<files, value, alive>>
    BY <1>1 DEF ReleaseFails
<1>5. /\ abandoned' \in [Processes -> [Paths -> Tokens \cup {NoToken}]]
      /\ abandoned'[ProcessOf[c]]["lock"] = t
      /\ \A p \in Processes : abandoned'[p]["recovery"] = abandoned[p]["recovery"]
      /\ \A p \in Processes \ {ProcessOf[c]} : abandoned'[p]["lock"] = abandoned[p]["lock"]
    BY <1>1, <1>3, <1>4 DEF TypeOK
<1>6. call'[c] = IdleCall /\ \A d \in Callers \ {c} : call'[d] = call[d]
    BY <1>1, <1>4 DEF TypeOK
<1>7. CallOK(c, IdleCall) /\ \A path \in Paths : IdleCall.token[path] = NoToken
    BY IdleOK
<1>8. TypeOK'
    BY <1>1, <1>4, <1>5, <1>7 DEF TypeOK, CallOK
<1>9. CallsOK'
    <2> SUFFICES ASSUME NEW d \in Callers, NEW e, e = call'[d] PROVE CallOK(d, e)'
        BY DEF CallsOK
    <2>1. CallOK(d, e)
        BY <1>6, <1>7 DEF Inv, CallsOK
    <2>2. \A q \in Paths : Owning(e, q) => q = "recovery"
        <3>1. CASE d = c
            BY <1>6, <2>1, <3>1 DEF IdleCall, Owning, Examining, Releasing
        <3>2. CASE d # c
            BY <1>2, <1>6, <2>1, <3>2, OneOwner
        <3> QED
            BY <3>1, <3>2
    <2>3. \A q \in Paths : Owning(e, q) => \A p \in Processes : abandoned'[p][q] # e.token[q]
        BY <1>5, <2>1, <2>2 DEF CallOK
    <2>4. e.at \in {"confirmOwner", "unlink"} /\ SeesFile(e) => GivenUp(e.path)'
        <3> SUFFICES ASSUME e.at \in {"confirmOwner", "unlink"}, SeesFile(e) PROVE GivenUp(e.path)'
            OBVIOUS
        <3>1. GivenUp(e.path) /\ e.path \in Paths /\ files[e.path] \in Metadata
            BY <1>1, <2>1 DEF CallOK, Call, SeesFile, TypeOK
        <3> QED
            BY <1>3, <1>4, <1>5, <3>1 DEF GivenUp, Metadata
    <2> QED
        BY <1>4, <2>1, <2>3, <2>4 DEF CallOK, Owning, SeesFile
<1>10. TokensDiffer'
    BY <1>6, <1>7 DEF TokensDiffer, Inv
<1>11. FilesOK'
    BY <1>3, <1>4, <1>5 DEF Inv, FilesOK
<1>12. SentinelOK'
    BY <1>4, <1>5 DEF Inv, SentinelOK
<1> QED
    BY <1>8, <1>9, <1>10, <1>11, <1>12 DEF Inv

\* A process dies while it does not own the sentinel.
LEMMA CrashStep ==
    ASSUME Inv, ~SentinelLeaks, NEW p \in Processes, Crash(p) PROVE Inv'
<1>1. alive' = alive \ {p} /\ UNCHANGED <<files, value, abandoned>> /\ ~OwnsSentinel(p)
      /\ call' = [c \in Callers |-> IF ProcessOf[c] = p THEN IdleCall ELSE call[c]]
    BY DEF Crash
<1>2. \A c \in Callers : call'[c] = IF ProcessOf[c] = p THEN IdleCall ELSE call[c]
    BY <1>1
<1>3. \A c \in Callers : CallOK(c, call'[c])
    BY <1>2, IdleOK DEF Inv, CallsOK
<1>4. TypeOK'
    BY <1>1, <1>3 DEF Inv, TypeOK, CallOK
<1>5. CallsOK'
    <2> SUFFICES ASSUME NEW c \in Callers PROVE CallOK(c, call[c])'
        BY DEF CallsOK
    <2>1. call'[c].at # "idle" => ProcessOf[c] \in alive'
        BY <1>1, <1>2, <1>3 DEF CallOK, IdleCall
    <2> QED
        BY <1>1, <1>3, <2>1 DEF CallOK, SeesFile, GivenUp, Owning
<1>6. TokensDiffer'
    <2>1. \A c \in Callers : \A path \in Paths : call'[c].token[path] \in {call[c].token[path], NoToken}
        BY <1>2, IdleOK
    <2> QED
        BY <2>1 DEF TokensDiffer, Inv
<1>7. FilesOK'
    BY <1>1 DEF Inv, FilesOK
<1>8. SentinelOK'
    BY <1>1 DEF Inv, SentinelOK, OwnsSentinel
<1> QED
    BY <1>4, <1>5, <1>6, <1>7, <1>8 DEF Inv

-----------------------------------------------------------------------------
(* The theorems *)

LEMMA InvInit == Init => Inv
<1> SUFFICES ASSUME Init PROVE Inv
    OBVIOUS
<1>1. TypeOK
    BY DEF Init, TypeOK, IdleCall, Call, Points
<1>2. CallsOK
    BY IdleOK DEF Init, CallsOK
<1>3. TokensDiffer
    BY IdleOK DEF Init, TokensDiffer
<1>4. FilesOK /\ SentinelOK
    BY DEF Init, FilesOK, SentinelOK
<1> QED
    BY <1>1, <1>2, <1>3, <1>4 DEF Inv

(* Every step preserves the invariant when no sentinel outlives its recovery. *)
LEMMA InvNext ==
    ASSUME Inv, ~SentinelLeaks, [Next]_vars PROVE Inv'
<1>1. ASSUME NEW c \in Callers, Step(c) PROVE Inv'
    BY <1>1, CreateLockStep, CreateSentinelStep, ReadOwnerStep, CheckOwnerStep, ConfirmOwnerStep,
       UnlinkStep, RecoveryFailsStep, RetryStep, TimeOutStep, ReadValueStep, CommitStep, AbortStep,
       ReleaseStep, ReleaseUnlinkStep, ReleaseFailsStep DEF Step, Recovering, Finishing
<1>2. ASSUME NEW c \in Callers, NEW x \in Transactions, Begin(c, x) PROVE Inv'
    BY <1>2, BeginStep
<1>3. ASSUME NEW p \in Processes, Crash(p) PROVE Inv'
    BY <1>3, CrashStep
<1>4. CASE UNCHANGED vars
    <2>1. TypeOK' /\ TokensDiffer' /\ FilesOK' /\ SentinelOK'
        BY <1>4 DEF vars, Inv, TypeOK, TokensDiffer, FilesOK, SentinelOK
    <2>2. CallsOK'
        BY <1>4 DEF vars, Inv, CallsOK, CallOK, SeesFile, GivenUp
    <2> QED
        BY <2>1, <2>2 DEF Inv
<1> QED
    BY <1>1, <1>2, <1>3, <1>4 DEF Next

(* The invariant holds in every behaviour without leaked sentinels. *)
LEMMA InvAlways == ASSUME ~SentinelLeaks PROVE Spec => []Inv
<1>1. Inv /\ [Next]_vars => Inv'
    BY InvNext
<1> QED
    BY <1>1, InvInit, PTL DEF Spec

\* Files, maps and calls keep their types (json-file-store.ts).
THEOREM StoreTypeCorrectness == ASSUME ~SentinelLeaks PROVE Spec => []TypeOK
<1>1. Inv => TypeOK
    BY DEF Inv
<1> QED
    BY <1>1, InvAlways, PTL

\* At most one call is between acquireLock and releaseLock, also while the locks of dead
\* processes are removed (updateJsonFileStore, writeJsonFileStore).
THEOREM WritersExclude == ASSUME ~SentinelLeaks PROVE Spec => []MutualExclusion
<1>1. Inv => MutualExclusion
    BY OneOwner DEF MutualExclusion, InTransaction, Owning
<1> QED
    BY <1>1, InvAlways, PTL

\* Recovery leaves the files of live processes intact: a lock or sentinel that was not given up
\* is removed only when its owner releases it (removeDeadOwnerFile, releaseLock).
THEOREM LiveOwnersRespected == ASSUME ~SentinelLeaks PROVE Spec => LiveOwnerKept
<1> DEFINE Kept ==
      \A path \in Paths :
         /\ files[path] # NoFile
         /\ files[path].process \in alive
         /\ abandoned[files[path].process][path] # files[path].token
         /\ files'[path] # files[path]
         => \E c \in Callers : call[c].at = "releaseUnlink" /\ call[c].path = path
                               /\ call[c].token[path] = files[path].token /\ call'[c] # call[c]
<1>1. ASSUME Inv, [Next]_vars PROVE [Kept]_vars
    <2> SUFFICES ASSUME NEW path \in Paths, files[path] # NoFile, ~GivenUp(path), files'[path] # files[path]
                 PROVE  \E c \in Callers : call[c].at = "releaseUnlink" /\ call[c].path = path
                           /\ call[c].token[path] = files[path].token /\ call'[c] # call[c]
        BY DEF GivenUp
    <2>1. TypeOK
        BY <1>1 DEF Inv
    <2>2. ASSUME NEW c \in Callers, Unlink(c) PROVE FALSE
        <3>1. call[c].path = "lock" /\ GivenUp("lock")
            BY <1>1, <2>2, UnlinksLock DEF Unlink, At
        <3> QED
            BY <2>1, <2>2, <3>1 DEF Unlink, TypeOK
    <2>3. ASSUME NEW c \in Callers, CreateLock(c) \/ CreateSentinel(c) PROVE FALSE
        BY <2>1, <2>3 DEF CreateLock, CreateSentinel, CreateFile, TypeOK
    <2>4. ASSUME NEW c \in Callers, ReleaseUnlink(c)
          PROVE  /\ call[c].at = "releaseUnlink" /\ call[c].path = path
                 /\ call[c].token[path] = files[path].token /\ call'[c] # call[c]
        <3>1. CallOK(c, call[c]) /\ call[c].at = "releaseUnlink"
            BY <1>1, <2>4 DEF Inv, CallsOK, ReleaseUnlink, At
        <3>2. call[c].path = path
            BY <2>1, <2>4, <3>1 DEF ReleaseUnlink, TypeOK, CallOK, Call
        <3>3. call[c].token[path] = files[path].token
            BY <3>1, <3>2 DEF CallOK, Owning, Releasing
        <3>4. \E r : call' = [call EXCEPT ![c] = r] /\ r.at \in {"idle", "retry"}
            BY <1>1, <2>4, <3>1, ReleasedOK DEF ReleaseUnlink, Releasing
        <3>5. call'[c] # call[c]
            BY <2>1, <3>1, <3>4 DEF TypeOK
        <3> QED
            BY <3>1, <3>2, <3>3, <3>5
    <2>5. CASE UNCHANGED files
        BY <2>5
    <2> QED
        BY <1>1, <2>2, <2>3, <2>4, <2>5
           DEF Next, vars, Step, Recovering, Finishing, Begin, ReadOwner, CheckOwner, ConfirmOwner,
               RecoveryFails, Retry, TimeOut, ReadValue, Commit, Abort, Release, ReleaseFails, Crash
<1>2. []Inv /\ [][Next]_vars => [][Kept]_vars
    BY <1>1, PTL
<1> QED
    BY <1>2, InvAlways, PTL DEF Spec, LiveOwnerKept

\* The file store implements the atomic store: each commit is an update of the latest value or
\* a replacement, every other step leaves the value alone (updateJsonFileStore,
\* writeJsonFileStore).
THEOREM StoreIsAtomic == ASSUME ~SentinelLeaks PROVE Spec => Serializable
<1>1. Init => Store!Init
    BY DEF Init, Store!Init
<1>2. ASSUME Inv, [Next]_vars PROVE [Store!Next]_value
    <2>1. ASSUME NEW c \in Callers, Commit(c) PROVE Store!Next
        <3>1. CallOK(c, call[c]) /\ call[c].at = "commit"
            BY <1>2, <2>1 DEF Inv, CallsOK, Commit, At
        <3>2. PICK x \in Transactions : call[c].transaction = {x}
            BY <3>1 DEF CallOK
        <3>3. CASE x \in Replacements
            <4>1. value' = {x}
                BY <2>1, <3>1, <3>2, <3>3 DEF CallOK, Commit
            <4> QED
                BY <3>3, <4>1 DEF Store!Next, Store!Replace
        <3>4. CASE x \notin Replacements
            <4>1. value' = value \cup {x}
                BY <2>1, <3>1, <3>2, <3>4 DEF CallOK, Commit
            <4> QED
                BY <3>4, <4>1 DEF Store!Next, Store!Update
        <3> QED
            BY <3>3, <3>4
    <2>2. CASE UNCHANGED value
        BY <2>2
    <2> QED
        BY <1>2, <2>1, <2>2
           DEF Next, vars, Step, Recovering, Finishing, Begin, CreateLock, CreateSentinel, ReadOwner,
               CheckOwner, ConfirmOwner, Unlink, RecoveryFails, Retry, TimeOut, ReadValue, Abort,
               Release, ReleaseUnlink, ReleaseFails, Crash
<1>3. []Inv /\ [][Next]_vars => [][Store!Next]_value
    BY <1>2, PTL
<1> QED
    BY <1>1, <1>3, InvAlways, PTL DEF Spec, Serializable, Store!Spec
=============================================================================
