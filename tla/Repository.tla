----------------------------- MODULE Repository -----------------------------
(***************************************************************************)
(* The gorm repository of internal/repository/db_repository.go. The       *)
(* container builds one DBRepository per model (NewDBRepository, held in   *)
(* internal/container/repository) and every request handler uses it. A    *)
(* handler inside a transaction calls NewDB(txm) to get a repository bound *)
(* to the transactions txm, may ask for row locks with LockForUpdate or    *)
(* SharedLock, then queries through QueryBuilder.                          *)
(*                                                                         *)
(* A repository is [isNew, locked, tx]: its two flags and whether its tx   *)
(* map holds a transaction for the model's connection. "base" is the       *)
(* shared repository, r the one request r obtained from NewDB. A query is  *)
(* the repository it went through, whether it ran on a transaction, the    *)
(* locking clause QueryBuilder added (0 none, 1 UPDATE, 2 SHARE) and the   *)
(* lock the request had asked of that repository.                          *)
(***************************************************************************)
EXTENDS Naturals

CONSTANTS
    Reqs,       \* request handlers running at once
    None        \* no repository, no query yet

Locks == {1, 2}     \* r.locked of LockForUpdate and SharedLock
RepoIds == {"base"} \cup Reqs

VARIABLES
    repo,       \* [RepoIds -> [isNew, locked, tx] or None]: the repositories
    asked,      \* [Reqs -> [RepoIds -> 0..2]]: locks each request asked for
    last        \* the last query issued, or None

repoVars == <<repo, asked, last>>

-----------------------------------------------------------------------------
(* NewDBRepository (db_repository.go:24-26).                               *)
NewDBRepository == [isNew |-> FALSE, locked |-> 0, tx |-> FALSE]

(* newRepository (db_repository.go:28-30): a repository with the model and *)
(* the tx map, its flags at their zero values.                             *)
NewRepository(hasTx) == [isNew |-> FALSE, locked |-> 0, tx |-> hasTx]

(* The locking clause of QueryBuilder (db_repository.go:181-190).          *)
LockClause(rp) ==
    IF rp.isNew /\ rp.locked = 1 THEN 1
    ELSE IF rp.isNew /\ rp.locked = 2 THEN 2
    ELSE 0

(* db() (db_repository.go:49-54): the transaction of the model's           *)
(* connection when the tx map has one, else the connection pool.           *)
OnTransaction(rp) == rp.tx

(* The repositories request r can reach: the shared one and its own.       *)
Reachable(r) == {id \in {"base", r} : repo[id] # None}

Init ==
    /\ repo = [id \in RepoIds |-> IF id = "base" THEN NewDBRepository ELSE None]
    /\ asked = [r \in Reqs |-> [id \in RepoIds |-> 0]]
    /\ last = None

(* NewDB (db_repository.go:32-35) called by request r on repository id,    *)
(* with a tx map that holds the model's connection (hasTx) or not: the     *)
(* receiver is marked isNew and the new repository is request r's.         *)
NewDB(r, id, hasTx) ==
    /\ id \in Reachable(r)
    /\ repo' = [repo EXCEPT ![id].isNew = TRUE, ![r] = NewRepository(hasTx)]
    /\ asked' = [asked EXCEPT ![r][r] = 0]
    /\ UNCHANGED last

(* LockForUpdate and SharedLock (db_repository.go:38-47).                  *)
Lock(r, id, l) ==
    /\ id \in Reachable(r)
    /\ repo' = [repo EXCEPT ![id].locked = l]
    /\ asked' = [asked EXCEPT ![r][id] = l]
    /\ UNCHANGED last

(* A query through QueryBuilder (QueryAll, QueryOne, Count;                *)
(* db_repository.go:57-94, 133-193).                                       *)
Query(r, id) ==
    /\ id \in Reachable(r)
    /\ last' = [req |-> r, repo |-> id, read |-> TRUE, onTx |-> OnTransaction(repo[id]),
                lock |-> LockClause(repo[id]), asked |-> asked[r][id]]
    /\ UNCHANGED <<repo, asked>>

(* Exists, Create, CreateOrUpdate, Update, Delete, ExecSql and ScanStruct  *)
(* (db_repository.go:95-130, 192-204) go straight to db(): the statement  *)
(* runs on the transaction or the pool as db() picks, without the locking *)
(* clause QueryBuilder adds.                                               *)
Write(r, id) ==
    /\ id \in Reachable(r)
    /\ last' = [req |-> r, repo |-> id, read |-> FALSE, onTx |-> OnTransaction(repo[id]),
                lock |-> 0, asked |-> asked[r][id]]
    /\ UNCHANGED <<repo, asked>>

(* The request returns: its transaction repository is dropped and its next *)
(* run asks for locks afresh. The shared repository keeps its flags.       *)
Finish(r) ==
    /\ repo' = [repo EXCEPT ![r] = None]
    /\ asked' = [asked EXCEPT ![r] = [id \in RepoIds |-> 0]]
    /\ UNCHANGED last

RepoNext ==
    \E r \in Reqs :
        \/ \E id \in RepoIds, hasTx \in BOOLEAN : NewDB(r, id, hasTx)
        \/ \E id \in RepoIds, l \in Locks : Lock(r, id, l)
        \/ \E id \in RepoIds : Query(r, id)
        \/ \E id \in RepoIds : Write(r, id)
        \/ Finish(r)

RepoSpec == Init /\ [][RepoNext]_repoVars

-----------------------------------------------------------------------------
(* The row lock a handler asks of its transaction repository               *)
(* (repo.NewDB(txm).LockForUpdate(), as the comment of LockForUpdate       *)
(* describes) is on the queries it then makes through it.                  *)
LockedReadInTransaction ==
    last # None /\ last.read /\ last.repo # "base" /\ last.onTx => last.lock = last.asked
=============================================================================
