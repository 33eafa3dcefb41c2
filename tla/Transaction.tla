----------------------------- MODULE Transaction -----------------------------
(***************************************************************************)
(* A transaction over several gorm databases (util/xsql/transaction and    *)
(* Engine.NewTransaction in util/xsql/databese/client.go). Commit and      *)
(* Rollback range over the map of open transactions, in Go's unspecified   *)
(* map order, and return at the first error. database/sql marks a Tx done  *)
(* after Commit or Rollback whatever the outcome, and a second Commit or   *)
(* Rollback of a done Tx fails with ErrTxDone.                             *)
(*                                                                         *)
(* The caller follows the usual pattern: begin, write, Commit, and on any  *)
(* error Rollback. Every Commit or Rollback of one database may fail       *)
(* (network error, lost connection).                                       *)
(***************************************************************************)
EXTENDS Naturals, FiniteSets

CONSTANTS
    DBs,            \* database names passed to NewTransaction
    MaxFailures     \* bound: failing Commit or Rollback calls of a database

VARIABLES
    tx,         \* [DBs -> {"none", "open", "committed", "rolledback"}]: the sql.Tx of each database
    loop,       \* "idle", "commit" or "rollback": the Transaction method running
    visited,    \* databases the running range loop has handled
    result,     \* [call, err]: the method that last returned and whether it returned an error
    caller,     \* "begin", "work", "rollback", "done": the caller's step
    failures    \* failing calls so far

vars == <<tx, loop, visited, result, caller, failures>>

NoResult == [call |-> "none", err |-> FALSE]

Init ==
    /\ tx = [d \in DBs |-> "none"]
    /\ loop = "idle" /\ visited = {} /\ result = NoResult
    /\ caller = "begin" /\ failures = 0

(* Engine.NewTransaction (client.go:55-63): Begin on every database.       *)
NewTransaction ==
    /\ caller = "begin"
    /\ tx' = [d \in DBs |-> "open"]
    /\ caller' = "work"
    /\ UNCHANGED <<loop, visited, result, failures>>

(* The caller's Commit, once its work succeeded.                           *)
CallCommit ==
    /\ caller = "work" /\ loop = "idle" /\ result = NoResult
    /\ loop' = "commit" /\ visited' = {}
    /\ UNCHANGED <<tx, result, caller, failures>>

(* The caller's Rollback, after an error of its own or of Commit.         *)
CallRollback ==
    /\ caller = "work" /\ loop = "idle" /\ (result.err \/ result = NoResult)
    /\ caller' = "rollback" /\ loop' = "rollback"
    /\ visited' = {} /\ result' = NoResult
    /\ UNCHANGED <<tx, failures>>

(* The caller is finished once Commit returned nil or Rollback returned.   *)
CallerDone ==
    /\ loop = "idle"
    /\ \/ caller = "work" /\ result = [call |-> "commit", err |-> FALSE]
       \/ caller = "rollback" /\ result.call = "rollback"
    /\ caller' = "done"
    /\ UNCHANGED <<tx, loop, visited, result, failures>>

(* Leaving the range loop (transaction.go:16-22 and 31-37): return the     *)
(* first error, or nil after the last database.                            *)
ReturnNilOnError(d, failed) ==
    IF failed \/ visited \cup {d} = DBs
    THEN loop' = "idle" /\ visited' = {} /\ result' = [call |-> loop, err |-> FALSE]
    ELSE visited' = visited \cup {d} /\ UNCHANGED <<loop, result>>
ReturnOnFirstError(d, failed) ==
    IF failed \/ visited \cup {d} = DBs
    THEN loop' = "idle" /\ visited' = {} /\ result' = [call |-> loop, err |-> failed]
    ELSE visited' = visited \cup {d} /\ UNCHANGED <<loop, result>>

(* One iteration: db.Commit() or db.Rollback() of the next database in map *)
(* order. On a live Tx the call succeeds, or fails with the Tx done either *)
(* way (a failed Commit may have reached the server); on a done Tx it      *)
(* fails with ErrTxDone.                                                   *)
LoopStep(d) ==
    /\ loop # "idle" /\ d \in DBs \ visited
    /\ LET target == IF loop = "commit" THEN "committed" ELSE "rolledback"
       IN \/ /\ tx[d] = "open"
             /\ tx' = [tx EXCEPT ![d] = target]
             /\ ReturnOnFirstError(d, FALSE)
             /\ UNCHANGED failures
          \/ /\ tx[d] = "open" /\ failures < MaxFailures
             /\ \E outcome \in {target, "rolledback"} : tx' = [tx EXCEPT ![d] = outcome]
             /\ failures' = failures + 1
             /\ ReturnOnFirstError(d, TRUE)
          \/ /\ tx[d] \in {"committed", "rolledback"}
             /\ ReturnOnFirstError(d, TRUE)
             /\ UNCHANGED <<tx, failures>>
    /\ UNCHANGED caller

Next ==
    \/ NewTransaction \/ CallCommit \/ CallRollback \/ CallerDone
    \/ \E d \in DBs : LoopStep(d)

Spec == Init /\ [][Next]_vars

-----------------------------------------------------------------------------
(* Commit returns nil only when every database committed: no error of one *)
(* database is lost in the loop.                                           *)
CommitNilMeansAllCommitted ==
    result = [call |-> "commit", err |-> FALSE] => \A d \in DBs : tx[d] = "committed"

(* Rollback returns nil only when no transaction is left open.            *)
RollbackNilMeansNoneOpen ==
    result = [call |-> "rollback", err |-> FALSE] => \A d \in DBs : tx[d] # "open"

(* Rollback, documented as "roll back the transaction", leaves no        *)
(* transaction of the set open, so no                                      *)
(* pooled connection stays checked out holding row locks once the caller  *)
(* has finished with the transaction.                                     *)
NoTransactionLeftOpen ==
    caller = "done" => \A d \in DBs : tx[d] # "open"
=============================================================================
