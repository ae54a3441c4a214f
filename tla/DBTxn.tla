--------------------------------- MODULE DBTxn ---------------------------------
(***************************************************************************)
(* A process of the daemon and its database session: DBbegin, DBexecute,   *)
(* DBcommit and DBrollback with txn_level and txn_error, statements that   *)
(* fail, connections that are lost and the loops that retry an operation   *)
(* after reconnecting (MySQL and PostgreSQL builds).                       *)
(*                                                                         *)
(* The application runs the transactions 1, 2, ... one after the other,    *)
(* each with the statements 1 .. Stmts.                                    *)
(***************************************************************************)
EXTENDS Integers

CONSTANTS
  Txns,        \* bound of the model: number of transactions
  Stmts,       \* number of statements of a transaction
  MaxLosses,   \* bound of the model: how often the connection is lost
  CommitMayFail  \* TRUE: a live server may refuse a commit

ASSUME TxnAssumption ==
  /\ Txns \in Nat /\ Stmts \in Nat \ {0} /\ MaxLosses \in Nat
  /\ CommitMayFail \in BOOLEAN

VARIABLES
  txn_level, txn_error,  \* the statics of db.c
  pc,        \* the operation the application is in
  cur,       \* the current transaction
  stmt,      \* the statement the application is at
  conn,      \* "up", or "down": the client has seen ZBX_DB_DOWN
  intxn,     \* server: the session is in a transaction
  work,      \* server: statements executed and not yet committed
  db,        \* server: how often each statement of each transaction took effect
  losses,    \* number of lost connections so far
  failed,    \* transactions the server has refused a statement of
  cut,       \* transactions during which the connection was lost
  undone     \* transactions the application itself rolled back

client == <<txn_level, txn_error, pc, cur, stmt>>
server == <<intxn, work, db>>
vars   == <<client, conn, server, losses, failed, cut, undone>>

AllTxns  == 1 .. Txns
AllStmts == 1 .. Stmts

Init ==
  /\ txn_level = 0 /\ txn_error = 0
  /\ pc = "idle" /\ cur = 1 /\ stmt = 1
  /\ conn = "up"
  /\ intxn = FALSE /\ work = {}
  /\ db = [t \in AllTxns |-> [k \in AllStmts |-> 0]]
  /\ losses = 0
  /\ failed = {} /\ cut = {} /\ undone = {}
--------------------------------------------------------------------------------
(***************************************************************************)
(* The database server (external).                                         *)
(***************************************************************************)

\* A statement of the current transaction: kept in the open transaction, or
\* effective at once when there is none.
ServerExec ==
  IF intxn THEN work' = work \cup {stmt} /\ UNCHANGED <<intxn, db>>
           ELSE db' = [db EXCEPT ![cur][stmt] = @ + 1] /\ UNCHANGED <<intxn, work>>

ServerBegin == intxn' = TRUE /\ work' = {} /\ UNCHANGED db

\* Outside a transaction commit and rollback do nothing.
ServerCommit ==
  /\ db' = [db EXCEPT ![cur] = [k \in AllStmts |-> @[k] + IF k \in work THEN 1 ELSE 0]]
  /\ intxn' = FALSE /\ work' = {}

ServerRollback == intxn' = FALSE /\ work' = {} /\ UNCHANGED db

ServerDo(sql) ==
  \/ sql = "begin" /\ ServerBegin
  \/ sql = "stmt" /\ ServerExec
  \/ sql = "commit" /\ ServerCommit
  \/ sql = "rollback" /\ ServerRollback

\* A refused statement has no effect; a deadlock also ends the transaction.
ServerRefuse == UNCHANGED server \/ ServerRollback

\* The session is gone: before the statement got through, or after it was
\* executed and before the answer got back.
ServerLost(sql) ==
  \/ ServerRollback
  \/ /\ sql \in {"commit", "rollback"} \/ (sql = "stmt" /\ ~intxn)
     /\ ServerDo(sql)
--------------------------------------------------------------------------------
(***************************************************************************)
(* libs/zbxdb/db.c                                                         *)
(***************************************************************************)

\* zbx_db_vexecute called with the value err of txn_error: what happens to the
\* connection and on the server, and the value rc returned.
Query(sql, err, rc) ==
  \/ \* ignored: within a failed transaction
     /\ err = 1 /\ rc = "FAIL"
     /\ UNCHANGED <<conn, server, losses, failed, cut>>
  \/ /\ err = 0 /\ rc = "OK"
     /\ ServerDo(sql)
     /\ UNCHANGED <<conn, losses, failed, cut>>
  \/ /\ err = 0 /\ rc = "FAIL"
     /\ \/ sql \in {"begin", "stmt"}
        \/ sql = "commit" /\ CommitMayFail
     /\ ServerRefuse
     /\ failed' = failed \cup {cur}
     /\ UNCHANGED <<conn, losses, cut>>
  \/ /\ err = 0 /\ rc = "DOWN"
     /\ losses < MaxLosses /\ losses' = losses + 1
     /\ ServerLost(sql)
     /\ conn' = "down"
     /\ cut' = cut \cup {cur}
     /\ UNCHANGED failed

\* Mutant of ErrorAfter: a failed statement leaves no trace.
ErrorAfterForgotten(level, err, rc) == err

\* The end of zbx_db_vexecute: a failure within a transaction is remembered.
ErrorAfter(level, err, rc) == IF rc = "FAIL" /\ 0 < level THEN 1 ELSE err

\* Mutant of LevelOfBegin: the level is not taken back when the database is down.
LevelOfBeginKept(rc) == txn_level + 1

\* zbx_db_begin: the level is raised first and taken back if the database is down.
LevelOfBegin(rc) == IF rc = "DOWN" THEN txn_level ELSE txn_level + 1

\* zbx_db_commit, zbx_db_rollback: lowered unless the database is down.
LevelOfEnd(rc) == IF rc = "DOWN" THEN txn_level ELSE txn_level - 1

zbx_db_begin ==
  /\ pc = "begin" /\ conn = "up"
  /\ \E rc \in {"OK", "FAIL", "DOWN"} :
       /\ Query("begin", txn_error, rc)
       /\ txn_error' = ErrorAfter(txn_level + 1, txn_error, rc)
       /\ txn_level' = LevelOfBegin(rc)
       /\ pc' = IF rc = "DOWN" THEN "begin" ELSE "exec"
  /\ UNCHANGED <<cur, stmt, undone>>

\* Mutants of Repeat: given up when the connection is lost; repeated on any error.
RepeatNever(rc) == FALSE
RepeatOnError(rc) == rc # "OK"

\* `while (ZBX_DB_DOWN == rc)'
Repeat(rc) == rc = "DOWN"

\* __zbx_DBexecute: only this statement is repeated.
DBexecute ==
  /\ pc = "exec" /\ conn = "up" /\ stmt <= Stmts
  /\ \E rc \in {"OK", "FAIL", "DOWN"} :
       /\ Query("stmt", txn_error, rc)
       /\ txn_error' = ErrorAfter(txn_level, txn_error, rc)
       /\ stmt' = IF Repeat(rc) THEN stmt ELSE stmt + 1
  /\ UNCHANGED <<txn_level, pc, cur, undone>>

\* The end of DBtxn_operation for commit and rollback: the same operation again
\* if the database is down, otherwise the application goes on.
Ended(rc) ==
  /\ txn_level' = LevelOfEnd(rc)
  /\ IF rc = "DOWN" THEN UNCHANGED <<pc, cur, stmt>>
     ELSE pc' = "idle" /\ cur' = cur + 1 /\ stmt' = 1

\* zbx_db_rollback: txn_error is cleared for the statement, and restored if the
\* operation is going to be repeated.
Rollback ==
  \E rc \in {"OK", "FAIL", "DOWN"} :
    /\ Query("rollback", 0, rc)
    /\ txn_error' = IF rc = "DOWN" THEN txn_error ELSE ErrorAfter(txn_level, 0, rc)
    /\ Ended(rc)

zbx_db_rollback ==
  /\ pc = "rollback" /\ conn = "up"
  /\ Rollback
  /\ UNCHANGED undone

\* zbx_db_commit: a failed transaction is rolled back instead.
zbx_db_commit ==
  /\ pc = "commit" /\ conn = "up"
  /\ \/ txn_error = 1 /\ Rollback
     \/ /\ txn_error = 0
        /\ \E rc \in {"OK", "FAIL", "DOWN"} :
             /\ Query("commit", 0, rc)
             /\ txn_error' = ErrorAfter(txn_level, 0, rc)
             /\ Ended(rc)
  /\ UNCHANGED undone
--------------------------------------------------------------------------------
(***************************************************************************)
(* libs/zbxdbhigh/db.c and the application                                 *)
(***************************************************************************)

\* DBbegin
DBbegin ==
  /\ pc = "idle" /\ cur <= Txns
  /\ pc' = "begin"
  /\ UNCHANGED <<txn_level, txn_error, cur, stmt, conn, server, losses, failed, cut, undone>>

\* DBend: the application asks for the end it wants.
DBend ==
  /\ pc = "exec" /\ stmt > Stmts
  /\ \/ pc' = "commit" /\ UNCHANGED undone
     \/ pc' = "rollback" /\ undone' = undone \cup {cur}
  /\ UNCHANGED <<txn_level, txn_error, cur, stmt, conn, server, losses, failed, cut>>

\* DBclose, DBconnect(ZBX_DB_CONNECT_NORMAL): a new session. It may take several
\* attempts, each after ZBX_DB_WAIT_DOWN seconds.
DBconnect ==
  /\ conn = "down" /\ conn' = "up"
  /\ UNCHANGED <<client, server, losses, failed, cut, undone>>

\* The application has nothing left to do.
Finished == pc = "idle" /\ cur > Txns /\ UNCHANGED vars

Next ==
  \/ DBbegin \/ zbx_db_begin \/ DBexecute \/ DBend \/ zbx_db_commit \/ zbx_db_rollback
  \/ DBconnect \/ Finished

Spec == Init /\ [][Next]_vars

\* The process runs, and the database is up again some time (DBconnect tries
\* for ever).
FairSpec == Spec /\ WF_vars(Next)
--------------------------------------------------------------------------------
(***************************************************************************)
(* Properties.                                                             *)
(***************************************************************************)

\* The session variables have their types: transactions do not nest.
TypeOK ==
  /\ txn_level \in {0, 1} /\ txn_error \in {0, 1}
  /\ pc \in {"idle", "begin", "exec", "commit", "rollback"}
  /\ cur \in 1 .. Txns + 1 /\ stmt \in 1 .. Stmts + 1
  /\ conn \in {"up", "down"}
  /\ intxn \in BOOLEAN /\ work \in SUBSET AllStmts
  /\ db \in [AllTxns -> [AllStmts -> Nat]]
  /\ losses \in 0 .. MaxLosses
  /\ failed \in SUBSET AllTxns /\ cut \in SUBSET AllTxns /\ undone \in SUBSET AllTxns

\* The assertions of zbx_db_begin, zbx_db_commit and zbx_db_rollback hold: no
\* nested transaction, no end without a begin, whatever is lost or refused.
NoAssert ==
  /\ pc \in {"idle", "begin"} => txn_level = 0
  /\ pc \in {"exec", "commit", "rollback"} => txn_level = 1

Done(t) == t < cur
Effective(t) == {k \in AllStmts : db[t][k] > 0}

\* A transaction takes effect as a whole or not at all, each statement once; and
\* it does so exactly when nothing failed and the application did not undo it.
\* (As long as the connection was not lost during the transaction.)
AllOrNothing ==
  \A t \in AllTxns :
    Done(t) /\ t \notin cut =>
      \A k \in AllStmts : db[t][k] = IF t \in failed \cup undone THEN 0 ELSE 1

\* What a lost connection takes away from a transaction is its beginning: the
\* statements that took effect are the last ones. (The statement under way is
\* repeated on the new session, outside any transaction; the ones before it are
\* gone with the old session, the ones after it follow one by one.)
LossTakesBeginning ==
  \A t \in AllTxns :
    Done(t) /\ t \notin failed /\ t \notin undone =>
      \A k \in Effective(t) : \A m \in AllStmts : k < m => m \in Effective(t)

\* Every transaction that begins ends, however often the connection is lost: the
\* loops of DBtxn_operation and __zbx_DBexecute do not go round for ever, so that
\* the process is outside of transactions again and again.
EveryTxnEnds == []<>(pc = "idle")
================================================================================
