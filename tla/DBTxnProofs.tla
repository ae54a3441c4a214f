------------------------------ MODULE DBTxnProofs ------------------------------
(***************************************************************************)
(* What is proved of DBTxn for every number of transactions, statements    *)
(* and lost connections.                                                   *)
(***************************************************************************)
EXTENDS DBTxn, TLAPS

\* The type invariant needs the levels (without NoAssert a commit could take
\* txn_level below 0) and the place of the application in its transaction.
Position ==
  /\ pc # "idle" => cur \in AllTxns
  /\ pc \in {"idle", "begin"} => stmt = 1
  /\ pc \in {"commit", "rollback"} => stmt = Stmts + 1

LevelInv == TypeOK /\ NoAssert /\ Position

\* What every step of the session does to the types of what Query changes.
LEMMA QueryTypes ==
  ASSUME TypeOK, cur \in AllTxns, NEW sql \in {"begin", "stmt", "commit", "rollback"},
         sql = "stmt" => stmt \in AllStmts,
         NEW err \in {0, 1}, NEW rc \in {"OK", "FAIL", "DOWN"}, Query(sql, err, rc)
  PROVE  /\ conn' \in {"up", "down"}
         /\ intxn' \in BOOLEAN /\ work' \in SUBSET AllStmts
         /\ db' \in [AllTxns -> [AllStmts -> Nat]]
         /\ losses' \in 0 .. MaxLosses
         /\ failed' \in SUBSET AllTxns /\ cut' \in SUBSET AllTxns
  <1>1. /\ ServerRollback \/ UNCHANGED server \/ ServerDo(sql)
        /\ conn' \in {"up", "down"}
        /\ losses' = losses \/ (losses < MaxLosses /\ losses' = losses + 1)
        /\ failed' = failed \/ failed' = failed \cup {cur}
        /\ cut' = cut \/ cut' = cut \cup {cur}
    BY DEF Query, ServerRefuse, ServerLost, TypeOK
  <1>2. losses' \in 0 .. MaxLosses
    BY <1>1, TxnAssumption DEF TypeOK
  <1>3. failed' \in SUBSET AllTxns /\ cut' \in SUBSET AllTxns
    BY <1>1 DEF TypeOK
  <1>4. /\ intxn' \in BOOLEAN /\ work' \in SUBSET AllStmts
        /\ db' \in [AllTxns -> [AllStmts -> Nat]]
    <2>1. CASE ServerRollback
      BY <2>1 DEF ServerRollback, TypeOK
    <2>2. CASE UNCHANGED server
      BY <2>2 DEF server, TypeOK
    <2>3. CASE sql = "begin" /\ ServerBegin
      BY <2>3 DEF ServerBegin, TypeOK
    <2>4. CASE sql = "stmt" /\ ServerExec
      BY <2>4 DEF ServerExec, TypeOK
    <2>5. CASE sql = "commit" /\ ServerCommit
      <3>1. [k \in AllStmts |-> db[cur][k] + IF k \in work THEN 1 ELSE 0] \in [AllStmts -> Nat]
        BY DEF TypeOK
      <3> QED
        BY <2>5, <3>1 DEF ServerCommit, TypeOK
    <2>6. CASE sql = "rollback" /\ ServerRollback
      BY <2>6 DEF ServerRollback, TypeOK
    <2> QED
      BY <1>1, <2>1, <2>2, <2>3, <2>4, <2>5, <2>6 DEF ServerDo
  <1> QED
    BY <1>1, <1>2, <1>3, <1>4

LEMMA LevelInit == Init => LevelInv
  <1> SUFFICES ASSUME Init PROVE LevelInv
    OBVIOUS
  <1>1. db \in [AllTxns -> [AllStmts -> Nat]]
    BY DEF Init
  <1>2. intxn \in BOOLEAN /\ work \in SUBSET AllStmts /\ failed \in SUBSET AllTxns
        /\ cut \in SUBSET AllTxns /\ undone \in SUBSET AllTxns
    BY DEF Init
  <1>3. NoAssert /\ Position
    BY DEF Init, NoAssert, Position
  <1>4. TypeOK
    BY <1>1, <1>2, TxnAssumption DEF Init, TypeOK
  <1> QED
    BY <1>3, <1>4 DEF LevelInv

LEMMA LevelNext == LevelInv /\ [Next]_vars => LevelInv'
  <1> SUFFICES ASSUME LevelInv, [Next]_vars PROVE LevelInv'
    OBVIOUS
  <1> USE TxnAssumption
  <1>a. TypeOK /\ NoAssert
    BY DEF LevelInv
  <1>1. CASE DBbegin
    <2>1. cur \in AllTxns
      BY <1>1 DEF DBbegin, LevelInv, TypeOK, AllTxns
    <2> QED
      BY <1>1, <2>1 DEF DBbegin, LevelInv, Position, TypeOK, NoAssert, server
  <1>2. CASE zbx_db_begin
    <2>1. PICK rc \in {"OK", "FAIL", "DOWN"} :
            /\ Query("begin", txn_error, rc)
            /\ txn_error' = ErrorAfter(txn_level + 1, txn_error, rc)
            /\ txn_level' = LevelOfBegin(rc)
            /\ pc' = IF rc = "DOWN" THEN "begin" ELSE "exec"
      BY <1>2 DEF zbx_db_begin
    <2>2. cur \in AllTxns /\ txn_error \in {0, 1}
      BY <1>2 DEF zbx_db_begin, LevelInv, Position, TypeOK, AllTxns
    <2>3. /\ conn' \in {"up", "down"}
          /\ intxn' \in BOOLEAN /\ work' \in SUBSET AllStmts
          /\ db' \in [AllTxns -> [AllStmts -> Nat]]
          /\ losses' \in 0 .. MaxLosses
          /\ failed' \in SUBSET AllTxns /\ cut' \in SUBSET AllTxns
      BY <1>a, <2>1, <2>2, QueryTypes
    <2> QED
      BY <1>2, <2>1, <2>3
         DEF zbx_db_begin, LevelInv, Position, TypeOK, NoAssert, ErrorAfter, LevelOfBegin
  <1>3. CASE DBexecute
    <2>1. PICK rc \in {"OK", "FAIL", "DOWN"} :
            /\ Query("stmt", txn_error, rc)
            /\ txn_error' = ErrorAfter(txn_level, txn_error, rc)
            /\ stmt' = IF Repeat(rc) THEN stmt ELSE stmt + 1
      BY <1>3 DEF DBexecute
    <2>2. cur \in AllTxns /\ stmt \in AllStmts /\ txn_error \in {0, 1}
      BY <1>3 DEF DBexecute, LevelInv, Position, TypeOK, AllTxns, AllStmts
    <2>3. /\ conn' \in {"up", "down"}
          /\ intxn' \in BOOLEAN /\ work' \in SUBSET AllStmts
          /\ db' \in [AllTxns -> [AllStmts -> Nat]]
          /\ losses' \in 0 .. MaxLosses
          /\ failed' \in SUBSET AllTxns /\ cut' \in SUBSET AllTxns
      BY <1>a, <2>1, <2>2, QueryTypes
    <2> QED
      BY <1>3, <2>1, <2>2, <2>3
         DEF DBexecute, LevelInv, Position, TypeOK, NoAssert, ErrorAfter, Repeat, AllStmts
  <1>4. CASE DBend
    <2>1. stmt = Stmts + 1 /\ cur \in AllTxns /\ txn_level = 1
      BY <1>4 DEF DBend, LevelInv, Position, TypeOK, NoAssert
    <2>2. pc' \in {"commit", "rollback"} /\ undone' \in SUBSET AllTxns
      BY <1>4, <2>1 DEF DBend, LevelInv, TypeOK
    <2> QED
      BY <1>4, <2>1, <2>2 DEF DBend, LevelInv, Position, TypeOK, NoAssert, server
  <1>5. CASE zbx_db_commit \/ zbx_db_rollback
    <2>1. PICK rc \in {"OK", "FAIL", "DOWN"}, sql \in {"commit", "rollback"} :
            /\ Query(sql, 0, rc)
            /\ \/ txn_error' = txn_error
               \/ txn_error' = ErrorAfter(txn_level, 0, rc)
            /\ Ended(rc)
      BY <1>5 DEF zbx_db_commit, zbx_db_rollback, Rollback
    <2>2. cur \in AllTxns /\ txn_level = 1 /\ stmt = Stmts + 1 
          /\ pc \in {"commit", "rollback"} /\ UNCHANGED undone
      BY <1>5 DEF zbx_db_commit, zbx_db_rollback, LevelInv, Position, TypeOK, NoAssert, AllTxns
    <2>3. /\ conn' \in {"up", "down"}
          /\ intxn' \in BOOLEAN /\ work' \in SUBSET AllStmts
          /\ db' \in [AllTxns -> [AllStmts -> Nat]]
          /\ losses' \in 0 .. MaxLosses
          /\ failed' \in SUBSET AllTxns /\ cut' \in SUBSET AllTxns
      BY <1>a, <2>1, <2>2, QueryTypes
    <2> QED
      BY <2>1, <2>2, <2>3
         DEF LevelInv, Position, TypeOK, NoAssert, Ended, LevelOfEnd, ErrorAfter, AllTxns
  <1>6. CASE DBconnect
    BY <1>6 DEF DBconnect, LevelInv, Position, TypeOK, NoAssert, server, client
  <1>7. CASE UNCHANGED vars
    BY <1>7 DEF vars, LevelInv, Position, TypeOK, NoAssert, server, client
  <1> QED
    BY <1>1, <1>2, <1>3, <1>4, <1>5, <1>6, <1>7 DEF Next, Finished

\* The statics of db.c stay in range: txn_level is never negative nor above 1.
THEOREM TypeCorrect == Spec => []TypeOK
  <1>1. LevelInv => TypeOK
    BY DEF LevelInv
  <1> QED
    BY LevelInit, LevelNext, <1>1, PTL DEF Spec

\* The assertions of zbx_db_begin, zbx_db_commit and zbx_db_rollback never fail,
\* whatever is refused or lost and however often an operation is repeated.
THEOREM AssertionsHold == Spec => []NoAssert
  <1>1. LevelInv => NoAssert
    BY DEF LevelInv
  <1> QED
    BY LevelInit, LevelNext, <1>1, PTL DEF Spec
--------------------------------------------------------------------------------
(***************************************************************************)
(* Atomicity, where the server does not refuse a commit.  AllOrNothing     *)
(* speaks of transactions that have ended; the invariant adds what the     *)
(* session holds of the current one: nothing is effective yet, and unless  *)
(* a statement was refused the open transaction holds the statements so    *)
(* far.                                                                    *)
(***************************************************************************)

NothingOf(t) == \A k \in AllStmts : db[t][k] = 0

Future ==
  \A t \in AllTxns : t > cur => NothingOf(t) /\ t \notin failed /\ t \notin cut /\ t \notin undone

Before ==
  pc \in {"idle", "begin"} =>
    /\ txn_error = 0 /\ ~intxn
    /\ cur \in AllTxns => NothingOf(cur) /\ cur \notin failed /\ cur \notin undone

Within ==
  pc \in {"exec", "commit", "rollback"} =>
    /\ txn_error = 1 <=> cur \in failed
    /\ cur \in undone <=> pc = "rollback"
    /\ cur \notin cut => NothingOf(cur)
    /\ cur \notin cut /\ cur \notin failed => intxn /\ work = 1 .. (stmt - 1)

AtomInv == LevelInv /\ Future /\ Before /\ Within /\ AllOrNothing

LEMMA AtomInit == Init => AtomInv
  <1> SUFFICES ASSUME Init PROVE AtomInv
    OBVIOUS
  <1>1. LevelInv
    BY LevelInit
  <1>2. \A t \in AllTxns : NothingOf(t) /\ t \notin failed /\ t \notin cut /\ t \notin undone
    BY DEF Init, NothingOf
  <1>3. Future /\ Before /\ Within
    BY <1>2 DEF Init, Future, Before, Within
  <1>4. AllOrNothing
    BY DEF Init, AllOrNothing, Done, AllTxns
  <1> QED
    BY <1>1, <1>3, <1>4 DEF AtomInv

\* A step that touches nothing but the current transaction keeps what is known
\* of the ones that have ended and of the ones to come.
LEMMA AtomOthers ==
  ASSUME AtomInv, UNCHANGED cur,
         \A t \in AllTxns : t # cur => db'[t] = db[t],
         failed' \subseteq failed \cup {cur}, failed \subseteq failed',
         cut' \subseteq cut \cup {cur}, cut \subseteq cut',
         undone' \subseteq undone \cup {cur}, undone \subseteq undone'
  PROVE  Future' /\ AllOrNothing'
  <1>1. Future'
    BY TxnAssumption DEF AtomInv, LevelInv, TypeOK, Future, NothingOf, AllTxns
  <1>2. AllOrNothing'
    <2> SUFFICES ASSUME NEW t \in AllTxns, t < cur, t \notin cut'
                 PROVE  \A k \in AllStmts :
                          db'[t][k] = IF t \in failed' \cup undone' THEN 0 ELSE 1
      BY DEF AllOrNothing, Done
    <2>1. t # cur /\ t \notin cut
      BY TxnAssumption DEF AtomInv, LevelInv, TypeOK, AllTxns
    <2>2. t \in failed' \cup undone' <=> t \in failed \cup undone
      BY <2>1
    <2> QED
      BY <2>1, <2>2 DEF AtomInv, AllOrNothing, Done
  <1> QED
    BY <1>1, <1>2

\* Queries change db at the current transaction only.
LEMMA QueryTouches ==
  ASSUME TypeOK, cur \in AllTxns, NEW sql, NEW err, NEW rc, Query(sql, err, rc)
  PROVE  /\ \A t \in AllTxns : t # cur => db'[t] = db[t]
         /\ failed' \subseteq failed \cup {cur} /\ failed \subseteq failed'
         /\ cut' \subseteq cut \cup {cur} /\ cut \subseteq cut'
  BY DEF Query, ServerDo, ServerRefuse, ServerLost, ServerExec, ServerBegin, ServerCommit,
     ServerRollback, server, TypeOK

LEMMA QueryOthers ==
  ASSUME AtomInv, cur \in AllTxns, NEW sql, NEW err, NEW rc, Query(sql, err, rc)
  PROVE  /\ \A t \in AllTxns : t # cur => db'[t] = db[t]
         /\ failed' \subseteq failed \cup {cur} /\ failed \subseteq failed'
         /\ cut' \subseteq cut \cup {cur} /\ cut \subseteq cut'
  BY QueryTouches DEF AtomInv, LevelInv

LEMMA AtomBegin ==
  ASSUME AtomInv, zbx_db_begin PROVE AtomInv'
  <1> USE TxnAssumption
  <1>1. PICK rc \in {"OK", "FAIL", "DOWN"} :
          /\ Query("begin", txn_error, rc)
          /\ txn_error' = ErrorAfter(txn_level + 1, txn_error, rc)
          /\ pc' = IF rc = "DOWN" THEN "begin" ELSE "exec"
    BY DEF zbx_db_begin
  <1>2. /\ cur \in AllTxns /\ stmt = 1 /\ txn_level = 0 /\ txn_error = 0 /\ ~intxn
        /\ NothingOf(cur) /\ cur \notin failed /\ cur \notin undone
        /\ UNCHANGED <<cur, stmt, undone>>
    BY DEF zbx_db_begin, AtomInv, LevelInv, Position, NoAssert, Before
  <1>3. LevelInv'
    BY LevelNext DEF AtomInv, Next
  <1>4. Future' /\ AllOrNothing'
    BY <1>1, <1>2, QueryOthers, AtomOthers
  <1>5. CASE rc = "OK"
    <2>1. intxn' = TRUE /\ work' = {} /\ UNCHANGED <<db, failed, cut>>
      BY <1>1, <1>2, <1>5 DEF Query, ServerDo, ServerBegin
    <2>2. txn_error' = 0 /\ pc' = "exec" /\ {} = 1 .. (stmt - 1)
      BY <1>1, <1>2, <1>5 DEF ErrorAfter
    <2>3. Before' /\ Within'
      BY <1>2, <2>1, <2>2 DEF Before, Within, NothingOf
    <2> QED
      BY <1>3, <1>4, <2>3 DEF AtomInv
  <1>6. CASE rc = "FAIL"
    <2>1. UNCHANGED db /\ cur \in failed' /\ UNCHANGED cut
      BY <1>1, <1>2, <1>6 DEF Query, ServerRefuse, ServerRollback, server
    <2>2. txn_error' = 1 /\ pc' = "exec"
      BY <1>1, <1>2, <1>6 DEF ErrorAfter
    <2>3. Before' /\ Within'
      BY <1>2, <2>1, <2>2 DEF Before, Within, NothingOf
    <2> QED
      BY <1>3, <1>4, <2>3 DEF AtomInv
  <1>7. CASE rc = "DOWN"
    <2>1. intxn' = FALSE /\ UNCHANGED <<db, failed>>
      BY <1>1, <1>2, <1>7 DEF Query, ServerLost, ServerRollback
    <2>2. txn_error' = 0 /\ pc' = "begin"
      BY <1>1, <1>2, <1>7 DEF ErrorAfter
    <2>3. Before' /\ Within'
      BY <1>2, <2>1, <2>2 DEF Before, Within, NothingOf
    <2> QED
      BY <1>3, <1>4, <2>3 DEF AtomInv
  <1> QED
    BY <1>5, <1>6, <1>7

LEMMA AtomExecute ==
  ASSUME AtomInv, DBexecute PROVE AtomInv'
  <1> USE TxnAssumption
  <1>1. PICK rc \in {"OK", "FAIL", "DOWN"} :
          /\ Query("stmt", txn_error, rc)
          /\ txn_error' = ErrorAfter(txn_level, txn_error, rc)
          /\ stmt' = IF Repeat(rc) THEN stmt ELSE stmt + 1
    BY DEF DBexecute
  <1>2. /\ cur \in AllTxns /\ stmt \in AllStmts /\ txn_level = 1 /\ txn_error \in {0, 1}
        /\ pc = "exec" /\ UNCHANGED <<pc, cur, undone>> /\ cur \notin undone
        /\ txn_error = 1 <=> cur \in failed
        /\ cur \notin cut => NothingOf(cur)
        /\ cur \notin cut /\ cur \notin failed => intxn /\ work = 1 .. (stmt - 1)
    BY DEF DBexecute, AtomInv, LevelInv, TypeOK, Position, NoAssert, Within, AllStmts
  <1>3. LevelInv'
    BY LevelNext DEF AtomInv, Next
  <1>4. Future' /\ AllOrNothing'
    BY <1>1, <1>2, QueryOthers, AtomOthers
  <1>5. CASE txn_error = 1
    <2>1. UNCHANGED <<db, failed, cut>> /\ txn_error' = 1
      BY <1>1, <1>2, <1>5 DEF Query, ErrorAfter, server
    <2>2. Before' /\ Within'
      BY <1>2, <1>5, <2>1 DEF Before, Within, NothingOf
    <2> QED
      BY <1>3, <1>4, <2>2 DEF AtomInv
  <1>6. CASE txn_error = 0 /\ rc = "OK"
    <2>1. ServerExec /\ UNCHANGED <<failed, cut>> /\ txn_error' = 0 /\ stmt' = stmt + 1
      BY <1>1, <1>6 DEF Query, ServerDo, ErrorAfter, Repeat
    <2>2. ASSUME cur \notin cut PROVE intxn' /\ work' = 1 .. (stmt' - 1) /\ db' = db
      <3>1. intxn /\ work = 1 .. (stmt - 1)
        BY <1>2, <1>6, <2>2
      <3>2. (1 .. (stmt - 1)) \cup {stmt} = 1 .. (stmt + 1 - 1)
        <4>1. stmt \in Nat \ {0}
          BY <1>2 DEF AllStmts
        <4> QED
          BY <4>1
      <3>3. work' = work \cup {stmt} /\ intxn' = intxn /\ db' = db
        BY <2>1, <3>1 DEF ServerExec
      <3>4. work' = 1 .. (stmt + 1 - 1)
        BY <3>1, <3>2, <3>3
      <3>5. intxn'
        BY <3>1, <3>3, Zenon
      <3>6. stmt' = stmt + 1
        BY <2>1
      <3>7. stmt + 1 - 1 = stmt' - 1
        BY <1>2, <3>6 DEF AllStmts
      <3>8. work' = 1 .. (stmt' - 1)
        BY <3>4, <3>7, Zenon
      <3> QED
        BY <3>3, <3>5, <3>8, Zenon
    <2>3. Before' /\ Within'
      BY <1>2, <1>6, <2>1, <2>2 DEF Before, Within, NothingOf
    <2> QED
      BY <1>3, <1>4, <2>3 DEF AtomInv
  <1>7. CASE txn_error = 0 /\ rc = "FAIL"
    <2>1. UNCHANGED <<db, cut>> /\ cur \in failed' /\ txn_error' = 1
      BY <1>1, <1>2, <1>7 DEF Query, ServerRefuse, ServerRollback, ErrorAfter, server
    <2>2. Before' /\ Within'
      BY <1>2, <1>7, <2>1 DEF Before, Within, NothingOf
    <2> QED
      BY <1>3, <1>4, <2>2 DEF AtomInv
  <1>8. CASE txn_error = 0 /\ rc = "DOWN"
    <2>1. cur \in cut' /\ UNCHANGED failed /\ txn_error' = 0
      BY <1>1, <1>8 DEF Query, ErrorAfter
    <2>2. Before' /\ Within'
      BY <1>2, <1>8, <2>1 DEF Before, Within
    <2> QED
      BY <1>3, <1>4, <2>2 DEF AtomInv
  <1> QED
    BY <1>2, <1>5, <1>6, <1>7, <1>8

\* The current transaction is over: what db holds of it is what AllOrNothing
\* says, and the next one starts with a clean session.
LEMMA AtomOver ==
  ASSUME AtomInv, cur \in AllTxns, cur' = cur + 1, pc' = "idle",
         \A t \in AllTxns : t # cur => db'[t] = db[t],
         UNCHANGED <<failed, cut, undone>>,
         txn_error' = 0, ~intxn',
         cur \notin cut => \A k \in AllStmts :
           db'[cur][k] = IF cur \in failed \cup undone THEN 0 ELSE 1
  PROVE  Future' /\ Before' /\ Within' /\ AllOrNothing'
  <1> USE TxnAssumption
  <1>1. Future'
    BY DEF AtomInv, Future, NothingOf, AllTxns
  <1>2. Before'
    <2> SUFFICES ASSUME cur' \in AllTxns
                 PROVE  NothingOf(cur)' /\ cur' \notin failed' /\ cur' \notin undone'
      BY DEF Before
    <2>1. cur' > cur /\ cur' # cur
      BY DEF AllTxns
    <2> QED
      BY <2>1 DEF AtomInv, Future, NothingOf
  <1>3. Within'
    BY DEF Within
  <1>4. AllOrNothing'
    <2> SUFFICES ASSUME NEW t \in AllTxns, t < cur', t \notin cut
                 PROVE  \A k \in AllStmts :
                          db'[t][k] = IF t \in failed \cup undone THEN 0 ELSE 1
      BY DEF AllOrNothing, Done
    <2>1. t = cur \/ (t < cur /\ t # cur)
      BY DEF AllTxns
    <2> QED
      BY <2>1 DEF AtomInv, AllOrNothing, Done
  <1> QED
    BY <1>1, <1>2, <1>3, <1>4

\* The database is down: the operation will be repeated.
LEMMA AtomDown ==
  ASSUME AtomInv, cur \in AllTxns, pc \in {"commit", "rollback"},
         NEW sql, Query(sql, 0, "DOWN"), txn_error' = txn_error,
         UNCHANGED <<pc, cur, stmt, undone>>
  PROVE  Future' /\ Before' /\ Within' /\ AllOrNothing'
  <1>1. Future' /\ AllOrNothing'
    BY QueryOthers, AtomOthers
  <1>2. cur \in cut' /\ UNCHANGED failed
    BY DEF Query
  <1>3. Before' /\ Within'
    BY <1>2 DEF AtomInv, Before, Within
  <1> QED
    BY <1>1, <1>3

\* zbx_db_rollback, called for itself or by zbx_db_commit after an error.
LEMMA AtomRollback ==
  ASSUME AtomInv, Rollback, UNCHANGED undone,
         pc = "rollback" \/ (pc = "commit" /\ txn_error = 1)
  PROVE  Future' /\ Before' /\ Within' /\ AllOrNothing'
  <1>1. PICK rc \in {"OK", "FAIL", "DOWN"} :
          /\ Query("rollback", 0, rc)
          /\ txn_error' = IF rc = "DOWN" THEN txn_error ELSE ErrorAfter(txn_level, 0, rc)
          /\ Ended(rc)
    BY DEF Rollback
  <1>2. cur \in AllTxns /\ pc \in {"commit", "rollback"} /\ cur \in failed \cup undone
    BY DEF AtomInv, LevelInv, Position, Within
  <1>3. CASE rc = "OK"
    <2>1. ServerRollback /\ UNCHANGED <<failed, cut>>
      BY <1>1, <1>3 DEF Query, ServerDo
    <2>2. txn_error' = 0 /\ pc' = "idle" /\ cur' = cur + 1
      BY <1>1, <1>3 DEF ErrorAfter, Ended
    <2>3. cur \notin cut => \A k \in AllStmts :
            db'[cur][k] = IF cur \in failed \cup undone THEN 0 ELSE 1
      BY <1>2, <2>1 DEF ServerRollback, AtomInv, Within, NothingOf
    <2>4. ~intxn' /\ db' = db
      BY <2>1 DEF ServerRollback
    <2> QED
      BY <1>2, <2>1, <2>2, <2>3, <2>4, AtomOver
  <1>4. CASE rc = "FAIL"
    BY <1>1, <1>4 DEF Query
  <1>5. CASE rc = "DOWN"
    BY <1>1, <1>2, <1>5, AtomDown DEF Ended
  <1> QED
    BY <1>3, <1>4, <1>5

LEMMA AtomCommit ==
  ASSUME ~CommitMayFail, AtomInv, zbx_db_commit
  PROVE  Future' /\ Before' /\ Within' /\ AllOrNothing'
  <1> USE TxnAssumption
  <1>1. CASE txn_error = 1
    <2>1. Rollback /\ UNCHANGED undone /\ pc = "commit"
      BY <1>1 DEF zbx_db_commit
    <2> QED
      BY <1>1, <2>1, AtomRollback
  <1>2. CASE txn_error = 0
    <2>1. PICK rc \in {"OK", "FAIL", "DOWN"} :
            Query("commit", 0, rc) /\ txn_error' = ErrorAfter(txn_level, 0, rc) /\ Ended(rc)
      BY <1>2 DEF zbx_db_commit
    <2>2. /\ cur \in AllTxns /\ pc = "commit" /\ stmt = Stmts + 1 /\ UNCHANGED undone
          /\ cur \notin failed /\ cur \notin undone
      BY <1>2 DEF zbx_db_commit, AtomInv, LevelInv, Position, Within
    <2>3. CASE rc = "OK"
      <3>1. ServerCommit /\ UNCHANGED <<failed, cut>>
        BY <2>1, <2>3 DEF Query, ServerDo
      <3>2. txn_error' = 0 /\ pc' = "idle" /\ cur' = cur + 1
        BY <2>1, <2>3 DEF ErrorAfter, Ended
      <3>3. ~intxn' /\ \A t \in AllTxns : t # cur => db'[t] = db[t]
        BY <3>1 DEF ServerCommit, AtomInv, LevelInv, TypeOK
      <3>4. ASSUME cur \notin cut, NEW k \in AllStmts PROVE db'[cur][k] = 1
        <4>1. db[cur][k] = 0 /\ work = 1 .. (stmt - 1)
          BY <2>2, <3>4 DEF AtomInv, Within, NothingOf
        <4>2. k \in work
          BY <2>2, <4>1 DEF AllStmts
        <4>3. db'[cur] = [j \in AllStmts |-> db[cur][j] + IF j \in work THEN 1 ELSE 0]
          BY <2>2, <3>1 DEF ServerCommit, AtomInv, LevelInv, TypeOK
        <4> QED
          BY <4>1, <4>2, <4>3
      <3> QED
        BY <2>2, <3>1, <3>2, <3>3, <3>4, AtomOver
    <2>4. CASE rc = "FAIL"
      BY <2>1, <2>4 DEF Query
    <2>5. CASE rc = "DOWN"
      BY <1>2, <2>1, <2>2, <2>5, AtomDown DEF Ended, ErrorAfter
    <2> QED
      BY <2>3, <2>4, <2>5
  <1> QED
    BY <1>1, <1>2 DEF AtomInv, LevelInv, TypeOK

LEMMA AtomNext ==
  ASSUME ~CommitMayFail, AtomInv, [Next]_vars PROVE AtomInv'
  <1>1. LevelInv'
    BY LevelNext DEF AtomInv
  <1>2. CASE zbx_db_begin
    BY <1>2, AtomBegin
  <1>3. CASE DBexecute
    BY <1>3, AtomExecute
  <1>4. CASE zbx_db_commit
    BY <1>1, <1>4, AtomCommit DEF AtomInv
  <1>5. CASE zbx_db_rollback
    BY <1>1, <1>5, AtomRollback DEF AtomInv, zbx_db_rollback
  <1>6. CASE DBbegin
    <2>1. pc = "idle" /\ pc' = "begin" /\ UNCHANGED <<txn_error, cur, stmt, db, intxn, work, failed, cut, undone>>
      BY <1>6 DEF DBbegin, server
    <2> QED
      BY <1>1, <2>1 DEF AtomInv, Future, Before, Within, AllOrNothing, Done, NothingOf
  <1>7. CASE DBend
    <2>1. /\ pc = "exec" /\ cur \in AllTxns
          /\ UNCHANGED <<txn_error, cur, stmt, db, intxn, work, failed, cut>>
          /\ \/ pc' = "commit" /\ undone' = undone
             \/ pc' = "rollback" /\ undone' = undone \cup {cur}
      BY <1>7 DEF DBend, server, AtomInv, LevelInv, Position
    <2>2. Future' /\ AllOrNothing'
      BY <2>1, AtomOthers
    <2>3. Before' /\ Within'
      BY <2>1 DEF AtomInv, Before, Within, NothingOf
    <2> QED
      BY <1>1, <2>2, <2>3 DEF AtomInv
  <1>8. CASE DBconnect \/ Finished \/ UNCHANGED vars
    <2>1. UNCHANGED <<pc, txn_error, cur, stmt, db, intxn, work, failed, cut, undone>>
      BY <1>8 DEF DBconnect, Finished, vars, client, server
    <2> QED
      BY <1>1, <2>1 DEF AtomInv, Future, Before, Within, AllOrNothing, Done, NothingOf
  <1> QED
    BY <1>2, <1>3, <1>4, <1>5, <1>6, <1>7, <1>8 DEF Next

\* A transaction during which the connection was not lost takes effect as a
\* whole or not at all, and exactly when nothing of it was refused and the
\* application did not roll it back, however many transactions and statements
\* there are and however many connections are lost in the others; where the
\* server refuses no commit (a refused commit breaks it, see the finding).
THEOREM Atomicity ==
  ASSUME ~CommitMayFail PROVE Spec => []AllOrNothing
  <1>1. AtomInv => AllOrNothing
    BY DEF AtomInv
  <1>2. AtomInv /\ [Next]_vars => AtomInv'
    BY AtomNext
  <1> QED
    BY AtomInit, <1>1, <1>2, PTL DEF Spec

--------------------------------------------------------------------------------
(***************************************************************************)
(* What a lost connection takes away, whether the server refuses commits   *)
(* or not.  The transaction under way is held by the session, or outside   *)
(* any transaction since the connection was lost: then what took effect of *)
(* its statements so far are the last ones.  After a refused commit the    *)
(* next transaction is ignored as a whole.                                 *)
(***************************************************************************)

\* What took effect of the statements before s are the last ones.
LastOnes(row, s) ==
  \A k \in AllStmts, m \in AllStmts : row[k] > 0 /\ k < m /\ m < s => row[m] > 0

Untouched ==
  \A t \in AllTxns : t > cur \/ (t = cur /\ pc \in {"idle", "begin"}) => NothingOf(t)

UnderWay ==
  /\ pc \in {"exec", "commit"} /\ cur \notin failed =>
       \/ txn_error = 1 /\ NothingOf(cur)
       \/ txn_error = 0 /\ intxn /\ work = 1 .. (stmt - 1) /\ NothingOf(cur)
       \/ txn_error = 0 /\ ~intxn /\ work = {} /\ LastOnes(db[cur], stmt)
  /\ pc = "rollback" => cur \in undone

LossInv == LevelInv /\ Untouched /\ UnderWay /\ LossTakesBeginning

\* The ended transactions and those to come are left alone.
LEMMA LossOthers ==
  ASSUME LossInv, cur \in AllTxns, UNCHANGED cur, pc' \notin {"idle", "begin"} \/ NothingOf(cur)',
         \A t \in AllTxns : t # cur => db'[t] = db[t],
         failed \subseteq failed', undone \subseteq undone'
  PROVE  Untouched' /\ LossTakesBeginning'
  <1>1. \A t \in AllTxns : t \in Int /\ cur \in Int
    BY DEF AllTxns
  <1>2. Untouched'
    BY <1>1 DEF LossInv, Untouched, NothingOf
  <1>3. LossTakesBeginning'
    <2> SUFFICES ASSUME NEW t \in AllTxns, t < cur, t \notin failed', t \notin undone'
                 PROVE  \A k \in AllStmts, m \in AllStmts : db'[t][k] > 0 /\ k < m => db'[t][m] > 0
      BY DEF LossTakesBeginning, Effective, Done
    <2>1. t \notin failed /\ t \notin undone /\ db'[t] = db[t]
      BY <1>1
    <2>2. \A k \in AllStmts, m \in AllStmts : db[t][k] > 0 /\ k < m => db[t][m] > 0
      BY <2>1 DEF LossInv, LossTakesBeginning, Effective, Done
    <2> QED
      BY <2>1, <2>2
  <1> QED
    BY <1>2, <1>3

\* The current transaction is over.
LEMMA LossOver ==
  ASSUME LossInv, cur \in AllTxns, cur' = cur + 1, pc' = "idle",
         \A t \in AllTxns : t # cur => db'[t] = db[t],
         failed \subseteq failed', UNCHANGED undone,
         cur \notin failed' /\ cur \notin undone => LastOnes(db'[cur], Stmts + 1)
  PROVE  Untouched' /\ UnderWay' /\ LossTakesBeginning'
  <1>1. \A t \in AllTxns : t \in Int /\ cur \in Int
    BY DEF AllTxns
  <1>2. Untouched'
    <2>1. \A t \in AllTxns : t >= cur + 1 => t > cur /\ t # cur
      BY <1>1
    <2>2. \A t \in AllTxns : t >= cur + 1 => NothingOf(t)'
      BY <2>1 DEF LossInv, Untouched, NothingOf
    <2> QED
      BY <2>2, <1>1 DEF Untouched
  <1>3. UnderWay'
    BY DEF UnderWay
  <1>4. LossTakesBeginning'
    <2> SUFFICES ASSUME NEW t \in AllTxns, t < cur + 1, t \notin failed', t \notin undone
                 PROVE  \A k \in AllStmts, m \in AllStmts : db'[t][k] > 0 /\ k < m => db'[t][m] > 0
      BY DEF LossTakesBeginning, Effective, Done
    <2>1. CASE t = cur
      <3>1. \A m \in AllStmts : m < Stmts + 1
        BY TxnAssumption DEF AllStmts
      <3> QED
        BY <2>1, <3>1 DEF LastOnes
    <2>2. CASE t # cur
      <3>1. t < cur /\ t \notin failed /\ db'[t] = db[t]
        BY <2>2, <1>1
      <3>2. \A k \in AllStmts, m \in AllStmts : db[t][k] > 0 /\ k < m => db[t][m] > 0
        BY <3>1 DEF LossInv, LossTakesBeginning, Effective, Done
      <3> QED
        BY <3>1, <3>2
    <2> QED
      BY <2>1, <2>2
  <1> QED
    BY <1>2, <1>3, <1>4

\* Where nothing took effect, nothing is missing.
LEMMA NothingLast ==
  ASSUME NEW s, NothingOf(cur) PROVE LastOnes(db[cur], s)
  BY DEF NothingOf, LastOnes

\* A statement that takes effect outside a transaction is the last one so far.
LEMMA StatementLast ==
  ASSUME TypeOK, cur \in AllTxns, LastOnes(db[cur], stmt), stmt \in AllStmts,
         db' = [db EXCEPT ![cur][stmt] = @ + 1]
  PROVE  LastOnes(db'[cur], stmt) /\ LastOnes(db'[cur], stmt + 1)
  <1>1. db'[cur] = [db[cur] EXCEPT ![stmt] = @ + 1] /\ db[cur] \in [AllStmts -> Nat]
    BY DEF TypeOK
  <1>2. \A k \in AllStmts : /\ db[cur][k] \in Nat
                            /\ db'[cur][k] = IF k = stmt THEN db[cur][k] + 1 ELSE db[cur][k]
    BY <1>1
  <1>3. \A k \in AllStmts : k \in Int /\ stmt \in Int
    BY DEF AllStmts
  <1>4. \A k \in AllStmts : db'[cur][k] > 0 <=> k = stmt \/ db[cur][k] > 0
    BY <1>2
  <1>5. \A k \in AllStmts, m \in AllStmts :
           db'[cur][k] > 0 /\ k < m /\ m < stmt + 1 => db'[cur][m] > 0
    <2> SUFFICES ASSUME NEW k \in AllStmts, NEW m \in AllStmts, db'[cur][k] > 0, k < m, m < stmt + 1,
                        m # stmt
                 PROVE  db[cur][m] > 0
      BY <1>4
    <2>1. m < stmt /\ k # stmt
      BY <1>3
    <2>2. db[cur][k] > 0
      BY <1>4, <2>1
    <2> QED
      BY <2>1, <2>2 DEF LastOnes
  <1>6. \A m \in AllStmts : m < stmt => m < stmt + 1
    BY <1>3
  <1> QED
    BY <1>5, <1>6 DEF LastOnes

LEMMA LossInit == Init => LossInv
  <1> SUFFICES ASSUME Init PROVE LossInv
    OBVIOUS
  <1>1. LevelInv
    BY LevelInit
  <1>2. \A t \in AllTxns : NothingOf(t)
    BY DEF Init, NothingOf
  <1>3. LossTakesBeginning
    BY DEF Init, LossTakesBeginning, Done, AllTxns
  <1>4. Untouched /\ UnderWay
    BY <1>2 DEF Init, Untouched, UnderWay
  <1> QED
    BY <1>1, <1>3, <1>4 DEF LossInv

LEMMA LossBegin ==
  ASSUME LossInv, zbx_db_begin PROVE Untouched' /\ UnderWay' /\ LossTakesBeginning'
  <1>1. PICK rc \in {"OK", "FAIL", "DOWN"} :
          /\ Query("begin", txn_error, rc)
          /\ txn_error' = ErrorAfter(txn_level + 1, txn_error, rc)
          /\ pc' = IF rc = "DOWN" THEN "begin" ELSE "exec"
    BY DEF zbx_db_begin
  <1>2. /\ cur \in AllTxns /\ stmt = 1 /\ txn_level = 0 /\ txn_error \in {0, 1} /\ TypeOK
        /\ pc = "begin" /\ UNCHANGED <<cur, stmt, undone>>
    BY DEF zbx_db_begin, LossInv, LevelInv, Position, NoAssert, TypeOK
  <1>3. NothingOf(cur)
    BY <1>2 DEF LossInv, Untouched
  <1>4. db' = db /\ failed \subseteq failed'
    BY <1>1 DEF Query, ServerDo, ServerBegin, ServerRefuse, ServerLost, ServerRollback, server
  <1>5. Untouched' /\ LossTakesBeginning'
    BY <1>2, <1>3, <1>4, LossOthers DEF NothingOf
  <1>6. UnderWay'
    <2>1. CASE txn_error = 1
      <3>1. rc = "FAIL" /\ txn_error' = 1 /\ pc' = "exec"
        BY <1>1, <2>1 DEF Query, ErrorAfter
      <3> QED
        BY <3>1, <1>2, <1>3, <1>4 DEF UnderWay, NothingOf
    <2>2. CASE txn_error = 0 /\ rc = "OK"
      <3>1. intxn' = TRUE /\ work' = {} /\ txn_error' = 0 /\ pc' = "exec"
        BY <1>1, <2>2 DEF Query, ServerDo, ServerBegin, ErrorAfter
      <3>2. 1 .. (stmt - 1) = {}
        BY <1>2
      <3> QED
        BY <3>1, <3>2, <1>2, <1>3, <1>4 DEF UnderWay, NothingOf
    <2>3. CASE txn_error = 0 /\ rc = "FAIL"
      <3>1. cur \in failed' /\ pc' = "exec"
        BY <1>1, <2>3 DEF Query
      <3> QED
        BY <3>1, <1>2 DEF UnderWay
    <2>4. CASE rc = "DOWN"
      BY <2>4, <1>1 DEF UnderWay
    <2> QED
      BY <2>1, <2>2, <2>3, <2>4, <1>2
  <1> QED
    BY <1>5, <1>6

\* A statement: kept in the open transaction, or effective at once; and once more when
\* the connection is lost after it.
LEMMA LossExecute ==
  ASSUME LossInv, DBexecute PROVE Untouched' /\ UnderWay' /\ LossTakesBeginning'
  <1>1. PICK rc \in {"OK", "FAIL", "DOWN"} :
          /\ Query("stmt", txn_error, rc)
          /\ txn_error' = ErrorAfter(txn_level, txn_error, rc)
          /\ stmt' = IF Repeat(rc) THEN stmt ELSE stmt + 1
    BY DEF DBexecute
  <1>2. /\ cur \in AllTxns /\ stmt \in AllStmts /\ txn_level = 1 /\ txn_error \in {0, 1} /\ TypeOK
        /\ pc = "exec" /\ UNCHANGED <<pc, cur, undone>>
    BY TxnAssumption DEF DBexecute, LossInv, LevelInv, TypeOK, Position, NoAssert, AllStmts
  <1>3. failed \subseteq failed' /\ \A t \in AllTxns : t # cur => db'[t] = db[t]
    BY <1>1, <1>2, QueryTouches
  <1>4. Untouched' /\ LossTakesBeginning'
    BY <1>2, <1>3, LossOthers
  <1>5. ASSUME cur \notin failed'
        PROVE  \/ txn_error' = 1 /\ NothingOf(cur)'
               \/ txn_error' = 0 /\ intxn' /\ work' = 1 .. (stmt' - 1) /\ NothingOf(cur)'
               \/ txn_error' = 0 /\ ~intxn' /\ work' = {} /\ LastOnes(db'[cur], stmt')
    <2>1. \/ txn_error = 1 /\ NothingOf(cur)
          \/ txn_error = 0 /\ intxn /\ work = 1 .. (stmt - 1) /\ NothingOf(cur)
          \/ txn_error = 0 /\ ~intxn /\ work = {} /\ LastOnes(db[cur], stmt)
      <3>1. cur \notin failed /\ pc \in {"exec", "commit"}
        BY <1>2, <1>3, <1>5
      <3> QED
        BY <3>1, Zenon DEF LossInv, UnderWay
    <2>2. CASE txn_error = 1
      <3>1. db' = db /\ txn_error' = 1
        BY <1>1, <1>2, <2>2 DEF Query, ErrorAfter, server
      <3> QED
        BY <3>1, <2>1, <2>2, <1>2 DEF NothingOf
    <2>3. CASE txn_error = 0 /\ rc = "OK"
      <3>1. ServerExec /\ txn_error' = 0 /\ stmt' = stmt + 1
        BY <1>1, <2>3 DEF Query, ServerDo, ErrorAfter, Repeat
      <3>2. CASE intxn /\ work = 1 .. (stmt - 1) /\ NothingOf(cur)
        <4>1. work' = work \cup {stmt} /\ intxn' = intxn /\ db' = db
          BY <3>1, <3>2 DEF ServerExec
        <4>2. (1 .. (stmt - 1)) \cup {stmt} = 1 .. (stmt + 1 - 1)
          <5>1. stmt \in Nat \ {0}
            BY <1>2 DEF AllStmts
          <5> QED
            BY <5>1
        <4>3. work' = 1 .. (stmt' - 1)
          BY <4>1, <4>2, <3>1, <3>2
        <4>4. intxn'
          BY <4>1, <3>2, Zenon
        <4>5. NothingOf(cur)'
          BY <4>1, <3>2, <1>2 DEF NothingOf
        <4> QED
          BY <3>1, <4>3, <4>4, <4>5, Zenon
      <3>3. CASE ~intxn /\ work = {} /\ LastOnes(db[cur], stmt)
        <4>1. db' = [db EXCEPT ![cur][stmt] = @ + 1] /\ intxn' = intxn /\ work' = {}
          BY <3>1, <3>3 DEF ServerExec
        <4>2. LastOnes(db'[cur], stmt + 1)
          BY <4>1, <3>3, <1>2, StatementLast
        <4>3. ~intxn'
          BY <4>1, <3>3, Zenon
        <4> QED
          BY <4>1, <4>2, <4>3, <3>1
      <3> QED
        BY <2>1, <2>3, <3>2, <3>3
    <2>4. CASE txn_error = 0 /\ rc = "FAIL"
      BY <1>1, <1>5, <2>4 DEF Query
    <2>5. CASE txn_error = 0 /\ rc = "DOWN"
      <3>1. ServerLost("stmt") /\ txn_error' = 0 /\ stmt' = stmt
        BY <1>1, <2>5 DEF Query, ErrorAfter, Repeat
      <3>2. LastOnes(db[cur], stmt)
        BY <2>1, <2>5, NothingLast
      <3>3. CASE ServerRollback
        BY <3>1, <3>2, <3>3 DEF ServerRollback
      <3>4. CASE ~intxn /\ ServerExec
        <4>1. db' = [db EXCEPT ![cur][stmt] = @ + 1] /\ intxn' = intxn /\ work' = work
          BY <3>4 DEF ServerExec
        <4>2. work = {}
          BY <2>1, <2>5, <3>4
        <4>3. LastOnes(db'[cur], stmt)
          BY <4>1, <3>2, <1>2, StatementLast
        <4>4. ~intxn'
          BY <4>1, <3>4, Zenon
        <4> QED
          BY <4>1, <4>2, <4>3, <4>4, <3>1
      <3> QED
        BY <3>1, <3>3, <3>4 DEF ServerLost, ServerDo
    <2> QED
      BY <2>2, <2>3, <2>4, <2>5, <1>2
  <1>6. UnderWay'
    BY <1>2, <1>5 DEF UnderWay
  <1> QED
    BY <1>4, <1>6

\* A rollback takes the rest of the transaction with it; lost, it is repeated.
LEMMA LossRollback ==
  ASSUME LossInv, Rollback, UNCHANGED undone,
         pc = "rollback" \/ (pc = "commit" /\ txn_error = 1)
  PROVE  Untouched' /\ UnderWay' /\ LossTakesBeginning'
  <1>1. PICK rc \in {"OK", "FAIL", "DOWN"} :
          /\ Query("rollback", 0, rc)
          /\ txn_error' = IF rc = "DOWN" THEN txn_error ELSE ErrorAfter(txn_level, 0, rc)
          /\ Ended(rc)
    BY DEF Rollback
  <1>2. cur \in AllTxns /\ TypeOK /\ pc \in {"commit", "rollback"}
    BY DEF LossInv, LevelInv, Position
  <1>3. cur \in undone \/ cur \in failed \/ (pc = "commit" /\ txn_error = 1 /\ NothingOf(cur))
    BY DEF LossInv, UnderWay
  <1>4. db' = db /\ failed' = failed
    BY <1>1 DEF Query, ServerDo, ServerLost, ServerRollback
  <1>5. CASE rc = "DOWN"
    <2>1. UNCHANGED <<pc, cur, stmt, txn_error>>
      BY <1>1, <1>5 DEF Ended
    <2>2. Untouched' /\ LossTakesBeginning'
      BY <1>2, <1>4, <2>1, LossOthers
    <2>3. UnderWay'
      BY <1>2, <1>3, <1>4, <2>1 DEF UnderWay, NothingOf, LossInv
    <2> QED
      BY <2>2, <2>3
  <1>6. CASE rc # "DOWN"
    <2>1. pc' = "idle" /\ cur' = cur + 1
      BY <1>1, <1>6 DEF Ended
    <2>2. cur \notin failed' /\ cur \notin undone => LastOnes(db'[cur], Stmts + 1)
      BY <1>3, <1>4, NothingLast
    <2> QED
      BY <2>1, <2>2, <1>2, <1>4, LossOver
  <1> QED
    BY <1>5, <1>6

LEMMA LossCommit ==
  ASSUME LossInv, zbx_db_commit PROVE Untouched' /\ UnderWay' /\ LossTakesBeginning'
  <1>1. CASE txn_error = 1
    <2>1. Rollback /\ UNCHANGED undone /\ pc = "commit"
      BY <1>1 DEF zbx_db_commit
    <2> QED
      BY <1>1, <2>1, LossRollback
  <1>2. CASE txn_error = 0
    <2>1. PICK rc \in {"OK", "FAIL", "DOWN"} :
            Query("commit", 0, rc) /\ txn_error' = ErrorAfter(txn_level, 0, rc) /\ Ended(rc)
      BY <1>2 DEF zbx_db_commit
    <2>2. cur \in AllTxns /\ pc = "commit" /\ stmt = Stmts + 1 /\ UNCHANGED undone /\ TypeOK
      BY <1>2 DEF zbx_db_commit, LossInv, LevelInv, Position
    <2>3. failed \subseteq failed' /\ \A t \in AllTxns : t # cur => db'[t] = db[t]
      BY <2>1, <2>2, QueryTouches
    <2>4. cur \notin failed =>
            \/ work = 1 .. (stmt - 1) /\ NothingOf(cur)
            \/ work = {} /\ LastOnes(db[cur], stmt)
      <3>1. txn_error # 1 /\ pc \in {"exec", "commit"}
        BY <1>2, <2>2
      <3> QED
        BY <3>1 DEF LossInv, UnderWay
    <2>5. ASSUME ServerCommit, cur \notin failed
          PROVE  LastOnes(db'[cur], Stmts + 1)
      <3>1. \A k \in AllStmts : /\ db'[cur][k] = db[cur][k] + IF k \in work THEN 1 ELSE 0
                                /\ db[cur][k] \in Nat
        BY <2>2, <2>5 DEF ServerCommit, TypeOK
      <3>2. CASE work = 1 .. (stmt - 1)
        <4>1. \A k \in AllStmts : k \in work
          BY <3>2, <2>2, TxnAssumption DEF AllStmts
        <4>2. \A k \in AllStmts : db'[cur][k] > 0
          BY <4>1, <3>1
        <4> QED
          BY <4>2 DEF LastOnes
      <3>3. CASE work = {} /\ LastOnes(db[cur], stmt)
        <4>1. \A k \in AllStmts : db'[cur][k] = db[cur][k]
          BY <3>1, <3>3
        <4> QED
          BY <4>1, <3>3, <2>2 DEF LastOnes
      <3> QED
        BY <3>2, <3>3, <2>4, <2>5
    <2>6. CASE rc = "OK"
      <3>1. ServerCommit /\ failed' = failed /\ pc' = "idle" /\ cur' = cur + 1
        BY <2>1, <2>6 DEF Query, ServerDo, Ended
      <3> QED
        BY <3>1, <2>2, <2>3, <2>5, LossOver
    <2>7. CASE rc = "FAIL"
      <3>1. cur \in failed' /\ pc' = "idle" /\ cur' = cur + 1
        BY <2>1, <2>7 DEF Query, Ended
      <3> QED
        BY <3>1, <2>2, <2>3, LossOver
    <2>8. CASE rc = "DOWN"
      <3>1. /\ UNCHANGED <<pc, cur, stmt, failed>> /\ txn_error' = 0
            /\ ServerRollback \/ ServerCommit
        BY <2>1, <2>8 DEF Query, Ended, ErrorAfter, ServerLost, ServerDo
      <3>2. Untouched' /\ LossTakesBeginning'
        BY <3>1, <2>2, <2>3, LossOthers
      <3>3. ~intxn' /\ work' = {}
        BY <3>1 DEF ServerRollback, ServerCommit
      <3>4. cur \notin failed => LastOnes(db'[cur], Stmts + 1)
        <4>1. CASE ServerRollback
          BY <4>1, <2>2, <2>4, NothingLast DEF ServerRollback
        <4>2. CASE ServerCommit
          BY <4>2, <2>5
        <4> QED
          BY <4>1, <4>2, <3>1
      <3>5. UnderWay'
        BY <3>1, <3>3, <3>4, <2>2 DEF UnderWay
      <3> QED
        BY <3>2, <3>5
    <2> QED
      BY <2>6, <2>7, <2>8
  <1> QED
    BY <1>1, <1>2 DEF LossInv, LevelInv, TypeOK

LEMMA LossNext == LossInv /\ [Next]_vars => LossInv'
  <1> SUFFICES ASSUME LossInv, [Next]_vars PROVE LossInv'
    OBVIOUS
  <1>1. LevelInv'
    BY LevelNext DEF LossInv
  <1>2. CASE zbx_db_begin
    BY <1>1, <1>2, LossBegin DEF LossInv
  <1>3. CASE DBexecute
    BY <1>1, <1>3, LossExecute DEF LossInv
  <1>4. CASE zbx_db_commit
    BY <1>1, <1>4, LossCommit DEF LossInv
  <1>5. CASE zbx_db_rollback
    BY <1>1, <1>5, LossRollback DEF LossInv, zbx_db_rollback
  <1>6. CASE DBbegin
    <2>1. pc = "idle" /\ pc' = "begin" /\ UNCHANGED <<cur, db, failed, undone>>
      BY <1>6 DEF DBbegin, server
    <2> QED
      BY <1>1, <2>1 DEF LossInv, Untouched, UnderWay, LossTakesBeginning, Effective, Done, NothingOf
  <1>7. CASE DBend
    <2>1. /\ pc = "exec" /\ cur \in AllTxns
          /\ UNCHANGED <<txn_error, cur, stmt, db, intxn, work, failed>>
          /\ \/ pc' = "commit" /\ undone' = undone
             \/ pc' = "rollback" /\ undone' = undone \cup {cur}
      BY <1>7 DEF DBend, server, LossInv, LevelInv, Position
    <2>2. Untouched' /\ LossTakesBeginning'
      BY <2>1, LossOthers
    <2>3. UnderWay'
      BY <2>1 DEF LossInv, UnderWay, NothingOf
    <2> QED
      BY <1>1, <2>2, <2>3 DEF LossInv
  <1>8. CASE DBconnect \/ Finished \/ UNCHANGED vars
    <2>1. UNCHANGED <<pc, txn_error, cur, stmt, db, intxn, work, failed, undone>>
      BY <1>8 DEF DBconnect, Finished, vars, client, server
    <2> QED
      BY <1>1, <2>1 DEF LossInv, Untouched, UnderWay, LossTakesBeginning, Effective, Done, NothingOf
  <1> QED
    BY <1>2, <1>3, <1>4, <1>5, <1>6, <1>7, <1>8 DEF Next

\* Of a transaction that was neither refused nor rolled back the statements that took
\* effect are the last ones, wherever the connection was lost and whatever commits the
\* server refused before: what is lost is the beginning, never the middle or the end.
THEOREM LossIsBeginning == Spec => []LossTakesBeginning
  <1>1. LossInv => LossTakesBeginning
    BY DEF LossInv
  <1> QED
    BY LossInit, LossNext, <1>1, PTL DEF Spec
================================================================================
