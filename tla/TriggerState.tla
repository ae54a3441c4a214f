----------------------------- MODULE TriggerState -----------------------------
(***************************************************************************)
(* Trigger values and the events they raise.  History syncers (twice in a  *)
(* transaction: DCmass_update_triggers, DCflush_nextchecks) and timers     *)
(* copy triggers from the configuration cache, evaluate them and call      *)
(* process_triggers, which writes the new value into the cache, adds       *)
(* events to the process's array and executes the UPDATEs; process_events  *)
(* and the commit follow.  No lock is held from the copy to the update.    *)
(* The configuration syncer overwrites the cache with what it selected     *)
(* from the database.                                                      *)
(***************************************************************************)
EXTENDS Integers, Sequences, FiniteSets, SequencesExt

CONSTANTS
  Triggers,    \* trigger ids
  Depends,     \* pairs: the first trigger depends on the second
  Multiple,    \* triggers of TRIGGER_TYPE_MULTIPLE_TRUE
  Errors,      \* error messages of an evaluation that fails
  Procs,       \* processes that call process_triggers
  NoProc,
  Passes,      \* calls of process_triggers in a transaction
  FirstChange, \* lastchange of the triggers in the beginning: 0 never changed
  MaxTxns,     \* bound of the model: number of transactions
  TxnFails,    \* TRUE: a transaction may be rolled back
  ConfigSync   \* TRUE: the configuration syncer runs

ASSUME TriggerAssumption ==
  /\ Triggers \subseteq Nat \ {0} /\ IsFiniteSet(Triggers) /\ Depends \subseteq Triggers \X Triggers
  /\ Multiple \subseteq Triggers /\ "" \notin Errors /\ NoProc \notin Procs
  /\ Passes \in Nat \ {0} /\ FirstChange \in {0, 1} /\ MaxTxns \in Nat
  /\ TxnFails \in BOOLEAN /\ ConfigSync \in BOOLEAN

VARIABLES
  trig,     \* config->triggers: value, state, error and lastchange
  pc,       \* what each process does
  order,    \* trigger_order of each process: copies not processed yet
  sql,      \* the UPDATEs collected by its process_triggers
  txn,      \* the rows its transaction has written
  events,   \* its events array
  pass,     \* its number of calls of process_triggers in the transaction
  failed,   \* its transaction has had a refused statement (txn_error)
  row,      \* the table triggers
  rowlock,  \* the transaction that holds the row of a trigger
  log,      \* the table events (those of triggers), in the order of commits
  selected, \* the rows the configuration syncer has selected
  txns      \* number of transactions started

local == <<pc, order, sql, txn, events, pass, failed>>
vars == <<trig, local, row, rowlock, log, selected, txns>>

Values == {"OK", "PROBLEM"}
States == {"NORMAL", "UNKNOWN"}

Nothing == [t \in {} |-> ""]

Init ==
  /\ trig = [t \in Triggers |->
       [value |-> "OK", state |-> "NORMAL", error |-> "", lastchange |-> FirstChange]]
  /\ pc = [p \in Procs |-> "idle"]
  /\ order = [p \in Procs |-> <<>>] /\ sql = [p \in Procs |-> <<>>]
  /\ txn = [p \in Procs |-> Nothing] /\ events = [p \in Procs |-> <<>>]
  /\ pass = [p \in Procs |-> 0] /\ failed = [p \in Procs |-> FALSE]
  /\ row = trig
  /\ rowlock = [t \in Triggers |-> NoProc]
  /\ log = <<>>
  /\ selected = {}
  /\ txns = 0
--------------------------------------------------------------------------------
(***************************************************************************)
(* The decisions of process_trigger.  c is a copy of a trigger with the    *)
(* result of its evaluation in new_value and new_error.                    *)
(***************************************************************************)

new_state(c) == IF c.new_value = "UNKNOWN" THEN "UNKNOWN" ELSE "NORMAL"
new_value(c) == IF c.new_value = "UNKNOWN" THEN c.value ELSE c.new_value

\* Mutant of value_changed: a trigger that leaves UNKNOWN has changed its value.
value_changedState(c) ==
  c.value # new_value(c) \/ (c.state = "UNKNOWN" /\ new_state(c) = "NORMAL")

value_changed(c) ==
  c.value # new_value(c) \/ (c.lastchange = 0 /\ new_state(c) # "UNKNOWN")

state_changed(c) == c.state # new_state(c)

multiple_problem(c) ==
  c.id \in Multiple /\ new_value(c) = "PROBLEM" /\ new_state(c) = "NORMAL"

error_changed(c) == c.error # c.new_error

Changed(c) == value_changed(c) \/ state_changed(c) \/ multiple_problem(c) \/ error_changed(c)

\* An event with source EVENT_SOURCE_TRIGGERS is generated.
Event(c) == value_changed(c) \/ multiple_problem(c)

\* DCconfig_set_trigger_value
Cached(old, c) ==
  [value |-> new_value(c), state |-> new_state(c), error |-> c.new_error,
   lastchange |-> IF Event(c) THEN 1 ELSE old.lastchange]

\* Mutant of Assign: only a changed state is written.
AssignState(r, c) == [r EXCEPT !.state = IF state_changed(c) THEN new_state(c) ELSE @]

\* The columns the UPDATE sets.
Assign(r, c) ==
  [value |-> IF value_changed(c) THEN new_value(c) ELSE r.value,
   state |-> IF state_changed(c) THEN new_state(c) ELSE r.state,
   error |-> IF error_changed(c) THEN c.new_error ELSE r.error,
   lastchange |-> IF Event(c) THEN 1 ELSE r.lastchange]

\* DCconfig_check_trigger_dependencies_rec: the triggers that t depends on, at
\* any distance.
Above(t) ==
  LET up[n \in 0 .. Cardinality(Triggers)] ==
        IF n = 0 THEN {t}
        ELSE up[n - 1] \cup {d[2] : d \in {e \in Depends : e[1] \in up[n - 1]}}
  IN {d[2] : d \in {e \in Depends : e[1] \in up[Cardinality(Triggers)]}}

DCconfig_check_trigger_dependencies(t) ==
  \A u \in Above(t) : ~(trig[u].value = "PROBLEM" /\ trig[u].state = "NORMAL")
--------------------------------------------------------------------------------
Results == {<<"OK", "">>, <<"PROBLEM", "">>} \cup {<<"UNKNOWN", e>> : e \in Errors}

\* Mutant of Sorted: the problems first.
SortedByValue(ts) ==
  {s \in SetToSeqs(ts) : \A m, n \in DOMAIN s : m < n =>
     \/ trig[s[m]].value = "PROBLEM" /\ trig[s[n]].value = "OK"
     \/ trig[s[m]].value = trig[s[n]].value /\ s[m] < s[n]}

\* zbx_vector_ptr_sort(trigger_order)
Sorted(ts) == {s \in SetToSeqs(ts) : \A m, n \in DOMAIN s : m < n => s[m] < s[n]}

\* DCconfig_get_triggers_by_itemids or DCconfig_get_time_based_triggers (under
\* LOCK_CACHE), and evaluate_expressions.
GetTriggers(p) ==
  /\ \/ pc[p] = "idle" /\ txns < MaxTxns /\ txns' = txns + 1
     \/ pc[p] = "open" /\ pass[p] < Passes /\ UNCHANGED txns
  /\ \E ts \in SUBSET Triggers \ {{}} : \E s \in Sorted(ts), res \in [ts -> Results] :
       order' = [order EXCEPT ![p] = [n \in DOMAIN s |->
         [id |-> s[n], value |-> trig[s[n]].value, state |-> trig[s[n]].state,
          error |-> trig[s[n]].error, lastchange |-> trig[s[n]].lastchange,
          new_value |-> res[s[n]][1], new_error |-> res[s[n]][2]]]]
  /\ pass' = [pass EXCEPT ![p] = @ + 1]
  /\ pc' = [pc EXCEPT ![p] = "check"]
  /\ UNCHANGED <<trig, sql, txn, events, failed, row, rowlock, log, selected>>

\* process_trigger up to the test of the dependencies.
CheckTrigger(p) ==
  /\ pc[p] = "check" /\ order[p] # <<>>
  /\ LET c == Head(order[p]) IN
     IF Changed(c) /\ DCconfig_check_trigger_dependencies(c.id)
     THEN pc' = [pc EXCEPT ![p] = "set"] /\ UNCHANGED order
     ELSE order' = [order EXCEPT ![p] = Tail(@)] /\ UNCHANGED pc
  /\ UNCHANGED <<trig, sql, txn, events, pass, failed, row, rowlock, log, selected, txns>>

\* The rest of process_trigger.
SetTrigger(p) ==
  /\ pc[p] = "set"
  /\ LET c == Head(order[p]) IN
     /\ trig' = [trig EXCEPT ![c.id] = Cached(@, c)]
     /\ events' = [events EXCEPT ![p] =
          IF Event(c) THEN Append(@, [id |-> c.id, value |-> new_value(c)]) ELSE @]
     /\ sql' = [sql EXCEPT ![p] = Append(@, c)]
     /\ order' = [order EXCEPT ![p] = Tail(@)]
  /\ pc' = [pc EXCEPT ![p] = "check"]
  /\ UNCHANGED <<txn, pass, failed, row, rowlock, log, selected, txns>>

Release(p) == [t \in Triggers |-> IF rowlock[t] = p THEN NoProc ELSE rowlock[t]]

\* The row of a trigger as the transaction of p sees it.
Seen(p, t) == IF t \in DOMAIN txn[p] THEN txn[p][t] ELSE row[t]

\* DBexecute of the UPDATEs, one row after the other: the database makes a
\* transaction wait for a row that another one has written.
Execute(p) ==
  /\ pc[p] = "check" /\ order[p] = <<>> /\ sql[p] # <<>> /\ ~failed[p]
  /\ rowlock[Head(sql[p]).id] \in {NoProc, p}
  /\ LET c == Head(sql[p]) IN
     /\ rowlock' = [rowlock EXCEPT ![c.id] = p]
     /\ txn' = [txn EXCEPT ![p] =
          [t \in DOMAIN @ \cup {c.id} |-> IF t = c.id THEN Assign(Seen(p, t), c) ELSE @[t]]]
  /\ sql' = [sql EXCEPT ![p] = Tail(@)]
  /\ UNCHANGED <<trig, pc, order, events, pass, failed, row, log, selected, txns>>

\* The database refuses the statement, at once or to end a deadlock; after that
\* nothing more is sent in this transaction.
Refused(p) ==
  /\ pc[p] = "check" /\ order[p] = <<>> /\ sql[p] # <<>>
  /\ failed[p] \/ TxnFails
  /\ failed' = [failed EXCEPT ![p] = TRUE]
  /\ rowlock' = Release(p)
  /\ sql' = [sql EXCEPT ![p] = <<>>] /\ txn' = [txn EXCEPT ![p] = Nothing]
  /\ UNCHANGED <<trig, pc, order, events, pass, row, log, selected, txns>>

\* process_triggers returns.
Executed(p) ==
  /\ pc[p] = "check" /\ order[p] = <<>> /\ sql[p] = <<>>
  /\ pc' = [pc EXCEPT ![p] = "open"]
  /\ UNCHANGED <<trig, order, sql, txn, events, pass, failed, row, rowlock, log, selected, txns>>

\* Mutant of Commit: the events are written outside the transaction.
CommitEventsAlways(p) ==
  /\ pc[p] = "open"
  /\ \/ /\ ~failed[p]
        /\ row' = [t \in Triggers |-> Seen(p, t)]
     \/ /\ failed[p] \/ TxnFails
        /\ UNCHANGED row
  /\ log' = log \o events[p]
  /\ rowlock' = Release(p)
  /\ txn' = [txn EXCEPT ![p] = Nothing] /\ events' = [events EXCEPT ![p] = <<>>]
  /\ pass' = [pass EXCEPT ![p] = 0] /\ failed' = [failed EXCEPT ![p] = FALSE]
  /\ pc' = [pc EXCEPT ![p] = "idle"]
  /\ UNCHANGED <<trig, order, sql, selected, txns>>

\* process_events and DBcommit; a transaction with a refused statement is rolled
\* back, the cache is left as it is.
Commit(p) ==
  /\ pc[p] = "open"
  /\ \/ /\ ~failed[p]
        /\ row' = [t \in Triggers |-> Seen(p, t)]
        /\ log' = log \o events[p]
     \/ /\ failed[p] \/ TxnFails
        /\ UNCHANGED <<row, log>>
  /\ rowlock' = Release(p)
  /\ txn' = [txn EXCEPT ![p] = Nothing] /\ events' = [events EXCEPT ![p] = <<>>]
  /\ pass' = [pass EXCEPT ![p] = 0] /\ failed' = [failed EXCEPT ![p] = FALSE]
  /\ pc' = [pc EXCEPT ![p] = "idle"]
  /\ UNCHANGED <<trig, order, sql, selected, txns>>

\* DCsync_configuration: the SELECT is executed before LOCK_CACHE ...
SyncSelect ==
  /\ ConfigSync /\ selected = {}
  /\ selected' = {row}
  /\ UNCHANGED <<trig, local, row, rowlock, log, txns>>

\* Mutant of Refresh: triggers that are in the cache already are not touched.
RefreshNew(old, new) == old

Refresh(old, new) == new

\* ... and DCsync_triggers under it.
DCsync_triggers ==
  /\ selected # {}
  /\ \E r \in selected : trig' = [t \in Triggers |-> Refresh(trig[t], r[t])]
  /\ selected' = {}
  /\ UNCHANGED <<local, row, rowlock, log, txns>>

Step(p) ==
  \/ GetTriggers(p) \/ CheckTrigger(p) \/ SetTrigger(p)
  \/ Execute(p) \/ Refused(p) \/ Executed(p) \/ Commit(p)

\* Between two transactions: nothing to do any more.
Idle == txns = MaxTxns /\ (\A p \in Procs : pc[p] = "idle") /\ UNCHANGED vars

Next == (\E p \in Procs : Step(p)) \/ SyncSelect \/ DCsync_triggers \/ Idle

Spec == Init /\ [][Next]_vars

\* A step in which the database refuses nothing new.
Willing(p) == Step(p) /\ (failed'[p] => failed[p])

\* Every process runs (a row is given to the longest waiting transaction), and
\* the configuration syncer comes round every CacheUpdateFrequency seconds. The
\* database may refuse a statement and never has to.
FairSpec ==
  /\ Spec
  /\ \A p \in Procs : SF_vars(Execute(p)) /\ WF_vars(Willing(p))
  /\ WF_vars(SyncSelect \/ DCsync_triggers)
--------------------------------------------------------------------------------
(***************************************************************************)
(* Properties.                                                             *)
(***************************************************************************)

Stored == [value : Values, state : States, error : Errors \cup {""}, lastchange : {0, 1}]

\* The variables have their types; a cached trigger has an error message exactly
\* while it is UNKNOWN.
TypeOK ==
  /\ trig \in [Triggers -> Stored] /\ row \in [Triggers -> Stored]
  /\ pc \in [Procs -> {"idle", "check", "set", "open"}]
  /\ rowlock \in [Triggers -> Procs \cup {NoProc}]
  /\ pass \in [Procs -> 0 .. Passes]
  /\ \A t \in Triggers : trig[t].error # "" <=> trig[t].state = "UNKNOWN"

\* The table in the comment of process_trigger: what is updated and whether an
\* event is generated when a trigger goes from value(state) to value(state).
Table(c) ==
  LET From == <<c.value, c.state>>  To == <<new_value(c), new_state(c)>>
      m == c.id \in Multiple        e == c.error # c.new_error
  IN CASE To = <<"OK", "NORMAL">> ->
            [T |-> From # <<"OK", "NORMAL">>, E |-> c.value = "PROBLEM"]
       [] To = <<"PROBLEM", "NORMAL">> ->
            [T |-> From # <<"PROBLEM", "NORMAL">> \/ m, E |-> c.value = "OK" \/ m]
       [] To[2] = "UNKNOWN" ->
            [T |-> c.state = "NORMAL" \/ e, E |-> FALSE]

Agrees(c) == Table(c) = [T |-> Changed(c), E |-> Event(c)]

\* process_trigger follows its table for every trigger that has changed before,
\* whatever copy it works on.
FollowsTable ==
  \A p \in Procs : \A n \in DOMAIN order[p] : order[p][n].lastchange # 0 => Agrees(order[p][n])

\* The event at n is of trigger t, and the trigger has none after it up to m.
LastOf(t, n, m) == log[n].id = t /\ \A k \in n + 1 .. m : log[k].id # t

\* In the database the value of a trigger is that of its last event, whatever
\* stale copies the processes work on and whichever transactions are rolled
\* back. (Not for `multiple' triggers: a PROBLEM event raised on a stale copy
\* comes without an update of the value.)
RowFollowsEvents ==
  \A t \in Triggers \ Multiple :
    /\ \A n \in DOMAIN log : LastOf(t, n, Len(log)) => row[t].value = log[n].value
    /\ (\A n \in DOMAIN log : log[n].id # t) => row[t].value = "OK"

\* A trigger that is not `multiple' has no two events with the same value in a
\* row: PROBLEM to PROBLEM has E(m) in the table, OK to OK has none.
EventsAlternate ==
  \A t \in Triggers \ Multiple : \A m \in DOMAIN log : log[m].id = t =>
    \A n \in 1 .. m - 1 : LastOf(t, n, m - 1) => log[n].value # log[m].value

\* The decisions of process_trigger add up: each follows the table, and together
\* they raise an event for every change of a trigger and for nothing else.
DecisionsSound == FollowsTable /\ EventsAlternate

\* While nobody is in a transaction the cache agrees with the database: what
\* DCconfig_set_trigger_value noted before the UPDATE is what the UPDATE wrote.
CacheAgrees == TypeOK /\ ((\A p \in Procs : pc[p] = "idle") => trig = row)

\* Transactions end: no two of them wait for each other's rows, because the
\* triggers are processed in the order of their ids.
TxnsEnd == \A p \in Procs : pc[p] # "idle" ~> pc[p] = "idle"

\* When the triggers come to rest the cache agrees with the database in the end,
\* also after a rollback or a race: the configuration syncer repairs it.
CacheRepaired == <>[](trig = row)
================================================================================
