------------------------------ MODULE ConfigSync -----------------------------
(***************************************************************************)
(* DCsync_configuration (zbxdbcache/dbconfig.c): how a new reading of the  *)
(* database changes items, their index by host and key, triggers, trigger  *)
(* dependencies, functions and the pointers between them.                  *)
(*                                                                         *)
(* The tables are read one after the other, without a transaction, while   *)
(* users edit them, so every result is taken as an arbitrary one: nothing  *)
(* relates it to the others.  They are applied under one lock, table after *)
(* table, the items row by row, in any order.  A key stands for host and   *)
(* key.                                                                    *)
(***************************************************************************)

CONSTANTS
    CSItems, CSKeys, CSTriggers, CSFunctions,
    CSTimeFunctions,    \* functions such as date() and now(), SUCCEED of is_time_function
    NoKey, CSNoItem, NullPtr

ASSUME ConfigSyncAssumption ==
    /\ NoKey \notin CSKeys /\ CSNoItem \notin CSItems /\ NullPtr \notin CSTriggers
    /\ CSTimeFunctions \subseteq CSFunctions

VARIABLES
    csStep,     \* "released", or the table that is applied
    csKey,      \* config->items: the key of each item, NoKey when it is not there
    csHk,       \* config->items_hk: the item a key leads to, CSNoItem when there is none
    csLinks,    \* item->triggers: a set of triggers, {} for NULL and for an array without any
    csNew,      \* the rows of the items that are applied, NoKey where there is no row
    csLeft,     \* items whose row the loop has still to fetch
    csTrig,     \* config->triggers
    csDep,      \* config->trigdeps: [trigger, deps] or <<>>; trigger may be NullPtr
    csFun,      \* config->functions: [item, trigger] or <<>>
    csTimers,   \* config->time_triggers
    csRows,     \* ghost: rows of the functions that were applied last
    csNull      \* ghost: a pointer that is NULL was followed

csVars == <<csStep, csKey, csHk, csLinks, csNew, csLeft, csTrig, csDep, csFun, csTimers, csRows, csNull>>

CSInit ==
    /\ csStep = "released" /\ csNull = FALSE
    /\ csKey = [i \in CSItems |-> NoKey] /\ csHk = [k \in CSKeys |-> CSNoItem]
    /\ csNew = csKey /\ csLeft = {}
    /\ csLinks = [i \in CSItems |-> {}] /\ csTrig = {}
    /\ csDep = [t \in CSTriggers |-> <<>>] /\ csFun = [f \in CSFunctions |-> <<>>]
    /\ csTimers = {} /\ csRows = [f \in CSFunctions |-> <<>>]

-----------------------------------------------------------------------------
(* Items and their index *)

\* The result of the query, before the lock is taken.
ItemsRead(rows) ==
    /\ csStep = "released" /\ csStep' = "items"
    /\ csNew' = rows /\ csLeft' = {i \in CSItems : rows[i] # NoKey}
    /\ csRows' = [f \in CSFunctions |-> <<>>]
    /\ UNCHANGED <<csKey, csHk, csLinks, csTrig, csDep, csFun, csTimers, csNull>>

\* Mutant: the entry of the old key is removed, whoever has taken it by now
OldEntryAny(hk, i, key) == [hk EXCEPT ![key] = CSNoItem]

\* The entry of the old key goes, unless another item has already taken the key.
OldEntry(hk, i, key) == IF hk[key] = i THEN [hk EXCEPT ![key] = CSNoItem] ELSE hk

\* Mutant: an item that stays keeps its triggers until functions give it others
UnlinkedNew(i) == IF csKey[i] = NoKey \/ csNew[i] = NoKey THEN {} ELSE csLinks[i]

\* triggers[0] becomes NULL, or there is no array any more.
Unlinked(i) == {}

\* The loop fetches the row of item i.
ItemRow(i) ==
    LET old == csKey[i]
        hk == IF old = NoKey THEN csHk ELSE OldEntry(csHk, i, old)
    IN  /\ csStep = "items" /\ i \in csLeft /\ csLeft' = csLeft \ {i}
        /\ csHk' = IF old = csNew[i] THEN csHk ELSE [hk EXCEPT ![csNew[i]] = i]
        /\ csNull' = (csNull \/ (old \notin {NoKey, csNew[i]} /\ csHk[old] = CSNoItem))
        /\ csKey' = [csKey EXCEPT ![i] = csNew[i]]
        /\ csLinks' = [csLinks EXCEPT ![i] = Unlinked(i)]
        /\ UNCHANGED <<csStep, csNew, csTrig, csDep, csFun, csTimers, csRows>>

Gone == {i \in CSItems : csKey[i] # NoKey /\ csNew[i] = NoKey}

\* The second loop meets item i, which had no row.
ItemGone(i) ==
    /\ csStep = "items" /\ csLeft = {} /\ i \in Gone
    /\ csHk' = OldEntry(csHk, i, csKey[i])
    /\ csNull' = (csNull \/ csHk[csKey[i]] = CSNoItem)
    /\ csKey' = [csKey EXCEPT ![i] = NoKey]
    /\ csLinks' = [csLinks EXCEPT ![i] = Unlinked(i)]
    /\ UNCHANGED <<csStep, csNew, csLeft, csTrig, csDep, csFun, csTimers, csRows>>

ItemsDone ==
    /\ csStep = "items" /\ csLeft = {} /\ Gone = {} /\ csStep' = "triggers"
    /\ UNCHANGED <<csKey, csHk, csLinks, csNew, csLeft, csTrig, csDep, csFun, csTimers, csRows, csNull>>

-----------------------------------------------------------------------------
(* Triggers, dependencies, functions *)

DCsync_triggers(rows) ==
    /\ csStep = "triggers" /\ csStep' = "trigdeps"
    /\ csTrig' = rows
    /\ UNCHANGED <<csKey, csHk, csLinks, csNew, csLeft, csDep, csFun, csTimers, csRows, csNull>>

Pointer(t) == IF t \in csTrig THEN t ELSE NullPtr

\* A trigger that others depend on and that depends on none
UpOnly(t) == [trigger |-> Pointer(t), deps |-> {}]

\* rows: pairs <<triggerid_down, triggerid_up>>
DCsync_trigdeps(rows) ==
    LET downs == {r[1] : r \in rows}
        ups == {r[2] : r \in rows}
    IN  /\ csStep = "trigdeps" /\ csStep' = "functions"
        /\ csDep' = [t \in CSTriggers |->
              CASE t \in downs -> [trigger |-> Pointer(t), deps |-> {u \in CSTriggers : <<t, u>> \in rows}]
                [] t \in ups \ downs -> UpOnly(t)
                [] OTHER -> <<>>]
        /\ UNCHANGED <<csKey, csHk, csLinks, csNew, csLeft, csTrig, csFun, csTimers, csRows, csNull>>

\* A function is left out when its item or its trigger was not among the rows of the
\* queries before.
Usable(row) == csKey[row.item] # NoKey /\ row.trigger \in csTrig

\* rows: [item, trigger], or <<>> where there is no such function
DCsync_functions(rows) ==
    LET used == {f \in CSFunctions : rows[f] # <<>> /\ Usable(rows[f])}
        linked == {rows[f].item : f \in used}
    IN  /\ csStep = "functions" /\ csStep' = "released"
        /\ csFun' = [f \in CSFunctions |->
              IF f \in used THEN [item |-> rows[f].item, trigger |-> rows[f].trigger] ELSE <<>>]
        /\ csTimers' = {rows[f].trigger : f \in used \cap CSTimeFunctions}
        /\ csLinks' = [i \in CSItems |->
              IF i \in linked THEN {rows[f].trigger : f \in {g \in used : rows[g].item = i}} ELSE csLinks[i]]
        /\ csRows' = rows
        /\ UNCHANGED <<csKey, csHk, csNew, csLeft, csTrig, csDep, csNull>>

ItemRows == {rows \in [CSItems -> CSKeys \cup {NoKey}] :
                \A i, j \in CSItems : rows[i] = rows[j] /\ rows[i] # NoKey => i = j}
FunctionRows == [CSFunctions -> {<<>>} \cup [item : CSItems, trigger : CSTriggers]]
DepRows == {rows \in SUBSET (CSTriggers \X CSTriggers) : \A r \in rows : r[1] # r[2]}

CSNext ==
    \/ \E rows \in ItemRows : ItemsRead(rows)
    \/ \E i \in CSItems : ItemRow(i) \/ ItemGone(i)
    \/ ItemsDone
    \/ \E rows \in SUBSET CSTriggers : DCsync_triggers(rows)
    \/ \E rows \in DepRows : DCsync_trigdeps(rows)
    \/ \E rows \in FunctionRows : DCsync_functions(rows)

CSSpec == CSInit /\ [][CSNext]_csVars

-----------------------------------------------------------------------------
(* Properties *)

\* Whatever keys items exchange between two readings, and in whatever order the rows
\* come, the index leads from every key to the item that has it and to no other, and
\* no entry that the code expects is missing (it follows item_hk without a check).
HkExact ==
    /\ csStep # "items" => csHk = [k \in CSKeys |->
          IF \E i \in CSItems : csKey[i] = k THEN CHOOSE i \in CSItems : csKey[i] = k ELSE CSNoItem]
    /\ ~csNull

\* When the lock is released no pointer leads to a trigger or item that is gone,
\* although the tables were read at different times, and an item has the triggers
\* of exactly those functions whose two ends are known.
LinksExact ==
    csStep = "released" =>
        /\ \A i \in CSItems : csLinks[i] # {} => csKey[i] # NoKey /\ csLinks[i] \subseteq csTrig
        /\ \A t \in CSTriggers : csDep[t] # <<>> =>
              /\ csDep[t].trigger \in csTrig \cup {NullPtr}
              /\ \A u \in csDep[t].deps : csDep[u] # <<>>
        /\ csTimers \subseteq csTrig
        /\ \A f \in CSFunctions : csFun[f] # <<>> =>
              csKey[csFun[f].item] # NoKey /\ csFun[f].trigger \in csLinks[csFun[f].item]
        /\ \A i \in CSItems, t \in CSTriggers :
              t \in csLinks[i] <=>
                 /\ csKey[i] # NoKey /\ t \in csTrig
                 /\ \E f \in CSFunctions : csRows[f] # <<>> /\ csRows[f].item = i /\ csRows[f].trigger = t
=============================================================================
