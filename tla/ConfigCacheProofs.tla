-------------------------- MODULE ConfigCacheProofs --------------------------
(***************************************************************************)
(* Proofs about two parts of the configuration cache: what a sync leaves    *)
(* behind (ConfigSync) and the poller queues (PollerQueue), for any items,  *)
(* keys, triggers, functions, pollers, intervals and any length of a run.   *)
(*                                                                          *)
(* ConfigSync.  The items are what needs an argument: while their rows are  *)
(* applied the index is neither the old one nor the new one.  ItemsIInv     *)
(* says what it is.  The other tables are replaced in one step each, in the *)
(* order items, triggers, dependencies, functions, and PointersIInv says    *)
(* what each step leaves to the next one.                                   *)
(*                                                                          *)
(* PollerQueue.  Filed, that the queues hold just the items whose location  *)
(* and type say so, is inductive together with the types, whatever the      *)
(* syncer, the pollers and the history syncers do in between.  The other    *)
(* conjuncts of IInv say under which conditions more holds: while nothing   *)
(* is deleted and no history syncer has requeued an item, an item in the    *)
(* hands of a poller is taken (HeldInv); while the host, too, stays with    *)
(* the server, the queues are in order (SortedInv).                          *)
(***************************************************************************)
EXTENDS ConfigSync, PollerQueue, BinaryHeapProofs

(***************************************************************************)
(* The configuration sync                                                   *)
(***************************************************************************)

\* An item of the current reading whose row the loop has applied.
Settled(i) == i \notin csLeft /\ csNew[i] # NoKey

CSTypeOK ==
    /\ csStep \in {"released", "items", "triggers", "trigdeps", "functions"}
    /\ csKey \in [CSItems -> CSKeys \cup {NoKey}]
    /\ csHk \in [CSKeys -> CSItems \cup {CSNoItem}]
    /\ csLinks \in [CSItems -> SUBSET CSTriggers]
    /\ csNew \in [CSItems -> CSKeys \cup {NoKey}]
    /\ csLeft \in SUBSET CSItems
    /\ csTrig \in SUBSET CSTriggers
    /\ csTimers \in SUBSET CSTriggers
    /\ DOMAIN csDep = CSTriggers
    /\ DOMAIN csFun = CSFunctions
    /\ DOMAIN csRows = CSFunctions

\* An entry leads to an item that has the key, and a key that some item has has an entry.
HkSound ==
    \A k \in CSKeys :
        IF csHk[k] = CSNoItem THEN \A i \in CSItems : csKey[i] # k ELSE csKey[csHk[k]] = k

\* Two items share a key only while rows are applied, and then the one whose row was
\* applied has the entry.
HkOwned ==
    IF csStep = "items"
    THEN /\ \A i \in CSItems : Settled(i) => csKey[i] = csNew[i] /\ csHk[csKey[i]] = i
         /\ \A i, j \in CSItems :
                ~Settled(i) /\ ~Settled(j) /\ csKey[i] = csKey[j] /\ csKey[i] # NoKey => i = j
         /\ csLeft \subseteq {i \in CSItems : csNew[i] # NoKey}
    ELSE \A i, j \in CSItems : csKey[i] = csKey[j] /\ csKey[i] # NoKey => i = j

\* The rows of one reading have different keys: there is a unique index on host and key.
RowsDiffer == \A i, j \in CSItems : csNew[i] = csNew[j] /\ csNew[i] # NoKey => i = j

ItemsIInv == CSTypeOK /\ HkSound /\ HkOwned /\ RowsDiffer /\ ~csNull

\* The pointers of a dependency
DepsExact ==
    \A t \in CSTriggers : csDep[t] # <<>> =>
        /\ csDep[t].trigger \in csTrig \cup {NullPtr}
        /\ \A u \in csDep[t].deps : csDep[u] # <<>>

\* What the tables that were applied so far have left to the next one
PointersIInv ==
    /\ \A i \in CSItems : csKey[i] = NoKey => csLinks[i] = {}
    /\ csStep = "items" => \A i \in CSItems : Settled(i) => csLinks[i] = {}
    /\ csStep \in {"triggers", "trigdeps", "functions"} => \A i \in CSItems : csLinks[i] = {}
    /\ csStep = "functions" => DepsExact
    /\ LinksExact

-----------------------------------------------------------------------------
(* Items *)

\* Nothing is there at first (init_configuration_cache).
LEMMA ItemsInit == CSInit => ItemsIInv
<1> SUFFICES ASSUME CSInit PROVE ItemsIInv
  OBVIOUS
<1>1. CSTypeOK /\ HkSound
  BY ConfigSyncAssumption DEF CSInit, CSTypeOK, HkSound
<1>2. HkOwned /\ RowsDiffer
  BY DEF CSInit, HkOwned, RowsDiffer
<1>3. ~csNull
  BY DEF CSInit
<1> QED
  BY <1>1, <1>2, <1>3 DEF ItemsIInv

\* A query gives rows with different keys; no row of it has been applied.
LEMMA ReadKeepsItems ==
    ASSUME ItemsIInv, NEW rows \in ItemRows, ItemsRead(rows)
    PROVE  ItemsIInv'
<1>1. CSTypeOK'
  BY DEF ItemsIInv, CSTypeOK, ItemsRead, ItemRows
<1>2. HkSound'
  BY DEF ItemsIInv, HkSound, ItemsRead
<1>3. \A i \in CSItems : ~Settled(i)'
  BY DEF ItemsRead, Settled
<1>4. HkOwned' /\ RowsDiffer' /\ ~csNull'
  BY <1>3 DEF ItemsIInv, HkOwned, RowsDiffer, ItemsRead, ItemRows
<1> QED
  BY <1>1, <1>2, <1>4 DEF ItemsIInv

\* While rows are applied the index has an entry for the key of every item, so
\* item_hk is not NULL where DCsync_items follows it.
LEMMA EntryThere ==
    ASSUME ItemsIInv, NEW i \in CSItems, csKey[i] # NoKey
    PROVE  csHk[csKey[i]] # CSNoItem
  BY DEF ItemsIInv, CSTypeOK, HkSound

\* One row: the entry of the old key goes only if it is still the item's own, so the
\* items whose rows came before keep theirs.
LEMMA RowKeepsItems ==
    ASSUME ItemsIInv, NEW i \in CSItems, ItemRow(i)
    PROVE  ItemsIInv'
<1> DEFINE old == csKey[i]
           new == csNew[i]
<1>1. /\ csStep = "items" /\ i \in csLeft /\ ~Settled(i)
      /\ new \in CSKeys /\ old \in CSKeys \cup {NoKey} /\ new # NoKey
  BY ConfigSyncAssumption DEF ItemsIInv, CSTypeOK, HkOwned, ItemRow, Settled
<1>2. CSTypeOK'
  <2>1. csHk' \in [CSKeys -> CSItems \cup {CSNoItem}]
    BY <1>1 DEF ItemsIInv, CSTypeOK, ItemRow, OldEntry
  <2> QED
    BY <2>1, <1>1 DEF ItemsIInv, CSTypeOK, ItemRow, Unlinked
<1>3. \A j \in CSItems : Settled(j)' <=> j = i \/ Settled(j)
  BY <1>1 DEF ItemRow, Settled
<1>4. \A j \in CSItems : Settled(j) => j # i /\ csKey[j] # new
  BY <1>1 DEF ItemsIInv, HkOwned, RowsDiffer, Settled
<1>5. ASSUME old # new
      PROVE  \A k \in CSKeys : csHk'[k] = IF k = new THEN i
                                         ELSE IF k = old /\ csHk[k] = i THEN CSNoItem ELSE csHk[k]
  <2> DEFINE hk == IF old = NoKey THEN csHk ELSE OldEntry(csHk, i, old)
  <2>1. csHk' = [hk EXCEPT ![new] = i]
    BY <1>5 DEF ItemRow
  <2>2. /\ hk \in [CSKeys -> CSItems \cup {CSNoItem}]
        /\ \A k \in CSKeys : hk[k] = IF k = old /\ csHk[k] = i THEN CSNoItem ELSE csHk[k]
    BY <1>1, ConfigSyncAssumption DEF ItemsIInv, CSTypeOK, OldEntry
  <2> HIDE DEF hk
  <2> QED
    BY <2>1, <2>2, <1>1
<1>6. ASSUME old = new
      PROVE  csHk' = csHk /\ csKey' = csKey /\ csHk[new] = i
  <2>1. csHk' = csHk /\ csKey' = csKey
    BY <1>6, <1>1 DEF ItemsIInv, CSTypeOK, ItemRow
  <2>2. csHk[new] \in CSItems /\ csKey[csHk[new]] = new
    BY <1>6, <1>1, EntryThere DEF ItemsIInv, CSTypeOK, HkSound
  <2>3. ~Settled(csHk[new])
    BY <2>2, <1>4
  <2> QED
    BY <2>1, <2>2, <2>3, <1>1, <1>6 DEF ItemsIInv, HkOwned
<1>7. \A j \in CSItems : csKey'[j] = IF j = i THEN new ELSE csKey[j]
  BY DEF ItemsIInv, CSTypeOK, ItemRow
<1>8. HkSound'
  <2>1. CASE old = new
    BY <2>1, <1>6 DEF ItemsIInv, HkSound
  <2>2. CASE old # new
    <3> SUFFICES ASSUME NEW k \in CSKeys
                 PROVE  IF csHk'[k] = CSNoItem THEN \A j \in CSItems : csKey'[j] # k
                        ELSE csKey'[csHk'[k]] = k
      BY DEF HkSound
    <3>1. CASE k = new
      BY <3>1, <2>2, <1>5, <1>7, ConfigSyncAssumption
    <3>2. CASE k = old /\ csHk[k] = i /\ k # new
      <4>1. \A j \in CSItems : csKey[j] = k => j = i
        BY <3>2, <1>1, ConfigSyncAssumption DEF ItemsIInv, HkOwned
      <4> QED
        BY <4>1, <3>2, <2>2, <1>5, <1>7
    <3>3. CASE k # new /\ ~(k = old /\ csHk[k] = i)
      <4>1. csHk'[k] = csHk[k] /\ csHk[k] # i
        BY <3>3, <2>2, <1>5, <1>1, ConfigSyncAssumption DEF ItemsIInv, HkSound
      <4> QED
        BY <4>1, <3>3, <1>7 DEF ItemsIInv, HkSound, CSTypeOK
    <3> QED
      BY <3>1, <3>2, <3>3
  <2> QED
    BY <2>1, <2>2
<1>9. HkOwned'
  <2>1. csStep' = "items" /\ csNew' = csNew /\ csLeft' \subseteq csLeft
    BY <1>1 DEF ItemRow
  <2>2. ASSUME NEW j \in CSItems, Settled(j)'
        PROVE  csKey'[j] = csNew[j] /\ csHk'[csKey'[j]] = j
    <3>1. CASE j = i
      BY <3>1, <1>1, <1>5, <1>6, <1>7
    <3>2. CASE j # i
      <4>1. csKey'[j] = csKey[j] /\ csKey[j] = csNew[j] /\ csHk[csKey[j]] = j /\ csKey[j] # new
        BY <3>2, <2>2, <1>1, <1>3, <1>4, <1>7 DEF ItemsIInv, HkOwned
      <4>2. csKey[j] \in CSKeys
        BY <4>1, <3>2, <2>2, <1>3 DEF Settled, ItemsIInv, CSTypeOK
      <4> QED
        BY <4>1, <4>2, <3>2, <1>5, <1>6
    <3> QED
      BY <3>1, <3>2
  <2>3. ASSUME NEW j \in CSItems, NEW l \in CSItems,
               ~Settled(j)', ~Settled(l)', csKey'[j] = csKey'[l], csKey'[j] # NoKey
        PROVE  j = l
    BY <2>3, <1>1, <1>3, <1>7 DEF ItemsIInv, HkOwned
  <2> QED
    BY <2>1, <2>2, <2>3, <1>1 DEF HkOwned, ItemsIInv
<1>10. RowsDiffer' /\ ~csNull'
  BY <1>1, EntryThere DEF ItemsIInv, RowsDiffer, ItemRow
<1> QED
  BY <1>2, <1>8, <1>9, <1>10 DEF ItemsIInv

\* An item without a row: its entry goes unless an item of the new reading has the key.
LEMMA GoneKeepsItems ==
    ASSUME ItemsIInv, NEW i \in CSItems, ItemGone(i)
    PROVE  ItemsIInv'
<1> DEFINE old == csKey[i]
<1>1. csStep = "items" /\ old \in CSKeys /\ old # NoKey /\ ~Settled(i)
  BY DEF ItemsIInv, CSTypeOK, ItemGone, Gone, Settled
<1>2. CSTypeOK'
  BY <1>1 DEF ItemsIInv, CSTypeOK, ItemGone, OldEntry, Unlinked
<1>3. \A j \in CSItems : Settled(j)' <=> Settled(j)
  BY DEF ItemGone, Settled
<1>4. \A k \in CSKeys : csHk'[k] = IF k = old /\ csHk[k] = i THEN CSNoItem ELSE csHk[k]
  BY <1>1 DEF ItemsIInv, CSTypeOK, ItemGone, OldEntry
<1>5. \A j \in CSItems : csKey'[j] = IF j = i THEN NoKey ELSE csKey[j]
  BY DEF ItemsIInv, CSTypeOK, ItemGone
<1>6. HkSound'
  <2> SUFFICES ASSUME NEW k \in CSKeys
               PROVE  IF csHk'[k] = CSNoItem THEN \A j \in CSItems : csKey'[j] # k
                      ELSE csKey'[csHk'[k]] = k
    BY DEF HkSound
  <2>1. CASE k = old /\ csHk[k] = i
    <3>1. \A j \in CSItems : csKey[j] = k => j = i
      BY <2>1, <1>1, ConfigSyncAssumption DEF ItemsIInv, HkOwned
    <3> QED
      BY <3>1, <2>1, <1>4, <1>5, ConfigSyncAssumption
  <2>2. CASE ~(k = old /\ csHk[k] = i)
    <3>1. csHk'[k] = csHk[k] /\ csHk[k] # i
      BY <2>2, <1>4, <1>1, ConfigSyncAssumption DEF ItemsIInv, HkSound
    <3> QED
      BY <3>1, <1>5, ConfigSyncAssumption DEF ItemsIInv, HkSound, CSTypeOK
  <2> QED
    BY <2>1, <2>2
<1>7. HkOwned'
  <2>1. csStep' = "items" /\ csNew' = csNew /\ csLeft' = csLeft
    BY <1>1 DEF ItemGone
  <2>2. ASSUME NEW j \in CSItems, Settled(j)'
        PROVE  csKey'[j] = csNew[j] /\ csHk'[csKey'[j]] = j
    <3>1. j # i /\ csKey'[j] = csKey[j] /\ csKey[j] = csNew[j] /\ csHk[csKey[j]] = j
      BY <2>2, <1>1, <1>3, <1>5 DEF ItemsIInv, HkOwned
    <3>2. csKey[j] \in CSKeys
      BY <3>1, <2>2, <1>3 DEF Settled, ItemsIInv, CSTypeOK
    <3> QED
      BY <3>1, <3>2, <1>4
  <2>3. ASSUME NEW j \in CSItems, NEW l \in CSItems,
               ~Settled(j)', ~Settled(l)', csKey'[j] = csKey'[l], csKey'[j] # NoKey
        PROVE  j = l
    BY <2>3, <1>1, <1>3, <1>5 DEF ItemsIInv, HkOwned
  <2> QED
    BY <2>1, <2>2, <2>3, <1>1 DEF HkOwned, ItemsIInv
<1>8. RowsDiffer' /\ ~csNull'
  <2>1. csHk[old] # CSNoItem
    BY <1>1, EntryThere
  <2> QED
    BY <2>1 DEF ItemsIInv, RowsDiffer, ItemGone
<1> QED
  BY <1>2, <1>6, <1>7, <1>8 DEF ItemsIInv

\* When both loops are over every item has its own key again.
LEMMA DoneKeepsItems == ItemsIInv /\ ItemsDone => ItemsIInv'
<1> SUFFICES ASSUME ItemsIInv, ItemsDone
             PROVE  ItemsIInv'
  OBVIOUS
<1>1. csStep = "items" /\ csStep' = "triggers"
  BY DEF ItemsDone
<1>2. CSTypeOK' /\ HkSound' /\ RowsDiffer' /\ ~csNull'
  BY DEF ItemsIInv, CSTypeOK, HkSound, RowsDiffer, ItemsDone
<1>3. \A i \in CSItems : csKey[i] # NoKey => Settled(i)
  BY DEF ItemsDone, Gone, Settled
<1>4. HkOwned'
  BY <1>1, <1>3 DEF ItemsIInv, HkOwned, ItemsDone
<1> QED
  BY <1>2, <1>4 DEF ItemsIInv

\* The other tables do not touch items and their index.
LEMMA OthersKeepItems ==
    ASSUME ItemsIInv,
           \/ \E rows \in SUBSET CSTriggers : DCsync_triggers(rows)
           \/ \E rows \in DepRows : DCsync_trigdeps(rows)
           \/ \E rows \in FunctionRows : DCsync_functions(rows)
    PROVE  ItemsIInv'
<1>1. CASE \E rows \in SUBSET CSTriggers : DCsync_triggers(rows)
  BY <1>1 DEF DCsync_triggers, ItemsIInv, CSTypeOK, HkSound, HkOwned, RowsDiffer
<1>2. CASE \E rows \in DepRows : DCsync_trigdeps(rows)
  BY <1>2 DEF DCsync_trigdeps, ItemsIInv, CSTypeOK, HkSound, HkOwned, RowsDiffer
<1>3. CASE \E rows \in FunctionRows : DCsync_functions(rows)
  <2> PICK rows \in FunctionRows : DCsync_functions(rows)
    BY <1>3
  <2>1. CSTypeOK'
    <3> DEFINE used == {f \in CSFunctions : rows[f] # <<>> /\ Usable(rows[f])}
    <3>1. \A f \in used : rows[f].trigger \in CSTriggers
      BY DEF Usable, ItemsIInv, CSTypeOK
    <3> HIDE DEF used
    <3>2. csTimers' \in SUBSET CSTriggers /\ csLinks' \in [CSItems -> SUBSET CSTriggers]
      BY <3>1 DEF DCsync_functions, ItemsIInv, CSTypeOK, used
    <3> QED
      BY <3>2 DEF DCsync_functions, ItemsIInv, CSTypeOK, FunctionRows
  <2>2. HkSound' /\ HkOwned' /\ RowsDiffer' /\ ~csNull'
    BY DEF DCsync_functions, ItemsIInv, HkSound, HkOwned, RowsDiffer
  <2> QED
    BY <2>1, <2>2 DEF ItemsIInv
<1> QED
  BY <1>1, <1>2, <1>3

\* Every step keeps what is said of items and index.
LEMMA ItemsStep == ItemsIInv /\ [CSNext]_csVars => ItemsIInv'
<1> SUFFICES ASSUME ItemsIInv, [CSNext]_csVars
             PROVE  ItemsIInv'
  OBVIOUS
<1>1. CASE UNCHANGED csVars
  BY <1>1 DEF csVars, ItemsIInv, CSTypeOK, HkSound, HkOwned, RowsDiffer, Settled
<1>2. CASE CSNext
  BY <1>2, ReadKeepsItems, RowKeepsItems, GoneKeepsItems, DoneKeepsItems, OthersKeepItems DEF CSNext
<1> QED
  BY <1>1, <1>2

\* Whatever keys items exchange between two readings and in whatever order the rows
\* come, DCsync_items leaves an index that leads from every key to the item that has it
\* and to no other, and never follows an item_hk that is NULL.
THEOREM IndexByKey == CSSpec => []HkExact
<1>1. ItemsIInv => HkExact
  <2> SUFFICES ASSUME ItemsIInv, csStep # "items", NEW k \in CSKeys
               PROVE  csHk[k] = IF \E i \in CSItems : csKey[i] = k
                                THEN CHOOSE i \in CSItems : csKey[i] = k ELSE CSNoItem
    BY DEF ItemsIInv, CSTypeOK, HkExact
  <2>1. CASE csHk[k] = CSNoItem
    BY <2>1 DEF ItemsIInv, HkSound
  <2>2. CASE csHk[k] # CSNoItem
    <3>1. csHk[k] \in CSItems /\ csKey[csHk[k]] = k
      BY <2>2 DEF ItemsIInv, HkSound, CSTypeOK
    <3>2. \A i \in CSItems : csKey[i] = k => i = csHk[k]
      BY <3>1, ConfigSyncAssumption DEF ItemsIInv, HkOwned
    <3> QED
      BY <3>1, <3>2
  <2> QED
    BY <2>1, <2>2
<1> QED
  BY <1>1, ItemsInit, ItemsStep, PTL DEF CSSpec

-----------------------------------------------------------------------------
(* Pointers *)

\* An entry of the dependencies is not the absence of one.
LEMMA EntryIsOne ==
    ASSUME NEW p, NEW d
    PROVE  [trigger |-> p, deps |-> d] # <<>>
<1>1. "deps" \in DOMAIN [trigger |-> p, deps |-> d]
  OBVIOUS
<1>2. DOMAIN <<>> = {}
  OBVIOUS
<1> QED
  BY <1>1, <1>2

\* Nothing points anywhere at first.
LEMMA PointersInit == CSInit => PointersIInv
  BY DEF CSInit, PointersIInv, LinksExact

\* While rows of items are applied an item loses its triggers before it counts as
\* one of the new reading, and before it goes.
LEMMA ItemsKeepPointers ==
    ASSUME ItemsIInv, PointersIInv,
           \/ \E rows \in ItemRows : ItemsRead(rows)
           \/ \E i \in CSItems : ItemRow(i) \/ ItemGone(i)
           \/ ItemsDone
    PROVE  PointersIInv'
<1>1. CASE \E rows \in ItemRows : ItemsRead(rows)
  <2>1. PICK rows \in ItemRows : ItemsRead(rows)
    BY <1>1
  <2>2. csStep' = "items" /\ \A i \in CSItems : ~Settled(i)'
    BY <2>1 DEF ItemsRead, Settled
  <2> QED
    BY <2>1, <2>2 DEF ItemsRead, PointersIInv, LinksExact
<1>2. ASSUME NEW i \in CSItems, ItemRow(i)
      PROVE  PointersIInv'
  <2>1. csStep' = "items" /\ csStep = "items" /\ csNew[i] # NoKey
    BY <1>2 DEF ItemRow, ItemsIInv, HkOwned
  <2>2. \A j \in CSItems : csLinks'[j] = IF j = i THEN {} ELSE csLinks[j]
    BY <1>2 DEF ItemRow, Unlinked, ItemsIInv, CSTypeOK
  <2>3. \A j \in CSItems : j # i => csKey'[j] = csKey[j] /\ (Settled(j)' <=> Settled(j))
    BY <1>2 DEF ItemRow, Settled, ItemsIInv, CSTypeOK
  <2> QED
    BY <2>1, <2>2, <2>3 DEF PointersIInv, LinksExact
<1>3. ASSUME NEW i \in CSItems, ItemGone(i)
      PROVE  PointersIInv'
  <2>1. csStep' = "items" /\ csStep = "items"
    BY <1>3 DEF ItemGone
  <2>2. \A j \in CSItems : csLinks'[j] = IF j = i THEN {} ELSE csLinks[j]
    BY <1>3 DEF ItemGone, Unlinked, ItemsIInv, CSTypeOK
  <2>3. \A j \in CSItems : j # i => csKey'[j] = csKey[j] /\ (Settled(j)' <=> Settled(j))
    BY <1>3 DEF ItemGone, Settled, ItemsIInv, CSTypeOK
  <2> QED
    BY <2>1, <2>2, <2>3 DEF PointersIInv, LinksExact
<1>4. CASE ItemsDone
  <2>1. csStep = "items" /\ csStep' = "triggers" /\ csLinks' = csLinks /\ csKey' = csKey
    BY <1>4 DEF ItemsDone
  <2>2. \A i \in CSItems : csKey[i] # NoKey => Settled(i)
    BY <1>4 DEF ItemsDone, Gone, Settled
  <2>3. \A i \in CSItems : csLinks[i] = {}
    BY <2>1, <2>2 DEF PointersIInv
  <2> QED
    BY <2>1, <2>3 DEF PointersIInv, LinksExact
<1> QED
  BY <1>1, <1>2, <1>3, <1>4

\* Dependencies take their pointers from the triggers that were just applied, and every
\* trigger that one depends on gets an entry of its own.
LEMMA TrigdepsKeepPointers ==
    ASSUME PointersIInv, NEW rows \in DepRows, DCsync_trigdeps(rows)
    PROVE  PointersIInv'
<1> DEFINE downs == {r[1] : r \in rows}
           ups == {r[2] : r \in rows}
<1>1. /\ csStep = "trigdeps" /\ csStep' = "functions"
      /\ csKey' = csKey /\ csLinks' = csLinks /\ csTrig' = csTrig
  BY DEF DCsync_trigdeps
<1>2. \A t \in CSTriggers : csDep'[t] =
          IF t \in downs THEN [trigger |-> Pointer(t), deps |-> {u \in CSTriggers : <<t, u>> \in rows}]
          ELSE IF t \in ups THEN [trigger |-> Pointer(t), deps |-> {}] ELSE <<>>
  BY DEF DCsync_trigdeps, UpOnly
<1>3. \A t \in CSTriggers : t \in downs \cup ups => csDep'[t] # <<>>
  BY <1>2, EntryIsOne
<1>4. \A t, u : <<t, u>> \in rows => u \in ups
  OBVIOUS
<1>5. ASSUME NEW t \in CSTriggers, csDep'[t] # <<>>
      PROVE  /\ csDep'[t].trigger \in csTrig \cup {NullPtr}
             /\ \A u \in csDep'[t].deps : csDep'[u] # <<>>
  <2>1. CASE t \in downs
    <3>1. /\ csDep'[t].trigger = Pointer(t)
          /\ csDep'[t].deps = {u \in CSTriggers : <<t, u>> \in rows}
      <4> DEFINE d == {u \in CSTriggers : <<t, u>> \in rows}
      <4>1. csDep'[t] = [trigger |-> Pointer(t), deps |-> d]
        BY <2>1, <1>2 DEF d
      <4> HIDE DEF d
      <4>2. csDep'[t].trigger = Pointer(t) /\ csDep'[t].deps = d
        BY <4>1
      <4> QED
        BY <4>2 DEF d
    <3> QED
      BY <3>1, <1>3, <1>4 DEF Pointer
  <2>2. CASE t \notin downs
    <3>1. csDep'[t].trigger = Pointer(t) /\ csDep'[t].deps = {}
      <4>1. csDep'[t] = [trigger |-> Pointer(t), deps |-> {}]
        BY <2>2, <1>2, <1>5
      <4> QED
        BY <4>1
    <3> QED
      BY <3>1 DEF Pointer
  <2> QED
    BY <2>1, <2>2
<1> QED
  BY <1>1, <1>5 DEF PointersIInv, DepsExact, LinksExact

\* A function enters itself with its item and its timer only if both its ends are known,
\* and all lists were empty before: what an item has afterwards comes from these rows.
LEMMA FunctionsKeepPointers ==
    ASSUME ItemsIInv, PointersIInv, NEW rows \in FunctionRows, DCsync_functions(rows)
    PROVE  PointersIInv'
<1> DEFINE used == {f \in CSFunctions : rows[f] # <<>> /\ Usable(rows[f])}
<1>1. /\ csStep = "functions" /\ csStep' = "released"
      /\ csKey' = csKey /\ csTrig' = csTrig /\ csDep' = csDep /\ csRows' = rows
      /\ \A i \in CSItems : csLinks[i] = {}
  BY DEF DCsync_functions, PointersIInv
<1>2. \A f \in used : csKey[rows[f].item] # NoKey /\ rows[f].trigger \in csTrig
  BY DEF Usable
<1>3. \A f \in CSFunctions : rows[f] # <<>> => rows[f].item \in CSItems
  BY DEF FunctionRows
<1>4. \A i \in CSItems : csLinks'[i] = {rows[f].trigger : f \in {g \in used : rows[g].item = i}}
  <2> SUFFICES ASSUME NEW i \in CSItems
               PROVE  csLinks'[i] = {rows[f].trigger : f \in {g \in used : rows[g].item = i}}
    OBVIOUS
  <2>1. csLinks'[i] = IF \E f \in used : rows[f].item = i
                      THEN {rows[f].trigger : f \in {g \in used : rows[g].item = i}} ELSE {}
    BY <1>1 DEF DCsync_functions
  <2> QED
    BY <2>1
<1>5. \A f \in CSFunctions : csFun'[f] = IF f \in used THEN [item |-> rows[f].item, trigger |-> rows[f].trigger]
                                        ELSE <<>>
  BY DEF DCsync_functions
<1>6. csTimers' \subseteq csTrig
  BY <1>2 DEF DCsync_functions
<1>7. \A i \in CSItems : csLinks'[i] # {} => csKey[i] # NoKey /\ csLinks'[i] \subseteq csTrig
  BY <1>2, <1>4
<1>8. \A f \in CSFunctions : csFun'[f] # <<>> =>
          csKey[csFun'[f].item] # NoKey /\ csFun'[f].trigger \in csLinks'[csFun'[f].item]
  <2> SUFFICES ASSUME NEW f \in CSFunctions, csFun'[f] # <<>>
               PROVE  csKey[csFun'[f].item] # NoKey /\ csFun'[f].trigger \in csLinks'[csFun'[f].item]
    OBVIOUS
  <2>1. f \in used /\ csFun'[f].item = rows[f].item /\ csFun'[f].trigger = rows[f].trigger
    <3>1. f \in used /\ csFun'[f] = [item |-> rows[f].item, trigger |-> rows[f].trigger]
      BY <1>5
    <3> HIDE DEF used
    <3> QED
      BY <3>1
  <2>2. rows[f].item \in CSItems /\ csKey[rows[f].item] # NoKey
    BY <2>1, <1>2, <1>3
  <2>3. rows[f].trigger \in csLinks'[rows[f].item]
    BY <2>1, <2>2, <1>4
  <2> QED
    BY <2>1, <2>2, <2>3
<1>9. ASSUME NEW i \in CSItems, NEW t \in CSTriggers
      PROVE  t \in csLinks'[i] <=>
                /\ csKey[i] # NoKey /\ t \in csTrig
                /\ \E f \in CSFunctions : rows[f] # <<>> /\ rows[f].item = i /\ rows[f].trigger = t
  BY <1>4, <1>2 DEF Usable
<1>10. LinksExact'
  BY <1>1, <1>6, <1>7, <1>8, <1>9 DEF LinksExact, PointersIInv, DepsExact
<1> QED
  BY <1>1, <1>7, <1>10 DEF PointersIInv

\* Every step keeps what is said of pointers.
LEMMA PointersStep == ItemsIInv /\ PointersIInv /\ [CSNext]_csVars => PointersIInv'
<1> SUFFICES ASSUME ItemsIInv, PointersIInv, [CSNext]_csVars
             PROVE  PointersIInv'
  OBVIOUS
<1>1. CASE UNCHANGED csVars
  BY <1>1 DEF csVars, PointersIInv, LinksExact, DepsExact, Settled
<1>2. ASSUME NEW rows \in SUBSET CSTriggers, DCsync_triggers(rows)
      PROVE  PointersIInv'
  BY <1>2 DEF DCsync_triggers, PointersIInv, LinksExact
<1>3. CASE CSNext
  BY <1>2, <1>3, ItemsKeepPointers, TrigdepsKeepPointers, FunctionsKeepPointers DEF CSNext
<1> QED
  BY <1>1, <1>3

\* Although the tables are read at different times, when DCsync_configuration releases
\* the lock no pointer leads to an item or trigger that is gone, and an item has the
\* triggers of exactly those functions whose two ends are known.
THEOREM PointersExact == CSSpec => []LinksExact
<1>1. PointersIInv => LinksExact
  BY DEF PointersIInv
<1> QED
  BY <1>1, ItemsInit, ItemsStep, PointersInit, PointersStep, PTL DEF CSSpec

(***************************************************************************)
(* The poller queues                                                        *)
(***************************************************************************)

-----------------------------------------------------------------------------
(* Types *)

\* The records of the items, the host and the pollers.
Locations == {"NOWHERE", "QUEUE", "POLLER"}
HostRec == [errors_from : Nat, available : {"UNKNOWN", "TRUE", "FALSE"}, disable_until : Nat]
ItemRec == [known : BOOLEAN, location : Locations, poller_type : QueueTypes \cup {"NO"},
            nextcheck : Nat, state : States, delay : Nat]
ProcRec == [pc : {"idle", "lock", "scan", "poll", "avail", "db", "requeue"}, now : Nat,
            item : Items \cup {0}, host : HostRec, result : Results \cup {"OK"}, ts : Nat,
            state : States, before : HostRec, after : HostRec]
Held == {"poll", "avail", "db", "requeue"}

ItemTypes ==
    /\ item \in [Items -> ItemRec]
    /\ \A i \in Items : ~ item[i].known => item[i] = NoItem

ProcTypes ==
    /\ proc \in [Procs -> ProcRec]
    /\ \A p \in Procs : proc[p].pc \in Held => proc[p].item \in Items

\* The types of the variables; a poller that holds an item has one.
Types ==
    /\ ItemTypes /\ ProcTypes
    /\ now \in 1 .. MaxTime
    /\ host \in HostRec /\ dbhost \in HostRec
    /\ maintenance \in BOOLEAN /\ byProxy \in BOOLEAN /\ rejected \in BOOLEAN
    /\ lock \in Procs \cup {"free", "sync"}
    /\ sync \in [todo : SUBSET Items, rows : SUBSET Items]
    /\ value \in [Items -> Nat]
    /\ refresh_unsupported \in Refreshes

\* Every queue of q is a heap of the items that itm says are in it.
Filed(q, itm) ==
    /\ q = [t \in QueueTypes |-> q[t]]
    /\ \A t \in QueueTypes :
          /\ IsHeap(q[t])
          /\ Members(q[t]) = {i \in Items : itm[i].location = "QUEUE" /\ itm[i].poller_type = t}
    /\ \A i \in Items : itm[i].location = "QUEUE" => itm[i].poller_type \in QueueTypes

-----------------------------------------------------------------------------
(* When an item is due *)

LEMMA IntervalIn ==
  ASSUME NEW delay \in Nat \ {0}, NEW t \in Nat
  PROVE  delay * (t \div delay) \in Nat
<1>1. PICK k : k = t \div delay
  OBVIOUS
<1>2. k \in Nat
  BY <1>1
<1>3. delay * k \in Nat
  BY <1>2
<1> QED
  BY <1>1, <1>3

LEMMA NextcheckIn ==
  ASSUME NEW i \in Items, NEW delay \in Nat, NEW t \in Nat
  PROVE  calculate_item_nextcheck(i, delay, t) \in Nat
<1>1. i \in Nat /\ MaxTime \in Nat
  BY ItemsAssumption, TimesAssumption
<1>2. CASE delay = 0
  BY <1>1, <1>2 DEF calculate_item_nextcheck
<1>3. CASE delay # 0
  <2>1. PICK k \in Nat : k = delay * (t \div delay)
    BY <1>3, IntervalIn
  <2>2. i % delay \in Nat
    BY <1>1, <1>3
  <2>3. k + (i % delay) \in Nat /\ k + (i % delay) + delay \in Nat
    BY <2>1, <2>2
  <2> QED
    BY <1>3, <2>1, <2>3 DEF calculate_item_nextcheck
<1> QED
  BY <1>2, <1>3

LEMMA IntervalOfIn ==
  ASSUME Types, NEW state, NEW delay \in Nat
  PROVE  IntervalOf(state, delay) \in Nat
BY TimesAssumption DEF Types, ItemTypes, ProcTypes, IntervalOf

LEMMA ReachableIn ==
  ASSUME Types, NEW i \in Items, NEW state, NEW t \in Nat
  PROVE  DCget_reachable_nextcheck(i, state, t) \in Nat
<1>1. item[i].delay \in Nat
  BY DEF Types, ItemTypes, ProcTypes, ItemRec
<1>2. PICK d \in Nat : d = IntervalOf(state, item[i].delay)
  BY <1>1, IntervalOfIn
<1>3. calculate_item_nextcheck(i, d, t) \in Nat
  BY NextcheckIn
<1> QED
  BY <1>2, <1>3 DEF DCget_reachable_nextcheck

LEMMA UnreachableIn ==
  ASSUME Types, NEW i \in Items, NEW state
  PROVE  DCget_unreachable_nextcheck(i, state) \in Nat
<1>1. host.disable_until \in Nat /\ now \in Nat
  BY DEF Types, ItemTypes, ProcTypes, HostRec
<1>2. DCget_reachable_nextcheck(i, state, now) \in Nat
  BY <1>1, ReachableIn
<1> QED
  BY <1>1, <1>2 DEF DCget_unreachable_nextcheck

LEMMA NoItemIn == NoItem \in ItemRec
BY DEF NoItem, ItemRec, Locations, States

LEMMA NewHostIn == NewHost \in HostRec
BY DEF NewHost, HostRec

LEMMA NoProcIn == NoProc \in ProcRec
BY NewHostIn DEF NoProc, ProcRec, States

-----------------------------------------------------------------------------
(* DCupdate_item_queue *)

Renewed(itm, i, rec, ot) == [itm EXCEPT ![i] = [rec EXCEPT !.location = UpdatedLocation(rec, ot)]]

\* Only the location and the type of the items matter.
LEMMA FiledAlike ==
  ASSUME NEW q, NEW itm, NEW new, Filed(q, itm),
         \A j \in Items : /\ new[j].location = "QUEUE" <=> itm[j].location = "QUEUE"
                          /\ new[j].location = "QUEUE" => new[j].poller_type = itm[j].poller_type
  PROVE  Filed(q, new)
<1>1. \A t \in QueueTypes : {i \in Items : itm[i].location = "QUEUE" /\ itm[i].poller_type = t}
                          = {i \in Items : new[i].location = "QUEUE" /\ new[i].poller_type = t}
  OBVIOUS
<1> QED
  BY <1>1 DEF Filed

\* An item leaves the queue it is in.
Leaves(q, itm, new, i, t, h) ==
    /\ Filed(q, itm) /\ itm[i].location = "QUEUE" /\ itm[i].poller_type = t
    /\ new[i].location # "QUEUE" /\ \A j \in Items \ {i} : new[j] = itm[j]
    /\ IsHeap(h) /\ Members(h) = Members(q[t]) \ {i}

LEMMA LeaveFiled ==
  ASSUME NEW q, NEW itm, NEW new, NEW i \in Items, NEW t \in QueueTypes, NEW h,
         Leaves(q, itm, new, i, t, h)
  PROVE  Filed([q EXCEPT ![t] = h], new)
<1> USE DEF Leaves
<1> DEFINE r == [q EXCEPT ![t] = h]
<1>1. q = [u \in QueueTypes |-> q[u]]
  BY DEF Filed
<1>2. r = [u \in QueueTypes |-> r[u]] /\ r[t] = h /\ \A u \in QueueTypes \ {t} : r[u] = q[u]
  BY <1>1
<1> HIDE DEF r
<1>3. ASSUME NEW u \in QueueTypes
      PROVE  IsHeap(r[u]) /\ Members(r[u]) = {j \in Items : new[j].location = "QUEUE" /\ new[j].poller_type = u}
  <2>1. Members(q[u]) = {j \in Items : itm[j].location = "QUEUE" /\ itm[j].poller_type = u} /\ IsHeap(q[u])
    BY DEF Filed
  <2>2. CASE u = t
    BY <1>2, <2>1, <2>2
  <2>3. CASE u # t
    BY <1>2, <2>1, <2>3
  <2> QED
    BY <2>2, <2>3
<1>4. \A j \in Items : new[j].location = "QUEUE" => new[j].poller_type \in QueueTypes
  BY DEF Filed
<1>5. Filed(r, new)
  BY <1>2, <1>3, <1>4 DEF Filed
<1> QED
  BY <1>5 DEF r

\* An item that is in no queue gets into one.
LEMMA EnterFiled ==
  ASSUME NEW q, NEW itm, NEW new, Filed(q, itm), NEW i \in Items, NEW t \in QueueTypes,
         itm[i].location # "QUEUE", new[i].location = "QUEUE", new[i].poller_type = t,
         \A j \in Items \ {i} : new[j] = itm[j],
         NEW h, IsHeap(h), Members(h) = Members(q[t]) \cup {i}
  PROVE  Filed([q EXCEPT ![t] = h], new)
<1> DEFINE r == [q EXCEPT ![t] = h]
<1>1. q = [u \in QueueTypes |-> q[u]]
  BY DEF Filed
<1>2. r = [u \in QueueTypes |-> r[u]] /\ r[t] = h /\ \A u \in QueueTypes \ {t} : r[u] = q[u]
  BY <1>1
<1> HIDE DEF r
<1>3. ASSUME NEW u \in QueueTypes
      PROVE  IsHeap(r[u]) /\ Members(r[u]) = {j \in Items : new[j].location = "QUEUE" /\ new[j].poller_type = u}
  <2>1. Members(q[u]) = {j \in Items : itm[j].location = "QUEUE" /\ itm[j].poller_type = u} /\ IsHeap(q[u])
    BY DEF Filed
  <2>2. CASE u = t
    BY <1>2, <2>1, <2>2
  <2>3. CASE u # t
    BY <1>2, <2>1, <2>3
  <2> QED
    BY <2>2, <2>3
<1>4. \A j \in Items : new[j].location = "QUEUE" => new[j].poller_type \in QueueTypes
  BY DEF Filed
<1>5. Filed(r, new)
  BY <1>2, <1>3, <1>4 DEF Filed
<1> QED
  BY <1>5 DEF r

\* A heap of the same items takes the place of the one in q.
LEMMA StayFiled ==
  ASSUME NEW q, NEW itm, Filed(q, itm), NEW t \in QueueTypes,
         NEW h, IsHeap(h), Members(h) = Members(q[t])
  PROVE  Filed([q EXCEPT ![t] = h], itm)
<1> DEFINE r == [q EXCEPT ![t] = h]
<1>1. q = [u \in QueueTypes |-> q[u]]
  BY DEF Filed
<1>2. r = [u \in QueueTypes |-> r[u]] /\ r[t] = h /\ \A u \in QueueTypes \ {t} : r[u] = q[u]
  BY <1>1
<1> HIDE DEF r
<1>3. \A u \in QueueTypes : IsHeap(r[u]) /\ Members(r[u]) = Members(q[u])
  BY <1>2 DEF Filed
<1>4. Filed(r, itm)
  BY <1>2, <1>3 DEF Filed
<1> QED
  BY <1>4 DEF r

\* Before DCupdate_item_queue the old type says where a queued item is.
Sources(itm, i, rec, ot) ==
    /\ itm[i].location = "QUEUE" <=> rec.location = "QUEUE"
    /\ rec.location = "QUEUE" => itm[i].poller_type = ot

\* DCupdate_item_queue files the item under its new type, whatever it was before.
LEMMA UpdateFiles ==
  ASSUME NEW q, NEW itm \in [Items -> ItemRec], Filed(q, itm), NEW i \in Items, NEW rec \in ItemRec,
         NEW ot, NEW on, Sources(itm, i, rec, ot)
  PROVE  Filed(UpdatedQueues(q, i, rec, ot, on), Renewed(itm, i, rec, ot))
<1> DEFINE new == Renewed(itm, i, rec, ot)
           next == Nextchecks(i, rec.nextcheck)
           leaves == rec.location = "QUEUE" /\ ot # rec.poller_type
           left == IF leaves THEN [q EXCEPT ![ot] = HeapRemove(@, next, i)] ELSE q
<1>0. SUFFICES Filed(UpdatedQueues(q, i, rec, ot, on), new)
  OBVIOUS
<1>1. /\ \A j \in Items \ {i} : new[j] = itm[j]
      /\ new[i].location = UpdatedLocation(rec, ot) /\ new[i].poller_type = rec.poller_type
  BY DEF Renewed, ItemRec
<1> HIDE DEF new
<1>2. /\ rec.location \in Locations /\ rec.poller_type \in QueueTypes \cup {"NO"}
  BY DEF ItemRec
<1>3. rec.location = "QUEUE" => ot \in QueueTypes /\ itm[i].location = "QUEUE" /\ itm[i].poller_type = ot
  BY DEF Sources, Filed
<1>4. \A t \in QueueTypes : i \in Members(q[t]) <=> rec.location = "QUEUE" /\ t = ot
  BY <1>3 DEF Filed, Sources
<1> DEFINE mid == [itm EXCEPT ![i].location = IF leaves THEN "NOWHERE" ELSE @]
<1>5. /\ \A j \in Items \ {i} : mid[j] = itm[j]
      /\ leaves => mid[i].location = "NOWHERE"
      /\ ~ leaves => mid[i].location = itm[i].location /\ mid[i].poller_type = itm[i].poller_type
  BY DEF ItemRec
<1> HIDE DEF mid
<1>6. Filed(left, mid)
  <2>1. CASE leaves
    <3>1. ot \in QueueTypes /\ i \in Members(q[ot]) /\ IsHeap(q[ot])
      BY <1>3, <1>4, <2>1 DEF Filed
    <3>2. PICK r : r = HeapRemove(q[ot], next, i)
      OBVIOUS
    <3>3. IsHeap(r) /\ Members(r) = Members(q[ot]) \ {i}
      BY <3>1, <3>2, RemoveKeeps
    <3>4. Filed([q EXCEPT ![ot] = r], mid)
      <4>1. Leaves(q, itm, mid, i, ot, r)
        BY <1>3, <1>5, <2>1, <3>1, <3>3 DEF Leaves
      <4> QED
        BY <3>1, <4>1, LeaveFiled
    <3>5. left = [q EXCEPT ![ot] = r]
      BY <2>1, <3>2
    <3> QED
      BY <3>4, <3>5
  <2>2. CASE ~ leaves
    <3>1. \A j \in Items : mid[j].location = itm[j].location /\ mid[j].poller_type = itm[j].poller_type
      BY <1>5, <2>2
    <3>2. Filed(q, mid)
      BY <3>1, FiledAlike
    <3>3. left = q
      BY <2>2
    <3> QED
      BY <3>2, <3>3
  <2> QED
    BY <2>1, <2>2
<1> HIDE DEF left
<1>7. /\ rec.location = "POLLER" \/ rec.poller_type = "NO" => UpdatedQueues(q, i, rec, ot, on) = left
      /\ rec.location = "QUEUE" /\ ~ leaves /\ rec.poller_type # "NO" =>
           \/ UpdatedQueues(q, i, rec, ot, on) = left
           \/ UpdatedQueues(q, i, rec, ot, on)
                = [left EXCEPT ![rec.poller_type] = HeapUpdate(left[rec.poller_type], next, i)]
      /\ ~ (rec.location = "QUEUE" /\ ~ leaves) /\ rec.poller_type # "NO" /\ rec.location # "POLLER" =>
           UpdatedQueues(q, i, rec, ot, on)
             = [left EXCEPT ![rec.poller_type] = HeapInsert(left[rec.poller_type], next, i)]
  <2> DEFINE up == [left EXCEPT ![rec.poller_type] = HeapUpdate(@, next, i)]
             in == [left EXCEPT ![rec.poller_type] = HeapInsert(@, next, i)]
  <2>1. UpdatedQueues(q, i, rec, ot, on) =
          LET queued == rec.location = "QUEUE" /\ ~ leaves /\ rec.poller_type # "NO"
          IN  CASE rec.location = "POLLER" \/ rec.poller_type = "NO" -> left
                [] queued /\ on = rec.nextcheck -> left
                [] queued /\ on # rec.nextcheck -> up
                [] OTHER -> in
    BY DEF UpdatedQueues, left
  <2>2. up = [left EXCEPT ![rec.poller_type] = HeapUpdate(left[rec.poller_type], next, i)]
    OBVIOUS
  <2>3. in = [left EXCEPT ![rec.poller_type] = HeapInsert(left[rec.poller_type], next, i)]
    OBVIOUS
  <2> HIDE DEF up, in, leaves
  <2>4. rec.location = "POLLER" \/ rec.poller_type = "NO" => UpdatedQueues(q, i, rec, ot, on) = left
    BY <2>1 DEF leaves
  <2>5. rec.location = "QUEUE" /\ ~ leaves /\ rec.poller_type # "NO" =>
           UpdatedQueues(q, i, rec, ot, on) = left \/ UpdatedQueues(q, i, rec, ot, on) = up
    BY <2>1
  <2>6. ~ (rec.location = "QUEUE" /\ ~ leaves) /\ rec.poller_type # "NO" /\ rec.location # "POLLER" =>
           UpdatedQueues(q, i, rec, ot, on) = in
    BY <2>1
  <2> QED
    BY <2>2, <2>3, <2>4, <2>5, <2>6
<1> HIDE DEF next
<1>8. CASE rec.location = "POLLER" \/ rec.poller_type = "NO"
  <2>1. UpdatedQueues(q, i, rec, ot, on) = left
    BY <1>7, <1>8
  <2>2. rec.location = "QUEUE" => leaves
    BY <1>3, <1>8 DEF QueueTypes
  <2>3. new[i].location # "QUEUE" /\ mid[i].location # "QUEUE"
    <3>1. CASE rec.location = "QUEUE"
      <4>1. leaves
        BY <2>2, <3>1
      <4>2. rec.poller_type = "NO" /\ ot # rec.poller_type
        BY <1>8, <3>1, <4>1
      <4>3. new[i].location = "NOWHERE"
        BY <1>1, <3>1, <4>2 DEF UpdatedLocation
      <4> QED
        BY <1>5, <4>1, <4>3
    <3>2. CASE rec.location # "QUEUE"
      <4>1. new[i].location # "QUEUE"
        BY <1>1, <1>2, <1>8, <3>2 DEF UpdatedLocation, Locations
      <4>2. mid[i].location = itm[i].location /\ itm[i].location # "QUEUE"
        BY <1>5, <3>2 DEF Sources
      <4> QED
        BY <4>1, <4>2
    <3> QED
      BY <3>1, <3>2
  <2>4. Filed(left, new)
    BY <1>1, <1>5, <1>6, <2>3, FiledAlike
  <2> QED
    BY <2>1, <2>4
<1>9. CASE rec.location # "POLLER" /\ rec.poller_type # "NO"
  <2>1. rec.poller_type \in QueueTypes /\ new[i].location = "QUEUE" /\ new[i].poller_type = rec.poller_type
    BY <1>1, <1>2, <1>9 DEF UpdatedLocation
  <2>2. CASE rec.location = "QUEUE" /\ ~ leaves
    <3>1. \A j \in Items : mid[j].location = new[j].location /\ mid[j].poller_type = new[j].poller_type
      BY <1>1, <1>3, <1>5, <2>1, <2>2
    <3>2. Filed(left, new)
      BY <1>6, <3>1, FiledAlike
    <3>3. PICK t \in QueueTypes : t = rec.poller_type
      BY <2>1
    <3>4. i \in Members(left[t]) /\ IsHeap(left[t])
      BY <2>1, <3>2, <3>3 DEF Filed
    <3>5. PICK r : r = HeapUpdate(left[t], next, i)
      OBVIOUS
    <3>6. IsHeap(r) /\ Members(r) = Members(left[t])
      BY <3>4, <3>5, UpdateKeeps
    <3>7. Filed([left EXCEPT ![t] = r], new)
      BY <3>2, <3>6, StayFiled
    <3>8. \/ UpdatedQueues(q, i, rec, ot, on) = left
          \/ UpdatedQueues(q, i, rec, ot, on) = [left EXCEPT ![t] = r]
      BY <1>7, <1>9, <2>2, <3>3, <3>5
    <3> QED
      BY <3>2, <3>7, <3>8
  <2>3. CASE ~ (rec.location = "QUEUE" /\ ~ leaves)
    <3>1. mid[i].location # "QUEUE"
      BY <1>5, <2>3 DEF Sources
    <3>2. PICK t \in QueueTypes : t = rec.poller_type
      BY <2>1
    <3>3. i \notin Members(left[t]) /\ IsHeap(left[t])
      BY <1>6, <3>1 DEF Filed
    <3>4. PICK r : r = HeapInsert(left[t], next, i)
      OBVIOUS
    <3>5. IsHeap(r) /\ Members(r) = Members(left[t]) \cup {i}
      BY <3>3, <3>4, InsertKeeps
    <3>6. \A j \in Items \ {i} : new[j] = mid[j]
      BY <1>1, <1>5
    <3>7. Filed([left EXCEPT ![t] = r], new)
      BY <1>6, <2>1, <3>1, <3>2, <3>5, <3>6, EnterFiled
    <3>8. UpdatedQueues(q, i, rec, ot, on) = [left EXCEPT ![t] = r]
      BY <1>7, <1>9, <2>3, <3>2, <3>4
    <3> QED
      BY <3>7, <3>8
  <2> QED
    BY <2>2, <2>3
<1> QED
  BY <1>8, <1>9

LEMMA RenewedIn ==
  ASSUME NEW itm \in [Items -> ItemRec], NEW i \in Items, NEW rec \in ItemRec, NEW ot,
         NEW new, new = Renewed(itm, i, rec, ot)
  PROVE  /\ new \in [Items -> ItemRec]
         /\ \A j \in Items \ {i} : new[j] = itm[j]
         /\ new[i].location = UpdatedLocation(rec, ot)
         /\ new[i].poller_type = rec.poller_type /\ new[i].nextcheck = rec.nextcheck
         /\ rec.known => new[i].known
<1>1. UpdatedLocation(rec, ot) \in Locations
  BY DEF UpdatedLocation, Locations
<1>2. PICK r : r = [rec EXCEPT !.location = UpdatedLocation(rec, ot)]
  OBVIOUS
<1>3. /\ r \in ItemRec /\ r.location = UpdatedLocation(rec, ot)
      /\ r.poller_type = rec.poller_type /\ r.nextcheck = rec.nextcheck /\ r.known = rec.known
  BY <1>1, <1>2 DEF ItemRec
<1>4. new = [itm EXCEPT ![i] = r]
  BY <1>2 DEF Renewed
<1> QED
  BY <1>3, <1>4

-----------------------------------------------------------------------------
(* The order of the queues *)

Checks(itm) == [j \in Items |-> itm[j].nextcheck]

\* Every queue of q is a heap in the order of the nextchecks of itm.
Sorted(q, itm) == \A t \in QueueTypes : Ordered(q[t], Checks(itm))

LEMMA ChecksIn ==
  ASSUME NEW q, NEW itm \in [Items -> ItemRec], Filed(q, itm), NEW t \in QueueTypes
  PROVE  \A x \in Members(q[t]) : x \in Items /\ Checks(itm)[x] \in Int
BY DEF Filed, Checks, ItemRec

\* The nextcheck of an item that is in no queue does not matter.
LEMMA SortedAlike ==
  ASSUME NEW q, NEW itm, NEW new, Filed(q, itm), Sorted(q, itm),
         \A j \in Items : itm[j].location = "QUEUE" => new[j].nextcheck = itm[j].nextcheck
  PROVE  Sorted(q, new)
<1>1. ASSUME NEW t \in QueueTypes
      PROVE  Ordered(q[t], Checks(new))
  <2>1. IsHeap(q[t]) /\ Ordered(q[t], Checks(itm))
    BY DEF Filed, Sorted
  <2>2. \A x \in Members(q[t]) : Checks(new)[x] = Checks(itm)[x]
    BY DEF Filed, Checks
  <2> QED
    BY <2>1, <2>2, OrderedAlike
<1> QED
  BY <1>1 DEF Sorted

LEMMA ReplacedSorted ==
  ASSUME NEW q, NEW itm, Filed(q, itm), Sorted(q, itm), NEW t \in QueueTypes, NEW h,
         Ordered(h, Checks(itm))
  PROVE  Sorted([q EXCEPT ![t] = h], itm)
<1>1. q = [u \in QueueTypes |-> q[u]]
  BY DEF Filed
<1>2. [q EXCEPT ![t] = h][t] = h /\ \A u \in QueueTypes \ {t} : [q EXCEPT ![t] = h][u] = q[u]
  BY <1>1
<1> QED
  BY <1>2 DEF Sorted

\* DCupdate_item_queue keeps the order of the queues, unless it takes an item out of
\* the middle of one.
LEMMA UpdateSorts ==
  ASSUME NEW q, NEW itm \in [Items -> ItemRec], Filed(q, itm), Sorted(q, itm),
         NEW i \in Items, NEW rec \in ItemRec, NEW ot, NEW on, Sources(itm, i, rec, ot),
         \A j \in Items \ {i} : itm[j].nextcheck = item[j].nextcheck,
         rec.location = "QUEUE" => ot = rec.poller_type /\ on = itm[i].nextcheck
  PROVE  Sorted(UpdatedQueues(q, i, rec, ot, on), Renewed(itm, i, rec, ot))
<1> DEFINE next == Nextchecks(i, rec.nextcheck)
<1>1. PICK new : new = Renewed(itm, i, rec, ot)
  OBVIOUS
<1>2. new \in [Items -> ItemRec] /\ \A j \in Items \ {i} : new[j] = itm[j]
  BY <1>1, RenewedIn
<1>3. new[i].nextcheck = rec.nextcheck
  BY <1>1, RenewedIn
<1>4. /\ \A j \in Items : next[j] = Checks(new)[j] /\ next[j] \in Int
      /\ \A j \in Items \ {i} : next[j] = Checks(itm)[j]
  <2>1. \A j \in Items : next[j] = IF j = i THEN rec.nextcheck ELSE item[j].nextcheck
    BY DEF Nextchecks
  <2>2. \A j \in Items : Checks(new)[j] = new[j].nextcheck /\ Checks(itm)[j] = itm[j].nextcheck
    BY DEF Checks
  <2>3. \A j \in Items : new[j].nextcheck \in Int
    BY <1>2 DEF ItemRec
  <2> HIDE DEF next
  <2>4. \A j \in Items : next[j] = new[j].nextcheck
    BY <1>2, <1>3, <2>1
  <2>5. \A j \in Items \ {i} : new[j].nextcheck = itm[j].nextcheck
    BY <1>2
  <2> QED
    BY <2>2, <2>3, <2>4, <2>5
<1>5. next = Checks(new)
  BY <1>4 DEF Nextchecks, Checks
<1> HIDE DEF next
<1>6. SUFFICES Sorted(UpdatedQueues(q, i, rec, ot, on), new)
  BY <1>1
<1>7. rec.location = "QUEUE" => rec.poller_type \in QueueTypes /\ itm[i].location = "QUEUE" /\ itm[i].poller_type = ot
  BY DEF Sources, Filed
<1>8. CASE rec.location = "QUEUE"
  <2>1. PICK t \in QueueTypes : t = rec.poller_type /\ t = ot
    BY <1>7, <1>8
  <2>2. t # "NO"
    BY DEF QueueTypes
  <2>3. IsHeap(q[t]) /\ i \in Members(q[t])
    BY <1>7, <1>8, <2>1 DEF Filed
  <2>4. CASE on = rec.nextcheck
    <3>1. UpdatedQueues(q, i, rec, ot, on) = q
      BY <1>8, <2>1, <2>2, <2>4 DEF UpdatedQueues
    <3>2. \A j \in Items : new[j].nextcheck = itm[j].nextcheck
      BY <1>2, <1>3, <1>8, <2>4
    <3> QED
      BY <3>1, <3>2, SortedAlike
  <2>5. CASE on # rec.nextcheck
    <3>1. UpdatedQueues(q, i, rec, ot, on) = [q EXCEPT ![t] = HeapUpdate(q[t], next, i)]
      BY <1>8, <2>1, <2>2, <2>5 DEF UpdatedQueues, next
    <3>2. Ordered(q[t], Checks(itm))
      BY DEF Sorted
    <3>3. \A x \in Members(q[t]) : /\ next[x] \in Int /\ Checks(itm)[x] \in Int
                                   /\ x # i => next[x] = Checks(itm)[x]
      BY <1>4, ChecksIn
    <3>4. Ordered(HeapUpdate(q[t], next, i), next)
      BY <2>3, <3>2, <3>3, UpdateOrders
    <3>5. PICK r : r = HeapUpdate(q[t], next, i)
      OBVIOUS
    <3>6. Sorted([q EXCEPT ![t] = r], new)
      <4>1. q = [u \in QueueTypes |-> q[u]]
        BY DEF Filed
      <4>2. PICK z : z = [q EXCEPT ![t] = r]
        OBVIOUS
      <4>3. z[t] = r /\ \A u \in QueueTypes \ {t} : z[u] = q[u]
        BY <4>1, <4>2
      <4>4. ASSUME NEW u \in QueueTypes
            PROVE  Ordered(z[u], Checks(new))
        <5>1. CASE u = t
          BY <1>5, <3>4, <3>5, <4>3, <5>1
        <5>2. CASE u # t
          <6>1. IsHeap(q[u]) /\ Ordered(q[u], Checks(itm))
            BY DEF Filed, Sorted
          <6>2. i \notin Members(q[u]) /\ Members(q[u]) \subseteq Items
            BY <1>7, <1>8, <2>1, <5>2 DEF Filed
          <6>3. \A x \in Members(q[u]) : Checks(new)[x] = Checks(itm)[x]
            BY <1>4, <6>2
          <6>4. Ordered(q[u], Checks(new))
            BY <6>1, <6>3, OrderedAlike
          <6> QED
            BY <4>3, <5>2, <6>4
        <5> QED
          BY <5>1, <5>2
      <4> QED
        BY <4>2, <4>4 DEF Sorted
    <3> QED
      BY <3>1, <3>5, <3>6
  <2> QED
    BY <2>4, <2>5
<1>9. CASE rec.location # "QUEUE"
  <2>1. itm[i].location # "QUEUE"
    BY <1>9 DEF Sources
  <2>2. Sorted(q, new)
    <3>1. \A j \in Items : itm[j].location = "QUEUE" => new[j].nextcheck = itm[j].nextcheck
      BY <1>2, <2>1
    <3> QED
      BY <3>1, SortedAlike
  <2>3. CASE rec.location = "POLLER" \/ rec.poller_type = "NO"
    <3>1. UpdatedQueues(q, i, rec, ot, on) = q
      BY <1>9, <2>3 DEF UpdatedQueues
    <3> QED
      BY <2>2, <3>1
  <2>4. CASE rec.location # "POLLER" /\ rec.poller_type # "NO"
    <3>1. PICK t \in QueueTypes : t = rec.poller_type
      BY <2>4 DEF ItemRec
    <3>2. UpdatedQueues(q, i, rec, ot, on) = [q EXCEPT ![t] = HeapInsert(q[t], next, i)]
      BY <1>9, <2>4, <3>1 DEF UpdatedQueues, next
    <3>3. IsHeap(q[t]) /\ Ordered(q[t], Checks(new)) /\ i \notin Members(q[t]) /\ Members(q[t]) \subseteq Items
      BY <2>1, <2>2 DEF Filed, Sorted
    <3>4. \A x \in Members(q[t]) \cup {i} : next[x] \in Int
      BY <1>4, <3>3
    <3>5. Ordered(HeapInsert(q[t], next, i), next)
      BY <1>5, <3>3, <3>4, InsertOrders
    <3>6. PICK r : r = HeapInsert(q[t], next, i)
      OBVIOUS
    <3>7. Sorted([q EXCEPT ![t] = r], new)
      <4>1. q = [u \in QueueTypes |-> q[u]]
        BY DEF Filed
      <4>2. PICK z : z = [q EXCEPT ![t] = r]
        OBVIOUS
      <4>3. z[t] = r /\ \A u \in QueueTypes \ {t} : z[u] = q[u]
        BY <4>1, <4>2
      <4>4. \A u \in QueueTypes : Ordered(z[u], Checks(new))
        BY <1>5, <2>2, <3>5, <3>6, <4>3 DEF Sorted
      <4> QED
        BY <4>2, <4>4 DEF Sorted
    <3> QED
      BY <3>2, <3>6, <3>7
  <2> QED
    BY <2>3, <2>4
<1> QED
  BY <1>8, <1>9

-----------------------------------------------------------------------------
(* What the operations leave in the queues *)

\* The head of a queue that is not empty is an item that the cache knows.
LEMMA HeadFacts ==
  ASSUME Types, Filed(queues, item), NEW p \in Procs, Size(Queue(p)) > 0
  PROVE  /\ TypeOfProc(p) \in QueueTypes
         /\ QueueHead(p) \in Items /\ QueueHead(p) \in Members(Queue(p))
         /\ item[QueueHead(p)].location = "QUEUE" /\ item[QueueHead(p)].poller_type = TypeOfProc(p)
         /\ item[QueueHead(p)].known
<1>1. PICK t \in QueueTypes : t = TypeOfProc(p)
  BY DEF TypeOfProc, QueueTypes
<1>2. Queue(p) = queues[t]
  BY <1>1 DEF Queue
<1>3. IsHeap(queues[t])
  BY DEF Filed
<1>4. queues[t][0] \in Members(queues[t])
  BY <1>2, <1>3, HeadIn
<1>5. PICK i : i = QueueHead(p)
  OBVIOUS
<1>6. i = queues[t][0]
  BY <1>2, <1>5 DEF QueueHead
<1>7. i \in Items /\ item[i].location = "QUEUE" /\ item[i].poller_type = t
  BY <1>4, <1>6 DEF Filed
<1>8. item[i].known
  BY <1>7 DEF Types, ItemTypes, ProcTypes, NoItem
<1> QED
  BY <1>1, <1>2, <1>4, <1>5, <1>6, <1>7, <1>8

\* Without its head the queue holds the other items.
LEMMA PoppedFiled ==
  ASSUME Types, Filed(queues, item), NEW p \in Procs, Size(Queue(p)) > 0, NEW new,
         new[QueueHead(p)].location # "QUEUE", \A j \in Items \ {QueueHead(p)} : new[j] = item[j]
  PROVE  Filed(Popped(p), new)
<1>1. PICK i, t : i = QueueHead(p) /\ t = TypeOfProc(p)
  OBVIOUS
<1>2. t \in QueueTypes /\ i \in Items /\ item[i].location = "QUEUE" /\ item[i].poller_type = t
  BY <1>1, HeadFacts
<1>3. Queue(p) = queues[t] /\ i = queues[t][0]
  BY <1>1 DEF Queue, QueueHead
<1>4. PICK next : next = Nextchecks(i, item[i].nextcheck)
  OBVIOUS
<1>5. PICK h : h = HeapRemoveMin(queues[t], next)
  OBVIOUS
<1>6. IsHeap(queues[t]) /\ Size(queues[t]) > 0
  BY <1>2, <1>3 DEF Filed
<1>7. IsHeap(h) /\ Members(h) = Members(queues[t]) \ {i}
  BY <1>3, <1>5, <1>6, RemoveMinKeeps
<1>8. Filed([queues EXCEPT ![t] = h], new)
  <2>1. Leaves(queues, item, new, i, t, h)
    BY <1>1, <1>2, <1>7 DEF Leaves
  <2> QED
    BY <1>1, <1>2, <2>1, LeaveFiled
<1>9. Popped(p) = [queues EXCEPT ![t] = h]
  BY <1>1, <1>4, <1>5 DEF Popped
<1> QED
  BY <1>8, <1>9

\* Without its head the queue is in order.
LEMMA PoppedSorted ==
  ASSUME Types, Filed(queues, item), Sorted(queues, item), NEW p \in Procs, Size(Queue(p)) > 0
  PROVE  Sorted(Popped(p), item)
<1>1. PICK i, t : i = QueueHead(p) /\ t = TypeOfProc(p)
  OBVIOUS
<1>2. t \in QueueTypes /\ i \in Items
  BY <1>1, HeadFacts
<1>3. Queue(p) = queues[t] /\ i = queues[t][0]
  BY <1>1 DEF Queue, QueueHead
<1>4. PICK next : next = Nextchecks(i, item[i].nextcheck)
  OBVIOUS
<1>5. next = Checks(item)
  <2>1. \A j \in Items : (IF j = i THEN item[i].nextcheck ELSE item[j].nextcheck) = item[j].nextcheck
    OBVIOUS
  <2> QED
    BY <1>4, <2>1 DEF Nextchecks, Checks
<1>6. PICK h : h = HeapRemoveMin(queues[t], next)
  OBVIOUS
<1>7. IsHeap(queues[t]) /\ Size(queues[t]) > 0 /\ Ordered(queues[t], next)
  BY <1>2, <1>3, <1>5 DEF Filed, Sorted
<1>8. \A x \in Members(queues[t]) : next[x] \in Int
  <2>1. item \in [Items -> ItemRec]
    BY DEF Types, ItemTypes, ProcTypes
  <2> QED
    BY <1>2, <1>5, <2>1, ChecksIn
<1>9. Ordered(h, next)
  BY <1>6, <1>7, <1>8, RemoveMinOrders
<1>10. Sorted([queues EXCEPT ![t] = h], item)
  BY <1>2, <1>5, <1>9, ReplacedSorted
<1>11. Popped(p) = [queues EXCEPT ![t] = h]
  BY <1>1, <1>4, <1>6 DEF Popped
<1> QED
  BY <1>10, <1>11

\* What a step does to item i: the others are as before, the queues fit again.
Refiled(i) ==
  /\ item' \in [Items -> ItemRec]
  /\ \A j \in Items \ {i} : item'[j] = item[j]
  /\ Filed(queues', item')

Renews(i) == Refiled(i) /\ item'[i].known
Kept(i) == UNCHANGED <<item, queues>> \/ Renews(i)

\* A poller puts back the head of its queue.
LEMMA PutBackDoes ==
  ASSUME Types, Filed(queues, item), NEW p \in Procs, HeadDue(p), NEW nextcheck \in Nat,
         NEW type \in QueueTypes \cup {"NO"}, PutBack(p, nextcheck, type)
  PROVE  /\ Refiled(QueueHead(p)) /\ item'[QueueHead(p)].known
         /\ Sorted(queues, item) => Sorted(queues', item')
<1>1. PICK i : i = QueueHead(p)
  OBVIOUS
<1>2. Size(Queue(p)) > 0
  BY DEF HeadDue
<1>3. i \in Items /\ item[i].known /\ item[i].location = "QUEUE"
  BY <1>1, <1>2, HeadFacts
<1>4. PICK rec : rec = [item[i] EXCEPT !.location = "NOWHERE", !.nextcheck = nextcheck, !.poller_type = type]
  OBVIOUS
<1>5. item \in [Items -> ItemRec]
  BY DEF Types, ItemTypes, ProcTypes
<1>6. rec \in ItemRec /\ rec.location = "NOWHERE" /\ rec.known = item[i].known
  BY <1>3, <1>4, <1>5 DEF ItemRec, Locations
<1>7. PICK itm : itm = [item EXCEPT ![i].location = "NOWHERE"]
  OBVIOUS
<1>8. /\ itm \in [Items -> ItemRec] /\ itm[i].location = "NOWHERE"
      /\ \A j \in Items \ {i} : itm[j] = item[j]
  BY <1>3, <1>5, <1>7 DEF ItemRec, Locations
<1>9. Filed(Popped(p), itm)
  BY <1>1, <1>2, <1>8, PoppedFiled
<1>10. PICK ot, on : ot = item[i].poller_type /\ on = item[i].nextcheck
  OBVIOUS
<1>11. /\ queues' = UpdatedQueues(Popped(p), i, rec, ot, on)
       /\ item' = [item EXCEPT ![i] = [rec EXCEPT !.location = UpdatedLocation(rec, ot)]]
  BY <1>1, <1>4, <1>10 DEF PutBack, DCupdate_item_queue
<1>12. item' = Renewed(itm, i, rec, ot)
  BY <1>3, <1>5, <1>7, <1>11 DEF Renewed
<1>13. Sources(itm, i, rec, ot)
  BY <1>6, <1>8 DEF Sources
<1>14. Filed(queues', item')
  <2>1. PICK q : q = Popped(p)
    OBVIOUS
  <2>2. Filed(UpdatedQueues(q, i, rec, ot, on), Renewed(itm, i, rec, ot))
    BY <1>3, <1>6, <1>8, <1>9, <1>13, <2>1, UpdateFiles
  <2> QED
    BY <1>11, <1>12, <2>1, <2>2
<1>15. /\ item' \in [Items -> ItemRec] /\ \A j \in Items \ {i} : item'[j] = itm[j]
       /\ rec.known => item'[i].known
  <2>1. PICK new : new = Renewed(itm, i, rec, ot)
    OBVIOUS
  <2>2. /\ new \in [Items -> ItemRec] /\ \A j \in Items \ {i} : new[j] = itm[j]
        /\ rec.known => new[i].known
    <3>1. itm \in [Items -> ItemRec] /\ i \in Items /\ rec \in ItemRec
      BY <1>3, <1>6, <1>8
    <3>2. new \in [Items -> ItemRec]
      BY <2>1, <3>1, RenewedIn
    <3>3. \A j \in Items \ {i} : new[j] = itm[j]
      BY <2>1, <3>1, RenewedIn
    <3>4. rec.known => new[i].known
      BY <2>1, <3>1, RenewedIn
    <3> QED
      BY <3>2, <3>3, <3>4
  <2> QED
    BY <1>12, <2>1, <2>2
<1>16. ASSUME Sorted(queues, item)
       PROVE  Sorted(queues', item')
  <2>1. Sorted(Popped(p), item)
    BY <1>2, <1>16, PoppedSorted
  <2>2. \A j \in Items : itm[j].nextcheck = item[j].nextcheck
    BY <1>3, <1>5, <1>7, <1>8 DEF ItemRec
  <2>3. Sorted(Popped(p), itm)
    <3>1. Checks(itm) = Checks(item)
      BY <2>2 DEF Checks
    <3> QED
      BY <2>1, <3>1 DEF Sorted
  <2>4. PICK q : q = Popped(p)
    OBVIOUS
  <2>5. /\ rec.location # "QUEUE" /\ Filed(q, itm) /\ Sorted(q, itm)
        /\ \A j \in Items \ {i} : itm[j].nextcheck = item[j].nextcheck
    BY <1>6, <1>9, <2>2, <2>3, <2>4
  <2>6. Sorted(UpdatedQueues(q, i, rec, ot, on), Renewed(itm, i, rec, ot))
    BY <1>3, <1>6, <1>8, <1>13, <2>5, UpdateSorts
  <2> QED
    BY <1>11, <1>12, <2>4, <2>6
<1>17. Refiled(i)
  BY <1>8, <1>14, <1>15 DEF Refiled
<1> QED
  BY <1>1, <1>3, <1>6, <1>15, <1>16, <1>17

\* An item taken from the head of a queue.
LEMMA TakeDoes ==
  ASSUME Types, Filed(queues, item), NEW p \in Procs, HeadDue(p), NEW location \in Locations \ {"QUEUE"},
         queues' = Popped(p), item' = [item EXCEPT ![QueueHead(p)].location = location]
  PROVE  /\ Refiled(QueueHead(p))
         /\ item'[QueueHead(p)].known /\ item'[QueueHead(p)].location = location
         /\ Sorted(queues, item) => Sorted(queues', item')
<1>1. PICK i : i = QueueHead(p)
  OBVIOUS
<1>2. Size(Queue(p)) > 0
  BY DEF HeadDue
<1>3. i \in Items /\ item[i].known /\ item[i].location = "QUEUE"
  BY <1>1, <1>2, HeadFacts
<1>4. item \in [Items -> ItemRec]
  BY DEF Types, ItemTypes, ProcTypes
<1>5. /\ item' \in [Items -> ItemRec] /\ item'[i].location = location /\ item'[i].known
      /\ \A j \in Items \ {i} : item'[j] = item[j]
      /\ item'[i].nextcheck = item[i].nextcheck
  BY <1>1, <1>3, <1>4 DEF ItemRec
<1>6. Filed(queues', item')
  <2>1. item'[i].location # "QUEUE"
    BY <1>5
  <2>2. PICK new : new = item'
    OBVIOUS
  <2>3. Filed(Popped(p), new)
    BY <1>1, <1>2, <1>5, <2>1, <2>2, PoppedFiled
  <2> QED
    BY <2>2, <2>3
<1>7. ASSUME Sorted(queues, item)
      PROVE  Sorted(queues', item')
  <2>1. Sorted(Popped(p), item)
    BY <1>2, <1>7, PoppedSorted
  <2>2. \A j \in Items : item'[j].nextcheck = item[j].nextcheck
    BY <1>5
  <2>3. Checks(item)' = Checks(item)
    BY <2>2 DEF Checks
  <2> QED
    BY <2>1, <2>3 DEF Sorted
<1> QED
  BY <1>1, <1>5, <1>6, <1>7 DEF Refiled

\* An item requeued by DCrequeue_reachable_item or DCrequeue_unreachable_item.
LEMMA RequeueDoes ==
  ASSUME Types, Filed(queues, item), NEW i \in Items, item[i].known,
         NEW old \in ItemRec, NEW type \in QueueTypes \cup {"NO"},
         old.known = item[i].known, old.location = item[i].location, old.poller_type = item[i].poller_type,
         NEW new, new = [old EXCEPT !.location = IF old.location = "POLLER" THEN "NOWHERE" ELSE old.location,
                                    !.poller_type = type],
         IF old.poller_type = "NO"
         THEN item' = [item EXCEPT ![i] = old] /\ UNCHANGED queues
         ELSE DCupdate_item_queue(queues, i, new, old.poller_type, old.nextcheck)
  PROVE  /\ Refiled(i) /\ item'[i].known
         /\ Sorted(queues, item) /\ item[i].location = "POLLER" => Sorted(queues', item')
<1>1. item \in [Items -> ItemRec]
  BY DEF Types, ItemTypes, ProcTypes
<1>2. CASE old.poller_type = "NO"
  <2>1. item' = [item EXCEPT ![i] = old] /\ queues' = queues
    BY <1>2
  <2>2. /\ item' \in [Items -> ItemRec] /\ item'[i] = old
        /\ \A j \in Items \ {i} : item'[j] = item[j]
    BY <1>1, <2>1
  <2>3. old.location # "QUEUE"
    BY <1>2 DEF Filed, QueueTypes
  <2>4. Filed(queues', item')
    <3>1. \A j \in Items : /\ item'[j].location = item[j].location
                           /\ item'[j].poller_type = item[j].poller_type
      BY <2>2
    <3>2. Filed(queues, item')
      BY <3>1, FiledAlike
    <3> QED
      BY <2>1, <3>2
  <2>5. ASSUME Sorted(queues, item)
        PROVE  Sorted(queues', item')
    <3>1. \A j \in Items : item[j].location = "QUEUE" => item'[j].nextcheck = item[j].nextcheck
      BY <2>2, <2>3
    <3>2. Sorted(queues, item')
      BY <2>5, <3>1, SortedAlike
    <3> QED
      BY <2>1, <3>2
  <2> QED
    BY <2>2, <2>4, <2>5 DEF Refiled
<1>3. CASE old.poller_type # "NO"
  <2>1. PICK ot, on : ot = old.poller_type /\ on = old.nextcheck
    OBVIOUS
  <2>2. /\ queues' = UpdatedQueues(queues, i, new, ot, on)
        /\ item' = Renewed(item, i, new, ot)
    BY <1>3, <2>1 DEF DCupdate_item_queue, Renewed
  <2>3. /\ new \in ItemRec /\ new.known = old.known
        /\ new.location = IF old.location = "POLLER" THEN "NOWHERE" ELSE old.location
    BY DEF ItemRec, Locations
  <2>4. Sources(item, i, new, ot)
    BY <2>1, <2>3 DEF Sources
  <2>5. Filed(queues', item')
    BY <1>1, <2>2, <2>3, <2>4, UpdateFiles
  <2>6. /\ item' \in [Items -> ItemRec] /\ \A j \in Items \ {i} : item'[j] = item[j]
        /\ new.known => item'[i].known
    <3>1. PICK itm : itm = Renewed(item, i, new, ot)
      OBVIOUS
    <3>2. /\ itm \in [Items -> ItemRec] /\ \A j \in Items \ {i} : itm[j] = item[j]
          /\ new.known => itm[i].known
      <4>1. item \in [Items -> ItemRec] /\ new \in ItemRec
        BY <1>1, <2>3
      <4>2. itm \in [Items -> ItemRec]
        BY <3>1, <4>1, RenewedIn
      <4>3. \A j \in Items \ {i} : itm[j] = item[j]
        BY <3>1, <4>1, RenewedIn
      <4>4. new.known => itm[i].known
        <5>1. PICK rec \in ItemRec : rec = new
          BY <4>1
        <5>2. itm = Renewed(item, i, rec, ot)
          BY <3>1, <5>1
        <5>3. rec.known => itm[i].known
          BY <4>1, <5>2, RenewedIn
        <5> QED
          BY <5>1, <5>3
      <4> QED
        BY <4>2, <4>3, <4>4
    <3> QED
      BY <2>2, <3>1, <3>2
  <2>7. ASSUME Sorted(queues, item), item[i].location = "POLLER"
        PROVE  Sorted(queues', item')
    <3>1. new.location = "NOWHERE"
      BY <2>3, <2>7
    <3> QED
      BY <1>1, <2>2, <2>3, <2>4, <2>7, <3>1, UpdateSorts
  <2> QED
    BY <2>3, <2>5, <2>6, <2>7 DEF Refiled
<1> QED
  BY <1>2, <1>3

\* DCrequeue_reachable_item and DCrequeue_unreachable_item
LEMMA ReachableDoes ==
  ASSUME Types, Filed(queues, item), NEW i \in Items, item[i].known, NEW state \in States, NEW t \in Nat,
         DCrequeue_reachable_item(i, state, t)
  PROVE  /\ Refiled(i) /\ item'[i].known
         /\ Sorted(queues, item) /\ item[i].location = "POLLER" => Sorted(queues', item')
<1>1. PICK n \in Nat : n = DCget_reachable_nextcheck(i, state, t)
  BY ReachableIn
<1>2. PICK old : old = [item[i] EXCEPT !.state = state, !.nextcheck = n]
  OBVIOUS
<1>3. item[i] \in ItemRec
  BY DEF Types, ItemTypes, ProcTypes
<1>4. /\ old \in ItemRec /\ old.known = item[i].known /\ old.location = item[i].location
      /\ old.poller_type = item[i].poller_type
  BY <1>2, <1>3 DEF ItemRec
<1>5. poller_by_item \in QueueTypes \cup {"NO"}
  BY DEF poller_by_item, QueueTypes
<1>6. PICK type : type = IF old.poller_type = "UNREACHABLE" THEN poller_by_item ELSE old.poller_type
  OBVIOUS
<1>7. type \in QueueTypes \cup {"NO"}
  BY <1>4, <1>5, <1>6 DEF ItemRec
<1>8. PICK new : new = [old EXCEPT !.location = IF old.location = "POLLER" THEN "NOWHERE" ELSE old.location,
                                   !.poller_type = type]
  OBVIOUS
<1>9. new = [old EXCEPT !.location = IF @ = "POLLER" THEN "NOWHERE" ELSE @,
                        !.poller_type = IF @ = "UNREACHABLE" THEN poller_by_item ELSE @]
  BY <1>4, <1>6, <1>8 DEF ItemRec
<1>10. IF old.poller_type = "NO"
       THEN item' = [item EXCEPT ![i] = old] /\ UNCHANGED queues
       ELSE DCupdate_item_queue(queues, i, new, old.poller_type, old.nextcheck)
  BY <1>1, <1>2, <1>9 DEF DCrequeue_reachable_item
<1> QED
  BY <1>4, <1>7, <1>8, <1>10, RequeueDoes

LEMMA UnreachableDoes ==
  ASSUME Types, Filed(queues, item), NEW i \in Items, item[i].known, NEW state \in States,
         DCrequeue_unreachable_item(i, state)
  PROVE  /\ Refiled(i) /\ item'[i].known
         /\ Sorted(queues, item) /\ item[i].location = "POLLER" => Sorted(queues', item')
<1>1. PICK n \in Nat : n = DCget_unreachable_nextcheck(i, state)
  BY UnreachableIn
<1>2. PICK old : old = [item[i] EXCEPT !.state = state, !.nextcheck = n]
  OBVIOUS
<1>3. item[i] \in ItemRec
  BY DEF Types, ItemTypes, ProcTypes
<1>4. /\ old \in ItemRec /\ old.known = item[i].known /\ old.location = item[i].location
      /\ old.poller_type = item[i].poller_type
  BY <1>2, <1>3 DEF ItemRec
<1>5. PICK type \in QueueTypes \cup {"NO"} : type = "UNREACHABLE"
  BY DEF QueueTypes
<1>6. PICK new : new = [old EXCEPT !.location = IF old.location = "POLLER" THEN "NOWHERE" ELSE old.location,
                                   !.poller_type = type]
  OBVIOUS
<1>7. new = [old EXCEPT !.location = IF @ = "POLLER" THEN "NOWHERE" ELSE @,
                        !.poller_type = "UNREACHABLE"]
  BY <1>4, <1>5, <1>6 DEF ItemRec
<1>8. IF old.poller_type = "NO"
      THEN item' = [item EXCEPT ![i] = old] /\ UNCHANGED queues
      ELSE DCupdate_item_queue(queues, i, new, old.poller_type, old.nextcheck)
  BY <1>1, <1>2, <1>7 DEF DCrequeue_unreachable_item
<1> QED
  BY <1>4, <1>6, <1>8, RequeueDoes

\* Return: the item of a poller goes back.
LEMMA ReturnDoes ==
  ASSUME Types, Filed(queues, item), NEW p \in Procs, proc[p].pc = "requeue", Return(p),
         NEW i, i = proc[p].item
  PROVE  /\ i \in Items
         /\ Kept(i)
         /\ Sorted(queues, item) /\ item[i].known /\ item[i].location = "POLLER"
               => Sorted(queues', item')
<1>1. i = proc[p].item
  OBVIOUS
<1>2. i \in Items
  BY <1>1 DEF Types, ItemTypes, ProcTypes, Held
<1>3. proc[p] \in ProcRec
  BY DEF Types, ItemTypes, ProcTypes
<1>4. proc[p].ts \in Nat /\ StateAfter(p) \in States
  BY <1>3 DEF ProcRec, StateAfter, States, Results
<1>5. CASE ~ item[i].known
  <2>1. UNCHANGED <<item, queues>>
    BY <1>1, <1>5 DEF Return
  <2> QED
    BY <1>2, <1>5, <2>1 DEF Kept
<1>6. CASE item[i].known /\ proc[p].result # "NETWORK_ERROR"
  <2>1. DCrequeue_reachable_item(i, StateAfter(p), proc[p].ts)
    BY <1>1, <1>6 DEF Return
  <2>2. /\ Refiled(i) /\ item'[i].known
        /\ Sorted(queues, item) /\ item[i].location = "POLLER" => Sorted(queues', item')
    BY <1>2, <1>4, <1>6, <2>1, ReachableDoes
  <2> QED
    BY <1>2, <2>2 DEF Kept, Renews
<1>7. CASE item[i].known /\ proc[p].result = "NETWORK_ERROR"
  <2>1. DCrequeue_unreachable_item(i, StateAfter(p))
    BY <1>1, <1>7 DEF Return
  <2>2. /\ Refiled(i) /\ item'[i].known
        /\ Sorted(queues, item) /\ item[i].location = "POLLER" => Sorted(queues', item')
    BY <1>2, <1>4, <1>7, <2>1, UnreachableDoes
  <2> QED
    BY <1>2, <2>2 DEF Kept, Renews
<1> QED
  BY <1>5, <1>6, <1>7

\* A history syncer requeues an item that it has not taken.
LEMMA RejectDoes ==
  ASSUME Types, Filed(queues, item), NEW i \in Items, RejectValue(i)
  PROVE  Kept(i)
<1>1. CASE item[i].known
  <2>1. PICK t \in Nat : t = value[i]
    BY DEF Types
  <2>2. DCrequeue_reachable_item(i, "NOTSUPPORTED", t)
    BY <1>1, <2>1 DEF RejectValue
  <2>3. "NOTSUPPORTED" \in States
    BY DEF States
  <2>4. Refiled(i) /\ item'[i].known
    BY <1>1, <2>2, <2>3, ReachableDoes
  <2> QED
    BY <2>4 DEF Kept, Renews
<1>2. CASE ~ item[i].known
  <2>1. ~ item[i].known => UNCHANGED <<item, queues>>
    BY DEF RejectValue
  <2>2. UNCHANGED <<item, queues>>
    BY <1>2, <2>1
  <2> QED
    BY <2>2 DEF Kept
<1> QED
  BY <1>1, <1>2

\* A row of the items table.
LEMMA SyncRowDoes ==
  ASSUME Types, Filed(queues, item), NEW i \in Items, SyncRow(i)
  PROVE  /\ Refiled(i) /\ item'[i].known
         /\ item[i].location = "POLLER" => item'[i].location = "POLLER"
         /\ Sorted(queues, item) /\ ~ byProxy => Sorted(queues', item')
<1>1. PICK d \in Delays[i], st \in States :
        LET row == [item[i] EXCEPT !.known = TRUE, !.delay = d, !.poller_type = SyncedType(i)]
            new == [row EXCEPT !.state = st,
                               !.nextcheck = calculate_item_nextcheck(i, IntervalOf(st, d), now)]
            old == [row EXCEPT !.nextcheck = IF item[i].state = "NORMAL" /\ d # item[i].delay
                                             THEN calculate_item_nextcheck(i, d, now) ELSE @]
        IN  DCupdate_item_queue(queues, i, IF item[i].known THEN old ELSE new,
                                item[i].poller_type, item[i].nextcheck)
  BY DEF SyncRow
<1>2. item \in [Items -> ItemRec] /\ item[i] \in ItemRec /\ now \in Nat
  BY DEF Types, ItemTypes, ProcTypes
<1>3. d \in Nat
  BY TimesAssumption
<1>4. PICK n \in Nat : n = calculate_item_nextcheck(i, d, now)
  BY <1>2, <1>3, NextcheckIn
<1>5. IntervalOf(st, d) \in Nat
  BY <1>3, IntervalOfIn
<1>6. PICK k \in Nat : k = calculate_item_nextcheck(i, IntervalOf(st, d), now)
  <2>1. PICK l \in Nat : l = IntervalOf(st, d)
    BY <1>5
  <2>2. calculate_item_nextcheck(i, l, now) \in Nat
    BY <1>2, <2>1, NextcheckIn
  <2> QED
    BY <2>1, <2>2
<1>7. PICK type \in QueueTypes \cup {"NO"} : type = SyncedType(i)
  BY DEF SyncedType, poller_by_item, QueueTypes
<1>8. PICK row : row = [item[i] EXCEPT !.known = TRUE, !.delay = d, !.poller_type = type]
  OBVIOUS
<1>9. /\ row \in ItemRec /\ row.known /\ row.location = item[i].location /\ row.poller_type = type
      /\ row.nextcheck = item[i].nextcheck
  BY <1>2, <1>3, <1>8 DEF ItemRec
<1>10. PICK rec : rec = IF item[i].known
                        THEN [row EXCEPT !.nextcheck = IF item[i].state = "NORMAL" /\ d # item[i].delay THEN n ELSE @]
                        ELSE [row EXCEPT !.state = st, !.nextcheck = k]
  OBVIOUS
<1>11. rec \in ItemRec /\ rec.known /\ rec.location = item[i].location /\ rec.poller_type = type
  BY <1>9, <1>10 DEF ItemRec
<1>12. PICK ot, on : ot = item[i].poller_type /\ on = item[i].nextcheck
  OBVIOUS
<1>13. queues' = UpdatedQueues(queues, i, rec, ot, on) /\ item' = Renewed(item, i, rec, ot)
  <2>1. DCupdate_item_queue(queues, i, rec, ot, on)
    BY <1>1, <1>4, <1>6, <1>7, <1>8, <1>10, <1>12
  <2> QED
    BY <2>1 DEF DCupdate_item_queue, Renewed
<1>14. Sources(item, i, rec, ot)
  BY <1>11, <1>12 DEF Sources
<1>15. Filed(queues', item')
  <2>1. Filed(UpdatedQueues(queues, i, rec, ot, on), Renewed(item, i, rec, ot))
    BY <1>2, <1>11, <1>14, UpdateFiles
  <2> QED
    BY <1>13, <2>1
<1>16. PICK new : new = Renewed(item, i, rec, ot)
  OBVIOUS
<1>17. item \in [Items -> ItemRec] /\ rec \in ItemRec
  BY <1>2, <1>11
<1>18. new \in [Items -> ItemRec]
  BY <1>16, <1>17, RenewedIn
<1>19. \A j \in Items \ {i} : new[j] = item[j]
  BY <1>16, <1>17, RenewedIn
<1>20. rec.known => new[i].known
  BY <1>16, <1>17, RenewedIn
<1>21. new[i].location = UpdatedLocation(rec, ot)
  BY <1>16, <1>17, RenewedIn
<1>22. item[i].location = "POLLER" => new[i].location = "POLLER"
  BY <1>11, <1>21 DEF UpdatedLocation
<1>23. ASSUME Sorted(queues, item), ~ byProxy
       PROVE  Sorted(queues', item')
  <2>1. rec.location = "QUEUE" => ot = rec.poller_type /\ on = item[i].nextcheck
    <3>1. ASSUME item[i].location = "QUEUE"
          PROVE  item[i].poller_type = type
      <4>1. item[i].poller_type \in QueueTypes
        BY <3>1 DEF Filed
      <4> QED
        BY <1>7, <1>23, <4>1 DEF SyncedType, poller_by_item, QueueTypes
    <3> QED
      BY <1>11, <1>12, <3>1
  <2>2. Sorted(UpdatedQueues(queues, i, rec, ot, on), Renewed(item, i, rec, ot))
    BY <1>2, <1>11, <1>14, <1>23, <2>1, UpdateSorts
  <2> QED
    BY <1>13, <2>2
<1>24. item' = new
  BY <1>13, <1>16
<1> QED
  BY <1>11, <1>15, <1>18, <1>19, <1>20, <1>22, <1>23, <1>24 DEF Refiled

\* The sync removes an item, from its queue too.
LEMMA SyncDeleteDoes ==
  ASSUME Types, Filed(queues, item), NEW i \in Items, SyncDelete(i)
  PROVE  Refiled(i) /\ item'[i] = NoItem
<1>1. item \in [Items -> ItemRec]
  BY DEF Types, ItemTypes, ProcTypes
<1>2. item' = [item EXCEPT ![i] = NoItem] /\ queues' = Dequeued(i)
  BY DEF SyncDelete
<1>3. PICK new : new = [item EXCEPT ![i] = NoItem]
  OBVIOUS
<1>4. /\ new \in [Items -> ItemRec] /\ new[i] = NoItem
      /\ \A j \in Items \ {i} : new[j] = item[j]
  BY <1>1, <1>3, NoItemIn
<1>5. new[i].location = "NOWHERE"
  BY <1>4 DEF NoItem
<1>6. Filed(Dequeued(i), new)
  <2>1. CASE item[i].location = "QUEUE"
    <3>1. PICK t \in QueueTypes : t = item[i].poller_type
      BY <2>1 DEF Filed
    <3>2. IsHeap(queues[t]) /\ i \in Members(queues[t])
      BY <2>1, <3>1 DEF Filed
    <3>3. PICK next : next = Nextchecks(i, item[i].nextcheck)
      OBVIOUS
    <3>4. PICK h : h = HeapRemove(queues[t], next, i)
      OBVIOUS
    <3>5. IsHeap(h) /\ Members(h) = Members(queues[t]) \ {i}
      BY <3>2, <3>4, RemoveKeeps
    <3>6. Filed([queues EXCEPT ![t] = h], new)
      <4>1. Leaves(queues, item, new, i, t, h)
        BY <1>4, <1>5, <2>1, <3>1, <3>5 DEF Leaves
      <4> QED
        BY <4>1, LeaveFiled
    <3>7. Dequeued(i) = [queues EXCEPT ![t] = h]
      BY <2>1, <3>1, <3>3, <3>4 DEF Dequeued
    <3> QED
      BY <3>6, <3>7
  <2>2. CASE item[i].location # "QUEUE"
    <3>1. \A j \in Items : /\ new[j].location = "QUEUE" <=> item[j].location = "QUEUE"
                           /\ new[j].location = "QUEUE" => new[j].poller_type = item[j].poller_type
      BY <1>4, <1>5, <2>2
    <3>2. Filed(queues, new)
      BY <3>1, FiledAlike
    <3>3. Dequeued(i) = queues
      BY <2>2 DEF Dequeued
    <3> QED
      BY <3>2, <3>3
  <2> QED
    BY <2>1, <2>2
<1> QED
  BY <1>2, <1>3, <1>4, <1>6 DEF Refiled

-----------------------------------------------------------------------------
(* The types are kept *)

LEMMA ItemKept ==
  ASSUME Types, NEW i \in Items, Refiled(i), item'[i].known \/ item'[i] = NoItem
  PROVE  ItemTypes'
BY DEF Types, ItemTypes, Refiled

LEMMA ProcKept ==
  ASSUME Types, NEW p \in Procs, NEW r \in ProcRec, r.pc \in Held => r.item \in Items,
         proc' = [proc EXCEPT ![p] = r]
  PROVE  ProcTypes'
<1>1. proc \in [Procs -> ProcRec] /\ \A q \in Procs : proc[q].pc \in Held => proc[q].item \in Items
  BY DEF Types, ProcTypes
<1>2. \A q \in Procs : proc'[q] = IF q = p THEN r ELSE proc[q]
  BY <1>1
<1>3. proc' \in [Procs -> ProcRec]
  BY <1>1
<1> QED
  BY <1>1, <1>2, <1>3 DEF ProcTypes

LEMMA KeptItem ==
  ASSUME Types, Filed(queues, item), NEW i \in Items, Kept(i)
  PROVE  ItemTypes' /\ Filed(queues, item)'
<1>1. CASE UNCHANGED <<item, queues>>
  BY <1>1 DEF Types, ItemTypes
<1>2. CASE Renews(i)
  BY <1>2, ItemKept DEF Renews, Refiled
<1> QED
  BY <1>1, <1>2 DEF Kept

LEMMA ItemSame == ASSUME Types, item' = item PROVE ItemTypes'
BY DEF Types, ItemTypes

LEMMA ProcSame == ASSUME Types, proc' = proc PROVE ProcTypes'
BY DEF Types, ProcTypes

\* What a poller does with its locals between taking an item and returning it.
LEMMA LocalsKept ==
  ASSUME Types, NEW p \in Procs
  PROVE  /\ GetStart(p) \/ GetLock(p) \/ NothingDue(p) \/ GetValue(p) \/ AvailUnneeded(p) => ProcTypes'
         /\ db_host_update_availability(p) => ProcTypes'
         /\ \A new \in HostRec : SetHost(p, new) /\ proc[p].pc \in Held => ProcTypes'
         /\ DCrequeue_items(p) => ProcTypes'
<1>1. proc \in [Procs -> ProcRec] /\ proc[p] \in ProcRec /\ (proc[p].pc \in Held => proc[p].item \in Items)
  BY DEF Types, ProcTypes
<1>2. now \in Nat /\ host \in HostRec
  BY DEF Types
<1>3. ASSUME GetStart(p) PROVE ProcTypes'
  <2>1. PICK r : r = [proc[p] EXCEPT !.pc = "lock", !.now = now]
    OBVIOUS
  <2>2. r \in ProcRec /\ r.pc = "lock"
    BY <1>1, <1>2, <2>1 DEF ProcRec
  <2>3. proc' = [proc EXCEPT ![p] = r]
    BY <1>1, <1>3, <2>1 DEF GetStart
  <2> QED
    BY <2>2, <2>3, ProcKept DEF Held
<1>4. ASSUME GetLock(p) PROVE ProcTypes'
  <2>1. PICK r : r = [proc[p] EXCEPT !.pc = "scan"]
    OBVIOUS
  <2>2. r \in ProcRec /\ r.pc = "scan"
    BY <1>1, <2>1 DEF ProcRec
  <2>3. proc' = [proc EXCEPT ![p] = r]
    BY <1>1, <1>4, <2>1 DEF GetLock
  <2> QED
    BY <2>2, <2>3, ProcKept DEF Held
<1>5. ASSUME NothingDue(p) \/ DCrequeue_items(p) PROVE ProcTypes'
  <2>1. proc' = [proc EXCEPT ![p] = NoProc]
    BY <1>5 DEF NothingDue, DCrequeue_items
  <2>2. NoProc.pc \notin Held
    BY DEF NoProc, Held
  <2> QED
    BY <2>1, <2>2, NoProcIn, ProcKept
<1>6. ASSUME GetValue(p) PROVE ProcTypes'
  <2>1. PICK v \in Results : proc' = [proc EXCEPT ![p].pc = "avail", ![p].result = v, ![p].ts = now]
    BY <1>6 DEF GetValue
  <2>2. PICK r : r = [proc[p] EXCEPT !.pc = "avail", !.result = v, !.ts = now]
    OBVIOUS
  <2>3. r \in ProcRec /\ r.item = proc[p].item
    BY <1>1, <1>2, <2>2 DEF ProcRec
  <2>4. proc' = [proc EXCEPT ![p] = r]
    BY <1>1, <2>1, <2>2
  <2>5. r.item \in Items
    BY <1>1, <1>6, <2>3 DEF GetValue, Held
  <2> QED
    BY <2>3, <2>4, <2>5, ProcKept
<1>7. ASSUME AvailUnneeded(p) PROVE ProcTypes'
  <2>1. PICK r : r = [proc[p] EXCEPT !.pc = "requeue", !.host = NewHost]
    OBVIOUS
  <2>2. r \in ProcRec /\ r.item = proc[p].item
    BY <1>1, <2>1, NewHostIn DEF ProcRec
  <2>3. proc' = [proc EXCEPT ![p] = r]
    BY <1>1, <1>7, <2>1 DEF AvailUnneeded
  <2>4. r.item \in Items
    BY <1>1, <1>7, <2>2 DEF AvailUnneeded, Held
  <2> QED
    BY <2>2, <2>3, <2>4, ProcKept
<1>8. ASSUME db_host_update_availability(p) PROVE ProcTypes'
  <2>1. PICK r : r = [proc[p] EXCEPT !.pc = "requeue", !.before = NewHost, !.after = NewHost]
    OBVIOUS
  <2>2. r \in ProcRec /\ r.item = proc[p].item
    BY <1>1, <2>1, NewHostIn DEF ProcRec
  <2>3. proc' = [proc EXCEPT ![p] = r]
    BY <1>1, <1>8, <2>1 DEF db_host_update_availability
  <2>4. r.item \in Items
    BY <1>1, <1>8, <2>2 DEF db_host_update_availability, Held
  <2> QED
    BY <2>2, <2>3, <2>4, ProcKept
<1>9. ASSUME NEW new \in HostRec, SetHost(p, new), proc[p].pc \in Held PROVE ProcTypes'
  <2>1. PICK r : r = [proc[p] EXCEPT !.pc = "db", !.host = NewHost, !.before = host, !.after = new]
    OBVIOUS
  <2>2. r \in ProcRec /\ r.item = proc[p].item
    BY <1>1, <1>2, <2>1, NewHostIn DEF ProcRec
  <2>3. proc' = [proc EXCEPT ![p] = r]
    BY <1>1, <1>9, <2>1 DEF SetHost
  <2> QED
    BY <1>1, <1>9, <2>2, <2>3, ProcKept
<1> QED
  BY <1>3, <1>4, <1>5, <1>6, <1>7, <1>8, <1>9

LEMMA ActivatedIn == Activated \in HostRec
BY DEF Activated, HostRec

LEMMA DeactivatedIn ==
  ASSUME Types, NEW ts \in Nat
  PROVE  Deactivated(ts) \in HostRec
<1>1. host \in HostRec
  BY DEF Types
<1>2. UnreachableDelay \in Nat /\ UnavailableDelay \in Nat /\ UnreachablePeriod \in Nat
  BY TimesAssumption
<1>3. host.errors_from \in Nat
  BY <1>1 DEF HostRec
<1>4. PICK failing \in Int : failing = ts - host.errors_from
  BY <1>3
<1>5. [host EXCEPT !.errors_from = ts, !.disable_until = ts + UnreachableDelay] \in HostRec
  <2>1. PICK n \in Nat : n = ts + UnreachableDelay
    BY <1>2
  <2>2. [host EXCEPT !.errors_from = ts, !.disable_until = n] \in HostRec
    BY <1>1 DEF HostRec
  <2> QED
    BY <2>1, <2>2
<1>6. [host EXCEPT !.disable_until = ts + UnreachableDelay] \in HostRec
  BY <1>1, <1>2 DEF HostRec
<1>7. [host EXCEPT !.disable_until = ts + UnavailableDelay, !.available = "FALSE"] \in HostRec
  <2>1. PICK n \in Nat : n = ts + UnavailableDelay
    BY <1>2
  <2>2. [host EXCEPT !.disable_until = n, !.available = "FALSE"] \in HostRec
    BY <1>1 DEF HostRec
  <2> QED
    BY <2>1, <2>2
<1>8. \/ Deactivated(ts) = [host EXCEPT !.errors_from = ts, !.disable_until = ts + UnreachableDelay]
      \/ Deactivated(ts) = [host EXCEPT !.disable_until = ts + UnreachableDelay]
      \/ Deactivated(ts) = [host EXCEPT !.disable_until = ts + UnavailableDelay, !.available = "FALSE"]
      \/ Deactivated(ts) = host
  BY DEF Deactivated
<1> QED
  BY <1>1, <1>5, <1>6, <1>7, <1>8

LEMMA WrittenIn ==
  ASSUME Types, NEW p \in Procs
  PROVE  Written(p) \in HostRec
<1>1. dbhost \in HostRec /\ proc[p].after \in HostRec
  BY DEF Types, ProcTypes, ProcRec
<1>2. DOMAIN dbhost = {"errors_from", "available", "disable_until"}
  BY <1>1 DEF HostRec
<1>3. PICK w : w = Written(p)
  OBVIOUS
<1>4. /\ w = [f \in {"errors_from", "available", "disable_until"} |-> w[f]]
      /\ \A f \in {"errors_from", "available", "disable_until"} : w[f] = dbhost[f] \/ w[f] = proc[p].after[f]
  BY <1>2, <1>3 DEF Written
<1>5. w["errors_from"] \in Nat /\ w["disable_until"] \in Nat /\ w["available"] \in {"UNKNOWN", "TRUE", "FALSE"}
  BY <1>1, <1>4 DEF HostRec
<1> QED
  BY <1>3, <1>4, <1>5 DEF HostRec

LEMMA PostponeIs ==
  ASSUME Types, Filed(queues, item), NEW p \in Procs, Postpone(p)
  PROVE  /\ HeadDue(p)
         /\ \E n \in Nat, type \in QueueTypes \cup {"NO"} : PutBack(p, n, type)
<1>1. HeadDue(p)
  BY DEF Postpone
<1>2. PICK i : i = QueueHead(p)
  OBVIOUS
<1>3. i \in Items
  BY <1>1, <1>2, HeadFacts DEF HeadDue
<1>4. item[i] \in ItemRec /\ proc[p] \in ProcRec /\ host \in HostRec
  BY <1>3 DEF Types, ItemTypes, ProcTypes
<1>5. item[i].nextcheck \in Nat /\ item[i].poller_type \in QueueTypes \cup {"NO"} /\ proc[p].now \in Nat
  BY <1>4 DEF ItemRec, ProcRec
<1>6. PICK r \in Nat : r = DCget_reachable_nextcheck(i, item[i].state, proc[p].now)
  BY <1>3, <1>5, ReachableIn
<1>7. PICK u \in Nat : u = DCget_disable_until
  BY <1>4 DEF DCget_disable_until, HostRec
<1>8. poller_by_item \in QueueTypes \cup {"NO"} /\ "UNREACHABLE" \in QueueTypes \cup {"NO"}
  BY DEF poller_by_item, QueueTypes
<1>9. \/ PutBack(p, r, item[i].poller_type)
      \/ PutBack(p, r, poller_by_item)
      \/ PutBack(p, IF u > proc[p].now THEN u ELSE item[i].nextcheck, "UNREACHABLE")
      \/ PutBack(p, u, item[i].poller_type)
  BY <1>2, <1>6, <1>7 DEF Postpone
<1>10. (IF u > proc[p].now THEN u ELSE item[i].nextcheck) \in Nat
  BY <1>5
<1> HIDE DEF QueueTypes
<1> QED
  BY <1>1, <1>5, <1>8, <1>9, <1>10

LEMMA TakenLocals ==
  ASSUME Types, Filed(queues, item), NEW p \in Procs, TakeItem(p)
  PROVE  /\ ProcTypes' /\ host' \in HostRec
         /\ proc'[p].pc = "poll" /\ proc'[p].item = QueueHead(p)
         /\ \A q \in Procs \ {p} : proc'[q] = proc[q]
<1>1. PICK i : i = QueueHead(p)
  OBVIOUS
<1>2. i \in Items
  BY <1>1, HeadFacts DEF TakeItem, HeadDue
<1>3. proc \in [Procs -> ProcRec] /\ proc[p] \in ProcRec /\ host \in HostRec /\ item[i] \in ItemRec
  BY <1>2 DEF Types, ItemTypes, ProcTypes
<1>4. proc[p].now \in Nat /\ Timeout \in Nat /\ item[i].state \in States
  BY <1>3, TimesAssumption DEF ProcRec, ItemRec
<1>5. host' \in HostRec
  BY <1>3, <1>4 DEF TakeItem, Increased, HostRec
<1>6. PICK copy : copy = [host' EXCEPT !.disable_until = 0]
  OBVIOUS
<1>7. copy \in HostRec
  BY <1>5, <1>6 DEF HostRec
<1>8. PICK r : r = [proc[p] EXCEPT !.pc = "poll", !.item = i, !.host = copy, !.state = item[i].state, !.now = 0]
  OBVIOUS
<1>9. r \in ProcRec /\ r.pc = "poll" /\ r.item = i
  BY <1>2, <1>3, <1>4, <1>7, <1>8 DEF ProcRec
<1>10. proc' = [proc EXCEPT ![p].pc = "poll", ![p].item = i, ![p].host = copy,
                           ![p].state = item[i].state, ![p].now = 0]
  BY <1>1, <1>6 DEF TakeItem
<1>11. proc' = [proc EXCEPT ![p] = r]
  BY <1>3, <1>8, <1>10
<1>12. ProcTypes'
  BY <1>2, <1>9, <1>11, ProcKept
<1> QED
  BY <1>1, <1>3, <1>5, <1>9, <1>11, <1>12

\* The step of the first part of the invariant.
LEMMA TypesStep ==
  ASSUME Types, Filed(queues, item), [Next]_vars
  PROVE  Types' /\ Filed(queues, item)'
<1>1. \A i \in Items : Refiled(i) => Filed(queues, item)'
  BY DEF Refiled
<1>2. item' = item /\ queues' = queues => Filed(queues, item)'
  OBVIOUS
<1> USE DEF Types
<1> DEFINE Rest == /\ now' = now /\ host' = host /\ dbhost' = dbhost /\ lock' = lock /\ sync' = sync
                   /\ maintenance' = maintenance /\ byProxy' = byProxy /\ value' = value
                   /\ refresh_unsupported' = refresh_unsupported /\ rejected' = rejected
<1>3. ASSUME NEW p \in Procs, GetStart(p) \/ GetLock(p) \/ NothingDue(p) \/ GetValue(p) \/ AvailUnneeded(p)
      PROVE  Types' /\ Filed(queues, item)'
  <2>1. ProcTypes'
    BY <1>3, LocalsKept
  <2>2. /\ item' = item /\ queues' = queues /\ now' = now /\ host' = host /\ dbhost' = dbhost
        /\ maintenance' = maintenance /\ byProxy' = byProxy /\ refresh_unsupported' = refresh_unsupported
        /\ sync' = sync /\ value' = value /\ rejected' = rejected /\ lock' \in {lock, p, "free"}
    BY <1>3 DEF GetStart, GetLock, NothingDue, GetValue, AvailUnneeded, config, counts
  <2>3. ItemTypes'
    BY <2>2, ItemSame
  <2> QED
    BY <1>2, <2>1, <2>2, <2>3
<1>4. ASSUME NEW p \in Procs, DropItem(p)
      PROVE  Types' /\ Filed(queues, item)'
  <2>1. PICK i : i = QueueHead(p)
    OBVIOUS
  <2>2. i \in Items
    BY <1>4, <2>1, HeadFacts DEF DropItem, HeadDue
  <2>3. Refiled(i) /\ item'[i].known
    <3>1. "NOWHERE" \in Locations \ {"QUEUE"}
      BY DEF Locations
    <3> QED
      BY <1>4, <2>1, <3>1, TakeDoes DEF DropItem
  <2>4. Rest /\ proc' = proc
    BY <1>4 DEF DropItem, config, counts
  <2>5. ItemTypes' /\ ProcTypes'
    BY <2>2, <2>3, <2>4, ItemKept, ProcSame
  <2> QED
    BY <1>1, <2>2, <2>3, <2>4, <2>5
<1>5. ASSUME NEW p \in Procs, Postpone(p)
      PROVE  Types' /\ Filed(queues, item)'
  <2>1. PICK n \in Nat, type \in QueueTypes \cup {"NO"} : HeadDue(p) /\ PutBack(p, n, type)
    BY <1>5, PostponeIs
  <2>2. PICK i : i = QueueHead(p)
    OBVIOUS
  <2>3. i \in Items
    BY <2>1, <2>2, HeadFacts DEF HeadDue
  <2>4. Refiled(i) /\ item'[i].known
    BY <2>1, <2>2, PutBackDoes
  <2>5. Rest /\ proc' = proc
    BY <2>1 DEF PutBack, config, counts
  <2>6. ItemTypes' /\ ProcTypes'
    BY <2>3, <2>4, <2>5, ItemKept, ProcSame
  <2> QED
    BY <1>1, <2>3, <2>4, <2>5, <2>6
<1>6. ASSUME NEW p \in Procs, TakeItem(p)
      PROVE  Types' /\ Filed(queues, item)'
  <2>1. PICK i : i = QueueHead(p)
    OBVIOUS
  <2>2. i \in Items
    BY <1>6, <2>1, HeadFacts DEF TakeItem, HeadDue
  <2>3. Refiled(i) /\ item'[i].known
    <3>1. "POLLER" \in Locations \ {"QUEUE"}
      BY DEF Locations
    <3> QED
      BY <1>6, <2>1, <3>1, TakeDoes DEF TakeItem
  <2>4. /\ now' = now /\ dbhost' = dbhost
        /\ maintenance' = maintenance /\ byProxy' = byProxy /\ refresh_unsupported' = refresh_unsupported
        /\ sync' = sync /\ value' = value /\ rejected' = rejected /\ lock' = "free"
    BY <1>6 DEF TakeItem, config, counts
  <2>5. ItemTypes' /\ ProcTypes' /\ host' \in HostRec
    BY <1>6, <2>2, <2>3, ItemKept, TakenLocals
  <2> QED
    BY <1>1, <2>2, <2>3, <2>4, <2>5
<1>7. ASSUME NEW p \in Procs, DChost_activate(p) \/ DChost_deactivate(p)
      PROVE  Types' /\ Filed(queues, item)'
  <2>1. PICK new \in HostRec : SetHost(p, new)
    <3>1. proc[p].ts \in Nat
      BY DEF ProcTypes, ProcRec
    <3>2. Deactivated(proc[p].ts) \in HostRec
      <4>1. PICK ts \in Nat : ts = proc[p].ts
        BY <3>1
      <4> QED
        BY <4>1, DeactivatedIn
    <3> QED
      BY <1>7, <3>2, ActivatedIn DEF DChost_activate, DChost_deactivate
  <2>2. proc[p].pc \in Held
    BY <1>7 DEF DChost_activate, DChost_deactivate, Held
  <2>3. ProcTypes'
    BY <2>1, <2>2, LocalsKept
  <2>4. /\ item' = item /\ queues' = queues /\ now' = now /\ host' = new /\ dbhost' = dbhost /\ lock' = lock
        /\ maintenance' = maintenance /\ byProxy' = byProxy /\ refresh_unsupported' = refresh_unsupported
        /\ sync' = sync /\ value' = value /\ rejected' = rejected
    BY <2>1 DEF SetHost, config, counts
  <2>5. ItemTypes'
    BY <2>4, ItemSame
  <2> QED
    BY <1>2, <2>3, <2>4, <2>5
<1>8. ASSUME NEW p \in Procs, db_host_update_availability(p)
      PROVE  Types' /\ Filed(queues, item)'
  <2>1. ProcTypes'
    BY <1>8, LocalsKept
  <2>2. /\ item' = item /\ queues' = queues /\ now' = now /\ host' = host /\ dbhost' = Written(p) /\ lock' = lock
        /\ maintenance' = maintenance /\ byProxy' = byProxy /\ refresh_unsupported' = refresh_unsupported
        /\ sync' = sync /\ value' = value /\ rejected' = rejected
    BY <1>8 DEF db_host_update_availability, config, counts
  <2>3. ItemTypes' /\ Written(p) \in HostRec
    BY <2>2, ItemSame, WrittenIn
  <2> QED
    BY <1>2, <2>1, <2>2, <2>3
<1>9. ASSUME NEW p \in Procs, DCrequeue_items(p)
      PROVE  Types' /\ Filed(queues, item)'
  <2>1. PICK i : i = proc[p].item
    OBVIOUS
  <2>2. i \in Items /\ Kept(i)
    <3>1. proc[p].pc = "requeue" /\ Return(p)
      BY <1>9 DEF DCrequeue_items
    <3> QED
      BY <2>1, <3>1, ReturnDoes
  <2>3. ProcTypes'
    BY <1>9, LocalsKept
  <2>4. value' \in [Items -> Nat]
    <3>1. proc[p].ts \in Nat
      BY DEF ProcTypes, ProcRec
    <3>2. value' = value \/ value' = [value EXCEPT ![i] = proc[p].ts]
      BY <1>9, <2>1 DEF DCrequeue_items
    <3> QED
      BY <2>2, <3>1, <3>2
  <2>5. /\ now' = now /\ host' = host /\ dbhost' = dbhost /\ lock' = lock
        /\ maintenance' = maintenance /\ byProxy' = byProxy /\ refresh_unsupported' = refresh_unsupported
        /\ sync' = sync /\ rejected' = rejected
    BY <1>9 DEF DCrequeue_items, config, counts
  <2>6. ItemTypes' /\ Filed(queues, item)'
    BY <2>2, KeptItem
  <2> QED
    BY <2>3, <2>4, <2>5, <2>6
<1>10. ASSUME NEW i \in Items, RejectValue(i)
       PROVE  Types' /\ Filed(queues, item)'
  <2>1. Kept(i)
    BY <1>10, RejectDoes
  <2>2. /\ now' = now /\ host' = host /\ dbhost' = dbhost /\ lock' = lock /\ proc' = proc
        /\ maintenance' = maintenance /\ byProxy' = byProxy /\ refresh_unsupported' = refresh_unsupported
        /\ sync' = sync /\ rejected' = TRUE /\ value' \in [Items -> Nat]
    BY <1>10 DEF RejectValue, config, counts
  <2>3. ItemTypes' /\ Filed(queues, item)' /\ ProcTypes'
    BY <2>1, <2>2, KeptItem, ProcSame
  <2> QED
    BY <2>2, <2>3
<1>11. ASSUME NEW i \in Items, AcceptValue(i)
       PROVE  Types' /\ Filed(queues, item)'
  <2>1. /\ now' = now /\ host' = host /\ dbhost' = dbhost /\ lock' = lock /\ proc' = proc
        /\ maintenance' = maintenance /\ byProxy' = byProxy /\ refresh_unsupported' = refresh_unsupported
        /\ sync' = sync /\ rejected' = rejected /\ value' \in [Items -> Nat] /\ item' = item /\ queues' = queues
    BY <1>11 DEF AcceptValue, config, counts
  <2>2. ItemTypes' /\ ProcTypes'
    BY <2>1, ItemSame, ProcSame
  <2> QED
    BY <1>2, <2>1, <2>2
<1>12. ASSUME SyncBegin \/ SyncEnd \/ Maintain \/ Tick
       PROVE  Types' /\ Filed(queues, item)'
  <2>1. /\ host' = host /\ dbhost' = dbhost /\ proc' = proc /\ item' = item /\ queues' = queues
        /\ rejected' = rejected /\ value' = value
    BY <1>12 DEF SyncBegin, SyncEnd, Maintain, Tick, config, counts
  <2>0. now' \in 1 .. MaxTime /\ maintenance' \in BOOLEAN /\ lock' \in Procs \cup {"free", "sync"}
    <3>1. MaxTime \in Nat
      BY TimesAssumption
    <3>2. CASE SyncBegin \/ SyncEnd
      BY <3>2 DEF SyncBegin, SyncEnd, config
    <3>3. CASE Maintain
      BY <3>3 DEF Maintain
    <3>4. CASE Tick
      BY <3>1, <3>4 DEF Tick, config
    <3> QED
      BY <1>12, <3>2, <3>3, <3>4
  <2>2. byProxy' \in BOOLEAN /\ refresh_unsupported' \in Refreshes
    BY <1>12 DEF SyncBegin, SyncEnd, Maintain, Tick, config, counts
  <2>3. sync' \in [todo : SUBSET Items, rows : SUBSET Items]
    BY <1>12 DEF SyncBegin, SyncEnd, Maintain, Tick, config, counts
  <2>4. ItemTypes' /\ ProcTypes'
    BY <2>1, ItemSame, ProcSame
  <2> QED
    BY <1>2, <2>0, <2>1, <2>2, <2>3, <2>4
<1>13. ASSUME NEW i \in Items, SyncRow(i) \/ SyncDelete(i)
       PROVE  Types' /\ Filed(queues, item)'
  <2>1. Refiled(i) /\ (item'[i].known \/ item'[i] = NoItem)
    BY <1>13, SyncRowDoes, SyncDeleteDoes
  <2>2. /\ now' = now /\ host' = host /\ dbhost' = dbhost /\ lock' = lock /\ proc' = proc
        /\ maintenance' = maintenance /\ byProxy' = byProxy /\ refresh_unsupported' = refresh_unsupported
        /\ rejected' = rejected /\ value' = value
    BY <1>13 DEF SyncRow, SyncDelete, config, counts
  <2>3. sync' \in [todo : SUBSET Items, rows : SUBSET Items]
    BY <1>13 DEF SyncRow, SyncDelete
  <2>4. ItemTypes' /\ ProcTypes'
    BY <2>1, <2>2, ItemKept, ProcSame
  <2> QED
    BY <1>1, <2>1, <2>2, <2>3, <2>4
<1>14. CASE UNCHANGED vars
  <2>1. Rest /\ proc' = proc /\ item' = item /\ queues' = queues
    BY <1>14 DEF vars, config, counts
  <2>2. ItemTypes' /\ ProcTypes'
    BY <2>1, ItemSame, ProcSame
  <2> QED
    BY <1>2, <2>1, <2>2
<1> QED
  BY <1>3, <1>4, <1>5, <1>6, <1>7, <1>8, <1>9, <1>10, <1>11, <1>12, <1>13, <1>14
  DEF Next, Poller, SyncStep

LEMMA InitTypes ==
  ASSUME Init
  PROVE  Types /\ Filed(queues, item)
<1>1. now \in 1 .. MaxTime
  BY TimesAssumption DEF Init
<1>2. ItemTypes
  BY NoItemIn DEF Init, ItemTypes
<1>3. ProcTypes
  BY NoProcIn DEF Init, ProcTypes, NoProc, Held
<1>4. Types
  BY <1>1, <1>2, <1>3, NewHostIn DEF Init, Types
<1>5. Filed(queues, item)
  <2>1. \A i \in Items : item[i].location # "QUEUE"
    BY DEF Init, NoItem
  <2>2. queues = [t \in QueueTypes |-> HeapEmpty]
    BY DEF Init
  <2>3. queues = [t \in QueueTypes |-> queues[t]] /\ \A t \in QueueTypes : queues[t] = HeapEmpty
    BY <2>2
  <2>4. \A t \in QueueTypes : {i \in Items : item[i].location = "QUEUE" /\ item[i].poller_type = t} = {}
    BY <2>1
  <2> QED
    BY <2>1, <2>3, <2>4, EmptyHeap DEF Filed
<1> QED
  BY <1>4, <1>5

-----------------------------------------------------------------------------
(* Who holds an item *)

\* An item that a poller holds is taken, and nobody else holds it.
Taken ==
    \A p \in Procs, i \in Items : Holds(p, i) =>
        /\ item[i].location = "POLLER" /\ item[i].known
        /\ \A q \in Procs : Holds(q, i) => p = q

\* Until an item is deleted or requeued by a history syncer; the item may then be
\* taken by a second poller.
HeldInv == ~ MayDelete /\ ~ rejected => Taken

\* Without deletions every item has a row.
RowsInv == ~ MayDelete => sync.rows = Items \/ sync.todo = {}

\* Without unsuitable values nothing is requeued.
RejectInv == ~ MayReject => ~ rejected /\ \A i \in Items : value[i] = 0

LEMMA HoldsSame ==
  ASSUME Types, NEW p \in Procs,
         \/ GetStart(p) \/ GetLock(p) \/ NothingDue(p) \/ GetValue(p) \/ AvailUnneeded(p)
         \/ DChost_activate(p) \/ DChost_deactivate(p) \/ db_host_update_availability(p)
  PROVE  item' = item /\ rejected' = rejected /\ \A q \in Procs, i \in Items : Holds(q, i)' <=> Holds(q, i)
<1>1. proc \in [Procs -> ProcRec]
  BY DEF Types, ProcTypes
<1>2. \A q \in Procs \ {p} : proc'[q] = proc[q]
  BY <1>1 DEF GetStart, GetLock, NothingDue, GetValue, AvailUnneeded, DChost_activate, DChost_deactivate,
              SetHost, db_host_update_availability
<1>3. CASE GetStart(p)
  BY <1>1, <1>2, <1>3 DEF GetStart, Holds, ProcRec, counts
<1>4. CASE GetLock(p)
  BY <1>1, <1>2, <1>4 DEF GetLock, Holds, ProcRec, counts
<1>5. CASE NothingDue(p)
  BY <1>1, <1>2, <1>5 DEF NothingDue, Scanning, NoProc, Holds, ProcRec, counts
<1>6. CASE GetValue(p)
  <2>1. PICK r \in Results : proc' = [proc EXCEPT ![p].pc = "avail", ![p].result = r, ![p].ts = now]
    BY <1>6 DEF GetValue
  <2>2. proc'[p].pc = "avail" /\ proc'[p].item = proc[p].item /\ proc[p].pc = "poll"
    BY <1>1, <1>6, <2>1 DEF GetValue, ProcRec
  <2> QED
    BY <1>2, <1>6, <2>2 DEF GetValue, Holds, counts
<1>7. CASE AvailUnneeded(p)
  BY <1>1, <1>2, <1>7 DEF AvailUnneeded, Holds, ProcRec, counts
<1>8. CASE DChost_activate(p) \/ DChost_deactivate(p)
  <2>1. PICK new : SetHost(p, new)
    BY <1>8 DEF DChost_activate, DChost_deactivate
  <2>2. proc[p].pc = "avail"
    BY <1>8 DEF DChost_activate, DChost_deactivate
  <2>3. proc'[p].pc = "db" /\ proc'[p].item = proc[p].item
    BY <1>1, <2>1 DEF SetHost, ProcRec
  <2> QED
    BY <1>2, <2>1, <2>2, <2>3 DEF SetHost, Holds, counts
<1>9. CASE db_host_update_availability(p)
  <2>1. proc'[p].pc = "requeue" /\ proc'[p].item = proc[p].item /\ proc[p].pc = "db"
    BY <1>1, <1>9 DEF db_host_update_availability, ProcRec
  <2> QED
    BY <1>2, <1>9, <2>1 DEF db_host_update_availability, Holds, counts
<1> QED
  BY <1>3, <1>4, <1>5, <1>6, <1>7, <1>8, <1>9

LEMMA TakenFrame ==
  ASSUME Taken, \A q \in Procs, i \in Items : Holds(q, i)' <=> Holds(q, i),
         \A i \in Items : item[i].location = "POLLER" /\ item[i].known
                             => item'[i].location = "POLLER" /\ item'[i].known
  PROVE  Taken'
BY DEF Taken

\* Who takes an item finds it in the queue, where none that is held can be.
LEMMA HeldStep ==
  ASSUME Types, Filed(queues, item), RowsInv, HeldInv, [Next]_vars
  PROVE  HeldInv'
<1> SUFFICES ASSUME ~ MayDelete, ~ rejected'
             PROVE  Taken'
  BY DEF HeldInv
<1>1. item \in [Items -> ItemRec] /\ proc \in [Procs -> ProcRec]
  BY DEF Types, ItemTypes, ProcTypes
<1>2. ASSUME rejected' = rejected
      PROVE  Taken
  BY <1>2 DEF HeldInv
<1>3. ASSUME NEW i \in Items, item[i].location # "POLLER", rejected' = rejected, proc' = proc,
             \A j \in Items \ {i} : item'[j] = item[j]
      PROVE  Taken'
  <2>1. \A q \in Procs, j \in Items : Holds(q, j)' <=> Holds(q, j)
    BY <1>3 DEF Holds
  <2> QED
    BY <1>2, <1>3, <2>1, TakenFrame
<1>4. ASSUME NEW p \in Procs,
             \/ GetStart(p) \/ GetLock(p) \/ NothingDue(p) \/ GetValue(p) \/ AvailUnneeded(p)
             \/ DChost_activate(p) \/ DChost_deactivate(p) \/ db_host_update_availability(p)
      PROVE  Taken'
  BY <1>2, <1>4, HoldsSame, TakenFrame
<1>5. ASSUME NEW p \in Procs, DropItem(p)
      PROVE  Taken'
  <2>1. PICK i \in Items : i = QueueHead(p) /\ item[i].location = "QUEUE"
    BY <1>5, HeadFacts DEF DropItem, HeadDue
  <2>2. rejected' = rejected /\ proc' = proc /\ \A j \in Items \ {i} : item'[j] = item[j]
    BY <1>1, <1>5, <2>1 DEF DropItem, counts
  <2> QED
    BY <1>3, <2>1, <2>2
<1>6. ASSUME NEW p \in Procs, Postpone(p)
      PROVE  Taken'
  <2>1. PICK n \in Nat, type \in QueueTypes \cup {"NO"} : HeadDue(p) /\ PutBack(p, n, type)
    BY <1>6, PostponeIs
  <2>2. PICK i \in Items : i = QueueHead(p) /\ item[i].location = "QUEUE"
    BY <2>1, HeadFacts DEF HeadDue
  <2>3. Refiled(i)
    BY <2>1, <2>2, PutBackDoes
  <2>4. rejected' = rejected /\ proc' = proc
    BY <2>1 DEF PutBack, counts
  <2> QED
    BY <1>3, <2>2, <2>3, <2>4 DEF Refiled
<1>7. ASSUME NEW p \in Procs, TakeItem(p)
      PROVE  Taken'
  <2>1. PICK i \in Items : i = QueueHead(p) /\ item[i].location = "QUEUE" /\ item[i].known
    BY <1>7, HeadFacts DEF TakeItem, HeadDue
  <2>2. /\ item'[i].location = "POLLER" /\ item'[i].known
        /\ \A j \in Items \ {i} : item'[j] = item[j]
    <3>1. item' = [item EXCEPT ![i].location = "POLLER"]
      BY <1>7, <2>1 DEF TakeItem
    <3> QED
      BY <1>1, <2>1, <3>1 DEF ItemRec
  <2>3. Taken /\ rejected' = rejected
    BY <1>2, <1>7 DEF TakeItem, counts
  <2>4. /\ proc'[p].pc = "poll" /\ proc'[p].item = i
        /\ \A q \in Procs \ {p} : proc'[q] = proc[q]
    BY <1>7, <2>1, TakenLocals
  <2>5. \A q \in Procs : ~ Holds(q, i)
    BY <2>1, <2>3 DEF Taken
  <2>6. proc[p].pc = "scan"
    BY <1>7 DEF TakeItem, Scanning
  <2>7. \A q \in Procs, j \in Items : Holds(q, j)' => (q = p /\ j = i) \/ (q # p /\ j # i /\ Holds(q, j))
    BY <2>4, <2>5, <2>6 DEF Holds
  <2> QED
    BY <2>2, <2>3, <2>7 DEF Taken
<1>8. ASSUME NEW p \in Procs, DCrequeue_items(p)
      PROVE  Taken'
  <2>1. proc[p].pc = "requeue" /\ Return(p) /\ proc' = [proc EXCEPT ![p] = NoProc] /\ rejected' = rejected
    BY <1>8 DEF DCrequeue_items, counts
  <2>2. PICK i \in Items : i = proc[p].item /\ Kept(i)
    BY <2>1, ReturnDoes
  <2>3. \A j \in Items \ {i} : item'[j] = item[j]
    BY <2>2 DEF Kept, Renews, Refiled
  <2>4. Taken /\ Holds(p, i)
    BY <1>2, <2>1, <2>2 DEF Holds
  <2>5. \A q \in Procs, j \in Items : Holds(q, j)' => q # p /\ Holds(q, j)
    BY <1>1, <2>1 DEF Holds, NoProc
  <2>6. \A q \in Procs, j \in Items : Holds(q, j)' => j # i /\ Holds(q, j)
    BY <2>4, <2>5 DEF Taken
  <2> QED
    BY <2>3, <2>4, <2>6 DEF Taken
<1>9. ASSUME NEW i \in Items, RejectValue(i)
      PROVE  Taken'
  BY <1>9 DEF RejectValue
<1>10. ASSUME \/ \E i \in Items : AcceptValue(i)
              \/ SyncBegin \/ SyncEnd \/ Maintain \/ Tick \/ UNCHANGED vars
       PROVE  Taken'
  <2>1. proc' = proc /\ item' = item /\ rejected' = rejected
    BY <1>10 DEF AcceptValue, SyncBegin, SyncEnd, Maintain, Tick, vars, config, counts
  <2>2. \A q \in Procs, j \in Items : Holds(q, j)' <=> Holds(q, j)
    BY <2>1 DEF Holds
  <2> QED
    BY <1>2, <2>1, <2>2, TakenFrame
<1>11. ASSUME NEW i \in Items, SyncRow(i)
       PROVE  Taken'
  <2>1. /\ Refiled(i) /\ item'[i].known
        /\ item[i].location = "POLLER" => item'[i].location = "POLLER"
    BY <1>11, SyncRowDoes
  <2>2. proc' = proc /\ rejected' = rejected
    BY <1>11 DEF SyncRow, counts
  <2>3. \A q \in Procs, j \in Items : Holds(q, j)' <=> Holds(q, j)
    BY <2>2 DEF Holds
  <2>4. \A j \in Items \ {i} : item'[j] = item[j]
    BY <2>1 DEF Refiled
  <2> QED
    BY <1>2, <2>1, <2>2, <2>3, <2>4, TakenFrame
<1>12. ASSUME NEW i \in Items, SyncDelete(i)
       PROVE  FALSE
  BY <1>12 DEF SyncDelete, RowsInv
<1> QED
  BY <1>4, <1>5, <1>6, <1>7, <1>8, <1>9, <1>10, <1>11, <1>12 DEF Next, Poller, SyncStep

LEMMA RowsStep ==
  ASSUME Types, RowsInv, [Next]_vars
  PROVE  RowsInv'
<1> SUFFICES ASSUME ~ MayDelete
             PROVE  sync'.rows = Items \/ sync'.todo = {}
  BY DEF RowsInv
<1>1. sync \in [todo : SUBSET Items, rows : SUBSET Items] /\ (sync.rows = Items \/ sync.todo = {})
  BY DEF RowsInv, Types
<1>2. CASE sync' = sync
  BY <1>1, <1>2
<1>3. CASE SyncBegin
  BY <1>3 DEF SyncBegin
<1>4. CASE SyncEnd
  BY <1>1, <1>4 DEF SyncEnd
<1>5. ASSUME NEW i \in Items, SyncRow(i) \/ SyncDelete(i)
      PROVE  sync'.rows = Items \/ sync'.todo = {}
  BY <1>1, <1>5 DEF SyncRow, SyncDelete
<1>6. ASSUME NEW p \in Procs, Poller(p)
      PROVE  sync' = sync
  <2>1. Postpone(p) => sync' = sync
    BY DEF Postpone, PutBack
  <2> QED
    BY <1>6, <2>1 DEF Poller, GetStart, GetLock, NothingDue, DropItem, TakeItem, GetValue, AvailUnneeded,
      DChost_activate, DChost_deactivate, SetHost, db_host_update_availability, DCrequeue_items
<1>7. ASSUME Maintain \/ Tick \/ UNCHANGED vars \/ \E i \in Items : RejectValue(i) \/ AcceptValue(i)
      PROVE  sync' = sync
  BY <1>7 DEF Maintain, Tick, vars, RejectValue, AcceptValue
<1> QED
  BY <1>2, <1>3, <1>4, <1>5, <1>6, <1>7 DEF Next, SyncStep

LEMMA RejectStep ==
  ASSUME Types, RejectInv, [Next]_vars
  PROVE  RejectInv'
<1> SUFFICES ASSUME ~ MayReject
             PROVE  ~ rejected' /\ \A i \in Items : value'[i] = 0
  BY DEF RejectInv
<1>1. ~ rejected /\ \A i \in Items : value[i] = 0
  BY DEF RejectInv
<1>2. CASE value' = value /\ rejected' = rejected
  BY <1>1, <1>2
<1>3. ASSUME NEW i \in Items, RejectValue(i) \/ AcceptValue(i)
      PROVE  FALSE
  BY <1>1, <1>3 DEF RejectValue, AcceptValue
<1>4. ASSUME NEW p \in Procs, Poller(p)
      PROVE  value' = value /\ rejected' = rejected
  <2>1. Postpone(p) => value' = value /\ rejected' = rejected
    BY DEF Postpone, PutBack, counts
  <2> QED
    BY <1>4, <2>1 DEF Poller, GetStart, GetLock, NothingDue, DropItem, TakeItem, GetValue, AvailUnneeded,
      DChost_activate, DChost_deactivate, SetHost, db_host_update_availability, DCrequeue_items, counts
<1>5. ASSUME SyncBegin \/ SyncEnd \/ Maintain \/ Tick \/ UNCHANGED vars \/ \E i \in Items : SyncRow(i) \/ SyncDelete(i)
      PROVE  value' = value /\ rejected' = rejected
  BY <1>5 DEF SyncBegin, SyncEnd, SyncRow, SyncDelete, Maintain, Tick, vars, counts
<1> QED
  BY <1>2, <1>3, <1>4, <1>5 DEF Next, SyncStep

\* Without moves and deletions nothing is taken out of the middle of a queue, and
\* until a history syncer changes a nextcheck behind its back it stays in order.
SortedInv ==
    ~ MayMove /\ ~ MayDelete =>
        ~ byProxy /\ (~ rejected => Sorted(queues, item))

LEMMA ByProxyKept ==
  ASSUME Types, ~ MayMove, [Next]_vars
  PROVE  byProxy' = byProxy
<1>1. ASSUME NEW p \in Procs, Poller(p)
      PROVE  byProxy' = byProxy
  <2>1. Postpone(p) => byProxy' = byProxy
    BY DEF Postpone, PutBack, config
  <2> QED
    BY <1>1, <2>1 DEF Poller, GetStart, GetLock, NothingDue, DropItem, TakeItem, GetValue, AvailUnneeded,
      DChost_activate, DChost_deactivate, SetHost, db_host_update_availability, DCrequeue_items, config
<1>2. SyncBegin => byProxy' = byProxy
  BY DEF SyncBegin
<1>3. ASSUME SyncEnd \/ Maintain \/ Tick \/ UNCHANGED vars
             \/ \E i \in Items : RejectValue(i) \/ AcceptValue(i) \/ SyncRow(i) \/ SyncDelete(i)
      PROVE  byProxy' = byProxy
  BY <1>3 DEF SyncEnd, Maintain, Tick, RejectValue, AcceptValue, SyncRow, SyncDelete, vars, config
<1> QED
  BY <1>1, <1>2, <1>3 DEF Next, SyncStep

\* Every step that changes a queue is an insertion, an update of an item whose nextcheck
\* it sets, or takes the head.
LEMMA OrderStep ==
  ASSUME Types, Filed(queues, item), RowsInv, HeldInv, SortedInv, [Next]_vars
  PROVE  SortedInv'
<1> SUFFICES ASSUME ~ MayMove, ~ MayDelete
             PROVE  ~ byProxy' /\ (~ rejected' => Sorted(queues, item)')
  BY DEF SortedInv
<1>1. ~ byProxy /\ (~ rejected => Sorted(queues, item))
  BY DEF SortedInv
<1>2. byProxy' = byProxy
  BY ByProxyKept
<1> SUFFICES ASSUME ~ rejected'
             PROVE  Sorted(queues', item')
  BY <1>1, <1>2
<1>3. ASSUME rejected' = rejected
      PROVE  Sorted(queues, item) /\ Taken
  BY <1>1, <1>3 DEF HeldInv
<1>4. ASSUME rejected' = rejected, queues' = queues, item' = item
      PROVE  Sorted(queues', item')
  BY <1>3, <1>4
<1>5. ASSUME NEW p \in Procs,
             \/ GetStart(p) \/ GetLock(p) \/ NothingDue(p) \/ GetValue(p) \/ AvailUnneeded(p)
             \/ DChost_activate(p) \/ DChost_deactivate(p) \/ db_host_update_availability(p)
      PROVE  Sorted(queues', item')
  BY <1>4, <1>5 DEF GetStart, GetLock, NothingDue, GetValue, AvailUnneeded, DChost_activate,
                    DChost_deactivate, SetHost, db_host_update_availability, counts
<1>6. ASSUME NEW p \in Procs, DropItem(p)
      PROVE  Sorted(queues', item')
  <2>1. HeadDue(p) /\ queues' = Popped(p) /\ rejected' = rejected
        /\ item' = [item EXCEPT ![QueueHead(p)].location = "NOWHERE"]
    BY <1>6 DEF DropItem, counts
  <2>2. "NOWHERE" \in Locations \ {"QUEUE"}
    BY DEF Locations
  <2> QED
    BY <1>3, <2>1, <2>2, TakeDoes
<1>7. ASSUME NEW p \in Procs, TakeItem(p)
      PROVE  Sorted(queues', item')
  <2>1. HeadDue(p) /\ queues' = Popped(p) /\ rejected' = rejected
        /\ item' = [item EXCEPT ![QueueHead(p)].location = "POLLER"]
    BY <1>7 DEF TakeItem, counts
  <2>2. "POLLER" \in Locations \ {"QUEUE"}
    BY DEF Locations
  <2> QED
    BY <1>3, <2>1, <2>2, TakeDoes
<1>8. ASSUME NEW p \in Procs, Postpone(p)
      PROVE  Sorted(queues', item')
  <2>1. PICK n \in Nat, type \in QueueTypes \cup {"NO"} : HeadDue(p) /\ PutBack(p, n, type)
    BY <1>8, PostponeIs
  <2>2. rejected' = rejected
    BY <2>1 DEF PutBack, counts
  <2> QED
    BY <1>3, <2>1, <2>2, PutBackDoes
<1>9. ASSUME NEW p \in Procs, DCrequeue_items(p)
      PROVE  Sorted(queues', item')
  <2>1. proc[p].pc = "requeue" /\ Return(p) /\ rejected' = rejected
    BY <1>9 DEF DCrequeue_items, counts
  <2>2. PICK i : i = proc[p].item
    OBVIOUS
  <2>3. i \in Items /\ Holds(p, i)
    BY <2>1, <2>2, ReturnDoes DEF Holds
  <2>4. item[i].known /\ item[i].location = "POLLER"
    BY <1>3, <2>1, <2>3 DEF Taken
  <2> QED
    BY <1>3, <2>1, <2>2, <2>4, ReturnDoes
<1>10. ASSUME NEW i \in Items, SyncRow(i)
       PROVE  Sorted(queues', item')
  <2>1. rejected' = rejected
    BY <1>10 DEF SyncRow, counts
  <2> QED
    BY <1>1, <1>3, <1>10, <2>1, SyncRowDoes
<1>11. ASSUME NEW i \in Items, SyncDelete(i)
       PROVE  FALSE
  BY <1>11 DEF SyncDelete, RowsInv
<1>12. ASSUME NEW i \in Items, RejectValue(i)
       PROVE  FALSE
  BY <1>12 DEF RejectValue
<1>13. ASSUME SyncBegin \/ SyncEnd \/ Maintain \/ Tick \/ UNCHANGED vars
              \/ \E i \in Items : AcceptValue(i)
       PROVE  Sorted(queues', item')
  BY <1>4, <1>13 DEF AcceptValue, SyncBegin, SyncEnd, Maintain, Tick, vars, config, counts
<1> QED
  BY <1>5, <1>6, <1>7, <1>8, <1>9, <1>10, <1>11, <1>12, <1>13 DEF Next, Poller, SyncStep

-----------------------------------------------------------------------------
(* The properties *)

\* The inductive invariant
IInv == Types /\ Filed(queues, item) /\ RowsInv /\ RejectInv /\ HeldInv /\ SortedInv

LEMMA InitInv == Init => IInv
<1> SUFFICES ASSUME Init
             PROVE  IInv
  OBVIOUS
<1>1. Types /\ Filed(queues, item)
  BY InitTypes
<1>2. RowsInv
  BY DEF Init, RowsInv
<1>3. RejectInv
  BY DEF Init, RejectInv
<1>4. HeldInv
  <2>1. \A p \in Procs, i \in Items : ~ Holds(p, i)
    BY DEF Init, Holds, NoProc
  <2> QED
    BY <2>1 DEF HeldInv, Taken
<1>5. SortedInv
  <2>1. \A t \in QueueTypes : queues[t] = HeapEmpty
    BY DEF Init
  <2>2. Sorted(queues, item)
    BY <2>1, EmptyOrdered DEF Sorted
  <2>3. ~ byProxy
    BY DEF Init
  <2> QED
    BY <2>2, <2>3 DEF SortedInv
<1> QED
  BY <1>1, <1>2, <1>3, <1>4, <1>5 DEF IInv

LEMMA StepInv == IInv /\ [Next]_vars => IInv'
<1> SUFFICES ASSUME IInv, [Next]_vars
             PROVE  IInv'
  OBVIOUS
<1>1. Types /\ Filed(queues, item) /\ RowsInv /\ RejectInv /\ HeldInv /\ SortedInv
  BY DEF IInv
<1>2. Types' /\ Filed(queues, item)'
  BY <1>1, TypesStep
<1>3. RowsInv'
  BY <1>1, RowsStep
<1>4. RejectInv'
  BY <1>1, RejectStep
<1>5. HeldInv'
  BY <1>1, HeldStep
<1>6. SortedInv'
  BY <1>1, OrderStep
<1> QED
  BY <1>2, <1>3, <1>4, <1>5, <1>6 DEF IInv

LEMMA AlwaysInv == Spec => []IInv
BY InitInv, StepInv, PTL DEF Spec

LEMMA InvTypeOK == IInv => TypeOK
<1> SUFFICES ASSUME IInv
             PROVE  TypeOK
  OBVIOUS
<1>1. Types /\ Filed(queues, item)
  BY DEF IInv
<1>2. ASSUME NEW i \in Items
      PROVE  /\ item[i].location \in {"NOWHERE", "QUEUE", "POLLER"}
             /\ item[i].poller_type \in QueueTypes \cup {"NO"}
             /\ item[i].nextcheck \in Nat
             /\ ~ item[i].known => item[i] = NoItem
  <2>1. item[i] \in ItemRec
    BY <1>1 DEF Types, ItemTypes
  <2>2. ~ item[i].known => item[i] = NoItem
    BY <1>1 DEF Types, ItemTypes
  <2> QED
    BY <2>1, <2>2 DEF ItemRec, Locations
<1>3. ASSUME NEW t \in QueueTypes, NEW n \in DOMAIN queues[t]
      PROVE  queues[t][n] \in Items
  <2>1. queues[t][n] \in Members(queues[t])
    BY DEF Members
  <2> QED
    BY <1>1, <2>1 DEF Filed
<1>4. {host.available, dbhost.available} \subseteq {"UNKNOWN", "TRUE", "FALSE"}
  BY <1>1 DEF Types, HostRec
<1>5. now \in 1 .. MaxTime /\ lock \in Procs \cup {"free", "sync"}
  BY <1>1 DEF Types
<1> QED
  BY <1>2, <1>3, <1>4, <1>5 DEF TypeOK

LEMMA InvPlaced == IInv => Placed
<1> SUFFICES ASSUME IInv, NEW i \in Items, NEW t \in QueueTypes
             PROVE  Cardinality({n \in DOMAIN queues[t] : queues[t][n] = i})
                      = IF item[i].location = "QUEUE" /\ item[i].poller_type = t THEN 1 ELSE 0
  BY DEF Placed
<1>1. IsHeap(queues[t])
  BY DEF IInv, Filed
<1>2. i \in Members(queues[t]) <=> item[i].location = "QUEUE" /\ item[i].poller_type = t
  BY DEF IInv, Filed
<1> QED
  BY <1>1, <1>2, Places

\* Placed and TypeOK for any number of items and pollers: an item is in the queue of its
\* poller type, once, exactly when its location says so, although the syncer, the pollers
\* and the history syncers all move items (DCupdate_item_queue, DCrequeue_items,
\* DCsync_items).  So the heap never meets a duplicate key or a key that it does not find,
\* with which binaryheap.c would end the process.
THEOREM PlacedOnce == Spec => [](TypeOK /\ Placed)
<1>1. IInv => TypeOK /\ Placed
  BY InvTypeOK, InvPlaced
<1> QED
  BY <1>1, AlwaysInv, PTL

\* HeldIsTaken: the items that DCconfig_get_poller_items has given to a poller are marked
\* as taken, and no other poller has them.  Deletions are excluded because an item that is
\* deleted and added again during a poll is queued at once, unsuitable values because the
\* history syncer's DCrequeue_reachable_item puts a taken item back into the queue.
THEOREM ItemsHeldAreTaken ==
  ASSUME ~ MayDelete, ~ MayReject
  PROVE  Spec => []HeldIsTaken
<1>1. IInv => HeldIsTaken
  BY DEF IInv, RejectInv, HeldInv, Taken, HeldIsTaken
<1> QED
  BY <1>1, AlwaysInv, PTL

\* QueueOrder, for queues of any length: the head is due first.  Deletions and moves to a
\* proxy are excluded because both call zbx_binary_heap_remove_direct, which may leave a
\* queue of six or more items out of order.
THEOREM QueuesInOrder ==
  ASSUME ~ MayMove, ~ MayDelete
  PROVE  Spec => []QueueOrder
<1>1. ASSUME IInv
      PROVE  QueueOrder
  <2>1. TypeOK /\ Placed
    BY <1>1, InvTypeOK, InvPlaced
  <2>2. ASSUME ~ rejected, NEW t \in QueueTypes, NEW n \in DOMAIN queues[t]
        PROVE  item[queues[t][0]].nextcheck <= item[queues[t][n]].nextcheck
    <3>1. Filed(queues, item) /\ Sorted(queues, item)
      BY <1>1, <2>2 DEF IInv, SortedInv
    <3>2. IsHeap(queues[t]) /\ Members(queues[t]) \subseteq Items /\ Ordered(queues[t], Checks(item))
      BY <3>1 DEF Filed, Sorted
    <3>3. \A j \in Items : Checks(item)[j] = item[j].nextcheck /\ Checks(item)[j] \in Int
      BY <2>1 DEF Checks, TypeOK
    <3>4. Checks(item)[queues[t][0]] <= Checks(item)[queues[t][n]]
      BY <3>2, <3>3, HeadLeast
    <3>5. queues[t][0] \in Items /\ queues[t][n] \in Items
      <4>1. 0 \in DOMAIN queues[t]
        BY <3>2 DEF IsHeap
      <4> QED
        BY <4>1, <2>1 DEF TypeOK
    <3> QED
      BY <3>3, <3>4, <3>5
  <2> QED
    BY <2>1, <2>2 DEF QueueOrder
<1> QED
  BY <1>1, AlwaysInv, PTL

=============================================================================
