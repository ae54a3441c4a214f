--------------------------- MODULE HistoryCacheProofs ---------------------------
(***************************************************************************)
(* What is proved of HistoryCache for every number of items, writers and   *)
(* syncers and every size of the buffers: that syncers exclude each other  *)
(* item by item (ItemExclusion), that the ring keeps every value, its      *)
(* place in the order and its text (RingKeeps), and that the parent leaves *)
(* nothing in it (ParentDrains).  HistoryQueueProofs goes on from here.    *)
(***************************************************************************)
EXTENDS HistoryCache, FiniteSetTheorems, TLAPS

--------------------------------------------------------------------------------
(***************************************************************************)
(* Exclusive items.  ItemExclusive is not inductive: that a syncer which   *)
(* starts a round (Collect empties its batch) or goes back to sleep gives  *)
(* nothing up silently needs BatchHeld.                                    *)
(***************************************************************************)

\* pc and batch are functions on the processes.
Functions ==
  /\ pc = [p \in Procs |-> pc[p]]
  /\ batch = [s \in SyncProcs |-> batch[s]]

\* Only a syncer inside a round has values of its own.
BatchHeld ==
  \A s \in Syncers : batch[s] # {} => pc[s] \in {"scan", "trim", "db", "release"}

ExclusiveInv == Functions /\ BatchHeld /\ ItemExclusive

\* In the first state every batch is empty (init_database_cache).
LEMMA ExclusiveInit == Init => ExclusiveInv
  BY ProcsAssumption DEF Init, ExclusiveInv, Functions, BatchHeld, ItemExclusive,
     BatchItems, Procs, SyncProcs

\* Whatever leaves the items marked, the batches and the place of the syncers
\* and of the parent alone keeps the invariant.
LEMMA ExclusiveFrame ==
  ASSUME ExclusiveInv, UNCHANGED <<itemids, batch>>, 
         pc' = [p \in Procs |-> pc'[p]],
         \A s \in Syncers : pc'[s] = pc[s] \/ batch[s] = {}
                            \/ pc'[s] \in {"scan", "trim", "db", "release"},
         pc'[Main] = "idle" => pc[Main] = "idle"
  PROVE  ExclusiveInv'
  BY DEF ExclusiveInv, Functions, BatchHeld, ItemExclusive, BatchItems

\* A writer's steps: dc_add_history, dc_flush_history and DCget_history_ptr.
LEMMA ExclusiveWriter ==
  ASSUME ExclusiveInv, NEW w \in Writers,
         \/ \E i \in Items : dc_add_history(w, i)
         \/ dc_flush_history(w) \/ Retry(w) \/ Fill(w)
  PROVE  ExclusiveInv'
  <1>1. /\ UNCHANGED <<itemids, batch>>
        /\ \/ UNCHANGED pc
           \/ \E l : pc' = [pc EXCEPT ![w] = l]
    BY DEF dc_add_history, dc_flush_history, Retry, Fill, TextFull, VacTextStep,
       VacTextDone, RingFull, VacuumStep, VacuumDone, DCadd_history, FlushDone, Sleep,
       Goto, sync
  <1>2. /\ pc' = [p \in Procs |-> pc'[p]]
        /\ \A s \in SyncProcs : pc'[s] = pc[s]
    BY <1>1, ProcsAssumption DEF ExclusiveInv, Functions, Procs, SyncProcs
  <1> QED
    BY <1>1, <1>2, ExclusiveFrame DEF SyncProcs

\* The steps of DCsync_history that leave itemids and the batches alone.
LEMMA ExclusiveQuiet ==
  ASSUME ExclusiveInv, NEW s \in SyncProcs,
         \/ SyncIdle(s) \/ SyncStart(s) \/ SkipStep(s) \/ VisitGap(s) \/ VisitBusy(s)
         \/ ScanDone(s) \/ TrimStep(s) \/ TrimDone(s) \/ Commit(s)
  PROVE  ExclusiveInv'
  <1>1. /\ UNCHANGED <<itemids, batch>>
        /\ \/ UNCHANGED pc
           \/ batch[s] = {} /\ pc' = [pc EXCEPT ![s] = IF s = Main THEN "done" ELSE "idle"]
           \/ s \in Syncers /\ pc[s] = "idle" /\ pc' = [pc EXCEPT ![s] = "collect"]
           \/ \E l \in {"scan", "trim", "db", "release"} : pc' = [pc EXCEPT ![s] = l]
    BY DEF SyncIdle, SyncStart, SkipStep, VisitGap, VisitBusy, ScanDone, TrimStep,
       TrimDone, Commit, Return, Goto, sync, vars
  <1>2. /\ pc' = [p \in Procs |-> pc'[p]]
        /\ \A t \in SyncProcs : t # s => pc'[t] = pc[t]
    BY <1>1 DEF ExclusiveInv, Functions, Procs
  <1>3. \A t \in Syncers : pc'[t] = pc[t] \/ batch[t] = {}
                            \/ pc'[t] \in {"scan", "trim", "db", "release"}
    BY <1>1, <1>2 DEF ExclusiveInv, Functions, BatchHeld, Procs, SyncProcs
  <1>4. pc'[Main] = "idle" => pc[Main] = "idle"
    BY <1>1, <1>2, ProcsAssumption DEF ExclusiveInv, Functions, Procs, SyncProcs
  <1> QED
    BY <1>1, <1>2, <1>3, <1>4, ExclusiveFrame

\* VisitTake: the item was in no batch, and is marked in the same step.
LEMMA ExclusiveTake ==
  ASSUME ExclusiveInv, NEW s \in SyncProcs, VisitTake(s)
  PROVE  ExclusiveInv'
  <1> DEFINE i == history[reg.f].itemid
             u == [itemid |-> i, val |-> history[reg.f].val]
  <1>1. /\ i \notin itemids /\ itemids' = itemids \cup {i}
        /\ batch' = [batch EXCEPT ![s] = @ \cup {u}]
        /\ UNCHANGED pc /\ pc[s] = "scan"
    BY DEF VisitTake, RunFound, Scanning, Take, Mark, Busy
  <1>2. /\ batch' = [t \in SyncProcs |-> batch'[t]]
        /\ batch'[s] = batch[s] \cup {u}
        /\ \A t \in SyncProcs : t # s => batch'[t] = batch[t]
    BY <1>1 DEF ExclusiveInv, Functions
  <1>3. Functions' /\ BatchHeld'
    BY <1>1, <1>2 DEF ExclusiveInv, Functions, BatchHeld, SyncProcs
  <1>4. ASSUME Server, pc[Main] = "idle" PROVE ItemExclusive'
    <2>1. s \in Syncers
      BY <1>1, <1>4 DEF SyncProcs
    <2>2. /\ u.itemid = i
          /\ \A t \in Syncers : i \notin BatchItems(t)
          /\ \A v \in batch[s] : v.itemid # i
      BY <1>1, <1>4, <2>1 DEF ExclusiveInv, ItemExclusive, BatchItems
    <2>3. /\ BatchItems(s)' = BatchItems(s) \cup {i}
          /\ \A t \in Syncers : t # s => BatchItems(t)' = BatchItems(t)
      <3> HIDE DEF i, u
      <3>1. BatchItems(s)' = {v.itemid : v \in batch[s] \cup {u}}
        BY <1>2 DEF BatchItems
      <3>2. BatchItems(s)' = BatchItems(s) \cup {i}
        BY <2>2, <3>1 DEF BatchItems
      <3>3. \A t \in Syncers : t # s => BatchItems(t)' = BatchItems(t)
        BY <1>2 DEF BatchItems, SyncProcs
      <3> QED
        BY <3>2, <3>3
    <2>4. \A t \in Syncers : \A v, w \in batch'[t] : v.itemid = w.itemid => v = w
      BY <1>2, <1>4, <2>1, <2>2 DEF ExclusiveInv, ItemExclusive, SyncProcs
    <2>5. \A t, r \in Syncers : t # r => BatchItems(t)' \cap BatchItems(r)' = {}
      BY <1>4, <2>2, <2>3 DEF ExclusiveInv, ItemExclusive
    <2>6. itemids' = UNION {BatchItems(t)' : t \in Syncers}
      BY <1>1, <1>4, <2>1, <2>3 DEF ExclusiveInv, ItemExclusive
    <2> QED
      BY <2>4, <2>5, <2>6 DEF ItemExclusive
  <1>5. ~Server \/ pc[Main] # "idle" => ItemExclusive'
    BY <1>1 DEF ItemExclusive
  <1> QED
    BY <1>3, <1>4, <1>5 DEF ExclusiveInv

\* Collect: the batch it empties is empty already.
LEMMA ExclusiveCollect ==
  ASSUME ExclusiveInv, NEW s \in SyncProcs, Collect(s)
  PROVE  ExclusiveInv'
  <1>1. /\ pc[s] = "collect" /\ pc' = [pc EXCEPT ![s] = "scan"]
        /\ batch' = [batch EXCEPT ![s] = {}]
        /\ UNCHANGED itemids
    BY DEF Collect, Goto
  <1>2. CASE s \in Syncers
    <2>1. batch[s] = {}
      BY <1>1, <1>2 DEF ExclusiveInv, BatchHeld
    <2>2. batch' = batch
      BY <1>1, <2>1 DEF ExclusiveInv, Functions
    <2>3. /\ pc' = [p \in Procs |-> pc'[p]]
          /\ \A t \in Syncers : pc'[t] = pc[t] \/ batch[t] = {}
          /\ pc'[Main] = "idle" => pc[Main] = "idle"
      BY <1>1, <1>2, <2>1, ProcsAssumption DEF ExclusiveInv, Functions, Procs, SyncProcs
    <2> QED
      BY <1>1, <2>2, <2>3, ExclusiveFrame
  <1>3. CASE s = Main
    <2>1. pc'[Main] = "scan"
      BY <1>1, <1>3 DEF ExclusiveInv, Functions, Procs, SyncProcs
    <2>2. /\ pc' = [p \in Procs |-> pc'[p]] /\ batch' = [t \in SyncProcs |-> batch'[t]]
          /\ \A t \in Syncers : pc'[t] = pc[t] /\ batch'[t] = batch[t]
      BY <1>1, <1>3, ProcsAssumption DEF ExclusiveInv, Functions, Procs, SyncProcs
    <2> QED
      BY <2>1, <2>2 DEF ExclusiveInv, Functions, BatchHeld, ItemExclusive
  <1> QED
    BY <1>2, <1>3 DEF SyncProcs

\* Release: no other batch has an item of this one, so the marks of the others
\* stay.
LEMMA ExclusiveRelease ==
  ASSUME ExclusiveInv, NEW s \in SyncProcs, Release(s)
  PROVE  ExclusiveInv'
  <1>1. /\ itemids' = itemids \ BatchItems(s)
        /\ batch' = [batch EXCEPT ![s] = {}]
        /\ pc[s] = "release"
        /\ \E l \in {"collect", "done", "idle"} :
             (s = Main => l # "idle") /\ pc' = [pc EXCEPT ![s] = l]
    BY DEF Release, Unmark, Continue, Goto, Return
  <1>2. /\ batch' = [t \in SyncProcs |-> batch'[t]] /\ pc' = [p \in Procs |-> pc'[p]]
        /\ batch'[s] = {}
        /\ \A t \in SyncProcs : t # s => batch'[t] = batch[t] /\ pc'[t] = pc[t]
    BY <1>1 DEF ExclusiveInv, Functions, Procs
  <1>3. Functions' /\ BatchHeld'
    BY <1>2 DEF ExclusiveInv, Functions, BatchHeld, SyncProcs
  <1>4. ASSUME Server, pc'[Main] = "idle" PROVE ItemExclusive'
    <2>1. s \in Syncers /\ pc[Main] = "idle"
      BY <1>1, <1>2, <1>4, ProcsAssumption DEF ExclusiveInv, Functions, Procs, SyncProcs
    <2>2. BatchItems(s)' = {} /\ \A t \in Syncers : t # s => BatchItems(t)' = BatchItems(t)
      BY <1>2 DEF BatchItems, SyncProcs
    <2>3. \A t \in Syncers : \A v, w \in batch'[t] : v.itemid = w.itemid => v = w
      BY <1>2, <1>4, <2>1 DEF ExclusiveInv, ItemExclusive, SyncProcs
    <2>4. \A t, r \in Syncers : t # r => BatchItems(t)' \cap BatchItems(r)' = {}
      BY <1>4, <2>1, <2>2 DEF ExclusiveInv, ItemExclusive
    <2>5. itemids' = UNION {BatchItems(t)' : t \in Syncers}
      BY <1>1, <1>4, <2>1, <2>2 DEF ExclusiveInv, ItemExclusive
    <2> QED
      BY <2>3, <2>4, <2>5 DEF ItemExclusive
  <1>5. ~Server \/ pc'[Main] # "idle" => ItemExclusive'
    BY DEF ItemExclusive
  <1> QED
    BY <1>3, <1>4, <1>5 DEF ExclusiveInv

\* A proxy marks nothing, and ItemExclusive says nothing of it.
LEMMA ExclusiveProxyTake ==
  ASSUME ExclusiveInv, NEW s \in SyncProcs, ProxyTake(s)
  PROVE  ExclusiveInv'
  <1>1. /\ ~Server /\ UNCHANGED pc /\ pc[s] = "scan"
        /\ \E B : batch' = [batch EXCEPT ![s] = B]
    BY DEF ProxyTake, Scanning, Take
  <1>2. /\ batch' = [t \in SyncProcs |-> batch'[t]]
        /\ \A t \in SyncProcs : t # s => batch'[t] = batch[t]
    BY <1>1 DEF ExclusiveInv, Functions
  <1> QED
    BY <1>1, <1>2 DEF ExclusiveInv, Functions, BatchHeld, ItemExclusive, SyncProcs

\* The end of the daemon: the parent is no longer idle.
LEMMA ExclusiveStop ==
  ASSUME ExclusiveInv, Terminate \/ SyncFull \/ Stopped
  PROVE  ExclusiveInv'
  <1>1. CASE Terminate
    BY <1>1 DEF Terminate, ExclusiveInv, Functions, BatchHeld, ItemExclusive, Procs, SyncProcs
  <1>2. CASE SyncFull
    <2>1. /\ pc' = [p \in Procs |-> pc'[p]] /\ UNCHANGED batch
          /\ pc'[Main] # "idle" /\ \A s \in Syncers : pc'[s] = pc[s]
      BY <1>2, ProcsAssumption DEF SyncFull, Goto, sync, ExclusiveInv, Functions, Procs, SyncProcs
    <2> QED
      BY <2>1 DEF ExclusiveInv, Functions, BatchHeld, ItemExclusive
  <1>3. CASE Stopped
    BY <1>3, ExclusiveFrame DEF Stopped, vars, sync, ExclusiveInv, Functions
  <1> QED
    BY <1>1, <1>2, <1>3

LEMMA ExclusiveNext == ExclusiveInv /\ [Next]_vars => ExclusiveInv'
  <1> SUFFICES ASSUME ExclusiveInv, [Next]_vars PROVE ExclusiveInv'
    OBVIOUS
  <1>1. CASE \E w \in Writers : \/ \E i \in Items : dc_add_history(w, i)
                                \/ dc_flush_history(w) \/ Retry(w) \/ Fill(w)
    BY <1>1, ExclusiveWriter
  <1>2. CASE \E s \in SyncProcs : SyncIdle(s) \/ Collect(s) \/ Drain(s) \/ Release(s)
    BY <1>2, ExclusiveQuiet, ExclusiveTake, ExclusiveProxyTake, ExclusiveCollect,
       ExclusiveRelease DEF Drain
  <1>3. CASE Terminate \/ SyncFull \/ Stopped
    BY <1>3, ExclusiveStop
  <1>4. CASE UNCHANGED vars
    BY <1>4, ExclusiveFrame DEF vars, sync, ExclusiveInv, Functions
  <1> QED
    BY <1>1, <1>2, <1>3, <1>4 DEF Next

\* On a server, until it is told to stop, no two history syncers ever process the
\* same item at the same time, and itemids names exactly the items in work.
THEOREM ItemExclusion == Spec => []ItemExclusive
  <1>1. ExclusiveInv => ItemExclusive
    BY DEF ExclusiveInv
  <1> QED
    BY ExclusiveInit, ExclusiveNext, <1>1, PTL DEF Spec

--------------------------------------------------------------------------------
(***************************************************************************)
(* The mutex.                                                              *)
(***************************************************************************)

\* What a process does with the mutex held.
Working == {"add", "vacuum", "vactext", "scan", "trim"}

\* The place of a process tells whether it holds the mutex; the children are dead
\* once the parent is on its way out, which is when a stop can have torn the ring.
LockInv ==
  /\ \A p \in Procs : pc[p] \in Working <=> cache_lock = p
  /\ \A w \in Writers : pc[w] \in {"idle", "sleep", "dead", "add", "vacuum", "vactext"}
  /\ \A s \in SyncProcs : pc[s] \notin {"sleep", "add", "vacuum", "vactext"}
  /\ pc[Main] # "idle" => \A p \in Procs : p # Main => pc[p] = "dead"
  /\ torn \/ cut => pc[Main] # "idle"

\* Only a syncer inside a round has values of its own.
HeldInv ==
  /\ \A s \in Syncers : batch[s] # {} => pc[s] \in {"scan", "trim", "db", "release"}
  /\ pc[Main] \in {"idle", "exit"} => batch[Main] = {}

BaseInv ==
  /\ pc = [p \in Procs |-> pc[p]] /\ batch = [s \in SyncProcs |-> batch[s]]
  /\ {torn, cut} \subseteq BOOLEAN
  /\ LockInv /\ HeldInv

LEMMA BaseInit == Init => BaseInv
  <1> SUFFICES ASSUME Init PROVE BaseInv
    OBVIOUS
  <1>1. /\ pc = [p \in Procs |-> "idle"] /\ batch = [s \in SyncProcs |-> {}]
        /\ cache_lock = Nobody /\ torn = FALSE /\ cut = FALSE
    BY DEF Init
  <1>2. Main \in SyncProcs /\ Nobody \notin Procs /\ SyncProcs \subseteq Procs /\ Syncers \subseteq SyncProcs
    BY ProcsAssumption DEF Procs, SyncProcs
  <1>3. LockInv
    BY <1>1, <1>2 DEF LockInv, Working, Procs
  <1>4. HeldInv
    BY <1>1, <1>2 DEF HeldInv
  <1> QED
    BY <1>1, <1>3, <1>4 DEF BaseInv

\* One process goes to another label, and takes, keeps or gives up the mutex as
\* that label says.
LEMMA BaseMove ==
  ASSUME BaseInv, NEW p \in Procs, NEW l, pc' = [pc EXCEPT ![p] = l],
         \/ pc[p] \in Working /\ l \in Working /\ cache_lock' = cache_lock
         \/ pc[p] \notin Working /\ l \notin Working /\ cache_lock' = cache_lock
         \/ cache_lock = Nobody /\ cache_lock' = p /\ l \in Working
         \/ cache_lock = p /\ cache_lock' = Nobody /\ l \notin Working,
         pc[p] # "dead", pc[p] = "idle" => p # Main, l # "dead", l = "idle" => p # Main,
         p \in Writers => l \in {"idle", "sleep", "add", "vacuum", "vactext"},
         p \notin Writers => l \notin {"sleep", "add", "vacuum", "vactext"},
         UNCHANGED <<torn, cut>>
  PROVE  pc' = [q \in Procs |-> pc'[q]] /\ {torn, cut}' \subseteq BOOLEAN /\ LockInv'
  <1>1. /\ pc' = [q \in Procs |-> pc'[q]] /\ pc'[p] = l
        /\ \A q \in Procs : q # p => pc'[q] = pc[q]
    BY DEF BaseInv
  <1>2. /\ Main \in Procs /\ Nobody \notin Procs /\ Writers \subseteq Procs /\ SyncProcs \subseteq Procs
        /\ Writers \cap SyncProcs = {}
    BY ProcsAssumption DEF Procs, SyncProcs
  <1>3. \A q \in Procs : pc'[q] \in Working <=> cache_lock' = q
    BY <1>1, <1>2 DEF BaseInv, LockInv
  <1>4. /\ \A w \in Writers : pc'[w] \in {"idle", "sleep", "dead", "add", "vacuum", "vactext"}
        /\ \A s \in SyncProcs : pc'[s] \notin {"sleep", "add", "vacuum", "vactext"}
    BY <1>1, <1>2 DEF BaseInv, LockInv
  <1>5. pc'[Main] # "idle" => \A q \in Procs : q # Main => pc'[q] = "dead"
    BY <1>1, <1>2 DEF BaseInv, LockInv
  <1>6. torn \/ cut => pc'[Main] # "idle"
    BY <1>1, <1>2 DEF BaseInv, LockInv
  <1> QED
    BY <1>1, <1>3, <1>4, <1>5, <1>6 DEF LockInv, BaseInv

\* A writer's steps: none touches a batch.
LEMMA BaseWriter ==
  ASSUME BaseInv, NEW w \in Writers,
         \/ \E i \in Items : dc_add_history(w, i)
         \/ dc_flush_history(w) \/ Retry(w) \/ Fill(w)
  PROVE  BaseInv'
  <1>1. UNCHANGED <<batch, torn, cut>>
    BY DEF dc_add_history, dc_flush_history, Retry, Fill, TextFull, VacTextStep, VacTextDone,
       RingFull, VacuumStep, VacuumDone, DCadd_history, FlushDone, sync, ghost
  <1>2. \/ UNCHANGED <<pc, cache_lock>>
        \/ \E l \in {"idle", "sleep", "add", "vacuum", "vactext"} :
             /\ pc' = [pc EXCEPT ![w] = l] /\ pc[w] # "dead"
             /\ \/ pc[w] \in Working /\ l \in Working /\ cache_lock' = cache_lock
                \/ cache_lock = Nobody /\ cache_lock' = w /\ l \in Working
                \/ cache_lock = w /\ cache_lock' = Nobody /\ l \notin Working
    BY DEF dc_add_history, dc_flush_history, Retry, Fill, TextFull, VacTextStep, VacTextDone,
       RingFull, VacuumStep, VacuumDone, DCadd_history, FlushDone, Sleep, Goto, Lock, Unlock,
       Working, sync, ghost
  <1>3. w \in Procs /\ w # Main /\ SyncProcs \subseteq Procs /\ w \notin SyncProcs /\ Main \in SyncProcs
        /\ Syncers \subseteq SyncProcs
    BY ProcsAssumption DEF Procs, SyncProcs
  <1>4. CASE UNCHANGED <<pc, cache_lock>>
    BY <1>1, <1>4 DEF BaseInv, LockInv, HeldInv
  <1>5. ASSUME NEW l \in {"idle", "sleep", "add", "vacuum", "vactext"},
               pc' = [pc EXCEPT ![w] = l], pc[w] # "dead",
               \/ pc[w] \in Working /\ l \in Working /\ cache_lock' = cache_lock
               \/ cache_lock = Nobody /\ cache_lock' = w /\ l \in Working
               \/ cache_lock = w /\ cache_lock' = Nobody /\ l \notin Working
        PROVE  BaseInv'
    <2>1. pc' = [q \in Procs |-> pc'[q]] /\ {torn, cut}' \subseteq BOOLEAN /\ LockInv'
      BY <1>1, <1>3, <1>5, BaseMove
    <2>2. \A s \in SyncProcs : pc'[s] = pc[s]
      BY <1>3, <1>5 DEF BaseInv
    <2>3. HeldInv'
      BY <1>1, <1>3, <2>2 DEF BaseInv, HeldInv
    <2> QED
      BY <1>1, <2>1, <2>3 DEF BaseInv
  <1> QED
    BY <1>2, <1>4, <1>5

\* The steps of DCsync_history.
LEMMA BaseSyncer ==
  ASSUME BaseInv, NEW s \in SyncProcs,
         SyncIdle(s) \/ Collect(s) \/ Drain(s) \/ Release(s)
  PROVE  BaseInv'
  <1>1. UNCHANGED <<torn, cut>>
    BY DEF SyncIdle, Collect, Drain, Release, SyncStart, SkipStep, VisitGap, VisitBusy, VisitTake,
       ProxyTake, ScanDone, TrimStep, TrimDone, Commit, Take, ghost, vars
  <1>2. s \in Procs /\ s \notin Writers /\ SyncProcs \subseteq Procs /\ Main \in SyncProcs
        /\ Syncers \subseteq SyncProcs /\ Nobody \notin Procs /\ Main \notin Syncers
    BY ProcsAssumption DEF Procs, SyncProcs
  <1>3. CASE UNCHANGED <<pc, cache_lock>> /\ pc[s] = "scan" /\ \E B : batch' = [batch EXCEPT ![s] = B]
    BY <1>1, <1>2, <1>3 DEF BaseInv, LockInv, HeldInv
  <1>4. CASE UNCHANGED <<pc, cache_lock, batch>>
    BY <1>1, <1>4 DEF BaseInv, LockInv, HeldInv
  <1>5. ASSUME NEW l \in {"idle", "collect", "scan", "trim", "db", "release", "done"},
               pc' = [pc EXCEPT ![s] = l],
               \/ pc[s] \in Working /\ l \in Working /\ cache_lock' = cache_lock
               \/ pc[s] \notin Working /\ l \notin Working /\ cache_lock' = cache_lock
               \/ cache_lock = Nobody /\ cache_lock' = s /\ l \in Working
               \/ cache_lock = s /\ cache_lock' = Nobody /\ l \notin Working,
               pc[s] # "dead", pc[s] = "idle" => s # Main, l = "idle" => s # Main,
               \/ UNCHANGED batch /\ (batch[s] = {} \/ l \in {"scan", "trim", "db", "release"})
               \/ batch' = [batch EXCEPT ![s] = {}]
        PROVE  BaseInv'
    <2>1. pc' = [q \in Procs |-> pc'[q]] /\ {torn, cut}' \subseteq BOOLEAN /\ LockInv'
      BY <1>1, <1>2, <1>5, BaseMove
    <2>2. /\ batch' = [t \in SyncProcs |-> batch'[t]] /\ pc'[s] = l
          /\ \A t \in SyncProcs : t # s => pc'[t] = pc[t] /\ batch'[t] = batch[t]
          /\ batch'[s] = {} \/ l \in {"scan", "trim", "db", "release"}
      BY <1>2, <1>5 DEF BaseInv
    <2>3. \A t \in Syncers : batch'[t] # {} => pc'[t] \in {"scan", "trim", "db", "release"}
      BY <1>2, <2>2 DEF BaseInv, HeldInv
    <2>4. pc'[Main] \in {"idle", "exit"} => batch'[Main] = {}
      BY <1>2, <1>5, <2>2 DEF BaseInv, HeldInv
    <2> QED
      BY <1>1, <2>1, <2>2, <2>3, <2>4 DEF BaseInv, HeldInv
  <1>6. CASE SyncIdle(s)
    BY <1>4, <1>6 DEF SyncIdle, vars, sync
  <1>7. CASE SyncStart(s)
    <2>1. s # Main /\ batch[s] = {}
      BY <1>2, <1>7 DEF SyncStart, BaseInv, HeldInv
    <2> QED
      BY <1>5, <1>7, <2>1 DEF SyncStart, Goto, Working
  <1>8. CASE Collect(s)
    BY <1>5, <1>8 DEF Collect, Goto, Lock, Working
  <1>9. CASE SkipStep(s) \/ VisitGap(s) \/ VisitBusy(s)
    BY <1>4, <1>9 DEF SkipStep, VisitGap, VisitBusy, sync
  <1>10. CASE VisitTake(s) \/ ProxyTake(s)
    BY <1>3, <1>10 DEF VisitTake, ProxyTake, RunFound, Scanning, Take
  <1>11. CASE ScanDone(s)
    BY <1>5, <1>11 DEF ScanDone, Goto, Working, sync
  <1>12. CASE TrimStep(s)
    BY <1>4, <1>12 DEF TrimStep, sync
  <1>13. CASE TrimDone(s)
    BY <1>5, <1>13 DEF TrimDone, Unlock, Return, Goto, Working, sync
  <1>14. CASE Commit(s)
    BY <1>5, <1>14 DEF Commit, Goto, Working, sync
  <1>15. CASE Release(s)
    BY <1>5, <1>15 DEF Release, Continue, Return, Goto, Working
  <1> QED
    BY <1>6, <1>7, <1>8, <1>9, <1>10, <1>11, <1>12, <1>13, <1>14, <1>15 DEF Drain

LEMMA BaseNext == BaseInv /\ [Next]_vars => BaseInv'
  <1> SUFFICES ASSUME BaseInv, [Next]_vars PROVE BaseInv'
    OBVIOUS
  <1>1. /\ SyncProcs \subseteq Procs /\ Main \in SyncProcs /\ Syncers \subseteq SyncProcs /\ Nobody \notin Procs
        /\ Main \notin Syncers /\ Main \notin Writers /\ Writers \subseteq Procs /\ Writers \cap SyncProcs = {}
    BY ProcsAssumption DEF Procs, SyncProcs
  <1>2. CASE Terminate
    <2>1. /\ pc' = [p \in Procs |-> IF p = Main THEN "exit" ELSE "dead"]
          /\ cache_lock' = Nobody /\ batch' = [t \in SyncProcs |-> {}]
      BY <1>2 DEF Terminate
    <2>2. {torn, cut}' \subseteq BOOLEAN
      BY <1>2 DEF Terminate
    <2>3. LockInv'
      BY <1>1, <2>1, <2>2 DEF LockInv, Working
    <2> QED
      BY <1>1, <2>1, <2>2, <2>3 DEF BaseInv, HeldInv
  <1>3. CASE SyncFull
    <2>1. PICK l \in {"done", "collect"} : pc' = [pc EXCEPT ![Main] = l]
      BY <1>3 DEF SyncFull, Goto
    <2>2. UNCHANGED <<cache_lock, batch, torn, cut>> /\ pc[Main] = "exit"
      BY <1>3 DEF SyncFull, sync, ghost
    <2>3. pc' = [q \in Procs |-> pc'[q]] /\ {torn, cut}' \subseteq BOOLEAN /\ LockInv'
      BY <1>1, <2>1, <2>2, BaseMove DEF Working
    <2>4. \A s \in Syncers : pc'[s] = pc[s] /\ pc'[Main] = l
      BY <1>1, <2>1 DEF BaseInv
    <2> QED
      BY <1>1, <2>1, <2>2, <2>3, <2>4 DEF BaseInv, HeldInv
  <1>4. CASE Stopped \/ UNCHANGED vars
    BY <1>4 DEF Stopped, vars, sync, ghost, BaseInv, LockInv, HeldInv
  <1>5. CASE \E w \in Writers : \/ \E i \in Items : dc_add_history(w, i)
                                \/ dc_flush_history(w) \/ Retry(w) \/ Fill(w)
    BY <1>5, BaseWriter
  <1>6. CASE \E s \in SyncProcs : SyncIdle(s) \/ Collect(s) \/ Drain(s) \/ Release(s)
    BY <1>6, BaseSyncer
  <1> QED
    BY <1>2, <1>3, <1>4, <1>5, <1>6 DEF Next

LEMMA TornStays == BaseInv /\ [Next]_vars /\ torn => torn'
  <1> SUFFICES ASSUME BaseInv, [Next]_vars, torn PROVE torn'
    OBVIOUS
  <1>1. ~Terminate
    BY DEF BaseInv, LockInv, Terminate
  <1>2. CASE \E w \in Writers : \/ \E i \in Items : dc_add_history(w, i)
                                \/ dc_flush_history(w) \/ Retry(w) \/ Fill(w)
    BY <1>2 DEF dc_add_history, dc_flush_history, Retry, Fill, TextFull, VacTextStep, VacTextDone,
       RingFull, VacuumStep, VacuumDone, DCadd_history, FlushDone, ghost
  <1>3. CASE \E s \in SyncProcs : SyncIdle(s) \/ Collect(s) \/ Drain(s) \/ Release(s)
    BY <1>3 DEF SyncIdle, Collect, Drain, Release, SyncStart, SkipStep, VisitGap, VisitBusy,
       VisitTake, ProxyTake, ScanDone, TrimStep, TrimDone, Commit, Take, ghost, vars
  <1>4. CASE SyncFull \/ Stopped \/ UNCHANGED vars
    BY <1>4 DEF SyncFull, Stopped, ghost, vars
  <1> QED
    BY <1>1, <1>2, <1>3, <1>4 DEF Next

--------------------------------------------------------------------------------
(***************************************************************************)
(* The slots by their distance from the oldest one.                        *)
(***************************************************************************)

LEMMA AtIndex ==
  ASSUME history_first \in Index
  PROVE  /\ \A p \in 0 .. HistorySize - 1 : At(p) \in Index
         /\ \A p \in 0 .. HistorySize - 1, q \in 0 .. HistorySize - 1 : At(p) = At(q) => p = q
         /\ \A f \in Index : \E p \in 0 .. HistorySize - 1 : f = At(p)
         /\ At(0) = history_first
  <1>1. HistorySize \in Nat
    BY SizeAssumption
  <1>2. ASSUME NEW f \in Index PROVE \E p \in 0 .. HistorySize - 1 : f = At(p)
    <2> DEFINE p == IF f >= history_first THEN f - history_first
                    ELSE f - history_first + HistorySize
    <2>1. p \in 0 .. HistorySize - 1 /\ f = At(p)
      BY <1>1 DEF At, Wrap, Index
    <2> QED
      BY <2>1
  <1> QED
    BY <1>1, <1>2 DEF At, Wrap, Index

\* One step up is the next slot of the array, or its first.
LEMMA AtNext ==
  ASSUME history_first \in Index, NEW p \in 0 .. HistorySize - 1, NEW n \in Nat,
         p + n < HistorySize
  PROVE  /\ At(p + n) = Wrap(At(p) + n)
         /\ At(p) + n < HistorySize => At(p + n) = At(p) + n
         /\ n = 1 /\ At(p + 1) # 0 => At(p) = At(p + 1) - 1
         /\ n = 1 /\ At(p + 1) = 0 => At(p) = HistorySize - 1
  BY SizeAssumption DEF At, Wrap, Index

\* The oldest slots leave the ring: the others come closer.
LEMMA AtShift ==
  ASSUME history_first \in Index, NEW k \in 0 .. HistorySize,
         history_first' = Wrap(history_first + k)
  PROVE  /\ history_first' \in Index
         /\ \A p \in Nat : p + k < HistorySize => At(p)' = At(p + k)
  <1>1. HistorySize \in Nat \ {0}
    BY SizeAssumption
  <1>2. history_first' \in Index
    BY <1>1 DEF Wrap, Index
  <1>3. ASSUME NEW p \in Nat, p + k < HistorySize PROVE At(p)' = At(p + k)
    BY <1>1, <1>3 DEF At, Wrap, Index
  <1> QED
    BY <1>2, <1>3

\* Where the slots of a block lie before and after it moves up: the block may begin
\* behind the end of the array, or cross it.
LEMMA BlockPlace ==
  ASSUME history_first \in Index,
         NEW n \in Nat, NEW data \in Nat \ {0}, NEW gap \in Nat \ {0},
         n + data + gap <= HistorySize, At(n) + data <= HistorySize,
         NEW p \in 0 .. HistorySize - 1,
         NEW dst, dst = At(n) + gap, NEW n2, n2 = dst + data - HistorySize
  PROVE  /\ At(n) \in Index /\ dst \in Nat
         /\ HistorySize <= dst =>
              /\ (n + gap <= p /\ p < n + gap + data)
                   <=> (Wrap(dst) <= At(p) /\ At(p) < Wrap(dst) + data)
              /\ n + gap <= p /\ p < n + gap + data => At(p - gap) = At(n) + (At(p) - Wrap(dst))
         /\ HistorySize > dst /\ HistorySize >= dst + data =>
              /\ (n + gap <= p /\ p < n + gap + data) <=> (dst <= At(p) /\ At(p) < dst + data)
              /\ n + gap <= p /\ p < n + gap + data => At(p - gap) = At(n) + (At(p) - dst)
         /\ HistorySize > dst /\ HistorySize < dst + data =>
              /\ n2 \in Nat /\ data - n2 \in Nat /\ n2 <= At(n) /\ dst + (data - n2) = HistorySize
              /\ (n + gap <= p /\ p < n + gap + data) <=> (dst <= At(p) \/ At(p) < n2)
              /\ n + gap <= p /\ p < n + gap + data =>
                   At(p - gap) = IF dst <= At(p) THEN At(n) + (At(p) - dst)
                                 ELSE At(n) + (data - n2) + At(p)
  BY SizeAssumption, SMTT(60) DEF At, Wrap, Index

LEMMA MemmoveSlot ==
  ASSUME NEW h, DOMAIN h = Index, NEW dst, NEW src, NEW cnt, NEW f \in Index
  PROVE  /\ Memmove(h, dst, src, cnt)[f] =
              IF dst <= f /\ f < dst + cnt THEN h[src + (f - dst)] ELSE h[f]
         /\ DOMAIN Memmove(h, dst, src, cnt) = Index
         /\ Memmove(h, dst, src, cnt) = [c \in Index |-> Memmove(h, dst, src, cnt)[c]]
  BY DEF Memmove

\* DCmove_history moves a block of slots up, also across the end of the array.
LEMMA BlockMoved ==
  ASSUME history_first \in Index, NEW h, DOMAIN h = Index,
         NEW n \in Nat, NEW data \in Nat \ {0}, NEW gap \in Nat \ {0},
         n + data + gap <= HistorySize, At(n) + data <= HistorySize,
         NEW m, m = DCmove_history(h, At(n), data, gap)
  PROVE  /\ DOMAIN m = Index /\ m = [c \in Index |-> m[c]]
         /\ \A p \in 0 .. HistorySize - 1 :
              m[At(p)] = IF n + gap <= p /\ p < n + gap + data THEN h[At(p - gap)] ELSE h[At(p)]
  <1> DEFINE dst == At(n) + gap
             n2  == dst + data - HistorySize
             g   == Memmove(h, 0, At(n) + (data - n2), n2)
  <1>0. HistorySize \in Nat \ {0}
    BY SizeAssumption
  <1>1. \A p \in 0 .. HistorySize - 1 : At(p) \in Index
    BY AtIndex
  <1>2. m = IF HistorySize <= dst \/ HistorySize >= dst + data
            THEN Memmove(h, Wrap(dst), At(n), data)
            ELSE Memmove(g, dst, At(n), data - n2)
    BY DEF DCmove_history, MoveInTwo
  <1>3. DOMAIN g = Index
    BY MemmoveSlot DEF Memmove
  <1>4. DOMAIN m = Index /\ m = [c \in Index |-> m[c]]
    BY <1>2, <1>3 DEF Memmove
  <1>5. ASSUME NEW p \in 0 .. HistorySize - 1
        PROVE  m[At(p)] = IF n + gap <= p /\ p < n + gap + data THEN h[At(p - gap)] ELSE h[At(p)]
    <2>0. At(p) \in Index /\ At(n) \in Index /\ dst \in Nat
      BY <1>1, BlockPlace
    <2>1. CASE HistorySize <= dst
      <3>1. m[At(p)] = IF Wrap(dst) <= At(p) /\ At(p) < Wrap(dst) + data
                       THEN h[At(n) + (At(p) - Wrap(dst))] ELSE h[At(p)]
        BY <1>2, <2>0, <2>1, MemmoveSlot
      <3> QED
        BY <2>1, <3>1, BlockPlace
    <2>2. CASE HistorySize > dst /\ HistorySize >= dst + data
      <3>1. Wrap(dst) = dst
        BY <1>0, <2>0, <2>2 DEF Wrap
      <3>2. m[At(p)] = IF dst <= At(p) /\ At(p) < dst + data
                       THEN h[At(n) + (At(p) - dst)] ELSE h[At(p)]
        BY <1>2, <2>0, <2>2, <3>1, MemmoveSlot
      <3> QED
        BY <2>2, <3>2, BlockPlace
    <2>3. CASE HistorySize > dst /\ HistorySize < dst + data
      <3>1. m = Memmove(g, dst, At(n), data - n2)
        BY <1>0, <1>2, <2>0, <2>3
      <3>2. n2 \in Nat /\ data - n2 \in Nat /\ n2 <= At(n) /\ dst + (data - n2) = HistorySize
        BY <2>3, BlockPlace
      <3> HIDE DEF n2, g, dst
      <3>3. \A c \in Index : g[c] = IF c < n2 THEN h[At(n) + (data - n2) + c] ELSE h[c]
        <4> TAKE c \in Index
        <4>1. g[c] = IF 0 <= c /\ c < 0 + n2 THEN h[At(n) + (data - n2) + (c - 0)] ELSE h[c]
          BY MemmoveSlot DEF g
        <4>2. 0 <= c /\ 0 + n2 = n2 /\ At(n) + (data - n2) + (c - 0) = At(n) + (data - n2) + c
          BY <1>0, <2>0, <3>2 DEF Index
        <4> QED
          BY <4>1, <4>2
      <3>4. m[At(p)] = IF dst <= At(p) /\ At(p) < dst + (data - n2)
                       THEN g[At(n) + (At(p) - dst)] ELSE g[At(p)]
        BY <1>3, <2>0, <3>1, MemmoveSlot
      <3>5. /\ At(p) < dst + (data - n2)
            /\ dst <= At(p) => /\ At(n) + (At(p) - dst) \in Index
                               /\ ~(At(n) + (At(p) - dst) < n2)
        BY <1>0, <2>0, <2>3, <3>2 DEF Index
      <3>6. m[At(p)] = IF dst <= At(p) THEN h[At(n) + (At(p) - dst)]
                       ELSE IF At(p) < n2 THEN h[At(n) + (data - n2) + At(p)] ELSE h[At(p)]
        BY <2>0, <3>3, <3>4, <3>5
      <3> QED
        BY <2>3, <3>6, BlockPlace DEF dst, n2
    <2> QED
      BY <1>0, <2>0, <2>1, <2>2, <2>3
  <1> QED
    BY <1>4, <1>5

--------------------------------------------------------------------------------
(***************************************************************************)
(* The inductive invariant of the ring.                                    *)
(***************************************************************************)

\* The ring as it will be when the compaction under way is done: the slots below
\* Fixed are where they were, the ones above the holes seen so far have moved up.
Gone  == IF Vacuuming THEN reg.gap ELSE 0
Fixed == IF Vacuuming THEN reg.n + reg.data ELSE 0
Count == history_num - Gone
Place(k) == IF k < Fixed THEN k ELSE k + Gone
Row == [k \in 0 .. Count - 1 |-> history[At(Place(k))]]

IsValue(slot) == slot.itemid # Gap

RowOrdered(r) ==
  \A j \in DOMAIN r, k \in DOMAIN r :
    j < k /\ r[j].itemid = r[k].itemid /\ IsValue(r[j]) => r[j].val < r[k].val

\* The texts lie in the buffer in the order of the slots, the ones of holes too.
RowTexts(r) ==
  /\ \A k \in DOMAIN r : r[k].txt + r[k].len <= TextSize
  /\ \A j \in DOMAIN r, k \in DOMAIN r :
       j < k /\ r[j].len > 0 /\ r[k].len > 0 => r[j].txt + r[j].len <= r[k].txt

\* A value has as much text as one of its item has, and it is its own.
RowOwns(r, t) ==
  \A k \in DOMAIN r : IsValue(r[k]) =>
    /\ r[k].len = TextLen[r[k].itemid]
    /\ \A c \in r[k].txt .. r[k].txt + r[k].len - 1 : t[c] = <<r[k].itemid, r[k].val>>

RowEndsBy(r, last) == \A k \in DOMAIN r : r[k].len > 0 => r[k].txt + r[k].len <= last

\* A noted run fits into the array.
RowBounds(r) == \A k \in DOMAIN r : r[k].num >= 1 /\ k + r[k].num <= HistorySize

\* A noted run of values is one of one item, inside the ring, and so are the ones
\* that were noted in its slots before.
RowRuns(r, c) ==
  \A j \in DOMAIN r : IsValue(r[j]) =>
    /\ j + r[j].num <= c
    /\ \A k \in DOMAIN r : j <= k /\ k < j + r[j].num =>
         r[k].itemid = r[j].itemid /\ k + r[k].num <= j + r[j].num

\* What is noted of a run of holes is true as far as the ring goes.
RowHoles(r) ==
  \A j \in DOMAIN r, k \in DOMAIN r :
    ~IsValue(r[j]) /\ j <= k /\ k < j + r[j].num => ~IsValue(r[k])

\* And it does not go further.
RowClosed(r, c) == \A k \in DOMAIN r : ~IsValue(r[k]) => k + r[k].num <= c

\* The num slots from position q on are a run; the ones before are done with.
RunInv(r, c, q, num) ==
  /\ q + num <= HistorySize
  /\ ~cut \/ IsValue(r[q]) => q + num <= c
  /\ \A k \in DOMAIN r : q <= k /\ k < q + num =>
       r[k].itemid = r[q].itemid /\ (IsValue(r[k]) => k + r[k].num <= q + num)
  /\ \A j \in DOMAIN r : j < q /\ IsValue(r[j]) => j + r[j].num <= q

Waiting(r, i) == {r[k].val : k \in {j \in DOMAIN r : r[j].itemid = i}}

\* NothingDropped, of the values that will stay.
Kept == \A i \in Items : 1 .. added[i] = Waiting(Row, i) \cup InFlight(i) \cup db[i] \cup lost[i]

\* Whatever value is found in a slot is one that will stay.
Copies ==
  \A p \in 0 .. history_num - 1 :
    IsValue(history[At(p)]) => \E k \in DOMAIN Row : history[At(p)] = Row[k]

Scanned    == \E s \in SyncProcs : pc[s] = "scan"
Compacting == \E w \in Writers : pc[w] = "vactext"

\* The registers of DCvacuum_history: a block of values that begins at reg.n, in one
\* piece of the array, below the holes seen so far, above which no hole is left.
VacuumInv ==
  Vacuuming =>
    /\ {reg.n, reg.gap, reg.data} \subseteq Nat
    /\ reg.n + reg.data + reg.gap <= history_num
    /\ reg.gap = 0 => reg.data = 0
    /\ reg.data > 0 => At(reg.n) # 0 /\ At(reg.n) + reg.data <= HistorySize
    /\ \A k \in DOMAIN Row : k >= reg.n => IsValue(Row[k])

\* The registers of DCskip_items: a run that begins at reg.f; no noted run of values
\* reaches from the slots that were visited into the ones that are left.
ScanInv ==
  Scanned =>
    /\ reg.n <= history_num
    /\ reg.n > 0 =>
         /\ reg.f = At(history_num - reg.n)
         /\ RunInv(Row, history_num, history_num - reg.n, reg.num)

\* A proxy takes its values from the head of the ring and never makes a hole.
ProxyInv ==
  ~Server => /\ \A k \in DOMAIN Row : IsValue(Row[k]) /\ Row[k].num = 1
             /\ Scanned => reg.n = history_num

\* The registers of DCvacuum_text: the texts before reg.f are moved, the others lie
\* behind the end of those.
TextInv ==
  /\ Compacting =>
       /\ reg.n \in 0 .. history_num
       /\ reg.n > 0 => reg.f = At(history_num - reg.n)
       /\ \A k \in DOMAIN Row : Row[k].len > 0 =>
            IF k < history_num - reg.n THEN Row[k].txt + Row[k].len <= last_text
            ELSE last_text <= Row[k].txt
  /\ pc[Main] = "idle" /\ ~Compacting => RowEndsBy(Row, last_text)

RingTypes ==
  /\ history \in [Index -> Slot]
  /\ history_first \in Index
  /\ history_num \in Int /\ history_num <= HistorySize /\ (~cut => history_num >= 0)
  /\ reg \in [n : Int, f : Int, num : Nat, gap : Int, data : Int]
  /\ text = [c \in 0 .. TextSize - 1 |-> text[c]]
  /\ last_text \in 0 .. TextSize
  /\ local \in [Writers -> Seq(Items)]
  /\ added \in [Items -> Nat]

RingInv ==
  /\ RingTypes
  /\ RowOrdered(Row) /\ RowTexts(Row) /\ RowOwns(Row, text) /\ RowBounds(Row)
  /\ RowRuns(Row, Count)
  /\ ~Vacuuming => RowHoles(Row)
  /\ ~Vacuuming /\ ~Trimming /\ ~cut => RowClosed(Row, Count)
  /\ Kept /\ Copies
  /\ VacuumInv /\ ScanInv /\ TextInv /\ ProxyInv

--------------------------------------------------------------------------------
(***************************************************************************)
(* Lemmas about rows of slots.                                             *)
(***************************************************************************)

\* The slot is the other one, or a hole in its place.
Like(s, t) == s.txt = t.txt /\ s.len = t.len /\ (IsValue(s) => s.itemid = t.itemid /\ s.val = t.val)

\* Row r2 is what is left of r1 when slots go away or become holes.
Remains(r2, r1) ==
  \E e \in [DOMAIN r2 -> DOMAIN r1] :
    /\ \A k \in DOMAIN r2 : Like(r2[k], r1[e[k]])
    /\ \A j \in DOMAIN r2, k \in DOMAIN r2 : j < k => e[j] < e[k]

LEMMA RemainsKeeps ==
  ASSUME NEW r1, NEW r2, Remains(r2, r1)
  PROVE  /\ RowOrdered(r1) => RowOrdered(r2)
         /\ RowTexts(r1) => RowTexts(r2)
         /\ \A t : RowOwns(r1, t) => RowOwns(r2, t)
         /\ \A last : RowEndsBy(r1, last) => RowEndsBy(r2, last)
  <1>1. PICK e \in [DOMAIN r2 -> DOMAIN r1] :
          /\ \A k \in DOMAIN r2 : Like(r2[k], r1[e[k]])
          /\ \A j \in DOMAIN r2, k \in DOMAIN r2 : j < k => e[j] < e[k]
    BY DEF Remains
  <1>2. RowOrdered(r1) => RowOrdered(r2)
    BY <1>1 DEF RowOrdered, Like, IsValue
  <1>3. RowTexts(r1) => RowTexts(r2)
    BY <1>1 DEF RowTexts, Like
  <1>4. \A t : RowOwns(r1, t) => RowOwns(r2, t)
    BY <1>1 DEF RowOwns, Like, IsValue
  <1>5. \A last : RowEndsBy(r1, last) => RowEndsBy(r2, last)
    BY <1>1 DEF RowEndsBy, Like
  <1> QED
    BY <1>2, <1>3, <1>4, <1>5

\* A value of item i with the number v waits in row r.
InRow(r, i, v) == \E k \in DOMAIN r : r[k].itemid = i /\ r[k].val = v
\* It has left the ring.
Flying(i, v) == \E s \in SyncProcs : /\ pc[s] \in {"scan", "trim", "db"}
                                     /\ \E u \in batch[s] : u.itemid = i /\ u.val = v
Out(i, v) == Flying(i, v) \/ v \in db[i] \/ v \in lost[i]

LEMMA KeptMeans ==
  /\ Kept <=> \A i \in Items : \A v : v \in 1 .. added[i] <=> InRow(Row, i, v) \/ Out(i, v)
  /\ Kept' <=> \A i \in Items : \A v : v \in 1 .. added'[i] <=> InRow(Row', i, v) \/ Out(i, v)'
  <1>1. \A i : \A v : v \in Waiting(Row, i) <=> InRow(Row, i, v)
    BY DEF Waiting, InRow
  <1>2. \A i : \A v : v \in InFlight(i) <=> Flying(i, v)
    BY DEF InFlight, Flying, BatchVals
  <1>3. \A i : \A v : v \in Waiting(Row', i) <=> InRow(Row', i, v)
    BY DEF Waiting, InRow
  <1>4. \A i : \A v : v \in InFlight(i)' <=> Flying(i, v)'
    BY DEF InFlight, Flying, BatchVals
  <1>5. Kept' <=> \A i \in Items : 1 .. added'[i] = Waiting(Row', i) \cup InFlight(i)' \cup db'[i] \cup lost'[i]
    BY DEF Kept, Waiting
  <1>6. Kept <=> \A i \in Items : \A v : v \in 1 .. added[i] <=> InRow(Row, i, v) \/ Out(i, v)
    BY <1>1, <1>2 DEF Kept, Out
  <1>7. Kept' <=> \A i \in Items : \A v : v \in 1 .. added'[i] <=> InRow(Row', i, v) \/ Out(i, v)'
    BY <1>3, <1>4, <1>5 DEF Out
  <1> QED
    BY <1>6, <1>7

--------------------------------------------------------------------------------
(***************************************************************************)
(* Who holds the mutex, and what the row is then.                          *)
(***************************************************************************)

LEMMA Phases ==
  ASSUME BaseInv
  PROVE  /\ Vacuuming <=> cache_lock \in Writers /\ pc[cache_lock] = "vacuum"
         /\ Compacting <=> cache_lock \in Writers /\ pc[cache_lock] = "vactext"
         /\ Scanned <=> cache_lock \in SyncProcs /\ pc[cache_lock] = "scan"
         /\ Trimming <=> cache_lock \in SyncProcs /\ pc[cache_lock] = "trim"
         /\ Writers \cap SyncProcs = {} /\ Nobody \notin Writers \cup SyncProcs
         /\ Writers \subseteq Procs /\ SyncProcs \subseteq Procs /\ Main \in SyncProcs
  BY ProcsAssumption DEF BaseInv, LockInv, Vacuuming, Compacting, Scanned, Trimming, Working,
     Procs, SyncProcs

LEMMA PhasesNext ==
  ASSUME BaseInv'
  PROVE  /\ Vacuuming' <=> cache_lock' \in Writers /\ pc'[cache_lock'] = "vacuum"
         /\ Compacting' <=> cache_lock' \in Writers /\ pc'[cache_lock'] = "vactext"
         /\ Scanned' <=> cache_lock' \in SyncProcs /\ pc'[cache_lock'] = "scan"
         /\ Trimming' <=> cache_lock' \in SyncProcs /\ pc'[cache_lock'] = "trim"
  BY ProcsAssumption DEF BaseInv, LockInv, Vacuuming, Compacting, Scanned, Trimming, Working,
     Procs, SyncProcs

LEMMA PlainRow ==
  ASSUME history_num \in Int, ~Vacuuming
  PROVE  /\ Count = history_num
         /\ Row = [k \in 0 .. history_num - 1 |-> history[At(k)]]
  <1>1. Count = history_num /\ Gone = 0 /\ Fixed = 0
    BY DEF Count, Gone, Fixed
  <1>2. \A k \in 0 .. history_num - 1 : Place(k) = k
    BY <1>1 DEF Place
  <1> QED
    BY <1>1, <1>2 DEF Row

LEMMA PlainRowNext ==
  ASSUME NEW N \in Int, history_num' = N, ~Vacuuming'
  PROVE  /\ Count' = N
         /\ Row' = [k \in 0 .. N - 1 |-> history'[At(k)']]
  <1>0. Gone' = 0 /\ Fixed' = 0
    BY DEF Gone, Fixed
  <1>1. Count' = N
    BY <1>0 DEF Count
  <1>2. \A k \in 0 .. N - 1 : Place(k)' = k
    BY <1>0 DEF Place
  <1>3. Row' = [k \in 0 .. Count' - 1 |-> history'[At(Place(k))']]
    BY DEF Row
  <1>4. \A k \in 0 .. N - 1 : At(Place(k))' = At(k)'
    BY <1>2 DEF At
  <1> QED
    BY <1>1, <1>3, <1>4

\* Without a compaction under way there is nothing but the row.
LEMMA PlainCopies ==
  ASSUME NEW N \in Int, history_num' = N, ~Vacuuming'
  PROVE  Copies'
  <1>1. Row' = [k \in 0 .. N - 1 |-> history'[At(k)']]
    BY PlainRowNext
  <1> QED
    BY <1>1 DEF Copies

--------------------------------------------------------------------------------
(***************************************************************************)
(* The steps that leave the ring and the texts alone.                      *)
(***************************************************************************)

LEMMA RemainsSame == ASSUME NEW r PROVE Remains(r, r)
  <1> DEFINE e == [k \in DOMAIN r |-> k]
  <1>1. e \in [DOMAIN r -> DOMAIN r] /\ \A k \in DOMAIN r : e[k] = k
    OBVIOUS
  <1>2. \A k \in DOMAIN r : Like(r[k], r[e[k]])
    BY DEF Like
  <1>3. \A j \in DOMAIN r, k \in DOMAIN r : j < k => e[j] < e[k]
    OBVIOUS
  <1> QED
    BY <1>1, <1>2, <1>3 DEF Remains

LEMMA RingInit == Init => RingInv
  <1> SUFFICES ASSUME Init PROVE RingInv
    OBVIOUS
  <1>0. HistorySize \in Nat \ {0} /\ TextSize \in Nat
    BY SizeAssumption
  <1>1. ~Vacuuming /\ ~Scanned /\ ~Trimming /\ ~Compacting
    BY DEF Init, Vacuuming, Scanned, Trimming, Compacting, Procs, SyncProcs
  <1>2. Row = [k \in 0 .. history_num - 1 |-> history[At(k)]] /\ history_num = 0
    BY <1>1, PlainRow DEF Init
  <1>3. DOMAIN Row = {}
    BY <1>2
  <1>4. history \in [Index -> Slot]
    BY DEF Init, Slot
  <1>5. RingTypes
    <2>1. reg \in [n : Int, f : Int, num : Nat, gap : Int, data : Int]
      BY DEF Init, Regs0
    <2>2. local \in [Writers -> Seq(Items)] /\ added \in [Items -> Nat]
      BY DEF Init
    <2>3. /\ history_first \in Index /\ history_num \in Int /\ history_num <= HistorySize
          /\ history_num >= 0 /\ last_text \in 0 .. TextSize
      BY <1>0 DEF Init, Index
    <2>4. text = [c \in 0 .. TextSize - 1 |-> text[c]]
      BY DEF Init
    <2> QED
      BY <1>4, <2>1, <2>2, <2>3, <2>4 DEF RingTypes
  <1>6. \A i \in Items : \A v : ~Out(i, v) /\ added[i] = 0
    BY DEF Init, Out, Flying
  <1>7. Kept
    BY <1>3, <1>6, KeptMeans DEF InRow
  <1>8. Copies
    BY <1>2 DEF Copies
  <1> QED
    BY <1>1, <1>3, <1>5, <1>7, <1>8 DEF RingInv, RowOrdered, RowTexts, RowOwns, RowBounds, RowRuns,
       RowHoles, RowClosed, RowEndsBy, VacuumInv, ScanInv, TextInv, ProxyInv

\* A process that has values in its hands keeps them.
LEMMA OutSame ==
  ASSUME UNCHANGED <<batch, db, lost>>,
         \A s \in SyncProcs : \/ batch[s] = {}
                              \/ pc'[s] \in {"scan", "trim", "db"} <=> pc[s] \in {"scan", "trim", "db"}
  PROVE  \A i : \A v : Out(i, v)' <=> Out(i, v)
  <1>1. \A i : \A v : Flying(i, v)' <=> Flying(i, v)
    BY DEF Flying
  <1> QED
    BY <1>1 DEF Out

\* The invariant after a step that leaves of the row what it can, and of the values
\* as many as it must.
LEMMA RingStep ==
  ASSUME RingInv, RingTypes', ~Vacuuming', ~Compacting',
         NEW N \in Int, history_num' = N, UNCHANGED text,
         Remains(Row', Row), RowBounds(Row'), RowRuns(Row', N), RowHoles(Row'),
         ~Trimming' /\ ~cut' => RowClosed(Row', N),
         Kept', ScanInv', ProxyInv',
         pc'[Main] = "idle" => RowEndsBy(Row', last_text')
  PROVE  RingInv'
  <1>1. RowOrdered(Row') /\ RowTexts(Row') /\ RowOwns(Row', text)
    BY RemainsKeeps DEF RingInv
  <1>2. Copies' /\ Count' = N
    BY PlainCopies, PlainRowNext
  <1>3. /\ RowOrdered(Row)' /\ RowTexts(Row)' /\ RowOwns(Row, text)'
        /\ RowBounds(Row)' /\ RowRuns(Row, Count)' /\ RowHoles(Row)'
    BY <1>1, <1>2 DEF RowOrdered, RowTexts, RowOwns, RowBounds, RowRuns, RowHoles, IsValue
  <1>4. ~Trimming' /\ ~cut' => RowClosed(Row, Count)'
    BY <1>2 DEF RowClosed, IsValue
  <1>5. VacuumInv'
    BY DEF VacuumInv
  <1>6. TextInv'
    BY DEF TextInv, RowEndsBy
  <1> QED
    BY <1>2, <1>3, <1>4, <1>5, <1>6 DEF RingInv

LEMMA RingFrame ==
  ASSUME RingInv, RingTypes', ~Vacuuming, ~Vacuuming', ~Compacting',
         UNCHANGED <<history, history_first, history_num, text, last_text, added>>,
         ~Trimming' /\ ~cut' => RowClosed(Row, Count),
         \A i \in Items : \A v : Out(i, v)' <=> Out(i, v),
         ScanInv', Scanned' => reg'.n = history_num' \/ Server,
         pc'[Main] = "idle" => RowEndsBy(Row, last_text)
  PROVE  RingInv'
  <1>1. PICK N \in Int : history_num = N
    BY DEF RingInv, RingTypes
  <1>2. Count = N /\ Row = [k \in 0 .. N - 1 |-> history[At(k)]]
    BY <1>1, PlainRow
  <1>3. Count' = N /\ Row' = [k \in 0 .. N - 1 |-> history'[At(k)']]
    BY <1>1, PlainRowNext
  <1>4. Row' = Row
    BY <1>2, <1>3 DEF At
  <1>5. Kept'
    BY <1>4, KeptMeans DEF RingInv
  <1>6. RowBounds(Row') /\ RowRuns(Row', N) /\ RowHoles(Row') /\ Remains(Row', Row)
    BY <1>2, <1>4, RemainsSame DEF RingInv
  <1>7. ProxyInv'
    BY <1>4 DEF RingInv, ProxyInv, IsValue
  <1> QED
    BY <1>1, <1>2, <1>4, <1>5, <1>6, <1>7, RingStep

\* A step of a process that does not hold the mutex.
LEMMA RingBystander ==
  ASSUME BaseInv, BaseInv', RingInv, NEW p \in Procs, NEW l,
         pc' = pc \/ (pc' = [pc EXCEPT ![p] = l] /\ cache_lock # p /\ (l # "idle" \/ p # Main)),
         UNCHANGED <<history, history_first, history_num, text, last_text, added, reg, cut, cache_lock>>,
         local' \in [Writers -> Seq(Items)],
         \A i \in Items : \A v : Out(i, v)' <=> Out(i, v)
  PROVE  RingInv'
  <1>1. pc' = pc \/ (cache_lock # p /\ \A q \in Procs : q # p => pc'[q] = pc[q])
    BY DEF BaseInv
  <1>2. /\ Vacuuming' <=> Vacuuming
        /\ Compacting' <=> Compacting
        /\ Scanned' <=> Scanned
        /\ Trimming' <=> Trimming
    BY <1>1, Phases, PhasesNext
  <1>3. pc'[Main] = "idle" => pc[Main] = "idle"
    BY <1>1, Phases DEF BaseInv
  <1>4. Gone' = Gone /\ Fixed' = Fixed
    BY <1>2 DEF Gone, Fixed
  <1>5. Count' = Count
    BY <1>4 DEF Count
  <1>6. Row' = Row
    BY <1>4, <1>5 DEF Row, Place, At
  <1>7. Kept'
    BY <1>6, KeptMeans DEF RingInv
  <1>8. RingTypes'
    BY DEF RingInv, RingTypes
  <1>9. Copies'
    BY <1>6 DEF RingInv, Copies, At, IsValue
  <1>10. VacuumInv'
    BY <1>2, <1>6 DEF RingInv, VacuumInv, At, IsValue
  <1>11. ScanInv'
    BY <1>2, <1>6 DEF RingInv, ScanInv, RunInv, At, IsValue
  <1>12. TextInv'
    BY <1>2, <1>3, <1>6 DEF RingInv, TextInv, At, RowEndsBy
  <1>14. ProxyInv'
    BY <1>2, <1>6 DEF RingInv, ProxyInv, IsValue
  <1>13. /\ RowOrdered(Row)' /\ RowTexts(Row)' /\ RowOwns(Row, text)' /\ RowBounds(Row)'
         /\ RowRuns(Row, Count)'
         /\ ~Vacuuming' => RowHoles(Row)'
         /\ ~Vacuuming' /\ ~Trimming' /\ ~cut' => RowClosed(Row, Count)'
    BY <1>2, <1>3, <1>5, <1>6 DEF RingInv, RowOrdered, RowTexts, RowOwns, RowBounds, RowRuns, RowHoles, RowClosed, IsValue
  <1> QED
    BY <1>7, <1>8, <1>9, <1>10, <1>11, <1>12, <1>13, <1>14 DEF RingInv

\* The end of a transaction: what a syncer had in its hands is in the database, or lost.
LEMMA RingCommit ==
  ASSUME BaseInv, NEW s \in SyncProcs, Commit(s)
  PROVE  \A i \in Items : \A v : Out(i, v)' <=> Out(i, v)
  <1>1. /\ pc[s] = "db" /\ pc'[s] = "release" /\ batch' = batch
        /\ \A t \in SyncProcs : t # s => pc'[t] = pc[t]
    BY Phases DEF Commit, Goto, BaseInv, sync
  <1>2. ASSUME NEW i \in Items, NEW v
        PROVE  v \in BatchVals(s, i) <=> \E u \in batch[s] : u.itemid = i /\ u.val = v
    BY DEF BatchVals
  <1>3. ASSUME NEW i \in Items, NEW v
        PROVE  Flying(i, v) <=> Flying(i, v)' \/ v \in BatchVals(s, i)
    BY <1>1, <1>2 DEF Flying
  <1>4. \/ db' = [i \in Items |-> db[i] \cup BatchVals(s, i)] /\ lost' = lost
        \/ lost' = [i \in Items |-> lost[i] \cup BatchVals(s, i)] /\ db' = db
    BY DEF Commit
  <1> QED
    BY <1>3, <1>4 DEF Out

\* The end of a round: the values are in the database.
LEMMA RingRelease ==
  ASSUME BaseInv, NEW s \in SyncProcs, Release(s)
  PROVE  \A i \in Items : \A v : Out(i, v)' <=> Out(i, v)
  <1>1. /\ pc[s] = "release" /\ pc'[s] \notin {"scan", "trim", "db"}
        /\ \A t \in SyncProcs : t # s => pc'[t] = pc[t] /\ batch'[t] = batch[t]
        /\ UNCHANGED <<db, lost>>
    BY Phases DEF Release, Continue, Return, Goto, BaseInv, ghost
  <1>2. \A i \in Items : \A v : Flying(i, v)' <=> Flying(i, v)
    BY <1>1 DEF Flying
  <1> QED
    BY <1>1, <1>2 DEF Out

LEMMA RingBystanders ==
  ASSUME BaseInv, BaseInv', RingInv,
         \/ \E w \in Writers, i \in Items : dc_add_history(w, i)
         \/ \E s \in SyncProcs : SyncIdle(s) \/ SyncStart(s) \/ Commit(s) \/ Release(s)
         \/ SyncFull \/ Stopped \/ UNCHANGED vars
  PROVE  RingInv'
  <1>0. local \in [Writers -> Seq(Items)]
    BY DEF RingInv, RingTypes
  <1>1. ASSUME NEW w \in Writers, NEW i \in Items, dc_add_history(w, i) PROVE RingInv'
    <2>1. /\ UNCHANGED <<history, history_first, history_num, text, last_text, added, reg, cut,
                         cache_lock, pc, batch, db, lost>>
          /\ local' = [local EXCEPT ![w] = Append(@, i)] /\ pc[w] = "idle"
      BY <1>1 DEF dc_add_history, ring, textbuf, ghost, sync
    <2>2. local' \in [Writers -> Seq(Items)]
      BY <1>0, <2>1
    <2>3. w \in Procs /\ cache_lock # w
      BY <2>1, Phases DEF BaseInv, LockInv, Working
    <2>4. \A j \in Items : \A v : Out(j, v)' <=> Out(j, v)
      BY <2>1, OutSame
    <2> QED
      BY <2>1, <2>2, <2>3, <2>4, RingBystander
  <1>2. ASSUME NEW s \in SyncProcs, SyncStart(s) PROVE RingInv'
    <2>1. /\ UNCHANGED <<history, history_first, history_num, text, last_text, added, reg, cut,
                         cache_lock, batch, db, lost, local>>
          /\ pc' = [pc EXCEPT ![s] = "collect"] /\ pc[s] = "idle" /\ s \in Syncers
      BY <1>2 DEF SyncStart, Goto, ring, textbuf, ghost, sync
    <2>2. s \in Procs /\ cache_lock # s /\ s # Main
      BY <2>1, Phases, ProcsAssumption DEF BaseInv, LockInv, Working
    <2>3. \A t \in SyncProcs : pc'[t] \in {"scan", "trim", "db"} <=> pc[t] \in {"scan", "trim", "db"}
      BY <2>1, <2>2, Phases DEF BaseInv
    <2>4. \A j \in Items : \A v : Out(j, v)' <=> Out(j, v)
      BY <2>1, <2>3, OutSame
    <2> QED
      BY <1>0, <2>1, <2>2, <2>4, RingBystander
  <1>3. ASSUME NEW s \in SyncProcs, Commit(s) PROVE RingInv'
    <2>1. /\ UNCHANGED <<history, history_first, history_num, text, last_text, added, reg, cut,
                         cache_lock, local>>
          /\ pc' = [pc EXCEPT ![s] = "release"] /\ pc[s] = "db"
      BY <1>3 DEF Commit, Goto, ring, textbuf, sync
    <2>2. s \in Procs /\ cache_lock # s
      BY <2>1, Phases DEF BaseInv, LockInv, Working
    <2>3. \A j \in Items : \A v : Out(j, v)' <=> Out(j, v)
      BY <1>3, RingCommit
    <2>4. pc' = [pc EXCEPT ![s] = "release"] /\ cache_lock # s /\ "release" # "idle"
      BY <2>1, <2>2
    <2> QED
      BY <1>0, <2>1, <2>2, <2>3, <2>4, RingBystander
  <1>4. ASSUME NEW s \in SyncProcs, Release(s) PROVE RingInv'
    <2>1. /\ UNCHANGED <<history, history_first, history_num, text, last_text, added, reg, cut,
                         cache_lock, local>>
          /\ pc[s] = "release"
      BY <1>4 DEF Release, ring, textbuf, ghost
    <2>2. PICK l : pc' = [pc EXCEPT ![s] = l] /\ (l # "idle" \/ s # Main)
      BY <1>4 DEF Release, Continue, Return, Goto
    <2>3. s \in Procs /\ cache_lock # s
      BY <2>1, Phases DEF BaseInv, LockInv, Working
    <2> QED
      BY <1>0, <1>4, <2>1, <2>2, <2>3, RingBystander, RingRelease
  <1>5. ASSUME SyncFull PROVE RingInv'
    <2>1. /\ UNCHANGED <<history, history_first, history_num, text, last_text, added, reg, cut,
                         cache_lock, batch, db, lost, local>>
          /\ pc[Main] = "exit"
      BY <1>5 DEF SyncFull, ring, textbuf, ghost, sync
    <2>2. PICK l \in {"done", "collect"} : pc' = [pc EXCEPT ![Main] = l]
      BY <1>5 DEF SyncFull, Goto
    <2>3. Main \in Procs /\ cache_lock # Main
      BY <2>1, Phases DEF BaseInv, LockInv, Working
    <2>4. \A t \in SyncProcs : pc'[t] \in {"scan", "trim", "db"} <=> pc[t] \in {"scan", "trim", "db"}
      BY <2>1, <2>2, <2>3, Phases DEF BaseInv
    <2>5. \A j \in Items : \A v : Out(j, v)' <=> Out(j, v)
      BY <2>1, <2>4, OutSame
    <2> QED
      BY <1>0, <2>1, <2>2, <2>3, <2>5, RingBystander
  <1>6. ASSUME UNCHANGED vars PROVE RingInv'
    <2>1. UNCHANGED <<history, history_first, history_num, text, last_text, added, reg, cut,
                      cache_lock, batch, db, lost, local, pc>>
      BY <1>6 DEF vars, ring, textbuf, ghost, sync
    <2>2. Main \in Procs
      BY DEF Procs, SyncProcs
    <2>3. \A j \in Items : \A v : Out(j, v)' <=> Out(j, v)
      BY <2>1, OutSame
    <2> QED
      BY <1>0, <2>1, <2>2, <2>3, RingBystander
  <1> QED
    BY <1>1, <1>2, <1>3, <1>4, <1>5, <1>6 DEF SyncIdle, Stopped

\* What a writer does with the mutex between two values.
LEMMA RingWriterQuiet ==
  ASSUME BaseInv, BaseInv', RingInv, NEW w \in Writers,
         \/ dc_flush_history(w) \/ Retry(w) \/ FlushDone(w) \/ VacTextDone(w)
         \/ TextFull(w) /\ ~WorthVacuumText
         \/ RingFull(w) /\ HistorySize \div 100 >= history_gap_num
  PROVE  RingInv'
  <1>1. /\ UNCHANGED <<history, history_first, history_num, text, last_text, added, batch, db, lost, cut, local>>
        /\ reg' = reg \/ reg' = Regs0
        /\ \E l \in {"add", "idle", "sleep"} : pc' = [pc EXCEPT ![w] = l]
        /\ cache_lock \in {Nobody, w} /\ cache_lock' \in {Nobody, w}
        /\ \/ cache_lock = Nobody
           \/ pc[w] = "add"
           \/ pc[w] = "vactext" /\ reg.n = 0
    BY DEF dc_flush_history, Retry, FlushDone, VacTextDone, TextFull, RingFull,
       Sleep, Goto, Lock, Unlock, ring, textbuf, ghost, sync
  <1>2. /\ \A s \in SyncProcs : pc'[s] = pc[s]
        /\ pc'[w] \in {"add", "idle", "sleep"}
    BY <1>1, Phases DEF BaseInv
  <1>3. /\ ~Vacuuming /\ ~Scanned /\ ~Trimming
        /\ Compacting => reg.n = 0
    BY <1>1, Phases
  <1>4. ~Vacuuming' /\ ~Scanned' /\ ~Trimming' /\ ~Compacting'
    BY <1>1, <1>2, Phases, PhasesNext
  <1>5. RingTypes'
    BY <1>1 DEF RingInv, RingTypes, Regs0
  <1>6. \A i \in Items : \A v : Out(i, v)' <=> Out(i, v)
    BY <1>1, <1>2, OutSame
  <1>7. ScanInv'
    BY <1>4 DEF ScanInv
  <1>8. ~cut' => RowClosed(Row, Count)
    BY <1>1, <1>3, Phases DEF RingInv
  <1>9. pc'[Main] = "idle" => RowEndsBy(Row, last_text)
    <2>1. PICK N \in Int : history_num = N
      BY DEF RingInv, RingTypes
    <2>2. DOMAIN Row = 0 .. N - 1
      BY <1>3, <2>1, PlainRow
    <2>3. CASE Compacting
      BY <1>3, <2>1, <2>2, <2>3 DEF RingInv, TextInv, RowEndsBy
    <2>4. CASE ~Compacting
      BY <1>2, <2>4, Phases DEF RingInv, TextInv
    <2> QED
      BY <2>3, <2>4
  <1> QED
    BY <1>1, <1>3, <1>4, <1>5, <1>6, <1>7, <1>8, <1>9, RingFrame

\* The steps of a syncer between its passes over the ring.
LEMMA RingSyncerQuiet ==
  ASSUME BaseInv, BaseInv', RingInv, NEW s \in SyncProcs, ScanDone(s)
  PROVE  RingInv'
  <1>1. /\ UNCHANGED <<history, history_first, history_num, text, last_text, added, batch, db, lost, cut, local>>
        /\ reg' = Regs0 /\ pc[s] = "scan" /\ cache_lock = s /\ cache_lock' = s
        /\ pc' = [pc EXCEPT ![s] = "trim"]
    BY DEF ScanDone, Goto, ring, textbuf, ghost, sync
  <1>2. /\ pc'[s] = "trim" /\ \A t \in SyncProcs : t # s => pc'[t] = pc[t]
        /\ pc'[Main] = "idle" => pc[Main] = "idle"
    BY <1>1, Phases DEF BaseInv
  <1>3. ~Vacuuming /\ ~Compacting /\ ~Vacuuming' /\ ~Scanned' /\ Trimming' /\ ~Compacting'
    BY <1>1, <1>2, Phases, PhasesNext
  <1>4. RingTypes'
    BY <1>1 DEF RingInv, RingTypes, Regs0
  <1>5. \A i \in Items : \A v : Out(i, v)' <=> Out(i, v)
    BY <1>1, <1>2, OutSame
  <1>6. ScanInv'
    BY <1>3 DEF ScanInv
  <1>7. pc'[Main] = "idle" => RowEndsBy(Row, last_text)
    BY <1>2, <1>3 DEF RingInv, TextInv
  <1> QED
    BY <1>1, <1>3, <1>4, <1>5, <1>6, <1>7, RingFrame

\* The head of the do loop of DCsync_history.
LEMMA RingCollect ==
  ASSUME BaseInv, BaseInv', RingInv, NEW s \in SyncProcs, Collect(s)
  PROVE  RingInv'
  <1>1. /\ UNCHANGED <<history, history_first, history_num, text, last_text, added, db, lost, cut, local>>
        /\ reg' = [Regs0 EXCEPT !.n = history_num, !.f = history_first]
        /\ batch' = [batch EXCEPT ![s] = {}]
        /\ pc[s] = "collect" /\ cache_lock = Nobody /\ cache_lock' = s
        /\ pc' = [pc EXCEPT ![s] = "scan"]
    BY DEF Collect, Goto, Lock, ring, textbuf, ghost
  <1>2. /\ pc'[s] = "scan" /\ batch'[s] = {}
        /\ \A t \in SyncProcs : t # s => pc'[t] = pc[t] /\ batch'[t] = batch[t]
        /\ pc'[Main] = "idle" => pc[Main] = "idle"
    BY <1>1, Phases DEF BaseInv
  <1>3. ~Vacuuming /\ ~Compacting /\ ~Vacuuming' /\ Scanned' /\ ~Compacting'
    BY <1>1, <1>2, Phases, PhasesNext
  <1>4. PICK N \in Int, F \in Index :
          /\ history_num = N /\ N <= HistorySize /\ history_first = F
          /\ history_num' = N /\ history_first' = F
    BY <1>1 DEF RingInv, RingTypes
  <1>5. reg' = [n |-> N, f |-> F, num |-> 0, gap |-> 0, data |-> 0]
    BY <1>1, <1>4 DEF Regs0
  <1>6. F \in Int /\ HistorySize \in Nat \ {0}
    BY SizeAssumption DEF Index
  <1>7. reg' \in [n : Int, f : Int, num : Nat, gap : Int, data : Int]
    BY <1>5, <1>6
  <1>8. RingTypes'
    BY <1>1, <1>7 DEF RingInv, RingTypes
  <1>9. \A i \in Items : \A v : Out(i, v)' <=> Out(i, v)
    <2>1. \A i \in Items : \A v : Flying(i, v)' <=> Flying(i, v)
      BY <1>1, <1>2 DEF Flying
    <2> QED
      BY <1>1, <2>1 DEF Out
  <1>10. ScanInv'
    <2>1. /\ reg'.n = N /\ reg'.f = F /\ reg'.num = 0
          /\ At(0)' = F
      BY <1>4, <1>5, <1>6 DEF At, Wrap, Index
    <2>2. DOMAIN Row' = 0 .. N - 1
      BY <1>3, <1>4, PlainRowNext
    <2>3. N - N = 0 /\ N <= N
      OBVIOUS
    <2>4. N > 0 => RunInv(Row, N, 0, 0)'
      BY <1>6, <2>2 DEF RunInv
    <2> QED
      BY <1>4, <2>1, <2>3, <2>4 DEF ScanInv, RunInv
  <1>11. pc'[Main] = "idle" => RowEndsBy(Row, last_text)
    BY <1>2, <1>3 DEF RingInv, TextInv
  <1>12. reg'.n = history_num'
    BY <1>4, <1>5
  <1>13. ~cut' => RowClosed(Row, Count)
    <2>1. ~Trimming
      BY <1>1, Phases
    <2> QED
      BY <1>1, <1>3, <2>1 DEF RingInv
  <1> QED
    BY <1>1, <1>3, <1>8, <1>9, <1>10, <1>11, <1>12, <1>13, RingFrame

\* The end of the daemon: what was in the hands of the syncers is lost.
LEMMA RingTerminate ==
  ASSUME BaseInv, BaseInv', RingInv, Terminate, ~torn'
  PROVE  RingInv'
  <1>1. /\ UNCHANGED <<history, history_first, history_num, text, last_text, added, db>>
        /\ reg' = Regs0 /\ cache_lock' = Nobody
        /\ pc[Main] = "idle" /\ pc'[Main] = "exit"
        /\ \A p \in Procs : pc'[p] \in {"exit", "dead"}
        /\ local' = [w \in Writers |-> <<>>]
        /\ batch' = [s \in SyncProcs |-> {}]
        /\ ~Vacuuming
    BY Phases DEF Terminate, ring, textbuf, Vacuuming, Procs
  <1>2. ~Vacuuming' /\ ~Scanned' /\ ~Trimming' /\ ~Compacting'
    BY <1>1, Phases, PhasesNext
  <1>3. RingTypes'
    <2>1. reg' \in [n : Int, f : Int, num : Nat, gap : Int, data : Int]
      BY <1>1 DEF Regs0
    <2>2. local' \in [Writers -> Seq(Items)]
      BY <1>1
    <2> QED
      BY <1>1, <2>1, <2>2 DEF RingInv, RingTypes, BaseInv, LockInv
  <1>4. ASSUME NEW i \in Items, NEW v PROVE Out(i, v)' <=> Out(i, v)
    <2>1. ~Flying(i, v)'
      BY <1>1 DEF Flying
    <2>2. lost'[i] = lost[i] \cup UNION {BatchVals(s, i) : s \in {t \in Syncers : pc[t] # "release"}}
      BY DEF Terminate
    <2>3. v \in UNION {BatchVals(s, i) : s \in {t \in Syncers : pc[t] # "release"}}
            <=> \E s \in Syncers : pc[s] # "release" /\ \E u \in batch[s] : u.itemid = i /\ u.val = v
      BY DEF BatchVals
    <2>4. \A s \in Syncers : batch[s] # {} /\ pc[s] # "release" => pc[s] \in {"scan", "trim", "db"}
      BY DEF BaseInv, HeldInv
    <2>5. Flying(i, v) <=>
            \E s \in Syncers : pc[s] # "release" /\ \E u \in batch[s] : u.itemid = i /\ u.val = v
      BY <1>1, <2>4 DEF Flying, SyncProcs
    <2> QED
      BY <1>1, <2>1, <2>2, <2>3, <2>5 DEF Out
  <1>5. ScanInv'
    BY <1>2 DEF ScanInv
  <1>6. ~cut' => RowClosed(Row, Count)
    <2>1. ~cut' => ~Trimming /\ ~cut
      BY <1>1 DEF Terminate, Trimming, SyncProcs, BaseInv, LockInv
    <2> QED
      BY <1>1, <2>1 DEF RingInv
  <1>7. pc'[Main] = "idle" => RowEndsBy(Row, last_text)
    BY <1>1
  <1> QED
    BY <1>1, <1>2, <1>3, <1>4, <1>5, <1>6, <1>7, RingFrame

--------------------------------------------------------------------------------
(***************************************************************************)
(* What the operations on the ring do to a row of c slots.                 *)
(***************************************************************************)

RowSound(r, c) == RowBounds(r) /\ RowRuns(r, c) /\ RowHoles(r)

\* Nothing noted before position q reaches beyond it.
DoneTo(r, q) == \A j \in DOMAIN r : j < q /\ IsValue(r[j]) => j + r[j].num <= q

\* DCskip_items goes on by one noted run.
LEMMA RunGrow ==
  ASSUME NEW c \in Int, NEW r \in [0 .. c - 1 -> Slot], RowSound(r, c), cut \/ RowClosed(r, c),
         NEW q \in Nat, NEW num \in Nat, q + num < c, RunInv(r, c, q, num),
         r[q + num].itemid = r[q].itemid
  PROVE  RunInv(r, c, q, num + r[q + num].num)
  <1>0. HistorySize \in Nat
    BY SizeAssumption
  <1>1. /\ \A k \in 0 .. c - 1 : r[k].num \in Nat
        /\ q + num \in 0 .. c - 1 /\ q \in 0 .. c - 1
    BY DEF Slot
  <1> DEFINE m == r[q + num].num
  <1>2. m \in Nat /\ q + num + m <= HistorySize
    BY <1>0, <1>1 DEF RowSound, RowBounds
  <1>3. IsValue(r[q]) <=> IsValue(r[q + num])
    BY DEF IsValue
  <1>4. ~cut \/ IsValue(r[q]) => q + num + m <= c
    BY <1>0, <1>1, <1>3 DEF RowSound, RowRuns, RowClosed
  <1>5. ASSUME NEW k \in 0 .. c - 1, q <= k, k < q + num + m
        PROVE  r[k].itemid = r[q].itemid /\ (IsValue(r[k]) => k + r[k].num <= q + num + m)
    <2>1. CASE k < q + num
      BY <1>0, <1>1, <1>2, <1>5, <2>1 DEF RunInv
    <2>2. CASE q + num <= k /\ IsValue(r[q + num])
      <3>1. r[k].itemid = r[q + num].itemid /\ k + r[k].num <= q + num + m
        BY <1>0, <1>1, <1>2, <1>5, <2>2 DEF RowSound, RowRuns
      <3> QED
        BY <3>1
    <2>3. CASE q + num <= k /\ ~IsValue(r[q + num])
      <3>1. ~IsValue(r[k])
        BY <1>0, <1>1, <1>2, <1>5, <2>3 DEF RowSound, RowHoles
      <3> QED
        BY <2>3, <3>1 DEF IsValue
    <2> QED
      BY <1>1, <1>5, <2>1, <2>2, <2>3
  <1>6. \A j \in DOMAIN r : j < q /\ IsValue(r[j]) => j + r[j].num <= q
    BY DEF RunInv
  <1>7. q + (num + m) = q + num + m
    BY <1>2
  <1> QED
    BY <1>2, <1>4, <1>5, <1>6, <1>7 DEF RunInv

\* DCskip_items notes the length of the run it has found in its first two slots.
Noted(r, q, num) ==
  [k \in DOMAIN r |-> IF k = q THEN [r[k] EXCEPT !.num = num]
                      ELSE IF num > 1 /\ k = q + 1 THEN [r[k] EXCEPT !.num = num - 1]
                      ELSE r[k]]

LEMMA NotedSlots ==
  ASSUME NEW c \in Int, NEW r \in [0 .. c - 1 -> Slot], NEW q \in Nat, NEW num \in Nat \ {0}
  PROVE  /\ Noted(r, q, num) \in [0 .. c - 1 -> Slot]
         /\ \A k \in 0 .. c - 1 :
              /\ Like(Noted(r, q, num)[k], r[k])
              /\ Noted(r, q, num)[k].itemid = r[k].itemid
              /\ Noted(r, q, num)[k].val = r[k].val
              /\ Noted(r, q, num)[k].num = IF k = q THEN num
                                           ELSE IF num > 1 /\ k = q + 1 THEN num - 1
                                           ELSE r[k].num
  <1>1. ASSUME NEW k \in 0 .. c - 1
        PROVE  /\ Noted(r, q, num)[k] \in Slot
               /\ Like(Noted(r, q, num)[k], r[k])
               /\ Noted(r, q, num)[k].itemid = r[k].itemid
               /\ Noted(r, q, num)[k].val = r[k].val
               /\ Noted(r, q, num)[k].num = IF k = q THEN num
                                           ELSE IF num > 1 /\ k = q + 1 THEN num - 1
                                           ELSE r[k].num
    <2>0. Noted(r, q, num)[k] = IF k = q THEN [r[k] EXCEPT !.num = num]
                               ELSE IF num > 1 /\ k = q + 1 THEN [r[k] EXCEPT !.num = num - 1]
                               ELSE r[k]
      BY DEF Noted
    <2>1. ASSUME NEW m \in Nat, NEW t, t = [r[k] EXCEPT !.num = m]
          PROVE  /\ t \in Slot /\ Like(t, r[k])
                 /\ t.itemid = r[k].itemid /\ t.val = r[k].val /\ t.num = m
      BY <2>1 DEF Slot, Like
    <2>2. CASE k = q
      BY <2>0, <2>1, <2>2
    <2>3. CASE k # q /\ num > 1 /\ k = q + 1
      <3>1. num - 1 \in Nat
        OBVIOUS
      <3> QED
        BY <2>0, <2>1, <2>3, <3>1
    <2>4. CASE k # q /\ ~(num > 1 /\ k = q + 1)
      BY <2>0, <2>4 DEF Like
    <2> QED
      BY <2>2, <2>3, <2>4
  <1> QED
    BY <1>1 DEF Noted

\* Slots that keep their text, and become holes or keep their value, where they are.
LEMMA RemainsInPlace ==
  ASSUME NEW D, NEW r1, NEW r2, DOMAIN r1 = D, DOMAIN r2 = D, \A k \in D : Like(r2[k], r1[k])
  PROVE  Remains(r2, r1)
  <1> DEFINE e == [k \in D |-> k]
  <1>1. e \in [DOMAIN r2 -> DOMAIN r1] /\ \A k \in DOMAIN r2 : e[k] = k
    OBVIOUS
  <1>2. \A k \in DOMAIN r2 : Like(r2[k], r1[e[k]])
    BY <1>1
  <1>3. \A j \in DOMAIN r2, k \in DOMAIN r2 : j < k => e[j] < e[k]
    BY <1>1
  <1> QED
    BY <1>1, <1>2, <1>3 DEF Remains

LEMMA RunNoted ==
  ASSUME NEW c \in Int, NEW r \in [0 .. c - 1 -> Slot], RowSound(r, c), cut \/ RowClosed(r, c),
         NEW q \in Nat, NEW num \in Nat \ {0}, q < c, RunInv(r, c, q, num),
         NEW r2, r2 = Noted(r, q, num)
  PROVE  /\ Remains(r2, r) /\ RowSound(r2, c) /\ (cut \/ RowClosed(r2, c)) /\ DoneTo(r2, q + num)
  <1>0. HistorySize \in Nat
    BY SizeAssumption
  <1>1. /\ DOMAIN r = 0 .. c - 1 /\ DOMAIN r2 = 0 .. c - 1
        /\ \A k \in 0 .. c - 1 : r[k].num \in Nat
        /\ q \in 0 .. c - 1
    BY DEF Slot, Noted
  <1>2. \A k \in 0 .. c - 1 :
          /\ Like(r2[k], r[k])
          /\ r2[k].itemid = r[k].itemid
          /\ IsValue(r2[k]) <=> IsValue(r[k])
          /\ r2[k].num = IF k = q THEN num
                         ELSE IF num > 1 /\ k = q + 1 THEN num - 1 ELSE r[k].num
    BY NotedSlots DEF IsValue
  <1>3. Remains(r2, r)
    BY <1>1, <1>2, RemainsInPlace
  <1>4. RowBounds(r2)
    <2> SUFFICES ASSUME NEW k \in 0 .. c - 1 PROVE r2[k].num >= 1 /\ k + r2[k].num <= HistorySize
      BY <1>1 DEF RowBounds
    <2>1. r[k].num \in Nat /\ r[k].num >= 1 /\ k + r[k].num <= HistorySize /\ q + num <= HistorySize
      BY <1>1 DEF RowBounds, RowSound, RunInv
    <2>2. CASE k = q
      BY <1>2, <2>1, <2>2
    <2>3. CASE k # q /\ num > 1 /\ k = q + 1
      <3>1. r2[k].num = num - 1
        BY <1>2, <2>3
      <3> QED
        BY <1>0, <2>1, <2>3, <3>1
    <2>4. CASE k # q /\ ~(num > 1 /\ k = q + 1)
      BY <1>2, <2>1, <2>4
    <2> QED
      BY <2>2, <2>3, <2>4
  <1>5. DoneTo(r2, q + num)
    <2> SUFFICES ASSUME NEW j \in 0 .. c - 1, j < q + num, IsValue(r2[j]) PROVE j + r2[j].num <= q + num
      BY <1>1 DEF DoneTo
    <2>0. r[j].num \in Nat /\ IsValue(r[j])
      BY <1>1, <1>2
    <2>1. CASE j < q
      <3>1. j + r[j].num <= q
        BY <1>1, <2>0, <2>1 DEF RunInv
      <3>2. r2[j].num = r[j].num
        BY <1>2, <2>1
      <3> QED
        BY <2>0, <3>1, <3>2
    <2>2. CASE j >= q
      <3>1. j + r[j].num <= q + num
        BY <1>1, <2>0, <2>2 DEF RunInv
      <3>2. r2[j].num = IF j = q THEN num ELSE IF num > 1 /\ j = q + 1 THEN num - 1 ELSE r[j].num
        BY <1>2
      <3> QED
        BY <2>0, <3>1, <3>2
    <2> QED
      BY <2>1, <2>2
  <1>6. ASSUME NEW k \in 0 .. c - 1, q <= k, k < q + num
        PROVE  r[k].itemid = r[q].itemid /\ (IsValue(r[k]) => k + r2[k].num <= q + num)
    <2>1. r[k].itemid = r[q].itemid /\ (IsValue(r[k]) => k + r[k].num <= q + num)
      BY <1>1, <1>6 DEF RunInv
    <2>2. r2[k].num = IF k = q THEN num ELSE IF num > 1 /\ k = q + 1 THEN num - 1 ELSE r[k].num
      BY <1>2
    <2> QED
      BY <2>1, <2>2
  <1>7. RowRuns(r2, c)
    <2> SUFFICES ASSUME NEW j \in 0 .. c - 1, IsValue(r2[j])
                 PROVE  /\ j + r2[j].num <= c
                        /\ \A k \in 0 .. c - 1 : j <= k /\ k < j + r2[j].num =>
                             r2[k].itemid = r2[j].itemid /\ k + r2[k].num <= j + r2[j].num
      BY <1>1 DEF RowRuns
    <2>0. IsValue(r[j]) /\ j + r[j].num <= c
      BY <1>1, <1>2 DEF RowRuns, RowSound
    <2>1. CASE j = q
      <3>1. q + num <= c
        BY <2>0, <2>1 DEF RunInv
      <3>2. ASSUME NEW k \in 0 .. c - 1, j <= k, k < j + num
            PROVE  r2[k].itemid = r2[j].itemid /\ k + r2[k].num <= j + num
        <4>1. r[k].itemid = r[q].itemid
          BY <1>6, <2>1, <3>2
        <4>2. IsValue(r[k])
          BY <2>0, <2>1, <4>1 DEF IsValue
        <4> QED
          BY <1>2, <1>6, <2>1, <3>2, <4>1, <4>2
      <3> QED
        BY <1>2, <2>1, <3>1, <3>2
    <2>2. CASE num > 1 /\ j = q + 1
      <3>0. IsValue(r[q])
        BY <1>1, <1>6, <2>0, <2>2 DEF IsValue
      <3>1. q + num <= c
        BY <3>0 DEF RunInv
      <3>2. ASSUME NEW k \in 0 .. c - 1, j <= k, k < q + num
            PROVE  r2[k].itemid = r2[j].itemid /\ k + r2[k].num <= q + num
        <4>1. r[k].itemid = r[q].itemid /\ r[j].itemid = r[q].itemid
          BY <1>1, <1>6, <2>2, <3>2
        <4>2. IsValue(r[k])
          BY <3>0, <4>1 DEF IsValue
        <4> QED
          BY <1>1, <1>2, <1>6, <2>2, <3>2, <4>1, <4>2
      <3>3. r2[j].num = num - 1 /\ j + (num - 1) = q + num
        <4>1. j # q /\ j + (num - 1) = q + num
          BY <2>2
        <4> QED
          BY <1>2, <2>2, <4>1
      <3> QED
        BY <1>2, <2>2, <3>1, <3>2, <3>3
    <2>3. CASE j < q
      <3>1. r2[j].num = r[j].num /\ j + r[j].num <= q
        BY <1>1, <1>2, <2>0, <2>3 DEF RunInv
      <3>2. ASSUME NEW k \in 0 .. c - 1, j <= k, k < j + r[j].num
            PROVE  r2[k].itemid = r2[j].itemid /\ k + r2[k].num <= j + r[j].num
        <4>1. k < q
          BY <1>1, <3>1, <3>2
        <4>2. r2[k].num = r[k].num /\ r2[k].itemid = r[k].itemid /\ r2[j].itemid = r[j].itemid
          BY <1>2, <4>1
        <4>3. r[k].itemid = r[j].itemid /\ k + r[k].num <= j + r[j].num
          BY <1>1, <2>0, <3>2 DEF RowRuns, RowSound
        <4> QED
          BY <4>2, <4>3
      <3> QED
        BY <2>0, <3>1, <3>2
    <2>4. CASE j > q /\ ~(num > 1 /\ j = q + 1)
      <3>1. r2[j].num = r[j].num
        BY <1>2, <2>4
      <3>2. ASSUME NEW k \in 0 .. c - 1, j <= k, k < j + r[j].num
            PROVE  r2[k].itemid = r2[j].itemid /\ k + r2[k].num <= j + r[j].num
        <4>1. r2[k].num = r[k].num
          BY <1>1, <1>2, <2>4, <3>2
        <4> QED
          BY <1>1, <1>2, <2>0, <3>2, <4>1 DEF RowRuns, RowSound
      <3> QED
        BY <2>0, <3>1, <3>2
    <2> QED
      BY <1>1, <2>1, <2>2, <2>3, <2>4
  <1>8. RowHoles(r2)
    <2> SUFFICES ASSUME NEW j \in 0 .. c - 1, NEW k \in 0 .. c - 1, ~IsValue(r2[j]), j <= k,
                        k < j + r2[j].num
                 PROVE  ~IsValue(r2[k])
      BY <1>1 DEF RowHoles
    <2>0. ~IsValue(r[j])
      BY <1>2
    <2>1. CASE j = q \/ (num > 1 /\ j = q + 1)
      <3>1. q <= k /\ k < q + num /\ q <= j /\ j < q + num
        BY <1>1, <1>2, <2>1
      <3> QED
        BY <1>2, <1>6, <2>0, <3>1 DEF IsValue
    <2>2. CASE ~(j = q \/ (num > 1 /\ j = q + 1))
      BY <1>1, <1>2, <2>0, <2>2 DEF RowSound, RowHoles
    <2> QED
      BY <2>1, <2>2
  <1>9. cut \/ RowClosed(r2, c)
    BY <1>1, <1>2 DEF RowClosed, RunInv
  <1> QED
    BY <1>3, <1>4, <1>5, <1>7, <1>8, <1>9 DEF RowSound

\* A value that is taken leaves a hole.
Holed(r, q) == [k \in DOMAIN r |-> IF k = q THEN Hole(r[k]) ELSE r[k]]

LEMMA RunHoled ==
  ASSUME NEW c \in Int, NEW r \in [0 .. c - 1 -> Slot], RowSound(r, c), cut \/ RowClosed(r, c),
         NEW q \in 0 .. c - 1, c <= HistorySize, NEW m \in Nat, q < m, DoneTo(r, q), DoneTo(r, m),
         NEW r2, r2 = Holed(r, q)
  PROVE  /\ Remains(r2, r) /\ RowSound(r2, c) /\ (cut \/ RowClosed(r2, c)) /\ DoneTo(r2, m)
         /\ \A k \in 0 .. c - 1 : IF k = q THEN ~IsValue(r2[k]) ELSE r2[k] = r[k]
  <1>0. HistorySize \in Nat
    BY SizeAssumption
  <1>1. DOMAIN r = 0 .. c - 1 /\ DOMAIN r2 = 0 .. c - 1 /\ \A k \in 0 .. c - 1 : r[k].num \in Nat
    BY DEF Slot, Holed
  <1>2. /\ r2[q] = Hole(r[q]) /\ Like(r2[q], r[q]) /\ ~IsValue(r2[q]) /\ r2[q].num = 1
        /\ \A k \in 0 .. c - 1 : k # q => r2[k] = r[k]
    <2>1. r2[q] = Hole(r[q]) /\ r[q] \in Slot /\ \A k \in 0 .. c - 1 : k # q => r2[k] = r[k]
      BY DEF Holed
    <2>2. r2[q].txt = r[q].txt /\ r2[q].len = r[q].len /\ r2[q].itemid = Gap /\ r2[q].num = 1
      BY <2>1 DEF Hole, Slot
    <2> QED
      BY <2>1, <2>2 DEF Like, IsValue
  <1>3. Remains(r2, r)
    <2>1. \A k \in 0 .. c - 1 : Like(r2[k], r[k])
      BY <1>2 DEF Like
    <2> QED
      BY <1>1, <2>1, RemainsInPlace
  <1>4. RowBounds(r2)
    <2> SUFFICES ASSUME NEW k \in 0 .. c - 1 PROVE r2[k].num >= 1 /\ k + r2[k].num <= HistorySize
      BY <1>1 DEF RowBounds
    <2>1. CASE k = q
      BY <1>0, <1>2, <2>1
    <2>2. CASE k # q
      BY <1>1, <1>2, <2>2 DEF RowBounds, RowSound
    <2> QED
      BY <2>1, <2>2
  <1>5. RowRuns(r2, c)
    <2> SUFFICES ASSUME NEW j \in 0 .. c - 1, IsValue(r2[j])
                 PROVE  /\ j + r2[j].num <= c
                        /\ \A k \in 0 .. c - 1 : j <= k /\ k < j + r2[j].num =>
                             r2[k].itemid = r2[j].itemid /\ k + r2[k].num <= j + r2[j].num
      BY <1>1 DEF RowRuns
    <2>1. j # q /\ r2[j] = r[j]
      BY <1>2
    <2>2. j < q => j + r[j].num <= q
      BY <1>1, <2>1 DEF DoneTo
    <2>3. j + r[j].num <= c
      BY <1>1, <2>1 DEF RowRuns, RowSound
    <2>4. ASSUME NEW k \in 0 .. c - 1, j <= k, k < j + r[j].num
          PROVE  r2[k] = r[k] /\ r[k].itemid = r[j].itemid /\ k + r[k].num <= j + r[j].num
      <3>1. k # q
        BY <1>1, <2>1, <2>2, <2>4
      <3> QED
        BY <1>1, <1>2, <2>1, <2>4, <3>1 DEF RowRuns, RowSound
    <2> QED
      BY <2>1, <2>3, <2>4
  <1>6. RowHoles(r2)
    <2> SUFFICES ASSUME NEW j \in 0 .. c - 1, NEW k \in 0 .. c - 1, ~IsValue(r2[j]), j <= k,
                        k < j + r2[j].num
                 PROVE  ~IsValue(r2[k])
      BY <1>1 DEF RowHoles
    <2>1. CASE j = q
      <3>1. k = q
        BY <1>2, <2>1
      <3> QED
        BY <1>2, <3>1
    <2>2. CASE j # q
      BY <1>1, <1>2, <2>2 DEF RowHoles, RowSound
    <2> QED
      BY <2>1, <2>2
  <1>7. RowClosed(r, c) => RowClosed(r2, c)
    <2> SUFFICES ASSUME RowClosed(r, c), NEW k \in 0 .. c - 1, ~IsValue(r2[k]) PROVE k + r2[k].num <= c
      BY <1>1 DEF RowClosed
    <2>1. CASE k = q
      BY <1>2, <2>1
    <2>2. CASE k # q
      BY <1>1, <1>2, <2>2 DEF RowClosed
    <2> QED
      BY <2>1, <2>2
  <1>8. DoneTo(r2, m)
    BY <1>1, <1>2 DEF DoneTo
  <1> QED
    BY <1>2, <1>3, <1>4, <1>5, <1>6, <1>7, <1>8 DEF RowSound

\* The d oldest slots leave the ring.
Shifted(r, c, d) == [k \in 0 .. c - d - 1 |-> r[k + d]]

LEMMA RunShifted ==
  ASSUME NEW c \in Int, NEW r \in [0 .. c - 1 -> Slot], RowSound(r, c), cut \/ RowClosed(r, c),
         NEW d \in Nat, NEW m \in Nat, DoneTo(r, m), d <= m,
         NEW r2, r2 = Shifted(r, c, d)
  PROVE  /\ Remains(r2, r) /\ RowSound(r2, c - d) /\ (cut \/ RowClosed(r2, c - d)) /\ DoneTo(r2, m - d)
  <1>0. HistorySize \in Nat
    BY SizeAssumption
  <1>1. /\ DOMAIN r = 0 .. c - 1 /\ DOMAIN r2 = 0 .. c - d - 1
        /\ \A k \in 0 .. c - 1 : r[k].num \in Nat
        /\ \A k \in 0 .. c - d - 1 : k + d \in 0 .. c - 1 /\ r2[k] = r[k + d]
    BY DEF Slot, Shifted
  <1>2. Remains(r2, r)
    <2> DEFINE e == [k \in 0 .. c - d - 1 |-> k + d]
    <2>1. e \in [DOMAIN r2 -> DOMAIN r] /\ \A k \in DOMAIN r2 : e[k] = k + d
      BY <1>1
    <2>2. \A k \in DOMAIN r2 : Like(r2[k], r[e[k]])
      BY <1>1, <2>1 DEF Like
    <2>3. \A j \in DOMAIN r2, k \in DOMAIN r2 : j < k => e[j] < e[k]
      BY <1>1, <2>1
    <2> QED
      BY <2>1, <2>2, <2>3 DEF Remains
  <1>3. RowBounds(r2)
    <2> SUFFICES ASSUME NEW k \in 0 .. c - d - 1 PROVE r2[k].num >= 1 /\ k + r2[k].num <= HistorySize
      BY <1>1 DEF RowBounds
    <2>1. r[k + d].num >= 1 /\ (k + d) + r[k + d].num <= HistorySize
      BY <1>1 DEF RowBounds, RowSound
    <2> QED
      BY <1>0, <1>1, <2>1
  <1>4. RowRuns(r2, c - d)
    <2> SUFFICES ASSUME NEW j \in 0 .. c - d - 1, IsValue(r2[j])
                 PROVE  /\ j + r2[j].num <= c - d
                        /\ \A k \in 0 .. c - d - 1 : j <= k /\ k < j + r2[j].num =>
                             r2[k].itemid = r2[j].itemid /\ k + r2[k].num <= j + r2[j].num
      BY <1>1 DEF RowRuns
    <2>1. /\ (j + d) + r[j + d].num <= c
          /\ \A k \in 0 .. c - 1 : j + d <= k /\ k < (j + d) + r[j + d].num =>
                r[k].itemid = r[j + d].itemid /\ k + r[k].num <= (j + d) + r[j + d].num
      BY <1>1 DEF RowRuns, RowSound
    <2>2. ASSUME NEW k \in 0 .. c - d - 1, j <= k, k < j + r[j + d].num
          PROVE  r[k + d].itemid = r[j + d].itemid /\ k + r[k + d].num <= j + r[j + d].num
      <3>1. k + d \in 0 .. c - 1 /\ j + d <= k + d /\ k + d < (j + d) + r[j + d].num
        BY <1>1, <2>2
      <3>2. r[k + d].itemid = r[j + d].itemid /\ (k + d) + r[k + d].num <= (j + d) + r[j + d].num
        BY <2>1, <3>1
      <3>3. r[k + d].num \in Nat /\ r[j + d].num \in Nat /\ k \in Int /\ j \in Int
        BY <1>1
      <3>4. r[k + d].itemid = r[j + d].itemid
        BY <3>2
      <3>5. (k + d) + r[k + d].num <= (j + d) + r[j + d].num
        BY <3>2
      <3>6. k + r[k + d].num <= j + r[j + d].num
        <4>1. PICK a \in Nat, b \in Nat : r[k + d].num = a /\ r[j + d].num = b
          BY <3>3
        <4>2. (k + d) + a <= (j + d) + b
          BY <3>5, <4>1
        <4>3. k + a <= j + b
          BY <4>2
        <4> QED
          BY <4>1, <4>3
      <3> QED
        BY <3>4, <3>6
    <2>3. j + r[j + d].num <= c - d
      BY <1>1, <2>1
    <2> QED
      BY <1>1, <2>2, <2>3
  <1>5. RowHoles(r2)
    <2> SUFFICES ASSUME NEW j \in 0 .. c - d - 1, NEW k \in 0 .. c - d - 1, ~IsValue(r2[j]), j <= k,
                        k < j + r2[j].num
                 PROVE  ~IsValue(r2[k])
      BY <1>1 DEF RowHoles
    <2>1. j + d <= k + d /\ k + d < (j + d) + r[j + d].num
      <3>1. PICK x \in Nat : x = r[j + d].num /\ x = r2[j].num
        BY <1>1
      <3>2. k < j + x
        BY <3>1
      <3>3. j + d <= k + d /\ k + d < (j + d) + x
        BY <3>2
      <3> QED
        BY <3>1, <3>3
    <2> QED
      BY <1>1, <2>1 DEF RowHoles, RowSound
  <1>6. RowClosed(r, c) => RowClosed(r2, c - d)
    <2> SUFFICES ASSUME RowClosed(r, c), NEW k \in 0 .. c - d - 1, ~IsValue(r2[k])
                 PROVE  k + r2[k].num <= c - d
      BY <1>1 DEF RowClosed
    <2>1. (k + d) + r[k + d].num <= c
      BY <1>1 DEF RowClosed
    <2> QED
      BY <1>1, <2>1
  <1>7. DoneTo(r2, m - d)
    <2> SUFFICES ASSUME NEW j \in 0 .. c - d - 1, j < m - d, IsValue(r2[j]) PROVE j + r2[j].num <= m - d
      BY <1>1 DEF DoneTo
    <2>1. (j + d) + r[j + d].num <= m
      <3>1. j + d < m /\ IsValue(r[j + d])
        BY <1>1
      <3> QED
        BY <1>1, <3>1 DEF DoneTo
    <2>2. PICK x \in Nat : x = r[j + d].num /\ x = r2[j].num
      BY <1>1
    <2>3. (j + d) + x <= m
      BY <2>1, <2>2
    <2> QED
      BY <2>2, <2>3
  <1> QED
    BY <1>2, <1>3, <1>4, <1>5, <1>6, <1>7 DEF RowSound

\* The newest slot is a hole, and leaves the ring.
LEMMA RunTrimmed ==
  ASSUME NEW c \in Int, NEW r \in [0 .. c - 1 -> Slot], RowSound(r, c),
         c > 0, ~IsValue(r[c - 1]), NEW r2, r2 = [k \in 0 .. c - 2 |-> r[k]]
  PROVE  Remains(r2, r) /\ RowSound(r2, c - 1)
  <1>1. /\ DOMAIN r = 0 .. c - 1 /\ DOMAIN r2 = 0 .. c - 2 /\ c - 1 \in 0 .. c - 1
        /\ \A k \in 0 .. c - 1 : r[k].num \in Nat
        /\ \A k \in 0 .. c - 2 : k \in 0 .. c - 1 /\ r2[k] = r[k]
    BY DEF Slot
  <1>2. Remains(r2, r)
    <2> DEFINE e == [k \in 0 .. c - 2 |-> k]
    <2>1. e \in [DOMAIN r2 -> DOMAIN r] /\ \A k \in DOMAIN r2 : e[k] = k
      BY <1>1
    <2>2. \A k \in DOMAIN r2 : Like(r2[k], r[e[k]])
      BY <1>1, <2>1 DEF Like
    <2>3. \A j \in DOMAIN r2, k \in DOMAIN r2 : j < k => e[j] < e[k]
      BY <1>1, <2>1
    <2> QED
      BY <2>1, <2>2, <2>3 DEF Remains
  <1>3. RowBounds(r2) /\ RowHoles(r2)
    BY <1>1 DEF RowBounds, RowHoles, RowSound
  <1>4. RowRuns(r2, c - 1)
    <2> SUFFICES ASSUME NEW j \in 0 .. c - 2, IsValue(r2[j])
                 PROVE  /\ j + r2[j].num <= c - 1
                        /\ \A k \in 0 .. c - 2 : j <= k /\ k < j + r2[j].num =>
                             r2[k].itemid = r2[j].itemid /\ k + r2[k].num <= j + r2[j].num
      BY <1>1 DEF RowRuns
    <2>1. /\ j + r[j].num <= c
          /\ \A k \in 0 .. c - 1 : j <= k /\ k < j + r[j].num =>
                r[k].itemid = r[j].itemid /\ k + r[k].num <= j + r[j].num
      BY <1>1 DEF RowRuns, RowSound
    <2>2. ~(c - 1 < j + r[j].num)
      BY <1>1, <2>1 DEF IsValue
    <2>3. j + r[j].num <= c - 1
      BY <1>1, <2>2
    <2> QED
      BY <1>1, <2>1, <2>3
  <1> QED
    BY <1>2, <1>3, <1>4 DEF RowSound

\* A value is added behind the newest slot, its text behind the other ones.
Appended(r, c, slot) == [k \in 0 .. c |-> IF k < c THEN r[k] ELSE slot]

LEMMA RunAppended ==
  ASSUME NEW c \in Nat, NEW r \in [0 .. c - 1 -> Slot], RowSound(r, c), RowClosed(r, c),
         c < HistorySize, NEW slot, slot.num = 1, IsValue(slot),
         NEW r2, r2 = Appended(r, c, slot)
  PROVE  RowSound(r2, c + 1) /\ RowClosed(r2, c + 1)
  <1>0. HistorySize \in Nat
    BY SizeAssumption
  <1>1. /\ DOMAIN r = 0 .. c - 1 /\ DOMAIN r2 = 0 .. c
        /\ \A k \in 0 .. c - 1 : r[k].num \in Nat /\ r2[k] = r[k]
        /\ r2[c] = slot
        /\ \A k \in 0 .. c : k # c => k \in 0 .. c - 1
    BY DEF Slot, Appended
  <1>2. \A k \in 0 .. c - 1 : k + r[k].num <= c
    BY <1>1 DEF RowClosed, RowRuns, RowSound
  <1>3. RowBounds(r2)
    <2> SUFFICES ASSUME NEW k \in 0 .. c PROVE r2[k].num >= 1 /\ k + r2[k].num <= HistorySize
      BY <1>1 DEF RowBounds
    <2>1. CASE k = c
      BY <1>0, <1>1, <2>1
    <2>2. CASE k # c
      BY <1>1, <2>2 DEF RowBounds, RowSound
    <2> QED
      BY <2>1, <2>2
  <1>4. RowRuns(r2, c + 1)
    <2> SUFFICES ASSUME NEW j \in 0 .. c, IsValue(r2[j])
                 PROVE  /\ j + r2[j].num <= c + 1
                        /\ \A k \in 0 .. c : j <= k /\ k < j + r2[j].num =>
                             r2[k].itemid = r2[j].itemid /\ k + r2[k].num <= j + r2[j].num
      BY <1>1 DEF RowRuns
    <2>1. CASE j = c
      BY <1>1, <2>1
    <2>2. CASE j # c
      <3>1. /\ j \in 0 .. c - 1 /\ r2[j] = r[j] /\ j + r[j].num <= c /\ r[j].num \in Nat
            /\ \A k \in 0 .. c - 1 : j <= k /\ k < j + r[j].num =>
                 r[k].itemid = r[j].itemid /\ k + r[k].num <= j + r[j].num
        BY <1>1, <1>2, <2>2 DEF RowRuns, RowSound
      <3> QED
        BY <1>1, <3>1
    <2> QED
      BY <2>1, <2>2
  <1>5. RowHoles(r2)
    <2> SUFFICES ASSUME NEW j \in 0 .. c, NEW k \in 0 .. c, ~IsValue(r2[j]), j <= k,
                        k < j + r2[j].num
                 PROVE  ~IsValue(r2[k])
      BY <1>1 DEF RowHoles
    <2>1. j \in 0 .. c - 1 /\ r2[j] = r[j]
      BY <1>1
    <2>2. k # c
      BY <1>1, <1>2, <2>1
    <2> QED
      BY <1>1, <2>1, <2>2 DEF RowHoles, RowSound
  <1>6. RowClosed(r2, c + 1)
    BY <1>1, <1>2 DEF RowClosed
  <1> QED
    BY <1>3, <1>4, <1>5, <1>6 DEF RowSound

TextAdded(t1, t2, slot) ==
  \A b \in 0 .. TextSize - 1 :
    t2[b] = IF slot.txt <= b /\ b < slot.txt + slot.len THEN <<slot.itemid, slot.val>> ELSE t1[b]

LEMMA TextAppended ==
  ASSUME NEW c \in Nat, NEW r \in [0 .. c - 1 -> Slot], NEW slot \in Slot,
         slot.txt + slot.len <= TextSize, slot.len = TextLen[slot.itemid],
         NEW t1, NEW t2, TextAdded(t1, t2, slot),
         RowOrdered(r), RowTexts(r), RowOwns(r, t1), RowEndsBy(r, slot.txt),
         \A k \in 0 .. c - 1 : r[k].itemid = slot.itemid => r[k].val < slot.val
  PROVE  /\ RowOrdered(Appended(r, c, slot)) /\ RowTexts(Appended(r, c, slot))
         /\ RowOwns(Appended(r, c, slot), t2)
         /\ RowEndsBy(Appended(r, c, slot), slot.txt + slot.len)
  <1> DEFINE r2 == Appended(r, c, slot)
  <1>a. PICK last \in Nat, len \in Nat : last = slot.txt /\ len = slot.len
    BY DEF Slot
  <1>b. \A b \in 0 .. TextSize - 1 :
          t2[b] = IF last <= b /\ b < last + len THEN <<slot.itemid, slot.val>> ELSE t1[b]
    BY <1>a DEF TextAdded
  <1>c. last + len <= TextSize
    BY <1>a
  <1>d. \A k \in DOMAIN r : r[k].len > 0 => r[k].txt + r[k].len <= last
    BY <1>a DEF RowEndsBy
  <1>0. TextSize \in Nat
    BY SizeAssumption
  <1>1. /\ DOMAIN r = 0 .. c - 1 /\ DOMAIN r2 = 0 .. c
        /\ \A k \in 0 .. c - 1 : r[k].txt \in Nat /\ r[k].len \in Nat /\ r2[k] = r[k]
        /\ r2[c] = slot
        /\ \A k \in 0 .. c : k # c => k \in 0 .. c - 1
    <2>1. \A k \in 0 .. c - 1 : r[k].txt \in Nat /\ r[k].len \in Nat
      BY DEF Slot
    <2>2. /\ DOMAIN r = 0 .. c - 1 /\ DOMAIN r2 = 0 .. c /\ r2[c] = slot
          /\ \A k \in 0 .. c - 1 : r2[k] = r[k]
      BY DEF Appended
    <2> QED
      BY <2>1, <2>2
  <1> HIDE DEF r2
  <1>2. RowOrdered(r2)
    <2> SUFFICES ASSUME NEW j \in 0 .. c, NEW k \in 0 .. c, j < k, r2[j].itemid = r2[k].itemid,
                        IsValue(r2[j])
                 PROVE  r2[j].val < r2[k].val
      BY <1>a, <1>1 DEF RowOrdered
    <2>1. j \in 0 .. c - 1
      OBVIOUS
    <2>2. CASE k = c
      BY <1>a, <1>1, <2>1, <2>2
    <2>3. CASE k # c
      BY <1>a, <1>1, <2>1, <2>3 DEF RowOrdered
    <2> QED
      BY <2>2, <2>3
  <1>3. RowTexts(r2)
    <2>1. ASSUME NEW k \in 0 .. c PROVE r2[k].txt + r2[k].len <= TextSize
      BY <1>a, <1>1, <2>1 DEF RowTexts
    <2>2. ASSUME NEW j \in 0 .. c, NEW k \in 0 .. c, j < k, r2[j].len > 0, r2[k].len > 0
          PROVE  r2[j].txt + r2[j].len <= r2[k].txt
      <3>1. j \in 0 .. c - 1
        BY <2>2
      <3>2. CASE k = c
        BY <1>a, <1>1, <2>2, <3>1, <3>2 DEF RowEndsBy
      <3>3. CASE k # c
        BY <1>a, <1>1, <2>2, <3>1, <3>3 DEF RowTexts
      <3> QED
        BY <3>2, <3>3
    <2> QED
      BY <1>a, <1>1, <2>1, <2>2 DEF RowTexts
  <1>4. RowOwns(r2, t2)
    <2>0. ASSUME NEW k \in 0 .. c, IsValue(r2[k]) PROVE r2[k].len = TextLen[r2[k].itemid]
      BY <1>1, <2>0 DEF RowOwns
    <2> SUFFICES ASSUME NEW k \in 0 .. c, IsValue(r2[k]),
                        NEW b \in r2[k].txt .. r2[k].txt + r2[k].len - 1
                 PROVE  t2[b] = <<r2[k].itemid, r2[k].val>>
      BY <1>1, <2>0 DEF RowOwns
    <2>1. CASE k = c
      <3>1. b \in last .. last + len - 1
        BY <1>a, <1>1, <2>1
      <3>2. b \in 0 .. TextSize - 1 /\ last <= b /\ b < last + len
        BY <1>0, <1>c, <3>1
      <3> QED
        BY <1>b, <1>1, <2>1, <3>2
    <2>2. CASE k # c
      <3>1. k \in 0 .. c - 1 /\ r2[k] = r[k] /\ r[k].txt \in Nat /\ r[k].len \in Nat
        BY <1>a, <1>1, <2>2
      <3>2. r[k].txt + r[k].len <= last
        <4>1. r[k].len > 0
          BY <3>1
        <4> QED
          BY <1>1, <1>d, <3>1, <4>1
      <3>3. b \in 0 .. TextSize - 1 /\ ~(last <= b)
        BY <1>0, <1>c, <3>1, <3>2
      <3>4. t1[b] = <<r[k].itemid, r[k].val>>
        BY <1>a, <1>1, <3>1 DEF RowOwns
      <3> QED
        BY <1>b, <3>1, <3>3, <3>4
    <2> QED
      BY <2>1, <2>2
  <1>5. RowEndsBy(r2, last + len)
    <2> SUFFICES ASSUME NEW k \in 0 .. c, r2[k].len > 0 PROVE r2[k].txt + r2[k].len <= last + len
      BY <1>a, <1>1 DEF RowEndsBy
    <2>1. CASE k = c
      BY <1>a, <1>1, <2>1
    <2>2. CASE k # c
      <3>1. k \in 0 .. c - 1 /\ r2[k] = r[k] /\ r[k].len > 0
        BY <1>1, <2>2
      <3>2. r[k].txt + r[k].len <= last /\ r[k].txt \in Nat /\ r[k].len \in Nat
        BY <1>1, <1>d, <3>1
      <3> QED
        BY <1>a, <3>1, <3>2
    <2> QED
      BY <2>1, <2>2
  <1> QED
    BY <1>a, <1>2, <1>3, <1>4, <1>5 DEF r2

\* A compaction takes a hole out of the ring.
Removed(r, c, m) == [k \in 0 .. c - 2 |-> IF k < m THEN r[k] ELSE r[k + 1]]

LEMMA RunRemoved ==
  ASSUME NEW c \in Nat, NEW r \in [0 .. c - 1 -> Slot], RowBounds(r), RowRuns(r, c),
         NEW m \in 0 .. c - 1, ~IsValue(r[m]), NEW r2, r2 = Removed(r, c, m)
  PROVE  Remains(r2, r) /\ RowBounds(r2) /\ RowRuns(r2, c - 1)
  <1>0. HistorySize \in Nat
    BY SizeAssumption
  <1> DEFINE u(k) == IF k < m THEN k ELSE k + 1
  <1>1. /\ DOMAIN r = 0 .. c - 1 /\ DOMAIN r2 = 0 .. c - 2
        /\ \A k \in 0 .. c - 1 : r[k].num \in Nat
        /\ \A k \in 0 .. c - 2 : u(k) \in 0 .. c - 1 /\ u(k) # m /\ r2[k] = r[u(k)]
    <2>1. DOMAIN r = 0 .. c - 1 /\ DOMAIN r2 = 0 .. c - 2
      BY DEF Removed
    <2>2. \A k \in 0 .. c - 1 : r[k].num \in Nat
      BY DEF Slot
    <2>3. \A k \in 0 .. c - 2 : u(k) \in 0 .. c - 1 /\ u(k) # m
      OBVIOUS
    <2>4. \A k \in 0 .. c - 2 : r2[k] = r[u(k)]
      BY DEF Removed
    <2> QED
      BY <2>1, <2>2, <2>3, <2>4
  <1>2. /\ \A j \in 0 .. c - 2, k \in 0 .. c - 2 : j <= k <=> u(j) <= u(k)
        /\ \A k \in 0 .. c - 2 : u(k) \in {k, k + 1}
    OBVIOUS
  <1>3. Remains(r2, r)
    <2> DEFINE e == [k \in 0 .. c - 2 |-> u(k)]
    <2>1. e \in [DOMAIN r2 -> DOMAIN r] /\ \A k \in DOMAIN r2 : e[k] = u(k)
      BY <1>1
    <2>2. \A k \in DOMAIN r2 : Like(r2[k], r[e[k]])
      BY <1>1, <2>1 DEF Like
    <2>3. \A j \in DOMAIN r2, k \in DOMAIN r2 : j < k => e[j] < e[k]
      BY <1>1, <2>1
    <2> QED
      BY <2>1, <2>2, <2>3 DEF Remains
  <1>4. RowBounds(r2)
    <2> SUFFICES ASSUME NEW k \in 0 .. c - 2 PROVE r2[k].num >= 1 /\ k + r2[k].num <= HistorySize
      BY <1>1 DEF RowBounds
    <2>1. r[u(k)].num >= 1 /\ u(k) + r[u(k)].num <= HistorySize /\ r[u(k)].num \in Nat
      BY <1>1 DEF RowBounds
    <2> QED
      BY <1>0, <1>1, <2>1
  <1>5. RowRuns(r2, c - 1)
    <2> SUFFICES ASSUME NEW j \in 0 .. c - 2, IsValue(r2[j])
                 PROVE  /\ j + r2[j].num <= c - 1
                        /\ \A k \in 0 .. c - 2 : j <= k /\ k < j + r2[j].num =>
                             r2[k].itemid = r2[j].itemid /\ k + r2[k].num <= j + r2[j].num
      BY <1>1 DEF RowRuns
    <2>1. /\ u(j) \in 0 .. c - 1 /\ IsValue(r[u(j)]) /\ r2[j] = r[u(j)]
          /\ u(j) + r[u(j)].num <= c /\ r[u(j)].num \in Nat
          /\ \A k \in 0 .. c - 1 : u(j) <= k /\ k < u(j) + r[u(j)].num =>
                r[k].itemid = r[u(j)].itemid /\ k + r[k].num <= u(j) + r[u(j)].num
      BY <1>1 DEF RowRuns
    <2>2. ~(u(j) <= m /\ m < u(j) + r[u(j)].num)
      BY <2>1 DEF IsValue
    <2>3. CASE j < m
      <3>1. u(j) = j /\ j + r[j].num <= m
        BY <2>1, <2>2, <2>3
      <3>2. ASSUME NEW k \in 0 .. c - 2, j <= k, k < j + r[j].num
            PROVE  r2[k].itemid = r[j].itemid /\ k + r2[k].num <= j + r[j].num
        <4>1. k < m
          BY <2>1, <3>1, <3>2
        <4>2. r2[k] = r[k] /\ k \in 0 .. c - 1
          BY <1>1, <4>1
        <4> QED
          BY <2>1, <3>1, <3>2, <4>2
      <3> QED
        BY <2>1, <3>1, <3>2
    <2>4. CASE j >= m
      <3>1. u(j) = j + 1
        BY <2>4
      <3>2. ASSUME NEW k \in 0 .. c - 2, j <= k, k < j + r[j + 1].num
            PROVE  r2[k].itemid = r[j + 1].itemid /\ k + r2[k].num <= j + r[j + 1].num
        <4>1. r2[k] = r[k + 1] /\ k + 1 \in 0 .. c - 1 /\ r[k + 1].num \in Nat
          BY <1>1, <2>4, <3>2
        <4>2. j + 1 <= k + 1 /\ k + 1 < (j + 1) + r[j + 1].num
          BY <2>1, <3>1, <3>2
        <4>3. r[k + 1].itemid = r[j + 1].itemid /\ (k + 1) + r[k + 1].num <= (j + 1) + r[j + 1].num
          BY <2>1, <3>1, <4>1, <4>2
        <4> QED
          BY <2>1, <3>1, <4>1, <4>3
      <3> QED
        BY <2>1, <3>1, <3>2
    <2> QED
      BY <2>3, <2>4
  <1> QED
    BY <1>3, <1>4, <1>5

\* DCmove_text on the slot at position q: the texts before it are moved already.
TextsPacked(r, q, last) ==
  \A k \in DOMAIN r : r[k].len > 0 =>
    IF k < q THEN r[k].txt + r[k].len <= last ELSE last <= r[k].txt

\* Row r2 is row r, with the text of the slot at position q moved to `last'.
Retexted(r2, r, q, last) ==
  /\ DOMAIN r2 = DOMAIN r
  /\ \A k \in DOMAIN r : /\ r2[k].itemid = r[k].itemid /\ r2[k].val = r[k].val
                         /\ r2[k].len = r[k].len
                         /\ r2[k].txt = IF k = q /\ r[k].len # 0 THEN last ELSE r[k].txt

LEMMA TextMoved ==
  ASSUME NEW c \in Int, NEW r \in [0 .. c - 1 -> Slot], NEW q \in 0 .. c - 1,
         NEW last \in 0 .. TextSize, NEW t1, NEW t2, DOMAIN t1 = 0 .. TextSize - 1,
         t2 = Memmove(t1, last, r[q].txt, r[q].len),
         RowTexts(r), RowOwns(r, t1), TextsPacked(r, q, last),
         NEW r2, Retexted(r2, r, q, last)
  PROVE  /\ last + r[q].len \in 0 .. TextSize
         /\ RowTexts(r2) /\ RowOwns(r2, t2) /\ TextsPacked(r2, q + 1, last + r[q].len)
  <1>0. TextSize \in Nat
    BY SizeAssumption
  <1>a. /\ DOMAIN r2 = 0 .. c - 1
        /\ \A k \in 0 .. c - 1 : /\ r2[k].itemid = r[k].itemid /\ r2[k].val = r[k].val
                                /\ r2[k].len = r[k].len
                                /\ r2[k].txt = IF k = q /\ r[k].len # 0 THEN last ELSE r[k].txt
    BY DEF Retexted
  <1>1. /\ DOMAIN r = 0 .. c - 1
        /\ \A k \in 0 .. c - 1 : r[k].txt \in Nat /\ r[k].len \in Nat
    BY DEF Slot
  <1>2. PICK src \in Nat, len \in Nat : src = r[q].txt /\ len = r[q].len
    BY <1>1
  <1>3. src + len <= TextSize /\ (len > 0 => last <= src)
    BY <1>1, <1>2 DEF RowTexts, TextsPacked
  <1>4. last + len \in 0 .. TextSize
    BY <1>0, <1>3
  <1>5. \A b \in 0 .. TextSize - 1 :
          t2[b] = IF last <= b /\ b < last + len THEN t1[src + (b - last)] ELSE t1[b]
    BY <1>2 DEF Memmove
  <1>6. \A j \in 0 .. c - 1 : j < q /\ r[j].len > 0 => r[j].txt + r[j].len <= last
    BY <1>1 DEF TextsPacked
  <1>7. \A k \in 0 .. c - 1 : q < k /\ r[k].len > 0 => last + len <= r[k].txt
    <2> SUFFICES ASSUME NEW k \in 0 .. c - 1, q < k, r[k].len > 0 PROVE last + len <= r[k].txt
      OBVIOUS
    <2>1. CASE len > 0
      <3>1. src + len <= r[k].txt
        BY <1>1, <1>2, <2>1 DEF RowTexts
      <3> QED
        BY <1>1, <1>3, <2>1, <3>1
    <2>2. CASE len = 0
      BY <1>1, <2>2 DEF TextsPacked
    <2> QED
      BY <2>1, <2>2
  <1> USE <1>a
  <1>8. RowTexts(r2)
    <2>1. ASSUME NEW k \in 0 .. c - 1 PROVE r2[k].txt + r2[k].len <= TextSize
      <3>1. CASE k = q /\ len # 0
        BY <1>2, <1>4, <3>1
      <3>2. CASE ~(k = q /\ len # 0)
        <4>1. r2[k].txt = r[k].txt /\ r2[k].len = r[k].len
          BY <1>2, <3>2
        <4> QED
          BY <1>1, <4>1 DEF RowTexts
      <3> QED
        BY <3>1, <3>2
    <2>2. ASSUME NEW j \in 0 .. c - 1, NEW k \in 0 .. c - 1, j < k, r2[j].len > 0, r2[k].len > 0
          PROVE  r2[j].txt + r2[j].len <= r2[k].txt
      <3>0. r[j].len > 0 /\ r[k].len > 0 /\ r2[j].len = r[j].len
        BY <2>2
      <3>1. CASE j = q
        <4>1. r2[j].txt = last /\ r2[j].len = len /\ r2[k].txt = r[k].txt
          BY <1>1, <1>2, <2>2, <3>0, <3>1
        <4> QED
          BY <1>7, <2>2, <3>0, <3>1, <4>1
      <3>2. CASE k = q
        <4>1. r2[k].txt = last /\ r2[j].txt = r[j].txt
          BY <1>1, <2>2, <3>0, <3>2
        <4> QED
          BY <1>6, <2>2, <3>0, <3>2, <4>1
      <3>3. CASE j # q /\ k # q
        <4>1. r2[k].txt = r[k].txt /\ r2[j].txt = r[j].txt
          BY <3>3
        <4> QED
          BY <1>1, <2>2, <3>0, <4>1 DEF RowTexts
      <3> QED
        BY <3>1, <3>2, <3>3
    <2> QED
      BY <2>1, <2>2 DEF RowTexts
  <1>9. RowOwns(r2, t2)
    <2>a. ASSUME NEW k \in 0 .. c - 1, IsValue(r2[k]) PROVE r2[k].len = TextLen[r2[k].itemid]
      BY <1>1, <2>a DEF RowOwns, IsValue
    <2> SUFFICES ASSUME NEW k \in 0 .. c - 1, IsValue(r2[k]),
                        NEW b \in r2[k].txt .. r2[k].txt + r2[k].len - 1
                 PROVE  t2[b] = <<r2[k].itemid, r2[k].val>>
      BY <2>a DEF RowOwns
    <2>0. /\ IsValue(r[k]) /\ r2[k].itemid = r[k].itemid /\ r2[k].val = r[k].val
          /\ r2[k].len = r[k].len /\ r[k].txt \in Nat /\ r[k].len \in Nat
      BY <1>1 DEF IsValue
    <2>1. \A a \in r[k].txt .. r[k].txt + r[k].len - 1 : t1[a] = <<r[k].itemid, r[k].val>>
      BY <1>1, <2>0 DEF RowOwns
    <2>2. CASE k = q
      <3>1. r[k].len # 0 /\ r2[k].txt = last /\ r[k].len = len /\ r[k].txt = src
        <4>1. CASE r[k].len = 0
          BY <2>0, <2>2, <4>1
        <4>2. CASE r[k].len # 0
          BY <1>2, <2>2, <4>2
        <4> QED
          BY <4>1, <4>2
      <3>2. /\ b \in last .. last + len - 1 /\ b \in 0 .. TextSize - 1
            /\ src + (b - last) \in src .. src + len - 1
        BY <1>0, <1>4, <2>0, <3>1
      <3>3. t2[b] = t1[src + (b - last)]
        <4>1. last <= b /\ b < last + len /\ b \in 0 .. TextSize - 1
          BY <3>2
        <4> QED
          BY <1>5, <4>1
      <3> QED
        BY <2>0, <2>1, <3>1, <3>2, <3>3
    <2>3. CASE k # q
      <3>1. r2[k].txt = r[k].txt
        BY <2>3
      <3>2. b \in r[k].txt .. r[k].txt + r[k].len - 1 /\ r[k].len > 0
        BY <2>0, <3>1
      <3>3. b \in 0 .. TextSize - 1
        <4>1. r[k].txt + r[k].len <= TextSize
          BY <1>1 DEF RowTexts
        <4> QED
          BY <1>0, <2>0, <3>2, <4>1
      <3>4. ~(last <= b /\ b < last + len)
        <4>1. CASE k < q
          <5>1. r[k].txt + r[k].len <= last
            BY <1>6, <3>2, <4>1
          <5> QED
            BY <2>0, <3>2, <5>1
        <4>2. CASE q < k
          <5>1. last + len <= r[k].txt
            BY <1>7, <3>2, <4>2
          <5> QED
            BY <2>0, <3>2, <5>1
        <4> QED
          BY <2>3, <4>1, <4>2
      <3> QED
        BY <1>5, <2>0, <2>1, <3>2, <3>3, <3>4
    <2> QED
      BY <2>2, <2>3
  <1>10. TextsPacked(r2, q + 1, last + len)
    <2> SUFFICES ASSUME NEW k \in 0 .. c - 1, r2[k].len > 0
                 PROVE  IF k < q + 1 THEN r2[k].txt + r2[k].len <= last + len
                        ELSE last + len <= r2[k].txt
      BY DEF TextsPacked
    <2>0. r2[k].len = r[k].len /\ r[k].len > 0 /\ r[k].txt \in Nat /\ r[k].len \in Nat
      BY <1>1
    <2>1. CASE k = q
      BY <1>2, <2>0, <2>1
    <2>2. CASE k < q
      <3>1. r2[k].txt = r[k].txt /\ r[k].txt + r[k].len <= last
        BY <1>6, <2>0, <2>2
      <3> QED
        BY <2>0, <2>2, <3>1
    <2>3. CASE q < k
      <3>1. r2[k].txt = r[k].txt /\ last + len <= r[k].txt
        BY <1>7, <2>0, <2>3
      <3> QED
        BY <2>3, <3>1
    <2> QED
      BY <2>1, <2>2, <2>3
  <1> QED
    BY <1>2, <1>4, <1>8, <1>9, <1>10

--------------------------------------------------------------------------------
(***************************************************************************)
(* The passes of DCsync_history over the ring.                             *)
(***************************************************************************)

\* Without a compaction under way the row is the ring.
LEMMA RowRing ==
  ASSUME RingInv, ~Vacuuming, NEW N \in Int, history_num = N
  PROVE  /\ N <= HistorySize /\ Count = N /\ Row \in [0 .. N - 1 -> Slot]
         /\ \A k \in 0 .. N - 1 : k \in 0 .. HistorySize - 1 /\ At(k) \in Index /\ Row[k] = history[At(k)]
         /\ RowSound(Row, N)
         /\ ~Trimming => cut \/ RowClosed(Row, N)
  <1>0. HistorySize \in Nat
    BY SizeAssumption
  <1>1. /\ history \in [Index -> Slot] /\ history_first \in Index /\ N <= HistorySize
        /\ Count = N /\ Row = [k \in 0 .. N - 1 |-> history[At(k)]]
    BY PlainRow DEF RingInv, RingTypes
  <1>2. \A k \in 0 .. N - 1 : k \in 0 .. HistorySize - 1 /\ At(k) \in Index
    BY <1>0, <1>1, AtIndex
  <1>3. Row \in [0 .. N - 1 -> Slot]
    BY <1>1, <1>2
  <1>4. RowSound(Row, N) /\ (~Trimming => cut \/ RowClosed(Row, N))
    BY <1>1 DEF RingInv, RowSound
  <1> QED
    BY <1>1, <1>2, <1>3, <1>4

LEMMA ScanRow ==
  ASSUME BaseInv, RingInv, NEW s \in SyncProcs, Scanning(s)
  PROVE  /\ ~Vacuuming /\ ~Compacting /\ ~Trimming /\ Scanned
         /\ \E N \in 1 .. HistorySize, n \in 1 .. HistorySize, num \in Nat :
              /\ history_num = N /\ reg.n = n /\ reg.num = num /\ n <= N /\ reg.f = At(N - n)
              /\ Row \in [0 .. N - 1 -> Slot] /\ RowSound(Row, N) /\ (cut \/ RowClosed(Row, N))
              /\ RunInv(Row, N, N - n, num)
              /\ \A k \in 0 .. N - 1 : At(k) \in Index /\ Row[k] = history[At(k)]
  <1>0. HistorySize \in Nat
    BY SizeAssumption
  <1>1. ~Vacuuming /\ ~Compacting /\ ~Trimming /\ Scanned
    BY Phases DEF Scanning
  <1>2. PICK N \in Int, n \in Int, num \in Nat : history_num = N /\ reg.n = n /\ reg.num = num
    BY DEF RingInv, RingTypes
  <1>3. n > 0 /\ n <= N /\ reg.f = At(N - n) /\ RunInv(Row, N, N - n, num)
    BY <1>1, <1>2 DEF RingInv, ScanInv, Scanning
  <1>4. /\ N <= HistorySize /\ Row \in [0 .. N - 1 -> Slot] /\ RowSound(Row, N)
        /\ cut \/ RowClosed(Row, N)
        /\ \A k \in 0 .. N - 1 : At(k) \in Index /\ Row[k] = history[At(k)]
    BY <1>1, <1>2, RowRing
  <1>5. N \in 1 .. HistorySize /\ n \in 1 .. HistorySize
    BY <1>0, <1>3, <1>4
  <1> QED
    BY <1>1, <1>2, <1>3, <1>4, <1>5

\* The registers of DCskip_items in terms of the row.
LEMMA RunMeans ==
  ASSUME RingInv, NEW N \in 1 .. HistorySize, NEW n \in 1 .. N, NEW num \in Nat,
         reg.n = n, reg.num = num, reg.f = At(N - n),
         \A k \in 0 .. N - 1 : At(k) \in Index /\ Row[k] = history[At(k)]
  PROVE  /\ RunGrows <=> (N - n) + num < N /\ Row[(N - n) + num].itemid = Row[N - n].itemid
         /\ RunGrows => history[Wrap(reg.f + num)] = Row[(N - n) + num]
         /\ ~RunGrows => num # 0
         /\ history[reg.f] = Row[N - n]
  <1>0. HistorySize \in Nat \ {0} /\ history_first \in Index
    BY SizeAssumption DEF RingInv, RingTypes
  <1> DEFINE q == N - n
  <1>1. q \in 0 .. N - 1 /\ q \in 0 .. HistorySize - 1 /\ N <= HistorySize
    BY <1>0
  <1>2. history[reg.f] = Row[q]
    BY <1>1
  <1>3. 0 < n - num <=> q + num < N
    OBVIOUS
  <1>4. ASSUME q + num < N PROVE history[Wrap(reg.f + num)] = Row[q + num]
    <2>1. q + num < HistorySize /\ q + num \in 0 .. N - 1
      BY <1>0, <1>1, <1>4
    <2>2. At(q + num) = Wrap(At(q) + num)
      BY <1>0, <1>1, <2>1, AtNext
    <2> QED
      BY <2>1, <2>2
  <1>5. RunGrows <=> q + num < N /\ Row[q + num].itemid = Row[q].itemid
    BY <1>2, <1>3, <1>4 DEF RunGrows
  <1>6. ~RunGrows => num # 0
    <2>1. num = 0 => q + num < N /\ Row[q + num] = Row[q]
      BY <1>1
    <2> QED
      BY <1>5, <2>1
  <1> QED
    BY <1>2, <1>4, <1>5, <1>6

LEMMA RingSkipStep ==
  ASSUME BaseInv, BaseInv', RingInv, NEW s \in SyncProcs, SkipStep(s)
  PROVE  RingInv'
  <1>0. HistorySize \in Nat
    BY SizeAssumption
  <1>1. /\ UNCHANGED <<history, history_first, history_num, text, last_text, added, db, lost, cut,
                       local, batch, pc, cache_lock>>
        /\ Scanning(s) /\ Server /\ RunGrows
        /\ reg' = [reg EXCEPT !.num = @ + history[Wrap(reg.f + @)].num]
    BY DEF SkipStep, ring, textbuf, ghost, sync
  <1>2. ~Vacuuming /\ ~Compacting /\ ~Trimming /\ Scanned
    BY <1>1, ScanRow
  <1>3. PICK N \in 1 .. HistorySize, n \in 1 .. HistorySize, num \in Nat :
          /\ history_num = N /\ reg.n = n /\ reg.num = num /\ n <= N /\ reg.f = At(N - n)
          /\ Row \in [0 .. N - 1 -> Slot] /\ RowSound(Row, N) /\ (cut \/ RowClosed(Row, N))
          /\ RunInv(Row, N, N - n, num)
          /\ \A k \in 0 .. N - 1 : At(k) \in Index /\ Row[k] = history[At(k)]
    BY <1>1, ScanRow
  <1> DEFINE q == N - n
  <1>4. n \in 1 .. N /\ q \in Nat /\ N \in Int
    BY <1>0, <1>3
  <1>5. q + num < N /\ Row[q + num].itemid = Row[q].itemid /\ history[Wrap(reg.f + num)] = Row[q + num]
    BY <1>1, <1>3, <1>4, RunMeans
  <1>6. RunInv(Row, N, q, num + Row[q + num].num)
    <2> HIDE DEF q
    <2> QED
      BY <1>3, <1>4, <1>5, RunGrow DEF q
  <1>7. Row[q + num].num \in Nat
    <2>1. q + num \in 0 .. N - 1
      BY <1>4, <1>5
    <2> QED
      BY <1>3, <2>1 DEF Slot
  <1>8. reg \in [n : Int, f : Int, num : Nat, gap : Int, data : Int]
    BY DEF RingInv, RingTypes
  <1>9. PICK m \in Nat : m = num + Row[q + num].num /\ reg' = [reg EXCEPT !.num = m]
    <2>1. reg' = [reg EXCEPT !.num = reg.num + history[Wrap(reg.f + reg.num)].num]
      BY <1>1
    <2>2. reg' = [reg EXCEPT !.num = num + Row[q + num].num]
      BY <1>3, <1>5, <2>1
    <2>3. num + Row[q + num].num \in Nat
      BY <1>7
    <2> QED
      BY <2>2, <2>3
  <1>10. /\ reg'.n = n /\ reg'.num = m /\ reg'.f = At(N - n)
         /\ reg' \in [n : Int, f : Int, num : Nat, gap : Int, data : Int]
    BY <1>3, <1>8, <1>9
  <1>11. RingTypes'
    BY <1>1, <1>10 DEF RingInv, RingTypes
  <1>12. ~Vacuuming' /\ ~Compacting' /\ ~Trimming' /\ Scanned'
    BY <1>1, <1>2 DEF Vacuuming, Compacting, Trimming, Scanned
  <1>13. Row' = Row
    <2>1. Row' = [k \in 0 .. N - 1 |-> history'[At(k)']] /\ Row = [k \in 0 .. N - 1 |-> history[At(k)]]
      BY <1>1, <1>2, <1>3, <1>4, <1>12, PlainRow, PlainRowNext
    <2> QED
      BY <1>1, <2>1 DEF At
  <1>14. ScanInv'
    <2>1. RunInv(Row, N, q, m)'
      BY <1>1, <1>6, <1>9, <1>13 DEF RunInv, IsValue
    <2>2. At(N - n)' = At(N - n) /\ history_num' = N
      BY <1>1, <1>3 DEF At
    <2> QED
      BY <1>3, <1>4, <1>10, <2>1, <2>2 DEF ScanInv, RunInv
  <1>15. \A i \in Items : \A v : Out(i, v)' <=> Out(i, v)
    BY <1>1, OutSame
  <1>16. ~cut' => RowClosed(Row, Count)
    BY <1>1, <1>2 DEF RingInv
  <1>17. pc'[Main] = "idle" => RowEndsBy(Row, last_text)
    BY <1>1, <1>2 DEF RingInv, TextInv
  <1> QED
    BY <1>1, <1>2, <1>11, <1>12, <1>14, <1>15, <1>16, <1>17, RingFrame

\* One run is done with: its slots are noted, taken or dropped, d slots leave the ring
\* at its head, and the pass goes on num slots further.
LEMMA RingPass ==
  ASSUME BaseInv, BaseInv', RingInv, NEW s \in SyncProcs, Scanning(s),
         UNCHANGED <<pc, cache_lock, cut, text, last_text, local, added>>,
         NEW N \in 1 .. HistorySize, NEW n \in 1 .. N, NEW num \in Nat, NEW d \in 0 .. HistorySize,
         history_num = N, reg.n = n, d <= (N - n) + num, ~cut => d <= N,
         history_num' = N - d, history_first' = Wrap(history_first + d),
         reg' = [reg EXCEPT !.n = n - num, !.f = Wrap(reg.f + num), !.num = 0],
         history' \in [Index -> Slot],
         Remains(Row', Row), RowSound(Row', N - d), cut \/ RowClosed(Row', N - d),
         DoneTo(Row', (N - n) + num - d),
         Kept', ~Server => n - num = N - d /\ \A k \in DOMAIN Row' : IsValue(Row'[k]) /\ Row'[k].num = 1
  PROVE  RingInv'
  <1>0. HistorySize \in Nat \ {0}
    BY SizeAssumption
  <1>1. /\ ~Vacuuming /\ ~Compacting /\ ~Trimming /\ Scanned /\ reg.f = At(N - n)
    BY ScanRow
  <1>2. ~Vacuuming' /\ ~Compacting' /\ ~Trimming' /\ Scanned'
    BY <1>1 DEF Vacuuming, Compacting, Trimming, Scanned
  <1>3. /\ history_first \in Index /\ N <= HistorySize
        /\ reg \in [n : Int, f : Int, num : Nat, gap : Int, data : Int]
    BY DEF RingInv, RingTypes
  <1> DEFINE q == N - n
  <1>4. q \in 0 .. HistorySize - 1 /\ N \in Int /\ N - d \in Int /\ n - num \in Int /\ N - d <= HistorySize
    BY <1>0
  <1>5. /\ history_first' \in Index
        /\ \A p \in Nat : p + d < HistorySize => At(p)' = At(p + d)
    BY <1>3, AtShift
  <1>6. Wrap(reg.f + num) \in Int
    BY <1>0, <1>3 DEF Wrap
  <1>7. /\ reg'.n = n - num /\ reg'.num = 0 /\ reg'.f = Wrap(reg.f + num)
        /\ reg' \in [n : Int, f : Int, num : Nat, gap : Int, data : Int]
    BY <1>3, <1>4, <1>6
  <1>8. RingTypes'
    <2>1. ~cut => N - d >= 0
      BY <1>4
    <2>2. /\ text' = [c \in 0 .. TextSize - 1 |-> text'[c]] /\ last_text' \in 0 .. TextSize
          /\ local' \in [Writers -> Seq(Items)] /\ added' \in [Items -> Nat]
      BY DEF RingInv, RingTypes
    <2> QED
      BY <1>4, <1>5, <1>7, <2>1, <2>2 DEF RingTypes
  <1>9. ScanInv'
    <2> DEFINE p == (N - d) - (n - num)
    <2>1. n - num <= N - d /\ p \in Nat /\ p = q + num - d /\ p + d = q + num
      BY <1>4
    <2>2. ASSUME n - num > 0
          PROVE  reg'.f = At(p)' /\ RunInv(Row', N - d, p, 0)
      <3>1. q + num < N /\ q + num < HistorySize /\ p < N - d /\ p < HistorySize
        BY <1>0, <1>4, <2>1, <2>2
      <3>2. At(p)' = At(q + num)
        BY <1>5, <2>1, <3>1
      <3>3. At(q + num) = Wrap(At(q) + num)
        BY <1>3, <1>4, <3>1, AtNext
      <3>4. RunInv(Row', N - d, p, 0)
        <4>1. p + 0 <= HistorySize /\ p + 0 <= N - d
          BY <1>0, <2>1, <3>1
        <4>2. \A j \in DOMAIN Row' : j < p /\ IsValue(Row'[j]) => j + Row'[j].num <= p
          BY <2>1 DEF DoneTo
        <4>3. DOMAIN Row' = 0 .. N - d - 1
          BY <1>2, <1>4, PlainRowNext
        <4>4. \A k \in DOMAIN Row' : ~(p <= k /\ k < p + 0)
          BY <2>1, <4>3
        <4> QED
          BY <4>1, <4>2, <4>4 DEF RunInv
      <3> QED
        BY <1>1, <1>7, <3>2, <3>3, <3>4
    <2>3. n - num > 0 => RunInv(Row, N - d, p, 0)'
      BY <2>2 DEF RunInv, IsValue
    <2> QED
      BY <1>7, <2>1, <2>2, <2>3 DEF ScanInv, RunInv
  <1>10. pc'[Main] = "idle" => RowEndsBy(Row', last_text')
    BY <1>1, RemainsKeeps DEF RingInv, TextInv
  <1>11. ProxyInv'
    BY <1>7 DEF ProxyInv, IsValue
  <1> QED
    BY <1>2, <1>4, <1>8, <1>9, <1>10, <1>11, RingStep DEF RowSound

LEMMA RemainsTrans ==
  ASSUME NEW r1, NEW r2, NEW r3, Remains(r2, r1), Remains(r3, r2)
  PROVE  Remains(r3, r1)
  <1>1. PICK e \in [DOMAIN r2 -> DOMAIN r1] :
          /\ \A k \in DOMAIN r2 : Like(r2[k], r1[e[k]])
          /\ \A j \in DOMAIN r2, k \in DOMAIN r2 : j < k => e[j] < e[k]
    BY DEF Remains
  <1>2. PICK f \in [DOMAIN r3 -> DOMAIN r2] :
          /\ \A k \in DOMAIN r3 : Like(r3[k], r2[f[k]])
          /\ \A j \in DOMAIN r3, k \in DOMAIN r3 : j < k => f[j] < f[k]
    BY DEF Remains
  <1> DEFINE g == [k \in DOMAIN r3 |-> e[f[k]]]
  <1>3. g \in [DOMAIN r3 -> DOMAIN r1] /\ \A k \in DOMAIN r3 : g[k] = e[f[k]]
    OBVIOUS
  <1>4. \A k \in DOMAIN r3 : Like(r3[k], r1[g[k]])
    <2> TAKE k \in DOMAIN r3
    <2>1. Like(r3[k], r2[f[k]]) /\ Like(r2[f[k]], r1[e[f[k]]])
      BY <1>1, <1>2
    <2> QED
      BY <1>3, <2>1 DEF Like, IsValue
  <1>5. \A j \in DOMAIN r3, k \in DOMAIN r3 : j < k => g[j] < g[k]
    BY <1>1, <1>2, <1>3
  <1> QED
    BY <1>3, <1>4, <1>5 DEF Remains

\* The same, when the slots are given by where they were.
Passed(s, N, n, num, d, r2) ==
  /\ Scanning(s)
  /\ UNCHANGED <<pc, cache_lock, cut, text, last_text, local, added>>
  /\ history_num = N /\ reg.n = n /\ d <= (N - n) + num /\ (~cut => d <= N)
  /\ history_num' = N - d /\ history_first' = Wrap(history_first + d)
  /\ reg' = [reg EXCEPT !.n = n - num, !.f = Wrap(reg.f + num), !.num = 0]
  /\ history' \in [Index -> Slot]
  /\ r2 \in [0 .. N - 1 -> Slot] /\ \A k \in 0 .. N - 1 : r2[k] = history'[At(k)]
  /\ Remains(r2, Row) /\ RowSound(r2, N) /\ (cut \/ RowClosed(r2, N))
  /\ DoneTo(r2, (N - n) + num)
  /\ \A i \in Items : \A v : InRow(Row, i, v) \/ Out(i, v)
       <=> (\E k \in d .. N - 1 : r2[k].itemid = i /\ r2[k].val = v) \/ Out(i, v)'
  /\ ~Server => n - num = N - d /\ \A k \in d .. N - 1 : IsValue(r2[k]) /\ r2[k].num = 1

LEMMA RingPassed ==
  ASSUME BaseInv, BaseInv', RingInv, NEW s \in SyncProcs,
         NEW N \in 1 .. HistorySize, NEW n \in 1 .. N, NEW num \in Nat, NEW d \in 0 .. HistorySize,
         NEW r2, Passed(s, N, n, num, d, r2)
  PROVE  RingInv'
  <1>0. HistorySize \in Nat \ {0}
    BY SizeAssumption
  <1> USE DEF Passed
  <1>1. ~Vacuuming'
    <2>1. ~Vacuuming
      BY ScanRow
    <2> QED
      BY <2>1 DEF Vacuuming
  <1>2. N \in Int /\ N - d \in Int /\ (N - n) + num \in Nat /\ d \in Nat
    OBVIOUS
  <1>3. Row' = Shifted(r2, N, d)
    <2>1. Row' = [k \in 0 .. N - d - 1 |-> history'[At(k)']]
      BY <1>1, <1>2, PlainRowNext
    <2>2. \A p \in Nat : p + d < HistorySize => At(p)' = At(p + d)
      BY AtShift DEF RingInv, RingTypes
    <2>3. ASSUME NEW k \in 0 .. N - d - 1 PROVE history'[At(k)'] = r2[k + d]
      <3>1. k \in Nat /\ k + d < HistorySize /\ k + d \in 0 .. N - 1
        BY <1>0
      <3> QED
        BY <2>2, <3>1
    <2> QED
      BY <2>1, <2>3 DEF Shifted
  <1>4. /\ Remains(Row', r2) /\ RowSound(Row', N - d) /\ (cut \/ RowClosed(Row', N - d))
        /\ DoneTo(Row', (N - n) + num - d)
    <2>1. PICK m \in Nat : m = (N - n) + num
      BY <1>2
    <2>2. DoneTo(r2, m) /\ d <= m
      BY <2>1
    <2>3. /\ Remains(Row', r2) /\ RowSound(Row', N - d) /\ (cut \/ RowClosed(Row', N - d))
          /\ DoneTo(Row', m - d)
      BY <1>2, <1>3, <2>2, RunShifted
    <2> QED
      BY <2>1, <2>3
  <1>5. Remains(Row', Row)
    BY <1>4, RemainsTrans
  <1>6. \A i : \A v : InRow(Row', i, v) <=> \E k \in d .. N - 1 : r2[k].itemid = i /\ r2[k].val = v
    <2>0. /\ DOMAIN Row' = 0 .. N - d - 1
          /\ \A k \in 0 .. N - d - 1 : k + d \in d .. N - 1 /\ Row'[k] = r2[k + d]
          /\ \A k \in d .. N - 1 : k - d \in 0 .. N - d - 1 /\ (k - d) + d = k
      BY <1>3 DEF Shifted
    <2>1. ASSUME NEW i, NEW v, InRow(Row', i, v)
          PROVE  \E k \in d .. N - 1 : r2[k].itemid = i /\ r2[k].val = v
      <3>1. PICK k \in 0 .. N - d - 1 : Row'[k].itemid = i /\ Row'[k].val = v
        BY <2>0, <2>1 DEF InRow
      <3>2. k + d \in d .. N - 1 /\ Row'[k] = r2[k + d]
        BY <2>0
      <3>3. r2[k + d].itemid = i /\ r2[k + d].val = v
        BY <3>1, <3>2
      <3> QED
        BY <3>2, <3>3
    <2>2. ASSUME NEW i, NEW v, NEW k \in d .. N - 1, r2[k].itemid = i, r2[k].val = v
          PROVE  InRow(Row', i, v)
      <3>1. k - d \in DOMAIN Row' /\ Row'[k - d] = r2[k]
        BY <2>0
      <3> QED
        BY <2>2, <3>1 DEF InRow
    <2> QED
      BY <2>1, <2>2
  <1>7. Kept'
    <2>1. \A i \in Items : \A v : v \in 1 .. added[i] <=> InRow(Row, i, v) \/ Out(i, v)
      BY KeptMeans DEF RingInv
    <2>2. added' = added
      OBVIOUS
    <2>3. \A i \in Items : \A v : InRow(Row, i, v) \/ Out(i, v)
             <=> (\E k \in d .. N - 1 : r2[k].itemid = i /\ r2[k].val = v) \/ Out(i, v)'
      OBVIOUS
    <2> HIDE DEF Passed
    <2>4. \A i \in Items : \A v : v \in 1 .. added'[i] <=> InRow(Row', i, v) \/ Out(i, v)'
      BY <1>6, <2>1, <2>2, <2>3
    <2> QED
      BY <2>4, KeptMeans
  <1>8. ~Server => n - num = N - d /\ \A k \in DOMAIN Row' : IsValue(Row'[k]) /\ Row'[k].num = 1
    <2>0. /\ DOMAIN Row' = 0 .. N - d - 1
          /\ \A k \in 0 .. N - d - 1 : k + d \in d .. N - 1 /\ Row'[k] = r2[k + d]
      BY <1>3 DEF Shifted
    <2> QED
      BY <2>0
  <1> QED
    BY <1>4, <1>5, <1>7, <1>8, RingPass

\* What DCskip_items writes into the ring.
LEMMA SkipItemsRow ==
  ASSUME RingInv, NEW N \in 1 .. HistorySize, NEW n \in 1 .. N, NEW num \in Nat \ {0},
         reg.num = num, reg.f = At(N - n), (N - n) + num <= HistorySize,
         Row \in [0 .. N - 1 -> Slot],
         \A k \in 0 .. N - 1 : At(k) \in Index /\ Row[k] = history[At(k)]
  PROVE  /\ SkipItems(history) \in [Index -> Slot]
         /\ \A k \in 0 .. N - 1 : SkipItems(history)[At(k)] = Noted(Row, N - n, num)[k]
  <1>0. HistorySize \in Nat \ {0} /\ history_first \in Index /\ history \in [Index -> Slot]
    BY SizeAssumption DEF RingInv, RingTypes
  <1> DEFINE q == N - n
  <1>1. /\ q \in 0 .. HistorySize - 1
        /\ \A k \in 0 .. N - 1 : k \in 0 .. HistorySize - 1
    BY <1>0
  <1>2. \A f \in Index : SkipItems(history)[f] =
          IF f = reg.f THEN [history[f] EXCEPT !.num = num]
          ELSE IF num > 1 /\ f = Wrap(reg.f + 1) THEN [history[f] EXCEPT !.num = num - 1]
          ELSE history[f]
    BY <1>0 DEF SkipItems
  <1>3. SkipItems(history) \in [Index -> Slot]
    <2>2. num > 1 => num - 1 \in Nat
      OBVIOUS
    <2>3. \A f \in Index : SkipItems(history)[f] \in Slot
      <3> TAKE f \in Index
      <3>1. history[f] \in Slot
        BY <1>0
      <3>2. CASE f = reg.f
        <4>1. [history[f] EXCEPT !.num = num] \in Slot
          BY <3>1 DEF Slot
        <4> QED
          BY <1>2, <3>2, <4>1
      <3>3. CASE f # reg.f /\ num > 1 /\ f = Wrap(reg.f + 1)
        <4>1. [history[f] EXCEPT !.num = num - 1] \in Slot
          BY <2>2, <3>1, <3>3 DEF Slot
        <4> QED
          BY <1>2, <3>3, <4>1
      <3>4. CASE f # reg.f /\ ~(num > 1 /\ f = Wrap(reg.f + 1))
        BY <1>2, <3>1, <3>4
      <3> QED
        BY <3>2, <3>3, <3>4
    <2> QED
      BY <1>0, <2>3 DEF SkipItems
  <1>4. ASSUME NEW k \in 0 .. N - 1
        PROVE  SkipItems(history)[At(k)] = Noted(Row, q, num)[k]
    <2>1. At(k) \in Index /\ Row[k] = history[At(k)]
      OBVIOUS
    <2>2. At(k) = reg.f <=> k = q
      BY <1>0, <1>1, AtIndex
    <2>3. ASSUME num > 1 PROVE At(k) = Wrap(reg.f + 1) <=> k = q + 1
      <3>1. q + 1 < HistorySize /\ q + 1 \in 0 .. HistorySize - 1
        BY <1>0, <1>1, <2>3
      <3>2. At(q + 1) = Wrap(At(q) + 1)
        BY <1>0, <1>1, <3>1, AtNext
      <3>3. At(k) = At(q + 1) <=> k = q + 1
        BY <1>0, <1>1, <3>1, AtIndex
      <3> QED
        BY <3>2, <3>3
    <2>4. Noted(Row, q, num)[k] = IF k = q THEN [Row[k] EXCEPT !.num = num]
                                  ELSE IF num > 1 /\ k = q + 1 THEN [Row[k] EXCEPT !.num = num - 1]
                                  ELSE Row[k]
      BY DEF Noted
    <2>5. CASE k = q
      BY <1>2, <2>1, <2>2, <2>4, <2>5
    <2>6. CASE k # q /\ num > 1 /\ k = q + 1
      BY <1>2, <2>1, <2>2, <2>3, <2>4, <2>6
    <2>7. CASE k # q /\ ~(num > 1 /\ k = q + 1)
      <3>1. ~(At(k) = reg.f) /\ ~(num > 1 /\ At(k) = Wrap(reg.f + 1))
        BY <2>2, <2>3, <2>7
      <3> QED
        BY <1>2, <2>1, <2>4, <2>7, <3>1
    <2> QED
      BY <2>5, <2>6, <2>7
  <1> QED
    BY <1>3, <1>4

\* A run of a busy item, and a run of holes: stepped over, or dropped at the head.
LEMMA RingVisit ==
  ASSUME BaseInv, BaseInv', RingInv, NEW s \in SyncProcs, VisitBusy(s) \/ VisitGap(s)
  PROVE  RingInv'
  <1>0. HistorySize \in Nat \ {0}
    BY SizeAssumption
  <1>1. /\ UNCHANGED <<text, last_text, added, db, lost, cut, local, batch, pc, cache_lock>>
        /\ Scanning(s) /\ Server /\ ~RunGrows
        /\ history' = SkipItems(history)
        /\ Advance(reg.num)
        /\ \/ UNCHANGED <<history_first, history_num>>
           \/ history[reg.f].itemid = Gap /\ reg.f = history_first /\ DropHoles(reg.num)
    BY DEF VisitBusy, VisitGap, RunFound, ring, textbuf, ghost, sync
  <1>3. PICK N \in 1 .. HistorySize, n \in 1 .. HistorySize, num \in Nat :
          /\ history_num = N /\ reg.n = n /\ reg.num = num /\ n <= N /\ reg.f = At(N - n)
          /\ Row \in [0 .. N - 1 -> Slot] /\ RowSound(Row, N) /\ (cut \/ RowClosed(Row, N))
          /\ RunInv(Row, N, N - n, num)
          /\ \A k \in 0 .. N - 1 : At(k) \in Index /\ Row[k] = history[At(k)]
    BY <1>1, ScanRow
  <1>4. n \in 1 .. N /\ N - n \in 0 .. N - 1 /\ N - n \in Nat /\ N - n < N /\ N \in Int
    BY <1>0, <1>3
  <1>5. PICK q \in 0 .. N - 1 : q = N - n
    BY <1>4
  <1>6. num \in Nat \ {0} /\ history[reg.f] = Row[q]
    BY <1>1, <1>3, <1>4, <1>5, RunMeans
  <1>7. q + num <= HistorySize
    BY <1>3, <1>5 DEF RunInv
  <1> DEFINE r2 == Noted(Row, q, num)
  <1>8. /\ history' \in [Index -> Slot]
        /\ \A k \in 0 .. N - 1 : r2[k] = history'[At(k)]
    BY <1>1, <1>3, <1>4, <1>5, <1>6, <1>7, SkipItemsRow
  <1>9. /\ r2 \in [0 .. N - 1 -> Slot]
        /\ \A k \in 0 .. N - 1 : r2[k].itemid = Row[k].itemid /\ r2[k].val = Row[k].val
    BY <1>3, <1>5, <1>6, NotedSlots
  <1>10. /\ Remains(r2, Row) /\ RowSound(r2, N) /\ (cut \/ RowClosed(r2, N)) /\ DoneTo(r2, q + num)
    <2>1. q \in Nat /\ q < N /\ N \in Int /\ RunInv(Row, N, q, num)
      BY <1>3, <1>4, <1>5
    <2> QED
      BY <1>3, <1>6, <2>1, RunNoted
  <1> HIDE DEF r2
  <1>11. reg' = [reg EXCEPT !.n = n - num, !.f = Wrap(reg.f + num), !.num = 0]
    BY <1>1, <1>3 DEF Advance
  <1>12. \A i \in Items : \A v : Out(i, v)' <=> Out(i, v)
    BY <1>1, OutSame
  <1>13. \A i : \A v : InRow(Row, i, v) <=> \E k \in 0 .. N - 1 : r2[k].itemid = i /\ r2[k].val = v
    BY <1>3, <1>9 DEF InRow
  <1>14. history_first \in Index
    BY DEF RingInv, RingTypes
  <1>17. /\ UNCHANGED <<pc, cache_lock, cut, text, last_text, local, added>>
         /\ n \in 1 .. N /\ num \in Nat /\ history_num = N /\ reg.n = n
         /\ DoneTo(r2, (N - n) + num)
    BY <1>1, <1>3, <1>4, <1>5, <1>10
  <1>15. CASE UNCHANGED <<history_first, history_num>>
    <2>1. /\ 0 \in 0 .. HistorySize /\ 0 <= (N - n) + num /\ 0 <= N
          /\ history_num' = N - 0 /\ history_first' = Wrap(history_first + 0)
      BY <1>0, <1>3, <1>4, <1>5, <1>6, <1>14, <1>15 DEF Wrap, Index
    <2>2. \A i \in Items : \A v : InRow(Row, i, v) \/ Out(i, v)
             <=> (\E k \in 0 .. N - 1 : r2[k].itemid = i /\ r2[k].val = v) \/ Out(i, v)'
      BY <1>12, <1>13
    <2>3. Passed(s, N, n, num, 0, r2)
      BY <1>1, <1>8, <1>9, <1>10, <1>11, <1>17, <2>1, <2>2 DEF Passed
    <2> QED
      BY <1>17, <2>1, <2>3, RingPassed
  <1>16. CASE history[reg.f].itemid = Gap /\ reg.f = history_first /\ DropHoles(reg.num)
    <2>1. q = 0
      <3>1. At(q) = At(0) /\ q \in 0 .. HistorySize - 1 /\ 0 \in 0 .. HistorySize - 1
        BY <1>0, <1>3, <1>5, <1>14, <1>16, AtIndex
      <3> QED
        BY <1>14, <3>1, AtIndex
    <2>2. /\ num \in 0 .. HistorySize /\ num <= (N - n) + num /\ (N - n) + num = num
          /\ history_num' = N - num /\ history_first' = Wrap(history_first + num)
      <3>1. history_num' = N - num /\ history_first' = Wrap(history_first + num)
        BY <1>3, <1>16 DEF DropHoles, DropHead
      <3> QED
        BY <1>0, <1>4, <1>5, <1>6, <1>7, <2>1, <3>1
    <2>3. ~cut => num <= N
      BY <1>3, <1>5, <2>1 DEF RunInv
    <2>4. \A k \in 0 .. N - 1 : k < num => Row[k].itemid = Gap
      <3> TAKE k \in 0 .. N - 1
      <3> HAVE k < num
      <3>1. Row[k].itemid = Row[0].itemid
        <4>1. q <= k /\ k < q + num /\ k \in DOMAIN Row /\ RunInv(Row, N, q, num)
          BY <1>3, <1>4, <1>5, <2>1
        <4> QED
          BY <2>1, <4>1 DEF RunInv
      <3> QED
        BY <1>6, <1>16, <2>1, <3>1
    <2>5. \A i \in Items : \A v : InRow(Row, i, v)
             <=> \E k \in num .. N - 1 : r2[k].itemid = i /\ r2[k].val = v
      <3>1. ASSUME NEW i \in Items, NEW k \in 0 .. N - 1, r2[k].itemid = i PROVE k \in num .. N - 1
        BY <1>9, <2>4, <3>1, ItemsAssumption
      <3>2. ASSUME NEW k \in num .. N - 1 PROVE k \in 0 .. N - 1
        BY <1>6
      <3> QED
        BY <1>13, <3>1, <3>2
    <2>6. \A i \in Items : \A v : InRow(Row, i, v) \/ Out(i, v)
             <=> (\E k \in num .. N - 1 : r2[k].itemid = i /\ r2[k].val = v) \/ Out(i, v)'
      BY <1>12, <2>5
    <2>7. Passed(s, N, n, num, num, r2)
      BY <1>1, <1>8, <1>9, <1>10, <1>11, <1>17, <2>2, <2>3, <2>6 DEF Passed
    <2> QED
      BY <1>17, <2>2, <2>7, RingPassed
  <1> QED
    BY <1>1, <1>15, <1>16

\* A value goes from the ring into the hands of a syncer.
LEMMA OutTaken ==
  ASSUME BaseInv, NEW s \in SyncProcs, pc[s] = "scan", UNCHANGED <<pc, db, lost>>,
         NEW u, batch' = [batch EXCEPT ![s] = @ \cup {u}]
  PROVE  \A i : \A v : Out(i, v)' <=> Out(i, v) \/ (u.itemid = i /\ u.val = v)
  <1>1. batch'[s] = batch[s] \cup {u} /\ \A t \in SyncProcs : t # s => batch'[t] = batch[t]
    BY DEF BaseInv
  <1>2. \A i : \A v : Flying(i, v)' <=> Flying(i, v) \/ (u.itemid = i /\ u.val = v)
    BY <1>1 DEF Flying
  <1> QED
    BY <1>2 DEF Out

LEMMA RingVisitTake ==
  ASSUME BaseInv, BaseInv', RingInv, NEW s \in SyncProcs, VisitTake(s)
  PROVE  RingInv'
  <1>0. HistorySize \in Nat \ {0} /\ history_first \in Index
    BY SizeAssumption DEF RingInv, RingTypes
  <1> DEFINE slot == history[reg.f]
             u == [itemid |-> slot.itemid, val |-> slot.val]
  <1>1. /\ UNCHANGED <<text, last_text, added, db, lost, cut, local, pc, cache_lock>>
        /\ Scanning(s) /\ Server /\ ~RunGrows
        /\ IsValue(slot)
        /\ batch' = [batch EXCEPT ![s] = @ \cup {u}]
        /\ Advance(reg.num)
        /\ \/ reg.f = history_first /\ history' = SkipItems(history) /\ DropHead(1)
           \/ /\ reg.f # history_first
              /\ history' = [SkipItems(history) EXCEPT ![reg.f] = Hole(@)]
              /\ UNCHANGED <<history_first, history_num>>
    BY DEF VisitTake, RunFound, Take, IsValue, ghost
  <1>3. PICK N \in 1 .. HistorySize, n \in 1 .. HistorySize, num \in Nat :
          /\ history_num = N /\ reg.n = n /\ reg.num = num /\ n <= N /\ reg.f = At(N - n)
          /\ Row \in [0 .. N - 1 -> Slot] /\ RowSound(Row, N) /\ (cut \/ RowClosed(Row, N))
          /\ RunInv(Row, N, N - n, num)
          /\ \A k \in 0 .. N - 1 : At(k) \in Index /\ Row[k] = history[At(k)]
    BY <1>1, ScanRow
  <1>4. n \in 1 .. N /\ N - n \in 0 .. N - 1 /\ N - n \in Nat /\ N - n < N /\ N \in Int /\ N <= HistorySize
    BY <1>0, <1>3
  <1>5. PICK q \in 0 .. N - 1 : q = N - n
    BY <1>4
  <1>6. num \in Nat \ {0} /\ slot = Row[q]
    BY <1>1, <1>3, <1>4, <1>5, RunMeans
  <1>7. q + num <= HistorySize /\ RunInv(Row, N, q, num)
    BY <1>3, <1>5 DEF RunInv
  <1> DEFINE r1 == Noted(Row, q, num)
  <1>8. /\ SkipItems(history) \in [Index -> Slot]
        /\ \A k \in 0 .. N - 1 : r1[k] = SkipItems(history)[At(k)]
    BY <1>3, <1>4, <1>5, <1>6, <1>7, SkipItemsRow
  <1>9. /\ r1 \in [0 .. N - 1 -> Slot]
        /\ \A k \in 0 .. N - 1 : r1[k].itemid = Row[k].itemid /\ r1[k].val = Row[k].val
    BY <1>3, <1>5, <1>6, NotedSlots
  <1>10. /\ Remains(r1, Row) /\ RowSound(r1, N) /\ (cut \/ RowClosed(r1, N)) /\ DoneTo(r1, q + num)
         /\ DoneTo(r1, q)
    <2>1. q \in Nat /\ q < N /\ N \in Int /\ RunInv(Row, N, q, num)
      BY <1>3, <1>4, <1>5
    <2>2. /\ Remains(r1, Row) /\ RowSound(r1, N) /\ (cut \/ RowClosed(r1, N)) /\ DoneTo(r1, q + num)
      BY <1>3, <1>6, <2>1, RunNoted
    <2>3. DoneTo(r1, q)
      <3>1. \A j \in 0 .. N - 1 : j < q => r1[j].num = Row[j].num /\ r1[j].itemid = Row[j].itemid
        BY <1>3, <1>5, <1>6, NotedSlots
      <3>2. \A j \in DOMAIN Row : j < q /\ IsValue(Row[j]) => j + Row[j].num <= q
        BY <1>7 DEF RunInv
      <3> QED
        BY <1>3, <1>9, <3>1, <3>2 DEF DoneTo, IsValue
    <2> QED
      BY <2>2, <2>3
  <1> HIDE DEF r1
  <1>11. reg' = [reg EXCEPT !.n = n - num, !.f = Wrap(reg.f + num), !.num = 0]
    BY <1>1, <1>3 DEF Advance
  <1>12. \A i \in Items : \A v : Out(i, v)' <=> Out(i, v) \/ (Row[q].itemid = i /\ Row[q].val = v)
    <2>1. u.itemid = Row[q].itemid /\ u.val = Row[q].val
      BY <1>6
    <2> HIDE DEF u
    <2>2. \A i : \A v : Out(i, v)' <=> Out(i, v) \/ (u.itemid = i /\ u.val = v)
      BY <1>1, OutTaken DEF Scanning
    <2> QED
      BY <2>1, <2>2
  <1> HIDE DEF u
  <1>13. \A i : \A v : InRow(Row, i, v)
            <=> \/ \E k \in 0 .. N - 1 : k # q /\ r1[k].itemid = i /\ r1[k].val = v
                \/ Row[q].itemid = i /\ Row[q].val = v
    BY <1>3, <1>9 DEF InRow
  <1>17. /\ UNCHANGED <<pc, cache_lock, cut, text, last_text, local, added>>
         /\ n \in 1 .. N /\ num \in Nat /\ history_num = N /\ reg.n = n
         /\ DoneTo(r1, (N - n) + num)
    BY <1>1, <1>3, <1>4, <1>5, <1>10
  <1>18. \A k \in 0 .. N - 1 : k \in 0 .. HistorySize - 1
    BY <1>0
  <1>15. CASE reg.f # history_first /\ history' = [SkipItems(history) EXCEPT ![reg.f] = Hole(@)]
              /\ UNCHANGED <<history_first, history_num>>
    <2> DEFINE r2 == Holed(r1, q)
    <2>1. /\ 0 \in 0 .. HistorySize /\ 0 <= (N - n) + num /\ 0 <= N
          /\ history_num' = N - 0 /\ history_first' = Wrap(history_first + 0)
      BY <1>0, <1>3, <1>4, <1>5, <1>6, <1>15 DEF Wrap, Index
    <2>2. /\ Remains(r2, r1) /\ RowSound(r2, N) /\ (cut \/ RowClosed(r2, N)) /\ DoneTo(r2, q + num)
          /\ \A k \in 0 .. N - 1 : IF k = q THEN ~IsValue(r2[k]) ELSE r2[k] = r1[k]
      <3>1. PICK m \in Nat : m = q + num /\ q < m
        BY <1>5, <1>6
      <3> HIDE DEF r2
      <3>2. r2 = Holed(r1, q)
        BY DEF r2
      <3>3. DoneTo(r1, m)
        BY <1>10, <3>1
      <3> QED
        BY <1>4, <1>9, <1>10, <3>1, <3>2, <3>3, RunHoled
    <2>3. \A t \in Slot : Hole(t) \in Slot
      <3> SUFFICES ASSUME NEW t \in Slot PROVE Hole(t) \in Slot
        OBVIOUS
      <3> QED
        BY DEF Hole, Slot
    <2>4. r2 \in [0 .. N - 1 -> Slot]
      BY <1>9, <2>3 DEF Holed
    <2>5. history' \in [Index -> Slot]
      BY <1>8, <1>15, <2>3
    <2>6. ASSUME NEW k \in 0 .. N - 1 PROVE r2[k] = history'[At(k)]
      <3>1. At(k) \in Index /\ r1[k] = SkipItems(history)[At(k)]
        BY <1>3, <1>8
      <3>2. At(k) = reg.f <=> k = q
        BY <1>0, <1>3, <1>5, <1>18, AtIndex
      <3>3. history'[At(k)] = IF At(k) = reg.f THEN Hole(SkipItems(history)[At(k)])
                              ELSE SkipItems(history)[At(k)]
        BY <1>8, <1>15, <3>1
      <3>4. r2[k] = IF k = q THEN Hole(r1[k]) ELSE r1[k]
        BY <1>9 DEF Holed
      <3> QED
        BY <3>1, <3>2, <3>3, <3>4
    <2> HIDE DEF r2
    <2>7. Remains(r2, Row)
      BY <1>10, <2>2, RemainsTrans
    <2>8. ASSUME NEW i \in Items, NEW v
          PROVE  InRow(Row, i, v) \/ Out(i, v)
                   <=> (\E k \in 0 .. N - 1 : r2[k].itemid = i /\ r2[k].val = v) \/ Out(i, v)'
      <3>1. (\E k \in 0 .. N - 1 : r2[k].itemid = i /\ r2[k].val = v)
              <=> \E k \in 0 .. N - 1 : k # q /\ r1[k].itemid = i /\ r1[k].val = v
        BY <2>2, ItemsAssumption DEF IsValue
      <3> QED
        BY <1>12, <1>13, <3>1
    <2>9. DoneTo(r2, (N - n) + num)
      BY <1>5, <2>2
    <2>10. Passed(s, N, n, num, 0, r2)
      BY <1>1, <1>11, <1>17, <2>1, <2>2, <2>4, <2>5, <2>6, <2>7, <2>8, <2>9 DEF Passed
    <2> QED
      BY <1>17, <2>1, <2>10, RingPassed
  <1>16. CASE reg.f = history_first /\ history' = SkipItems(history) /\ DropHead(1)
    <2>1. q = 0
      <3>1. At(q) = At(0) /\ q \in 0 .. HistorySize - 1 /\ 0 \in 0 .. HistorySize - 1
        BY <1>0, <1>3, <1>5, <1>16, <1>18, AtIndex
      <3> QED
        BY <1>0, <3>1, AtIndex
    <2>2. /\ 1 \in 0 .. HistorySize /\ 1 <= (N - n) + num /\ 1 <= N
          /\ history_num' = N - 1 /\ history_first' = Wrap(history_first + 1)
      <3>1. history_num' = N - 1 /\ history_first' = Wrap(history_first + 1)
        BY <1>3, <1>16 DEF DropHead
      <3> QED
        BY <1>0, <1>4, <1>5, <1>6, <2>1, <3>1
    <2>3. ASSUME NEW i \in Items, NEW v
          PROVE  InRow(Row, i, v) \/ Out(i, v)
                   <=> (\E k \in 1 .. N - 1 : r1[k].itemid = i /\ r1[k].val = v) \/ Out(i, v)'
      <3>1. \A k : k \in 1 .. N - 1 <=> k \in 0 .. N - 1 /\ k # q
        BY <1>4, <2>1
      <3> QED
        BY <1>12, <1>13, <3>1
    <2>4. history' \in [Index -> Slot] /\ \A k \in 0 .. N - 1 : r1[k] = history'[At(k)]
      BY <1>8, <1>16
    <2>5. Passed(s, N, n, num, 1, r1)
      BY <1>1, <1>9, <1>10, <1>11, <1>17, <2>2, <2>3, <2>4 DEF Passed
    <2> QED
      BY <1>17, <2>2, <2>5, RingPassed
  <1> QED
    BY <1>1, <1>15, <1>16

\* A proxy's syncer takes the value at the head of the ring.
LEMMA RingProxyTake ==
  ASSUME BaseInv, BaseInv', RingInv, NEW s \in SyncProcs, ProxyTake(s)
  PROVE  RingInv'
  <1>0. HistorySize \in Nat \ {0} /\ history_first \in Index /\ history \in [Index -> Slot]
    BY SizeAssumption DEF RingInv, RingTypes
  <1> DEFINE slot == history[reg.f]
             u == [itemid |-> slot.itemid, val |-> slot.val]
  <1>1. /\ UNCHANGED <<text, last_text, added, db, lost, cut, local, pc, cache_lock>>
        /\ Scanning(s) /\ ~Server
        /\ batch' = [batch EXCEPT ![s] = @ \cup {u}]
        /\ Advance(1)
        /\ reg.f = history_first => history' = history /\ DropHead(1)
    BY DEF ProxyTake, Take, ghost
  <1>2. Scanned
    BY <1>1, ScanRow
  <1>3. PICK N \in 1 .. HistorySize, n \in 1 .. HistorySize, num \in Nat :
          /\ history_num = N /\ reg.n = n /\ reg.num = num /\ n <= N /\ reg.f = At(N - n)
          /\ Row \in [0 .. N - 1 -> Slot] /\ RowSound(Row, N) /\ (cut \/ RowClosed(Row, N))
          /\ RunInv(Row, N, N - n, num)
          /\ \A k \in 0 .. N - 1 : At(k) \in Index /\ Row[k] = history[At(k)]
    BY <1>1, ScanRow
  <1>4. n = N /\ \A k \in 0 .. N - 1 : IsValue(Row[k]) /\ Row[k].num = 1
    BY <1>1, <1>2, <1>3 DEF RingInv, ProxyInv
  <1>5. reg.f = history_first /\ slot = Row[0]
    <2>1. At(0) = history_first /\ N - n = 0 /\ 0 \in 0 .. N - 1
      BY <1>0, <1>4, AtIndex
    <2> QED
      BY <1>3, <2>1
  <1>6. reg' = [reg EXCEPT !.n = n - 1, !.f = Wrap(reg.f + 1), !.num = 0]
    BY <1>1, <1>3 DEF Advance
  <1>7. /\ 1 \in 0 .. HistorySize /\ 1 \in Nat /\ 1 <= (N - n) + 1 /\ 1 <= N /\ n \in 1 .. N
        /\ history_num' = N - 1 /\ history_first' = Wrap(history_first + 1)
    <2>1. history_num' = N - 1 /\ history_first' = Wrap(history_first + 1)
      BY <1>1, <1>3, <1>5 DEF DropHead
    <2> QED
      BY <1>0, <1>4, <2>1
  <1>8. \A i \in Items : \A v : Out(i, v)' <=> Out(i, v) \/ (Row[0].itemid = i /\ Row[0].val = v)
    <2>1. u.itemid = Row[0].itemid /\ u.val = Row[0].val
      BY <1>5
    <2> HIDE DEF u
    <2>2. \A i : \A v : Out(i, v)' <=> Out(i, v) \/ (u.itemid = i /\ u.val = v)
      BY <1>1, OutTaken DEF Scanning
    <2> QED
      BY <2>1, <2>2
  <1>9. ASSUME NEW i \in Items, NEW v
        PROVE  InRow(Row, i, v) \/ Out(i, v)
                 <=> (\E k \in 1 .. N - 1 : Row[k].itemid = i /\ Row[k].val = v) \/ Out(i, v)'
    <2>1. \A k : k \in 0 .. N - 1 <=> k = 0 \/ k \in 1 .. N - 1
      BY <1>7
    <2>2. InRow(Row, i, v) <=> \E k \in 0 .. N - 1 : Row[k].itemid = i /\ Row[k].val = v
      BY <1>3 DEF InRow
    <2> QED
      BY <1>8, <2>1, <2>2
  <1>10. DoneTo(Row, (N - n) + 1)
    <2>1. (N - n) + 1 = 1 /\ 0 \in 0 .. N - 1 /\ DOMAIN Row = 0 .. N - 1
      BY <1>3, <1>4, <1>7
    <2>2. \A j \in 0 .. N - 1 : j < 1 => j = 0
      OBVIOUS
    <2> QED
      BY <1>4, <2>1, <2>2 DEF DoneTo
  <1>11. n - 1 = N - 1 /\ \A k \in 1 .. N - 1 : k \in 0 .. N - 1
    BY <1>4
  <1>12. UNCHANGED <<pc, cache_lock, cut, text, last_text, local, added>> /\ Remains(Row, Row)
    BY <1>1, RemainsSame
  <1>13. history' \in [Index -> Slot] /\ \A k \in 0 .. N - 1 : Row[k] = history'[At(k)]
    BY <1>0, <1>1, <1>3, <1>5
  <1>14. Passed(s, N, n, 1, 1, Row)
    BY <1>1, <1>3, <1>4, <1>6, <1>7, <1>9, <1>10, <1>11, <1>12, <1>13 DEF Passed
  <1> QED
    BY <1>7, <1>14, RingPassed

\* The holes at the tail of the ring are dropped.
LEMMA RingTrimStep ==
  ASSUME BaseInv, BaseInv', RingInv, NEW s \in SyncProcs, TrimStep(s)
  PROVE  RingInv'
  <1>0. HistorySize \in Nat \ {0}
    BY SizeAssumption
  <1>1. /\ UNCHANGED <<history, history_first, text, last_text, added, db, lost, cut, local, pc,
                       cache_lock, reg, batch>>
        /\ pc[s] = "trim" /\ cache_lock = s
        /\ history_num > 0 /\ history[At(history_num - 1)].itemid = Gap
        /\ history_num' = history_num - 1
    BY DEF TrimStep, TailGap, textbuf, ghost, sync
  <1>2. ~Vacuuming /\ ~Compacting /\ Trimming /\ ~Scanned
    BY <1>1, Phases
  <1>3. ~Vacuuming' /\ ~Compacting' /\ Trimming' /\ ~Scanned'
    BY <1>1, <1>2 DEF Vacuuming, Compacting, Trimming, Scanned
  <1>4. PICK N \in Int : history_num = N
    BY DEF RingInv, RingTypes
  <1>5. /\ N > 0 /\ N <= HistorySize /\ N - 1 \in Int /\ N - 1 \in 0 .. N - 1
        /\ history_num' = N - 1
    BY <1>1, <1>2, <1>4, RowRing
  <1>6. /\ Row \in [0 .. N - 1 -> Slot] /\ RowSound(Row, N)
        /\ \A k \in 0 .. N - 1 : Row[k] = history[At(k)]
    BY <1>2, <1>4, RowRing
  <1>7. ~IsValue(Row[N - 1])
    BY <1>1, <1>4, <1>5, <1>6 DEF IsValue
  <1>8. Row' = [k \in 0 .. N - 2 |-> Row[k]]
    <2>1. Row' = [k \in 0 .. (N - 1) - 1 |-> history'[At(k)']]
      BY <1>3, <1>5, PlainRowNext
    <2>2. \A k : At(k)' = At(k)
      BY <1>1 DEF At
    <2>3. (N - 1) - 1 = N - 2 /\ \A k \in 0 .. N - 2 : k \in 0 .. N - 1
      BY <1>5
    <2> QED
      BY <1>1, <1>6, <2>1, <2>2, <2>3
  <1>9. Remains(Row', Row) /\ RowSound(Row', N - 1)
    BY <1>5, <1>6, <1>7, <1>8, RunTrimmed
  <1>10. RingTypes'
    <2>1. N - 1 <= HistorySize /\ N - 1 >= 0
      BY <1>0, <1>5
    <2> QED
      BY <1>1, <1>5, <2>1 DEF RingInv, RingTypes
  <1>11. \A i \in Items : \A v : Out(i, v)' <=> Out(i, v)
    BY <1>1, OutSame
  <1>12. \A i \in Items : \A v : InRow(Row', i, v) <=> InRow(Row, i, v)
    <2>1. /\ DOMAIN Row = 0 .. N - 1 /\ DOMAIN Row' = 0 .. N - 2
          /\ \A k \in 0 .. N - 2 : k \in 0 .. N - 1 /\ Row'[k] = Row[k]
          /\ \A k \in 0 .. N - 1 : k = N - 1 \/ k \in 0 .. N - 2
      BY <1>5, <1>6, <1>8
    <2> QED
      BY <1>7, <2>1, ItemsAssumption DEF InRow, IsValue
  <1>13. Kept'
    BY <1>1, <1>11, <1>12, KeptMeans DEF RingInv
  <1>14. ScanInv'
    BY <1>3 DEF ScanInv
  <1>15. ProxyInv'
    <2>1. ~Server => IsValue(Row[N - 1])
      BY <1>5, <1>6 DEF RingInv, ProxyInv
    <2> QED
      BY <1>7, <2>1 DEF ProxyInv
  <1>16. pc'[Main] = "idle" => RowEndsBy(Row', last_text')
    BY <1>1, <1>2, <1>9, RemainsKeeps DEF RingInv, TextInv
  <1> QED
    BY <1>3, <1>5, <1>1, <1>9, <1>10, <1>13, <1>14, <1>15, <1>16, RingStep DEF RowSound

\* The newest slot is not a hole any more: no noted run of holes reaches further.
LEMMA RingTrimDone ==
  ASSUME BaseInv, BaseInv', RingInv, NEW s \in SyncProcs, TrimDone(s)
  PROVE  RingInv'
  <1>1. /\ UNCHANGED <<history, history_first, history_num, text, last_text, added, db, lost, cut,
                       local, reg, batch>>
        /\ pc[s] = "trim" /\ cache_lock = s /\ cache_lock' = Nobody
        /\ \/ batch[s] = {} /\ \E l \in {"done", "idle"} : Goto(s, l) /\ (s = Main => l = "done")
           \/ Goto(s, "db")
        /\ ~TailGap
    BY DEF TrimDone, Unlock, Return, ring, textbuf, ghost, sync
  <1>2. ~Vacuuming /\ ~Compacting /\ ~Scanned
    BY <1>1, Phases
  <1>3. /\ pc'[s] \notin {"scan", "trim"} /\ (pc'[s] = "db" \/ batch[s] = {})
        /\ \A p \in Procs : p # s => pc'[p] = pc[p]
        /\ s = Main => pc'[s] # "idle"
    BY <1>1, Phases DEF BaseInv, Goto
  <1>4. ~Vacuuming' /\ ~Compacting' /\ ~Trimming' /\ ~Scanned'
    BY <1>1, Phases, PhasesNext
  <1>5. PICK N \in Int : history_num = N
    BY DEF RingInv, RingTypes
  <1>6. /\ Row \in [0 .. N - 1 -> Slot] /\ RowSound(Row, N) /\ Count = N
        /\ \A k \in 0 .. N - 1 : Row[k] = history[At(k)]
    BY <1>2, <1>5, RowRing
  <1>7. RowClosed(Row, Count)
    <2> SUFFICES ASSUME NEW k \in 0 .. N - 1, ~IsValue(Row[k]) PROVE k + Row[k].num <= N
      BY <1>6 DEF RowClosed
    <2>1. Row[k].num \in Nat
      BY <1>6 DEF Slot
    <2>2. N - 1 \in 0 .. N - 1
      OBVIOUS
    <2>3. IsValue(Row[N - 1])
      BY <1>1, <1>5, <1>6, <2>2 DEF TailGap, IsValue
    <2>4. ~(N - 1 < k + Row[k].num)
      BY <1>6, <2>2, <2>3 DEF RowSound, RowHoles
    <2> QED
      BY <2>1, <2>4
  <1>8. RingTypes'
    BY <1>1 DEF RingInv, RingTypes
  <1>9. \A i \in Items : \A v : Out(i, v)' <=> Out(i, v)
    <2>1. \A t \in SyncProcs : \/ batch[t] = {}
                               \/ pc'[t] \in {"scan", "trim", "db"} <=> pc[t] \in {"scan", "trim", "db"}
      BY <1>1, <1>3, Phases
    <2> QED
      BY <1>1, <2>1, OutSame
  <1>10. ScanInv'
    BY <1>4 DEF ScanInv
  <1>11. pc'[Main] = "idle" => RowEndsBy(Row, last_text)
    BY <1>2, <1>3, Phases DEF RingInv, TextInv
  <1> QED
    BY <1>1, <1>2, <1>4, <1>7, <1>8, <1>9, <1>10, <1>11, RingFrame

--------------------------------------------------------------------------------
(***************************************************************************)
(* What a writer does to the ring.                                         *)
(***************************************************************************)

LEMMA RingAdd ==
  ASSUME BaseInv, BaseInv', RingInv, NEW w \in Writers, DCadd_history(w)
  PROVE  RingInv'
  <1>0. HistorySize \in Nat \ {0} /\ TextSize \in Nat
    BY SizeAssumption
  <1> DEFINE i == Head(local[w])
             len == TextLen[i]
             slot == [itemid |-> i, num |-> 1, val |-> added[i] + 1, txt |-> last_text, len |-> len]
  <1>1. /\ UNCHANGED <<history_first, db, lost, cut, pc, cache_lock, reg, batch>>
        /\ pc[w] = "add" /\ cache_lock = w /\ local[w] # <<>>
        /\ history_num < HistorySize /\ len <= TextSize - last_text
        /\ history' = [history EXCEPT ![At(history_num)] = slot]
        /\ history_num' = history_num + 1
        /\ text' = [c \in DOMAIN text |-> IF last_text <= c /\ c < last_text + len
                                          THEN <<i, added[i] + 1>> ELSE text[c]]
        /\ last_text' = last_text + len
        /\ added' = [added EXCEPT ![i] = @ + 1]
        /\ local' = [local EXCEPT ![w] = Tail(@)]
    BY DEF DCadd_history, sync
  <1>2. ~Vacuuming /\ ~Compacting /\ ~Trimming /\ ~Scanned /\ pc[Main] = "idle" /\ ~cut
    <2>1. ~Vacuuming /\ ~Compacting /\ ~Trimming /\ ~Scanned
      BY <1>1, Phases
    <2>2. pc[Main] = "idle" /\ ~cut
      BY <1>1, Phases, ProcsAssumption DEF BaseInv, LockInv
    <2> QED
      BY <2>1, <2>2
  <1>3. ~Vacuuming' /\ ~Compacting' /\ ~Trimming' /\ ~Scanned' /\ pc'[Main] = "idle"
    BY <1>1, <1>2 DEF Vacuuming, Compacting, Trimming, Scanned
  <1>4. PICK N \in Nat : history_num = N
    BY <1>2 DEF RingInv, RingTypes
  <1>5. /\ history \in [Index -> Slot] /\ history_first \in Index /\ last_text \in 0 .. TextSize
        /\ text = [c \in 0 .. TextSize - 1 |-> text[c]]
        /\ local \in [Writers -> Seq(Items)] /\ added \in [Items -> Nat]
        /\ reg \in [n : Int, f : Int, num : Nat, gap : Int, data : Int]
    BY DEF RingInv, RingTypes
  <1>6. /\ i \in Items /\ len \in Nat /\ added[i] \in Nat /\ Tail(local[w]) \in Seq(Items)
    <2>1. local[w] \in Seq(Items) /\ local[w] # <<>>
      BY <1>1, <1>5
    <2>2. i \in Items /\ Tail(local[w]) \in Seq(Items)
      BY <2>1
    <2> QED
      BY <1>5, <2>2, TextAssumption
  <1>7. PICK last \in 0 .. TextSize, tl \in Nat, a \in Nat : last = last_text /\ tl = len /\ a = added[i]
    BY <1>5, <1>6
  <1> HIDE DEF len
  <1>8. slot \in Slot /\ slot.itemid = i /\ slot.num = 1 /\ slot.val = a + 1 /\ slot.txt = last /\ slot.len = tl
    <2>1. last \in Nat /\ a + 1 \in Nat /\ 1 \in Nat
      BY <1>7
    <2> QED
      BY <1>6, <1>7, <2>1 DEF Slot
  <1> HIDE DEF slot
  <1>9. IsValue(slot) /\ last + tl <= TextSize
    <2>1. IsValue(slot)
      BY <1>6, <1>8, ItemsAssumption DEF IsValue
    <2>2. tl <= TextSize - last
      BY <1>1, <1>7
    <2> QED
      BY <1>0, <2>1, <2>2
  <1>10. /\ Row \in [0 .. N - 1 -> Slot] /\ RowSound(Row, N) /\ RowClosed(Row, N)
         /\ N < HistorySize /\ N + 1 \in Int /\ history_num' = N + 1
         /\ \A k \in 0 .. N - 1 : k \in 0 .. HistorySize - 1 /\ Row[k] = history[At(k)]
    BY <1>1, <1>2, <1>4, RowRing
  <1>11. Row' = Appended(Row, N, slot)
    <2>1. Row' = [k \in 0 .. (N + 1) - 1 |-> history'[At(k)']]
      BY <1>3, <1>10, PlainRowNext
    <2>2. \A k : At(k)' = At(k)
      BY <1>1 DEF At
    <2>3. (N + 1) - 1 = N /\ N \in 0 .. HistorySize - 1
      BY <1>0, <1>10
    <2>4. ASSUME NEW k \in 0 .. N PROVE history'[At(k)] = IF k < N THEN Row[k] ELSE slot
      <3>1. k \in 0 .. HistorySize - 1 /\ (k < N => k \in 0 .. N - 1) /\ (~(k < N) => k = N)
        BY <1>0, <1>10
      <3>2. At(k) \in Index /\ At(N) \in Index /\ (At(k) = At(N) <=> k = N)
        BY <1>5, <2>3, <3>1, AtIndex
      <3>3. history' = [history EXCEPT ![At(N)] = slot]
        BY <1>1, <1>4
      <3>4. CASE k < N
        <4>1. history'[At(k)] = history[At(k)]
          BY <1>5, <3>2, <3>3, <3>4
        <4> QED
          BY <1>10, <3>1, <3>4, <4>1
      <3>5. CASE ~(k < N)
        BY <1>5, <3>1, <3>2, <3>3, <3>5
      <3> QED
        BY <3>4, <3>5
    <2> QED
      BY <2>1, <2>2, <2>3, <2>4 DEF Appended
  <1>12. RowSound(Row', N + 1) /\ RowClosed(Row', N + 1)
    BY <1>8, <1>9, <1>10, <1>11, RunAppended
  <1>13. \A k \in 0 .. N - 1 : Row[k].itemid = i => Row[k].val < a + 1
    <2> SUFFICES ASSUME NEW k \in 0 .. N - 1, Row[k].itemid = i PROVE Row[k].val < a + 1
      OBVIOUS
    <2>1. InRow(Row, i, Row[k].val)
      BY <1>10 DEF InRow
    <2>2. Row[k].val \in 1 .. a
      BY <1>6, <1>7, <2>1, KeptMeans DEF RingInv
    <2> QED
      BY <2>2
  <1>14. /\ RowOrdered(Row') /\ RowTexts(Row') /\ RowOwns(Row', text') /\ RowEndsBy(Row', last + tl)
    <2>1. DOMAIN text = 0 .. TextSize - 1
      BY <1>5
    <2>2. TextAdded(text, text', slot)
      BY <1>1, <1>7, <1>8, <2>1 DEF TextAdded
    <2>3. RowOrdered(Row) /\ RowTexts(Row) /\ RowOwns(Row, text) /\ RowEndsBy(Row, slot.txt)
      BY <1>2, <1>7, <1>8 DEF RingInv, TextInv
    <2>5. slot.txt + slot.len <= TextSize /\ slot.len = TextLen[slot.itemid]
      BY <1>7, <1>8, <1>9 DEF len
    <2>4. \A k \in 0 .. N - 1 : Row[k].itemid = slot.itemid => Row[k].val < slot.val
      BY <1>8, <1>13
    <2> QED
      BY <1>8, <1>10, <1>11, <2>2, <2>3, <2>4, <2>5, TextAppended
  <1>15. RingTypes'
    <2>1. history' \in [Index -> Slot]
      BY <1>1, <1>5, <1>8
    <2>2. last_text' \in 0 .. TextSize
      BY <1>0, <1>1, <1>7, <1>9
    <2>3. added' \in [Items -> Nat]
      <3>1. added' = [added EXCEPT ![i] = added[i] + 1]
        BY <1>1
      <3>2. added[i] + 1 \in Nat
        BY <1>6
      <3> QED
        BY <1>5, <3>1, <3>2
    <2>4. local' \in [Writers -> Seq(Items)]
      BY <1>1, <1>5, <1>6
    <2>5. text' = [c \in 0 .. TextSize - 1 |-> text'[c]]
      BY <1>1, <1>5
    <2>6. N + 1 <= HistorySize /\ N + 1 >= 0
      BY <1>0, <1>10
    <2> QED
      BY <1>1, <1>5, <1>10, <2>1, <2>2, <2>3, <2>4, <2>5, <2>6 DEF RingTypes
  <1>16. Kept'
    <2>1. \A j \in Items : \A v : Out(j, v)' <=> Out(j, v)
      BY <1>1, OutSame
    <2>2. \A j : \A v : InRow(Row', j, v) <=> InRow(Row, j, v) \/ (j = i /\ v = a + 1)
      <3>1. /\ DOMAIN Row = 0 .. N - 1 /\ DOMAIN Row' = 0 .. N /\ Row'[N] = slot /\ N \in 0 .. N
            /\ \A k \in 0 .. N - 1 : k \in 0 .. N /\ Row'[k] = Row[k]
            /\ \A k \in 0 .. N : k = N \/ k \in 0 .. N - 1
        BY <1>10, <1>11 DEF Appended
      <3> QED
        BY <1>8, <3>1 DEF InRow
    <2>3. ASSUME NEW j \in Items, NEW v
          PROVE  v \in 1 .. added'[j] <=> v \in 1 .. added[j] \/ (j = i /\ v = a + 1)
      <3>1. added'[j] = IF j = i THEN a + 1 ELSE added[j]
        BY <1>1, <1>5, <1>6, <1>7
      <3>2. v \in 1 .. a + 1 <=> v \in 1 .. a \/ v = a + 1
        OBVIOUS
      <3> QED
        BY <1>7, <3>1, <3>2
    <2>4. \A j \in Items : \A v : v \in 1 .. added[j] <=> InRow(Row, j, v) \/ Out(j, v)
      BY KeptMeans DEF RingInv
    <2>5. \A j \in Items : \A v : v \in 1 .. added'[j] <=> InRow(Row', j, v) \/ Out(j, v)'
      BY <2>1, <2>2, <2>3, <2>4
    <2> QED
      BY <2>5, KeptMeans
  <1>17. Copies' /\ Count' = N + 1
    BY <1>3, <1>10, PlainCopies, PlainRowNext
  <1>18. ProxyInv'
    <2>1. /\ DOMAIN Row = 0 .. N - 1 /\ DOMAIN Row' = 0 .. N
          /\ \A k \in 0 .. N : Row'[k] = slot \/ (k \in 0 .. N - 1 /\ Row'[k] = Row[k])
      BY <1>10, <1>11 DEF Appended
    <2>2. ~Server => \A k \in DOMAIN Row' : IsValue(Row'[k]) /\ Row'[k].num = 1
      BY <1>8, <1>9, <2>1 DEF RingInv, ProxyInv
    <2> QED
      BY <1>3, <2>2 DEF ProxyInv, IsValue
  <1>19. VacuumInv' /\ ScanInv'
    BY <1>3 DEF VacuumInv, ScanInv
  <1>20. TextInv'
    <2>1. last_text' = last + tl
      BY <1>1, <1>7
    <2> QED
      BY <1>3, <1>14, <2>1 DEF TextInv, RowEndsBy
  <1>21. /\ RowOrdered(Row)' /\ RowTexts(Row)' /\ RowOwns(Row, text)' /\ RowBounds(Row)'
         /\ RowRuns(Row, Count)' /\ RowHoles(Row)' /\ RowClosed(Row, Count)'
    BY <1>12, <1>14, <1>17 DEF RowSound, RowOrdered, RowTexts, RowOwns, RowBounds, RowRuns, RowHoles,
       RowClosed, IsValue
  <1> QED
    BY <1>15, <1>16, <1>17, <1>18, <1>19, <1>20, <1>21 DEF RingInv

\* DCvacuum_history and DCvacuum_text begin: nothing has moved yet.
LEMMA RingVacuumBegins ==
  ASSUME BaseInv, BaseInv', RingInv, NEW w \in Writers,
         RingFull(w) /\ ~(HistorySize \div 100 >= history_gap_num)
  PROVE  RingInv'
  <1>0. HistorySize \in Nat \ {0}
    BY SizeAssumption
  <1>1. /\ UNCHANGED <<history, history_first, history_num, text, last_text, added, db, lost, cut,
                       local, batch, cache_lock>>
        /\ pc[w] = "add" /\ cache_lock = w /\ history_num = HistorySize
        /\ pc' = [pc EXCEPT ![w] = "vacuum"]
        /\ reg' = [Regs0 EXCEPT !.n = history_num]
    BY DEF RingFull, Goto, ring, textbuf, ghost, sync
  <1>2. ~Vacuuming /\ ~Compacting /\ ~Trimming /\ ~Scanned
    BY <1>1, Phases
  <1>3. pc'[w] = "vacuum" /\ w \in Procs /\ \A s \in SyncProcs : pc'[s] = pc[s]
    BY <1>1, Phases DEF BaseInv
  <1>4. Vacuuming' /\ ~Compacting' /\ ~Trimming' /\ ~Scanned'
    BY <1>1, <1>3, Phases, PhasesNext
  <1>5. PICK N \in Nat : history_num = N /\ N = HistorySize /\ history_num' = N
    BY <1>0, <1>1
  <1>6. reg' = [n |-> N, f |-> 0, num |-> 0, gap |-> 0, data |-> 0]
    BY <1>1, <1>5 DEF Regs0
  <1>7. reg'.n = N /\ reg'.gap = 0 /\ reg'.data = 0 /\ reg' \in [n : Int, f : Int, num : Nat, gap : Int, data : Int]
    BY <1>6
  <1>8. /\ Count = N /\ Row = [k \in 0 .. N - 1 |-> history[At(k)]]
    BY <1>2, <1>5, PlainRow
  <1>9. Gone' = 0 /\ Fixed' = N /\ Count' = N
    <2>1. Gone' = 0 /\ Fixed' = N
      BY <1>4, <1>7 DEF Gone, Fixed
    <2> QED
      BY <1>5, <2>1 DEF Count
  <1>10. Row' = Row
    <2>1. \A k \in 0 .. N - 1 : Place(k)' = k
      BY <1>9 DEF Place
    <2>2. \A k : At(k)' = At(k)
      BY <1>1 DEF At
    <2>3. Row' = [k \in 0 .. Count' - 1 |-> history'[At(Place(k))']]
      BY DEF Row
    <2>4. \A k \in 0 .. N - 1 : At(Place(k))' = At(k)
      BY <2>1, <2>2 DEF At
    <2> QED
      BY <1>1, <1>8, <1>9, <2>3, <2>4
  <1>11. RingTypes'
    BY <1>1, <1>7 DEF RingInv, RingTypes
  <1>12. Kept'
    <2>1. \A i \in Items : \A v : Out(i, v)' <=> Out(i, v)
      BY <1>1, <1>3, OutSame
    <2> QED
      BY <1>1, <1>10, <2>1, KeptMeans DEF RingInv
  <1>13. Copies'
    <2>1. \A k : At(k)' = At(k)
      BY <1>1 DEF At
    <2> QED
      BY <1>1, <1>5, <1>8, <1>10, <2>1 DEF Copies
  <1>14. VacuumInv'
    <2>1. \A k \in DOMAIN Row' : ~(k >= N)
      BY <1>8, <1>10
    <2>2. {N, 0} \subseteq Nat /\ N + 0 + 0 <= N
      OBVIOUS
    <2> QED
      BY <1>5, <1>7, <2>1, <2>2 DEF VacuumInv
  <1>15. pc'[Main] = "idle" => RowEndsBy(Row, last_text)
    BY <1>2, <1>3, Phases DEF RingInv, TextInv
  <1>16. ScanInv' /\ TextInv' /\ ProxyInv'
    BY <1>1, <1>4, <1>10, <1>15 DEF ScanInv, TextInv, ProxyInv, RingInv, RowEndsBy, IsValue
  <1>17. RowOrdered(Row)' /\ RowTexts(Row)' /\ RowOwns(Row, text)' /\ RowBounds(Row)' /\ RowRuns(Row, Count)'
    BY <1>1, <1>8, <1>9, <1>10 DEF RingInv, RowOrdered, RowTexts, RowOwns, RowBounds, RowRuns, IsValue
  <1> QED
    BY <1>4, <1>11, <1>12, <1>13, <1>14, <1>16, <1>17 DEF RingInv

LEMMA RingTextBegins ==
  ASSUME BaseInv, BaseInv', RingInv, NEW w \in Writers, TextFull(w), WorthVacuumText
  PROVE  RingInv'
  <1>0. HistorySize \in Nat \ {0} /\ TextSize \in Nat
    BY SizeAssumption
  <1>1. /\ UNCHANGED <<history, history_first, history_num, text, added, db, lost, cut,
                       local, batch, cache_lock>>
        /\ pc[w] = "add" /\ cache_lock = w /\ last_text' = 0
        /\ pc' = [pc EXCEPT ![w] = "vactext"]
        /\ reg' = [Regs0 EXCEPT !.n = history_num, !.f = history_first]
    BY DEF TextFull, Goto, ring, ghost, sync
  <1>2. ~Vacuuming /\ ~Compacting /\ ~Trimming /\ ~Scanned /\ ~cut
    BY <1>1, Phases, ProcsAssumption DEF BaseInv, LockInv
  <1>3. pc'[w] = "vactext" /\ w \in Procs /\ \A s \in SyncProcs : pc'[s] = pc[s]
    BY <1>1, Phases DEF BaseInv
  <1>4. ~Vacuuming' /\ Compacting' /\ ~Trimming' /\ ~Scanned'
    BY <1>1, <1>3, Phases, PhasesNext
  <1>5. PICK N \in Nat, F \in Index : history_num = N /\ history_num' = N /\ history_first = F
    BY <1>1, <1>2 DEF RingInv, RingTypes
  <1>6. F \in Int /\ N \in Int
    BY <1>0 DEF Index
  <1>7. /\ reg' = [n |-> N, f |-> F, num |-> 0, gap |-> 0, data |-> 0]
        /\ reg'.n = N /\ reg'.f = F
        /\ reg' \in [n : Int, f : Int, num : Nat, gap : Int, data : Int]
    <2>1. reg' = [n |-> N, f |-> F, num |-> 0, gap |-> 0, data |-> 0]
      BY <1>1, <1>5 DEF Regs0
    <2> QED
      BY <1>6, <2>1
  <1>8. /\ Count = N /\ Row = [k \in 0 .. N - 1 |-> history[At(k)]]
    BY <1>2, <1>5, <1>6, PlainRow
  <1>9. Count' = N /\ Row' = [k \in 0 .. N - 1 |-> history'[At(k)']] /\ Copies'
    BY <1>4, <1>5, <1>6, PlainRowNext, PlainCopies
  <1>10. Row' = Row /\ At(0)' = F
    <2>1. \A k : At(k)' = At(k)
      BY <1>1 DEF At
    <2>2. At(0) = F
      BY <1>5, AtIndex
    <2> QED
      BY <1>1, <1>8, <1>9, <2>1, <2>2
  <1>11. RingTypes'
    BY <1>0, <1>1, <1>7 DEF RingInv, RingTypes
  <1>12. Kept'
    <2>1. \A i \in Items : \A v : Out(i, v)' <=> Out(i, v)
      BY <1>1, <1>3, OutSame
    <2> QED
      BY <1>1, <1>10, <2>1, KeptMeans DEF RingInv
  <1>13. TextInv'
    <2>1. Row \in [0 .. N - 1 -> Slot]
      BY <1>2, <1>5, <1>6, RowRing
    <2>2. N \in 0 .. N /\ N - N = 0
      BY <1>6
    <2>3. \A k \in DOMAIN Row' : ~(k < 0) /\ 0 <= Row'[k].txt
      BY <1>10, <2>1 DEF Slot
    <2> QED
      BY <1>1, <1>4, <1>5, <1>7, <1>10, <2>2, <2>3 DEF TextInv
  <1>14. ScanInv' /\ ProxyInv' /\ VacuumInv'
    BY <1>4, <1>10 DEF ScanInv, ProxyInv, VacuumInv, RingInv, IsValue
  <1>15. /\ RowOrdered(Row)' /\ RowTexts(Row)' /\ RowOwns(Row, text)' /\ RowBounds(Row)'
         /\ RowRuns(Row, Count)' /\ RowHoles(Row)' /\ (~cut' => RowClosed(Row, Count)')
    <2>1. /\ RowOrdered(Row) /\ RowTexts(Row) /\ RowOwns(Row, text) /\ RowBounds(Row)
          /\ RowRuns(Row, N) /\ RowHoles(Row) /\ RowClosed(Row, N)
      BY <1>2, <1>8 DEF RingInv
    <2> QED
      BY <1>1, <1>9, <1>10, <2>1 DEF RowOrdered, RowTexts, RowOwns, RowBounds, RowRuns,
       RowHoles, RowClosed, IsValue
  <1> QED
    BY <1>4, <1>9, <1>11, <1>12, <1>13, <1>14, <1>15 DEF RingInv

\* DCvacuum_text moves the text of one slot down.
LEMMA RingVacTextStep ==
  ASSUME BaseInv, BaseInv', RingInv, NEW w \in Writers, VacTextStep(w)
  PROVE  RingInv'
  <1>0. HistorySize \in Nat \ {0} /\ TextSize \in Nat
    BY SizeAssumption
  <1> DEFINE slot == history[reg.f]
  <1>1. /\ UNCHANGED <<history_first, history_num, added, db, lost, cut, local, batch, cache_lock, pc>>
        /\ pc[w] = "vactext" /\ cache_lock = w /\ reg.n > 0
        /\ text' = Memmove(text, last_text, slot.txt, slot.len)
        /\ history' = [history EXCEPT ![reg.f] = MovedText(slot)]
        /\ last_text' = last_text + slot.len
        /\ reg' = [reg EXCEPT !.n = @ - 1, !.f = Wrap(@ + 1)]
    BY DEF VacTextStep, ghost, sync
  <1>2. ~Vacuuming /\ Compacting /\ ~Trimming /\ ~Scanned /\ ~cut
    BY <1>1, Phases, ProcsAssumption DEF BaseInv, LockInv
  <1>3. ~Vacuuming' /\ Compacting' /\ ~Trimming' /\ ~Scanned'
    BY <1>1, <1>2 DEF Vacuuming, Compacting, Trimming, Scanned
  <1>4. /\ history \in [Index -> Slot] /\ history_first \in Index /\ last_text \in 0 .. TextSize
        /\ text = [c \in 0 .. TextSize - 1 |-> text[c]]
        /\ reg \in [n : Int, f : Int, num : Nat, gap : Int, data : Int]
    BY DEF RingInv, RingTypes
  <1>5. PICK N \in Nat, n \in Nat \ {0} :
          history_num = N /\ history_num' = N /\ reg.n = n /\ n <= N /\ N <= HistorySize
    BY <1>1, <1>2, <1>4 DEF RingInv, RingTypes, TextInv
  <1>6. N \in Int /\ N - n \in 0 .. N - 1 /\ N - n \in 0 .. HistorySize - 1
    BY <1>0, <1>5
  <1>7. PICK q \in 0 .. N - 1 : q = N - n
    BY <1>6
  <1>8. reg.f = At(q)
    BY <1>1, <1>2, <1>5, <1>7 DEF RingInv, TextInv
  <1>9. /\ Count = N /\ Row \in [0 .. N - 1 -> Slot] /\ DOMAIN Row = 0 .. N - 1
        /\ \A k \in 0 .. N - 1 : k \in 0 .. HistorySize - 1 /\ At(k) \in Index /\ Row[k] = history[At(k)]
    BY <1>2, <1>5, <1>6, RowRing
  <1>10. slot = Row[q] /\ slot \in Slot
    BY <1>8, <1>9
  <1>11. PICK last \in 0 .. TextSize : last = last_text
    BY <1>4
  <1>12. Count' = N /\ Row' = [k \in 0 .. N - 1 |-> history'[At(k)']] /\ Copies'
    BY <1>3, <1>5, <1>6, PlainRowNext, PlainCopies
  <1>13. \A k \in 0 .. N - 1 : Row'[k] = IF k = q THEN MovedText(Row[q]) ELSE Row[k]
    <2> TAKE k \in 0 .. N - 1
    <2>1. At(k)' = At(k)
      BY <1>1 DEF At
    <2>2. At(k) = reg.f <=> k = q
      BY <1>4, <1>7, <1>8, <1>9, AtIndex
    <2>3. history'[At(k)] = IF At(k) = reg.f THEN MovedText(slot) ELSE history[At(k)]
      BY <1>1, <1>4, <1>9
    <2> QED
      BY <1>9, <1>10, <1>12, <2>1, <2>2, <2>3
  <1>14. /\ MovedText(Row[q]) \in Slot
         /\ MovedText(Row[q]).itemid = Row[q].itemid /\ MovedText(Row[q]).val = Row[q].val
         /\ MovedText(Row[q]).num = Row[q].num /\ MovedText(Row[q]).len = Row[q].len
         /\ MovedText(Row[q]).txt = IF Row[q].len # 0 THEN last ELSE Row[q].txt
    <2>1. last \in Nat /\ Row[q] \in Slot
      BY <1>10
    <2>2. MovedText(Row[q]) = [Row[q] EXCEPT !.txt = IF Row[q].len = 0 THEN Row[q].txt ELSE last]
      BY <1>11 DEF MovedText
    <2>3. ASSUME NEW t \in Slot, NEW x \in Nat, NEW y, y = [t EXCEPT !.txt = x]
          PROVE  /\ y \in Slot /\ y.itemid = t.itemid /\ y.val = t.val /\ y.num = t.num
                 /\ y.len = t.len /\ y.txt = x
      BY <2>3 DEF Slot
    <2>4. (IF Row[q].len = 0 THEN Row[q].txt ELSE last) \in Nat
      BY <2>1 DEF Slot
    <2> QED
      BY <2>1, <2>2, <2>3, <2>4
  <1>15. \A k \in 0 .. N - 1 :
           /\ Row'[k].itemid = Row[k].itemid /\ Row'[k].val = Row[k].val
           /\ Row'[k].len = Row[k].len
           /\ Row'[k].txt = IF k = q /\ Row[k].len # 0 THEN last ELSE Row[k].txt
           /\ Row'[k].num = Row[k].num
    BY <1>13, <1>14
  <1>16. DOMAIN Row' = 0 .. N - 1
    BY <1>12
  <1>17. RowTexts(Row) /\ RowOwns(Row, text) /\ TextsPacked(Row, q, last)
    BY <1>2, <1>5, <1>7, <1>11 DEF RingInv, TextInv, TextsPacked
  <1>18. /\ last + Row[q].len \in 0 .. TextSize
         /\ RowTexts(Row') /\ RowOwns(Row', text') /\ TextsPacked(Row', q + 1, last + Row[q].len)
    <2>1. text' = Memmove(text, last, Row[q].txt, Row[q].len)
      BY <1>1, <1>10, <1>11
    <2>2. DOMAIN text = 0 .. TextSize - 1
      BY <1>4
    <2>3. Retexted(Row', Row, q, last)
      BY <1>9, <1>15, <1>16 DEF Retexted
    <2> QED
      BY <1>6, <1>9, <1>17, <2>1, <2>2, <2>3, TextMoved
  <1>19. /\ reg'.n = n - 1 /\ reg'.f = Wrap(At(q) + 1)
         /\ reg' \in [n : Int, f : Int, num : Nat, gap : Int, data : Int]
    <2>1. At(q) \in Int /\ Wrap(At(q) + 1) \in Int /\ n - 1 \in Int
      BY <1>0, <1>5, <1>9 DEF Wrap, Index
    <2> QED
      BY <1>1, <1>4, <1>5, <1>8, <2>1
  <1>20. RingTypes'
    <2>1. history' \in [Index -> Slot]
      BY <1>1, <1>4, <1>10, <1>14
    <2>2. last_text' \in 0 .. TextSize
      BY <1>1, <1>10, <1>11, <1>18
    <2>3. text' = [c \in 0 .. TextSize - 1 |-> text'[c]]
      BY <1>1, <1>4 DEF Memmove
    <2> QED
      BY <1>1, <1>19, <2>1, <2>2, <2>3 DEF RingInv, RingTypes
  <1>21. Kept'
    <2>1. \A i \in Items : \A v : Out(i, v)' <=> Out(i, v)
      BY <1>1, OutSame
    <2>2. \A i : \A v : InRow(Row', i, v) <=> InRow(Row, i, v)
      BY <1>9, <1>15, <1>16 DEF InRow
    <2> QED
      BY <1>1, <2>1, <2>2, KeptMeans DEF RingInv
  <1>22. TextInv'
    <2>1. n - 1 \in 0 .. N /\ N - (n - 1) = q + 1
      BY <1>5, <1>7
    <2>2. n - 1 > 0 => reg'.f = At(q + 1)'
      <3> SUFFICES ASSUME n - 1 > 0 PROVE reg'.f = At(q + 1)'
        OBVIOUS
      <3>1. q \in 0 .. HistorySize - 1 /\ q + 1 < HistorySize
        BY <1>0, <1>5, <1>7
      <3>2. At(q + 1) = Wrap(At(q) + 1)
        BY <1>4, <3>1, AtNext
      <3>3. At(q + 1)' = At(q + 1)
        BY <1>1 DEF At
      <3> QED
        BY <1>19, <3>2, <3>3
    <2>3. last_text' = last + Row[q].len
      BY <1>1, <1>10, <1>11
    <2>4. \A k \in DOMAIN Row' : Row'[k].len > 0 =>
            IF k < q + 1 THEN Row'[k].txt + Row'[k].len <= last_text' ELSE last_text' <= Row'[k].txt
      BY <1>18, <2>3 DEF TextsPacked
    <2> QED
      BY <1>3, <1>5, <1>19, <2>1, <2>2, <2>4 DEF TextInv
  <1>23. ScanInv' /\ VacuumInv'
    BY <1>3 DEF ScanInv, VacuumInv
  <1>24. ProxyInv'
    BY <1>3, <1>9, <1>15, <1>16 DEF ProxyInv, RingInv, IsValue
  <1>25. /\ RowOrdered(Row') /\ RowBounds(Row') /\ RowRuns(Row', N) /\ RowHoles(Row') /\ RowClosed(Row', N)
    <2>1. RowOrdered(Row) /\ RowBounds(Row) /\ RowRuns(Row, N) /\ RowHoles(Row) /\ RowClosed(Row, N)
      BY <1>2, <1>9 DEF RingInv
    <2>2. \A k \in 0 .. N - 1 : IsValue(Row'[k]) <=> IsValue(Row[k])
      BY <1>15 DEF IsValue
    <2>3. RowOrdered(Row')
      BY <1>9, <1>15, <1>16, <2>1, <2>2 DEF RowOrdered
    <2>4. RowBounds(Row') /\ RowHoles(Row') /\ RowClosed(Row', N)
      BY <1>9, <1>15, <1>16, <2>1, <2>2 DEF RowBounds, RowHoles, RowClosed
    <2>5. RowRuns(Row', N)
      BY <1>9, <1>15, <1>16, <2>1, <2>2 DEF RowRuns
    <2> QED
      BY <2>3, <2>4, <2>5
  <1>26. /\ RowOrdered(Row)' /\ RowTexts(Row)' /\ RowOwns(Row, text)' /\ RowBounds(Row)'
         /\ RowRuns(Row, Count)' /\ RowHoles(Row)' /\ RowClosed(Row, Count)'
    BY <1>12, <1>18, <1>25 DEF RowOrdered, RowTexts, RowOwns, RowBounds, RowRuns, RowHoles, RowClosed, IsValue
  <1> QED
    BY <1>12, <1>20, <1>21, <1>22, <1>23, <1>24, <1>26 DEF RingInv

--------------------------------------------------------------------------------
(***************************************************************************)
(* The compaction.                                                         *)
(***************************************************************************)

\* The block of data slots from position n on is found gap positions further.
BlockAt(m, n, data, gap) ==
  \A p \in 0 .. HistorySize - 1 :
    m[At(p)] = IF n + gap <= p /\ p < n + gap + data THEN history[At(p - gap)] ELSE history[At(p)]

LEMMA BlockKept ==
  ASSUME history \in [Index -> Slot], history_first \in Index,
         NEW n \in Nat, NEW data \in Nat, NEW gap \in Nat, n + data + gap <= HistorySize,
         data # 0 => gap # 0 /\ At(n) + data <= HistorySize,
         NEW m, m = IF data = 0 THEN history ELSE DCmove_history(history, At(n), data, gap)
  PROVE  m \in [Index -> Slot] /\ BlockAt(m, n, data, gap)
  <1>0. HistorySize \in Nat
    BY SizeAssumption
  <1>1. CASE data = 0
    BY <1>0, <1>1 DEF BlockAt
  <1>2. CASE data # 0
    <2>1. /\ m = [c \in Index |-> m[c]]
          /\ \A p \in 0 .. HistorySize - 1 :
               m[At(p)] = IF n + gap <= p /\ p < n + gap + data THEN history[At(p - gap)] ELSE history[At(p)]
      <3>1. DOMAIN history = Index /\ m = DCmove_history(history, At(n), data, gap)
        BY <1>2
      <3>2. data \in Nat \ {0} /\ gap \in Nat \ {0} /\ At(n) + data <= HistorySize
        BY <1>2
      <3> QED
        BY <3>1, <3>2, BlockMoved
    <2>2. ASSUME NEW c \in Index PROVE m[c] \in Slot
      <3>1. PICK p \in 0 .. HistorySize - 1 : c = At(p)
        BY AtIndex
      <3>2. n + gap <= p => p - gap \in 0 .. HistorySize - 1
        BY <1>0
      <3>3. At(p) \in Index /\ (n + gap <= p => At(p - gap) \in Index)
        BY <3>2, AtIndex
      <3> QED
        BY <2>1, <3>1, <3>3
    <2> QED
      BY <2>1, <2>2 DEF BlockAt
  <1> QED
    BY <1>1, <1>2

\* What the writer that compacts the ring knows.
LEMMA VacuumRow ==
  ASSUME BaseInv, RingInv, NEW w \in Writers, pc[w] = "vacuum"
  PROVE  /\ Vacuuming /\ ~Compacting /\ ~Trimming /\ ~Scanned /\ ~cut
         /\ \E N \in Nat, n \in Nat, data \in Nat, gap \in Nat :
              /\ history_num = N /\ reg.n = n /\ reg.data = data /\ reg.gap = gap
              /\ N <= HistorySize /\ n + data + gap <= N
              /\ gap = 0 => data = 0
              /\ data > 0 => At(n) # 0 /\ At(n) + data <= HistorySize
              /\ Count = N - gap
              /\ Row \in [0 .. N - gap - 1 -> Slot]
              /\ \A k \in 0 .. N - gap - 1 : Row[k] = history[At(IF k < n + data THEN k ELSE k + gap)]
              /\ \A k \in 0 .. N - gap - 1 : k >= n => IsValue(Row[k])
  <1>0. HistorySize \in Nat
    BY SizeAssumption
  <1>1. Vacuuming /\ ~Compacting /\ ~Trimming /\ ~Scanned /\ ~cut
    <2>1. cache_lock = w
      BY Phases DEF BaseInv, LockInv, Working
    <2>2. Vacuuming /\ ~Compacting /\ ~Trimming /\ ~Scanned
      BY <2>1, Phases
    <2>3. ~cut
      BY Phases, ProcsAssumption DEF BaseInv, LockInv
    <2> QED
      BY <2>2, <2>3
  <1>2. PICK N \in Nat : history_num = N /\ N <= HistorySize
    BY <1>1 DEF RingInv, RingTypes
  <1>3. PICK n \in Nat, data \in Nat, gap \in Nat : reg.n = n /\ reg.data = data /\ reg.gap = gap
    BY <1>1 DEF RingInv, VacuumInv
  <1>4. /\ n + data + gap <= N
        /\ gap = 0 => data = 0
        /\ data > 0 => At(n) # 0 /\ At(n) + data <= HistorySize
        /\ \A k \in DOMAIN Row : k >= n => IsValue(Row[k])
    BY <1>1, <1>2, <1>3 DEF RingInv, VacuumInv
  <1>5. Gone = gap /\ Fixed = n + data /\ Count = N - gap
    <2>1. Gone = gap /\ Fixed = n + data
      BY <1>1, <1>3 DEF Gone, Fixed
    <2> QED
      BY <1>2, <2>1 DEF Count
  <1>6. \A k : Place(k) = IF k < n + data THEN k ELSE k + gap
    BY <1>5 DEF Place
  <1>7. Row = [k \in 0 .. N - gap - 1 |-> history[At(IF k < n + data THEN k ELSE k + gap)]]
    BY <1>5, <1>6 DEF Row
  <1>8. \A k \in 0 .. N - gap - 1 : Row[k] \in Slot
    <2> TAKE k \in 0 .. N - gap - 1
    <2>1. (IF k < n + data THEN k ELSE k + gap) \in 0 .. HistorySize - 1
      BY <1>0, <1>2, <1>4
    <2>2. history \in [Index -> Slot] /\ history_first \in Index
      BY DEF RingInv, RingTypes
    <2> QED
      BY <1>7, <2>1, <2>2, AtIndex
  <1> QED
    BY <1>1, <1>2, <1>3, <1>4, <1>5, <1>7, <1>8

LEMMA VacuumRowNext ==
  ASSUME Vacuuming', NEW N \in Nat, NEW n \in Nat, NEW data \in Nat, NEW gap \in Nat,
         history_num' = N, reg'.n = n, reg'.data = data, reg'.gap = gap, history_first' = history_first
  PROVE  /\ Count' = N - gap
         /\ Row' = [k \in 0 .. N - gap - 1 |-> history'[At(IF k < n + data THEN k ELSE k + gap)]]
  <1>1. Gone' = gap /\ Fixed' = n + data
    BY DEF Gone, Fixed
  <1>2. Count' = N - gap
    BY <1>1 DEF Count
  <1>3. Row' = [k \in 0 .. Count' - 1 |-> history'[At(Place(k))']]
    BY DEF Row
  <1>4. \A k : Place(k)' = IF k < n + data THEN k ELSE k + gap
    BY <1>1 DEF Place
  <1>5. \A k : At(Place(k))' = At(IF k < n + data THEN k ELSE k + gap)
    BY <1>4 DEF At
  <1> QED
    BY <1>2, <1>3, <1>5

\* A step of the compaction changes nothing of what there will be, but takes one
\* hole away at most.
LEMMA RingVacuumMoves ==
  ASSUME BaseInv, BaseInv', RingInv, NEW w \in Writers, pc[w] = "vacuum",
         UNCHANGED <<history_first, history_num, text, last_text, added, db, lost, cut, local, batch,
                     cache_lock, pc>>,
         history' \in [Index -> Slot], reg' \in [n : Int, f : Int, num : Nat, gap : Int, data : Int],
         NEW c \in Nat, NEW c2 \in Int, Count = c, Row \in [0 .. c - 1 -> Slot], Count' = c2,
         \/ Row' = Row /\ c2 = c
         \/ \E m \in 0 .. c - 1 : ~IsValue(Row[m]) /\ Row' = Removed(Row, c, m) /\ c2 = c - 1,
         VacuumInv',
         NEW N \in Nat, history_num = N,
         \A p \in 0 .. N - 1 : \E q \in 0 .. N - 1 : history'[At(p)] = history[At(q)]
  PROVE  RingInv'
  <1>1. Vacuuming /\ ~Compacting /\ ~Trimming /\ ~Scanned /\ ~cut
    BY VacuumRow
  <1>2. Vacuuming' /\ ~Compacting' /\ ~Trimming' /\ ~Scanned' /\ ~cut'
    BY <1>1 DEF Vacuuming, Compacting, Trimming, Scanned
  <1>3. RowBounds(Row) /\ RowRuns(Row, c) /\ RowOrdered(Row) /\ RowTexts(Row) /\ RowOwns(Row, text)
    BY DEF RingInv
  <1>4. /\ Remains(Row', Row) /\ RowBounds(Row') /\ RowRuns(Row', c2)
        /\ \A k \in DOMAIN Row' : \E j \in DOMAIN Row : Row'[k] = Row[j]
        /\ \A j \in DOMAIN Row : IsValue(Row[j]) => \E k \in DOMAIN Row' : Row'[k] = Row[j]
    <2>1. CASE Row' = Row /\ c2 = c
      BY <1>3, <2>1, RemainsSame
    <2>2. ASSUME NEW m \in 0 .. c - 1, ~IsValue(Row[m]), Row' = Removed(Row, c, m), c2 = c - 1
          PROVE  /\ Remains(Row', Row) /\ RowBounds(Row') /\ RowRuns(Row', c2)
                 /\ \A k \in DOMAIN Row' : \E j \in DOMAIN Row : Row'[k] = Row[j]
                 /\ \A j \in DOMAIN Row : IsValue(Row[j]) => \E k \in DOMAIN Row' : Row'[k] = Row[j]
      <3>1. Remains(Row', Row) /\ RowBounds(Row') /\ RowRuns(Row', c2)
        BY <1>3, <2>2, RunRemoved
      <3>2. DOMAIN Row = 0 .. c - 1 /\ DOMAIN Row' = 0 .. c - 2
        BY <2>2 DEF Removed
      <3>3. \A k \in 0 .. c - 2 : Row'[k] = IF k < m THEN Row[k] ELSE Row[k + 1]
        BY <2>2 DEF Removed
      <3>4. ASSUME NEW k \in 0 .. c - 2 PROVE \E j \in 0 .. c - 1 : Row'[k] = Row[j]
        <4>1. k \in 0 .. c - 1 /\ k + 1 \in 0 .. c - 1
          OBVIOUS
        <4> QED
          BY <3>3, <4>1
      <3>5. ASSUME NEW j \in 0 .. c - 1, IsValue(Row[j]) PROVE \E k \in 0 .. c - 2 : Row'[k] = Row[j]
        <4>1. j # m
          BY <2>2, <3>5
        <4>2. CASE j < m
          <5>1. j \in 0 .. c - 2
            BY <4>2
          <5> QED
            BY <3>3, <4>2, <5>1
        <4>3. CASE j > m
          <5>1. j - 1 \in 0 .. c - 2 /\ ~(j - 1 < m) /\ (j - 1) + 1 = j
            BY <4>3
          <5> QED
            BY <3>3, <5>1
        <4> QED
          BY <4>1, <4>2, <4>3
      <3> QED
        BY <3>1, <3>2, <3>4, <3>5
    <2> QED
      BY <2>1, <2>2
  <1>5. /\ RowOrdered(Row') /\ RowTexts(Row') /\ RowOwns(Row', text)
        /\ \A last : RowEndsBy(Row, last) => RowEndsBy(Row', last)
    BY <1>3, <1>4, RemainsKeeps
  <1>6. RingTypes'
    BY DEF RingInv, RingTypes
  <1>7. Kept'
    <2>1. \A i \in Items : \A v : Out(i, v)' <=> Out(i, v)
      BY OutSame
    <2>2. ASSUME NEW i \in Items, NEW v PROVE InRow(Row', i, v) <=> InRow(Row, i, v)
      BY <1>4, ItemsAssumption DEF InRow, IsValue
    <2> QED
      BY <2>1, <2>2, KeptMeans DEF RingInv
  <1>8. Copies'
    <2>1. \A p : At(p)' = At(p)
      BY DEF At
    <2>2. ASSUME NEW p \in 0 .. N - 1, IsValue(history'[At(p)])
          PROVE  \E k \in DOMAIN Row' : history'[At(p)] = Row'[k]
      <3>1. PICK q \in 0 .. N - 1 : history'[At(p)] = history[At(q)]
        OBVIOUS
      <3>2. PICK j \in DOMAIN Row : history[At(q)] = Row[j]
        BY <2>2, <3>1 DEF RingInv, Copies
      <3> QED
        BY <1>4, <2>2, <3>1, <3>2
    <2> QED
      BY <2>1, <2>2 DEF Copies, IsValue
  <1>9. ScanInv'
    BY <1>2 DEF ScanInv
  <1>10. TextInv'
    BY <1>1, <1>2, <1>5 DEF RingInv, TextInv, RowEndsBy
  <1>11. ProxyInv'
    <2>1. ~Server => \A k \in DOMAIN Row' : IsValue(Row'[k]) /\ Row'[k].num = 1
      BY <1>4 DEF RingInv, ProxyInv
    <2> QED
      BY <1>2, <2>1 DEF ProxyInv, IsValue
  <1>12. /\ RowOrdered(Row)' /\ RowTexts(Row)' /\ RowOwns(Row, text)' /\ RowBounds(Row)' /\ RowRuns(Row, Count)'
    BY <1>4, <1>5 DEF RowOrdered, RowTexts, RowOwns, RowBounds, RowRuns, IsValue
  <1> QED
    BY <1>2, <1>6, <1>7, <1>8, <1>9, <1>10, <1>11, <1>12 DEF RingInv

\* The positions of the row before and after a step of the compaction.
\* The row in the slots as they are when the loop has stepped over a hole (HoleGone) or
\* has moved the block at the beginning of the array (BlockGone).
HoleGone(m, N, n, data, gap) ==
  \A k \in 0 .. N - gap - 2 :
    m[At(IF k < n - 1 THEN k ELSE k + (gap + 1))] =
      IF k < n - 1 THEN history[At(IF k < n + data THEN k ELSE k + gap)]
      ELSE history[At(IF k + 1 < n + data THEN k + 1 ELSE (k + 1) + gap)]

LEMMA VacuumHoleRow ==
  ASSUME NEW N \in Nat, NEW n \in Nat \ {0}, NEW data \in Nat, NEW gap \in Nat,
         N <= HistorySize, n + data + gap <= N, NEW m, BlockAt(m, n, data, gap)
  PROVE  HoleGone(m, N, n, data, gap)
  <1>0. HistorySize \in Nat
    BY SizeAssumption
  <1> SUFFICES ASSUME NEW k \in 0 .. N - gap - 2
               PROVE  m[At(IF k < n - 1 THEN k ELSE k + (gap + 1))] =
                        IF k < n - 1 THEN history[At(IF k < n + data THEN k ELSE k + gap)]
                        ELSE history[At(IF k + 1 < n + data THEN k + 1 ELSE (k + 1) + gap)]
    BY DEF HoleGone
  <1>1. CASE k < n - 1
    <2>1. k \in 0 .. HistorySize - 1 /\ ~(n + gap <= k) /\ k < n + data
      BY <1>0, <1>1
    <2> QED
      BY <1>1, <2>1 DEF BlockAt
  <1>2. CASE ~(k < n - 1) /\ k + 1 < n + data
    <2>1. /\ k + (gap + 1) \in 0 .. HistorySize - 1
          /\ n + gap <= k + (gap + 1) /\ k + (gap + 1) < n + gap + data
          /\ (k + (gap + 1)) - gap = k + 1
      BY <1>0, <1>2
    <2> QED
      BY <1>2, <2>1 DEF BlockAt
  <1>3. CASE ~(k < n - 1) /\ ~(k + 1 < n + data)
    <2>1. /\ k + (gap + 1) \in 0 .. HistorySize - 1
          /\ ~(k + (gap + 1) < n + gap + data)
          /\ k + (gap + 1) = (k + 1) + gap
      BY <1>0, <1>3
    <2> QED
      BY <1>3, <2>1 DEF BlockAt
  <1> QED
    BY <1>1, <1>2, <1>3

BlockGone(m, N, n, data, gap) ==
  \A k \in 0 .. N - gap - 1 :
    m[At(IF k < n - 1 THEN k ELSE k + gap)] = history[At(IF k < n + data THEN k ELSE k + gap)]

LEMMA VacuumMovedRow ==
  ASSUME NEW N \in Nat, NEW n \in Nat \ {0}, NEW data \in Nat, NEW gap \in Nat,
         N <= HistorySize, n + data + gap <= N, NEW m, BlockAt(m, n - 1, data + 1, gap)
  PROVE  BlockGone(m, N, n, data, gap)
  <1>0. HistorySize \in Nat
    BY SizeAssumption
  <1> SUFFICES ASSUME NEW k \in 0 .. N - gap - 1
               PROVE  m[At(IF k < n - 1 THEN k ELSE k + gap)]
                        = history[At(IF k < n + data THEN k ELSE k + gap)]
    BY DEF BlockGone
  <1>1. CASE k < n - 1
    <2>1. k \in 0 .. HistorySize - 1 /\ ~((n - 1) + gap <= k) /\ k < n + data
      BY <1>0, <1>1
    <2> QED
      BY <1>1, <2>1 DEF BlockAt
  <1>2. CASE ~(k < n - 1) /\ k < n + data
    <2>1. /\ k + gap \in 0 .. HistorySize - 1
          /\ (n - 1) + gap <= k + gap /\ k + gap < (n - 1) + gap + (data + 1)
          /\ (k + gap) - gap = k
      BY <1>0, <1>2
    <2> QED
      BY <1>2, <2>1 DEF BlockAt
  <1>3. CASE ~(k < n - 1) /\ ~(k < n + data)
    <2>1. k + gap \in 0 .. HistorySize - 1 /\ ~(k + gap < (n - 1) + gap + (data + 1))
      BY <1>0, <1>3
    <2> QED
      BY <1>3, <2>1 DEF BlockAt
  <1> QED
    BY <1>1, <1>2, <1>3

\* Every slot holds what some slot held before the block moved.
\* Whatever the first N slots of m hold was in a slot of the ring.
CopiesRing(m, N) ==
  \A p \in 0 .. N - 1 : \E q \in 0 .. N - 1 : m[At(p)] = history[At(q)]

LEMMA BlockCopies ==
  ASSUME NEW N \in Nat, N <= HistorySize, NEW n \in Nat, NEW data \in Nat, NEW gap \in Nat,
         NEW m, BlockAt(m, n, data, gap)
  PROVE  CopiesRing(m, N)
  <1>0. HistorySize \in Nat
    BY SizeAssumption
  <1> USE DEF CopiesRing
  <1> TAKE p \in 0 .. N - 1
  <1>1. p \in 0 .. HistorySize - 1 /\ (n + gap <= p => p - gap \in 0 .. N - 1)
    BY <1>0
  <1> QED
    BY <1>1 DEF BlockAt

LEMMA RingVacuumStep ==
  ASSUME BaseInv, BaseInv', RingInv, NEW w \in Writers, VacuumStep(w)
  PROVE  RingInv'
  <1>0. HistorySize \in Nat
    BY SizeAssumption
  <1> DEFINE f == At(reg.n - 1)
  <1>1. /\ UNCHANGED <<history_first, history_num, text, last_text, added, db, lost, cut, local, batch,
                       cache_lock, pc>>
        /\ pc[w] = "vacuum" /\ cache_lock = w /\ reg.n > 0
    BY DEF VacuumStep, ghost, sync, textbuf
  <1>2. Vacuuming /\ Vacuuming'
    <2>1. Vacuuming
      BY <1>1, VacuumRow
    <2> QED
      BY <1>1, <2>1 DEF Vacuuming
  <1>3. PICK N \in Nat, n \in Nat, data \in Nat, gap \in Nat :
          /\ history_num = N /\ reg.n = n /\ reg.data = data /\ reg.gap = gap
          /\ N <= HistorySize /\ n + data + gap <= N
          /\ gap = 0 => data = 0
          /\ data > 0 => At(n) # 0 /\ At(n) + data <= HistorySize
          /\ Count = N - gap
          /\ Row \in [0 .. N - gap - 1 -> Slot]
          /\ \A k \in 0 .. N - gap - 1 : Row[k] = history[At(IF k < n + data THEN k ELSE k + gap)]
          /\ \A k \in 0 .. N - gap - 1 : k >= n => IsValue(Row[k])
    BY <1>1, VacuumRow
  <1>4. /\ history \in [Index -> Slot] /\ history_first \in Index
        /\ reg \in [n : Int, f : Int, num : Nat, gap : Int, data : Int]
    BY DEF RingInv, RingTypes
  <1>5. n > 0 /\ n \in Nat \ {0} /\ history_num' = N /\ f = At(n - 1)
    BY <1>1, <1>3
  <1>6. PICK c \in Nat : c = N - gap
    BY <1>3
  <1>7. /\ n - 1 \in 0 .. c - 1 /\ n - 1 \in 0 .. HistorySize - 1 /\ n - 1 < n + data
        /\ Row[n - 1] = history[f]
    <2>1. n - 1 \in 0 .. c - 1 /\ n - 1 \in 0 .. HistorySize - 1 /\ n - 1 < n + data
      BY <1>0, <1>3, <1>5, <1>6
    <2> QED
      BY <1>3, <1>5, <1>6, <2>1
  <1>8. At(n - 1) \in Index
    BY <1>4, <1>7, AtIndex
  <1>9. data > 0 => At(n) = At(n - 1) + 1
    <2> SUFFICES ASSUME data > 0 PROVE At(n) = At(n - 1) + 1
      OBVIOUS
    <2>1. (n - 1) + 1 < HistorySize /\ (n - 1) + 1 = n
      BY <1>0, <1>3, <1>5
    <2>2. At(n) # 0 => At(n - 1) = At(n) - 1
      BY <1>4, <1>7, <2>1, AtNext
    <2>3. At(n - 1) \in Int /\ At(n) \in Int
      BY <1>0, <1>4, <1>5 DEF At, Wrap, Index
    <2> QED
      BY <1>3, <2>2, <2>3
  <1>15. n - 1 \in Int /\ n - 1 \in Nat /\ gap + 1 \in Int /\ data + 1 \in Int /\ data + 1 \in Nat /\ 0 \in Int
    BY <1>5
  <1>16. n + data + gap <= N /\ N <= HistorySize
    BY <1>3
  <1>10. CASE ~IsValue(history[f])
    <2>1. /\ history' = IF data = 0 THEN history ELSE DCmove_history(history, At(n), data, gap)
          /\ reg' = [reg EXCEPT !.n = n - 1, !.gap = gap + 1, !.data = 0]
      <3>1. /\ history' = IF reg.data = 0 THEN history
                          ELSE DCmove_history(history, f + 1, reg.data, reg.gap)
            /\ reg' = [reg EXCEPT !.n = @ - 1, !.gap = @ + 1, !.data = 0]
        BY <1>10 DEF VacuumStep, IsValue
      <3>2. history' = IF data = 0 THEN history ELSE DCmove_history(history, f + 1, data, gap)
        BY <1>3, <3>1
      <3>3. data # 0 => f + 1 = At(n)
        BY <1>5, <1>9
      <3>4. reg' = [reg EXCEPT !.n = reg.n - 1, !.gap = reg.gap + 1, !.data = 0]
        BY <3>1
      <3> QED
        BY <1>3, <3>2, <3>3, <3>4
    <2>2. history' \in [Index -> Slot] /\ BlockAt(history', n, data, gap)
      <3>1. n + data + gap <= HistorySize /\ (data # 0 => gap # 0 /\ At(n) + data <= HistorySize)
        BY <1>0, <1>3
      <3> QED
        BY <1>4, <2>1, <3>1, BlockKept
    <2>3. /\ reg'.n = n - 1 /\ reg'.gap = gap + 1 /\ reg'.data = 0
          /\ reg' \in [n : Int, f : Int, num : Nat, gap : Int, data : Int]
      BY <1>4, <1>15, <2>1
    <2>4. /\ Count' = N - (gap + 1)
          /\ Row' = [k \in 0 .. N - (gap + 1) - 1 |-> history'[At(IF k < (n - 1) + 0 THEN k ELSE k + (gap + 1))]]
      <3>1. n - 1 \in Nat /\ gap + 1 \in Nat /\ 0 \in Nat
        BY <1>5
      <3> QED
        BY <1>1, <1>2, <1>5, <2>3, <3>1, VacuumRowNext
    <2>5. N - (gap + 1) = c - 1 /\ N - (gap + 1) - 1 = c - 2 /\ (n - 1) + 0 = n - 1 /\ N - gap - 2 = c - 2
      BY <1>3, <1>5, <1>6
    <2>6. Row' = Removed(Row, c, n - 1)
      <3>1. Row' = [k \in 0 .. c - 2 |-> history'[At(IF k < n - 1 THEN k ELSE k + (gap + 1))]]
        BY <2>4, <2>5
      <3>0. HoleGone(history', N, n, data, gap)
        BY <1>5, <1>16, <2>2, VacuumHoleRow
      <3>2. ASSUME NEW k \in 0 .. c - 2
            PROVE  history'[At(IF k < n - 1 THEN k ELSE k + (gap + 1))]
                     = IF k < n - 1 THEN Row[k] ELSE Row[k + 1]
        <4>1. k \in 0 .. N - gap - 2 /\ k \in 0 .. N - gap - 1 /\ k + 1 \in 0 .. N - gap - 1
          BY <1>6
        <4>2. history'[At(IF k < n - 1 THEN k ELSE k + (gap + 1))] =
                IF k < n - 1 THEN history[At(IF k < n + data THEN k ELSE k + gap)]
                ELSE history[At(IF k + 1 < n + data THEN k + 1 ELSE (k + 1) + gap)]
          BY <3>0, <4>1 DEF HoleGone
        <4> QED
          BY <1>3, <4>1, <4>2
      <3> QED
        BY <3>1, <3>2 DEF Removed
    <2>7. VacuumInv'
      <3>1. ASSUME NEW k \in DOMAIN Row', k >= n - 1 PROVE IsValue(Row'[k])
        <4>1. k \in 0 .. c - 2 /\ Row'[k] = Row[k + 1]
          BY <1>5, <2>6, <3>1 DEF Removed
        <4>2. k + 1 \in 0 .. N - gap - 1 /\ k + 1 >= n
          BY <1>5, <1>6, <3>1, <4>1
        <4> QED
          BY <1>3, <4>1, <4>2
      <3>2. {n - 1, gap + 1, 0} \subseteq Nat /\ (n - 1) + 0 + (gap + 1) <= N /\ gap + 1 # 0 /\ ~(0 > 0)
        BY <1>3, <1>5
      <3> QED
        BY <1>5, <2>3, <3>1, <3>2 DEF VacuumInv, IsValue
    <2>8. c - 1 \in Int /\ Count = c /\ Row \in [0 .. c - 1 -> Slot] /\ Count' = c - 1
          /\ ~IsValue(Row[n - 1])
      BY <1>3, <1>6, <1>7, <1>10, <2>4, <2>5
    <2>9. \A p \in 0 .. N - 1 : \E q \in 0 .. N - 1 : history'[At(p)] = history[At(q)]
      <3>1. CopiesRing(history', N)
        BY <1>3, <1>16, <2>2, BlockCopies
      <3> QED
        BY <3>1 DEF CopiesRing
    <2> QED
      BY <1>1, <1>3, <1>7, <2>2, <2>3, <2>6, <2>7, <2>8, <2>9, RingVacuumMoves
  <1>11. ASSUME IsValue(history[f]), NEW data2 \in Nat,
                reg'.n = n - 1, reg'.gap = gap, reg'.data = data2,
                reg' \in [n : Int, f : Int, num : Nat, gap : Int, data : Int],
                history' \in [Index -> Slot],
                \A p \in 0 .. N - 1 : \E q \in 0 .. N - 1 : history'[At(p)] = history[At(q)],
                \A k \in 0 .. N - gap - 1 :
                  history'[At(IF k < (n - 1) + data2 THEN k ELSE k + gap)]
                    = history[At(IF k < n + data THEN k ELSE k + gap)],
                data2 <= data + 1, gap = 0 => data2 = 0,
                data2 > 0 => At(n - 1) # 0 /\ At(n - 1) + data2 <= HistorySize
         PROVE  RingInv'
    <2>1. /\ Count' = N - gap
          /\ Row' = [k \in 0 .. N - gap - 1 |-> history'[At(IF k < (n - 1) + data2 THEN k ELSE k + gap)]]
      <3>1. n - 1 \in Nat
        BY <1>5
      <3> QED
        BY <1>1, <1>2, <1>5, <1>11, <3>1, VacuumRowNext
    <2>2. Row' = Row
      BY <1>3, <1>11, <2>1
    <2>3. VacuumInv'
      <3>1. ASSUME NEW k \in DOMAIN Row', k >= n - 1 PROVE IsValue(Row'[k])
        <4>1. k \in 0 .. N - gap - 1
          BY <2>1
        <4>2. k = n - 1 \/ k >= n
          BY <1>5, <3>1, <4>1
        <4> QED
          BY <1>3, <1>7, <1>11, <2>2, <4>1, <4>2
      <3>2. {n - 1, gap, data2} \subseteq Nat /\ (n - 1) + data2 + gap <= N
        BY <1>3, <1>5, <1>11
      <3>3. At(reg.n)' = At(n - 1)
        BY <1>1, <1>11 DEF At
      <3> QED
        BY <1>5, <1>11, <3>1, <3>2, <3>3 DEF VacuumInv, IsValue
    <2>4. c \in Int /\ Count = c /\ Row \in [0 .. c - 1 -> Slot] /\ Count' = c
      BY <1>3, <1>6, <2>1
    <2> QED
      BY <1>1, <1>3, <1>11, <2>2, <2>3, <2>4, RingVacuumMoves
  <1>12. CASE IsValue(history[f]) /\ gap = 0
    <2>1. reg' = [reg EXCEPT !.n = @ - 1] /\ history' = history
      BY <1>3, <1>12 DEF VacuumStep, IsValue
    <2>2. reg' = [reg EXCEPT !.n = n - 1]
      BY <1>3, <2>1
    <2>3. /\ reg'.n = n - 1 /\ reg'.gap = gap /\ reg'.data = 0 /\ data = 0
          /\ reg' \in [n : Int, f : Int, num : Nat, gap : Int, data : Int]
      BY <1>3, <1>4, <1>5, <1>12, <2>2
    <2>4. \A k \in 0 .. N - gap - 1 :
            history'[At(IF k < (n - 1) + 0 THEN k ELSE k + gap)]
              = history[At(IF k < n + data THEN k ELSE k + gap)]
      <3> TAKE k \in 0 .. N - gap - 1
      <3>1. (IF k < (n - 1) + 0 THEN k ELSE k + gap) = k /\ (IF k < n + data THEN k ELSE k + gap) = k
        BY <1>12
      <3> QED
        BY <2>1, <3>1
    <2>5. 0 <= data + 1 /\ ~(0 > 0) /\ 0 \in Nat
      BY <1>3
    <2> QED
      BY <1>4, <1>11, <1>12, <2>1, <2>3, <2>4, <2>5
  <1>13. CASE IsValue(history[f]) /\ gap # 0 /\ f = 0
    <2>1. /\ history' = DCmove_history(history, 0, reg.data + 1, reg.gap)
          /\ reg' = [reg EXCEPT !.n = @ - 1, !.data = 0]
      BY <1>3, <1>13 DEF VacuumStep, IsValue
    <2>2. reg' = [reg EXCEPT !.n = n - 1, !.data = 0] /\ history' = DCmove_history(history, At(n - 1), data + 1, gap)
      BY <1>3, <1>5, <1>13, <2>1
    <2>3. /\ reg'.n = n - 1 /\ reg'.gap = gap /\ reg'.data = 0
          /\ reg' \in [n : Int, f : Int, num : Nat, gap : Int, data : Int]
      BY <1>3, <1>4, <1>15, <2>2
    <2>4. history' \in [Index -> Slot] /\ BlockAt(history', n - 1, data + 1, gap)
      <3>1. /\ n - 1 \in Nat /\ data + 1 \in Nat /\ data + 1 # 0
            /\ (n - 1) + (data + 1) + gap <= HistorySize /\ 0 + (data + 1) <= HistorySize
        BY <1>0, <1>3, <1>5
      <3>2. history' = IF data + 1 = 0 THEN history ELSE DCmove_history(history, At(n - 1), data + 1, gap)
        BY <2>2, <3>1
      <3>3. At(n - 1) = 0
        BY <1>5, <1>13
      <3>4. At(n - 1) + (data + 1) <= HistorySize
        BY <3>1, <3>3
      <3> QED
        BY <1>4, <1>13, <3>1, <3>2, <3>4, BlockKept
    <2>5. \A k \in 0 .. N - gap - 1 :
            history'[At(IF k < (n - 1) + 0 THEN k ELSE k + gap)]
              = history[At(IF k < n + data THEN k ELSE k + gap)]
      <3>1. (n - 1) + 0 = n - 1
        BY <1>5
      <3>2. BlockGone(history', N, n, data, gap)
        BY <1>5, <1>16, <2>4, VacuumMovedRow
      <3> QED
        BY <3>1, <3>2 DEF BlockGone
    <2>6. \A p \in 0 .. N - 1 : \E q \in 0 .. N - 1 : history'[At(p)] = history[At(q)]
      <3>1. CopiesRing(history', N)
        BY <1>3, <1>5, <1>15, <1>16, <2>4, BlockCopies
      <3> QED
        BY <3>1 DEF CopiesRing
    <2>7. 0 <= data + 1 /\ ~(0 > 0) /\ 0 \in Nat
      BY <1>3
    <2> QED
      BY <1>11, <1>13, <2>3, <2>4, <2>5, <2>6, <2>7
  <1>14. CASE IsValue(history[f]) /\ gap # 0 /\ f # 0
    <2>1. /\ history' = history
          /\ reg' = [reg EXCEPT !.n = @ - 1, !.data = @ + 1]
      BY <1>3, <1>14 DEF VacuumStep, IsValue
    <2>2. reg' = [reg EXCEPT !.n = n - 1, !.data = data + 1]
      BY <1>3, <2>1
    <2>3. /\ reg'.n = n - 1 /\ reg'.gap = gap /\ reg'.data = data + 1
          /\ reg' \in [n : Int, f : Int, num : Nat, gap : Int, data : Int]
      BY <1>3, <1>4, <1>15, <2>2
    <2>4. \A k \in 0 .. N - gap - 1 :
            history'[At(IF k < (n - 1) + (data + 1) THEN k ELSE k + gap)]
              = history[At(IF k < n + data THEN k ELSE k + gap)]
      <3>1. (n - 1) + (data + 1) = n + data
        BY <1>5
      <3> QED
        BY <2>1, <3>1
    <2>5. At(n - 1) # 0 /\ At(n - 1) + (data + 1) <= HistorySize
      <3>1. PICK a \in 0 .. HistorySize - 1 : a = At(n - 1)
        BY <1>8 DEF Index
      <3>2. data = 0 \/ (a + 1) + data <= HistorySize
        BY <1>3, <1>9, <3>1
      <3> QED
        BY <1>0, <1>5, <1>14, <3>1, <3>2
    <2>6. data + 1 \in Nat /\ data + 1 <= data + 1
      BY <1>3
    <2> QED
      BY <1>4, <1>11, <1>14, <2>1, <2>3, <2>4, <2>5, <2>6
  <1> QED
    BY <1>10, <1>12, <1>13, <1>14

\* The end of the compaction: the last block is moved, and the holes, now all at the
\* head, are dropped.
LEMMA VacuumEnds ==
  ASSUME BaseInv, RingInv, NEW w \in Writers, VacuumDone(w)
  PROVE  \E N \in Nat, gap \in Nat, M \in Nat :
           /\ history_num = N /\ reg.gap = gap /\ M = N - gap /\ M <= HistorySize
           /\ history_num' = M /\ history_gap_num' = history_gap_num - gap
           /\ history' \in [Index -> Slot] /\ history_first' \in Index
           /\ Count = M /\ Row \in [0 .. M - 1 -> Slot]
           /\ \A k \in 0 .. M - 1 : history'[At(k)'] = Row[k] /\ IsValue(Row[k])
  <1>0. HistorySize \in Nat
    BY SizeAssumption
  <1>1. /\ pc[w] = "vacuum" /\ reg.n = 0
        /\ history' = IF reg.data = 0 THEN history
                      ELSE DCmove_history(history, history_first, reg.data, reg.gap)
        /\ history_num' = history_num - reg.gap
        /\ history_gap_num' = history_gap_num - reg.gap
        /\ history_first' = Wrap(history_first + reg.gap)
    BY DEF VacuumDone, DropHoles, DropHead
  <1>2. PICK N \in Nat, n \in Nat, data \in Nat, gap \in Nat :
          /\ history_num = N /\ reg.n = n /\ reg.data = data /\ reg.gap = gap
          /\ N <= HistorySize /\ n + data + gap <= N
          /\ gap = 0 => data = 0
          /\ data > 0 => At(n) # 0 /\ At(n) + data <= HistorySize
          /\ Count = N - gap
          /\ Row \in [0 .. N - gap - 1 -> Slot]
          /\ \A k \in 0 .. N - gap - 1 : Row[k] = history[At(IF k < n + data THEN k ELSE k + gap)]
          /\ \A k \in 0 .. N - gap - 1 : k >= n => IsValue(Row[k])
    BY <1>1, VacuumRow
  <1>3. /\ history \in [Index -> Slot] /\ history_first \in Index /\ At(0) = history_first
    BY AtIndex DEF RingInv, RingTypes
  <1>4. PICK M \in Nat : M = N - gap /\ history_num' = M /\ M <= HistorySize
    <2>1. N - gap \in Nat /\ N - gap <= HistorySize
      BY <1>0, <1>2
    <2> QED
      BY <1>1, <1>2, <2>1
  <1>5. n = 0 /\ data + gap <= N /\ gap \in 0 .. HistorySize
    BY <1>0, <1>1, <1>2
  <1>6. history' \in [Index -> Slot] /\ BlockAt(history', 0, data, gap)
    <2>1. history' = IF data = 0 THEN history ELSE DCmove_history(history, At(0), data, gap)
      BY <1>1, <1>2, <1>3
    <2>2. 0 \in Nat /\ 0 + data + gap <= HistorySize /\ (data # 0 => gap # 0 /\ At(0) + data <= HistorySize)
      BY <1>0, <1>2, <1>5
    <2> QED
      BY <1>3, <2>1, <2>2, BlockKept
  <1>7. /\ history_first' \in Index
        /\ \A p \in Nat : p + gap < HistorySize => At(p)' = At(p + gap)
    BY <1>1, <1>2, <1>3, <1>5, AtShift
  <1>8. ASSUME NEW k \in 0 .. M - 1 PROVE history'[At(k)'] = Row[k] /\ IsValue(Row[k])
    <2>1. /\ k \in Nat /\ k + gap < HistorySize /\ k + gap \in 0 .. HistorySize - 1
          /\ k \in 0 .. N - gap - 1 /\ k >= 0
      BY <1>0, <1>2, <1>4
    <2>2. At(k)' = At(k + gap)
      BY <1>7, <2>1
    <2>3. history'[At(k + gap)] = history[At(IF k < data THEN k ELSE k + gap)]
      <3>1. /\ 0 + gap <= k + gap /\ (k + gap < 0 + gap + data <=> k < data) /\ (k + gap) - gap = k
        BY <2>1
      <3> QED
        BY <1>6, <2>1, <3>1 DEF BlockAt
    <2>4. k < n + data <=> k < data
      BY <1>5
    <2> QED
      BY <1>2, <1>5, <2>1, <2>2, <2>3, <2>4
  <1>9. Count = M /\ Row \in [0 .. M - 1 -> Slot]
    BY <1>2, <1>4
  <1> QED
    BY <1>1, <1>2, <1>4, <1>6, <1>7, <1>8, <1>9

LEMMA RingVacuumDone ==
  ASSUME BaseInv, BaseInv', RingInv, NEW w \in Writers, VacuumDone(w)
  PROVE  RingInv'
  <1>1. /\ UNCHANGED <<text, last_text, added, db, lost, cut, local, batch>>
        /\ pc[w] = "vacuum" /\ cache_lock = w /\ reg' = Regs0
    BY DEF VacuumDone, Sleep, ghost, sync, textbuf
  <1>2. ~Compacting /\ ~Trimming /\ ~Scanned /\ ~cut
    BY <1>1, VacuumRow
  <1>3. PICK l \in {"sleep", "add"} : pc' = [pc EXCEPT ![w] = l]
    BY DEF VacuumDone, Sleep, Goto
  <1>4. /\ pc'[w] = l /\ w \in Procs /\ cache_lock' \in {w, Nobody}
        /\ \A s \in SyncProcs : pc'[s] = pc[s]
        /\ pc'[Main] = "idle" => pc[Main] = "idle"
    <2>1. cache_lock' \in {w, Nobody}
      BY <1>1 DEF VacuumDone, Sleep, Unlock
    <2> QED
      BY <1>3, <2>1, Phases DEF BaseInv
  <1>5. ~Vacuuming' /\ ~Compacting' /\ ~Trimming' /\ ~Scanned'
    BY <1>4, Phases, PhasesNext
  <1>6. PICK N \in Nat, gap \in Nat, M \in Nat :
          /\ history_num' = M /\ M <= HistorySize
          /\ history' \in [Index -> Slot] /\ history_first' \in Index
          /\ Count = M /\ Row \in [0 .. M - 1 -> Slot]
          /\ \A k \in 0 .. M - 1 : history'[At(k)'] = Row[k] /\ IsValue(Row[k])
    BY VacuumEnds
  <1>7. Row' = [k \in 0 .. M - 1 |-> history'[At(k)']]
    BY <1>5, <1>6, PlainRowNext
  <1>8. Row' = Row /\ DOMAIN Row = 0 .. M - 1 /\ \A k \in DOMAIN Row : IsValue(Row[k])
    BY <1>6, <1>7
  <1>9. RingTypes'
    <2>1. reg' \in [n : Int, f : Int, num : Nat, gap : Int, data : Int]
      BY <1>1 DEF Regs0
    <2>2. /\ text = [c \in 0 .. TextSize - 1 |-> text[c]]
          /\ last_text \in 0 .. TextSize
          /\ local \in [Writers -> Seq(Items)]
          /\ added \in [Items -> Nat]
      BY DEF RingInv, RingTypes
    <2>3. /\ text' = [c \in 0 .. TextSize - 1 |-> text'[c]]
          /\ last_text' \in 0 .. TextSize
          /\ local' \in [Writers -> Seq(Items)]
          /\ added' \in [Items -> Nat]
      BY <1>1, <2>2
    <2>4. history_num' \in Int /\ history_num' <= HistorySize /\ (~cut' => history_num' >= 0)
      BY <1>6
    <2>5. history' \in [Index -> Slot] /\ history_first' \in Index
      BY <1>6
    <2> QED
      BY <2>1, <2>3, <2>4, <2>5 DEF RingTypes
  <1>10. Kept'
    <2>1. \A i \in Items : \A v : Out(i, v)' <=> Out(i, v)
      BY <1>1, <1>4, OutSame
    <2> QED
      BY <1>1, <1>8, <2>1, KeptMeans DEF RingInv
  <1>11. Remains(Row', Row) /\ RowBounds(Row') /\ RowRuns(Row', M)
    BY <1>6, <1>8, RemainsSame DEF RingInv
  <1>12. RowHoles(Row') /\ RowClosed(Row', M)
    BY <1>8 DEF RowHoles, RowClosed
  <1>13. ScanInv'
    BY <1>5 DEF ScanInv
  <1>14. ProxyInv'
    BY <1>5, <1>8 DEF RingInv, ProxyInv, IsValue
  <1>15. pc'[Main] = "idle" => RowEndsBy(Row', last_text')
    BY <1>1, <1>2, <1>4, <1>8 DEF RingInv, TextInv
  <1> QED
    BY <1>1, <1>5, <1>6, <1>9, <1>10, <1>11, <1>12, <1>13, <1>14, <1>15, RingStep

--------------------------------------------------------------------------------
(***************************************************************************)
(* The invariant.                                                          *)
(***************************************************************************)

LEMMA RingNext == BaseInv /\ BaseInv' /\ RingInv /\ [Next]_vars /\ ~torn' => RingInv'
  <1> SUFFICES ASSUME BaseInv, BaseInv', RingInv, [Next]_vars, ~torn' PROVE RingInv'
    OBVIOUS
  <1>1. ASSUME NEW w \in Writers, dc_flush_history(w) \/ Retry(w) \/ Fill(w) PROVE RingInv'
    <2>1. CASE dc_flush_history(w) \/ Retry(w) \/ FlushDone(w) \/ VacTextDone(w)
      BY <2>1, RingWriterQuiet
    <2>2. CASE TextFull(w)
      BY <2>2, RingWriterQuiet, RingTextBegins
    <2>3. CASE RingFull(w)
      BY <2>3, RingWriterQuiet, RingVacuumBegins
    <2>4. CASE VacTextStep(w) \/ VacuumStep(w) \/ VacuumDone(w) \/ DCadd_history(w)
      BY <2>4, RingVacTextStep, RingVacuumStep, RingVacuumDone, RingAdd
    <2> QED
      BY <1>1, <2>1, <2>2, <2>3, <2>4 DEF Fill
  <1>2. ASSUME NEW s \in SyncProcs, SyncIdle(s) \/ Collect(s) \/ Drain(s) \/ Release(s) PROVE RingInv'
    <2>1. CASE SyncIdle(s) \/ SyncStart(s) \/ Commit(s) \/ Release(s)
      BY <2>1, RingBystanders
    <2>2. CASE Collect(s) \/ ScanDone(s) \/ SkipStep(s)
      BY <2>2, RingCollect, RingSyncerQuiet, RingSkipStep
    <2>3. CASE VisitBusy(s) \/ VisitGap(s) \/ VisitTake(s) \/ ProxyTake(s)
      BY <2>3, RingVisit, RingVisitTake, RingProxyTake
    <2>4. CASE TrimStep(s) \/ TrimDone(s)
      BY <2>4, RingTrimStep, RingTrimDone
    <2> QED
      BY <1>2, <2>1, <2>2, <2>3, <2>4 DEF Drain
  <1>3. CASE \E w \in Writers : \E i \in Items : dc_add_history(w, i)
    BY <1>3, RingBystanders
  <1>4. CASE Terminate
    BY <1>4, RingTerminate
  <1>5. CASE SyncFull \/ Stopped \/ UNCHANGED vars
    BY <1>5, RingBystanders
  <1> QED
    BY <1>1, <1>2, <1>3, <1>4, <1>5 DEF Next

\* Nothing the ring may be in the middle of hides a value or its text.
LEMMA RingMeans == RingInv => VacuumKeeps
  <1> SUFFICES ASSUME RingInv PROVE VacuumKeeps
    OBVIOUS
  <1>0. HistorySize \in Nat
    BY SizeAssumption
  <1>1. PICK N \in Int : history_num = N
    BY DEF RingInv, RingTypes
  <1>2. \A k \in DOMAIN Row : \E p \in 0 .. N - 1 : Row[k] = history[At(p)]
    <2>1. CASE ~Vacuuming
      BY <1>1, <2>1, PlainRow
    <2>2. CASE Vacuuming
      <3>1. PICK n \in Nat, data \in Nat, gap \in Nat :
              reg.n = n /\ reg.data = data /\ reg.gap = gap /\ n + data + gap <= N
        BY <1>1, <2>2 DEF RingInv, VacuumInv
      <3>2. Gone = gap /\ Fixed = n + data
        BY <2>2, <3>1 DEF Gone, Fixed
      <3>3. Count = N - gap
        BY <1>1, <3>2 DEF Count
      <3>4. ASSUME NEW k \in 0 .. Count - 1 PROVE Place(k) \in 0 .. N - 1
        BY <3>1, <3>2, <3>3 DEF Place
      <3> QED
        BY <3>4 DEF Row
    <2> QED
      BY <2>1, <2>2
  <1>3. \A p \in 0 .. N - 1 : IsValue(history[At(p)]) => \E k \in DOMAIN Row : history[At(p)] = Row[k]
    BY <1>1 DEF RingInv, Copies
  <1>4. NothingDropped
    <2>1. ASSUME NEW i \in Items PROVE InRing(i) = Waiting(Row, i)
      <3>1. \A v : v \in InRing(i) <=> \E p \in 0 .. N - 1 : history[At(p)].itemid = i /\ history[At(p)].val = v
        BY <1>1 DEF InRing
      <3>2. \A v : v \in Waiting(Row, i) <=> \E k \in DOMAIN Row : Row[k].itemid = i /\ Row[k].val = v
        BY DEF Waiting
      <3>3. i # Gap
        BY ItemsAssumption
      <3>4. ASSUME NEW v, v \in InRing(i) PROVE v \in Waiting(Row, i)
        <4>1. PICK p \in 0 .. N - 1 : history[At(p)].itemid = i /\ history[At(p)].val = v
          BY <3>1, <3>4
        <4>2. \E k \in DOMAIN Row : history[At(p)] = Row[k]
          BY <1>3, <3>3, <4>1 DEF IsValue
        <4> QED
          BY <3>2, <4>1, <4>2
      <3>5. ASSUME NEW v, v \in Waiting(Row, i) PROVE v \in InRing(i)
        <4>1. PICK k \in DOMAIN Row : Row[k].itemid = i /\ Row[k].val = v
          BY <3>2, <3>5
        <4>2. \E p \in 0 .. N - 1 : Row[k] = history[At(p)]
          BY <1>2
        <4> QED
          BY <3>1, <4>1, <4>2
      <3> QED
        BY <3>4, <3>5
    <2> QED
      BY <2>1 DEF RingInv, Kept, NothingDropped
  <1>5. RingOrdered
    <2> SUFFICES ASSUME ~Vacuuming, NEW p \in 0 .. N - 1, NEW q \in 0 .. N - 1, p < q,
                        history[At(p)].itemid = history[At(q)].itemid, history[At(p)].itemid # Gap
                 PROVE  history[At(p)].val < history[At(q)].val
      BY <1>1 DEF RingOrdered
    <2>1. Row = [k \in 0 .. N - 1 |-> history[At(k)]]
      BY <1>1, PlainRow
    <2> QED
      BY <2>1 DEF RingInv, RowOrdered, IsValue
  <1>6. TextIntact
    <2> SUFFICES ASSUME NEW p \in 0 .. N - 1, IsValue(history[At(p)])
                 PROVE  \A c \in history[At(p)].txt .. history[At(p)].txt + history[At(p)].len - 1 :
                          text[c] = <<history[At(p)].itemid, history[At(p)].val>>
      BY <1>1 DEF TextIntact, IsValue
    <2> QED
      BY <1>3 DEF RingInv, RowOwns
  <1> QED
    BY <1>4, <1>5, <1>6 DEF VacuumKeeps

\* Whatever DCvacuum_history and DCvacuum_text are in the middle of, whoever is
\* stopped anywhere else: no value is dropped, the values of an item stay in order
\* and every value has its own text. (What a stop inside DCvacuum_history leaves is
\* only model-checked.)
THEOREM RingKeeps == Spec => [](~torn => VacuumKeeps)
  <1> DEFINE Inv == BaseInv /\ (torn \/ RingInv)
  <1>1. Init => Inv
    BY BaseInit, RingInit
  <1>2. Inv /\ [Next]_vars => Inv'
    BY BaseNext, TornStays, RingNext
  <1>3. Inv => (~torn => VacuumKeeps)
    BY RingMeans
  <1> QED
    BY <1>1, <1>2, <1>3, PTL DEF Spec

--------------------------------------------------------------------------------
(***************************************************************************)
(* The parent empties the ring, whatever the children were stopped in.     *)
(***************************************************************************)

\* Whatever is noted in a slot of the ring, and be it in the middle of a compaction,
\* does not lead out of the array.
SlotBounds ==
  \A p \in 0 .. history_num - 1 :
    history[At(p)].num >= 1 /\ p + history[At(p)].num <= HistorySize

\* The ring as the parent finds it and leaves it.
DrainTypes ==
  /\ history \in [Index -> Slot]
  /\ history_first \in Index
  /\ history_num \in Int /\ history_num <= HistorySize
  /\ reg \in [n : Int, f : Int, num : Nat, gap : Int, data : Int]

\* As long as the parent has taken nothing it has dropped every hole it has seen: it
\* finds nothing only in an empty ring.
DrainInv ==
  pc[Main] # "idle" =>
    /\ DrainTypes /\ SlotBounds
    /\ pc[Main] = "collect" => batch[Main] = {}
    /\ Server /\ pc[Main] \in {"collect", "scan", "trim", "db", "release"} =>
         itemids = BatchItems(Main)
    /\ pc[Main] = "scan" /\ reg.n > 0 =>
         /\ reg.n <= history_num /\ reg.f = At(history_num - reg.n)
         /\ (history_num - reg.n) + reg.num <= HistorySize
    /\ pc[Main] = "scan" /\ batch[Main] = {} => reg.n = history_num
    /\ pc[Main] = "trim" /\ batch[Main] = {} => history_num <= 0
    /\ pc[Main] = "done" => history_num <= 0

VacBounds == Vacuuming => SlotBounds

LEMMA PlainBounds ==
  ASSUME RingInv, ~Vacuuming PROVE SlotBounds
  <1>1. PICK N \in Int : history_num = N
    BY DEF RingInv, RingTypes
  <1>2. Row = [k \in 0 .. N - 1 |-> history[At(k)]]
    BY <1>1, PlainRow
  <1> QED
    BY <1>1, <1>2 DEF RingInv, RowBounds, SlotBounds

LEMMA BoundsSame ==
  ASSUME SlotBounds, UNCHANGED <<history, history_first, history_num>>
  PROVE  SlotBounds'
  <1>1. \A p : At(p)' = At(p)
    BY DEF At
  <1> QED
    BY <1>1 DEF SlotBounds


\* A block that moves up stays inside the ring: its runs end where it ends.
LEMMA BoundsMoved ==
  ASSUME RingInv, SlotBounds, UNCHANGED <<history_first, history_num>>,
         NEW N \in Nat, NEW n \in Nat, NEW data \in Nat, NEW gap \in Nat,
         history_num = N, N <= HistorySize, Count = N - gap, n + data + gap <= N,
         DOMAIN Row = 0 .. N - gap - 1, Row \in [0 .. N - gap - 1 -> Slot],
         BlockAt(history', n, data, gap),
         \A k \in 0 .. N - gap - 1 :
           n <= k /\ k < n + data => Row[k] = history[At(k)] /\ IsValue(Row[k])
  PROVE  SlotBounds'
  <1>0. HistorySize \in Nat
    BY SizeAssumption
  <1>1. ASSUME NEW p \in 0 .. N - 1
        PROVE  history'[At(p)].num >= 1 /\ p + history'[At(p)].num <= HistorySize
    <2>1. p \in 0 .. HistorySize - 1
      BY <1>0
    <2>2. CASE n + gap <= p /\ p < n + gap + data
      <3>1. PICK k \in 0 .. N - gap - 1 : k = p - gap /\ n <= k /\ k < n + data
        BY <2>2
      <3>2. history'[At(p)] = Row[k] /\ IsValue(Row[k])
        BY <2>1, <2>2, <3>1 DEF BlockAt
      <3>3. Row[k].num >= 1 /\ k + Row[k].num <= N - gap /\ Row[k].num \in Nat
        BY <3>2 DEF RingInv, RowBounds, RowRuns, Slot
      <3> QED
        BY <1>0, <3>1, <3>2, <3>3
    <2>3. CASE ~(n + gap <= p /\ p < n + gap + data)
      BY <2>1, <2>3 DEF BlockAt, SlotBounds
    <2> QED
      BY <2>2, <2>3
  <1>2. \A p : At(p)' = At(p)
    BY DEF At
  <1> QED
    BY <1>1, <1>2 DEF SlotBounds

LEMMA BoundsVacuumStep ==
  ASSUME BaseInv, RingInv, SlotBounds, NEW w \in Writers, VacuumStep(w)
  PROVE  SlotBounds'
  <1>0. HistorySize \in Nat
    BY SizeAssumption
  <1>1. pc[w] = "vacuum" /\ UNCHANGED <<history_first, history_num>>
    BY DEF VacuumStep
  <1>2. PICK N \in Nat, n \in Nat, data \in Nat, gap \in Nat :
          /\ history_num = N /\ reg.n = n /\ reg.data = data /\ reg.gap = gap
          /\ N <= HistorySize /\ n + data + gap <= N
          /\ gap = 0 => data = 0
          /\ data > 0 => At(n) # 0 /\ At(n) + data <= HistorySize
          /\ Count = N - gap
          /\ Row \in [0 .. N - gap - 1 -> Slot]
          /\ \A k \in 0 .. N - gap - 1 : Row[k] = history[At(IF k < n + data THEN k ELSE k + gap)]
          /\ \A k \in 0 .. N - gap - 1 : k >= n => IsValue(Row[k])
    BY <1>1, VacuumRow
  <1>3. history \in [Index -> Slot] /\ history_first \in Index /\ n \in Nat \ {0} /\ n - 1 \in Nat
    <2>1. reg.n > 0
      BY DEF VacuumStep
    <2>2. reg.n = n
      BY <1>2
    <2>3. history \in [Index -> Slot] /\ history_first \in Index
      BY DEF RingInv, RingTypes
    <2> QED
      BY <2>1, <2>2, <2>3
  <1>4. DOMAIN Row = 0 .. N - gap - 1 /\ n + data + gap <= N /\ N <= HistorySize /\ Count = N - gap
    BY <1>2
  <1>5. ASSUME NEW k \in 0 .. N - gap - 1, n <= k, k < n + data
        PROVE  Row[k] = history[At(k)] /\ IsValue(Row[k])
    BY <1>2, <1>5
  <1>6. CASE history' = history
    <2>1. \A p : At(p)' = At(p)
      BY <1>1 DEF At
    <2> QED
      BY <1>1, <1>6, <2>1 DEF SlotBounds
  <1>7. CASE reg.data # 0 /\ history' = DCmove_history(history, At(reg.n - 1) + 1, reg.data, reg.gap)
    <2>1. At(n - 1) + 1 = At(n) /\ data # 0
      <3>1. n - 1 \in 0 .. HistorySize - 1 /\ (n - 1) + 1 < HistorySize /\ (n - 1) + 1 = n /\ data > 0
        BY <1>0, <1>2, <1>3, <1>7
      <3>2. At(n) # 0 => At(n - 1) = At(n) - 1
        BY <1>3, <3>1, AtNext
      <3>3. At(n) \in Int
        BY <1>0, <1>3 DEF At, Wrap, Index
      <3> QED
        BY <1>2, <1>7, <3>1, <3>2, <3>3
    <2>2. history' = IF data = 0 THEN history ELSE DCmove_history(history, At(n), data, gap)
      BY <1>2, <1>7, <2>1
    <2>3. n + data + gap <= HistorySize /\ (data # 0 => gap # 0 /\ At(n) + data <= HistorySize)
      BY <1>0, <1>2
    <2>4. BlockAt(history', n, data, gap)
      BY <1>3, <2>2, <2>3, BlockKept
    <2> QED
      BY <1>1, <1>2, <1>4, <1>5, <2>4, BoundsMoved
  <1>8. CASE /\ history[At(reg.n - 1)].itemid # Gap /\ reg.gap # 0 /\ At(reg.n - 1) = 0
             /\ history' = DCmove_history(history, 0, reg.data + 1, reg.gap)
    <2>1. data + 1 \in Nat /\ data + 1 # 0 /\ (n - 1) + (data + 1) + gap <= N
      BY <1>2, <1>3
    <2>2. history' = IF data + 1 = 0 THEN history ELSE DCmove_history(history, At(n - 1), data + 1, gap)
      BY <1>2, <1>8, <2>1
    <2>3. (n - 1) + (data + 1) + gap <= HistorySize /\ gap # 0 /\ At(n - 1) + (data + 1) <= HistorySize
      <3>1. At(n - 1) = 0
        BY <1>2, <1>8
      <3> QED
        BY <1>0, <1>2, <1>8, <2>1, <3>1
    <2>4. BlockAt(history', n - 1, data + 1, gap)
      BY <1>3, <2>1, <2>2, <2>3, BlockKept
    <2>5. ASSUME NEW k \in 0 .. N - gap - 1, n - 1 <= k, k < (n - 1) + (data + 1)
          PROVE  Row[k] = history[At(k)] /\ IsValue(Row[k])
      <3>1. k < n + data /\ (k = n - 1 \/ k >= n)
        BY <1>3, <2>5
      <3>2. Row[k] = history[At(k)]
        BY <1>2, <3>1
      <3>3. k = n - 1 => IsValue(history[At(k)])
        BY <1>2, <1>8 DEF IsValue
      <3> QED
        BY <1>2, <3>1, <3>2, <3>3
    <2> QED
      BY <1>1, <1>2, <1>3, <1>4, <2>1, <2>4, <2>5, BoundsMoved
  <1> QED
    BY <1>6, <1>7, <1>8 DEF VacuumStep

\* Whoever changes the ring with the mutex held, but for a step of the compaction, is not
\* compacting it afterwards.
LEMMA BoundsNext ==
  ASSUME BaseInv, BaseInv', RingInv, VacBounds, [Next]_vars, ~torn'
  PROVE  VacBounds'
  <1>1. CASE \E w \in Writers : VacuumStep(w)
    <2>1. PICK w \in Writers : VacuumStep(w)
      BY <1>1
    <2>2. Vacuuming
      BY <2>1 DEF VacuumStep, Vacuuming
    <2> QED
      BY <2>1, <2>2, BoundsVacuumStep DEF VacBounds
  <1>2. CASE UNCHANGED <<history, history_first, history_num>>
    <2>1. SlotBounds \/ ~Vacuuming
      BY DEF VacBounds
    <2>2. SlotBounds
      BY <2>1, PlainBounds
    <2> QED
      BY <1>2, <2>2, BoundsSame DEF VacBounds
  <1>3. CASE ~Vacuuming'
    BY <1>3 DEF VacBounds
  <1>4. ASSUME NEW w \in Writers, dc_flush_history(w) \/ Retry(w) \/ Fill(w) PROVE VacBounds'
    <2>1. CASE VacTextStep(w) \/ VacuumDone(w) \/ DCadd_history(w)
      <3>1. cache_lock = w /\ ((pc' = pc /\ pc[w] # "vacuum" /\ cache_lock' = cache_lock) \/ VacuumDone(w))
        BY <2>1 DEF VacTextStep, VacuumDone, DCadd_history
      <3>2. VacuumDone(w) => /\ cache_lock' \in {w, Nobody}
                             /\ \E l \in {"sleep", "add"} : pc' = [pc EXCEPT ![w] = l]
        BY DEF VacuumDone, Sleep, Goto, Unlock
      <3>3. cache_lock' \in {w, Nobody} /\ pc'[w] # "vacuum"
        BY <3>1, <3>2, Phases DEF BaseInv
      <3>4. ~Vacuuming'
        BY <3>3, Phases, PhasesNext
      <3> QED
        BY <1>3, <3>4
    <2>2. CASE \/ dc_flush_history(w) \/ Retry(w) \/ TextFull(w) \/ VacTextDone(w) \/ RingFull(w)
               \/ FlushDone(w)
      BY <1>2, <2>2 DEF dc_flush_history, Retry, TextFull, VacTextDone, RingFull, FlushDone, ring
    <2> QED
      BY <1>1, <1>4, <2>1, <2>2 DEF Fill
  <1>5. ASSUME NEW s \in SyncProcs, SyncIdle(s) \/ Collect(s) \/ Drain(s) \/ Release(s) PROVE VacBounds'
    <2>1. CASE SkipStep(s) \/ VisitGap(s) \/ VisitBusy(s) \/ VisitTake(s) \/ ProxyTake(s) \/ TrimStep(s)
      <3>1. cache_lock = s /\ pc[s] \in {"scan", "trim"} /\ UNCHANGED <<pc, cache_lock>>
        BY <2>1 DEF SkipStep, VisitGap, VisitBusy, VisitTake, ProxyTake, TrimStep, RunFound, Scanning
      <3>2. ~Vacuuming'
        BY <3>1, Phases, PhasesNext
      <3> QED
        BY <1>3, <3>2
    <2>2. CASE \/ SyncIdle(s) \/ Collect(s) \/ SyncStart(s) \/ ScanDone(s) \/ TrimDone(s) \/ Commit(s)
               \/ Release(s)
      BY <1>2, <2>2 DEF SyncIdle, Collect, SyncStart, ScanDone, TrimDone, Commit, Release, ring, vars
    <2> QED
      BY <1>5, <2>1, <2>2 DEF Drain
  <1>6. CASE \/ \E w \in Writers : \E i \in Items : dc_add_history(w, i)
             \/ Terminate \/ SyncFull \/ Stopped \/ UNCHANGED vars
    BY <1>2, <1>6 DEF dc_add_history, Terminate, SyncFull, Stopped, ring, vars
  <1> QED
    BY <1>4, <1>5, <1>6 DEF Next

\* What the parent knows when it looks at the next run.
LEMMA DrainScan ==
  ASSUME DrainInv, Scanning(Main)
  PROVE  /\ DrainTypes /\ SlotBounds
         /\ \E N \in 1 .. HistorySize, n \in 1 .. HistorySize, num \in Nat :
              /\ history_num = N /\ reg.n = n /\ reg.num = num /\ n <= N
              /\ reg.f = At(N - n) /\ N - n \in 0 .. HistorySize - 1
              /\ (N - n) + num <= HistorySize
              /\ batch[Main] = {} => n = N
              /\ RunGrows => /\ (N - n) + num \in 0 .. N - 1
                             /\ history[Wrap(reg.f + num)] = history[At((N - n) + num)]
              /\ ~RunGrows => num # 0
  <1>0. HistorySize \in Nat \ {0}
    BY SizeAssumption
  <1>1. /\ pc[Main] = "scan" /\ pc[Main] # "idle" /\ reg.n > 0
        /\ DrainTypes /\ SlotBounds
        /\ reg.n <= history_num /\ reg.f = At(history_num - reg.n)
        /\ (history_num - reg.n) + reg.num <= HistorySize
        /\ batch[Main] = {} => reg.n = history_num
    BY DEF DrainInv, Scanning
  <1>2. PICK N \in Int, n \in Int, num \in Nat :
          /\ history_num = N /\ reg.n = n /\ reg.num = num /\ N <= HistorySize /\ n > 0 /\ n <= N
    BY <1>1 DEF DrainTypes
  <1>3. /\ N \in 1 .. HistorySize /\ n \in 1 .. HistorySize /\ N - n \in 0 .. HistorySize - 1
        /\ (N - n) + num <= HistorySize
    BY <1>0, <1>1, <1>2
  <1>4. history_first \in Index
    BY <1>1 DEF DrainTypes
  <1>5. ASSUME 0 < n - num
        PROVE  /\ (N - n) + num \in 0 .. N - 1
               /\ history[Wrap(reg.f + num)] = history[At((N - n) + num)]
    <2>1. (N - n) + num \in 0 .. N - 1 /\ (N - n) + num < HistorySize
      BY <1>0, <1>2, <1>3, <1>5
    <2>2. At((N - n) + num) = Wrap(At(N - n) + num)
      BY <1>3, <1>4, <2>1, AtNext
    <2> QED
      BY <1>1, <1>2, <2>1, <2>2
  <1>6. RunGrows => 0 < n - num
    BY <1>2 DEF RunGrows
  <1>7. ~RunGrows => num # 0
    <2> SUFFICES ASSUME num = 0 PROVE RunGrows
      OBVIOUS
    <2>1. 0 < n - num /\ (N - n) + num = N - n
      BY <1>2
    <2>2. history[Wrap(reg.f + num)] = history[reg.f]
      BY <1>1, <1>2, <1>5, <2>1
    <2> QED
      BY <1>2, <2>1, <2>2 DEF RunGrows
  <1> QED
    BY <1>1, <1>2, <1>3, <1>5, <1>6, <1>7

\* What is noted in the slots of h between distances d and N does not lead out of the array.
SlotsFit(h, d, N) ==
  \A p \in 0 .. N - 1 : p >= d => h[At(p)].num >= 1 /\ p + h[At(p)].num <= HistorySize

\* The slots after the parent has noted, taken or dropped a run of m slots, d of which
\* leave the ring.
LEMMA DrainPass ==
  ASSUME DrainTypes, NEW N \in 1 .. HistorySize, NEW n \in 1 .. HistorySize, NEW m \in Nat \ {0},
         NEW d \in 0 .. HistorySize,
         history_num = N, n <= N, reg.f = At(N - n), (N - n) + m <= HistorySize, d <= (N - n) + m,
         history_num' = N - d, history_first' = Wrap(history_first + d),
         reg' = [reg EXCEPT !.n = n - m, !.f = Wrap(reg.f + m), !.num = 0],
         history' \in [Index -> Slot],
         SlotsFit(history', d, N)
  PROVE  /\ DrainTypes' /\ SlotBounds'
         /\ reg'.n = n - m
         /\ reg'.n > 0 =>
              /\ reg'.n <= history_num' /\ reg'.f = At(history_num - reg.n)'
              /\ (history_num' - reg'.n) + reg'.num <= HistorySize
  <1>0. HistorySize \in Nat \ {0}
    BY SizeAssumption
  <1>1. /\ history_first \in Index
        /\ reg \in [n : Int, f : Int, num : Nat, gap : Int, data : Int]
    BY DEF DrainTypes
  <1>2. /\ history_first' \in Index
        /\ \A p \in Nat : p + d < HistorySize => At(p)' = At(p + d)
    BY <1>1, AtShift
  <1>3. N - d \in Int /\ n - m \in Int /\ Wrap(reg.f + m) \in Int /\ N - d <= HistorySize
    BY <1>0, <1>1 DEF Wrap
  <1>4. /\ reg'.n = n - m /\ reg'.f = Wrap(reg.f + m) /\ reg'.num = 0
        /\ reg' \in [n : Int, f : Int, num : Nat, gap : Int, data : Int]
    BY <1>1, <1>3
  <1>5. DrainTypes'
    BY <1>2, <1>3, <1>4 DEF DrainTypes
  <1>6. SlotBounds'
    <2> SUFFICES ASSUME NEW p \in 0 .. N - d - 1
                 PROVE  history'[At(p)'].num >= 1 /\ p + history'[At(p)'].num <= HistorySize
      BY DEF SlotBounds
    <2>1. p \in Nat /\ p + d < HistorySize /\ p + d \in 0 .. N - 1 /\ p + d >= d
      BY <1>0
    <2>2. At(p)' = At(p + d) /\ p + d \in 0 .. HistorySize - 1
      BY <1>0, <1>2, <2>1
    <2>3. history'[At(p + d)].num >= 1 /\ (p + d) + history'[At(p + d)].num <= HistorySize
      BY <2>1 DEF SlotsFit
    <2>4. history'[At(p + d)].num \in Nat
      <3>1. At(p + d) \in Index
        BY <1>1, <2>2, AtIndex
      <3> QED
        BY <3>1 DEF Slot
    <2>5. PICK x \in Nat : x = history'[At(p + d)].num
      BY <2>4
    <2>6. x >= 1 /\ (p + d) + x <= HistorySize
      BY <2>3, <2>5
    <2>7. p + x <= HistorySize
      BY <1>0, <2>6
    <2> QED
      BY <2>2, <2>5, <2>6, <2>7
  <1>7. ASSUME n - m > 0
        PROVE  /\ n - m <= N - d
               /\ Wrap(reg.f + m) = At((N - d) - (n - m))'
               /\ ((N - d) - (n - m)) + 0 <= HistorySize
    <2>1. /\ n - m <= N - d /\ (N - d) - (n - m) \in Nat
          /\ ((N - d) - (n - m)) + d = (N - n) + m
          /\ (N - n) + m < HistorySize /\ N - n \in 0 .. HistorySize - 1
          /\ ((N - d) - (n - m)) + 0 <= HistorySize
      BY <1>0, <1>7
    <2>2. At((N - d) - (n - m))' = At((N - n) + m)
      BY <1>2, <2>1
    <2>3. At((N - n) + m) = Wrap(At(N - n) + m)
      BY <1>1, <2>1, AtNext
    <2> QED
      BY <2>1, <2>2, <2>3
  <1>8. At(history_num - reg.n)' = At((N - d) - (n - m))'
    BY <1>4 DEF At
  <1> QED
    BY <1>4, <1>5, <1>6, <1>7, <1>8

\* SkipItems notes the length of the run in the slot where it begins and in the next.
LEMMA DrainNoted ==
  ASSUME DrainTypes, SlotBounds, NEW N \in 1 .. HistorySize, NEW n \in 1 .. N, NEW num \in Nat \ {0},
         history_num = N, reg.num = num, reg.f = At(N - n), (N - n) + num <= HistorySize
  PROVE  /\ SkipItems(history) \in [Index -> Slot]
         /\ SlotsFit(SkipItems(history), 0, N)
  <1>0. HistorySize \in Nat \ {0} /\ history_first \in Index /\ history \in [Index -> Slot]
    BY SizeAssumption DEF DrainTypes
  <1>1. N - n \in 0 .. HistorySize - 1 /\ \A k \in 0 .. N - 1 : k \in 0 .. HistorySize - 1
    BY <1>0
  <1>2. \A f \in Index : SkipItems(history)[f] =
          IF f = reg.f THEN [history[f] EXCEPT !.num = num]
          ELSE IF num > 1 /\ f = Wrap(reg.f + 1) THEN [history[f] EXCEPT !.num = num - 1]
          ELSE history[f]
    BY <1>0 DEF SkipItems
  <1>3. \A f \in Index :
          /\ SkipItems(history)[f] \in Slot
          /\ SkipItems(history)[f].num =
               IF f = reg.f THEN num
               ELSE IF num > 1 /\ f = Wrap(reg.f + 1) THEN num - 1 ELSE history[f].num
    <2> TAKE f \in Index
    <2>1. history[f] \in Slot
      BY <1>0
    <2>2. CASE f = reg.f
      <3>1. [history[f] EXCEPT !.num = num] \in Slot /\ [history[f] EXCEPT !.num = num].num = num
        BY <2>1 DEF Slot
      <3> QED
        BY <1>2, <2>2, <3>1
    <2>3. CASE f # reg.f /\ num > 1 /\ f = Wrap(reg.f + 1)
      <3>1. num - 1 \in Nat
        BY <2>3
      <3>2. /\ [history[f] EXCEPT !.num = num - 1] \in Slot
            /\ [history[f] EXCEPT !.num = num - 1].num = num - 1
        BY <2>1, <3>1 DEF Slot
      <3> QED
        BY <1>2, <2>3, <3>2
    <2>4. CASE f # reg.f /\ ~(num > 1 /\ f = Wrap(reg.f + 1))
      BY <1>2, <2>1, <2>4
    <2> QED
      BY <2>2, <2>3, <2>4
  <1>4. ASSUME NEW p \in 0 .. N - 1
        PROVE  /\ SkipItems(history)[At(p)].num >= 1
               /\ p + SkipItems(history)[At(p)].num <= HistorySize
    <2>1. At(p) \in Index /\ p \in 0 .. HistorySize - 1
      BY <1>0, <1>1, AtIndex
    <2>2. At(p) = reg.f <=> p = N - n
      BY <1>0, <1>1, AtIndex
    <2>3. ASSUME num > 1, At(p) = Wrap(reg.f + 1) PROVE p = (N - n) + 1
      <3>1. (N - n) + 1 < HistorySize /\ (N - n) + 1 \in 0 .. HistorySize - 1
        BY <1>0, <1>1, <2>3
      <3>2. At((N - n) + 1) = Wrap(At(N - n) + 1)
        BY <1>0, <1>1, <3>1, AtNext
      <3> QED
        BY <1>0, <2>1, <2>3, <3>1, <3>2, AtIndex
    <2>4. CASE p = N - n
      BY <1>0, <1>3, <2>1, <2>2, <2>4
    <2>5. CASE p # N - n /\ num > 1 /\ At(p) = Wrap(reg.f + 1)
      <3>1. SkipItems(history)[At(p)].num = num - 1 /\ p = (N - n) + 1
        BY <1>3, <2>1, <2>2, <2>3, <2>5
      <3> QED
        BY <1>0, <2>5, <3>1
    <2>6. CASE p # N - n /\ ~(num > 1 /\ At(p) = Wrap(reg.f + 1))
      <3>1. SkipItems(history)[At(p)].num = history[At(p)].num
        BY <1>3, <2>1, <2>2, <2>6
      <3> QED
        BY <3>1 DEF SlotBounds
    <2> QED
      BY <2>4, <2>5, <2>6
  <1>5. SkipItems(history) \in [Index -> Slot]
    BY <1>0, <1>3 DEF SkipItems
  <1> QED
    BY <1>4, <1>5 DEF SlotsFit

\* The parent looked at a run of m slots, of which d leave the ring; while it has taken
\* nothing all of them do.
LEMMA DrainPassed ==
  ASSUME DrainInv, Scanning(Main), UNCHANGED pc,
         NEW N \in 1 .. HistorySize, NEW n \in 1 .. N, NEW m \in Nat \ {0}, NEW d \in 0 .. HistorySize,
         history_num = N, reg.n = n, reg.f = At(N - n), (N - n) + m <= HistorySize, d <= (N - n) + m,
         history_num' = N - d, history_first' = Wrap(history_first + d),
         reg' = [reg EXCEPT !.n = n - m, !.f = Wrap(reg.f + m), !.num = 0],
         history' \in [Index -> Slot],
         SlotsFit(history', d, N),
         Server => itemids' = BatchItems(Main)',
         batch'[Main] = {} => n = N /\ d = m
  PROVE  DrainInv'
  <1>1. pc[Main] = "scan" /\ DrainTypes
    BY DEF DrainInv, Scanning
  <1>2. n \in 1 .. HistorySize /\ n <= N
    BY SizeAssumption
  <1>3. /\ DrainTypes' /\ SlotBounds'
        /\ reg'.n = n - m
        /\ reg'.n > 0 =>
             /\ reg'.n <= history_num' /\ reg'.f = At(history_num - reg.n)'
             /\ (history_num' - reg'.n) + reg'.num <= HistorySize
    BY <1>1, <1>2, DrainPass
  <1>4. batch'[Main] = {} => reg'.n = history_num'
    BY <1>3
  <1> QED
    BY <1>1, <1>3, <1>4 DEF DrainInv

LEMMA DrainSkipStep ==
  ASSUME DrainInv, SkipStep(Main)
  PROVE  DrainInv'
  <1>1. /\ Scanning(Main) /\ RunGrows
        /\ reg' = [reg EXCEPT !.num = @ + history[Wrap(reg.f + @)].num]
        /\ UNCHANGED <<history, history_first, history_num, itemids, pc, batch>>
    BY DEF SkipStep, ring, sync
  <1>2. DrainTypes /\ SlotBounds
    BY <1>1, DrainScan
  <1>3. PICK N \in 1 .. HistorySize, n \in 1 .. HistorySize, num \in Nat :
              /\ history_num = N /\ reg.n = n /\ reg.num = num
              /\ reg.f = At(N - n)
              /\ batch[Main] = {} => n = N
              /\ n <= N
              /\ (N - n) + num \in 0 .. N - 1
              /\ history[Wrap(reg.f + num)] = history[At((N - n) + num)]
              /\ N - n \in 0 .. HistorySize - 1
    BY <1>1, DrainScan
  <1>4. history[At((N - n) + num)].num \in Nat
    <2>1. HistorySize \in Nat /\ (N - n) + num \in 0 .. HistorySize - 1
      BY <1>3, SizeAssumption
    <2>2. At((N - n) + num) \in Index
      BY <1>2, <2>1, AtIndex DEF DrainTypes
    <2> QED
      BY <1>2, <2>2 DEF DrainTypes, Slot
  <1>5. PICK x \in Nat : x = history[At((N - n) + num)].num
    BY <1>4
  <1>6. ((N - n) + num) + x <= HistorySize
    BY <1>2, <1>3, <1>5 DEF SlotBounds
  <1>7. (N - n) + (num + x) <= HistorySize /\ num + x \in Nat
    BY <1>3, <1>5, <1>6, SizeAssumption
  <1>8. reg' = [reg EXCEPT !.num = num + x]
    BY <1>1, <1>3, <1>5
  <1>9. /\ reg'.n = n /\ reg'.f = At(N - n) /\ reg'.num = num + x
        /\ reg' \in [n : Int, f : Int, num : Nat, gap : Int, data : Int]
    BY <1>2, <1>3, <1>7, <1>8 DEF DrainTypes
  <1>10. DrainTypes'
    BY <1>1, <1>2, <1>9 DEF DrainTypes
  <1>11. SlotBounds'
    BY <1>1, <1>2, BoundsSame
  <1>12. At(history_num - reg.n)' = At(N - n)
    BY <1>1, <1>3, <1>9 DEF At
  <1>13. (history_num' - reg'.n) + reg'.num <= HistorySize
    BY <1>1, <1>3, <1>7, <1>9
  <1>14. /\ pc[Main] = "scan" /\ pc'[Main] = "scan"
         /\ Server => itemids' = BatchItems(Main)'
         /\ batch'[Main] = {} => reg'.n = history_num'
         /\ reg'.n <= history_num'
    BY <1>1, <1>3, <1>9 DEF DrainInv, Scanning, BatchItems
  <1> QED
    BY <1>9, <1>10, <1>11, <1>12, <1>13, <1>14 DEF DrainInv

LEMMA DrainVisit ==
  ASSUME BaseInv, DrainInv, VisitGap(Main) \/ VisitBusy(Main)
  PROVE  DrainInv'
  <1>1. /\ RunFound(Main) /\ Scanning(Main) /\ ~RunGrows /\ Server /\ pc[Main] = "scan"
        /\ history' = SkipItems(history)
        /\ UNCHANGED <<pc, itemids, batch>>
        /\ Advance(reg.num)
    BY DEF VisitGap, VisitBusy, RunFound, Scanning, sync
  <1>2. /\ DrainTypes /\ SlotBounds
        /\ Server => itemids = BatchItems(Main)
    BY <1>1 DEF DrainInv
  <1>3. PICK N \in 1 .. HistorySize, n \in 1 .. HistorySize, num \in Nat :
              /\ history_num = N /\ reg.n = n /\ reg.num = num /\ n <= N
              /\ reg.f = At(N - n) /\ N - n \in 0 .. HistorySize - 1
              /\ (N - n) + num <= HistorySize
              /\ batch[Main] = {} => n = N
              /\ num # 0
    BY <1>1, DrainScan
  <1>4. n \in 1 .. N /\ num \in Nat \ {0} /\ num \in 0 .. HistorySize /\ num <= (N - n) + num
    BY <1>3, SizeAssumption
  <1>5. /\ SkipItems(history) \in [Index -> Slot]
        /\ SlotsFit(SkipItems(history), 0, N) /\ SlotsFit(SkipItems(history), num, N)
    <2>1. SkipItems(history) \in [Index -> Slot] /\ SlotsFit(SkipItems(history), 0, N)
      BY <1>2, <1>3, <1>4, DrainNoted
    <2>2. \A p \in 0 .. N - 1 : p >= 0
      OBVIOUS
    <2> QED
      BY <2>1, <2>2 DEF SlotsFit
  <1>6. reg' = [reg EXCEPT !.n = n - num, !.f = Wrap(reg.f + num), !.num = 0]
    BY <1>1, <1>3 DEF Advance
  <1>7. itemids' = BatchItems(Main)'
    BY <1>1, <1>2 DEF BatchItems
  <1>8. history_first \in Index /\ At(0) = history_first
    BY <1>2, AtIndex DEF DrainTypes
  <1>9. CASE VisitGap(Main) /\ reg.f = history_first
    <2>1. history_num' = N - num /\ history_first' = Wrap(history_first + num)
      BY <1>3, <1>9 DEF VisitGap, DropHoles, DropHead
    <2> QED
      BY <1>1, <1>2, <1>3, <1>4, <1>5, <1>6, <1>7, <2>1, DrainPassed
  <1>10. CASE VisitBusy(Main) \/ reg.f # history_first
    <2>1. UNCHANGED <<history_first, history_num>>
      BY <1>10 DEF VisitGap, VisitBusy
    <2>2. batch'[Main] # {}
      <3>1. CASE VisitBusy(Main)
        <4>1. BatchItems(Main) # {}
          BY <1>1, <1>2, <3>1 DEF VisitBusy, Busy
        <4> QED
          BY <1>1, <4>1 DEF BatchItems
      <3>2. CASE reg.f # history_first
        <4>1. N - N = 0
          OBVIOUS
        <4>2. n # N
          BY <1>3, <1>8, <3>2, <4>1
        <4> QED
          BY <1>1, <1>3, <4>2
      <3> QED
        BY <1>10, <3>1, <3>2
    <2>3. history_num' = N - 0 /\ history_first' = Wrap(history_first + 0) /\ 0 \in 0 .. HistorySize
          /\ 0 <= (N - n) + num
      BY <1>3, <1>8, <2>1, SizeAssumption DEF Wrap, Index
    <2> QED
      BY <1>1, <1>2, <1>3, <1>4, <1>5, <1>6, <1>7, <2>2, <2>3, DrainPassed
  <1> QED
    BY <1>9, <1>10

\* A value is taken: at the head the slot goes, elsewhere it becomes a hole.
LEMMA DrainTake ==
  ASSUME BaseInv, DrainInv, Scanning(Main), NEW h, Take(Main, h), UNCHANGED pc,
         NEW N \in 1 .. HistorySize, NEW n \in 1 .. N, NEW m \in Nat \ {0},
         history_num = N, reg.n = n, reg.f = At(N - n), (N - n) + m <= HistorySize,
         N - n \in 0 .. HistorySize - 1, Advance(m), h \in [Index -> Slot],
         SlotsFit(h, 0, N),
         Server => itemids' = BatchItems(Main)'
  PROVE  DrainInv'
  <1>1. DrainTypes
    BY DEF DrainInv, Scanning
  <1>2. reg' = [reg EXCEPT !.n = n - m, !.f = Wrap(reg.f + m), !.num = 0]
    BY DEF Advance
  <1>3. batch'[Main] # {}
    <2>1. \E u : batch' = [batch EXCEPT ![Main] = @ \cup {u}]
      BY DEF Take
    <2>2. Main \in SyncProcs /\ batch = [s \in SyncProcs |-> batch[s]]
      BY DEF SyncProcs, BaseInv
    <2> QED
      BY <2>1, <2>2
  <1>4. CASE reg.f = history_first
    <2>1. history' = h /\ history_num' = N - 1 /\ history_first' = Wrap(history_first + 1)
      BY <1>4 DEF Take, DropHead
    <2>2. 1 \in 0 .. HistorySize /\ 1 <= (N - n) + m
      BY SizeAssumption
    <2>3. SlotsFit(history', 1, N)
      <3>1. \A p \in 0 .. N - 1 : p >= 0
        OBVIOUS
      <3> QED
        BY <2>1, <3>1 DEF SlotsFit
    <2> QED
      BY <1>2, <1>3, <2>1, <2>2, <2>3, DrainPassed
  <1>5. CASE reg.f # history_first
    <2>1. history' = [h EXCEPT ![reg.f] = Hole(@)] /\ UNCHANGED <<history_first, history_num>>
      BY <1>5 DEF Take
    <2>2. HistorySize \in Nat \ {0} /\ history_first \in Index
      BY <1>1, SizeAssumption DEF DrainTypes
    <2>3. /\ history_num' = N - 0 /\ history_first' = Wrap(history_first + 0) /\ 0 \in 0 .. HistorySize
          /\ 0 <= (N - n) + m
      BY <2>1, <2>2 DEF Wrap, Index
    <2>4. reg.f \in Index
      BY <2>2, AtIndex
    <2>5. h[reg.f] \in Slot
      BY <2>4
    <2>6. Hole(h[reg.f]) \in Slot /\ Hole(h[reg.f]).num = 1
      BY <2>5 DEF Hole, Slot
    <2>7. history' \in [Index -> Slot]
      BY <2>1, <2>4, <2>6
    <2>8. ASSUME NEW p \in 0 .. N - 1
          PROVE  history'[At(p)].num >= 1 /\ p + history'[At(p)].num <= HistorySize
      <3>1. At(p) \in Index /\ p + 1 <= HistorySize
        BY <2>2, AtIndex
      <3>2. CASE At(p) = reg.f
        <4>1. history'[At(p)].num = 1
          BY <2>1, <2>4, <2>6, <3>2
        <4> QED
          BY <3>1, <4>1
      <3>3. CASE At(p) # reg.f
        <4>1. history'[At(p)] = h[At(p)]
          BY <2>1, <3>1, <3>3
        <4>2. p >= 0
          OBVIOUS
        <4> QED
          BY <4>1, <4>2 DEF SlotsFit
      <3> QED
        BY <3>2, <3>3
    <2>9. SlotsFit(history', 0, N)
      BY <2>8 DEF SlotsFit
    <2> QED
      BY <1>2, <1>3, <2>3, <2>7, <2>9, DrainPassed
  <1> QED
    BY <1>4, <1>5

LEMMA DrainVisitTake ==
  ASSUME BaseInv, DrainInv, VisitTake(Main) \/ ProxyTake(Main)
  PROVE  DrainInv'
  <1>1. Scanning(Main) /\ UNCHANGED pc /\ pc[Main] = "scan"
    BY DEF VisitTake, ProxyTake, RunFound, Scanning
  <1>2. /\ DrainTypes /\ SlotBounds
        /\ Server => itemids = BatchItems(Main)
    BY <1>1 DEF DrainInv
  <1>3. PICK N \in 1 .. HistorySize, n \in 1 .. HistorySize, num \in Nat :
              /\ history_num = N /\ reg.n = n /\ reg.num = num /\ n <= N
              /\ reg.f = At(N - n) /\ N - n \in 0 .. HistorySize - 1
              /\ (N - n) + num <= HistorySize
              /\ ~RunGrows => num # 0
    BY <1>1, DrainScan
  <1>4. n \in 1 .. N
    BY <1>3
  <1>5. CASE VisitTake(Main)
    <2>1. /\ ~RunGrows /\ Take(Main, SkipItems(history)) /\ Advance(num)
          /\ itemids' = itemids \cup {history[reg.f].itemid} /\ Server
      BY <1>3, <1>5 DEF VisitTake, RunFound, Mark
    <2>2. num \in Nat \ {0}
      BY <1>3, <2>1
    <2>3. /\ SkipItems(history) \in [Index -> Slot]
          /\ SlotsFit(SkipItems(history), 0, N)
      BY <1>2, <1>3, <1>4, <2>2, DrainNoted
    <2>4. itemids' = BatchItems(Main)'
      <3> DEFINE u == [itemid |-> history[reg.f].itemid, val |-> history[reg.f].val]
      <3>1. batch' = [batch EXCEPT ![Main] = @ \cup {u}]
        BY <2>1 DEF Take
      <3>2. batch'[Main] = batch[Main] \cup {u}
        BY <3>1 DEF SyncProcs, BaseInv
      <3>3. u.itemid = history[reg.f].itemid
        OBVIOUS
      <3> HIDE DEF u
      <3>4. BatchItems(Main)' = BatchItems(Main) \cup {u.itemid}
        BY <3>2 DEF BatchItems
      <3> QED
        BY <1>2, <2>1, <3>3, <3>4
    <2> QED
      BY <1>1, <1>3, <1>4, <2>1, <2>2, <2>3, <2>4, DrainTake
  <1>6. CASE ProxyTake(Main)
    <2>1. Take(Main, history) /\ Advance(1) /\ ~Server
      BY <1>6 DEF ProxyTake
    <2>2. (N - n) + 1 <= HistorySize /\ 1 \in Nat \ {0}
      BY <1>3, SizeAssumption
    <2>3. SlotsFit(history, 0, N)
      BY <1>2, <1>3 DEF SlotBounds, SlotsFit
    <2> QED
      BY <1>1, <1>2, <1>3, <1>4, <2>1, <2>2, <2>3, DrainTake DEF DrainTypes
  <1> QED
    BY <1>5, <1>6

\* The steps that leave the ring as it is, or take the tail off it.
LEMMA DrainRound ==
  ASSUME BaseInv, DrainInv, pc[Main] # "idle",
         \/ Collect(Main) \/ ScanDone(Main) \/ TrimStep(Main) \/ TrimDone(Main)
         \/ Commit(Main) \/ Release(Main) \/ SyncFull
  PROVE  DrainInv'
  <1>0. HistorySize \in Nat \ {0} /\ SyncMax \in Nat \ {0}
    BY SizeAssumption
  <1>1. /\ DrainTypes /\ SlotBounds
        /\ Main \in SyncProcs /\ Main \in Procs
        /\ pc = [p \in Procs |-> pc[p]] /\ batch = [s \in SyncProcs |-> batch[s]]
    BY DEF DrainInv, BaseInv, SyncProcs, Procs
  <1>2. PICK N \in Int : history_num = N /\ N <= HistorySize
    BY <1>1 DEF DrainTypes
  <1>3. CASE TrimStep(Main)
    <2>1. /\ pc[Main] = "trim" /\ N > 0 /\ history_num' = N - 1
          /\ UNCHANGED <<history, history_first, itemids, reg, pc, batch>>
      BY <1>2, <1>3 DEF TrimStep, TailGap, sync
    <2>2. N - 1 \in Int /\ N - 1 <= HistorySize
      BY <1>0, <1>2
    <2>3. DrainTypes'
      BY <1>1, <2>1, <2>2 DEF DrainTypes
    <2>4. \A p : At(p)' = At(p)
      BY <2>1 DEF At
    <2>5. SlotBounds'
      BY <1>1, <1>2, <2>1, <2>4 DEF SlotBounds
    <2>6. batch[Main] # {} /\ (Server => itemids = BatchItems(Main))
      BY <1>2, <2>1 DEF DrainInv
    <2>7. BatchItems(Main)' = BatchItems(Main)
      BY <2>1 DEF BatchItems
    <2> QED
      BY <2>1, <2>3, <2>5, <2>6, <2>7 DEF DrainInv
  <1>4. CASE Collect(Main)
    <2>1. /\ pc[Main] = "collect" /\ pc' = [pc EXCEPT ![Main] = "scan"]
          /\ batch' = [batch EXCEPT ![Main] = {}]
          /\ reg' = [Regs0 EXCEPT !.n = N, !.f = history_first]
          /\ UNCHANGED <<history, history_first, history_num, itemids>>
      BY <1>2, <1>4 DEF Collect, Goto, ring
    <2>2. pc'[Main] = "scan" /\ batch'[Main] = {} /\ batch[Main] = {}
          /\ (Server => itemids = BatchItems(Main))
      BY <1>1, <2>1 DEF DrainInv
    <2>3. BatchItems(Main)' = BatchItems(Main)
      BY <2>2 DEF BatchItems
    <2>4. history_first \in Int /\ 0 \in Nat /\ 0 \in Int
      BY <1>1 DEF DrainTypes, Index
    <2>5. /\ reg'.n = N /\ reg'.f = history_first /\ reg'.num = 0
          /\ reg' \in [n : Int, f : Int, num : Nat, gap : Int, data : Int]
      BY <1>2, <2>1, <2>4 DEF Regs0
    <2>6. DrainTypes'
      BY <1>1, <2>1, <2>5 DEF DrainTypes
    <2>7. SlotBounds'
      BY <1>1, <2>1, BoundsSame
    <2>8. At(0) = history_first
      BY <1>1, AtIndex DEF DrainTypes
    <2>9. At(history_num - reg.n)' = At(N - N)
      BY <1>2, <2>1, <2>5 DEF At
    <2>10. N - N = 0 /\ 0 + 0 <= HistorySize /\ N <= N
      BY <1>0, <1>2
    <2>11. (history_num' - reg'.n) + reg'.num = 0 + 0
      BY <1>2, <2>1, <2>5, <2>10
    <2> QED
      BY <1>2, <2>1, <2>2, <2>3, <2>5, <2>6, <2>7, <2>8, <2>9, <2>10, <2>11 DEF DrainInv
  <1>5. CASE ~TrimStep(Main) /\ ~Collect(Main)
    <2>1. UNCHANGED <<history, history_first, history_num>> /\ (reg' = reg \/ reg' = Regs0)
      BY <1>5 DEF ScanDone, TrimDone, Commit, Release, SyncFull, ring
    <2>2. DrainTypes'
      <3>1. Regs0 \in [n : Int, f : Int, num : Nat, gap : Int, data : Int]
        BY DEF Regs0
      <3>2. reg' \in [n : Int, f : Int, num : Nat, gap : Int, data : Int]
        BY <1>1, <2>1, <3>1 DEF DrainTypes
      <3> QED
        BY <1>1, <2>1, <3>2 DEF DrainTypes
    <2>3. SlotBounds'
      BY <1>1, <2>1, BoundsSame
    <2>4. CASE ScanDone(Main)
      <3>1. /\ pc[Main] = "scan" /\ pc' = [pc EXCEPT ![Main] = "trim"]
            /\ reg.n <= 0 \/ Cardinality(batch[Main]) = SyncMax
            /\ UNCHANGED <<itemids, batch>>
        BY <2>4 DEF ScanDone, Goto, sync
      <3>2. pc'[Main] = "trim" /\ (Server => itemids = BatchItems(Main))
            /\ (batch[Main] = {} => reg.n = history_num)
        BY <1>1, <3>1 DEF DrainInv
      <3>3. Cardinality({}) = 0
        BY FS_EmptySet
      <3>4. batch[Main] = {} => history_num <= 0
        BY <1>0, <3>1, <3>2, <3>3
      <3>5. BatchItems(Main)' = BatchItems(Main)
        BY <3>1 DEF BatchItems
      <3> QED
        BY <2>1, <2>2, <2>3, <3>1, <3>2, <3>4, <3>5 DEF DrainInv
    <2>5. CASE TrimDone(Main)
      <3>1. /\ pc[Main] = "trim" /\ UNCHANGED <<itemids, batch>>
            /\ pc' = [pc EXCEPT ![Main] = IF batch[Main] = {} THEN "done" ELSE "db"]
        BY <2>5 DEF TrimDone, Return, Goto, sync
      <3>2. pc'[Main] = IF batch[Main] = {} THEN "done" ELSE "db"
        BY <1>1, <3>1
      <3>3. (Server => itemids = BatchItems(Main)) /\ (batch[Main] = {} => history_num <= 0)
        BY <3>1 DEF DrainInv
      <3>4. BatchItems(Main)' = BatchItems(Main)
        BY <3>1 DEF BatchItems
      <3> QED
        BY <2>1, <2>2, <2>3, <3>1, <3>2, <3>3, <3>4 DEF DrainInv
    <2>6. CASE Commit(Main)
      <3>1. pc[Main] = "db" /\ UNCHANGED <<itemids, batch>> /\ pc' = [pc EXCEPT ![Main] = "release"]
        BY <2>6 DEF Commit, Goto, sync
      <3>2. pc'[Main] = "release" /\ (Server => itemids = BatchItems(Main))
        BY <1>1, <3>1 DEF DrainInv
      <3>3. BatchItems(Main)' = BatchItems(Main)
        BY <3>1 DEF BatchItems
      <3> QED
        BY <2>2, <2>3, <3>1, <3>2, <3>3 DEF DrainInv
    <2>7. CASE Release(Main)
      <3>1. /\ pc[Main] = "release" /\ itemids' = itemids \ BatchItems(Main)
            /\ batch' = [batch EXCEPT ![Main] = {}] /\ pc' = [pc EXCEPT ![Main] = "collect"]
        BY <2>7 DEF Release, Unmark, Continue, Goto
      <3>2. pc'[Main] = "collect" /\ batch'[Main] = {} /\ (Server => itemids = BatchItems(Main))
        BY <1>1, <3>1 DEF DrainInv
      <3>3. BatchItems(Main)' = {}
        BY <3>2 DEF BatchItems
      <3> QED
        BY <2>2, <2>3, <3>1, <3>2, <3>3 DEF DrainInv
    <2>8. CASE SyncFull
      <3>1. /\ pc[Main] = "exit" /\ itemids' = {} /\ UNCHANGED batch
            /\ pc' = [pc EXCEPT ![Main] = IF history_num = 0 THEN "done" ELSE "collect"]
        BY <2>8 DEF SyncFull, Goto, sync
      <3>2. pc'[Main] = (IF history_num = 0 THEN "done" ELSE "collect") /\ batch[Main] = {}
        BY <1>1, <3>1 DEF BaseInv, HeldInv
      <3>3. BatchItems(Main)' = {}
        BY <3>1, <3>2 DEF BatchItems
      <3> QED
        BY <1>0, <2>1, <2>2, <2>3, <3>1, <3>2, <3>3 DEF DrainInv
    <2> QED
      BY <1>5, <2>4, <2>5, <2>6, <2>7, <2>8
  <1> QED
    BY <1>3, <1>4, <1>5

\* When the daemon is stopped nothing of the ring is torn yet.
LEMMA DrainBegins ==
  ASSUME BaseInv, RingInv, VacBounds, Terminate
  PROVE  DrainInv'
  <1>1. /\ UNCHANGED <<history, history_first, history_num>>
        /\ reg' = Regs0 /\ pc' = [p \in Procs |-> IF p = Main THEN "exit" ELSE "dead"]
    BY DEF Terminate, ring
  <1>2. SlotBounds
    BY PlainBounds DEF VacBounds
  <1>3. SlotBounds'
    BY <1>1, <1>2, BoundsSame
  <1>4. Regs0 \in [n : Int, f : Int, num : Nat, gap : Int, data : Int]
    BY DEF Regs0
  <1>5. DrainTypes'
    BY <1>1, <1>4 DEF RingInv, RingTypes, DrainTypes
  <1>6. pc'[Main] = "exit"
    BY <1>1 DEF Procs, SyncProcs
  <1> QED
    BY <1>3, <1>5, <1>6 DEF DrainInv

LEMMA DrainNext ==
  ASSUME BaseInv, BaseInv', DrainInv, torn \/ (RingInv /\ VacBounds), [Next]_vars
  PROVE  DrainInv'
  <1>0. /\ Main \in SyncProcs /\ Writers \subseteq Procs /\ SyncProcs \subseteq Procs /\ Main \notin Writers
    BY ProcsAssumption DEF Procs, SyncProcs
  <1>1. CASE Terminate
    <2>1. ~torn
      BY <1>1 DEF Terminate, BaseInv, LockInv
    <2> QED
      BY <1>1, <2>1, DrainBegins
  <1>2. CASE UNCHANGED vars \/ Stopped
    <2>1. UNCHANGED <<history, history_first, history_num, itemids, reg, pc, batch>>
      BY <1>2 DEF Stopped, vars, ring, sync
    <2>2. \A p : At(p)' = At(p)
      BY <2>1 DEF At
    <2>3. BatchItems(Main)' = BatchItems(Main) /\ At(history_num - reg.n)' = At(history_num - reg.n)
      BY <2>1 DEF BatchItems, At
    <2>4. SlotBounds' <=> SlotBounds
      BY <2>1, <2>2 DEF SlotBounds
    <2>5. DrainTypes' <=> DrainTypes
      BY <2>1 DEF DrainTypes
    <2> QED
      BY <2>1, <2>3, <2>4, <2>5 DEF DrainInv
  <1>3. CASE pc[Main] = "idle" /\ ~Terminate /\ ~UNCHANGED vars /\ ~Stopped
    <2>1. \/ \E w \in Writers : \/ \E i \in Items : dc_add_history(w, i)
                                \/ dc_flush_history(w) \/ Retry(w) \/ Fill(w)
          \/ \E s \in SyncProcs : SyncIdle(s) \/ Collect(s) \/ Drain(s) \/ Release(s)
      BY <1>3 DEF Next, SyncFull
    <2>2. pc'[Main] = "idle"
      <3>1. CASE \E w \in Writers : \/ \E i \in Items : dc_add_history(w, i)
                                    \/ dc_flush_history(w) \/ Retry(w) \/ Fill(w)
        <4>1. PICK w \in Writers : \/ \E i \in Items : dc_add_history(w, i)
                                   \/ dc_flush_history(w) \/ Retry(w) \/ Fill(w)
          BY <3>1
        <4>2. \/ UNCHANGED pc
              \/ \E l : pc' = [pc EXCEPT ![w] = l]
          BY <4>1 DEF dc_add_history, dc_flush_history, Retry, Fill, TextFull, VacTextStep,
             VacTextDone, RingFull, VacuumStep, VacuumDone, DCadd_history, FlushDone, Sleep, Goto
        <4>3. w # Main
          BY <1>0
        <4> QED
          BY <1>0, <1>3, <4>2, <4>3 DEF BaseInv
      <3>2. CASE \E s \in SyncProcs : SyncIdle(s) \/ Collect(s) \/ Drain(s) \/ Release(s)
        <4>1. PICK s \in SyncProcs : SyncIdle(s) \/ Collect(s) \/ Drain(s) \/ Release(s)
          BY <3>2
        <4>2. s # Main
          BY <1>3, <4>1, ProcsAssumption
             DEF SyncIdle, Collect, Drain, Release, SyncStart, SkipStep, VisitGap, VisitBusy, VisitTake,
                 ProxyTake, ScanDone, TrimStep, TrimDone, Commit, RunFound, Scanning
        <4>3. \/ UNCHANGED pc
              \/ \E l : pc' = [pc EXCEPT ![s] = l]
          BY <4>1 DEF SyncIdle, Collect, Drain, Release, SyncStart, SkipStep, VisitGap, VisitBusy,
             VisitTake, ProxyTake, ScanDone, TrimStep, TrimDone, Commit, Continue, Return, Goto, vars
        <4> QED
          BY <1>0, <1>3, <4>2, <4>3 DEF BaseInv
      <3> QED
        BY <2>1, <3>1, <3>2
    <2> QED
      BY <2>2 DEF DrainInv
  <1>4. CASE pc[Main] # "idle" /\ ~UNCHANGED vars /\ ~Stopped
    <2>1. \A p \in Procs : p # Main => pc[p] = "dead"
      BY <1>4 DEF BaseInv, LockInv
    <2>2. ASSUME NEW w \in Writers PROVE ~(\/ \E i \in Items : dc_add_history(w, i)
                                           \/ dc_flush_history(w) \/ Retry(w) \/ Fill(w))
      <3>1. pc[w] = "dead"
        BY <1>0, <2>1
      <3> QED
        BY <3>1 DEF dc_add_history, dc_flush_history, Retry, Fill, TextFull, VacTextStep,
           VacTextDone, RingFull, VacuumStep, VacuumDone, DCadd_history, FlushDone
    <2>3. ASSUME NEW s \in SyncProcs, s # Main
          PROVE  ~(SyncIdle(s) \/ Collect(s) \/ Drain(s) \/ Release(s))
      <3>1. pc[s] = "dead"
        BY <1>0, <2>1, <2>3
      <3> QED
        BY <3>1 DEF SyncIdle, Collect, Drain, Release, SyncStart, SkipStep, VisitGap, VisitBusy,
           VisitTake, ProxyTake, ScanDone, TrimStep, TrimDone, Commit, RunFound, Scanning
    <2>4. ~Terminate /\ ~SyncIdle(Main) /\ ~SyncStart(Main)
      BY <1>4 DEF Terminate, SyncIdle, SyncStart
    <2>5. SyncFull \/ Collect(Main) \/ Drain(Main) \/ Release(Main)
      BY <1>4, <2>2, <2>3, <2>4 DEF Next
    <2>6. \/ Collect(Main) \/ ScanDone(Main) \/ TrimStep(Main) \/ TrimDone(Main)
          \/ Commit(Main) \/ Release(Main) \/ SyncFull
          \/ SkipStep(Main) \/ VisitGap(Main) \/ VisitBusy(Main) \/ VisitTake(Main) \/ ProxyTake(Main)
      BY <2>4, <2>5 DEF Drain
    <2> QED
      BY <1>4, <2>6, DrainRound, DrainSkipStep, DrainVisit, DrainVisitTake
  <1> QED
    BY <1>1, <1>2, <1>3, <1>4

LEMMA DrainInit == Init => VacBounds /\ DrainInv
  BY DEF Init, VacBounds, Vacuuming, DrainInv, Procs, SyncProcs

\* The parent ends only when the ring is empty, whatever the processes that were stopped
\* were in the middle of, a compaction of the ring among it.
THEOREM ParentDrains == Spec => []FullDrain
  <1> DEFINE Inv == BaseInv /\ (torn \/ (RingInv /\ VacBounds)) /\ DrainInv
  <1>1. Init => Inv
    BY BaseInit, RingInit, DrainInit
  <1>2. Inv /\ [Next]_vars => Inv'
    BY BaseNext, TornStays, RingNext, BoundsNext, DrainNext
  <1>3. Inv => FullDrain
    BY DEF DrainInv, FullDrain
  <1> QED
    BY <1>1, <1>2, <1>3, PTL DEF Spec
================================================================================
