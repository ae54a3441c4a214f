----------------------------- MODULE HistoryCache -----------------------------
(***************************************************************************)
(* The history cache of the server and of the proxy: a ring of item values *)
(* in shared memory (ZBX_DC_CACHE.history) that the data gatherers fill    *)
(* with dc_add_history / dc_flush_history and the history syncers drain    *)
(* into the database with DCsync_history.                                  *)
(*                                                                         *)
(* One action is one iteration of a loop of the C code, taken with the     *)
(* cache mutex held; `reg' holds the loop registers of the mutex holder.   *)
(* A value is the pair of its item and of its number among the values of   *)
(* that item; its payload is left out, the text it occupies in the text    *)
(* buffer is kept.                                                         *)
(***************************************************************************)
EXTENDS Integers, FiniteSets, Sequences

CONSTANTS
  Items,        \* the items values are gathered for
  Gap,          \* itemid 0: the slot is a hole in the ring
  Writers,      \* pollers, trappers, pingers: the callers of dc_add_history
  Syncers,      \* the history syncers (CONFIG_HISTSYNCER_FORKS of them)
  Main,         \* the parent process, which syncs everything on exit
  Nobody,       \* no process holds the cache mutex
  Server,       \* TRUE: ZBX_DAEMON_TYPE_SERVER, FALSE: a proxy
  Stoppable,    \* FALSE: the daemon is never told to stop
  TxnFails,     \* FALSE: no statement of a transaction ever fails
  HistorySize,  \* ZBX_HISTORY_SIZE
  SyncMax,      \* ZBX_SYNC_MAX
  MaxLocal,     \* ZBX_MAX_VALUES_LOCAL
  TextSize,     \* CONFIG_TEXT_CACHE_SIZE
  TextLen,      \* bytes of text of a value of each item (0: numeric)
  MaxGathered   \* bound of the model: values gathered in all

ASSUME ItemsAssumption == Gap \notin Items
ASSUME ProcsAssumption ==
  /\ Writers \cap Syncers = {}
  /\ Main \notin Writers \cup Syncers
  /\ Nobody \notin Writers \cup Syncers \cup {Main}
ASSUME ModeAssumption == {Server, Stoppable, TxnFails} \subseteq BOOLEAN
ASSUME SizeAssumption ==
  /\ HistorySize \in Nat \ {0}
  /\ SyncMax \in 1 .. HistorySize
  /\ MaxLocal \in Nat \ {0}
  /\ TextSize \in Nat
  /\ MaxGathered \in Nat
ASSUME TextAssumption == TextLen \in [Items -> 0 .. TextSize]

VARIABLES
  history,          \* the slots of the ring
  history_first,    \* index of the oldest slot
  history_num,      \* slots in use, the holes among them included
  history_gap_num,  \* holes
  itemids,          \* items being processed by some syncer
  text,             \* the bytes of the text buffer: whose text each one is
  last_text,        \* end of the used part of the text buffer
  text_free,        \* bytes not owned by a value of the ring
  cache_lock,       \* holder of the cache mutex
  reg,              \* loop registers of the holder
  pc,               \* where each process is
  local,            \* item_values of each writer, not yet in the cache
  batch,            \* the syncers' private copies: values being written
  syncs, skipped,   \* the syncers' loop control
  gathered,         \* number of values gathered so far
  added,            \* number of values each item has put into the cache
  db,               \* values in the database, per item
  lost,             \* values whose transaction was rolled back, per item
  torn,             \* a process was stopped inside DCvacuum_history
  cut               \* a syncer was stopped while it dropped the holes at the tail

ring    == <<history, history_first, history_num, history_gap_num>>
textbuf == <<text, last_text, text_free>>
sync    == <<batch, syncs, skipped>>
ghost   == <<gathered, added, db, lost, torn, cut>>
vars    == <<ring, itemids, textbuf, cache_lock, reg, pc, local, sync, ghost>>

SyncProcs == Syncers \cup {Main}
Procs     == Writers \cup SyncProcs
Index     == 0 .. HistorySize - 1

Value == [itemid : Items, val : Nat]
Slot  == [itemid : Items \cup {Gap}, num : Nat, val : Nat, txt : Nat, len : Nat]

Regs0 == [n |-> 0, f |-> 0, num |-> 0, gap |-> 0, data |-> 0]

\* `if (ZBX_HISTORY_SIZE <= f) f -= ZBX_HISTORY_SIZE'
Wrap(f) == IF HistorySize <= f THEN f - HistorySize ELSE f

\* Index of the slot at distance p from the oldest one.
At(p) == Wrap(history_first + p)

\* The k oldest slots leave the ring.
DropHead(k) ==
  /\ history_num' = history_num - k
  /\ history_first' = Wrap(history_first + k)

\* The same when all of them are holes.
DropHoles(k) == DropHead(k) /\ history_gap_num' = history_gap_num - k
--------------------------------------------------------------------------------
\* init_database_cache: an empty ring in fresh shared memory.
Init ==
  /\ history = [f \in Index |->
                  [itemid |-> Gap, num |-> 0, val |-> 0, txt |-> 0, len |-> 0]]
  /\ history_first = 0
  /\ history_num = 0
  /\ history_gap_num = 0
  /\ itemids = {}
  /\ text = [c \in 0 .. TextSize - 1 |-> <<Gap, 0>>]
  /\ last_text = 0
  /\ text_free = TextSize
  /\ cache_lock = Nobody
  /\ reg = Regs0
  /\ pc = [p \in Procs |-> "idle"]
  /\ local = [w \in Writers |-> <<>>]
  /\ batch = [s \in SyncProcs |-> {}]
  /\ syncs = [s \in SyncProcs |-> 0]
  /\ skipped = [s \in SyncProcs |-> FALSE]
  /\ gathered = 0
  /\ added = [i \in Items |-> 0]
  /\ db = [i \in Items |-> {}]
  /\ lost = [i \in Items |-> {}]
  /\ torn = FALSE /\ cut = FALSE

Goto(p, label) == pc' = [pc EXCEPT ![p] = label]
Lock(p)   == cache_lock = Nobody /\ cache_lock' = p
Unlock(p) == cache_lock = p /\ cache_lock' = Nobody
--------------------------------------------------------------------------------
(***************************************************************************)
(* The writers.                                                            *)
(***************************************************************************)

\* dc_add_history, dc_local_add_history_*: keep a value in the process' own
\* array; a full array has to be flushed first (dc_local_get_history_slot).
dc_add_history(w, i) ==
  /\ pc[w] = "idle"
  /\ Len(local[w]) < MaxLocal
  /\ gathered < MaxGathered
  /\ gathered' = gathered + 1
  /\ local' = [local EXCEPT ![w] = Append(@, i)]
  /\ UNCHANGED <<ring, itemids, textbuf, cache_lock, reg, pc, sync, added, db, lost, torn, cut>>

\* dc_flush_history: LOCK_CACHE and start to copy the private array.
dc_flush_history(w) ==
  /\ pc[w] = "idle" /\ local[w] # <<>>
  /\ Lock(w)
  /\ Goto(w, "add")
  /\ UNCHANGED <<ring, itemids, textbuf, reg, local, sync, ghost>>

\* The sleep of DCget_history_ptr: no room, so give the mutex up for a while;
\* the writer retries the same value when it gets the mutex back.
Sleep(w) == Unlock(w) /\ Goto(w, "sleep") /\ reg' = Regs0

Retry(w) ==
  /\ pc[w] = "sleep"
  /\ Lock(w)
  /\ Goto(w, "add")
  /\ UNCHANGED <<ring, itemids, textbuf, reg, local, sync, ghost>>

\* DCget_history_ptr with no slot left: compact the ring if it has enough
\* holes (DCvacuum_history returns at once when they are 1% or less), sleep
\* otherwise.
RingFull(w) ==
  /\ pc[w] = "add" /\ cache_lock = w /\ local[w] # <<>>
  /\ history_num = HistorySize
  /\ IF HistorySize \div 100 >= history_gap_num
     THEN Sleep(w)
     ELSE /\ Goto(w, "vacuum")
          /\ reg' = [Regs0 EXCEPT !.n = history_num]
          /\ UNCHANGED cache_lock
  /\ UNCHANGED <<ring, itemids, textbuf, local, sync, ghost>>

\* memmove of cnt slots from src to dst.
Memmove(h, dst, src, cnt) ==
  [f \in DOMAIN h |-> IF dst <= f /\ f < dst + cnt THEN h[src + (f - dst)] ELSE h[f]]

\* Mutant of MoveInTwo: the parts are moved in the wrong order.
MoveInTwoSwapped(h, dst, src, n1, n2) ==
  Memmove(Memmove(h, dst, src, n1), 0, src + n1, n2)

\* The part of a block that comes to lie at the beginning of the array is moved
\* first: the other part overwrites it.
MoveInTwo(h, dst, src, n1, n2) ==
  Memmove(Memmove(h, 0, src + n1, n2), dst, src, n1)

\* DCmove_history: move the block of n_data slots at src up by n_gap slots;
\* a block that would cross the end of the array is moved in two parts.
DCmove_history(h, src, n_data, n_gap) ==
  LET dst == src + n_gap
      n_data2 == dst + n_data - HistorySize
  IN  IF HistorySize <= dst \/ HistorySize >= dst + n_data
      THEN Memmove(h, Wrap(dst), src, n_data)
      ELSE MoveInTwo(h, dst, src, n_data - n_data2, n_data2)

\* One iteration of the loop of DCvacuum_history, from the newest slot down:
\* a hole ends the block of values above it, which moves up over the holes
\* seen so far; a block also ends where the array begins.
VacuumStep(w) ==
  LET f == At(reg.n - 1)
  IN  /\ pc[w] = "vacuum" /\ cache_lock = w
      /\ reg.n > 0
      /\ \/ /\ history[f].itemid = Gap
            /\ history' = IF reg.data = 0 THEN history
                          ELSE DCmove_history(history, f + 1, reg.data, reg.gap)
            /\ reg' = [reg EXCEPT !.n = @ - 1, !.gap = @ + 1, !.data = 0]
         \/ /\ history[f].itemid # Gap
            /\ reg.gap = 0
            /\ reg' = [reg EXCEPT !.n = @ - 1]
            /\ UNCHANGED history
         \/ /\ history[f].itemid # Gap
            /\ reg.gap # 0
            /\ IF f = 0
               THEN /\ history' = DCmove_history(history, 0, reg.data + 1, reg.gap)
                    /\ reg' = [reg EXCEPT !.n = @ - 1, !.data = 0]
               ELSE /\ reg' = [reg EXCEPT !.n = @ - 1, !.data = @ + 1]
                    /\ UNCHANGED history
      /\ UNCHANGED <<history_first, history_num, history_gap_num, itemids, textbuf,
                     cache_lock, pc, local, sync, ghost>>

\* The end of DCvacuum_history and the second check of DCget_history_ptr.
VacuumDone(w) ==
  /\ pc[w] = "vacuum" /\ cache_lock = w
  /\ reg.n = 0
  /\ history' = IF reg.data = 0 THEN history
                ELSE DCmove_history(history, history_first, reg.data, reg.gap)
  /\ DropHoles(reg.gap)
  /\ IF history_num' = HistorySize
     THEN Sleep(w)
     ELSE Goto(w, "add") /\ reg' = Regs0 /\ UNCHANGED cache_lock
  /\ UNCHANGED <<itemids, textbuf, local, sync, ghost>>

\* Mutant of WorthVacuumText: the test is the wrong way round.
WorthVacuumTextInverted == TextSize \div 1024 >= text_free

\* DCvacuum_text returns at once when there is next to nothing to win.
WorthVacuumText == TextSize \div 1024 < text_free

\* DCget_history_ptr with a slot but no room for the text: compact the text
\* buffer, or sleep.
TextFull(w) ==
  /\ pc[w] = "add" /\ cache_lock = w /\ local[w] # <<>>
  /\ history_num < HistorySize
  /\ TextLen[Head(local[w])] > TextSize - last_text
  /\ IF WorthVacuumText
     THEN /\ Goto(w, "vactext")
          /\ reg' = [Regs0 EXCEPT !.n = history_num, !.f = history_first]
          /\ last_text' = 0
          /\ UNCHANGED cache_lock
     ELSE Sleep(w) /\ UNCHANGED last_text
  /\ UNCHANGED <<ring, itemids, text, text_free, local, sync, ghost>>

\* DCmove_text makes the slot point to where its text now is.
MovedText(slot) == [slot EXCEPT !.txt = IF slot.len = 0 THEN @ ELSE last_text]

\* DCmove_text on the slot the loop of DCvacuum_text has reached, from the
\* oldest one up. The loop does not look at itemid: the text of a value that
\* was taken stays in the buffer as long as its slot stays in the ring.
VacTextStep(w) ==
  LET slot == history[reg.f]
  IN  /\ pc[w] = "vactext" /\ cache_lock = w
      /\ reg.n > 0
      /\ text' = Memmove(text, last_text, slot.txt, slot.len)
      /\ history' = [history EXCEPT ![reg.f] = MovedText(slot)]
      /\ last_text' = last_text + slot.len
      /\ reg' = [reg EXCEPT !.n = @ - 1, !.f = Wrap(@ + 1)]
      /\ UNCHANGED <<history_first, history_num, history_gap_num, itemids, text_free,
                     cache_lock, pc, local, sync, ghost>>

VacTextDone(w) ==
  /\ pc[w] = "vactext" /\ cache_lock = w
  /\ reg.n = 0
  /\ IF TextLen[Head(local[w])] > TextSize - last_text
     THEN Sleep(w)
     ELSE Goto(w, "add") /\ reg' = Regs0 /\ UNCHANGED cache_lock
  /\ UNCHANGED <<ring, itemids, textbuf, local, sync, ghost>>

\* DCadd_history_*: the value goes into the slot after the newest one, its
\* text to the end of the text buffer.
DCadd_history(w) ==
  LET i   == Head(local[w])
      len == TextLen[i]
  IN  /\ pc[w] = "add" /\ cache_lock = w /\ local[w] # <<>>
      /\ history_num < HistorySize
      /\ len <= TextSize - last_text
      /\ history' = [history EXCEPT ![At(history_num)] =
                       [itemid |-> i, num |-> 1, val |-> added[i] + 1,
                        txt |-> last_text, len |-> len]]
      /\ history_num' = history_num + 1
      /\ text' = [c \in DOMAIN text |->
                    IF last_text <= c /\ c < last_text + len
                    THEN <<i, added[i] + 1>> ELSE text[c]]
      /\ last_text' = last_text + len
      /\ text_free' = text_free - len
      /\ added' = [added EXCEPT ![i] = @ + 1]
      /\ local' = [local EXCEPT ![w] = Tail(@)]
      /\ UNCHANGED <<history_first, history_gap_num, itemids, cache_lock, reg, pc,
                     sync, gathered, db, lost, torn, cut>>

\* The end of dc_flush_history.
FlushDone(w) ==
  /\ pc[w] = "add" /\ local[w] = <<>>
  /\ Unlock(w)
  /\ Goto(w, "idle")
  /\ UNCHANGED <<ring, itemids, textbuf, reg, local, sync, ghost>>
--------------------------------------------------------------------------------
(***************************************************************************)
(* The history syncers, and the parent process with ZBX_SYNC_FULL.         *)
(***************************************************************************)

\* DCsync_history, before the loop: the test of history_num and the computation
\* of syncs are done without the mutex.
SyncStart(s) ==
  /\ pc[s] = "idle" /\ s \in Syncers
  /\ history_num # 0
  /\ syncs' = [syncs EXCEPT ![s] = history_num \div SyncMax]
  /\ Goto(s, "collect")
  /\ UNCHANGED <<ring, itemids, textbuf, cache_lock, reg, local, batch, skipped, ghost>>

\* main_dbsyncer_loop with nothing in the cache: sleep.
SyncIdle(s) ==
  /\ pc[s] = "idle" /\ s \in Syncers
  /\ history_num = 0
  /\ UNCHANGED vars

\* The head of the do loop: LOCK_CACHE and start at the oldest slot.
Collect(s) ==
  /\ pc[s] = "collect"
  /\ Lock(s)
  /\ batch' = [batch EXCEPT ![s] = {}]
  /\ skipped' = [skipped EXCEPT ![s] = FALSE]
  /\ reg' = [Regs0 EXCEPT !.n = history_num, !.f = history_first]
  /\ Goto(s, "scan")
  /\ UNCHANGED <<ring, itemids, textbuf, local, syncs, ghost>>

\* The for loop goes on: 0 < n && ZBX_SYNC_MAX > history_num.
Scanning(s) ==
  /\ pc[s] = "scan" /\ cache_lock = s
  /\ reg.n > 0 /\ Cardinality(batch[s]) < SyncMax

\* DCskip_items: the run of slots of one item that starts at reg.f can be
\* extended by the run that follows it.
RunGrows ==
  /\ 0 < reg.n - reg.num
  /\ history[Wrap(reg.f + reg.num)].itemid = history[reg.f].itemid

SkipStep(s) ==
  /\ Scanning(s) /\ Server
  /\ RunGrows
  /\ reg' = [reg EXCEPT !.num = @ + history[Wrap(reg.f + @)].num]
  /\ UNCHANGED <<ring, itemids, textbuf, cache_lock, pc, local, sync, ghost>>

\* The end of DCskip_items: remember the length of the run in its first slot,
\* and in the second one, which becomes the first when the first is taken.
SkipItems(h) ==
  [f \in DOMAIN h |->
     IF f = reg.f THEN [h[f] EXCEPT !.num = reg.num]
     ELSE IF reg.num > 1 /\ f = Wrap(reg.f + 1) THEN [h[f] EXCEPT !.num = reg.num - 1]
     ELSE h[f]]

\* n -= num, f += num
Advance(num) ==
  reg' = [reg EXCEPT !.n = @ - num, !.f = Wrap(@ + num), !.num = 0]

RunFound(s) == Scanning(s) /\ Server /\ ~RunGrows

\* A run of holes: dropped at the head of the ring, stepped over elsewhere.
VisitGap(s) ==
  /\ RunFound(s)
  /\ history[reg.f].itemid = Gap
  /\ history' = SkipItems(history)
  /\ IF reg.f = history_first
     THEN DropHoles(reg.num)
     ELSE UNCHANGED <<history_first, history_num, history_gap_num>>
  /\ Advance(reg.num)
  /\ UNCHANGED <<itemids, textbuf, cache_lock, pc, local, sync, ghost>>

\* The item is being processed by a syncer (this one included).
Busy(i) == i \in itemids

\* A run of a busy item is stepped over.
VisitBusy(s) ==
  /\ RunFound(s)
  /\ Busy(history[reg.f].itemid)
  /\ history' = SkipItems(history)
  /\ skipped' = [skipped EXCEPT ![s] = TRUE]
  /\ Advance(reg.num)
  /\ UNCHANGED <<history_first, history_num, history_gap_num, itemids, textbuf, cache_lock,
                 pc, local, batch, syncs, ghost>>

\* Mutant of Hole: the length of the run is kept.
HoleKeepsNum(slot) == [slot EXCEPT !.itemid = Gap]

Hole(slot) == [slot EXCEPT !.itemid = Gap, !.num = 1]

\* Mutant of GiveBack: the text of a value that is taken is never given back.
GiveBackNothing(len) == UNCHANGED text_free

GiveBack(len) == text_free' = text_free + len

\* Copy slot reg.f of h into the batch and take it out of the ring: the head
\* of the ring moves, any other slot becomes a hole.
Take(s, h) ==
  LET slot == history[reg.f]
  IN  /\ batch' = [batch EXCEPT ![s] =
                     @ \cup {[itemid |-> slot.itemid, val |-> slot.val]}]
      /\ GiveBack(slot.len)
      /\ IF reg.f = history_first
         THEN /\ history' = h
              /\ DropHead(1)
              /\ UNCHANGED history_gap_num
         ELSE /\ history' = [h EXCEPT ![reg.f] = Hole(@)]
              /\ history_gap_num' = history_gap_num + 1
              /\ UNCHANGED <<history_first, history_num>>

\* Mutant of Mark: the item is not marked as being processed.
MarkNothing(i) == UNCHANGED itemids

\* uint64_array_add
Mark(i) == itemids' = itemids \cup {i}

\* The item is free: its oldest value is taken, the rest of the run is not.
VisitTake(s) ==
  LET i == history[reg.f].itemid
  IN  /\ RunFound(s)
      /\ i # Gap /\ ~Busy(i)
      /\ Mark(i)
      /\ skipped' = [skipped EXCEPT ![s] = @ \/ reg.num > 1]
      /\ Take(s, SkipItems(history))
      /\ Advance(reg.num)
      /\ UNCHANGED <<text, last_text, cache_lock, pc, local, syncs, ghost>>

\* A proxy takes the values one by one, whatever their item.
ProxyTake(s) ==
  /\ Scanning(s) /\ ~Server
  /\ Take(s, history)
  /\ Advance(1)
  /\ UNCHANGED <<itemids, text, last_text, cache_lock, pc, local, syncs, skipped, ghost>>

\* The for loop ends. n may be below 0: the length of a run of holes at the end of
\* the ring is too great when the syncer that dropped them was stopped.
ScanDone(s) ==
  /\ pc[s] = "scan" /\ cache_lock = s
  /\ reg.n <= 0 \/ Cardinality(batch[s]) = SyncMax
  /\ Goto(s, "trim")
  /\ reg' = Regs0
  /\ UNCHANGED <<ring, itemids, textbuf, cache_lock, local, sync, ghost>>

\* After the scan: drop the holes at the tail of the ring, one by one.
TailGap == history_num > 0 /\ history[At(history_num - 1)].itemid = Gap

TrimStep(s) ==
  /\ pc[s] = "trim" /\ cache_lock = s
  /\ TailGap
  /\ history_num' = history_num - 1
  /\ history_gap_num' = history_gap_num - 1
  /\ UNCHANGED <<history, history_first, itemids, textbuf, cache_lock, reg, pc, local,
                 sync, ghost>>

\* Where DCsync_history returns to: the syncer sleeps, the parent goes on to exit.
Return(s) == Goto(s, IF s = Main THEN "done" ELSE "idle")

TrimDone(s) ==
  /\ pc[s] = "trim"
  /\ ~TailGap
  /\ Unlock(s)
  /\ IF batch[s] = {} THEN Return(s) ELSE Goto(s, "db")
  /\ UNCHANGED <<ring, itemids, textbuf, reg, local, sync, ghost>>

BatchVals(s, i) == {u.val : u \in {v \in batch[s] : v.itemid = i}}
BatchItems(s)   == {u.itemid : u \in batch[s]}

\* DBbegin .. DBcommit: the whole batch is written, or, after an error in one
\* of the statements, all of it is rolled back.
Commit(s) ==
  /\ pc[s] = "db"
  /\ \/ /\ db' = [i \in Items |-> db[i] \cup BatchVals(s, i)]
        /\ UNCHANGED lost
     \/ /\ TxnFails
        /\ lost' = [i \in Items |-> lost[i] \cup BatchVals(s, i)]
        /\ UNCHANGED db
  /\ Goto(s, "release")
  /\ UNCHANGED <<ring, itemids, textbuf, cache_lock, reg, local, sync, gathered, added, torn, cut>>

\* The condition of the do loop. skipped_clock is compared with a time: a
\* skipped value may or may not be old enough for another round.
Continue(s) ==
  /\ syncs' = [syncs EXCEPT ![s] = IF @ = 0 THEN 0 ELSE @ - 1]
  /\ \/ /\ syncs[s] > 1 \/ s = Main \/ skipped[s]
        /\ Goto(s, "collect")
     \/ /\ ~(syncs[s] > 1 \/ s = Main)
        /\ Return(s)

\* Mutants of Unmark: the items stay marked; all items are unmarked.
UnmarkNothing(I) == UNCHANGED itemids
UnmarkAll(I) == itemids' = {}

\* uint64_array_remove
Unmark(I) == itemids' = itemids \ I

\* The items of the batch are free again (LOCK_CACHE .. UNLOCK_CACHE on the
\* server, nothing on a proxy), then the loop condition.
Release(s) ==
  /\ pc[s] = "release"
  /\ Server => cache_lock = Nobody
  /\ Unmark(BatchItems(s))
  /\ batch' = [batch EXCEPT ![s] = {}]
  /\ Continue(s)
  /\ UNCHANGED <<ring, textbuf, cache_lock, reg, local, skipped, ghost>>
--------------------------------------------------------------------------------
(***************************************************************************)
(* The end of the daemon.                                                  *)
(***************************************************************************)

\* zbx_on_exit: SIGTERM to the children, whose handler exits wherever they are.
\* The kernel undoes the semaphore operation of a child that held the mutex.
Terminate ==
  /\ Stoppable /\ pc[Main] = "idle"
  /\ pc' = [p \in Procs |-> IF p = Main THEN "exit" ELSE "dead"]
  /\ cache_lock' = Nobody
  /\ reg' = Regs0
  /\ local' = [w \in Writers |-> <<>>]
  /\ lost' = [i \in Items |->
                lost[i] \cup UNION {BatchVals(s, i) :
                                      s \in {s \in Syncers : pc[s] # "release"}}]
  /\ batch' = [s \in SyncProcs |-> {}]
  /\ torn' = (\E w \in Writers : pc[w] = "vacuum")
  /\ cut' = (\E s \in Syncers : pc[s] = "trim")
  /\ UNCHANGED <<ring, itemids, textbuf, syncs, skipped, gathered, added, db>>

\* Mutant of SyncFull: the marks of the syncers that were stopped are kept.
SyncFullMarked ==
  /\ pc[Main] = "exit"
  /\ Goto(Main, IF history_num = 0 THEN "done" ELSE "collect")
  /\ UNCHANGED <<ring, itemids, textbuf, cache_lock, reg, local, sync, ghost>>

\* free_database_cache, DCsync_all: DCsync_history(ZBX_SYNC_FULL) in the parent.
SyncFull ==
  /\ pc[Main] = "exit"
  /\ itemids' = {}
  /\ Goto(Main, IF history_num = 0 THEN "done" ELSE "collect")
  /\ UNCHANGED <<ring, textbuf, cache_lock, reg, local, sync, ghost>>

\* The daemon has exited.
Stopped == pc[Main] = "done" /\ UNCHANGED vars

Fill(w)  == TextFull(w) \/ VacTextStep(w) \/ VacTextDone(w) \/ RingFull(w)
            \/ VacuumStep(w) \/ VacuumDone(w) \/ DCadd_history(w) \/ FlushDone(w)
Drain(s) == SyncStart(s) \/ SkipStep(s) \/ VisitGap(s) \/ VisitBusy(s) \/ VisitTake(s)
            \/ ProxyTake(s) \/ ScanDone(s) \/ TrimStep(s) \/ TrimDone(s) \/ Commit(s)

Next ==
  \/ \E w \in Writers : \E i \in Items : dc_add_history(w, i)
  \/ \E w \in Writers : dc_flush_history(w) \/ Retry(w) \/ Fill(w)
  \/ \E s \in SyncProcs : SyncIdle(s) \/ Collect(s) \/ Drain(s) \/ Release(s)
  \/ Terminate \/ SyncFull \/ Stopped

Spec == Init /\ [][Next]_vars

\* Every process that can take a step takes one. The mutex is a System V
\* semaphore, whose waiters are served in turn: strong fairness for what starts
\* with LOCK_CACHE. That a writer flushes and a syncer wakes up is their main
\* loop; that a transaction ends is DBtxn_operation retrying while the database
\* is down. Nothing makes the daemon stop.
Fairness ==
  /\ \A w \in Writers : /\ SF_vars(dc_flush_history(w)) /\ SF_vars(Retry(w))
                        /\ WF_vars(Fill(w))
  /\ \A s \in SyncProcs : /\ SF_vars(Collect(s)) /\ SF_vars(Release(s))
                          /\ WF_vars(Drain(s))
  /\ WF_vars(SyncFull)

FairSpec == Spec /\ Fairness
--------------------------------------------------------------------------------
(***************************************************************************)
(* Properties.                                                             *)
(***************************************************************************)

PcLabels == {"idle", "add", "sleep", "vacuum", "vactext", "collect", "scan", "trim",
             "db", "release", "exit", "done", "dead"}

\* A syncer that was stopped while it dropped the holes at the tail leaves a run
\* that ends behind the newest slot: the parent may count below 0 then.
Least == IF cut THEN - HistorySize ELSE 0

\* The variables hold what the C structures can hold; indices are in bounds.
TypeOK ==
  /\ history \in [Index -> Slot]
  /\ history_first \in Index
  /\ history_num \in Least .. HistorySize
  /\ history_gap_num \in Int
  /\ itemids \in SUBSET Items
  /\ last_text \in 0 .. TextSize
  /\ text_free \in Int
  /\ cache_lock \in Procs \cup {Nobody}
  /\ reg \in [n : Least .. HistorySize, f : Index, num : 0 .. HistorySize,
              gap : 0 .. HistorySize, data : 0 .. HistorySize]
  /\ pc \in [Procs -> PcLabels]
  /\ local \in [Writers -> Seq(Items)]
  /\ batch \in [SyncProcs -> SUBSET Value]
  /\ syncs \in [SyncProcs -> Nat]
  /\ skipped \in [SyncProcs -> BOOLEAN]
  /\ gathered \in 0 .. MaxGathered
  /\ added \in [Items -> Nat]
  /\ db \in [Items -> SUBSET Nat]
  /\ lost \in [Items -> SUBSET Nat]
  /\ {torn, cut} \subseteq BOOLEAN

Vacuuming == \E w \in Writers : pc[w] = "vacuum"
Trimming  == \E s \in SyncProcs : pc[s] = "trim"

\* DCskip_items relies on it: the length noted in a slot of the ring is that of
\* a run of slots, all in the ring, all of the same item (or all holes).
RunsHomogeneous ==
  \A p \in 0 .. history_num - 1 :
    LET num == history[At(p)].num
    IN  /\ num >= 1 /\ p + num <= history_num
        /\ \A q \in p .. p + num - 1 : history[At(q)].itemid = history[At(p)].itemid

GapPositions == {p \in 0 .. history_num - 1 : history[At(p)].itemid = Gap}

\* What DCskip_items, DCvacuum_history and DCsync_history tell each other through
\* the ring is true, whichever of them has cut runs, moved blocks or dropped holes:
\* the runs, and history_gap_num, the number of holes that decides whether a
\* compaction is worth while. (TypeOK is checked along with it.)
RingSound ==
  /\ TypeOK
  /\ ~Vacuuming /\ ~torn /\ ~cut =>
       /\ ~Trimming => RunsHomogeneous
       /\ history_gap_num = Cardinality(GapPositions)

\* The numbers of the values of item i that are in the ring.
InRing(i) ==
  {history[At(p)].val : p \in {q \in 0 .. history_num - 1 : history[At(q)].itemid = i}}

\* The numbers of the values of item i in the hands of a syncer that has not
\* ended its transaction.
InFlight(i) ==
  UNION {BatchVals(s, i) : s \in {t \in SyncProcs : pc[t] \in {"scan", "trim", "db"}}}

\* No value is ever dropped by the ring or by its compaction, whoever is
\* stopped where: every value that got into the cache is still there, or with
\* a syncer, or in the database, or went down with its transaction.
NothingDropped ==
  \A i \in Items : 1 .. added[i] = InRing(i) \cup InFlight(i) \cup db[i] \cup lost[i]

\* No value is processed twice: the places a value can be in are disjoint, and
\* the ring holds one copy. (A process stopped inside DCvacuum_history leaves
\* the block it was moving in two places.)
OnePlace ==
  ~torn =>
    /\ \A i \in Items :
         /\ InRing(i) \cap (InFlight(i) \cup db[i] \cup lost[i]) = {}
         /\ InFlight(i) \cap (db[i] \cup lost[i]) = {}
         /\ db[i] \cap lost[i] = {}
    /\ \A i \in Items : \A s, t \in SyncProcs :
         s # t => BatchVals(s, i) \cap BatchVals(t, i) = {}
    /\ ~Vacuuming =>
         \A p, q \in 0 .. history_num - 1 :
           /\ p # q
           /\ history[At(p)].itemid = history[At(q)].itemid
           /\ history[At(p)].itemid # Gap
           => history[At(p)].val # history[At(q)].val

\* The ring keeps the values of an item in the order they were gathered in.
RingOrdered ==
  ~Vacuuming /\ ~torn =>
    \A p, q \in 0 .. history_num - 1 :
      p < q /\ history[At(p)].itemid = history[At(q)].itemid /\ history[At(p)].itemid # Gap
      => history[At(p)].val < history[At(q)].val

\* Until the daemon is stopped: two syncers never process the same item at the
\* same time, no batch has an item twice, and itemids holds exactly the items
\* in some batch.
ItemExclusive ==
  Server /\ pc[Main] = "idle" =>
    /\ \A s, t \in Syncers : s # t => BatchItems(s) \cap BatchItems(t) = {}
    /\ \A s \in Syncers : \A u, v \in batch[s] : u.itemid = v.itemid => u = v
    /\ itemids = UNION {BatchItems(s) : s \in Syncers}

\* text_free is what the values of the ring leave of the text buffer.
TextUsed ==
  LET used[p \in 0 .. history_num] ==
        IF p = 0 THEN 0
        ELSE used[p - 1] + (IF history[At(p - 1)].itemid = Gap THEN 0
                            ELSE history[At(p - 1)].len)
  IN  IF history_num > 0 THEN used[history_num] ELSE 0
TextAccounted == ~Vacuuming /\ ~torn => text_free = TextSize - TextUsed

\* The text of every value of the ring is its own, whatever was appended to the
\* text buffer or moved in it.
TextIntact ==
  \A p \in 0 .. history_num - 1 :
    LET slot == history[At(p)]
    IN  slot.itemid # Gap =>
          \A c \in slot.txt .. slot.txt + slot.len - 1 : text[c] = <<slot.itemid, slot.val>>

\* What DCvacuum_history and DCvacuum_text move stays what and where it was, also
\* when they are stopped: no value is dropped, none changes its place in the order
\* or its text.
VacuumKeeps == NothingDropped /\ RingOrdered /\ TextIntact

\* On a proxy, where syncers take values whatever their item: every value is in
\* one place, and DCsync_history gives back exactly the text space it frees.
ProxyAccounted == OnePlace /\ TextAccounted

\* When the daemon has exited nothing is left behind in the ring, even if a
\* process was stopped while it worked on it. (The count is below 0 when a run of
\* holes was cut at the tail: there is nothing behind it.)
FullDrain == pc[Main] = "done" => history_num <= 0

\* Every value that got into the cache leaves it: nothing waits forever for a
\* busy item, a full buffer or the mutex.
EverySynced ==
  \A i \in Items : \A v \in 1 .. MaxGathered :
    (added[i] >= v) ~> (v \in db[i] \cup lost[i])

\* A writer that finds the ring or the text buffer full gets its values in.
EveryFlushed == \A w \in Writers : (pc[w] = "add") ~> (pc[w] \in {"idle", "dead"})

\* The cache as a set of queues, one per item: what is waiting is what is in the
\* ring, what is busy is what is in an open transaction.
Queue == INSTANCE ItemQueue WITH
           waiting <- [i \in Items |-> InRing(i)],
           busy <- [i \in Items |-> InFlight(i)],
           done <- db

\* The server's cache implements the queues, whatever the interleaving: the values
\* of an item are written to the database one at a time and in the order they were
\* gathered in (functions of triggers and DCmass_update_items depend on it). Only
\* a stop inside DCvacuum_history may leave a value twice in the ring.
QueueSpec == Queue!Init /\ [][torn \/ Queue!Next]_(Queue!vars)
================================================================================
