-------------------------- MODULE HistoryQueueProofs --------------------------
(***************************************************************************)
(* What the history cache shows of its ring to the processes that work on  *)
(* it is true (RingTells), it never has a value twice (ValuesOnce), for    *)
(* the rest of the server it is the queues of ItemQueue                    *)
(* (QueuesImplemented), and the text space of a value is given back once   *)
(* (TextReturned).  All rest on what HistoryCacheProofs says of the ring:  *)
(* each slot that holds a value holds the next one of its item.            *)
(***************************************************************************)
EXTENDS HistoryCacheProofs, FunctionTheorems

--------------------------------------------------------------------------------
(***************************************************************************)
(* The holes are counted.                                                  *)
(***************************************************************************)

\* The holes among the m oldest slots.
HolesBelow(m) == {p \in 0 .. m - 1 : history[At(p)].itemid = Gap}

\* history_gap_num is the number of the holes that the compaction under way has not
\* reached and of those it has seen.
GapInv ==
  /\ history_gap_num \in Int
  /\ ~cut => history_gap_num = Cardinality(HolesBelow(IF Vacuuming THEN reg.n ELSE history_num)) + Gone

\* The m oldest slots are holes where they were holes.
SameHoles(m) ==
  \A p \in 0 .. m - 1 : history'[At(p)'].itemid = Gap <=> history[At(p)].itemid = Gap

LEMMA HolesFinite ==
  ASSUME NEW m \in Int
  PROVE  IsFiniteSet(HolesBelow(m)) /\ Cardinality(HolesBelow(m)) \in Int
  <1>1. IsFiniteSet(0 .. m - 1)
    BY FS_Interval
  <1>2. HolesBelow(m) \in SUBSET (0 .. m - 1)
    BY DEF HolesBelow
  <1>3. IsFiniteSet(HolesBelow(m))
    BY <1>1, <1>2, FS_Subset
  <1> QED
    BY <1>3, FS_CardinalityType

LEMMA HolesSame ==
  ASSUME NEW m \in Int, SameHoles(m)
  PROVE  HolesBelow(m)' = HolesBelow(m)
  BY DEF HolesBelow, SameHoles

\* The d oldest slots leave the ring.
LEMMA HolesShift ==
  ASSUME history_first \in Index, NEW N \in 0 .. HistorySize, NEW d \in 0 .. N,
         history_first' = Wrap(history_first + d),
         NEW h, h = history', \A p \in 0 .. N - 1 : h[At(p)].itemid = Gap <=> history[At(p)].itemid = Gap
  PROVE  Cardinality(HolesBelow(N - d)') = Cardinality(HolesBelow(N)) - Cardinality(HolesBelow(d))
  <1>0. HistorySize \in Nat /\ N \in Int /\ d \in Int /\ N - d \in Int
    BY SizeAssumption
  <1> DEFINE S == HolesBelow(N) \ HolesBelow(d)
             T == HolesBelow(N - d)'
  <1>1. T = {p \in 0 .. N - d - 1 : history'[At(p)'].itemid = Gap}
    BY DEF HolesBelow
  <1>2. \A p \in Nat : p + d < HistorySize => At(p)' = At(p + d)
    <2>1. d \in 0 .. HistorySize
      BY <1>0
    <2> QED
      BY <2>1, AtShift
  <1>3. ASSUME NEW p \in 0 .. N - d - 1 PROVE p \in T <=> p + d \in S
    <2>1. p \in Nat /\ p + d < HistorySize /\ p + d \in 0 .. N - 1 /\ p + d \notin 0 .. d - 1
      BY <1>0
    <2>2. At(p)' = At(p + d)
      BY <1>2, <2>1
    <2>3. history'[At(p)'].itemid = Gap <=> history[At(p + d)].itemid = Gap
      BY <2>1, <2>2
    <2> QED
      BY <1>1, <2>1, <2>3 DEF HolesBelow
  <1>4. ASSUME NEW p \in S PROVE p - d \in 0 .. N - d - 1 /\ (p - d) + d = p
    <2>1. p \in 0 .. N - 1 /\ p \notin 0 .. d - 1
      BY DEF HolesBelow
    <2> QED
      BY <1>0, <2>1
  <1>5. \A p \in T : p \in 0 .. N - d - 1
    BY <1>1
  <1> HIDE DEF T, S
  <1>6. IsFiniteSet(S) /\ Cardinality(S) = Cardinality(HolesBelow(N)) - Cardinality(HolesBelow(d))
    <2>1. HolesBelow(N) \cap HolesBelow(d) = HolesBelow(d)
      <3>1. \A p : p \in 0 .. d - 1 => p \in 0 .. N - 1
        BY <1>0
      <3> QED
        BY <3>1 DEF HolesBelow
    <2> QED
      BY <1>0, <2>1, HolesFinite, FS_Difference DEF S
  <1> DEFINE f == [p \in S |-> p - d]
  <1>7. f \in Bijection(S, T)
    <2>1. f \in [S -> T]
      BY <1>3, <1>4
    <2>2. \A p \in S, q \in S : f[p] = f[q] => p = q
      BY <1>4
    <2>3. ASSUME NEW t \in T PROVE \E p \in S : f[p] = t
      <3>1. t \in 0 .. N - d - 1 /\ t + d \in S
        BY <1>3, <1>5
      <3>2. (t + d) - d = t
        BY <1>0, <3>1
      <3> QED
        BY <3>1, <3>2
    <2> HIDE DEF f
    <2> QED
      BY <2>1, <2>2, <2>3, Fun_IsBij
  <1>8. ExistsBijection(S, T)
    BY <1>7 DEF ExistsBijection
  <1>9. Cardinality(T) = Cardinality(S)
    BY <1>6, <1>8, FS_Bijection
  <1> QED
    BY <1>6, <1>9 DEF T

\* Where no compaction is under way.
LEMMA GapPlain ==
  ASSUME GapInv, ~Vacuuming, ~Vacuuming', cut' = cut,
         NEW N \in Int, NEW M \in Int, history_num = N, history_num' = M,
         NEW g \in Int, NEW d \in Int, history_gap_num = g, history_gap_num' = g + d,
         ~cut => Cardinality(HolesBelow(M)') = Cardinality(HolesBelow(N)) + d
  PROVE  GapInv'
  <1>1. Gone = 0 /\ Gone' = 0
    BY DEF Gone
  <1>2. ~cut => g = Cardinality(HolesBelow(N))
    <2>1. ~cut => g = Cardinality(HolesBelow(N)) + 0
      BY <1>1 DEF GapInv
    <2> QED
      BY <2>1, HolesFinite
  <1>3. g + d \in Int /\ (~cut => g + d = Cardinality(HolesBelow(M)') + 0)
    <2>1. PICK x \in Int : x = Cardinality(HolesBelow(N))
      BY HolesFinite
    <2> QED
      BY <1>2, <2>1
  <1>4. HolesBelow(IF Vacuuming THEN reg.n ELSE history_num)' = HolesBelow(M)'
    BY DEF HolesBelow
  <1> QED
    BY <1>1, <1>3, <1>4 DEF GapInv

LEMMA GapSame ==
  ASSUME GapInv, UNCHANGED <<history, history_first, history_num, history_gap_num>>,
         Vacuuming' <=> Vacuuming, Vacuuming => reg' = reg, ~cut' => ~cut
  PROVE  GapInv'
  <1>1. Gone' = Gone
    BY DEF Gone
  <1>2. \A p : At(p)' = At(p)
    BY DEF At
  <1>3. HolesBelow(IF Vacuuming THEN reg.n ELSE history_num)'
          = HolesBelow(IF Vacuuming THEN reg.n ELSE history_num)
    BY <1>2 DEF HolesBelow
  <1> QED
    BY <1>1, <1>3 DEF GapInv

\* The steps that leave the ring alone.
LEMMA GapQuiet ==
  ASSUME BaseInv, BaseInv', GapInv, ~torn',
         \/ \E w \in Writers : \/ \E i \in Items : dc_add_history(w, i)
                               \/ dc_flush_history(w) \/ Retry(w) \/ TextFull(w) \/ VacTextDone(w)
                               \/ FlushDone(w)
                               \/ (RingFull(w) /\ HistorySize \div 100 >= history_gap_num)
         \/ \E s \in SyncProcs : \/ SyncStart(s) \/ SyncIdle(s) \/ Collect(s) \/ SkipStep(s)
                                 \/ ScanDone(s) \/ TrimDone(s) \/ Commit(s) \/ Release(s)
         \/ Terminate \/ SyncFull \/ Stopped \/ UNCHANGED vars
  PROVE  GapInv'
  <1>1. ASSUME NEW p \in Procs, NEW l, pc' = [pc EXCEPT ![p] = l] \/ pc' = pc,
               l # "vacuum" /\ pc[p] # "vacuum",
               UNCHANGED <<history, history_first, history_num, history_gap_num, cut>>,
               reg' = reg \/ cache_lock = Nobody \/ cache_lock = p
        PROVE  GapInv'
    <2>1. \A w \in Writers : pc'[w] = "vacuum" <=> pc[w] = "vacuum"
      <3>1. Writers \subseteq Procs /\ pc = [q \in Procs |-> pc[q]]
        BY DEF Procs, BaseInv
      <3> QED
        BY <1>1, <3>1
    <2>2. Vacuuming => reg' = reg
      BY <1>1, Phases
    <2>3. Vacuuming' <=> Vacuuming
      BY <2>1 DEF Vacuuming
    <2> QED
      BY <1>1, <2>2, <2>3, GapSame
  <1>2. ASSUME NEW w \in Writers, \/ \E i \in Items : dc_add_history(w, i)
                                 \/ dc_flush_history(w) \/ Retry(w) \/ TextFull(w) \/ VacTextDone(w)
                                 \/ FlushDone(w)
                                 \/ (RingFull(w) /\ HistorySize \div 100 >= history_gap_num)
        PROVE  GapInv'
    <2>1. /\ UNCHANGED <<history, history_first, history_num, history_gap_num, cut>>
          /\ pc[w] \in {"idle", "sleep", "add", "vactext"}
          /\ reg' = reg \/ cache_lock = Nobody \/ cache_lock = w
          /\ pc' = pc \/ \E l \in {"idle", "add", "sleep", "vactext"} : pc' = [pc EXCEPT ![w] = l]
      BY <1>2 DEF dc_add_history, dc_flush_history, Retry, TextFull, VacTextDone, FlushDone, RingFull,
         Sleep, Lock, Unlock, Goto, ring, textbuf, ghost, sync
    <2>2. w \in Procs
      BY DEF Procs
    <2> QED
      BY <1>1, <2>1, <2>2
  <1>3. ASSUME NEW s \in SyncProcs, \/ SyncStart(s) \/ SyncIdle(s) \/ Collect(s) \/ SkipStep(s)
                                   \/ ScanDone(s) \/ TrimDone(s) \/ Commit(s) \/ Release(s)
        PROVE  GapInv'
    <2>1. /\ UNCHANGED <<history, history_first, history_num, history_gap_num, cut>>
          /\ pc[s] \in {"idle", "collect", "scan", "trim", "db", "release"}
          /\ reg' = reg \/ cache_lock = Nobody \/ cache_lock = s
          /\ pc' = pc \/ \E l \in {"idle", "done", "collect", "scan", "trim", "db", "release"} : pc' = [pc EXCEPT ![s] = l]
      BY <1>3 DEF SyncStart, SyncIdle, Collect, SkipStep, ScanDone, TrimDone, Commit, Release, Scanning,
         Continue, Return, Lock, Unlock, Goto, vars, ring, textbuf, ghost, sync
    <2>2. s \in Procs
      BY DEF Procs
    <2> QED
      BY <1>1, <2>1, <2>2
  <1>4. CASE SyncFull
    <2>1. /\ UNCHANGED <<history, history_first, history_num, history_gap_num, cut, reg>>
          /\ pc[Main] = "exit"
          /\ \E l \in {"done", "collect"} : pc' = [pc EXCEPT ![Main] = l]
      BY <1>4 DEF SyncFull, Goto, ring, textbuf, ghost, sync
    <2>2. Main \in Procs
      BY DEF Procs, SyncProcs
    <2> QED
      BY <1>1, <2>1, <2>2
  <1>5. CASE Stopped \/ UNCHANGED vars
    <2>1. UNCHANGED <<history, history_first, history_num, history_gap_num, cut, reg, pc>>
      BY <1>5 DEF Stopped, vars, ring, textbuf, ghost, sync
    <2> QED
      BY <2>1, GapSame DEF Vacuuming
  <1>6. CASE Terminate
    <2>1. /\ UNCHANGED <<history, history_first, history_num, history_gap_num>>
          /\ pc[Main] = "idle" /\ torn' = (\E w \in Writers : pc[w] = "vacuum")
          /\ pc' = [p \in Procs |-> IF p = Main THEN "exit" ELSE "dead"]
      BY <1>6 DEF Terminate, ring
    <2>2. ~Vacuuming
      BY <2>1 DEF Vacuuming
    <2>3. ~Vacuuming'
      BY <2>1 DEF Vacuuming, Procs
    <2>4. ~cut
      BY <2>1 DEF BaseInv, LockInv
    <2> QED
      BY <2>1, <2>2, <2>3, <2>4, GapSame
  <1> QED
    BY <1>2, <1>3, <1>4, <1>5, <1>6

\* A value is added: there is no hole more.
LEMMA GapAdd ==
  ASSUME BaseInv, RingInv, GapInv, NEW w \in Writers, DCadd_history(w)
  PROVE  GapInv'
  <1>0. HistorySize \in Nat \ {0}
    BY SizeAssumption
  <1> DEFINE i == Head(local[w])
  <1>1. /\ UNCHANGED <<history_first, history_gap_num, cut, pc>>
        /\ pc[w] = "add" /\ cache_lock = w /\ local[w] # <<>>
        /\ history_num < HistorySize /\ history_num' = history_num + 1
        /\ \E slot : slot.itemid = i /\ history' = [history EXCEPT ![At(history_num)] = slot]
    BY DEF DCadd_history
  <1>2. ~Vacuuming /\ ~Vacuuming' /\ ~cut
    BY <1>1, Phases, ProcsAssumption DEF Vacuuming, BaseInv, LockInv
  <1>3. PICK N \in Nat : history_num = N
    BY <1>2 DEF RingInv, RingTypes
  <1>4. i # Gap
    <2>1. local[w] \in Seq(Items) /\ local[w] # <<>>
      BY <1>1 DEF RingInv, RingTypes
    <2>2. i \in Items
      BY <2>1
    <2> QED
      BY <2>2, ItemsAssumption
  <1> HIDE DEF i
  <1>5. PICK slot : slot.itemid # Gap /\ history' = [history EXCEPT ![At(N)] = slot]
    BY <1>1, <1>3, <1>4
  <1>6. history \in [Index -> Slot] /\ history_first \in Index
    BY DEF RingInv, RingTypes
  <1>7. ASSUME NEW p \in 0 .. N
        PROVE  history'[At(p)'].itemid = Gap <=> p \in 0 .. N - 1 /\ history[At(p)].itemid = Gap
    <2>1. p \in 0 .. HistorySize - 1 /\ N \in 0 .. HistorySize - 1
      BY <1>0, <1>1, <1>3
    <2>2. At(p) \in Index /\ (At(p) = At(N) => p = N)
      BY <1>6, <2>1, AtIndex
    <2>3. At(p)' = At(p)
      BY <1>1 DEF At
    <2>4. p # N => p \in 0 .. N - 1
      OBVIOUS
    <2> QED
      BY <1>5, <1>6, <2>2, <2>3, <2>4
  <1>8. HolesBelow(N + 1)' = HolesBelow(N)
    <2>1. HolesBelow(N + 1)' = {p \in 0 .. N : history'[At(p)'].itemid = Gap}
      <3>1. (N + 1) - 1 = N
        OBVIOUS
      <3> QED
        BY <3>1 DEF HolesBelow
    <2>2. \A p : p \in 0 .. N - 1 => p \in 0 .. N
      OBVIOUS
    <2> QED
      BY <1>7, <2>1, <2>2 DEF HolesBelow
  <1>9. PICK g \in Int : history_gap_num = g
    BY DEF GapInv
  <1>10. /\ history_num' = N + 1 /\ N + 1 \in Int /\ N \in Int /\ 0 \in Int /\ history_gap_num' = g + 0
         /\ Cardinality(HolesBelow(N + 1)') = Cardinality(HolesBelow(N)) + 0
    <2>1. history_num' = N + 1 /\ N + 1 \in Int /\ N \in Int /\ 0 \in Int /\ history_gap_num' = g + 0
      BY <1>1, <1>3, <1>9
    <2>2. Cardinality(HolesBelow(N)) \in Int
      BY <1>3, HolesFinite
    <2>3. Cardinality(HolesBelow(N + 1)') = Cardinality(HolesBelow(N)) + 0
      BY <1>8, <2>2
    <2> QED
      BY <2>1, <2>3
  <1> QED
    BY <1>1, <1>2, <1>3, <1>9, <1>10, GapPlain

\* The texts are moved: the holes stay where they are.
LEMMA GapTextStep ==
  ASSUME BaseInv, RingInv, GapInv, NEW w \in Writers, VacTextStep(w)
  PROVE  GapInv'
  <1>0. HistorySize \in Nat \ {0}
    BY SizeAssumption
  <1>1. /\ UNCHANGED <<history_first, history_num, history_gap_num, cut, pc>>
        /\ pc[w] = "vactext" /\ cache_lock = w
        /\ history' = [history EXCEPT ![reg.f] = MovedText(history[reg.f])]
    BY DEF VacTextStep, ghost
  <1>2. ~Vacuuming /\ ~Vacuuming'
    BY <1>1, Phases DEF Vacuuming
  <1>3. PICK N \in Int : history_num = N /\ N <= HistorySize
    BY DEF RingInv, RingTypes
  <1>4. history \in [Index -> Slot] /\ history_first \in Index
    BY DEF RingInv, RingTypes
  <1>5. \A slot \in Slot : MovedText(slot).itemid = slot.itemid
    BY DEF MovedText, Slot
  <1>6. \A f \in Index : history'[f].itemid = history[f].itemid
    BY <1>1, <1>4, <1>5
  <1>7. SameHoles(N)
    <2>1. \A p \in 0 .. N - 1 : p \in 0 .. HistorySize - 1
      BY <1>0, <1>3
    <2>2. \A p \in 0 .. N - 1 : At(p) \in Index
      BY <1>4, <2>1, AtIndex
    <2>3. \A p : At(p)' = At(p)
      BY <1>1 DEF At
    <2> QED
      BY <1>6, <2>2, <2>3 DEF SameHoles
  <1>8. PICK g \in Int : history_gap_num = g
    BY DEF GapInv
  <1>9. /\ history_num' = N /\ 0 \in Int /\ history_gap_num' = g + 0
        /\ Cardinality(HolesBelow(N)') = Cardinality(HolesBelow(N)) + 0
    BY <1>1, <1>3, <1>7, <1>8, HolesSame, HolesFinite
  <1> QED
    BY <1>1, <1>2, <1>3, <1>8, <1>9, GapPlain

\* The compaction starts with all the holes before it.
LEMMA GapVacuumBegins ==
  ASSUME BaseInv, GapInv, NEW w \in Writers, RingFull(w), ~(HistorySize \div 100 >= history_gap_num)
  PROVE  GapInv'
  <1>1. /\ UNCHANGED <<history, history_first, history_num, history_gap_num, cut>>
        /\ pc[w] = "add" /\ cache_lock = w
        /\ pc' = [pc EXCEPT ![w] = "vacuum"] /\ reg' = [Regs0 EXCEPT !.n = history_num]
    BY DEF RingFull, Goto, ring, ghost
  <1>2. ~Vacuuming
    BY <1>1, Phases
  <1>3. Vacuuming'
    BY <1>1 DEF Vacuuming, BaseInv, Procs
  <1>4. reg'.n = history_num /\ reg'.gap = 0
    BY <1>1 DEF Regs0
  <1>5. Gone = 0 /\ Gone' = 0
    BY <1>2, <1>3, <1>4 DEF Gone
  <1>6. HolesBelow(IF Vacuuming THEN reg.n ELSE history_num)'
          = HolesBelow(IF Vacuuming THEN reg.n ELSE history_num)
    <2>1. \A p : At(p)' = At(p)
      BY <1>1 DEF At
    <2> QED
      BY <1>1, <1>2, <1>3, <1>4, <2>1 DEF HolesBelow
  <1> QED
    BY <1>1, <1>5, <1>6 DEF GapInv

\* A step of the compaction: one hole less is before it, and one more is seen.
LEMMA GapVacuumStep ==
  ASSUME BaseInv, RingInv, GapInv, NEW w \in Writers, VacuumStep(w)
  PROVE  GapInv'
  <1>0. HistorySize \in Nat
    BY SizeAssumption
  <1> DEFINE f == At(reg.n - 1)
  <1>1. /\ UNCHANGED <<history_first, history_num, history_gap_num, cut, pc>>
        /\ pc[w] = "vacuum" /\ cache_lock = w /\ reg.n > 0
    BY DEF VacuumStep, ghost
  <1>2. Vacuuming /\ Vacuuming' /\ ~cut
    <2>1. Vacuuming /\ ~cut
      BY <1>1, VacuumRow
    <2> QED
      BY <1>1, <2>1 DEF Vacuuming
  <1>3. PICK N \in Nat, n \in Nat, data \in Nat, gap \in Nat :
          /\ history_num = N /\ reg.n = n /\ reg.data = data /\ reg.gap = gap
          /\ N <= HistorySize /\ n + data + gap <= N
          /\ gap = 0 => data = 0
          /\ data > 0 => At(n) # 0 /\ At(n) + data <= HistorySize
    BY <1>1, VacuumRow
  <1>4. /\ history \in [Index -> Slot] /\ history_first \in Index
        /\ reg \in [n : Int, f : Int, num : Nat, gap : Int, data : Int]
    BY DEF RingInv, RingTypes
  <1>5. /\ n \in Nat \ {0} /\ n - 1 \in Nat /\ f = At(n - 1) /\ n - 1 \in 0 .. HistorySize - 1
        /\ n \in Int /\ n - 1 \in Int /\ n + data + gap <= HistorySize /\ (n - 1) + 1 = n
        /\ data + 1 \in Nat /\ n <= HistorySize
    BY <1>0, <1>1, <1>3
  <1>6. history_gap_num = Cardinality(HolesBelow(n)) + gap
    BY <1>2, <1>3 DEF GapInv, Gone
  <1>7. \A p : At(p)' = At(p)
    BY <1>1 DEF At
  <1>8. ASSUME NEW m \in {n - 1, n}, NEW d \in Nat, NEW h, h = history', BlockAt(h, m, d, gap)
        PROVE  SameHoles(n - 1)
    <2>1. ASSUME NEW p \in 0 .. (n - 1) - 1 PROVE h[At(p)] = history[At(p)]
      <3>1. p \in 0 .. HistorySize - 1 /\ ~(m + gap <= p)
        BY <1>0, <1>5
      <3> QED
        BY <1>8, <3>1 DEF BlockAt
    <2> QED
      BY <1>7, <1>8, <2>1 DEF SameHoles
  <1>9. CASE history[f].itemid = Gap
    <2>1. /\ history' = IF reg.data = 0 THEN history
                        ELSE DCmove_history(history, f + 1, reg.data, reg.gap)
          /\ reg' = [reg EXCEPT !.n = reg.n - 1, !.gap = reg.gap + 1, !.data = 0]
      BY <1>9 DEF VacuumStep
    <2>2. data # 0 => f + 1 = At(n)
      <3>1. data # 0 => At(n) = At(n - 1) + 1
        <4> SUFFICES ASSUME data > 0 PROVE At(n) = At(n - 1) + 1
          BY <1>3
        <4>1. (n - 1) + 1 < HistorySize
          BY <1>0, <1>5
        <4>2. At(n) # 0 => At(n - 1) = At(n) - 1
          BY <1>4, <1>5, <4>1, AtNext
        <4>3. At(n - 1) \in Int /\ At(n) \in Int
          BY <1>0, <1>4, <1>5 DEF At, Wrap, Index
        <4> QED
          BY <1>3, <4>2, <4>3
      <3> QED
        BY <1>5, <3>1
    <2>3. history' = IF data = 0 THEN history ELSE DCmove_history(history, At(n), data, gap)
      BY <1>3, <2>1, <2>2
    <2>4. BlockAt(history', n, data, gap)
      <3>1. data # 0 => gap # 0 /\ At(n) + data <= HistorySize
        BY <1>3
      <3> QED
        BY <1>4, <1>5, <2>3, <3>1, BlockKept
    <2>5. SameHoles(n - 1)
      BY <1>8, <2>4
    <2>6. HolesBelow(n - 1)' = HolesBelow(n - 1)
      BY <1>5, <2>5, HolesSame
    <2>7. reg'.n = n - 1 /\ reg'.gap = gap + 1
      BY <1>3, <1>4, <2>1
    <2>8. Cardinality(HolesBelow(n)) = Cardinality(HolesBelow(n - 1)) + 1
      <3>1. HolesBelow(n) = HolesBelow(n - 1) \cup {n - 1} /\ n - 1 \notin HolesBelow(n - 1)
        <4>1. \A p : p \in 0 .. n - 1 <=> p \in 0 .. (n - 1) - 1 \/ p = n - 1
          BY <1>5
        <4>2. n - 1 \notin 0 .. (n - 1) - 1
          BY <1>5
        <4> QED
          BY <1>5, <1>9, <4>1, <4>2 DEF HolesBelow
      <3>2. n - 1 \in Int
        BY <1>5
      <3>3. IsFiniteSet(HolesBelow(n - 1))
        BY <3>2, HolesFinite
      <3>4. Cardinality(HolesBelow(n - 1) \cup {n - 1})
              = IF n - 1 \in HolesBelow(n - 1) THEN Cardinality(HolesBelow(n - 1))
                                               ELSE Cardinality(HolesBelow(n - 1)) + 1
        BY <3>3, FS_AddElement, Zenon
      <3> QED
        BY <3>1, <3>4, Zenon
    <2>9. history_gap_num' = Cardinality(HolesBelow(n - 1)') + (gap + 1)
      <3>1. PICK x \in Int : x = Cardinality(HolesBelow(n - 1))
        BY <1>5, HolesFinite
      <3> QED
        BY <1>1, <1>6, <2>6, <2>8, <3>1
    <2>10. /\ HolesBelow(IF Vacuuming THEN reg.n ELSE history_num)' = HolesBelow(n - 1)'
           /\ Gone' = gap + 1
      BY <1>2, <2>7 DEF HolesBelow, Gone
    <2> QED
      BY <1>1, <2>9, <2>10 DEF GapInv
  <1>10. CASE history[f].itemid # Gap
    <2>1. /\ reg'.n = n - 1 /\ reg'.gap = gap
          /\ history' = history \/ (f = 0 /\ gap # 0 /\ history' = DCmove_history(history, 0, data + 1, gap))
      <3>1. /\ \/ reg' = [reg EXCEPT !.n = reg.n - 1]
               \/ reg' = [reg EXCEPT !.n = reg.n - 1, !.data = 0]
               \/ reg' = [reg EXCEPT !.n = reg.n - 1, !.data = reg.data + 1]
            /\ history' = history
               \/ (f = 0 /\ reg.gap # 0 /\ history' = DCmove_history(history, 0, reg.data + 1, reg.gap))
        BY <1>10 DEF VacuumStep
      <3>2. reg'.n = reg.n - 1 /\ reg'.gap = reg.gap
        BY <1>4, <3>1
      <3> QED
        BY <1>3, <3>1, <3>2
    <2>2. SameHoles(n - 1)
      <3>1. CASE history' = history
        BY <1>7, <3>1 DEF SameHoles
      <3>2. CASE f = 0 /\ gap # 0 /\ history' = DCmove_history(history, 0, data + 1, gap)
        <4>1. /\ history' = IF data + 1 = 0 THEN history ELSE DCmove_history(history, At(n - 1), data + 1, gap)
              /\ (n - 1) + (data + 1) + gap <= HistorySize
              /\ At(n - 1) + (data + 1) <= HistorySize
          BY <1>0, <1>5, <3>2
        <4>2. BlockAt(history', n - 1, data + 1, gap)
          BY <1>4, <1>5, <3>2, <4>1, BlockKept
        <4> QED
          BY <1>5, <1>8, <4>2
      <3> QED
        BY <2>1, <3>1, <3>2
    <2>3. HolesBelow(n - 1)' = HolesBelow(n - 1)
      BY <1>5, <2>2, HolesSame
    <2>4. HolesBelow(n) = HolesBelow(n - 1)
      <3>1. \A p : p \in 0 .. n - 1 <=> p \in 0 .. (n - 1) - 1 \/ p = n - 1
        BY <1>5
      <3> QED
        BY <1>5, <1>10, <3>1 DEF HolesBelow
    <2>5. /\ HolesBelow(IF Vacuuming THEN reg.n ELSE history_num)' = HolesBelow(n - 1)'
          /\ Gone' = gap
      BY <1>2, <2>1 DEF HolesBelow, Gone
    <2> QED
      BY <1>1, <1>6, <2>3, <2>4, <2>5 DEF GapInv
  <1> QED
    BY <1>9, <1>10

\* The end of the compaction: there is no hole left.
LEMMA GapVacuumDone ==
  ASSUME BaseInv, BaseInv', RingInv, RingInv', GapInv, NEW w \in Writers, VacuumDone(w)
  PROVE  GapInv'
  <1>1. cut' = cut /\ pc[w] = "vacuum" /\ reg.n = 0 /\ history_num' = history_num - reg.gap
    BY DEF VacuumDone, DropHoles, DropHead, ghost
  <1>2. Vacuuming /\ ~cut
    BY <1>1, VacuumRow
  <1>3. PICK N \in Nat, gap \in Nat, M \in Nat :
          /\ reg.gap = gap /\ history_num' = M /\ history_gap_num' = history_gap_num - gap
          /\ \A k \in 0 .. M - 1 : history'[At(k)'] = Row[k] /\ IsValue(Row[k])
    BY VacuumEnds
  <1>4. ~Vacuuming'
    <2>1. PICK l \in {"sleep", "add"} : pc' = [pc EXCEPT ![w] = l]
      BY DEF VacuumDone, Sleep, Goto
    <2>2. cache_lock = w /\ pc'[w] = l
      BY <2>1 DEF VacuumDone, BaseInv, Procs
    <2>3. \A v \in Writers : v # w => pc[v] # "vacuum" /\ pc'[v] = pc[v]
      BY <2>1, <2>2 DEF BaseInv, LockInv, Working, Procs
    <2> QED
      BY <2>1, <2>2, <2>3 DEF Vacuuming
  <1>5. history_gap_num = gap
    <2>1. HolesBelow(0) = {}
      <3>1. 0 .. 0 - 1 = {}
        OBVIOUS
      <3> QED
        BY <3>1 DEF HolesBelow
    <2>2. history_gap_num = Cardinality(HolesBelow(0)) + gap
      BY <1>1, <1>2, <1>3 DEF GapInv, Gone
    <2> QED
      BY <2>1, <2>2, FS_EmptySet
  <1>6. HolesBelow(M)' = {}
    BY <1>3 DEF HolesBelow, IsValue
  <1>7. /\ Gone' = 0
        /\ HolesBelow(IF Vacuuming THEN reg.n ELSE history_num)' = HolesBelow(M)'
    BY <1>3, <1>4 DEF Gone, HolesBelow
  <1>8. history_gap_num' = 0
    BY <1>3, <1>5
  <1> QED
    BY <1>6, <1>7, <1>8, FS_EmptySet DEF GapInv

\* DCskip_items notes lengths and nothing else.
LEMMA SkipItemsKeeps ==
  ASSUME RingInv
  PROVE  /\ SkipItems(history) = [f \in Index |-> SkipItems(history)[f]]
         /\ \A f \in Index : SkipItems(history)[f].itemid = history[f].itemid
  <1>1. history \in [Index -> Slot]
    BY DEF RingInv, RingTypes
  <1>2. \A slot \in Slot : \A num : [slot EXCEPT !.num = num].itemid = slot.itemid
    BY DEF Slot
  <1> QED
    BY <1>1, <1>2 DEF SkipItems

\* Slots leave the ring at its head, all of them holes or all of them values.
LEMMA GapHead ==
  ASSUME RingInv, GapInv, ~Vacuuming, ~Vacuuming', cut' = cut,
         NEW N \in 1 .. HistorySize, history_num = N, NEW d \in 0 .. HistorySize, ~cut => d <= N,
         DropHead(d),
         \A f \in Index : history'[f].itemid = Gap <=> history[f].itemid = Gap,
         NEW g \in Int, history_gap_num = g,
         \/ history_gap_num' = g - d /\ (~cut => \A p \in 0 .. d - 1 : history[At(p)].itemid = Gap)
         \/ history_gap_num' = g /\ \A p \in 0 .. d - 1 : history[At(p)].itemid # Gap
  PROVE  GapInv'
  <1>0. HistorySize \in Nat /\ N \in Int /\ d \in Int /\ N - d \in Int /\ 0 - d \in Int /\ 0 \in Int
    BY SizeAssumption
  <1>1. history_num' = N - d /\ history_first' = Wrap(history_first + d) /\ history_first \in Index
    BY DEF DropHead, RingInv, RingTypes
  <1>2. ~cut => Cardinality(HolesBelow(N - d)') = Cardinality(HolesBelow(N)) - Cardinality(HolesBelow(d))
    <2> SUFFICES ASSUME ~cut
                 PROVE  Cardinality(HolesBelow(N - d)') = Cardinality(HolesBelow(N)) - Cardinality(HolesBelow(d))
      OBVIOUS
    <2>1. d \in 0 .. N /\ N \in 0 .. HistorySize
      BY <1>0
    <2>2. \A p \in 0 .. N - 1 : At(p) \in Index
      <3>1. \A p \in 0 .. N - 1 : p \in 0 .. HistorySize - 1
        BY <1>0
      <3> QED
        BY <1>1, <3>1, AtIndex
    <2>3. PICK h : h = history'
      OBVIOUS
    <2>4. \A p \in 0 .. N - 1 : h[At(p)].itemid = Gap <=> history[At(p)].itemid = Gap
      BY <2>2, <2>3
    <2> QED
      BY <1>1, <2>1, <2>3, <2>4, HolesShift
  <1>3. PICK x \in Int : x = Cardinality(HolesBelow(N))
    BY <1>0, HolesFinite
  <1>4. CASE history_gap_num' = g - d /\ (~cut => \A p \in 0 .. d - 1 : history[At(p)].itemid = Gap)
    <2>1. ~cut => Cardinality(HolesBelow(d)) = d
      <3> SUFFICES ASSUME ~cut PROVE Cardinality(HolesBelow(d)) = d
        OBVIOUS
      <3>1. HolesBelow(d) = 0 .. d - 1
        BY <1>4 DEF HolesBelow
      <3>2. 0 \in Int /\ d - 1 \in Int /\ (IF 0 > d - 1 THEN 0 ELSE (d - 1) - 0 + 1) = d
        BY <1>0
      <3> QED
        BY <3>1, <3>2, FS_Interval
    <2>2. ~cut => Cardinality(HolesBelow(N - d)') = Cardinality(HolesBelow(N)) + (0 - d)
      BY <1>0, <1>2, <1>3, <2>1
    <2>3. history_gap_num' = g + (0 - d)
      BY <1>0, <1>4
    <2> QED
      BY <1>0, <1>1, <2>2, <2>3, GapPlain
  <1>5. CASE history_gap_num' = g /\ \A p \in 0 .. d - 1 : history[At(p)].itemid # Gap
    <2>1. Cardinality(HolesBelow(d)) = 0
      <3>1. HolesBelow(d) = {}
        BY <1>5 DEF HolesBelow
      <3> QED
        BY <3>1, FS_EmptySet
    <2>2. ~cut => Cardinality(HolesBelow(N - d)') = Cardinality(HolesBelow(N)) + 0
      BY <1>0, <1>2, <1>3, <2>1
    <2>3. history_gap_num' = g + 0
      BY <1>0, <1>5
    <2> QED
      BY <1>0, <1>1, <2>2, <2>3, GapPlain
  <1> QED
    BY <1>4, <1>5

\* What a syncer finds at the slot it visits.
LEMMA GapVisits ==
  ASSUME BaseInv, RingInv, NEW s \in SyncProcs, Scanning(s), UNCHANGED pc
  PROVE  /\ ~Vacuuming /\ ~Vacuuming'
         /\ \E N \in 1 .. HistorySize, q \in 0 .. HistorySize - 1, num \in 0 .. HistorySize :
              /\ history_num = N /\ reg.num = num /\ q < N /\ reg.f = At(q) /\ At(q) \in Index
              /\ reg.f = history_first => q = 0
              /\ ~cut => q + num <= N
              /\ \A p \in 0 .. N - 1 : q <= p /\ p < q + num => history[At(p)].itemid = history[At(q)].itemid
  <1>0. HistorySize \in Nat \ {0} /\ history_first \in Index
    BY SizeAssumption DEF RingInv, RingTypes
  <1>1. ~Vacuuming /\ ~Vacuuming'
    <2>1. ~Vacuuming
      BY ScanRow
    <2> QED
      BY <2>1 DEF Vacuuming
  <1>2. PICK N \in 1 .. HistorySize, n \in 1 .. HistorySize, num \in Nat :
          /\ history_num = N /\ reg.n = n /\ reg.num = num /\ n <= N /\ reg.f = At(N - n)
          /\ Row \in [0 .. N - 1 -> Slot]
          /\ RunInv(Row, N, N - n, num)
          /\ \A k \in 0 .. N - 1 : At(k) \in Index /\ Row[k] = history[At(k)]
    BY ScanRow
  <1>3. PICK q \in 0 .. N - 1 : q = N - n
    BY <1>0, <1>2
  <1>4. q \in 0 .. HistorySize - 1 /\ q < N /\ q \in DOMAIN Row
    BY <1>0, <1>2
  <1>5. /\ q + num <= HistorySize /\ (~cut => q + num <= N)
        /\ \A k \in DOMAIN Row : q <= k /\ k < q + num => Row[k].itemid = Row[q].itemid
    BY <1>2, <1>3 DEF RunInv
  <1>6. num \in 0 .. HistorySize
    BY <1>0, <1>4, <1>5
  <1>7. reg.f = history_first => q = 0
    <2>1. 0 \in 0 .. HistorySize - 1 /\ At(0) = history_first
      BY <1>0, AtIndex
    <2> QED
      BY <1>0, <1>2, <1>3, <1>4, <2>1, AtIndex
  <1>8. \A p \in 0 .. N - 1 : q <= p /\ p < q + num => history[At(p)].itemid = history[At(q)].itemid
    BY <1>2, <1>5
  <1> QED
    BY <1>1, <1>2, <1>3, <1>4, <1>5, <1>6, <1>7, <1>8

LEMMA GapVisit ==
  ASSUME BaseInv, RingInv, GapInv, NEW s \in SyncProcs, VisitBusy(s) \/ VisitGap(s)
  PROVE  GapInv'
  <1>0. HistorySize \in Nat \ {0}
    BY SizeAssumption
  <1>1. /\ Scanning(s) /\ UNCHANGED <<pc, cut>>
        /\ history' = SkipItems(history)
        /\ \/ UNCHANGED <<history_first, history_num, history_gap_num>>
           \/ history[reg.f].itemid = Gap /\ reg.f = history_first /\ DropHoles(reg.num)
    BY DEF VisitBusy, VisitGap, RunFound, ghost, sync
  <1>2. ~Vacuuming /\ ~Vacuuming'
    BY <1>1, GapVisits
  <1>3. PICK N \in 1 .. HistorySize, q \in 0 .. HistorySize - 1, num \in 0 .. HistorySize :
              /\ history_num = N /\ reg.num = num /\ q < N /\ reg.f = At(q)
              /\ reg.f = history_first => q = 0
              /\ ~cut => q + num <= N
              /\ \A p \in 0 .. N - 1 : q <= p /\ p < q + num => history[At(p)].itemid = history[At(q)].itemid
    BY <1>1, GapVisits
  <1>4. \A f \in Index : history'[f].itemid = history[f].itemid
    BY <1>1, SkipItemsKeeps
  <1>5. PICK g \in Int : history_gap_num = g
    BY DEF GapInv
  <1>6. CASE UNCHANGED <<history_first, history_num, history_gap_num>>
    <2>1. DropHead(0) /\ 0 \in 0 .. HistorySize /\ 0 <= N /\ history_gap_num' = g
      <3>1. history_first \in Index
        BY DEF RingInv, RingTypes
      <3>2. N - 0 = N /\ Wrap(history_first + 0) = history_first
        BY <1>0, <3>1 DEF Wrap, Index
      <3> QED
        BY <1>0, <1>3, <1>5, <1>6, <3>2 DEF DropHead
    <2>2. \A p \in 0 .. 0 - 1 : history[At(p)].itemid # Gap
      OBVIOUS
    <2> QED
      BY <1>1, <1>2, <1>3, <1>4, <1>5, <2>1, <2>2, GapHead
  <1>7. CASE history[reg.f].itemid = Gap /\ reg.f = history_first /\ DropHoles(reg.num)
    <2>1. q = 0 /\ DropHead(num) /\ history_gap_num' = g - num
      BY <1>3, <1>5, <1>7 DEF DropHoles
    <2>2. ~cut => num <= N /\ \A p \in 0 .. num - 1 : history[At(p)].itemid = Gap
      <3> SUFFICES ASSUME ~cut PROVE num <= N /\ \A p \in 0 .. num - 1 : history[At(p)].itemid = Gap
        OBVIOUS
      <3>1. num <= N
        BY <1>0, <1>3, <2>1
      <3>2. \A p \in 0 .. num - 1 : p \in 0 .. N - 1 /\ q <= p /\ p < q + num
        BY <1>0, <2>1, <3>1
      <3> QED
        BY <1>3, <1>7, <3>1, <3>2
    <2> QED
      BY <1>1, <1>2, <1>3, <1>4, <1>5, <2>1, <2>2, GapHead
  <1> QED
    BY <1>1, <1>6, <1>7

\* A value leaves the ring: at its head, or with a hole in its place.
LEMMA GapTake ==
  ASSUME BaseInv, RingInv, GapInv, NEW s \in SyncProcs, VisitTake(s) \/ ProxyTake(s)
  PROVE  GapInv'
  <1>0. HistorySize \in Nat \ {0} /\ history_first \in Index
    BY SizeAssumption DEF RingInv, RingTypes
  <1>1. PICK h : /\ Scanning(s) /\ UNCHANGED <<pc, cut>> /\ Take(s, h)
                 /\ h = SkipItems(history) \/ h = history
                 /\ Server => history[reg.f].itemid # Gap
    BY DEF VisitTake, ProxyTake, RunFound, ghost
  <1>2. ~Vacuuming /\ ~Vacuuming'
    BY <1>1, GapVisits
  <1>3. PICK N \in 1 .. HistorySize, q \in 0 .. HistorySize - 1 :
              /\ history_num = N /\ q < N /\ reg.f = At(q) /\ At(q) \in Index
              /\ reg.f = history_first => q = 0
    BY <1>1, GapVisits
  <1>4. /\ h = [f \in Index |-> h[f]]
        /\ \A f \in Index : h[f].itemid = history[f].itemid
    BY <1>1, SkipItemsKeeps DEF RingInv, RingTypes
  <1>5. PICK g \in Int : history_gap_num = g
    BY DEF GapInv
  <1>6. history[reg.f].itemid # Gap
    <2>1. CASE Server
      BY <1>1, <2>1
    <2>2. CASE ~Server
      <3>1. \A k \in DOMAIN Row : IsValue(Row[k])
        BY <2>2 DEF RingInv, ProxyInv
      <3>2. q \in 0 .. N - 1 /\ Row \in [0 .. N - 1 -> Slot] /\ Row[q] = history[At(q)]
        <4>1. q \in 0 .. N - 1 /\ N \in Int
          BY <1>0, <1>3
        <4> QED
          BY <1>2, <1>3, <4>1, RowRing
      <3> QED
        BY <1>3, <3>1, <3>2 DEF IsValue
    <2> QED
      BY <2>1, <2>2
  <1>7. CASE reg.f = history_first /\ history' = h /\ DropHead(1) /\ UNCHANGED history_gap_num
    <2>1. 1 \in 0 .. HistorySize /\ 1 <= N /\ history_gap_num' = g
      BY <1>0, <1>5, <1>7
    <2>2. \A p \in 0 .. 1 - 1 : history[At(p)].itemid # Gap
      <3>1. \A p \in 0 .. 1 - 1 : p = 0
        OBVIOUS
      <3> QED
        BY <1>3, <1>6, <1>7, <3>1
    <2> QED
      BY <1>1, <1>2, <1>3, <1>4, <1>5, <1>7, <2>1, <2>2, GapHead
  <1>8. CASE /\ history' = [h EXCEPT ![reg.f] = Hole(h[reg.f])]
             /\ history_gap_num' = history_gap_num + 1
             /\ UNCHANGED <<history_first, history_num>>
    <2>1. \A p \in 0 .. N - 1 : p \in 0 .. HistorySize - 1 /\ At(p) \in Index
      <3>1. \A p \in 0 .. N - 1 : p \in 0 .. HistorySize - 1
        BY <1>0
      <3> QED
        BY <1>0, <3>1, AtIndex
    <2>2. Hole(h[reg.f]).itemid = Gap
      <3>1. h[reg.f] \in Slot
        <4>1. history \in [Index -> Slot]
          BY DEF RingInv, RingTypes
        <4>2. \A slot \in Slot : \A num \in Nat : [slot EXCEPT !.num = num] \in Slot
          BY DEF Slot
        <4>3. reg.num \in Nat
          BY DEF RingInv, RingTypes
        <4>4. SkipItems(history)[reg.f] = [history[reg.f] EXCEPT !.num = reg.num]
          BY <1>3, <4>1 DEF SkipItems
        <4> QED
          BY <1>1, <1>3, <4>1, <4>2, <4>3, <4>4
      <3> QED
        BY <3>1 DEF Hole, Slot
    <2>3. ASSUME NEW p \in 0 .. N - 1
          PROVE  history'[At(p)'].itemid = Gap <=> p = q \/ history[At(p)].itemid = Gap
      <3>1. At(p)' = At(p) /\ At(p) \in Index /\ (At(p) = reg.f <=> p = q)
        BY <1>0, <1>3, <1>8, <2>1, AtIndex DEF At
      <3> QED
        BY <1>4, <1>8, <2>2, <3>1
    <2>4. /\ HolesBelow(N)' = HolesBelow(N) \cup {q} /\ q \notin HolesBelow(N)
          /\ N \in Int /\ N \in 1 .. HistorySize
      BY <1>3, <1>6, <2>3 DEF HolesBelow
    <2>5. Cardinality(HolesBelow(N)') = Cardinality(HolesBelow(N)) + 1
      BY <2>4, HolesFinite, FS_AddElement
    <2>6. 1 \in Int /\ history_gap_num' = g + 1 /\ history_num' = N
      BY <1>3, <1>5, <1>8
    <2> QED
      BY <1>1, <1>2, <1>3, <1>5, <2>4, <2>5, <2>6, GapPlain
  <1> QED
    BY <1>1, <1>7, <1>8 DEF Take

\* A hole is dropped at the tail.
LEMMA GapTrim ==
  ASSUME BaseInv, RingInv, GapInv, NEW s \in SyncProcs, TrimStep(s)
  PROVE  GapInv'
  <1>1. /\ UNCHANGED <<history, history_first, cut, pc>>
        /\ pc[s] = "trim" /\ cache_lock = s
        /\ history_num > 0 /\ history[At(history_num - 1)].itemid = Gap
        /\ history_num' = history_num - 1 /\ history_gap_num' = history_gap_num - 1
    BY DEF TrimStep, TailGap, ghost
  <1>2. ~Vacuuming /\ ~Vacuuming'
    BY <1>1, Phases DEF Vacuuming
  <1>3. PICK N \in Int : history_num = N
    BY DEF RingInv, RingTypes
  <1>4. PICK g \in Int : history_gap_num = g
    BY DEF GapInv
  <1>5. N > 0 /\ N - 1 \in Int /\ -1 \in Int /\ history_num' = N - 1 /\ history_gap_num' = g + (-1)
    BY <1>1, <1>3, <1>4
  <1>6. SameHoles(N - 1)
    BY <1>1 DEF SameHoles, At
  <1>7. HolesBelow(N) = HolesBelow(N - 1) \cup {N - 1} /\ N - 1 \notin HolesBelow(N - 1)
    <2>1. /\ \A p : p \in 0 .. N - 1 <=> p \in 0 .. (N - 1) - 1 \/ p = N - 1
          /\ N - 1 \notin 0 .. (N - 1) - 1
      BY <1>5
    <2> QED
      BY <1>1, <1>3, <2>1 DEF HolesBelow
  <1>8. Cardinality(HolesBelow(N - 1)') = Cardinality(HolesBelow(N)) + (-1)
    <2>1. Cardinality(HolesBelow(N)) = Cardinality(HolesBelow(N - 1)) + 1
      BY <1>5, <1>7, HolesFinite, FS_AddElement
    <2>2. HolesBelow(N - 1)' = HolesBelow(N - 1)
      BY <1>5, <1>6, HolesSame
    <2>3. PICK x \in Int : x = Cardinality(HolesBelow(N - 1))
      BY <1>5, HolesFinite
    <2> QED
      BY <2>1, <2>2, <2>3
  <1> QED
    BY <1>1, <1>2, <1>3, <1>4, <1>5, <1>8, GapPlain

LEMMA GapNext ==
  BaseInv /\ BaseInv' /\ RingInv /\ RingInv' /\ GapInv /\ [Next]_vars /\ ~torn' => GapInv'
  <1> SUFFICES ASSUME BaseInv, BaseInv', RingInv, RingInv', GapInv, [Next]_vars, ~torn' PROVE GapInv'
    OBVIOUS
  <1>1. ASSUME NEW w \in Writers, dc_flush_history(w) \/ Retry(w) \/ Fill(w) PROVE GapInv'
    <2>1. CASE dc_flush_history(w) \/ Retry(w) \/ FlushDone(w) \/ VacTextDone(w) \/ TextFull(w)
      BY <2>1, GapQuiet
    <2>2. CASE RingFull(w)
      BY <2>2, GapQuiet, GapVacuumBegins
    <2>3. CASE VacTextStep(w) \/ VacuumStep(w) \/ VacuumDone(w) \/ DCadd_history(w)
      BY <2>3, GapTextStep, GapVacuumStep, GapVacuumDone, GapAdd
    <2> QED
      BY <1>1, <2>1, <2>2, <2>3 DEF Fill
  <1>2. ASSUME NEW s \in SyncProcs, SyncIdle(s) \/ Collect(s) \/ Drain(s) \/ Release(s) PROVE GapInv'
    <2>1. CASE \/ SyncStart(s) \/ SyncIdle(s) \/ Collect(s) \/ SkipStep(s)
               \/ ScanDone(s) \/ TrimDone(s) \/ Commit(s) \/ Release(s)
      BY <2>1, GapQuiet
    <2>2. CASE VisitBusy(s) \/ VisitGap(s) \/ VisitTake(s) \/ ProxyTake(s) \/ TrimStep(s)
      BY <2>2, GapVisit, GapTake, GapTrim
    <2> QED
      BY <1>2, <2>1, <2>2 DEF Drain
  <1>3. CASE \E w \in Writers : \E i \in Items : dc_add_history(w, i)
    BY <1>3, GapQuiet
  <1>4. CASE Terminate \/ SyncFull \/ Stopped \/ UNCHANGED vars
    BY <1>4, GapQuiet
  <1> QED
    BY <1>1, <1>2, <1>3, <1>4 DEF Next

LEMMA GapInit == Init => GapInv
  <1> SUFFICES ASSUME Init PROVE GapInv
    OBVIOUS
  <1>1. ~Vacuuming
    BY DEF Init, Vacuuming, Procs
  <1>2. history_num = 0 /\ history_gap_num = 0
    BY DEF Init
  <1>3. HolesBelow(0) = {}
    BY DEF HolesBelow
  <1> QED
    BY <1>1, <1>2, <1>3, FS_EmptySet DEF GapInv, Gone

--------------------------------------------------------------------------------
(***************************************************************************)
(* The types, and what the ring tells.                                     *)
(***************************************************************************)

\* What is kept outside of the ring.
OtherTypes ==
  /\ itemids \in SUBSET Items
  /\ text_free \in Int
  /\ cache_lock \in Procs \cup {Nobody}
  /\ pc \in [Procs -> PcLabels]
  /\ batch \in [SyncProcs -> SUBSET Value]
  /\ syncs \in [SyncProcs -> Nat]
  /\ skipped \in [SyncProcs -> BOOLEAN]
  /\ gathered \in 0 .. MaxGathered
  /\ db \in [Items -> SUBSET Nat]
  /\ lost \in [Items -> SUBSET Nat]

\* The registers are in bounds, and the count of a ring that was cut is not below
\* what one run can take from it.
RegTypes ==
  /\ history_num >= - HistorySize
  /\ reg.n >= - HistorySize /\ reg.n <= HistorySize /\ (~cut => reg.n >= 0)
  /\ reg.f \in Index /\ reg.num <= HistorySize
  /\ reg.gap \in 0 .. HistorySize /\ reg.data \in 0 .. HistorySize

LEMMA OtherInit == Init => OtherTypes
  <1> SUFFICES ASSUME Init PROVE OtherTypes
    OBVIOUS
  <1>1. TextSize \in Nat /\ MaxGathered \in Nat
    BY SizeAssumption
  <1>2. "idle" \in PcLabels
    BY DEF PcLabels
  <1> QED
    BY <1>1, <1>2 DEF Init, OtherTypes

LEMMA RegInit == Init => RegTypes
  BY SizeAssumption DEF Init, RegTypes, Regs0, Index

\* The steps that do not touch what syncers take and write.
LEMMA OtherWriter ==
  ASSUME RingInv, OtherTypes, NEW w \in Writers,
         \/ \E i \in Items : dc_add_history(w, i)
         \/ dc_flush_history(w) \/ Retry(w) \/ Fill(w)
  PROVE  OtherTypes'
  <1>1. UNCHANGED <<itemids, batch, syncs, skipped, db, lost>>
    BY DEF dc_add_history, dc_flush_history, Retry, Fill, TextFull, VacTextStep, VacTextDone, RingFull,
       VacuumStep, VacuumDone, DCadd_history, FlushDone, sync, ghost
  <1>2. pc' \in [Procs -> PcLabels]
    <2>1. pc' = pc \/ \E l \in {"idle", "add", "sleep", "vacuum", "vactext"} : pc' = [pc EXCEPT ![w] = l]
      BY DEF dc_add_history, dc_flush_history, Retry, Fill, TextFull, VacTextStep, VacTextDone, RingFull,
         VacuumStep, VacuumDone, DCadd_history, FlushDone, Sleep, Goto
    <2> QED
      BY <2>1 DEF OtherTypes, PcLabels
  <1>3. cache_lock' \in Procs \cup {Nobody}
    <2>1. cache_lock' \in {cache_lock, w, Nobody}
      BY DEF dc_add_history, dc_flush_history, Retry, Fill, TextFull, VacTextStep, VacTextDone, RingFull,
         VacuumStep, VacuumDone, DCadd_history, FlushDone, Sleep, Lock, Unlock
    <2> QED
      BY <2>1 DEF OtherTypes, Procs
  <1>4. text_free' \in Int /\ gathered' \in 0 .. MaxGathered
    <2>1. CASE \E i \in Items : dc_add_history(w, i)
      <3>1. gathered < MaxGathered /\ gathered' = gathered + 1 /\ text_free' = text_free
        BY <2>1 DEF dc_add_history, textbuf
      <3>2. MaxGathered \in Nat /\ gathered \in 0 .. MaxGathered /\ text_free \in Int
        BY SizeAssumption DEF OtherTypes
      <3> QED
        BY <3>1, <3>2
    <2>2. CASE DCadd_history(w)
      <3>1. gathered' = gathered /\ text_free' = text_free - TextLen[Head(local[w])] /\ local[w] # <<>>
        BY <2>2 DEF DCadd_history
      <3>2. local[w] \in Seq(Items)
        BY DEF RingInv, RingTypes
      <3>3. TextLen[Head(local[w])] \in Int
        <4>1. Head(local[w]) \in Items
          BY <3>1, <3>2
        <4> QED
          BY <4>1, TextAssumption, SizeAssumption
      <3> QED
        BY <3>1, <3>3 DEF OtherTypes
    <2>3. CASE ~(\E i \in Items : dc_add_history(w, i)) /\ ~DCadd_history(w)
      <3>1. UNCHANGED <<text_free, gathered>>
        BY <2>3 DEF dc_flush_history, Retry, Fill, TextFull, VacTextStep, VacTextDone, RingFull,
           VacuumStep, VacuumDone, FlushDone, textbuf, ghost
      <3> QED
        BY <3>1 DEF OtherTypes
    <2> QED
      BY <2>1, <2>2, <2>3
  <1> QED
    BY <1>1, <1>2, <1>3, <1>4 DEF OtherTypes

\* What a syncer takes is a value of an item.
LEMMA OtherTake ==
  ASSUME BaseInv, RingInv, OtherTypes, NEW s \in SyncProcs, VisitTake(s) \/ ProxyTake(s)
  PROVE  OtherTypes'
  <1> DEFINE slot == history[reg.f]
  <1>1. /\ Scanning(s)
        /\ batch' = [batch EXCEPT ![s] = batch[s] \cup {[itemid |-> slot.itemid, val |-> slot.val]}]
        /\ text_free' = text_free + slot.len
        /\ UNCHANGED <<pc, cache_lock, syncs, gathered, db, lost>>
        /\ \/ itemids' = itemids /\ ~Server
           \/ itemids' = itemids \cup {slot.itemid} /\ slot.itemid # Gap
        /\ skipped' = skipped \/ skipped' = [skipped EXCEPT ![s] = skipped[s] \/ reg.num > 1]
    BY DEF VisitTake, ProxyTake, RunFound, Take, GiveBack, Mark, ghost
  <1>2. slot \in Slot /\ slot.itemid # Gap
    <2>1. PICK N \in 1 .. HistorySize, n \in 1 .. HistorySize :
            /\ n <= N /\ reg.f = At(N - n) /\ Row \in [0 .. N - 1 -> Slot]
            /\ \A k \in 0 .. N - 1 : At(k) \in Index /\ Row[k] = history[At(k)]
      BY <1>1, ScanRow
    <2>2. N - n \in 0 .. N - 1
      <3>1. HistorySize \in Nat
        BY SizeAssumption
      <3> QED
        BY <2>1, <3>1
    <2>3. slot = Row[N - n]
      BY <2>1, <2>2
    <2>4. ~Server => slot.itemid # Gap
      BY <2>1, <2>2, <2>3 DEF RingInv, ProxyInv, IsValue
    <2> QED
      BY <1>1, <2>1, <2>2, <2>3, <2>4
  <1> HIDE DEF slot
  <1>3. slot.itemid \in Items /\ slot.val \in Nat /\ slot.len \in Int
    BY <1>2 DEF Slot
  <1>4. [itemid |-> slot.itemid, val |-> slot.val] \in Value
    BY <1>3 DEF Value
  <1>5. batch' \in [SyncProcs -> SUBSET Value]
    BY <1>1, <1>4 DEF OtherTypes
  <1>6. text_free' \in Int /\ itemids' \in SUBSET Items
    BY <1>1, <1>3 DEF OtherTypes
  <1>7. skipped' \in [SyncProcs -> BOOLEAN]
    BY <1>1 DEF OtherTypes
  <1> QED
    BY <1>1, <1>5, <1>6, <1>7 DEF OtherTypes

LEMMA OtherSyncer ==
  ASSUME BaseInv, RingInv, OtherTypes, NEW s \in SyncProcs, SyncIdle(s) \/ Collect(s) \/ Drain(s) \/ Release(s)
  PROVE  OtherTypes'
  <1>0. s \in Procs
    BY DEF Procs
  <1>1. CASE VisitTake(s) \/ ProxyTake(s)
    BY <1>1, OtherTake
  <1>2. CASE ~VisitTake(s) /\ ~ProxyTake(s)
    <2>1. UNCHANGED <<text_free, gathered>>
      BY <1>2 DEF SyncIdle, Collect, Drain, Release, SyncStart, SkipStep, VisitGap, VisitBusy, ScanDone,
         TrimStep, TrimDone, Commit, vars, textbuf, ghost
    <2>2. pc' \in [Procs -> PcLabels]
      <3>1. pc' = pc \/ \E l \in {"idle", "done", "collect", "scan", "trim", "db", "release"} : pc' = [pc EXCEPT ![s] = l]
        BY <1>2 DEF SyncIdle, Collect, Drain, Release, SyncStart, SkipStep, VisitGap, VisitBusy, ScanDone,
           TrimStep, TrimDone, Commit, vars, Continue, Return, Goto
      <3> QED
        BY <3>1 DEF OtherTypes, PcLabels
    <2>3. cache_lock' \in Procs \cup {Nobody}
      <3>1. cache_lock' \in {cache_lock, s, Nobody}
        BY <1>2 DEF SyncIdle, Collect, Drain, Release, SyncStart, SkipStep, VisitGap, VisitBusy, ScanDone,
           TrimStep, TrimDone, Commit, vars, Lock, Unlock
      <3> QED
        BY <1>0, <3>1 DEF OtherTypes
    <2>4. itemids' \in SUBSET Items
      <3>1. itemids' = itemids \/ itemids' = itemids \ BatchItems(s)
        BY <1>2 DEF SyncIdle, Collect, Drain, Release, SyncStart, SkipStep, VisitGap, VisitBusy, ScanDone,
           TrimStep, TrimDone, Commit, vars, Unmark
      <3> QED
        BY <3>1 DEF OtherTypes
    <2>5. batch' \in [SyncProcs -> SUBSET Value]
      <3>1. batch' = batch \/ batch' = [batch EXCEPT ![s] = {}]
        BY <1>2 DEF SyncIdle, Collect, Drain, Release, SyncStart, SkipStep, VisitGap, VisitBusy, ScanDone,
           TrimStep, TrimDone, Commit, vars, sync
      <3> QED
        BY <3>1 DEF OtherTypes
    <2>6. skipped' \in [SyncProcs -> BOOLEAN]
      <3>1. skipped' = skipped \/ skipped' = [skipped EXCEPT ![s] = FALSE] \/ skipped' = [skipped EXCEPT ![s] = TRUE]
        BY <1>2 DEF SyncIdle, Collect, Drain, Release, SyncStart, SkipStep, VisitGap, VisitBusy, ScanDone,
           TrimStep, TrimDone, Commit, vars, sync
      <3> QED
        BY <3>1 DEF OtherTypes
    <2>7. syncs' \in [SyncProcs -> Nat]
      <3>1. CASE SyncStart(s)
        <4>1. syncs' = [syncs EXCEPT ![s] = history_num \div SyncMax] /\ pc[s] = "idle" /\ s \in Syncers
          BY <3>1 DEF SyncStart
        <4>2. ~cut
          <5>1. s # Main /\ s \in Procs
            BY <1>0, <4>1, ProcsAssumption
          <5> QED
            BY <4>1, <5>1 DEF BaseInv, LockInv
        <4>3. history_num \in Nat /\ SyncMax \in Nat \ {0}
          BY <4>2, SizeAssumption DEF RingInv, RingTypes
        <4>4. history_num \div SyncMax \in Nat
          BY <4>3
        <4> QED
          BY <4>1, <4>4 DEF OtherTypes
      <3>2. CASE Release(s)
        <4>1. syncs' = [syncs EXCEPT ![s] = IF syncs[s] = 0 THEN 0 ELSE syncs[s] - 1] /\ syncs[s] \in Nat
          BY <3>2 DEF Release, Continue, OtherTypes
        <4>2. (IF syncs[s] = 0 THEN 0 ELSE syncs[s] - 1) \in Nat
          BY <4>1
        <4> QED
          BY <4>1, <4>2 DEF OtherTypes
      <3>3. CASE ~SyncStart(s) /\ ~Release(s)
        <4>1. syncs' = syncs
          BY <1>2, <3>3 DEF SyncIdle, Collect, Drain, SkipStep, VisitGap, VisitBusy, ScanDone,
             TrimStep, TrimDone, Commit, vars, sync
        <4> QED
          BY <4>1 DEF OtherTypes
      <3> QED
        BY <3>1, <3>2, <3>3
    <2>8. db' \in [Items -> SUBSET Nat] /\ lost' \in [Items -> SUBSET Nat]
      <3>1. CASE Commit(s)
        <4>1. \A i \in Items : BatchVals(s, i) \in SUBSET Nat
          BY DEF BatchVals, OtherTypes, Value
        <4>2. \/ db' = [i \in Items |-> db[i] \cup BatchVals(s, i)] /\ lost' = lost
              \/ lost' = [i \in Items |-> lost[i] \cup BatchVals(s, i)] /\ db' = db
          BY <3>1 DEF Commit
        <4> QED
          BY <4>1, <4>2 DEF OtherTypes
      <3>2. CASE ~Commit(s)
        <4>1. db' = db /\ lost' = lost
          BY <1>2, <3>2 DEF SyncIdle, Collect, Drain, Release, SyncStart, SkipStep, VisitGap, VisitBusy, ScanDone,
             TrimStep, TrimDone, vars, ghost
        <4> QED
          BY <4>1 DEF OtherTypes
      <3> QED
        BY <3>1, <3>2
    <2> QED
      BY <2>1, <2>2, <2>3, <2>4, <2>5, <2>6, <2>7, <2>8 DEF OtherTypes
  <1> QED
    BY <1>1, <1>2

LEMMA OtherNext == BaseInv /\ RingInv /\ OtherTypes /\ [Next]_vars => OtherTypes'
  <1> SUFFICES ASSUME BaseInv, RingInv, OtherTypes, [Next]_vars PROVE OtherTypes'
    OBVIOUS
  <1>1. CASE Terminate
    <2>1. \A s \in SyncProcs, i \in Items : BatchVals(s, i) \in SUBSET Nat
      BY DEF BatchVals, OtherTypes, Value
    <2>2. lost' \in [Items -> SUBSET Nat]
      <3>1. lost' = [i \in Items |-> lost[i] \cup UNION {BatchVals(s, i) : s \in {t \in Syncers : pc[t] # "release"}}]
        BY <1>1 DEF Terminate
      <3> QED
        BY <2>1, <3>1 DEF OtherTypes, SyncProcs
    <2>3. UNCHANGED <<itemids, text_free, syncs, skipped, gathered, db>> /\ cache_lock' = Nobody
      BY <1>1 DEF Terminate, textbuf
    <2>4. pc' \in [Procs -> PcLabels] /\ batch' \in [SyncProcs -> SUBSET Value]
      BY <1>1 DEF Terminate, PcLabels
    <2> QED
      BY <2>2, <2>3, <2>4 DEF OtherTypes
  <1>2. CASE SyncFull
    <2>1. /\ UNCHANGED <<text_free, syncs, skipped, gathered, db, lost, cache_lock, batch>> /\ itemids' = {}
          /\ \E l \in {"done", "collect"} : pc' = [pc EXCEPT ![Main] = l]
      BY <1>2 DEF SyncFull, Goto, textbuf, sync, ghost
    <2>2. pc' \in [Procs -> PcLabels]
      BY <2>1 DEF OtherTypes, PcLabels
    <2> QED
      BY <2>1, <2>2 DEF OtherTypes
  <1>3. CASE Stopped \/ UNCHANGED vars
    BY <1>3 DEF Stopped, vars, textbuf, sync, ghost, OtherTypes
  <1> QED
    BY <1>1, <1>2, <1>3, OtherWriter, OtherSyncer DEF Next

LEMMA RegSame ==
  ASSUME RegTypes, reg' = reg \/ reg' = Regs0, history_num' >= - HistorySize, ~cut' => ~cut
  PROVE  RegTypes'
  <1>1. HistorySize \in Nat \ {0}
    BY SizeAssumption
  <1>2. CASE reg' = reg
    BY <1>2 DEF RegTypes, Index
  <1>3. CASE reg' = Regs0
    BY <1>1, <1>3 DEF RegTypes, Regs0, Index
  <1> QED
    BY <1>2, <1>3

\* The loops over the ring start with the count of the ring.
LEMMA RegStart ==
  ASSUME RingInv, RegTypes, UNCHANGED <<history_num, cut>>,
         \/ reg' = [Regs0 EXCEPT !.n = history_num]
         \/ reg' = [Regs0 EXCEPT !.n = history_num, !.f = history_first]
  PROVE  RegTypes'
  <1>1. HistorySize \in Nat \ {0}
    BY SizeAssumption
  <1>2. PICK N \in Int : /\ history_num = N /\ N <= HistorySize /\ N >= - HistorySize /\ (~cut => N >= 0)
                         /\ history_first \in Index
    BY DEF RingInv, RingTypes, RegTypes
  <1>3. reg'.n = N /\ reg'.f \in {0, history_first} /\ reg'.num = 0 /\ reg'.gap = 0 /\ reg'.data = 0
    BY <1>2 DEF Regs0
  <1>4. 0 \in Index /\ 0 \in 0 .. HistorySize /\ 0 <= HistorySize
    BY <1>1 DEF Index
  <1>5. reg'.f \in Index
    BY <1>2, <1>3, <1>4
  <1> QED
    BY <1>2, <1>3, <1>4, <1>5 DEF RegTypes, Index

\* The registers of the compaction count slots of the ring.
LEMMA RegVacuum ==
  ASSUME BaseInv, RingInv, RingInv', RegTypes, NEW w \in Writers, VacuumStep(w)
  PROVE  RegTypes'
  <1>1. HistorySize \in Nat \ {0}
    BY SizeAssumption
  <1>2. /\ UNCHANGED <<history_num, cut>> /\ Vacuuming'
        /\ reg' = [reg EXCEPT !.n = reg'.n, !.gap = reg'.gap, !.data = reg'.data]
    <2>1. pc[w] = "vacuum" /\ UNCHANGED <<history_num, cut, pc>>
      BY DEF VacuumStep, ghost
    <2>2. reg \in [n : Int, f : Int, num : Nat, gap : Int, data : Int]
      BY DEF RingInv, RingTypes
    <2>3. \/ reg' = [reg EXCEPT !.n = @ - 1, !.gap = @ + 1, !.data = 0]
          \/ reg' = [reg EXCEPT !.n = @ - 1]
          \/ reg' = [reg EXCEPT !.n = @ - 1, !.data = 0]
          \/ reg' = [reg EXCEPT !.n = @ - 1, !.data = @ + 1]
      BY DEF VacuumStep
    <2> QED
      BY <2>1, <2>2, <2>3 DEF Vacuuming
  <1>3. reg'.f = reg.f /\ reg'.num = reg.num
    <2>1. reg \in [n : Int, f : Int, num : Nat, gap : Int, data : Int]
      BY DEF RingInv, RingTypes
    <2> QED
      BY <1>2, <2>1
  <1>4. PICK n \in Nat, gap \in Nat, data \in Nat, N \in Int :
          /\ reg'.n = n /\ reg'.gap = gap /\ reg'.data = data /\ history_num' = N
          /\ n + data + gap <= N /\ N <= HistorySize
    BY <1>2 DEF RingInv, RingTypes, VacuumInv
  <1>5. /\ n >= - HistorySize /\ n <= HistorySize /\ n >= 0
        /\ gap \in 0 .. HistorySize /\ data \in 0 .. HistorySize
    BY <1>1, <1>4
  <1> QED
    BY <1>2, <1>3, <1>4, <1>5 DEF RegTypes, Index

LEMMA RegText ==
  ASSUME BaseInv, RingInv, RingInv', RegTypes, NEW w \in Writers, VacTextStep(w)
  PROVE  RegTypes'
  <1>1. HistorySize \in Nat \ {0}
    BY SizeAssumption
  <1>2. /\ UNCHANGED <<history_num, cut>> /\ Compacting'
        /\ reg' = [reg EXCEPT !.n = reg.n - 1, !.f = Wrap(reg.f + 1)]
    BY DEF VacTextStep, Compacting, ghost
  <1>3. /\ reg'.f = Wrap(reg.f + 1) /\ reg'.num = reg.num /\ reg'.gap = reg.gap /\ reg'.data = reg.data
    <2>1. reg \in [n : Int, f : Int, num : Nat, gap : Int, data : Int]
      BY DEF RingInv, RingTypes
    <2> QED
      BY <1>2, <2>1
  <1>4. PICK n \in Int, N \in Int : reg'.n = n /\ history_num' = N /\ n \in 0 .. N /\ N <= HistorySize
    BY <1>2 DEF RingInv, RingTypes, TextInv
  <1>5. n >= - HistorySize /\ n <= HistorySize /\ n >= 0
    BY <1>1, <1>4
  <1>6. Wrap(reg.f + 1) \in Index
    BY <1>1 DEF RegTypes, Wrap, Index
  <1> QED
    BY <1>2, <1>3, <1>4, <1>5, <1>6 DEF RegTypes, Index

\* A run ends inside the array.
LEMMA RegSkip ==
  ASSUME BaseInv, RingInv, RingInv', RegTypes, NEW s \in SyncProcs, SkipStep(s)
  PROVE  RegTypes'
  <1>1. HistorySize \in Nat \ {0}
    BY SizeAssumption
  <1>2. /\ UNCHANGED <<history_num, cut, pc>> /\ Scanning(s)
        /\ \E x : reg' = [reg EXCEPT !.num = x]
    BY DEF SkipStep, ring, ghost
  <1>3. reg'.n = reg.n /\ reg'.f = reg.f /\ reg'.gap = reg.gap /\ reg'.data = reg.data
    <2>1. reg \in [n : Int, f : Int, num : Nat, gap : Int, data : Int]
      BY DEF RingInv, RingTypes
    <2> QED
      BY <1>2, <2>1
  <1>4. Scanned' /\ reg.n > 0
    BY <1>2 DEF Scanned, Scanning
  <1>5. PICK n \in Int, N \in Int, num \in Nat :
          /\ reg'.n = n /\ history_num' = N /\ reg'.num = num
          /\ n <= N /\ (N - n) + num <= HistorySize
    <2>1. reg'.n <= history_num' /\ (history_num' - reg'.n) + reg'.num <= HistorySize
      BY <1>3, <1>4 DEF RingInv, ScanInv, RunInv
    <2>2. reg'.n \in Int /\ history_num' \in Int /\ reg'.num \in Nat
      BY DEF RingInv, RingTypes
    <2> QED
      BY <2>1, <2>2
  <1>6. num <= HistorySize
    BY <1>1, <1>5
  <1> QED
    BY <1>2, <1>3, <1>5, <1>6 DEF RegTypes, Index

\* A run is passed over.
LEMMA RegVisit ==
  ASSUME BaseInv, RingInv, RegTypes, NEW s \in SyncProcs,
         VisitBusy(s) \/ VisitGap(s) \/ VisitTake(s) \/ ProxyTake(s)
  PROVE  RegTypes'
  <1>1. HistorySize \in Nat \ {0}
    BY SizeAssumption
  <1>2. /\ Scanning(s) /\ cut' = cut
        /\ \/ Advance(reg.num) /\ (history_num' = history_num \/ history_num' = history_num - reg.num
                                   \/ history_num' = history_num - 1)
           \/ Advance(1) /\ (history_num' = history_num \/ history_num' = history_num - 1)
    BY DEF VisitBusy, VisitGap, VisitTake, ProxyTake, RunFound, Take, DropHoles, DropHead, ghost
  <1>3. PICK N \in 1 .. HistorySize, n \in 1 .. HistorySize, num \in Nat :
          /\ history_num = N /\ reg.n = n /\ reg.num = num /\ n <= N
          /\ Row \in [0 .. N - 1 -> Slot]
          /\ RunInv(Row, N, N - n, num)
    BY <1>2, ScanRow
  <1>4. (N - n) + num <= HistorySize
    BY <1>3 DEF RunInv
  <1>5. ~cut => (N - n) + num <= N
    BY <1>3 DEF RunInv
  <1>6. PICK k \in Nat : /\ reg' = [reg EXCEPT !.n = n - k, !.f = Wrap(reg.f + k), !.num = 0]
                         /\ k <= HistorySize /\ (~cut => n - k >= 0)
                         /\ history_num' \in {N, N - k, N - 1}
    <2>1. CASE Advance(reg.num) /\ (history_num' = history_num \/ history_num' = history_num - reg.num
                                      \/ history_num' = history_num - 1)
      <3>1. reg' = [reg EXCEPT !.n = n - num, !.f = Wrap(reg.f + num), !.num = 0]
        BY <1>3, <2>1 DEF Advance
      <3>2. num <= HistorySize /\ (~cut => n - num >= 0)
        BY <1>1, <1>3, <1>4, <1>5
      <3>3. history_num' \in {N, N - num, N - 1}
        BY <1>3, <2>1
      <3> QED
        BY <1>3, <3>1, <3>2, <3>3
    <2>2. CASE Advance(1) /\ (history_num' = history_num \/ history_num' = history_num - 1)
      <3>1. reg' = [reg EXCEPT !.n = n - 1, !.f = Wrap(reg.f + 1), !.num = 0]
        BY <1>3, <2>2 DEF Advance
      <3>2. 1 \in Nat /\ 1 <= HistorySize /\ n - 1 >= 0
        BY <1>1, <1>3
      <3>3. history_num' \in {N, N - 1}
        BY <1>3, <2>2
      <3> QED
        BY <1>3, <3>1, <3>2, <3>3
    <2> QED
      BY <1>2, <2>1, <2>2
  <1>7. /\ reg'.n = n - k /\ reg'.f = Wrap(reg.f + k) /\ reg'.num = 0
        /\ reg'.gap = reg.gap /\ reg'.data = reg.data
    <2>1. reg \in [n : Int, f : Int, num : Nat, gap : Int, data : Int]
      BY DEF RingInv, RingTypes
    <2> QED
      BY <1>6, <2>1
  <1>8. Wrap(reg.f + k) \in Index
    BY <1>1, <1>6 DEF RegTypes, Wrap, Index
  <1>9. n - k >= - HistorySize /\ n - k <= HistorySize
    BY <1>1, <1>3, <1>6
  <1>10. history_num' >= - HistorySize
    BY <1>1, <1>3, <1>6
  <1>11. 0 <= HistorySize
    BY <1>1
  <1> QED
    BY <1>2, <1>6, <1>7, <1>8, <1>9, <1>10, <1>11 DEF RegTypes, Index

LEMMA RegNext ==
  BaseInv /\ BaseInv' /\ RingInv /\ RingInv' /\ RegTypes /\ [Next]_vars /\ ~torn' => RegTypes'
  <1> SUFFICES ASSUME BaseInv, BaseInv', RingInv, RingInv', RegTypes, [Next]_vars, ~torn' PROVE RegTypes'
    OBVIOUS
  <1>0. HistorySize \in Nat \ {0}
    BY SizeAssumption
  <1>1. history_num \in Int /\ history_num >= - HistorySize
    BY DEF RingInv, RingTypes, RegTypes
  <1>2. ASSUME NEW w \in Writers, dc_flush_history(w) \/ Retry(w) \/ Fill(w) PROVE RegTypes'
    <2>1. CASE \/ dc_flush_history(w) \/ Retry(w) \/ FlushDone(w) \/ VacTextDone(w)
               \/ TextFull(w) /\ ~WorthVacuumText
               \/ RingFull(w) /\ HistorySize \div 100 >= history_gap_num
      <3>1. UNCHANGED <<history_num, cut>> /\ (reg' = reg \/ reg' = Regs0)
        BY <2>1 DEF dc_flush_history, Retry, FlushDone, VacTextDone, TextFull, RingFull, Sleep, ring, ghost
      <3> QED
        BY <1>1, <3>1, RegSame
    <2>2. CASE (TextFull(w) /\ WorthVacuumText) \/ (RingFull(w) /\ ~(HistorySize \div 100 >= history_gap_num))
      BY <2>2, RegStart DEF TextFull, RingFull, ring, ghost
    <2>3. CASE DCadd_history(w)
      <3>1. history_num' = history_num + 1 /\ reg' = reg /\ cut' = cut
        BY <2>3 DEF DCadd_history
      <3>2. history_num' >= - HistorySize
        BY <1>0, <1>1, <3>1
      <3> QED
        BY <3>1, <3>2, RegSame
    <2>4. CASE VacuumDone(w)
      <3>1. cut' = cut /\ reg' = Regs0 /\ pc[w] = "vacuum"
        BY <2>4 DEF VacuumDone, Sleep, ghost
      <3>2. ~cut
        BY <3>1, VacuumRow
      <3>3. history_num' \in Int /\ history_num' >= 0
        BY <3>1, <3>2 DEF RingInv, RingTypes
      <3>4. history_num' >= - HistorySize
        BY <1>0, <3>3
      <3> QED
        BY <3>1, <3>4, RegSame
    <2>5. CASE VacTextStep(w) \/ VacuumStep(w)
      BY <2>5, RegVacuum, RegText
    <2> QED
      BY <1>2, <2>1, <2>2, <2>3, <2>4, <2>5 DEF Fill
  <1>3. ASSUME NEW s \in SyncProcs, SyncIdle(s) \/ Collect(s) \/ Drain(s) \/ Release(s) PROVE RegTypes'
    <2>1. CASE SyncIdle(s) \/ SyncStart(s) \/ Commit(s) \/ Release(s) \/ ScanDone(s) \/ TrimDone(s)
      <3>1. UNCHANGED <<history_num, cut>> /\ (reg' = reg \/ reg' = Regs0)
        BY <2>1 DEF SyncIdle, SyncStart, Commit, Release, ScanDone, TrimDone, vars, ring, ghost
      <3> QED
        BY <1>1, <3>1, RegSame
    <2>2. CASE Collect(s)
      BY <2>2, RegStart DEF Collect, ring, ghost
    <2>3. CASE TrimStep(s)
      <3>1. history_num > 0 /\ history_num' = history_num - 1 /\ reg' = reg /\ cut' = cut
        BY <2>3 DEF TrimStep, TailGap, ghost
      <3>2. history_num' >= - HistorySize
        BY <1>0, <1>1, <3>1
      <3> QED
        BY <3>1, <3>2, RegSame
    <2>4. CASE SkipStep(s) \/ VisitBusy(s) \/ VisitGap(s) \/ VisitTake(s) \/ ProxyTake(s)
      BY <2>4, RegSkip, RegVisit
    <2> QED
      BY <1>3, <2>1, <2>2, <2>3, <2>4 DEF Drain
  <1>4. CASE \E w \in Writers : \E i \in Items : dc_add_history(w, i)
    <2>1. UNCHANGED <<history_num, cut, reg>>
      BY <1>4 DEF dc_add_history, ring
    <2> QED
      BY <1>1, <2>1, RegSame
  <1>5. CASE Terminate
    <2>1. history_num' = history_num /\ reg' = Regs0 /\ ~cut
      BY <1>5 DEF Terminate, ring, BaseInv, LockInv
    <2> QED
      BY <1>1, <2>1, RegSame
  <1>6. CASE SyncFull \/ Stopped \/ UNCHANGED vars
    <2>1. UNCHANGED <<history_num, cut, reg>>
      BY <1>6 DEF SyncFull, Stopped, vars, ring, ghost
    <2> QED
      BY <1>1, <2>1, RegSame
  <1> QED
    BY <1>2, <1>3, <1>4, <1>5, <1>6 DEF Next

\* What the ring tells is true.
LEMMA TrueMeans == BaseInv /\ RingInv /\ GapInv /\ OtherTypes /\ RegTypes => RingSound
  <1> SUFFICES ASSUME BaseInv, RingInv, GapInv, OtherTypes, RegTypes PROVE RingSound
    OBVIOUS
  <1>0. HistorySize \in Nat \ {0}
    BY SizeAssumption
  <1>1. TypeOK
    <2>1. PICK N \in Int, n \in Int, f \in Index, num \in Nat, gap \in 0 .. HistorySize, data \in 0 .. HistorySize :
            /\ history_num = N /\ N <= HistorySize /\ N >= - HistorySize /\ (~cut => N >= 0)
            /\ reg = [n |-> n, f |-> f, num |-> num, gap |-> gap, data |-> data]
            /\ n >= - HistorySize /\ n <= HistorySize /\ (~cut => n >= 0) /\ num <= HistorySize
      <3>1. reg \in [n : Int, f : Int, num : Nat, gap : Int, data : Int] /\ history_num \in Int
        BY DEF RingInv, RingTypes
      <3>2. reg = [n |-> reg.n, f |-> reg.f, num |-> reg.num, gap |-> reg.gap, data |-> reg.data]
        BY <3>1
      <3> QED
        BY <3>1, <3>2 DEF RingInv, RingTypes, RegTypes
    <2>2. Least \in Int /\ Least <= N /\ Least <= n
      BY <1>0, <2>1 DEF Least
    <2>3. history_num \in Least .. HistorySize /\ n \in Least .. HistorySize /\ num \in 0 .. HistorySize
      BY <1>0, <2>1, <2>2
    <2>4. reg \in [n : Least .. HistorySize, f : Index, num : 0 .. HistorySize,
                   gap : 0 .. HistorySize, data : 0 .. HistorySize]
      BY <2>1, <2>3
    <2> QED
      BY <2>3, <2>4 DEF TypeOK, RingInv, RingTypes, OtherTypes, GapInv, BaseInv
  <1> SUFFICES ASSUME ~Vacuuming, ~cut
               PROVE  /\ ~Trimming => RunsHomogeneous
                      /\ history_gap_num = Cardinality(GapPositions)
    BY <1>1 DEF RingSound
  <1>2. PICK N \in Nat : history_num = N
    BY DEF RingInv, RingTypes
  <1>3. history_gap_num = Cardinality(GapPositions)
    <2>1. HolesBelow(N) = GapPositions
      BY <1>2 DEF HolesBelow, GapPositions
    <2>2. history_gap_num = Cardinality(HolesBelow(N)) + 0
      BY <1>2 DEF GapInv, Gone
    <2> QED
      BY <1>2, <2>1, <2>2, HolesFinite
  <1>4. ASSUME ~Trimming PROVE RunsHomogeneous
    <2>1. /\ Row \in [0 .. N - 1 -> Slot] /\ RowSound(Row, N) /\ RowClosed(Row, N)
          /\ \A k \in 0 .. N - 1 : Row[k] = history[At(k)]
      BY <1>2, <1>4, RowRing
    <2> SUFFICES ASSUME NEW p \in 0 .. N - 1
                 PROVE  /\ Row[p].num >= 1 /\ p + Row[p].num <= N
                        /\ \A q \in p .. p + Row[p].num - 1 : history[At(q)].itemid = Row[p].itemid
      BY <1>2, <2>1 DEF RunsHomogeneous
    <2>2. Row[p].num >= 1
      BY <2>1 DEF RowSound, RowBounds
    <2>3. p + Row[p].num <= N
      BY <2>1 DEF RowSound, RowRuns, RowClosed
    <2>4. PICK num \in Nat : num = Row[p].num
      BY <2>1 DEF Slot
    <2>5. ASSUME NEW q \in p .. p + num - 1 PROVE Row[q].itemid = Row[p].itemid /\ q \in 0 .. N - 1
      <3>1. q \in 0 .. N - 1 /\ p <= q /\ q < p + num
        BY <2>3, <2>4
      <3>2. IsValue(Row[p]) => Row[q].itemid = Row[p].itemid
        BY <2>1, <2>4, <3>1 DEF RowSound, RowRuns
      <3>3. ~IsValue(Row[p]) => ~IsValue(Row[q])
        BY <2>1, <2>4, <3>1 DEF RowSound, RowHoles
      <3> QED
        BY <3>1, <3>2, <3>3 DEF IsValue
    <2> QED
      BY <2>1, <2>2, <2>3, <2>4, <2>5
  <1> QED
    BY <1>3, <1>4

\* What DCskip_items, DCvacuum_history and DCsync_history tell each other through the
\* ring is true, as long as no process was stopped inside the compaction: noted runs
\* are runs, the holes are counted, and every index is inside the arrays.
THEOREM RingTells == Spec => [](~torn => RingSound)
  <1> DEFINE Inv == BaseInv /\ (torn \/ (RingInv /\ GapInv /\ OtherTypes /\ RegTypes))
  <1>1. Init => Inv
    BY BaseInit, RingInit, GapInit, OtherInit, RegInit
  <1>2. Inv /\ [Next]_vars => Inv'
    BY BaseNext, TornStays, RingNext, GapNext, OtherNext, RegNext
  <1>3. Inv => (~torn => RingSound)
    BY TrueMeans
  <1> QED
    BY <1>1, <1>2, <1>3, PTL DEF Spec

--------------------------------------------------------------------------------
(***************************************************************************)
(* A value is in one place.                                                *)
(***************************************************************************)

\* A slot of the ring has the value v of item i.
Stored(i, v) == \E p \in 0 .. history_num - 1 : history[At(p)].itemid = i /\ history[At(p)].val = v

\* A syncer has it in its private copy, also when the transaction is over.
Has(s, i, v) == \E u \in batch[s] : u.itemid = i /\ u.val = v

Flight == {"scan", "trim", "db"}

OnceInv ==
  /\ \A i \in Items : \A v :
       /\ Stored(i, v) => ~Out(i, v)
       /\ Flying(i, v) => ~(v \in db[i] \/ v \in lost[i])
       /\ ~(v \in db[i] /\ v \in lost[i])
  /\ \A s \in SyncProcs : \A i \in Items : \A v :
       pc[s] \notin Flight /\ Has(s, i, v) => v \in db[i] \/ v \in lost[i]
  /\ \A s \in SyncProcs, t \in SyncProcs : s # t =>
       \A i \in Items : \A v : ~(Has(s, i, v) /\ Has(t, i, v))

\* No slot of the ring gets a value that none had.
StoredLess == \A i \in Items : \A v : Stored(i, v)' => Stored(i, v)

\* Each syncer keeps what it has, or gives up what is done with.
HandsKept ==
  \A s \in SyncProcs :
    \/ batch'[s] = {} /\ pc[s] \notin Flight
    \/ batch'[s] = batch[s] /\ (batch[s] = {} \/ (pc'[s] \in Flight <=> pc[s] \in Flight))

LEMMA FlyingHas == \A i : \A v : Flying(i, v) <=> \E s \in SyncProcs : pc[s] \in Flight /\ Has(s, i, v)
  BY DEF Flying, Has, Flight

LEMMA FlyingHasNext ==
  \A i : \A v : Flying(i, v)' <=> \E s \in SyncProcs : pc'[s] \in Flight /\ Has(s, i, v)'
  BY DEF Flying, Has, Flight

LEMMA OnceInit == Init => OnceInv
  <1> SUFFICES ASSUME Init PROVE OnceInv
    OBVIOUS
  <1>1. 0 .. history_num - 1 = {} /\ \A s \in SyncProcs : batch[s] = {}
    BY DEF Init
  <1>2. \A i \in Items : db[i] = {} /\ lost[i] = {}
    BY DEF Init
  <1> QED
    BY <1>1, <1>2 DEF OnceInv, Stored, Has, Out, Flying

LEMMA FlightSame ==
  ASSUME HandsKept
  PROVE  \A i : \A v : Flying(i, v)' <=> Flying(i, v)
  <1>1. \A s \in SyncProcs : \A i : \A v :
          pc'[s] \in Flight /\ Has(s, i, v)' <=> pc[s] \in Flight /\ Has(s, i, v)
    BY DEF HandsKept, Has
  <1> QED
    BY <1>1, FlyingHas, FlyingHasNext

LEMMA OnceFrame ==
  ASSUME OnceInv, StoredLess, UNCHANGED <<db, lost>>, HandsKept
  PROVE  OnceInv'
  <1>1. \A s \in SyncProcs : \A i : \A v :
          /\ Has(s, i, v)' => Has(s, i, v)
          /\ pc'[s] \notin Flight /\ Has(s, i, v)' => pc[s] \notin Flight
    BY DEF HandsKept, Has
  <1>2. \A i : \A v : Flying(i, v)' => Flying(i, v)
    BY FlightSame
  <1>3. \A i : \A v : Out(i, v)' => Out(i, v)
    BY <1>2 DEF Out
  <1>4. \A i \in Items : \A v :
          /\ Stored(i, v)' => ~Out(i, v)'
          /\ Flying(i, v)' => ~(v \in db'[i] \/ v \in lost'[i])
          /\ ~(v \in db'[i] /\ v \in lost'[i])
    BY <1>2, <1>3 DEF OnceInv, StoredLess
  <1>5. \A s \in SyncProcs : \A i \in Items : \A v :
          pc'[s] \notin Flight /\ Has(s, i, v)' => v \in db'[i] \/ v \in lost'[i]
    BY <1>1 DEF OnceInv
  <1>6. \A s \in SyncProcs, t \in SyncProcs : s # t =>
          \A i \in Items : \A v : ~(Has(s, i, v)' /\ Has(t, i, v)')
    BY <1>1 DEF OnceInv
  <1> QED
    BY <1>4, <1>5, <1>6 DEF OnceInv, Flight

LEMMA FlyingTaken ==
  ASSUME BaseInv, NEW s \in SyncProcs, pc[s] = "scan", UNCHANGED pc,
         NEW u, batch' = [batch EXCEPT ![s] = @ \cup {u}]
  PROVE  /\ \A t \in SyncProcs : t # s => \A i : \A v : Has(t, i, v)' <=> Has(t, i, v)
         /\ \A i : \A v : Has(s, i, v)' <=> Has(s, i, v) \/ (u.itemid = i /\ u.val = v)
         /\ \A i : \A v : Flying(i, v)' <=> Flying(i, v) \/ (u.itemid = i /\ u.val = v)
  <1>1. /\ \A t \in SyncProcs : t # s => batch'[t] = batch[t]
        /\ batch'[s] = batch[s] \cup {u}
    BY DEF BaseInv
  <1>2. \A i : \A v : Has(s, i, v)' <=> Has(s, i, v) \/ (u.itemid = i /\ u.val = v)
    BY <1>1 DEF Has
  <1>3. \A t \in SyncProcs : t # s => \A i : \A v : Has(t, i, v)' <=> Has(t, i, v)
    BY <1>1 DEF Has
  <1>4. "scan" \in Flight
    BY DEF Flight
  <1>5. \A i : \A v : Flying(i, v)' <=> Flying(i, v) \/ (u.itemid = i /\ u.val = v)
    BY <1>2, <1>3, <1>4, FlyingHas, FlyingHasNext
  <1> QED
    BY <1>2, <1>3, <1>5

\* A syncer takes a value that is in one slot.
LEMMA OnceTaken ==
  ASSUME BaseInv, OnceInv, NEW s \in SyncProcs, pc[s] = "scan", UNCHANGED <<db, lost, pc>>,
         NEW u, batch' = [batch EXCEPT ![s] = @ \cup {u}], Stored(u.itemid, u.val), u.itemid \in Items,
         \A i \in Items : \A v : Stored(i, v)' => Stored(i, v) /\ ~(u.itemid = i /\ u.val = v)
  PROVE  OnceInv'
  <1>2. \A i : \A v : Has(s, i, v)' <=> Has(s, i, v) \/ (u.itemid = i /\ u.val = v)
    BY FlyingTaken
  <1>3. \A t \in SyncProcs : t # s => \A i : \A v : Has(t, i, v)' <=> Has(t, i, v)
    BY FlyingTaken
  <1>4. "scan" \in Flight
    BY DEF Flight
  <1>5. \A i : \A v : Flying(i, v)' <=> Flying(i, v) \/ (u.itemid = i /\ u.val = v)
    BY FlyingTaken
  <1>6. \A i \in Items : \A v : u.itemid = i /\ u.val = v => ~Out(i, v)
    BY DEF OnceInv
  <1>7. \A i \in Items : \A v :
          /\ Stored(i, v)' => ~Out(i, v)'
          /\ Flying(i, v)' => ~(v \in db'[i] \/ v \in lost'[i])
          /\ ~(v \in db'[i] /\ v \in lost'[i])
    BY <1>5, <1>6 DEF OnceInv, Out
  <1>8. \A t \in SyncProcs : \A i \in Items : \A v :
          pc'[t] \notin Flight /\ Has(t, i, v)' => v \in db'[i] \/ v \in lost'[i]
    BY <1>2, <1>3, <1>4 DEF OnceInv
  <1>9. \A t \in SyncProcs : \A i \in Items : \A v : u.itemid = i /\ u.val = v => ~Has(t, i, v)
    <2> SUFFICES ASSUME NEW t \in SyncProcs, NEW i \in Items, NEW v, u.itemid = i, u.val = v, Has(t, i, v)
                 PROVE  FALSE
      OBVIOUS
    <2>1. ~Out(i, v)
      BY <1>6
    <2>2. pc[t] \in Flight => Flying(i, v)
      BY FlyingHas
    <2> QED
      BY <2>1, <2>2 DEF OnceInv, Out
  <1>10. \A r \in SyncProcs, t \in SyncProcs : r # t =>
           \A i \in Items : \A v : ~(Has(r, i, v)' /\ Has(t, i, v)')
    BY <1>2, <1>3, <1>9 DEF OnceInv
  <1> QED
    BY <1>7, <1>8, <1>10 DEF OnceInv, Flight

\* The transaction of a syncer ends.
LEMMA OnceCommit ==
  ASSUME BaseInv, OnceInv, NEW s \in SyncProcs, Commit(s)
  PROVE  OnceInv'
  <1>1. /\ pc[s] = "db" /\ pc'[s] = "release" /\ UNCHANGED <<batch, history, history_first, history_num>>
        /\ \A t \in SyncProcs : t # s => pc'[t] = pc[t]
    BY Phases DEF Commit, Goto, BaseInv, sync, ring
  <1>2. \A i : \A v : v \in BatchVals(s, i) <=> Has(s, i, v)
    BY DEF BatchVals, Has
  <1>3. \/ UNCHANGED lost /\ \A i \in Items : \A v : v \in db'[i] <=> v \in db[i] \/ Has(s, i, v)
        \/ UNCHANGED db /\ \A i \in Items : \A v : v \in lost'[i] <=> v \in lost[i] \/ Has(s, i, v)
    BY <1>2 DEF Commit
  <1>4. \A t \in SyncProcs : \A i : \A v : Has(t, i, v)' <=> Has(t, i, v)
    BY <1>1 DEF Has
  <1>5. "db" \in Flight /\ "release" \notin Flight
    BY DEF Flight
  <1>6. \A i : \A v : Flying(i, v)' <=> \E t \in SyncProcs : t # s /\ pc[t] \in Flight /\ Has(t, i, v)
    BY <1>1, <1>4, <1>5, FlyingHasNext
  <1>7. \A i \in Items : \A v : Has(s, i, v) => Flying(i, v) /\ ~Flying(i, v)'
    BY <1>1, <1>5, <1>6, FlyingHas DEF OnceInv
  <1>8. \A i \in Items : \A v : Flying(i, v)' => Flying(i, v)
    BY <1>6, FlyingHas
  <1>9. \A i \in Items : \A v : Stored(i, v)' <=> Stored(i, v)
    BY <1>1 DEF Stored, At
  <1>10. \A i \in Items : \A v :
           /\ Stored(i, v)' => ~Out(i, v)'
           /\ Flying(i, v)' => ~(v \in db'[i] \/ v \in lost'[i])
           /\ ~(v \in db'[i] /\ v \in lost'[i])
    BY <1>3, <1>7, <1>8, <1>9 DEF OnceInv, Out
  <1>11. \A t \in SyncProcs : \A i \in Items : \A v :
           pc'[t] \notin Flight /\ Has(t, i, v)' => v \in db'[i] \/ v \in lost'[i]
    BY <1>1, <1>3, <1>4 DEF OnceInv
  <1> QED
    BY <1>4, <1>10, <1>11 DEF OnceInv, Flight

\* The children are stopped: what they had is lost.
LEMMA OnceTerminate ==
  ASSUME BaseInv, OnceInv, Terminate
  PROVE  OnceInv'
  <1>1. /\ UNCHANGED <<history, history_first, history_num, db>>
        /\ pc[Main] = "idle" /\ batch' = [s \in SyncProcs |-> {}]
        /\ \A i \in Items : lost'[i] = lost[i] \cup UNION {BatchVals(s, i) : s \in {t \in Syncers : pc[t] # "release"}}
    BY DEF Terminate, ring
  <1>2. \A s \in SyncProcs : \A i : \A v : ~Has(s, i, v)'
    BY <1>1 DEF Has
  <1>3. \A i : \A v : ~Flying(i, v)'
    BY <1>2, FlyingHasNext
  <1>4. \A s \in Syncers : s \in SyncProcs /\ (batch[s] # {} /\ pc[s] # "release" => pc[s] \in Flight)
    BY DEF BaseInv, HeldInv, Flight, SyncProcs
  <1>5. \A i \in Items : \A v : v \in lost'[i] => v \in lost[i] \/ Flying(i, v)
    <2> SUFFICES ASSUME NEW i \in Items, NEW v, v \in lost'[i], v \notin lost[i] PROVE Flying(i, v)
      OBVIOUS
    <2>1. PICK s \in Syncers : pc[s] # "release" /\ v \in BatchVals(s, i)
      BY <1>1
    <2>2. Has(s, i, v) /\ batch[s] # {}
      BY <2>1 DEF BatchVals, Has
    <2> QED
      BY <1>4, <2>1, <2>2, FlyingHas
  <1>6. \A i \in Items : \A v : Stored(i, v)' <=> Stored(i, v)
    BY <1>1 DEF Stored, At
  <1>7. \A i \in Items : \A v :
          /\ Stored(i, v)' => ~Out(i, v)'
          /\ Flying(i, v)' => ~(v \in db'[i] \/ v \in lost'[i])
          /\ ~(v \in db'[i] /\ v \in lost'[i])
    BY <1>1, <1>3, <1>5, <1>6 DEF OnceInv, Out
  <1> QED
    BY <1>2, <1>7 DEF OnceInv

\* The slots stay where they are, or leave at either end, or become holes.
LEMMA StoredWindow ==
  ASSUME history_first \in Index, NEW N \in Int, history_num = N, N <= HistorySize,
         NEW d \in 0 .. HistorySize, NEW M \in Int, history_num' = M, M <= N - d,
         history_first' = Wrap(history_first + d), NEW h, h = history',
         \A p \in 0 .. N - 1 : h[At(p)].itemid # Gap =>
           h[At(p)].itemid = history[At(p)].itemid /\ h[At(p)].val = history[At(p)].val
  PROVE  /\ StoredLess
         /\ \A i \in Items : \A v : Stored(i, v)' =>
              \E p \in d .. N - 1 : p \in 0 .. N - 1 /\ h[At(p)].itemid = i /\ h[At(p)].val = v
  <1>0. HistorySize \in Nat
    BY SizeAssumption
  <1>1. ASSUME NEW i \in Items, NEW v, Stored(i, v)'
        PROVE  \E p \in d .. N - 1 : p \in 0 .. N - 1 /\ h[At(p)].itemid = i /\ h[At(p)].val = v
    <2>1. PICK q \in 0 .. M - 1 : h[At(q)'].itemid = i /\ h[At(q)'].val = v
      BY <1>1 DEF Stored
    <2>2. q \in Nat /\ q + d < HistorySize /\ q + d \in d .. N - 1 /\ q + d \in 0 .. N - 1
      BY <1>0, <2>1
    <2>3. At(q)' = At(q + d)
      BY <2>2, AtShift
    <2> QED
      BY <2>1, <2>2, <2>3
  <1>2. ASSUME NEW i \in Items, NEW v, Stored(i, v)' PROVE Stored(i, v)
    <2>1. PICK p \in 0 .. N - 1 : h[At(p)].itemid = i /\ h[At(p)].val = v
      BY <1>1, <1>2
    <2>2. h[At(p)].itemid # Gap
      BY <2>1, ItemsAssumption
    <2> QED
      BY <2>1, <2>2 DEF Stored
  <1> QED
    BY <1>1, <1>2 DEF StoredLess

LEMMA StoredSame ==
  ASSUME UNCHANGED <<history, history_first, history_num>>
  PROVE  /\ \A i : \A v : Stored(i, v)' <=> Stored(i, v)
         /\ StoredLess
  BY DEF Stored, StoredLess, At

\* DCskip_items changes nothing but lengths.
LEMMA SkipItemsSlots ==
  ASSUME history \in [Index -> Slot]
  PROVE  \A f \in Index : /\ SkipItems(history)[f].itemid = history[f].itemid
                          /\ SkipItems(history)[f].val = history[f].val
                          /\ SkipItems(history)[f] \in [itemid : Items \cup {Gap}, num : {SkipItems(history)[f].num},
                                                        val : Nat, txt : Nat, len : Nat]
  <1> SUFFICES ASSUME NEW f \in Index
               PROVE  /\ SkipItems(history)[f].itemid = history[f].itemid
                      /\ SkipItems(history)[f].val = history[f].val
                      /\ SkipItems(history)[f] \in [itemid : Items \cup {Gap}, num : {SkipItems(history)[f].num},
                                                    val : Nat, txt : Nat, len : Nat]
    OBVIOUS
  <1>1. history[f] \in Slot
    OBVIOUS
  <1>2. \/ SkipItems(history)[f] = history[f]
        \/ \E num : SkipItems(history)[f] = [history[f] EXCEPT !.num = num]
    BY DEF SkipItems
  <1>3. CASE SkipItems(history)[f] = history[f]
    BY <1>1, <1>3 DEF Slot
  <1>4. ASSUME NEW num, SkipItems(history)[f] = [history[f] EXCEPT !.num = num]
        PROVE  /\ SkipItems(history)[f].itemid = history[f].itemid
               /\ SkipItems(history)[f].val = history[f].val
               /\ SkipItems(history)[f] \in [itemid : Items \cup {Gap}, num : {SkipItems(history)[f].num},
                                             val : Nat, txt : Nat, len : Nat]
    BY <1>1, <1>4 DEF Slot
  <1> QED
    BY <1>2, <1>3, <1>4

\* The passes of DCsync_history that take nothing.
LEMMA StoredVisit ==
  ASSUME BaseInv, RingInv, NEW s \in SyncProcs, VisitBusy(s) \/ VisitGap(s)
  PROVE  StoredLess
  <1>0. HistorySize \in Nat \ {0} /\ history_first \in Index /\ history \in [Index -> Slot]
    BY SizeAssumption DEF RingInv, RingTypes
  <1>1. /\ Scanning(s) /\ Server /\ ~RunGrows
        /\ history' = SkipItems(history)
        /\ UNCHANGED <<history_first, history_num>> \/ DropHead(reg.num)
    BY DEF VisitBusy, VisitGap, RunFound, DropHoles
  <1>2. PICK N \in 1 .. HistorySize, n \in 1 .. HistorySize, num \in Nat :
          /\ history_num = N /\ reg.n = n /\ reg.num = num /\ n <= N
          /\ RunInv(Row, N, N - n, num)
          /\ \A k \in 0 .. N - 1 : At(k) \in Index
    BY <1>1, ScanRow
  <1>3. num \in 0 .. HistorySize
    <2>1. (N - n) + num <= HistorySize
      BY <1>2 DEF RunInv
    <2> QED
      BY <1>0, <1>2, <2>1
  <1>4. PICK h : h = history'
    OBVIOUS
  <1>5. \A p \in 0 .. N - 1 : h[At(p)].itemid = history[At(p)].itemid /\ h[At(p)].val = history[At(p)].val
    BY <1>0, <1>1, <1>2, <1>4, SkipItemsSlots
  <1>6. CASE UNCHANGED <<history_first, history_num>>
    <2>1. 0 \in 0 .. HistorySize /\ history_first' = Wrap(history_first + 0) /\ N <= N - 0
      BY <1>0, <1>2, <1>6 DEF Wrap, Index
    <2> QED
      BY <1>0, <1>2, <1>4, <1>5, <1>6, <2>1, StoredWindow
  <1>7. CASE DropHead(reg.num)
    <2>1. /\ history_num' = N - num /\ history_first' = Wrap(history_first + num)
          /\ N - num \in Int /\ N - num <= N - num
      BY <1>2, <1>7 DEF DropHead
    <2> QED
      BY <1>0, <1>2, <1>3, <1>4, <1>5, <2>1, StoredWindow
  <1> QED
    BY <1>1, <1>6, <1>7

\* What DCsync_history takes is gone from the ring.
LEMMA StoredTake ==
  ASSUME BaseInv, RingInv, NEW s \in SyncProcs, Scanning(s), NEW h, Take(s, h),
         h \in {history, SkipItems(history)}, IsValue(history[reg.f])
  PROVE  /\ StoredLess
         /\ \E q \in 0 .. history_num - 1 : reg.f = At(q)
         /\ \A i \in Items : \A v : Stored(i, v)' =>
              Stored(i, v) /\ ~(history[reg.f].itemid = i /\ history[reg.f].val = v)
  <1>0. HistorySize \in Nat \ {0} /\ history_first \in Index /\ history \in [Index -> Slot]
    BY SizeAssumption DEF RingInv, RingTypes
  <1>1. PICK N \in 1 .. HistorySize, n \in 1 .. HistorySize :
          /\ history_num = N /\ reg.n = n /\ n <= N /\ reg.f = At(N - n)
          /\ Row \in [0 .. N - 1 -> Slot]
          /\ \A k \in 0 .. N - 1 : At(k) \in Index /\ Row[k] = history[At(k)]
    BY ScanRow
  <1>2. PICK q \in 0 .. N - 1 : q = N - n /\ reg.f = At(q)
    BY <1>1
  <1>3. \A p \in 0 .. N - 1 : p \in 0 .. HistorySize - 1
    BY <1>0
  <1>4. \A f \in Index : h[f].itemid = history[f].itemid /\ h[f].val = history[f].val
    BY <1>0, SkipItemsSlots
  <1>5. \A p \in 0 .. N - 1 : At(p) = reg.f <=> p = q
    BY <1>0, <1>1, <1>2, <1>3, AtIndex
  \* The values of the ring differ.
  <1>6. \A p \in 0 .. N - 1 : p # q /\ history[At(p)].itemid = history[At(q)].itemid
                              => history[At(p)].val # history[At(q)].val
    <2> SUFFICES ASSUME NEW p \in 0 .. N - 1, p # q, history[At(p)].itemid = history[At(q)].itemid
                 PROVE  history[At(p)].val # history[At(q)].val
      OBVIOUS
    <2>1. /\ Row[p] = history[At(p)] /\ Row[q] = history[At(q)] /\ Row[p].itemid = Row[q].itemid
          /\ IsValue(Row[p]) /\ IsValue(Row[q]) /\ p \in DOMAIN Row /\ q \in DOMAIN Row
      BY <1>1, <1>2 DEF IsValue
    <2>2. Row[p].val \in Nat /\ Row[q].val \in Nat
      BY <1>1 DEF Slot
    <2>3. p < q \/ q < p
      OBVIOUS
    <2>4. RowOrdered(Row)
      BY DEF RingInv
    <2>5. Row[p].val < Row[q].val \/ Row[q].val < Row[p].val
      BY <2>1, <2>3, <2>4 DEF RowOrdered
    <2> QED
      BY <2>1, <2>2, <2>5
  <1>7. PICK g : g = history'
    OBVIOUS
  <1>8. CASE reg.f = history_first
    <2>1. history' = h /\ history_num' = N - 1 /\ history_first' = Wrap(history_first + 1)
      BY <1>1, <1>8 DEF Take, DropHead
    <2>2. q = 0
      <3>1. At(0) = history_first /\ 0 \in 0 .. N - 1
        BY <1>0, <1>1, AtIndex
      <3> QED
        BY <1>5, <1>8, <3>1
    <2>3. \A p \in 0 .. N - 1 : g[At(p)].itemid = history[At(p)].itemid /\ g[At(p)].val = history[At(p)].val
      BY <1>1, <1>4, <1>7, <2>1
    <2>4. 1 \in 0 .. HistorySize /\ N - 1 \in Int /\ N - 1 <= N - 1 /\ N \in Int /\ N <= HistorySize
      BY <1>0
    <2>5. /\ StoredLess
          /\ \A i \in Items : \A v : Stored(i, v)' =>
               \E p \in 1 .. N - 1 : p \in 0 .. N - 1 /\ g[At(p)].itemid = i /\ g[At(p)].val = v
      BY <1>0, <1>1, <1>7, <2>1, <2>3, <2>4, StoredWindow
    <2>6. ASSUME NEW i \in Items, NEW v, Stored(i, v)'
          PROVE  Stored(i, v) /\ ~(history[reg.f].itemid = i /\ history[reg.f].val = v)
      <3>1. PICK p \in 1 .. N - 1 : p \in 0 .. N - 1 /\ g[At(p)].itemid = i /\ g[At(p)].val = v
        BY <2>5, <2>6
      <3>2. p # q
        BY <2>2
      <3> QED
        BY <1>2, <1>6, <2>3, <2>5, <2>6, <3>1, <3>2 DEF StoredLess
    <2> QED
      BY <1>1, <1>2, <2>5, <2>6
  <1>9. CASE reg.f # history_first
    <2>1. history' = [h EXCEPT ![reg.f] = Hole(@)] /\ UNCHANGED <<history_first, history_num>>
      BY <1>9 DEF Take
    <2>2. DOMAIN h = Index
      BY <1>0 DEF SkipItems
    <2>3. Hole(h[reg.f]).itemid = Gap
      <3>1. h[reg.f] \in [itemid : Items \cup {Gap}, num : {h[reg.f].num}, val : Nat, txt : Nat, len : Nat]
        <4>1. reg.f \in Index /\ history[reg.f] \in Slot
          BY <1>0, <1>1, <1>2
        <4> QED
          BY <1>0, <4>1, SkipItemsSlots DEF Slot
      <3> QED
        BY <3>1 DEF Hole
    <2>4. \A p \in 0 .. N - 1 : IF p = q THEN g[At(p)].itemid = Gap ELSE g[At(p)] = h[At(p)]
      BY <1>1, <1>2, <1>5, <1>7, <2>1, <2>2, <2>3
    <2>5. \A p \in 0 .. N - 1 : g[At(p)].itemid # Gap =>
            p # q /\ g[At(p)].itemid = history[At(p)].itemid /\ g[At(p)].val = history[At(p)].val
      BY <1>1, <1>4, <2>4
    <2>6. /\ 0 \in 0 .. HistorySize /\ N \in Int /\ N <= N - 0 /\ N <= HistorySize
          /\ history_num' = N /\ history_first' = Wrap(history_first + 0)
      BY <1>0, <1>1, <2>1 DEF Wrap, Index
    <2>7. /\ StoredLess
          /\ \A i \in Items : \A v : Stored(i, v)' =>
               \E p \in 0 .. N - 1 : p \in 0 .. N - 1 /\ g[At(p)].itemid = i /\ g[At(p)].val = v
      BY <1>0, <1>1, <1>7, <2>5, <2>6, StoredWindow
    <2>8. ASSUME NEW i \in Items, NEW v, Stored(i, v)'
          PROVE  Stored(i, v) /\ ~(history[reg.f].itemid = i /\ history[reg.f].val = v)
      <3>1. PICK p \in 0 .. N - 1 : g[At(p)].itemid = i /\ g[At(p)].val = v
        BY <2>7, <2>8
      <3>2. g[At(p)].itemid # Gap
        BY <3>1, ItemsAssumption
      <3> QED
        BY <1>2, <1>6, <2>5, <2>7, <2>8, <3>1, <3>2 DEF StoredLess
    <2> QED
      BY <1>1, <1>2, <2>7, <2>8
  <1> QED
    BY <1>8, <1>9

\* A block that DCvacuum_history moves is copied: nothing new comes into the ring.
LEMMA StoredVacuumStep ==
  ASSUME BaseInv, RingInv, NEW w \in Writers, VacuumStep(w)
  PROVE  StoredLess
  <1>0. HistorySize \in Nat
    BY SizeAssumption
  <1> DEFINE f == At(reg.n - 1)
  <1>1. UNCHANGED <<history_first, history_num>> /\ pc[w] = "vacuum" /\ reg.n > 0
    BY DEF VacuumStep
  <1>2. PICK N \in Nat, n \in Nat, data \in Nat, gap \in Nat :
          /\ history_num = N /\ reg.n = n /\ reg.data = data /\ reg.gap = gap
          /\ N <= HistorySize /\ n + data + gap <= N
          /\ gap = 0 => data = 0
          /\ data > 0 => At(n) # 0 /\ At(n) + data <= HistorySize
    <2>1. \E N \in Nat, n \in Nat, data \in Nat, gap \in Nat :
              /\ history_num = N /\ reg.n = n /\ reg.data = data /\ reg.gap = gap
              /\ N <= HistorySize /\ n + data + gap <= N
              /\ gap = 0 => data = 0
              /\ data > 0 => At(n) # 0 /\ At(n) + data <= HistorySize
              /\ Count = N - gap
              /\ Row \in [0 .. N - gap - 1 -> Slot]
              /\ \A k \in 0 .. N - gap - 1 : Row[k] = history[At(IF k < n + data THEN k ELSE k + gap)]
              /\ \A k \in 0 .. N - gap - 1 : k >= n => IsValue(Row[k])
      BY <1>1, VacuumRow
    <2> QED
      BY <2>1
  <1>3. history \in [Index -> Slot] /\ history_first \in Index
    BY DEF RingInv, RingTypes
  <1>4. /\ n \in Nat \ {0} /\ n - 1 \in Nat /\ f = At(n - 1) /\ n - 1 \in 0 .. HistorySize - 1
        /\ n - 1 \in Int /\ n + data + gap <= HistorySize /\ (n - 1) + 1 = n
        /\ data + 1 \in Nat /\ n <= HistorySize
    BY <1>0, <1>1, <1>2
  <1>5. data # 0 => f + 1 = At(n)
    <2> SUFFICES ASSUME data > 0 PROVE f + 1 = At(n)
      BY <1>2
    <2>1. (n - 1) + 1 < HistorySize
      BY <1>0, <1>2, <1>4
    <2>2. At(n) # 0 => At(n - 1) = At(n) - 1
      BY <1>3, <1>4, <2>1, AtNext
    <2>3. At(n - 1) \in Int /\ At(n) \in Int
      BY <1>0, <1>3, <1>4 DEF At, Wrap, Index
    <2> QED
      BY <1>2, <1>4, <2>2, <2>3
  <1>6. \/ history' = IF data = 0 THEN history ELSE DCmove_history(history, At(n), data, gap)
        \/ f = 0 /\ gap # 0 /\ history' = DCmove_history(history, 0, data + 1, gap)
        \/ history' = history
    <2>1. \/ history' = IF reg.data = 0 THEN history
                        ELSE DCmove_history(history, f + 1, reg.data, reg.gap)
          \/ f = 0 /\ reg.gap # 0 /\ history' = DCmove_history(history, 0, reg.data + 1, reg.gap)
          \/ history' = history
      BY DEF VacuumStep
    <2> QED
      BY <1>2, <1>5, <2>1
  <1>7. PICK h : h = history'
    OBVIOUS
  <1>8. CopiesRing(h, N)
    <2>1. CASE history' = IF data = 0 THEN history ELSE DCmove_history(history, At(n), data, gap)
      <3>1. data # 0 => gap # 0 /\ At(n) + data <= HistorySize
        BY <1>2
      <3>2. BlockAt(h, n, data, gap)
        BY <1>3, <1>4, <1>7, <2>1, <3>1, BlockKept
      <3> QED
        BY <1>2, <3>2, BlockCopies
    <2>2. CASE f = 0 /\ gap # 0 /\ history' = DCmove_history(history, 0, data + 1, gap)
      <3>1. /\ h = IF data + 1 = 0 THEN history ELSE DCmove_history(history, At(n - 1), data + 1, gap)
            /\ (n - 1) + (data + 1) + gap <= HistorySize
            /\ At(n - 1) + (data + 1) <= HistorySize
        BY <1>0, <1>4, <1>7, <2>2
      <3>2. BlockAt(h, n - 1, data + 1, gap)
        BY <1>3, <1>4, <2>2, <3>1, BlockKept
      <3> QED
        BY <1>2, <1>4, <3>2, BlockCopies
    <2>3. CASE history' = history
      BY <1>7, <2>3 DEF CopiesRing
    <2> QED
      BY <1>6, <2>1, <2>2, <2>3
  <1>9. \A p : At(p)' = At(p)
    BY <1>1 DEF At
  <1> QED
    BY <1>1, <1>2, <1>7, <1>8, <1>9 DEF StoredLess, Stored, CopiesRing

LEMMA StoredVacuumDone ==
  ASSUME BaseInv, RingInv, NEW w \in Writers, VacuumDone(w)
  PROVE  StoredLess
  <1>1. PICK N \in Nat, gap \in Nat, M \in Nat :
          /\ history_num = N /\ reg.gap = gap /\ M = N - gap
          /\ history_num' = M
          /\ Count = M /\ Row \in [0 .. M - 1 -> Slot]
          /\ \A k \in 0 .. M - 1 : history'[At(k)'] = Row[k] /\ IsValue(Row[k])
    BY VacuumEnds
  <1>2. Vacuuming
    BY DEF VacuumDone, Vacuuming
  <1>3. \A k \in 0 .. M - 1 : Place(k) \in 0 .. N - 1
    BY <1>1, <1>2 DEF Place, Gone
  <1>4. \A k \in 0 .. M - 1 : Row[k] = history[At(Place(k))]
    BY <1>1 DEF Row
  <1> QED
    BY <1>1, <1>3, <1>4 DEF StoredLess, Stored

\* A slot whose text is moved keeps its value.
LEMMA StoredTextStep ==
  ASSUME BaseInv, RingInv, NEW w \in Writers, VacTextStep(w)
  PROVE  StoredLess
  <1>1. /\ UNCHANGED <<history_first, history_num>>
        /\ history' = [history EXCEPT ![reg.f] = MovedText(history[reg.f])]
        /\ history \in [Index -> Slot] /\ history_first \in Index
    BY DEF VacTextStep, RingInv, RingTypes
  <1>2. \A t \in Slot : MovedText(t).itemid = t.itemid /\ MovedText(t).val = t.val
    <2> SUFFICES ASSUME NEW t \in Slot PROVE MovedText(t).itemid = t.itemid /\ MovedText(t).val = t.val
      OBVIOUS
    <2> QED
      BY DEF MovedText, Slot
  <1>3. \A f \in Index : history'[f].itemid = history[f].itemid /\ history'[f].val = history[f].val
    BY <1>1, <1>2
  <1>4. \A p \in 0 .. history_num - 1 : At(p)' = At(p) /\ At(p) \in Index
    <2>1. HistorySize \in Nat /\ history_num \in Int /\ history_num <= HistorySize
      BY SizeAssumption DEF RingInv, RingTypes
    <2>2. \A p \in 0 .. history_num - 1 : p \in 0 .. HistorySize - 1
      BY <2>1
    <2> QED
      BY <1>1, <2>2, AtIndex DEF At
  <1> QED
    BY <1>1, <1>3, <1>4 DEF StoredLess, Stored

\* A value that is added is new.
LEMMA StoredAdd ==
  ASSUME BaseInv, RingInv, NEW w \in Writers, DCadd_history(w), NEW i, i = Head(local[w])
  PROVE  /\ i \in Items /\ added' = [added EXCEPT ![i] = added[i] + 1]
         /\ \A j \in Items : \A v : Stored(j, v)' => Stored(j, v) \/ (j = i /\ v = added[i] + 1)
  <1>1. i \in Items
    <2>1. local[w] \in Seq(Items) /\ local[w] # <<>>
      BY DEF RingInv, RingTypes, DCadd_history
    <2> QED
      BY <2>1
  <1>2. PICK N \in Nat : history_num = N /\ N < HistorySize
    <2>1. pc[w] = "add" /\ w # Main /\ w \in Procs /\ history_num < HistorySize
      BY ProcsAssumption DEF DCadd_history, Procs
    <2>2. ~cut
      BY <2>1 DEF BaseInv, LockInv
    <2>3. history_num \in Int /\ history_num >= 0
      BY <2>2 DEF RingInv, RingTypes
    <2> QED
      BY <2>1, <2>3
  <1>3. PICK x : history' = [history EXCEPT ![At(N)] = x] /\ x.itemid = i /\ x.val = added[i] + 1
    <2> DEFINE x == [itemid |-> i, num |-> 1, val |-> added[i] + 1, txt |-> last_text, len |-> TextLen[i]]
    <2>1. history' = [history EXCEPT ![At(N)] = x]
      BY <1>2 DEF DCadd_history
    <2>2. x.itemid = i /\ x.val = added[i] + 1
      OBVIOUS
    <2> HIDE DEF x
    <2> QED
      BY <2>1, <2>2
  <1>4. history_num' = N + 1 /\ history_first' = history_first /\ added' = [added EXCEPT ![i] = added[i] + 1]
    BY <1>2 DEF DCadd_history
  <1>5. /\ history \in [Index -> Slot] /\ history_first \in Index /\ HistorySize \in Nat
        /\ \A p \in 0 .. N : p \in 0 .. HistorySize - 1
    <2>1. HistorySize \in Nat
      BY SizeAssumption
    <2>2. \A p \in 0 .. N : p \in 0 .. HistorySize - 1
      BY <1>2, <2>1
    <2> QED
      BY <2>1, <2>2 DEF RingInv, RingTypes
  <1>6. \A p \in 0 .. N : /\ At(p)' = At(p) /\ At(p) \in Index
                          /\ p # N => At(p) # At(N)
    BY <1>4, <1>5, AtIndex DEF At
  <1>7. \A p \in 0 .. N : history'[At(p)'] = IF p = N THEN x ELSE history[At(p)]
    BY <1>3, <1>5, <1>6
  <1>8. ASSUME NEW j \in Items, NEW v, Stored(j, v)'
        PROVE  Stored(j, v) \/ (j = i /\ v = added[i] + 1)
    <2>1. PICK p \in 0 .. (N + 1) - 1 : history'[At(p)'].itemid = j /\ history'[At(p)'].val = v
      BY <1>4, <1>8 DEF Stored
    <2>2. p \in 0 .. N /\ (p # N => p \in 0 .. N - 1)
      BY <2>1
    <2> QED
      BY <1>2, <1>3, <1>7, <2>1, <2>2 DEF Stored
  <1> QED
    BY <1>1, <1>4, <1>8

LEMMA OnceAdd ==
  ASSUME BaseInv, RingInv, OnceInv, NEW w \in Writers, DCadd_history(w)
  PROVE  OnceInv'
  <1>1. PICK i : i = Head(local[w])
    OBVIOUS
  <1>2. \A j \in Items : \A v : Stored(j, v)' => Stored(j, v) \/ (j = i /\ v = added[i] + 1)
    BY <1>1, StoredAdd
  <1>3. i \in Items /\ added[i] \in Nat
    BY <1>1, StoredAdd DEF RingInv, RingTypes
  <1>4. UNCHANGED <<pc, batch, db, lost>>
    BY DEF DCadd_history, sync
  <1>5. \A j : \A v : Flying(j, v)' <=> Flying(j, v)
    BY <1>4 DEF Flying
  <1>6. \A s \in SyncProcs : \A j : \A v : Has(s, j, v)' <=> Has(s, j, v)
    BY <1>4 DEF Has
  <1>7. ~Out(i, added[i] + 1)
    <2>1. added[i] + 1 \notin 1 .. added[i]
      BY <1>3
    <2> QED
      BY <1>3, <2>1, KeptMeans DEF RingInv
  <1>8. \A j \in Items : \A v : Stored(j, v)' => ~Out(j, v)'
    BY <1>2, <1>4, <1>5, <1>7 DEF OnceInv, Out
  <1> QED
    BY <1>4, <1>5, <1>6, <1>8 DEF OnceInv, Flight

\* The steps that leave the ring alone.
LEMMA QuietHands ==
  ASSUME BaseInv,
         \/ \E w \in Writers : \/ \E i \in Items : dc_add_history(w, i)
                               \/ dc_flush_history(w) \/ Retry(w) \/ TextFull(w) \/ VacTextDone(w)
                               \/ FlushDone(w) \/ RingFull(w)
         \/ \E s \in SyncProcs : \/ SyncStart(s) \/ SyncIdle(s) \/ Collect(s) \/ SkipStep(s)
                                 \/ ScanDone(s) \/ TrimDone(s) \/ Release(s)
         \/ SyncFull \/ Stopped \/ UNCHANGED vars
  PROVE  HandsKept /\ StoredLess /\ UNCHANGED <<added, db, lost>>
  <1>1. UNCHANGED <<history, history_first, history_num, added, db, lost>>
    BY DEF dc_add_history, dc_flush_history, Retry, TextFull, VacTextDone, FlushDone, RingFull,
       SyncStart, SyncIdle, Collect, SkipStep, ScanDone, TrimDone, Release, SyncFull, Stopped, vars, ring, ghost
  <1>2. StoredLess
    BY <1>1, StoredSame
  <1>3. ASSUME \/ SyncFull \/ Stopped \/ UNCHANGED vars
             \/ \E w \in Writers : \/ \E i \in Items : dc_add_history(w, i)
                                   \/ dc_flush_history(w) \/ Retry(w) \/ TextFull(w) \/ VacTextDone(w)
                                   \/ FlushDone(w) \/ RingFull(w)
        PROVE  HandsKept
    <2>1. UNCHANGED batch
      BY <1>3 DEF dc_add_history, dc_flush_history, Retry, TextFull, VacTextDone, FlushDone, RingFull,
         SyncFull, Stopped, vars, sync
    <2>2. \/ UNCHANGED pc
          \/ \E w \in Writers : \E l : pc' = [pc EXCEPT ![w] = l]
          \/ pc[Main] = "exit" /\ \E l : pc' = [pc EXCEPT ![Main] = l]
      BY <1>3 DEF dc_add_history, dc_flush_history, Retry, TextFull, VacTextDone, FlushDone, RingFull,
         SyncFull, Stopped, vars, Sleep, Goto
    <2>3. \A s \in SyncProcs : batch[s] = {} \/ pc'[s] = pc[s]
      <3>1. pc[Main] = "exit" => batch[Main] = {}
        BY DEF BaseInv, HeldInv
      <3> QED
        BY <2>2, <3>1, Phases DEF BaseInv
    <2> QED
      BY <1>1, <1>2, <2>1, <2>3 DEF HandsKept
  <1>4. ASSUME NEW s \in SyncProcs,
               \/ SyncStart(s) \/ SyncIdle(s) \/ Collect(s) \/ SkipStep(s)
               \/ ScanDone(s) \/ TrimDone(s) \/ Release(s)
        PROVE  HandsKept
    <2>1. \A t \in SyncProcs : t # s => pc'[t] = pc[t] /\ batch'[t] = batch[t]
      BY <1>4, Phases DEF BaseInv, SyncStart, SyncIdle, Collect, SkipStep, ScanDone, TrimDone, Release,
         Continue, Return, Goto, vars, sync
    <2>2. \/ batch'[s] = {} /\ pc[s] \notin Flight
          \/ batch'[s] = batch[s] /\ (batch[s] = {} \/ (pc'[s] \in Flight <=> pc[s] \in Flight))
      <3>1. CASE SyncStart(s)
        <4>1. s # Main /\ batch' = batch /\ pc[s] = "idle" /\ s \in Syncers
          BY <3>1, ProcsAssumption DEF SyncStart
        <4> QED
          BY <4>1 DEF BaseInv, HeldInv
      <3>2. CASE SyncIdle(s) \/ SkipStep(s)
        BY <3>2 DEF SyncIdle, SkipStep, vars, sync
      <3>3. CASE Collect(s) \/ Release(s)
        BY <3>3 DEF Collect, Release, BaseInv, Flight
      <3>4. CASE ScanDone(s)
        BY <3>4, Phases DEF ScanDone, Goto, BaseInv, Flight, sync
      <3>5. CASE TrimDone(s)
        BY <3>5, Phases DEF TrimDone, Goto, BaseInv, Flight, sync
      <3> QED
        BY <1>4, <3>1, <3>2, <3>3, <3>4, <3>5
    <2> QED
      BY <1>1, <1>2, <2>1, <2>2 DEF HandsKept
  <1> QED
    BY <1>1, <1>2, <1>3, <1>4

\* The steps that move slots or drop holes.
LEMMA MovesHands ==
  ASSUME BaseInv, RingInv,
         \/ \E w \in Writers : VacuumStep(w) \/ VacuumDone(w) \/ VacTextStep(w)
         \/ \E s \in SyncProcs : VisitBusy(s) \/ VisitGap(s) \/ TrimStep(s)
  PROVE  HandsKept /\ StoredLess /\ UNCHANGED <<added, db, lost>>
  <1>1. UNCHANGED <<batch, added, db, lost>>
    BY DEF VacuumStep, VacuumDone, VacTextStep, VisitBusy, VisitGap, TrimStep, sync, ghost
  <1>2. \A s \in SyncProcs : pc'[s] = pc[s]
    <2>1. UNCHANGED pc \/ \E w \in Writers : \E l : pc' = [pc EXCEPT ![w] = l]
      BY DEF VacuumStep, VacuumDone, VacTextStep, VisitBusy, VisitGap, TrimStep, Sleep, Goto
    <2> QED
      BY <2>1, Phases DEF BaseInv
  <1>3. StoredLess
    <2>1. ASSUME NEW s \in SyncProcs, TrimStep(s) PROVE StoredLess
      <3>1. /\ history' = history /\ history_first' = history_first /\ history_num' = history_num - 1
            /\ history_num \in Int
        BY <2>1 DEF TrimStep, RingInv, RingTypes
      <3>2. \A p : At(p)' = At(p)
        BY <3>1 DEF At
      <3>3. \A p \in 0 .. history_num' - 1 : p \in 0 .. history_num - 1
        BY <3>1
      <3> QED
        BY <3>1, <3>2, <3>3 DEF StoredLess, Stored
    <2> QED
      BY <2>1, StoredVacuumStep, StoredVacuumDone, StoredTextStep, StoredVisit
  <1> QED
    BY <1>1, <1>2, <1>3 DEF HandsKept

LEMMA OnceTake ==
  ASSUME BaseInv, RingInv, OnceInv, NEW s \in SyncProcs, VisitTake(s) \/ ProxyTake(s)
  PROVE  OnceInv'
  <1>1. PICK h \in {history, SkipItems(history)} : Take(s, h)
    BY DEF VisitTake, ProxyTake
  <1>2. Scanning(s) /\ pc[s] = "scan" /\ UNCHANGED <<db, lost, pc>>
    BY DEF VisitTake, ProxyTake, RunFound, Scanning, ghost
  <1>3. PICK N \in 1 .. HistorySize, n \in 1 .. HistorySize :
          /\ history_num = N /\ reg.n = n /\ n <= N /\ reg.f = At(N - n)
          /\ Row \in [0 .. N - 1 -> Slot]
          /\ \A k \in 0 .. N - 1 : At(k) \in Index /\ Row[k] = history[At(k)]
    BY <1>2, ScanRow
  <1>4. N - n \in 0 .. N - 1
    BY <1>3, SizeAssumption
  <1>5. IsValue(history[reg.f])
    <2>1. CASE VisitTake(s)
      BY <2>1 DEF VisitTake, IsValue
    <2>2. CASE ProxyTake(s)
      BY <1>3, <1>4, <2>2 DEF ProxyTake, Scanning, RingInv, ProxyInv
    <2> QED
      BY <2>1, <2>2
  <1>6. /\ \A i \in Items : \A v : Stored(i, v)' =>
             Stored(i, v) /\ ~(history[reg.f].itemid = i /\ history[reg.f].val = v)
    BY <1>1, <1>2, <1>5, StoredTake
  <1> DEFINE u == [itemid |-> history[reg.f].itemid, val |-> history[reg.f].val]
  <1>7. batch' = [batch EXCEPT ![s] = @ \cup {u}]
    BY <1>1 DEF Take
  <1>8. u.itemid = history[reg.f].itemid /\ u.val = history[reg.f].val
    OBVIOUS
  <1> HIDE DEF u
  <1>9. Stored(u.itemid, u.val)
    BY <1>3, <1>4, <1>8 DEF Stored
  <1>10. u.itemid \in Items
    BY <1>3, <1>4, <1>5, <1>8 DEF IsValue, Slot
  <1> QED
    BY <1>2, <1>6, <1>7, <1>8, <1>9, <1>10, OnceTaken

LEMMA OnceNext == BaseInv /\ RingInv /\ OnceInv /\ [Next]_vars => OnceInv'
  <1> SUFFICES ASSUME BaseInv, RingInv, OnceInv, [Next]_vars PROVE OnceInv'
    OBVIOUS
  <1>1. CASE \E w \in Writers : dc_flush_history(w) \/ Retry(w) \/ Fill(w)
    BY <1>1, QuietHands, MovesHands, OnceFrame, OnceAdd DEF Fill
  <1>2. CASE \E s \in SyncProcs : SyncIdle(s) \/ Collect(s) \/ Drain(s) \/ Release(s)
    BY <1>2, QuietHands, MovesHands, OnceFrame, OnceTake, OnceCommit DEF Drain
  <1>3. CASE Terminate
    BY <1>3, OnceTerminate
  <1>4. CASE SyncFull \/ Stopped \/ UNCHANGED vars \/ \E w \in Writers : \E i \in Items : dc_add_history(w, i)
    BY <1>4, QuietHands, OnceFrame
  <1> QED
    BY <1>1, <1>2, <1>3, <1>4 DEF Next

LEMMA OnceMeans == RingInv /\ OnceInv => OnePlace
  <1> SUFFICES ASSUME RingInv, OnceInv PROVE OnePlace
    OBVIOUS
  <1>1. \A i \in Items : \A v : v \in InRing(i) <=> Stored(i, v)
    BY DEF InRing, Stored
  <1>2. \A i \in Items : \A v : v \in InFlight(i) <=> Flying(i, v)
    BY DEF InFlight, Flying, BatchVals
  <1>3. \A s \in SyncProcs : \A i \in Items : \A v : v \in BatchVals(s, i) <=> Has(s, i, v)
    BY DEF BatchVals, Has
  <1>4. ASSUME NEW i \in Items
        PROVE  /\ InRing(i) \cap (InFlight(i) \cup db[i] \cup lost[i]) = {}
               /\ InFlight(i) \cap (db[i] \cup lost[i]) = {}
               /\ db[i] \cap lost[i] = {}
    BY <1>1, <1>2 DEF OnceInv, Out
  <1>5. \A i \in Items : \A s \in SyncProcs, t \in SyncProcs :
          s # t => BatchVals(s, i) \cap BatchVals(t, i) = {}
    BY <1>3 DEF OnceInv
  <1>6. ASSUME ~Vacuuming
        PROVE  \A p \in 0 .. history_num - 1, q \in 0 .. history_num - 1 :
                 /\ p # q
                 /\ history[At(p)].itemid = history[At(q)].itemid
                 /\ history[At(p)].itemid # Gap
                 => history[At(p)].val # history[At(q)].val
    <2>1. PICK N \in Int : history_num = N
      BY DEF RingInv, RingTypes
    <2>2. /\ Row \in [0 .. N - 1 -> Slot]
          /\ \A k \in 0 .. N - 1 : Row[k] = history[At(k)]
      BY <1>6, <2>1, RowRing
    <2> SUFFICES ASSUME NEW p \in 0 .. N - 1, NEW q \in 0 .. N - 1, p # q,
                        Row[p].itemid = Row[q].itemid, IsValue(Row[p])
                 PROVE  Row[p].val # Row[q].val
      BY <2>1, <2>2 DEF IsValue
    <2>3. Row[p].val \in Nat /\ Row[q].val \in Nat /\ IsValue(Row[q]) /\ (p < q \/ q < p)
      <3>1. Row[p] \in Slot /\ Row[q] \in Slot
        BY <2>2
      <3>2. Row[p].val \in Nat /\ Row[q].val \in Nat
        BY <3>1 DEF Slot
      <3>3. IsValue(Row[q])
        BY DEF IsValue
      <3>4. p < q \/ q < p
        OBVIOUS
      <3> QED
        BY <3>2, <3>3, <3>4
    <2>4. RowOrdered(Row) /\ p \in DOMAIN Row /\ q \in DOMAIN Row
      BY <2>2 DEF RingInv
    <2>5. Row[p].val < Row[q].val \/ Row[q].val < Row[p].val
      BY <2>3, <2>4 DEF RowOrdered
    <2> QED
      BY <2>3, <2>5
  <1> QED
    BY <1>4, <1>5, <1>6 DEF OnePlace

\* No value is processed twice, on a server or on a proxy: it is in the ring, or with one
\* syncer, or in the database, or went down with its transaction, as long as no process
\* was stopped inside DCvacuum_history.
THEOREM ValuesOnce == Spec => []OnePlace
  <1> DEFINE Inv == BaseInv /\ (torn \/ (RingInv /\ OnceInv))
  <1>1. Init => Inv
    BY BaseInit, RingInit, OnceInit
  <1>2. Inv /\ [Next]_vars => Inv'
    BY BaseNext, TornStays, RingNext, OnceNext
  <1>3. Inv => OnePlace
    BY OnceMeans DEF OnePlace
  <1> QED
    BY <1>1, <1>2, <1>3, PTL DEF Spec

--------------------------------------------------------------------------------
(***************************************************************************)
(* The queues of ItemQueue.                                                *)
(***************************************************************************)

\* The values a syncer has passed in its round are of items in work: the oldest value of
\* an item comes first.
SeenInv ==
  Scanned => \A p \in 0 .. history_num - 1 :
    p < history_num - reg.n /\ IsValue(history[At(p)]) => history[At(p)].itemid \in itemids

LEMMA SeenInit == Init => SeenInv
  BY ProcsAssumption DEF Init, SeenInv, Scanned, Procs, SyncProcs

\* A round that is at the same slot.
LEMMA SeenSame ==
  ASSUME SeenInv, UNCHANGED <<history, history_first, history_num, itemids>>,
         reg'.n = reg.n, Scanned' => Scanned
  PROVE  SeenInv'
  BY DEF SeenInv, IsValue, At

\* A run of num slots, n before the end of N, is passed: d slots are dropped at the head,
\* and h, which is what the ring becomes, has no other item in a slot than the row has.
Passing(N, n, num, d, h) ==
  /\ history_num = N /\ reg.n = n /\ RunInv(Row, N, N - n, num) /\ Row \in [0 .. N - 1 -> Slot]
  /\ history_num' = N - d /\ history_first' = Wrap(history_first + d)
  /\ reg'.n = n - num /\ itemids \subseteq itemids' /\ h = history'
  /\ \A k \in 0 .. N - 1 : Row[k] = history[At(k)]
  /\ \A k \in 0 .. N - 1 : IsValue(h[At(k)]) => h[At(k)].itemid = Row[k].itemid
  /\ IsValue(Row[N - n]) => Row[N - n].itemid \in itemids'

\* A run is passed whose item is in work, or which is one of holes.
LEMMA SeenPassed ==
  ASSUME SeenInv, Scanned, history_first \in Index,
         NEW N \in 1 .. HistorySize, NEW n \in 1 .. N, NEW num \in Nat, NEW d \in 0 .. HistorySize, NEW h,
         Passing(N, n, num, d, h)
  PROVE  SeenInv'
  <1>p. /\ history_num = N /\ reg.n = n /\ RunInv(Row, N, N - n, num) /\ Row \in [0 .. N - 1 -> Slot]
        /\ history_num' = N - d /\ history_first' = Wrap(history_first + d)
        /\ reg'.n = n - num /\ itemids \subseteq itemids' /\ h = history'
        /\ \A k \in 0 .. N - 1 : Row[k] = history[At(k)]
        /\ \A k \in 0 .. N - 1 : IsValue(h[At(k)]) => h[At(k)].itemid = Row[k].itemid
        /\ IsValue(Row[N - n]) => Row[N - n].itemid \in itemids'
    BY DEF Passing
  <1>0. HistorySize \in Nat
    BY SizeAssumption
  <1>1. PICK q \in 0 .. N - 1 : q = N - n
    BY <1>0
  <1>2. ASSUME NEW p \in 0 .. N - d - 1, p < q + num - d, IsValue(h[At(p)'])
        PROVE  h[At(p)'].itemid \in itemids'
    <2>1. PICK k \in 0 .. N - 1 : k < q + num /\ At(p)' = At(k)
      <3>1. p \in Nat /\ p + d < HistorySize /\ p + d \in 0 .. N - 1 /\ p + d < q + num
        <4>1. p \in Int /\ N \in Int /\ d \in Int /\ q \in Int /\ HistorySize \in Int
          BY <1>0
        <4>2. 0 <= p /\ p <= N - d - 1 /\ 0 <= d /\ N <= HistorySize /\ p < q + num - d
          BY <1>2
        <4> QED
          BY <4>1, <4>2
      <3>2. At(p)' = At(p + d)
        BY <1>p, <3>1, AtShift
      <3> QED
        BY <3>1, <3>2
    <2>2. IsValue(h[At(k)]) /\ h[At(k)].itemid = Row[k].itemid
      BY <1>p, <1>2, <2>1
    <2>3. IsValue(Row[k])
      BY <2>2 DEF IsValue
    <2>4. CASE k < q
      <3>1. k < N - n /\ Row[k] = history[At(k)]
        BY <1>p, <1>1, <2>1, <2>4
      <3>2. Row[k].itemid \in itemids
        BY <1>p, <2>3, <3>1 DEF SeenInv
      <3> QED
        BY <1>p, <2>1, <2>2, <3>2
    <2>5. CASE q <= k
      <3>1. k \in DOMAIN Row /\ Row[k].itemid = Row[q].itemid
        BY <1>p, <1>1, <2>1, <2>5 DEF RunInv
      <3>2. IsValue(Row[q])
        BY <2>3, <3>1 DEF IsValue
      <3> QED
        BY <1>p, <1>1, <2>1, <2>2, <3>1, <3>2
    <2> QED
      BY <2>1, <2>4, <2>5
  <1>3. /\ \A p : p \in 0 .. history_num' - 1 => p \in 0 .. N - d - 1
        /\ \A p \in 0 .. N - d - 1 : p < history_num' - reg'.n => p < q + num - d
    <2>1. history_num' - reg'.n = q + num - d
      BY <1>p, <1>0, <1>1
    <2>2. 0 .. history_num' - 1 = 0 .. N - d - 1
      BY <1>p
    <2>3. \A p : p \in 0 .. history_num' - 1 => p \in 0 .. N - d - 1
      BY <2>2
    <2>4. \A p \in 0 .. N - d - 1 : p < history_num' - reg'.n => p < q + num - d
      BY <2>1
    <2> QED
      BY <2>3, <2>4
  <1> QED
    BY <1>p, <1>2, <1>3 DEF SeenInv, IsValue

LEMMA SeenVisit ==
  ASSUME BaseInv, RingInv, SeenInv, NEW s \in SyncProcs, VisitBusy(s) \/ VisitGap(s) \/ VisitTake(s)
  PROVE  SeenInv'
  <1>0. HistorySize \in Nat \ {0} /\ history_first \in Index /\ history \in [Index -> Slot]
    BY SizeAssumption DEF RingInv, RingTypes
  <1>1. Scanning(s)
    BY DEF VisitBusy, VisitGap, VisitTake, RunFound
  <1>2. PICK N \in 1 .. HistorySize, n \in 1 .. HistorySize, num \in Nat :
          /\ history_num = N /\ reg.n = n /\ reg.num = num /\ n <= N /\ reg.f = At(N - n)
          /\ Row \in [0 .. N - 1 -> Slot]
          /\ RunInv(Row, N, N - n, num)
          /\ \A k \in 0 .. N - 1 : At(k) \in Index /\ Row[k] = history[At(k)]
    BY <1>1, ScanRow
  <1>3. Scanned
    BY <1>1, ScanRow
  <1>4. N - n \in 0 .. N - 1 /\ n \in 1 .. N /\ num \in 0 .. HistorySize
    <2>1. (N - n) + num <= HistorySize
      BY <1>2 DEF RunInv
    <2> QED
      BY <1>0, <1>2, <2>1
  <1>5. reg'.n = n - num
    <2>1. reg \in [n : Int, f : Int, num : Nat, gap : Int, data : Int]
      BY DEF RingInv, RingTypes
    <2>2. reg' = [reg EXCEPT !.n = reg.n - reg.num, !.f = Wrap(reg.f + reg.num), !.num = 0]
      BY DEF VisitBusy, VisitGap, VisitTake, Advance
    <2> QED
      BY <1>2, <2>1, <2>2
  <1>6. /\ itemids \subseteq itemids'
        /\ IsValue(Row[N - n]) => Row[N - n].itemid \in itemids'
    <2>1. Row[N - n] = history[reg.f]
      BY <1>2, <1>4
    <2>2. CASE VisitBusy(s)
      BY <2>1, <2>2 DEF VisitBusy, Busy
    <2>3. CASE VisitGap(s)
      BY <2>1, <2>3 DEF VisitGap, IsValue
    <2>4. CASE VisitTake(s)
      BY <2>1, <2>4 DEF VisitTake, Mark
    <2> QED
      BY <2>2, <2>3, <2>4
  <1>7. PICK h : h = history'
    OBVIOUS
  <1>8. \A f \in Index : SkipItems(history)[f].itemid = history[f].itemid
    BY <1>0, SkipItemsSlots
  <1>9. \A k \in 0 .. N - 1 : IsValue(h[At(k)]) => h[At(k)].itemid = Row[k].itemid
    <2>1. CASE history' = SkipItems(history)
      BY <1>2, <1>7, <1>8, <2>1
    <2>2. CASE history' = [SkipItems(history) EXCEPT ![reg.f] = Hole(@)]
      <3>1. DOMAIN SkipItems(history) = Index
        BY <1>0 DEF SkipItems
      <3>2. Hole(SkipItems(history)[reg.f]).itemid = Gap
        <4>1. reg.f \in Index /\ history[reg.f] \in Slot
          BY <1>0, <1>2, <1>4
        <4>2. SkipItems(history)[reg.f] \in
                [itemid : Items \cup {Gap}, num : {SkipItems(history)[reg.f].num}, val : Nat, txt : Nat, len : Nat]
          BY <1>0, <4>1, SkipItemsSlots
        <4> QED
          BY <4>2 DEF Hole
      <3> QED
        BY <1>2, <1>7, <1>8, <2>2, <3>1, <3>2 DEF IsValue
    <2> QED
      BY <2>1, <2>2 DEF VisitBusy, VisitGap, VisitTake, Take
  <1>10. PICK d \in 0 .. HistorySize : history_num' = N - d /\ history_first' = Wrap(history_first + d)
    <2>1. CASE UNCHANGED <<history_num, history_first>>
      <3>1. 0 \in 0 .. HistorySize /\ history_num' = N - 0 /\ history_first' = Wrap(history_first + 0)
        BY <1>0, <1>2, <2>1 DEF Wrap, Index
      <3> QED
        BY <3>1
    <2>2. CASE DropHead(reg.num)
      BY <1>2, <1>4, <2>2 DEF DropHead
    <2>3. CASE DropHead(1)
      <3>1. 1 \in 0 .. HistorySize
        BY <1>0
      <3> QED
        BY <1>2, <2>3, <3>1 DEF DropHead
    <2> QED
      BY <2>1, <2>2, <2>3 DEF VisitBusy, VisitGap, VisitTake, Take, DropHoles
  <1>11. n \in 1 .. N /\ num \in Nat /\ N \in 1 .. HistorySize /\ d \in 0 .. HistorySize
    BY <1>2, <1>4, <1>10
  <1>12. Passing(N, n, num, d, h)
    BY <1>2, <1>5, <1>6, <1>7, <1>9, <1>10 DEF Passing
  <1>13. SeenInv /\ Scanned /\ history_first \in Index
    BY <1>0, <1>3
  <1> QED
    BY <1>11, <1>12, <1>13, SeenPassed

LEMMA SeenNext ==
  ASSUME Server, BaseInv, BaseInv', RingInv, SeenInv, [Next]_vars
  PROVE  SeenInv'
  <1>1. CASE ~Scanned'
    BY <1>1 DEF SeenInv
  <1>2. ASSUME NEW w \in Writers, dc_flush_history(w) \/ Retry(w) \/ Fill(w) PROVE ~Scanned'
    <2>1. cache_lock' \in {w, Nobody}
      BY <1>2 DEF dc_flush_history, Retry, Fill, TextFull, VacTextStep, VacTextDone, RingFull, VacuumStep,
         VacuumDone, DCadd_history, FlushDone, Lock, Unlock, Sleep
    <2> QED
      BY <2>1, Phases, PhasesNext
  <1>3. ASSUME NEW s \in SyncProcs, ScanDone(s) \/ TrimStep(s) \/ TrimDone(s) \/ Release(s) PROVE ~Scanned'
    <2>1. cache_lock' \in {s, Nobody} /\ pc'[s] # "scan"
      BY <1>3, Phases DEF BaseInv, LockInv, Working, ScanDone, TrimStep, TrimDone, Release, Unlock, Goto,
         Continue, Return
    <2> QED
      BY <2>1, Phases, PhasesNext
  <1>4. ASSUME Terminate PROVE ~Scanned'
    BY <1>4, Phases, PhasesNext DEF Terminate
  <1>5. ASSUME SyncFull PROVE ~Scanned'
    <2>1. pc[Main] = "exit" /\ pc' = [pc EXCEPT ![Main] = pc'[Main]] /\ pc'[Main] # "scan"
      BY <1>5, Phases DEF SyncFull, Goto, BaseInv
    <2>2. \A s \in SyncProcs : pc'[s] # "scan"
      BY <2>1, Phases DEF BaseInv, LockInv
    <2> QED
      BY <2>2 DEF Scanned
  <1>6. ASSUME \/ Stopped \/ UNCHANGED vars
               \/ \E w \in Writers : \E i \in Items : dc_add_history(w, i)
               \/ \E s \in SyncProcs : SyncIdle(s) \/ SyncStart(s) \/ Commit(s)
        PROVE  SeenInv'
    <2>1. UNCHANGED <<history, history_first, history_num, itemids, reg>>
      BY <1>6 DEF Stopped, dc_add_history, SyncIdle, SyncStart, Commit, vars, ring
    <2>2. \/ UNCHANGED pc
          \/ \E s \in SyncProcs : \E l \in {"collect", "release"} : pc' = [pc EXCEPT ![s] = l]
      BY <1>6 DEF Stopped, dc_add_history, SyncIdle, SyncStart, Commit, vars, Goto
    <2>3. Scanned' => Scanned
      BY <2>2, Phases DEF Scanned, BaseInv
    <2> QED
      BY <2>1, <2>3, SeenSame
  <1>7. ASSUME NEW s \in SyncProcs, Collect(s) PROVE SeenInv'
    <2>1. history_num' = history_num /\ reg'.n = history_num /\ history_num \in Int
      BY <1>7 DEF Collect, Regs0, ring, RingInv, RingTypes
    <2>2. \A p \in 0 .. history_num' - 1 : ~(p < history_num' - reg'.n)
      BY <2>1
    <2> QED
      BY <2>2 DEF SeenInv
  <1>8. ASSUME NEW s \in SyncProcs, SkipStep(s) PROVE SeenInv'
    <2>1. UNCHANGED <<history, history_first, history_num, itemids, pc>>
      BY <1>8 DEF SkipStep, ring
    <2>2. reg'.n = reg.n
      <3>1. /\ reg \in [n : Int, f : Int, num : Nat, gap : Int, data : Int]
            /\ reg' = [reg EXCEPT !.num = reg.num + history[Wrap(reg.f + reg.num)].num]
        BY <1>8 DEF SkipStep, RingInv, RingTypes
      <3> QED
        BY <3>1
    <2>3. Scanned' => Scanned
      BY <2>1 DEF Scanned
    <2> QED
      BY <2>1, <2>2, <2>3, SeenSame
  <1>9. ASSUME NEW s \in SyncProcs, VisitBusy(s) \/ VisitGap(s) \/ VisitTake(s) PROVE SeenInv'
    BY <1>9, SeenVisit
  <1>10. \A s \in SyncProcs : ~ProxyTake(s)
    BY DEF ProxyTake
  <1> QED
    BY <1>1, <1>2, <1>3, <1>4, <1>5, <1>6, <1>7, <1>8, <1>9, <1>10 DEF Next, Drain

WaitingMeans == \A i \in Items : \A v : v \in InRing(i) <=> v \in 1 .. added[i] /\ ~Out(i, v)

\* What is waiting follows from what was added and what has left the ring.
LEMMA RingWaiting == RingInv /\ OnceInv => WaitingMeans
  <1> SUFFICES ASSUME RingInv, OnceInv PROVE WaitingMeans
    OBVIOUS
  <1>1. ASSUME NEW i \in Items, NEW v PROVE v \in InRing(i) <=> Stored(i, v)
    BY DEF InRing, Stored
  <1>2. ASSUME NEW i \in Items, NEW v, Stored(i, v) PROVE InRow(Row, i, v)
    <2>1. PICK p \in 0 .. history_num - 1 : history[At(p)].itemid = i /\ history[At(p)].val = v
      BY <1>2 DEF Stored
    <2>2. IsValue(history[At(p)])
      BY <2>1, ItemsAssumption DEF IsValue
    <2>3. PICK k \in DOMAIN Row : history[At(p)] = Row[k]
      BY <2>2 DEF RingInv, Copies
    <2> QED
      BY <2>1, <2>3 DEF InRow
  <1>3. ASSUME NEW i \in Items, NEW v, InRow(Row, i, v) PROVE Stored(i, v)
    <2>1. PICK N \in Int, gap \in Nat : history_num = N /\ Gone = gap
      <3>1. history_num \in Int /\ Gone \in Nat
        BY DEF RingInv, RingTypes, VacuumInv, Gone
      <3> QED
        BY <3>1
    <2>2. PICK k \in 0 .. N - gap - 1 : history[At(Place(k))].itemid = i /\ history[At(Place(k))].val = v
      BY <1>3, <2>1 DEF InRow, Row, Count
    <2>3. Place(k) \in 0 .. N - 1
      BY <2>1, <2>2 DEF Place
    <2> QED
      BY <2>1, <2>2, <2>3 DEF Stored
  <1>4. \A i \in Items : \A v : v \in 1 .. added[i] <=> InRow(Row, i, v) \/ Out(i, v)
    BY KeptMeans DEF RingInv
  <1> QED
    BY <1>1, <1>2, <1>3, <1>4 DEF OnceInv, WaitingMeans

LEMMA RingWaitingNext == RingInv' /\ OnceInv' => WaitingMeans'
  BY RingWaiting, PTL

LEMMA InRingMeans ==
  ASSUME RingInv, OnceInv
  PROVE  \A i \in Items : \A v : v \in InRing(i) <=> v \in 1 .. added[i] /\ ~Out(i, v)
  BY RingWaiting DEF WaitingMeans

LEMMA InRingMeansNext ==
  ASSUME RingInv', OnceInv'
  PROVE  \A i \in Items : \A v : v \in InRing(i)' <=> v \in 1 .. added'[i] /\ ~Out(i, v)'
  BY RingWaitingNext DEF WaitingMeans

LEMMA InFlightMeans == \A i : \A v : v \in InFlight(i) <=> Flying(i, v)
  BY DEF InFlight, Flying, BatchVals

LEMMA InFlightMeansNext == \A i : \A v : v \in InFlight(i)' <=> Flying(i, v)'
  BY DEF InFlight, Flying, BatchVals

\* An item with a value in an open transaction is marked, and no other syncer has one.
LEMMA FlightMarked ==
  ASSUME Server, BaseInv, ExclusiveInv, DrainInv
  PROVE  /\ \A s \in SyncProcs : \A i \in Items : \A v : pc[s] \in Flight /\ Has(s, i, v) => i \in itemids
         /\ \A s \in SyncProcs, t \in SyncProcs :
              s # t /\ pc[s] \in Flight /\ pc[t] \in Flight =>
                \A i \in Items : \A u : \A v : ~(Has(s, i, u) /\ Has(t, i, v))
         /\ \A s \in SyncProcs : \A i \in Items : \A u : \A v :
              pc[s] \in Flight /\ pc[Main] = "idle" /\ Has(s, i, u) /\ Has(s, i, v) => u = v
  <1>1. \A s \in SyncProcs : \A i : \A v : Has(s, i, v) => i \in BatchItems(s)
    BY DEF Has, BatchItems
  <1>2. Main \in SyncProcs /\ (\A s \in SyncProcs : s = Main \/ s \in Syncers)
    BY DEF SyncProcs
  <1>3. CASE pc[Main] = "idle"
    <2>1. \A i : \A v : ~Has(Main, i, v)
      BY <1>3 DEF BaseInv, HeldInv, Has
    <2>2. /\ \A s \in Syncers, t \in Syncers : s # t => BatchItems(s) \cap BatchItems(t) = {}
          /\ \A s \in Syncers : \A u \in batch[s], v \in batch[s] : u.itemid = v.itemid => u = v
          /\ itemids = UNION {BatchItems(s) : s \in Syncers}
      BY <1>3 DEF ExclusiveInv, ItemExclusive
    <2>3. \A s \in SyncProcs : \A i \in Items : \A v : pc[s] \in Flight /\ Has(s, i, v) => i \in itemids
      BY <1>1, <1>2, <2>1, <2>2
    <2>4. \A s \in SyncProcs, t \in SyncProcs :
            s # t /\ pc[s] \in Flight /\ pc[t] \in Flight =>
              \A i \in Items : \A u : \A v : ~(Has(s, i, u) /\ Has(t, i, v))
      BY <1>1, <1>2, <2>1, <2>2
    <2>5. \A s \in SyncProcs : \A i \in Items : \A u : \A v :
              pc[s] \in Flight /\ pc[Main] = "idle" /\ Has(s, i, u) /\ Has(s, i, v) => u = v
      BY <1>2, <2>1, <2>2 DEF Has
    <2> QED
      BY <2>3, <2>4, <2>5
  <1>4. CASE pc[Main] # "idle"
    <2>1. \A s \in SyncProcs : pc[s] \in Flight => s = Main
      BY <1>4, Phases DEF BaseInv, LockInv, Flight
    <2>2. pc[Main] \in Flight => itemids = BatchItems(Main)
      BY <1>4 DEF DrainInv, Flight
    <2> QED
      BY <1>1, <1>4, <2>1, <2>2
  <1> QED
    BY <1>3, <1>4

--------------------------------------------------------------------------------
(***************************************************************************)
(* The steps.                                                              *)
(***************************************************************************)

\* Nothing the queues tell changes.
LEMMA QueueStutters ==
  ASSUME RingInv, RingInv', OnceInv, OnceInv', HandsKept, UNCHANGED <<added, db, lost>>
  PROVE  UNCHANGED Queue!vars
  <1>1. \A i : \A v : Flying(i, v)' <=> Flying(i, v)
    BY FlightSame
  <1>2. \A i : \A v : Out(i, v)' <=> Out(i, v)
    BY <1>1 DEF Out
  <1>3. \A i \in Items : \A v : v \in InRing(i)' <=> v \in InRing(i)
    BY <1>2, InRingMeans, InRingMeansNext
  <1>4. \A i \in Items : \A v : v \in InFlight(i)' <=> v \in InFlight(i)
    BY <1>1, InFlightMeans, InFlightMeansNext
  <1>5. \A i \in Items : InRing(i)' = InRing(i) /\ InFlight(i)' = InFlight(i)
    BY <1>3, <1>4
  <1> QED
    BY <1>5 DEF Queue!vars

LEMMA QueueAdds ==
  ASSUME BaseInv, RingInv, RingInv', OnceInv, OnceInv', NEW w \in Writers, DCadd_history(w)
  PROVE  \E i \in Items : Queue!Add(i)
  <1>1. PICK i : i = Head(local[w])
    OBVIOUS
  <1>2. i \in Items /\ added' = [added EXCEPT ![i] = added[i] + 1]
    BY <1>1, StoredAdd
  <1>3. added \in [Items -> Nat]
    BY DEF RingInv, RingTypes
  <1>4. UNCHANGED <<pc, batch, db, lost>>
    BY DEF DCadd_history, sync
  <1>5. \A j : \A v : Flying(j, v)' <=> Flying(j, v)
    BY <1>4 DEF Flying
  <1>6. \A j : \A v : Out(j, v)' <=> Out(j, v)
    BY <1>4, <1>5 DEF Out
  <1>7. \A j \in Items : InFlight(j)' = InFlight(j)
    BY <1>5, InFlightMeans, InFlightMeansNext
  <1>8. ~Out(i, added[i] + 1)
    <2>1. added[i] + 1 \notin 1 .. added[i]
      BY <1>2, <1>3
    <2> QED
      BY <1>2, <2>1, KeptMeans DEF RingInv
  <1>9. \A j \in Items : InRing(j)' = IF j = i THEN InRing(j) \cup {added[i] + 1} ELSE InRing(j)
    <2> SUFFICES ASSUME NEW j \in Items, NEW v
                 PROVE  v \in InRing(j)' <=> v \in InRing(j) \/ (j = i /\ v = added[i] + 1)
      OBVIOUS
    <2>1. v \in 1 .. added'[j] <=> v \in 1 .. added[j] \/ (j = i /\ v = added[i] + 1)
      BY <1>2, <1>3
    <2> QED
      BY <1>6, <1>8, <2>1, InRingMeans, InRingMeansNext
  <1>10. [j \in Items |-> InRing(j)]' = [[j \in Items |-> InRing(j)] EXCEPT ![i] = @ \cup {added[i] + 1}]
    BY <1>2, <1>9
  <1>11. Queue!Add(i)
    BY <1>2, <1>4, <1>7, <1>10 DEF Queue!Add
  <1> QED
    BY <1>2, <1>11

\* The value a syncer takes is the oldest one of an item that is not in work.
LEMMA QueueTakes ==
  ASSUME Server, BaseInv, ExclusiveInv, DrainInv, RingInv, RingInv', OnceInv, OnceInv', SeenInv,
         NEW s \in SyncProcs, VisitTake(s)
  PROVE  \E i \in Items : \E v \in InRing(i) : Queue!Take(i, v)
  <1>0. HistorySize \in Nat
    BY SizeAssumption
  <1>1. Scanning(s) /\ pc[s] = "scan" /\ UNCHANGED <<added, db, lost, pc>>
    BY DEF VisitTake, RunFound, Scanning, ghost
  <1>2. PICK N \in 1 .. HistorySize, n \in 1 .. HistorySize :
          /\ history_num = N /\ reg.n = n /\ n <= N /\ reg.f = At(N - n)
          /\ Row \in [0 .. N - 1 -> Slot]
          /\ \A k \in 0 .. N - 1 : At(k) \in Index /\ Row[k] = history[At(k)]
    BY <1>1, ScanRow
  <1>3. PICK q \in 0 .. N - 1 : q = N - n
    BY <1>0, <1>2
  <1>4. PICK i, v : i = Row[q].itemid /\ v = Row[q].val
    OBVIOUS
  <1> DEFINE u == [itemid |-> history[reg.f].itemid, val |-> history[reg.f].val]
  <1>5. batch' = [batch EXCEPT ![s] = @ \cup {u}] /\ i # Gap /\ i \notin itemids
    BY <1>2, <1>3, <1>4 DEF VisitTake, Take, Busy
  <1>6. u.itemid = i /\ u.val = v
    BY <1>2, <1>3, <1>4
  <1> HIDE DEF u
  <1>7. i \in Items /\ v \in Nat
    BY <1>2, <1>4, <1>5 DEF Slot
  <1>8. \A j : \A x : Flying(j, x)' <=> Flying(j, x) \/ (j = i /\ x = v)
    BY <1>1, <1>5, <1>6, FlyingTaken
  <1>9. \A j : \A x : Out(j, x)' <=> Out(j, x) \/ (j = i /\ x = v)
    BY <1>1, <1>8 DEF Out
  <1>10. \A x : ~Flying(i, x)
    BY <1>5, <1>7, FlightMarked, FlyingHas
  <1>11. InFlight(i) = {} /\ \A j \in Items : InFlight(j)' = IF j = i THEN {v} ELSE InFlight(j)
    <2>1. \A j \in Items : \A x : x \in InFlight(j)' <=> x \in InFlight(j) \/ (j = i /\ x = v)
      BY <1>8, InFlightMeans, InFlightMeansNext
    <2>2. InFlight(i) = {}
      BY <1>10, InFlightMeans
    <2>3. \A j \in Items : j # i => InFlight(j)' = InFlight(j)
      BY <2>1
    <2>4. InFlight(i)' = {v}
      BY <1>7, <2>1, <2>2
    <2> QED
      BY <2>2, <2>3, <2>4
  <1>12. Stored(i, v)
    BY <1>2, <1>4 DEF Stored
  <1>13. v \in InRing(i)
    BY <1>12 DEF InRing, Stored
  <1>14. \A j \in Items : InRing(j)' = IF j = i THEN InRing(j) \ {v} ELSE InRing(j)
    BY <1>1, <1>9, InRingMeans, InRingMeansNext
  <1>15. ASSUME NEW x \in InRing(i) PROVE v <= x
    <2>1. PICK p \in 0 .. N - 1 : Row[p].itemid = i /\ Row[p].val = x
      BY <1>2 DEF InRing
    <2>2. IsValue(Row[p]) /\ IsValue(Row[q]) /\ p \in DOMAIN Row /\ q \in DOMAIN Row
      BY <1>2, <1>4, <1>5, <2>1 DEF IsValue
    <2>3. ~(p < q)
      <3>1. p < q => p < history_num - reg.n
        BY <1>2, <1>3
      <3>2. Scanned
        BY <1>1 DEF Scanned
      <3> QED
        BY <1>2, <1>5, <2>1, <2>2, <3>1, <3>2 DEF SeenInv
    <2>4. p = q \/ q < p
      BY <2>3
    <2>5. q < p => v < x
      BY <1>4, <2>1, <2>2 DEF RingInv, RowOrdered
    <2>6. x \in Nat
      BY <1>2, <2>1 DEF Slot
    <2> QED
      BY <1>4, <1>7, <2>1, <2>4, <2>5, <2>6
  <1>16. /\ [j \in Items |-> InRing(j)]' = [[j \in Items |-> InRing(j)] EXCEPT ![i] = @ \ {v}]
         /\ [j \in Items |-> InFlight(j)]' = [[j \in Items |-> InFlight(j)] EXCEPT ![i] = {v}]
    BY <1>7, <1>11, <1>14
  <1>17. Queue!Take(i, v)
    BY <1>1, <1>7, <1>11, <1>13, <1>15, <1>16 DEF Queue!Take
  <1> QED
    BY <1>7, <1>13, <1>17

\* The busy values of the items of a batch end together.
LEMMA QueueFinishes ==
  ASSUME Server, BaseInv, ExclusiveInv, DrainInv, RingInv, RingInv', OnceInv, OnceInv',
         NEW s \in SyncProcs, Commit(s)
  PROVE  \E I \in SUBSET Items : Queue!Finish(I)
  <1> DEFINE I == {i \in Items : \E v : Has(s, i, v)}
  <1>1. /\ pc[s] = "db" /\ pc'[s] = "release" /\ UNCHANGED <<batch, added>>
        /\ \A t \in SyncProcs : t # s => pc'[t] = pc[t]
    BY Phases DEF Commit, Goto, BaseInv, sync
  <1>2. \A t \in SyncProcs : \A i : \A v : Has(t, i, v)' <=> Has(t, i, v)
    BY <1>1 DEF Has
  <1>3. "db" \in Flight /\ "release" \notin Flight
    BY DEF Flight
  <1>4. \A i \in Items : \A v : v \in BatchVals(s, i) <=> Has(s, i, v)
    BY DEF BatchVals, Has
  <1>5. \A i \in I : \A v : Flying(i, v) <=> Has(s, i, v)
    BY <1>1, <1>3, FlightMarked, FlyingHas
  <1>6. \A i \in Items : \A v : Flying(i, v)' <=> i \notin I /\ Flying(i, v)
    <2> SUFFICES ASSUME NEW i \in Items, NEW v PROVE Flying(i, v)' <=> i \notin I /\ Flying(i, v)
      OBVIOUS
    <2>1. Flying(i, v)' <=> \E t \in SyncProcs : t # s /\ pc[t] \in Flight /\ Has(t, i, v)
      BY <1>1, <1>2, <1>3, FlyingHasNext
    <2>2. CASE i \in I
      <3>1. PICK x : Has(s, i, x)
        BY <2>2
      <3> QED
        BY <1>1, <1>3, <2>1, <2>2, <3>1, FlightMarked
    <2>3. CASE i \notin I
      BY <1>1, <1>3, <2>1, <2>3, FlyingHas
    <2> QED
      BY <2>2, <2>3
  <1>7. \A i \in Items : InFlight(i)' = IF i \in I THEN {} ELSE InFlight(i)
    BY <1>6, InFlightMeans, InFlightMeansNext
  <1>8. \A i \in I : InFlight(i) # {} /\ InFlight(i) = BatchVals(s, i)
    BY <1>4, <1>5, InFlightMeans
  <1>9. \A i \in Items : i \notin I => BatchVals(s, i) = {}
    BY <1>4
  <1>10. \A i \in Items : InRing(i)' = InRing(i)
    BY <1>1, RingCommit, InRingMeans, InRingMeansNext
  <1>11. I \in SUBSET Items
    OBVIOUS
  <1> HIDE DEF I
  <1>12. \/ db' = [i \in Items |-> IF i \in I THEN db[i] \cup InFlight(i) ELSE db[i]] /\ UNCHANGED lost
         \/ lost' = [i \in Items |-> IF i \in I THEN lost[i] \cup InFlight(i) ELSE lost[i]] /\ UNCHANGED db
    BY <1>8, <1>9 DEF Commit
  <1>13. Queue!Finish(I)
    BY <1>1, <1>7, <1>8, <1>10, <1>11, <1>12 DEF Queue!Finish
  <1> QED
    BY <1>11, <1>13

\* The stop of the children ends every transaction.
LEMMA QueueEnds ==
  ASSUME BaseInv, Terminate
  PROVE  \E I \in SUBSET Items : Queue!Finish(I)
  <1> DEFINE I == {i \in Items : InFlight(i) # {}}
  <1>1. /\ UNCHANGED <<history, history_first, history_num, db, added>>
        /\ pc[Main] = "idle" /\ batch' = [t \in SyncProcs |-> {}]
        /\ lost' = [i \in Items |->
                      lost[i] \cup UNION {BatchVals(t, i) : t \in {t \in Syncers : pc[t] # "release"}}]
    BY DEF Terminate, ring
  <1>2. \A i : InFlight(i)' = {}
    <2>1. \A t \in SyncProcs : \A i : \A v : ~Has(t, i, v)'
      BY <1>1 DEF Has
    <2> QED
      BY <2>1, FlyingHasNext, InFlightMeansNext
  <1>3. \A i \in Items : InFlight(i) = UNION {BatchVals(t, i) : t \in {t \in Syncers : pc[t] # "release"}}
    <2> SUFFICES ASSUME NEW i \in Items, NEW v
                 PROVE  Flying(i, v) <=> \E t \in Syncers : pc[t] # "release" /\ v \in BatchVals(t, i)
      BY InFlightMeans
    <2>1. \A t : v \in BatchVals(t, i) <=> Has(t, i, v)
      BY DEF BatchVals, Has
    <2>2. \A t \in Syncers : t \in SyncProcs /\ (Has(t, i, v) /\ pc[t] # "release" => pc[t] \in Flight)
      BY DEF BaseInv, HeldInv, Flight, SyncProcs, Has
    <2>3. \A t \in SyncProcs : Has(t, i, v) => t \in Syncers
      BY <1>1 DEF BaseInv, HeldInv, SyncProcs, Has
    <2>4. "release" \notin Flight
      BY DEF Flight
    <2> QED
      BY <2>1, <2>2, <2>3, <2>4, FlyingHas
  <1>4. \A i \in Items : InRing(i)' = InRing(i)
    BY <1>1 DEF InRing, At
  <1>5. I \in SUBSET Items /\ \A i \in Items : i \in I <=> InFlight(i) # {}
    OBVIOUS
  <1> HIDE DEF I
  <1>6. lost' = [i \in Items |-> IF i \in I THEN lost[i] \cup InFlight(i) ELSE lost[i]]
    <2>1. \A i \in Items : lost[i] \cup InFlight(i) = IF i \in I THEN lost[i] \cup InFlight(i) ELSE lost[i]
      BY <1>5
    <2>2. lost' = [i \in Items |-> lost[i] \cup InFlight(i)]
      BY <1>1, <1>3
    <2> QED
      BY <2>1, <2>2
  <1>7. Queue!Finish(I)
    BY <1>1, <1>2, <1>4, <1>5, <1>6 DEF Queue!Finish
  <1> QED
    BY <1>5, <1>7

LEMMA QueueInit == Init => Queue!Init
  <1> SUFFICES ASSUME Init PROVE Queue!Init
    OBVIOUS
  <1>1. 0 .. history_num - 1 = {} /\ \A s \in SyncProcs : batch[s] = {}
    BY DEF Init
  <1>2. \A i \in Items : InRing(i) = {} /\ InFlight(i) = {}
    BY <1>1 DEF InRing, InFlight, BatchVals
  <1> QED
    BY <1>2 DEF Init, Queue!Init

QueueInv == BaseInv /\ ExclusiveInv /\ DrainInv /\ (torn \/ (RingInv /\ VacBounds /\ OnceInv /\ SeenInv))

LEMMA QueueInvNext == Server /\ QueueInv /\ [Next]_vars => QueueInv'
  <1> SUFFICES ASSUME Server, QueueInv, [Next]_vars PROVE QueueInv'
    OBVIOUS
  <1>1. BaseInv' /\ ExclusiveInv'
    BY BaseNext, ExclusiveNext DEF QueueInv
  <1>2. DrainInv'
    BY <1>1, DrainNext DEF QueueInv
  <1>3. torn => torn'
    BY TornStays DEF QueueInv
  <1>4. ASSUME ~torn' PROVE RingInv' /\ VacBounds' /\ OnceInv' /\ SeenInv'
    BY <1>1, <1>3, <1>4, RingNext, BoundsNext, OnceNext, SeenNext DEF QueueInv
  <1> QED
    BY <1>1, <1>2, <1>4 DEF QueueInv

LEMMA QueueStep == Server /\ QueueInv /\ QueueInv' /\ [Next]_vars => [torn \/ Queue!Next]_(Queue!vars)
  <1> SUFFICES ASSUME Server, QueueInv, QueueInv', [Next]_vars, ~torn
               PROVE  Queue!Next \/ UNCHANGED Queue!vars
    OBVIOUS
  <1>1. CASE Terminate
    BY <1>1, QueueEnds DEF QueueInv, Queue!Next
  <1>2. ASSUME ~Terminate PROVE torn' = torn
    BY <1>2 DEF Next, dc_add_history, dc_flush_history, Retry, Fill, TextFull, VacTextStep, VacTextDone,
       RingFull, VacuumStep, VacuumDone, DCadd_history, FlushDone, SyncIdle, Collect, Drain, Release,
       SyncStart, SkipStep, VisitGap, VisitBusy, VisitTake, ProxyTake, ScanDone, TrimStep, TrimDone, Commit,
       Take, SyncFull, Stopped, ghost, vars
  <1>3. ASSUME ~Terminate
        PROVE  /\ BaseInv /\ ExclusiveInv /\ DrainInv /\ RingInv /\ RingInv' /\ OnceInv /\ OnceInv' /\ SeenInv
    BY <1>2, <1>3 DEF QueueInv
  <1>4. ASSUME ~Terminate, \/ HandsKept /\ UNCHANGED <<added, db, lost>>
                           \/ \E w \in Writers : DCadd_history(w)
                           \/ \E s \in SyncProcs : VisitTake(s) \/ Commit(s)
        PROVE  Queue!Next \/ UNCHANGED Queue!vars
    <2>1. CASE HandsKept /\ UNCHANGED <<added, db, lost>>
      BY <1>3, <1>4, <2>1, QueueStutters
    <2>2. CASE \E w \in Writers : DCadd_history(w)
      BY <1>3, <1>4, <2>2, QueueAdds DEF Queue!Next
    <2>3. CASE \E s \in SyncProcs : VisitTake(s)
      BY <1>3, <1>4, <2>3, QueueTakes DEF Queue!Next
    <2>4. CASE \E s \in SyncProcs : Commit(s)
      BY <1>3, <1>4, <2>4, QueueFinishes DEF Queue!Next
    <2> QED
      BY <1>4, <2>1, <2>2, <2>3, <2>4
  <1>5. CASE ~Terminate
    <2>1. CASE \E w \in Writers : dc_flush_history(w) \/ Retry(w) \/ Fill(w)
      BY <1>3, <1>4, <1>5, <2>1, QuietHands, MovesHands DEF Fill
    <2>2. CASE \E s \in SyncProcs : SyncIdle(s) \/ Collect(s) \/ Drain(s) \/ Release(s)
      <3>1. \A s \in SyncProcs : ~ProxyTake(s)
        BY DEF ProxyTake
      <3> QED
        BY <1>3, <1>4, <1>5, <2>2, <3>1, QuietHands, MovesHands DEF Drain
    <2>3. CASE SyncFull \/ Stopped \/ UNCHANGED vars \/ \E w \in Writers : \E i \in Items : dc_add_history(w, i)
      BY <1>3, <1>4, <1>5, <2>3, QuietHands
    <2> QED
      BY <1>5, <2>1, <2>2, <2>3 DEF Next
  <1> QED
    BY <1>1, <1>5

\* The cache of the server implements the queues of ItemQueue.
THEOREM QueuesImplemented == Server /\ Spec => QueueSpec
  <1> SUFFICES ASSUME Server PROVE Spec => QueueSpec
    OBVIOUS
  <1>1. Init => QueueInv
    BY BaseInit, ExclusiveInit, DrainInit, RingInit, OnceInit, SeenInit DEF QueueInv
  <1>2. QueueInv /\ [Next]_vars => QueueInv'
    BY QueueInvNext
  <1>3. QueueInv /\ QueueInv' /\ [Next]_vars => [torn \/ Queue!Next]_(Queue!vars)
    BY QueueStep
  <1> QED
    BY <1>1, <1>2, <1>3, QueueInit, PTL DEF Spec, QueueSpec

--------------------------------------------------------------------------------
(***************************************************************************)
(* The text space is accounted for.                                        *)
(***************************************************************************)

\* The least number principle.
LEMMA LeastNumber ==
  ASSUME NEW S \in SUBSET Nat, S # {}
  PROVE  \E m \in S : \A k \in S : m <= k
  <1>1. \E R : IsWellFoundedOn(R, Nat) /\ \A i \in Nat, j \in Nat : <<i, j>> \in R <=> i < j
    <2> DEFINE R == OpToRel(<, Nat)
    <2>1. IsWellFoundedOn(R, Nat)
      BY NatLessThanWellFounded
    <2>2. \A i \in Nat, j \in Nat : <<i, j>> \in R <=> i < j
      BY DEF OpToRel
    <2> QED
      BY <2>1, <2>2
  <1>2. PICK R : IsWellFoundedOn(R, Nat) /\ \A i \in Nat, j \in Nat : <<i, j>> \in R <=> i < j
    BY <1>1
  <1>3. IsWellFoundedOn(R, Nat)
    BY <1>2
  <1>4. PICK m \in S : \A k \in S : ~(<<k, m>> \in R)
    BY <1>3, WFMin
  <1>5. ASSUME NEW k \in S PROVE m <= k
    <2>1. k \in Nat /\ m \in Nat /\ <<k, m>> \notin R
      BY <1>4
    <2>2. <<k, m>> \in R <=> k < m
      BY <1>2, <2>1
    <2> QED
      BY <2>1, <2>2
  <1> QED
    BY <1>5

Numbered == Items \X Nat

\* The bytes of the texts of the values in W, which are pairs of an item and a number.
TextOf(W) == {x \in W \X (1 .. TextSize) : x[2] <= TextLen[x[1][1]]}

\* The values of the ring.
RingValues == {u \in Numbered : u[2] \in InRing(u[1])}

\* What the values of the ring leave is free, whatever is being moved.
AccountInv ==
  /\ IsFiniteSet(TextOf(RingValues))
  /\ text_free = TextSize - Cardinality(TextOf(RingValues))

LEMMA TextOfOne ==
  ASSUME NEW u \in Numbered
  PROVE  /\ TextLen[u[1]] \in 0 .. TextSize
         /\ TextOf({u}) = {u} \X (1 .. TextLen[u[1]])
         /\ IsFiniteSet(TextOf({u})) /\ Cardinality(TextOf({u})) = TextLen[u[1]]
  <1>1. PICK i \in Items, v \in Nat : u = <<i, v>>
    BY DEF Numbered
  <1>2. PICK len \in 0 .. TextSize : len = TextLen[i] /\ TextSize \in Nat
    BY TextAssumption, SizeAssumption
  <1>3. TextOf({u}) = {u} \X (1 .. len)
    BY <1>1, <1>2 DEF TextOf
  <1>4. IsFiniteSet(1 .. len) /\ Cardinality(1 .. len) = len
    BY FS_Interval
  <1>5. IsFiniteSet({u}) /\ Cardinality({u}) = 1
    BY FS_Singleton
  <1>6. IsFiniteSet({u} \X (1 .. len)) /\ Cardinality({u} \X (1 .. len)) = 1 * len
    BY <1>4, <1>5, FS_Product
  <1>7. 1 * len = len /\ u[1] = i
    BY <1>1
  <1>8. TextLen[u[1]] = len
    BY <1>2, <1>7
  <1>9. IsFiniteSet(TextOf({u})) /\ Cardinality(TextOf({u})) = len
    BY <1>3, <1>6, <1>7
  <1> QED
    BY <1>3, <1>8, <1>9

\* One value more needs its text more.
LEMMA TextPut ==
  ASSUME NEW W \in SUBSET Numbered, NEW u \in Numbered, u \notin W, IsFiniteSet(TextOf(W))
  PROVE  /\ IsFiniteSet(TextOf(W \cup {u}))
         /\ Cardinality(TextOf(W \cup {u})) = Cardinality(TextOf(W)) + TextLen[u[1]]
  <1>1. TextOf(W \cup {u}) = TextOf(W) \cup TextOf({u}) /\ TextOf(W) \cap TextOf({u}) = {}
    BY DEF TextOf
  <1>2. IsFiniteSet(TextOf({u})) /\ Cardinality(TextOf({u})) = TextLen[u[1]] /\ TextLen[u[1]] \in Int
    BY TextOfOne
  <1>3. /\ IsFiniteSet(TextOf(W) \cup TextOf({u}))
        /\ Cardinality(TextOf(W) \cup TextOf({u})) =
             Cardinality(TextOf(W)) + Cardinality(TextOf({u})) - Cardinality(TextOf(W) \cap TextOf({u}))
    BY <1>2, FS_Union
  <1>4. Cardinality(TextOf(W) \cap TextOf({u})) = 0
    BY <1>1, FS_EmptySet
  <1>5. PICK n \in Int : n = Cardinality(TextOf(W))
    BY FS_CardinalityType
  <1>6. Cardinality(TextOf(W) \cup TextOf({u})) = n + TextLen[u[1]]
    BY <1>2, <1>3, <1>4, <1>5
  <1>7. TextOf(W \cup {u}) = TextOf(W) \cup TextOf({u})
    BY <1>1
  <1> QED
    BY <1>3, <1>5, <1>6, <1>7

LEMMA TextLess ==
  ASSUME NEW W, NEW V \in SUBSET W, IsFiniteSet(TextOf(W))
  PROVE  IsFiniteSet(TextOf(V))
  <1>1. TextOf(V) \in SUBSET TextOf(W)
    BY DEF TextOf
  <1> QED
    BY <1>1, FS_Subset

LEMMA AccountInit == Init => AccountInv
  <1> SUFFICES ASSUME Init PROVE AccountInv
    OBVIOUS
  <1>1. RingValues = {}
    BY DEF Init, RingValues, InRing, Numbered
  <1>2. TextOf(RingValues) = {}
    BY <1>1 DEF TextOf
  <1>3. text_free = TextSize /\ TextSize \in Nat
    BY SizeAssumption DEF Init
  <1> QED
    BY <1>2, <1>3, FS_EmptySet DEF AccountInv

\* A step that neither adds nor takes a value.
LEMMA AccountSame ==
  ASSUME AccountInv, UNCHANGED text_free, \A i \in Items : InRing(i)' = InRing(i)
  PROVE  AccountInv'
  <1>1. RingValues' = RingValues
    BY DEF RingValues, Numbered
  <1> QED
    BY <1>1 DEF AccountInv, TextOf

LEMMA RingSame ==
  ASSUME RingInv, RingInv', OnceInv, OnceInv', UNCHANGED added,
         \A i \in Items : \A v : Out(i, v)' <=> Out(i, v)
  PROVE  \A i \in Items : InRing(i)' = InRing(i)
  <1>1. \A i \in Items : \A v : v \in InRing(i)' <=> v \in InRing(i)
    BY InRingMeans, InRingMeansNext
  <1> QED
    BY <1>1

\* A value and its text come into the cache.
LEMMA AccountAdd ==
  ASSUME BaseInv, RingInv, RingInv', OnceInv, OnceInv', AccountInv,
         NEW w \in Writers, DCadd_history(w)
  PROVE  AccountInv'
  <1>1. PICK i : i = Head(local[w])
    OBVIOUS
  <1>2. i \in Items /\ added' = [added EXCEPT ![i] = added[i] + 1]
    BY <1>1, StoredAdd
  <1>3. added \in [Items -> Nat]
    BY DEF RingInv, RingTypes
  <1>4. UNCHANGED <<pc, batch, db, lost>> /\ text_free' = text_free - TextLen[i]
    BY <1>1 DEF DCadd_history, sync
  <1>5. \A j : \A v : Out(j, v)' <=> Out(j, v)
    BY <1>4 DEF Out, Flying
  <1>6. ~Out(i, added[i] + 1) /\ added[i] + 1 \notin 1 .. added[i]
    <2>1. added[i] + 1 \notin 1 .. added[i]
      BY <1>2, <1>3
    <2> QED
      BY <1>2, <2>1, KeptMeans DEF RingInv
  <1>7. PICK u \in Numbered : u = <<i, added[i] + 1>>
    <2>1. added[i] + 1 \in Nat
      BY <1>2, <1>3
    <2>2. <<i, added[i] + 1>> \in Numbered
      BY <1>2, <2>1 DEF Numbered
    <2> QED
      BY <2>2
  <1>8. RingValues' = RingValues \cup {u} /\ u \notin RingValues
    <2>1. ASSUME NEW j \in Items, NEW v
          PROVE  v \in InRing(j)' <=> v \in InRing(j) \/ (j = i /\ v = added[i] + 1)
      <3>1. v \in 1 .. added'[j] <=> v \in 1 .. added[j] \/ (j = i /\ v = added[i] + 1)
        BY <1>2, <1>3
      <3> QED
        BY <1>5, <1>6, <3>1, InRingMeans, InRingMeansNext
    <2>2. added[i] + 1 \notin InRing(i)
      BY <1>2, <1>6, InRingMeans
    <2> QED
      BY <1>7, <2>1, <2>2 DEF RingValues, Numbered
  <1>9. RingValues \in SUBSET Numbered /\ u[1] = i
    BY <1>7 DEF RingValues
  <1>10. IsFiniteSet(TextOf(RingValues)) /\ text_free = TextSize - Cardinality(TextOf(RingValues))
    BY DEF AccountInv
  <1>11. PICK n \in Int, len \in Int, size \in Int :
           n = Cardinality(TextOf(RingValues)) /\ len = TextLen[i] /\ size = TextSize
    <2>1. Cardinality(TextOf(RingValues)) \in Int
      BY <1>10, FS_CardinalityType
    <2>2. TextLen[i] \in Int /\ TextSize \in Int
      BY <1>2, TextAssumption, SizeAssumption
    <2> QED
      BY <2>1, <2>2
  <1>12. /\ IsFiniteSet(TextOf(RingValues \cup {u}))
         /\ Cardinality(TextOf(RingValues \cup {u})) = n + len
    BY <1>8, <1>9, <1>10, <1>11, TextPut
  <1>13. text_free' = size - (n + len)
    BY <1>4, <1>10, <1>11
  <1> QED
    BY <1>8, <1>11, <1>12, <1>13 DEF AccountInv, TextOf

\* The text of the value that is taken is given back.
LEMMA AccountTake ==
  ASSUME BaseInv, RingInv, RingInv', OnceInv, OnceInv', AccountInv,
         NEW s \in SyncProcs, VisitTake(s) \/ ProxyTake(s)
  PROVE  AccountInv'
  <1>1. PICK h \in {history, SkipItems(history)} : Take(s, h)
    BY DEF VisitTake, ProxyTake
  <1>2. Scanning(s) /\ pc[s] = "scan" /\ UNCHANGED <<added, db, lost, pc>>
    BY DEF VisitTake, ProxyTake, RunFound, Scanning, ghost
  <1>3. PICK N \in 1 .. HistorySize, n \in 1 .. HistorySize :
          /\ history_num = N /\ reg.n = n /\ n <= N /\ reg.f = At(N - n)
          /\ Row \in [0 .. N - 1 -> Slot]
          /\ \A k \in 0 .. N - 1 : At(k) \in Index /\ Row[k] = history[At(k)]
    BY <1>2, ScanRow
  <1>4. N - n \in 0 .. N - 1
    BY <1>3, SizeAssumption
  <1>5. IsValue(history[reg.f])
    <2>1. CASE VisitTake(s)
      BY <2>1 DEF VisitTake, IsValue
    <2>2. CASE ProxyTake(s)
      BY <1>3, <1>4, <2>2 DEF ProxyTake, Scanning, RingInv, ProxyInv
    <2> QED
      BY <2>1, <2>2
  <1>6. PICK i, v : i = history[reg.f].itemid /\ v = history[reg.f].val
    OBVIOUS
  <1>7. i \in Items /\ v \in Nat
    BY <1>3, <1>4, <1>5, <1>6 DEF IsValue, Slot
  <1>8. history[reg.f].len = TextLen[i]
    BY <1>3, <1>4, <1>5, <1>6 DEF RingInv, RowOwns
  <1> DEFINE b == [itemid |-> history[reg.f].itemid, val |-> history[reg.f].val]
  <1>9. batch' = [batch EXCEPT ![s] = @ \cup {b}] /\ text_free' = text_free + TextLen[i]
    BY <1>1, <1>8 DEF Take, GiveBack
  <1>10. b.itemid = i /\ b.val = v
    BY <1>6
  <1> HIDE DEF b
  <1>11. \A j : \A x : Flying(j, x)' <=> Flying(j, x) \/ (j = i /\ x = v)
    BY <1>2, <1>9, <1>10, FlyingTaken
  <1>12. \A j : \A x : Out(j, x)' <=> Out(j, x) \/ (j = i /\ x = v)
    BY <1>2, <1>11 DEF Out
  <1>13. v \in InRing(i)
    <2>1. Stored(i, v)
      BY <1>3, <1>4, <1>6 DEF Stored
    <2> QED
      BY <2>1 DEF InRing, Stored
  <1>14. \A j \in Items : \A x : x \in InRing(j)' <=> x \in InRing(j) /\ ~(j = i /\ x = v)
    BY <1>2, <1>12, InRingMeans, InRingMeansNext
  <1>15. PICK u \in Numbered : u = <<i, v>>
    BY <1>7 DEF Numbered
  <1>16. RingValues = RingValues' \cup {u} /\ u \notin RingValues'
    BY <1>7, <1>13, <1>14, <1>15 DEF RingValues, Numbered
  <1>17. PICK W \in SUBSET Numbered : W = RingValues'
    BY DEF RingValues
  <1>18. IsFiniteSet(TextOf(W \cup {u})) /\ text_free = TextSize - Cardinality(TextOf(W \cup {u}))
    BY <1>16, <1>17 DEF AccountInv
  <1>19. IsFiniteSet(TextOf(W))
    <2>1. W \in SUBSET (W \cup {u})
      OBVIOUS
    <2> QED
      BY <1>18, <2>1, TextLess
  <1>20. PICK m \in Int, len \in Int, size \in Int :
           m = Cardinality(TextOf(W)) /\ len = TextLen[i] /\ size = TextSize
    <2>1. Cardinality(TextOf(W)) \in Int
      BY <1>19, FS_CardinalityType
    <2>2. TextLen[i] \in Int /\ TextSize \in Int
      BY <1>7, TextAssumption, SizeAssumption
    <2> QED
      BY <2>1, <2>2
  <1>21. Cardinality(TextOf(W \cup {u})) = m + len
    BY <1>15, <1>16, <1>17, <1>19, <1>20, TextPut
  <1>22. text_free' = size - m
    BY <1>9, <1>18, <1>20, <1>21
  <1> QED
    BY <1>17, <1>19, <1>20, <1>22 DEF AccountInv, TextOf

LEMMA AccountQuiet ==
  ASSUME BaseInv, RingInv, RingInv', OnceInv, OnceInv', AccountInv,
         HandsKept, UNCHANGED <<added, db, lost, text_free>>
  PROVE  AccountInv'
  <1>1. \A i : \A v : Flying(i, v)' <=> Flying(i, v)
    BY FlightSame
  <1>2. \A i : \A v : Out(i, v)' <=> Out(i, v)
    BY <1>1 DEF Out
  <1> QED
    BY <1>2, RingSame, AccountSame

LEMMA AccountNext ==
  BaseInv /\ RingInv /\ RingInv' /\ OnceInv /\ OnceInv' /\ AccountInv /\ [Next]_vars => AccountInv'
  <1> SUFFICES ASSUME BaseInv, RingInv, RingInv', OnceInv, OnceInv', AccountInv, [Next]_vars
               PROVE  AccountInv'
    OBVIOUS
  <1>1. CASE \E w \in Writers : dc_flush_history(w) \/ Retry(w) \/ Fill(w)
    <2>1. PICK w \in Writers : dc_flush_history(w) \/ Retry(w) \/ Fill(w)
      BY <1>1
    <2>2. CASE DCadd_history(w)
      BY <2>2, AccountAdd
    <2>3. CASE ~DCadd_history(w)
      <3>1. HandsKept /\ UNCHANGED <<added, db, lost>>
        BY <2>1, <2>3, QuietHands, MovesHands DEF Fill
      <3>2. UNCHANGED text_free
        BY <2>1, <2>3 DEF Fill, dc_flush_history, Retry, TextFull, VacTextStep, VacTextDone, RingFull,
           VacuumStep, VacuumDone, FlushDone, textbuf
      <3> QED
        BY <3>1, <3>2, AccountQuiet
    <2> QED
      BY <2>2, <2>3
  <1>2. CASE \E s \in SyncProcs : SyncIdle(s) \/ Collect(s) \/ Drain(s) \/ Release(s)
    <2>1. PICK s \in SyncProcs : SyncIdle(s) \/ Collect(s) \/ Drain(s) \/ Release(s)
      BY <1>2
    <2>2. CASE VisitTake(s) \/ ProxyTake(s)
      BY <2>2, AccountTake
    <2>3. CASE Commit(s)
      <3>1. \A i \in Items : \A v : Out(i, v)' <=> Out(i, v)
        BY <2>3, RingCommit
      <3>2. UNCHANGED added /\ UNCHANGED text_free
        BY <2>3 DEF Commit, textbuf
      <3> QED
        BY <3>1, <3>2, RingSame, AccountSame
    <2>4. CASE ~(VisitTake(s) \/ ProxyTake(s) \/ Commit(s))
      <3>1. HandsKept /\ UNCHANGED <<added, db, lost>>
        BY <2>1, <2>4, QuietHands, MovesHands DEF Drain
      <3>2. UNCHANGED text_free
        BY <2>1, <2>4 DEF Drain, SyncIdle, Collect, Release, SyncStart, SkipStep, VisitGap, VisitBusy,
           ScanDone, TrimStep, TrimDone, textbuf, vars
      <3> QED
        BY <3>1, <3>2, AccountQuiet
    <2> QED
      BY <2>2, <2>3, <2>4
  <1>3. CASE Terminate
    <2>1. UNCHANGED <<history, history_first, history_num, text_free>>
      BY <1>3 DEF Terminate, ring, textbuf
    <2>2. \A i \in Items : InRing(i)' = InRing(i)
      BY <2>1 DEF InRing, At
    <2> QED
      BY <2>1, <2>2, AccountSame
  <1>4. CASE SyncFull \/ Stopped \/ UNCHANGED vars \/ \E w \in Writers : \E i \in Items : dc_add_history(w, i)
    <2>1. HandsKept /\ UNCHANGED <<added, db, lost>>
      BY <1>4, QuietHands
    <2>2. UNCHANGED text_free
      BY <1>4 DEF SyncFull, Stopped, dc_add_history, vars, textbuf
    <2> QED
      BY <2>1, <2>2, AccountQuiet
  <1> QED
    BY <1>1, <1>2, <1>3, <1>4 DEF Next

\* The values in the p oldest slots.
ValuesBelow(p) ==
  {u \in Numbered : \E q \in 0 .. p - 1 : history[At(q)].itemid = u[1] /\ history[At(q)].val = u[2]}

\* The text of the value in a slot of the ring.
LenAt(p) == IF history[At(p)].itemid = Gap THEN 0 ELSE history[At(p)].len

LEMMA BelowStep ==
  ASSUME RingInv, OnceInv, AccountInv, ~Vacuuming, NEW N \in Nat, history_num = N, NEW p \in 0 .. N - 1
  PROVE  /\ IsFiniteSet(TextOf(ValuesBelow(p)))
         /\ Cardinality(TextOf(ValuesBelow(p + 1))) = Cardinality(TextOf(ValuesBelow(p))) + LenAt(p)
  <1>1. /\ Row \in [0 .. N - 1 -> Slot]
        /\ \A k \in 0 .. N - 1 : Row[k] = history[At(k)]
    BY RowRing
  <1>2. ValuesBelow(p) \in SUBSET RingValues /\ ValuesBelow(p) \in SUBSET Numbered
    <2>1. \A q \in 0 .. p - 1 : q \in 0 .. N - 1
      OBVIOUS
    <2> QED
      BY <2>1 DEF ValuesBelow, RingValues, InRing
  <1>3. IsFiniteSet(TextOf(ValuesBelow(p)))
    BY <1>2, TextLess DEF AccountInv
  <1>4. \A q : q \in 0 .. (p + 1) - 1 <=> q \in 0 .. p - 1 \/ q = p
    OBVIOUS
  <1>5. CASE history[At(p)].itemid = Gap
    <2>1. ValuesBelow(p + 1) = ValuesBelow(p)
      BY <1>4, <1>5, ItemsAssumption DEF ValuesBelow, Numbered
    <2>2. Cardinality(TextOf(ValuesBelow(p))) \in Int
      BY <1>3, FS_CardinalityType
    <2> QED
      BY <1>3, <1>5, <2>1, <2>2 DEF LenAt
  <1>6. CASE history[At(p)].itemid # Gap
    <2>1. Row[p] \in Slot /\ Row[p] = history[At(p)]
      BY <1>1
    <2>2. PICK i \in Items, v \in Nat : i = history[At(p)].itemid /\ v = history[At(p)].val
      BY <1>6, <2>1 DEF Slot
    <2>3. history[At(p)].len = TextLen[i]
      BY <1>1, <1>6, <2>1, <2>2 DEF RingInv, RowOwns, IsValue
    <2>4. PICK u \in Numbered : u = <<i, v>>
      BY DEF Numbered
    <2>5. ValuesBelow(p + 1) = ValuesBelow(p) \cup {u}
      BY <1>4, <2>2, <2>4 DEF ValuesBelow, Numbered
    <2>6. u \notin ValuesBelow(p)
      <3>1. ASSUME NEW q \in 0 .. p - 1, history[At(q)].itemid = i, history[At(q)].val = v PROVE FALSE
        <4>1. q \in 0 .. N - 1 /\ p # q
          OBVIOUS
        <4>2. q \in DOMAIN Row /\ p \in DOMAIN Row /\ q < p /\ IsValue(Row[q]) /\ Row[q].itemid = Row[p].itemid
          BY <1>1, <1>6, <2>2, <3>1, <4>1 DEF IsValue
        <4>3. Row[q].val < Row[p].val
          BY <4>2 DEF RingInv, RowOrdered
        <4> QED
          BY <1>1, <2>2, <3>1, <4>1, <4>3
      <3> QED
        BY <2>4, <3>1 DEF ValuesBelow
    <2>7. Cardinality(TextOf(ValuesBelow(p) \cup {u})) = Cardinality(TextOf(ValuesBelow(p))) + TextLen[u[1]]
      BY <1>2, <1>3, <2>6, TextPut
    <2> QED
      BY <1>3, <1>6, <2>3, <2>4, <2>5, <2>7 DEF LenAt
  <1> QED
    BY <1>5, <1>6

\* f adds up the texts of the n oldest slots.
Sums(f, n) == f = [p \in 0 .. n |-> IF p = 0 THEN 0 ELSE f[p - 1] + LenAt(p - 1)]

LEMMA SumsAt ==
  ASSUME NEW n, NEW f, Sums(f, n), NEW p \in 0 .. n
  PROVE  f[p] = IF p = 0 THEN 0 ELSE f[p - 1] + LenAt(p - 1)
  <1> DEFINE g == [q \in 0 .. n |-> IF q = 0 THEN 0 ELSE f[q - 1] + LenAt(q - 1)]
  <1>1. g[p] = IF p = 0 THEN 0 ELSE f[p - 1] + LenAt(p - 1)
    OBVIOUS
  <1>2. f = g
    BY DEF Sums
  <1> HIDE DEF g
  <1>3. f[p] = g[p]
    BY <1>2
  <1> QED
    BY <1>1, <1>3

\* There is only one such function.
LEMMA SumsSame ==
  ASSUME NEW n \in Nat, NEW f, NEW g, Sums(f, n), Sums(g, n)
  PROVE  f[n] = g[n]
  <1> DEFINE bad == {p \in Nat : p <= n /\ f[p] # g[p]}
  <1> SUFFICES ASSUME bad # {} PROVE FALSE
    OBVIOUS
  <1>1. PICK p \in bad : \A k \in bad : p <= k
    BY LeastNumber
  <1>2. /\ f[p] = IF p = 0 THEN 0 ELSE f[p - 1] + LenAt(p - 1)
        /\ g[p] = IF p = 0 THEN 0 ELSE g[p - 1] + LenAt(p - 1)
    BY <1>1, SumsAt
  <1>3. p # 0 => p - 1 \in Nat /\ p - 1 <= n /\ p - 1 \notin bad
    BY <1>1
  <1> QED
    BY <1>1, <1>2, <1>3

LEMMA AccountMeans == RingInv /\ OnceInv /\ AccountInv => TextAccounted
  <1> SUFFICES ASSUME RingInv, OnceInv, AccountInv, ~Vacuuming PROVE text_free = TextSize - TextUsed
    BY DEF TextAccounted
  <1>1. PICK num \in Int : history_num = num
    BY DEF RingInv, RingTypes
  <1>2. CASE num <= 0
    <2>1. RingValues = {}
      BY <1>1, <1>2 DEF RingValues, InRing
    <2>2. TextOf(RingValues) = {} /\ Cardinality(TextOf(RingValues)) = 0
      <3>1. TextOf(RingValues) = {}
        BY <2>1 DEF TextOf
      <3> QED
        BY <3>1, FS_EmptySet
    <2>3. TextUsed = 0
      BY <1>1, <1>2 DEF TextUsed
    <2> QED
      BY <2>2, <2>3 DEF AccountInv
  <1>3. CASE num > 0
    <2>1. PICK N \in Nat : N = num /\ history_num = N /\ N > 0
      BY <1>1, <1>3
    <2> DEFINE g == [p \in 0 .. N |-> Cardinality(TextOf(ValuesBelow(p)))]
               f == CHOOSE u : u = [p \in 0 .. history_num |->
                                      IF p = 0 THEN 0
                                      ELSE u[p - 1] + (IF history[At(p - 1)].itemid = Gap THEN 0
                                                       ELSE history[At(p - 1)].len)]
    <2>2. g[0] = 0
      <3>1. ValuesBelow(0) = {}
        BY DEF ValuesBelow
      <3>2. TextOf(ValuesBelow(0)) = {}
        BY <3>1 DEF TextOf
      <3> QED
        BY <3>2, FS_EmptySet
    <2>3. ASSUME NEW p \in 0 .. N, p # 0 PROVE g[p] = g[p - 1] + LenAt(p - 1)
      <3>1. p - 1 \in 0 .. N - 1 /\ (p - 1) + 1 = p /\ p - 1 \in 0 .. N
        BY <2>3
      <3>2. PICK q \in 0 .. N - 1 : q = p - 1 /\ q + 1 = p
        BY <3>1
      <3>3. Cardinality(TextOf(ValuesBelow(q + 1))) = Cardinality(TextOf(ValuesBelow(q))) + LenAt(q)
        BY <2>1, BelowStep
      <3> QED
        BY <3>1, <3>2, <3>3
    <2>4. Sums(g, N)
      BY <2>2, <2>3 DEF Sums
    <2>5. Sums(f, N)
      <3>1. \E u : u = [p \in 0 .. history_num |->
                          IF p = 0 THEN 0
                          ELSE u[p - 1] + (IF history[At(p - 1)].itemid = Gap THEN 0
                                           ELSE history[At(p - 1)].len)]
        BY <2>1, <2>4 DEF Sums, LenAt
      <3> QED
        BY <2>1, <3>1 DEF Sums, LenAt
    <2>6. TextUsed = f[N]
      BY <2>1 DEF TextUsed
    <2>7. N \in 0 .. N /\ g[N] = Cardinality(TextOf(ValuesBelow(N)))
      OBVIOUS
    <2> HIDE DEF f, g
    <2>8. f[N] = g[N]
      BY <2>4, <2>5, SumsSame
    <2>9. ValuesBelow(N) = RingValues
      BY <2>1 DEF ValuesBelow, RingValues, InRing
    <2> QED
      BY <2>6, <2>7, <2>8, <2>9 DEF AccountInv
  <1> QED
    BY <1>1, <1>2, <1>3

\* Every value is in one place, and text_free is what the values of the ring leave of the
\* text buffer, on a server and on a proxy and in whatever order the values are taken, as
\* long as no process was stopped inside DCvacuum_history.
THEOREM TextReturned == Spec => []ProxyAccounted
  <1> DEFINE Inv == BaseInv /\ (torn \/ (RingInv /\ OnceInv /\ AccountInv))
  <1>1. Init => Inv
    BY BaseInit, RingInit, OnceInit, AccountInit
  <1>2. Inv /\ [Next]_vars => Inv'
    BY BaseNext, TornStays, RingNext, OnceNext, AccountNext
  <1>3. Inv => ProxyAccounted
    BY OnceMeans, AccountMeans DEF OnePlace, TextAccounted, ProxyAccounted
  <1> QED
    BY <1>1, <1>2, <1>3, PTL DEF Spec
================================================================================
