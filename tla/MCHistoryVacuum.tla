---------------------------- MODULE MCHistoryVacuum ----------------------------
(***************************************************************************)
(* DCvacuum_history and DCvacuum_text alone, on every ring that has no     *)
(* slot left and on every one with a slot but no text space left: whatever *)
(* the position of the oldest slot, wherever the holes are and whatever    *)
(* texts the holes still occupy.  The behaviours start where a writer has  *)
(* the mutex and one value left to add, every other value of the past      *)
(* being in the database; or where a syncer has ended its scan with holes  *)
(* at the tail. The daemon may be stopped at any moment.                   *)
(***************************************************************************)
EXTENDS HistoryCache

CONSTANTS a, b, w1, s1

\* Two text items of different length.
Texts == [i \in Items |-> IF i = a THEN 2 ELSE 1]

\* What a slot was filled with, and whether a syncer has taken it since.
Use == [item : Items, taken : BOOLEAN]

\* The number of values of item i in the slots at the positions below p.
Below(use, i, p) == Cardinality({q \in 0 .. p - 1 : use[q] = [item |-> i, taken |-> FALSE]})
Holes(use) == {q \in DOMAIN use : use[q].taken}

\* Bytes of text of the slots Q, and where the text of the slot at position p is
\* when the texts of the ring end at the end of the buffer.
Bytes(use, Q) ==
  2 * Cardinality({q \in Q : use[q].item = a}) + Cardinality({q \in Q : use[q].item # a})
Txt(use, p) == TextSize - Bytes(use, {q \in DOMAIN use : q >= p})

\* The ring that use describes, by distance from the oldest slot; item i has
\* past[i] older values. run[p] is the length noted in the slot at position p.
Ring(use, first, past, run) ==
  LET num == Cardinality(DOMAIN use)
      pos(f) == IF f >= first THEN f - first ELSE f - first + HistorySize
      hole == [itemid |-> Gap, num |-> 1, val |-> 0, txt |-> 0, len |-> 0]
      val(p) == past[use[p].item] + Below(use, use[p].item, p) + 1
      slot(p) == [itemid |-> IF use[p].taken THEN Gap ELSE use[p].item, num |-> run[p],
                  val |-> IF use[p].taken THEN 0 ELSE val(p),
                  txt |-> Txt(use, p), len |-> TextLen[use[p].item]]
  IN  /\ history_first = first
      /\ history_num = num
      /\ history_gap_num = Cardinality(Holes(use))
      /\ history = [f \in Index |-> IF pos(f) < num THEN slot(pos(f)) ELSE hole]
      /\ text = [c \in 0 .. TextSize - 1 |->
                   IF \E p \in DOMAIN use \ Holes(use) :
                        Txt(use, p) <= c /\ c < Txt(use, p + 1)
                   THEN LET p == CHOOSE p \in DOMAIN use :
                                   Txt(use, p) <= c /\ c < Txt(use, p + 1)
                        IN  <<use[p].item, val(p)>>
                   ELSE <<Gap, 0>>]
      /\ last_text = TextSize
      /\ text_free = TextSize - Bytes(use, DOMAIN use \ Holes(use))
      /\ added = [i \in Items |-> past[i] + Below(use, i, num)]

\* The length of the run that DCskip_items has noted: in the first slot of a run of
\* holes, or of values, and in the second.
Noted(use, p) ==
  LET same(q) == q \in DOMAIN use /\ use[q].taken = use[p].taken
      length  == CHOOSE n \in 1 .. HistorySize :
                   ~same(p + n) /\ \A m \in 1 .. n - 1 : same(p + m)
  IN  IF same(p - 1) /\ same(p - 2) THEN 1 ELSE length

\* A ring with no slot left has a hole for DCvacuum_history to find; one slot
\* less, and the writer runs out of text space. DCsync_history leaves no hole at
\* the tail. The older values are in the database.
Full ==
  /\ \E num \in {HistorySize - 1, HistorySize} : \E use \in [0 .. num - 1 -> Use] :
       /\ ~use[num - 1].taken
       /\ num = HistorySize => Holes(use) # {}
       /\ \E first \in Index :
            Ring(use, first, [i \in Items |-> HistorySize], [p \in DOMAIN use |-> 1])
  /\ itemids = {}
  /\ cache_lock = w1
  /\ pc = [p \in Procs |-> IF p = w1 THEN "add" ELSE "idle"]
  /\ local = [w \in Writers |-> <<a>>]
  /\ batch = [s \in SyncProcs |-> {}]

\* At the end of a scan that took the oldest value of a, from the head of the ring,
\* and the last one of b, from the newest slot: the values of a in between were
\* skipped, the values of b were taken before.
Scanned ==
  /\ \E last \in 1 .. HistorySize - 2 : \E use \in [0 .. last -> Use] :
       /\ \A p \in 0 .. last : use[p].taken <=> use[p].item = b
       /\ ~use[0].taken /\ use[last].taken
       /\ \E first \in Index :
            Ring(use, first, [i \in Items |-> HistorySize + 1],
                 [p \in DOMAIN use |-> IF p = last THEN 1
                                       ELSE Noted([q \in 0 .. last - 1 |-> use[q]], p)])
  /\ itemids = {a, b}
  /\ cache_lock = s1
  /\ pc = [p \in Procs |-> IF p = s1 THEN "trim" ELSE "idle"]
  /\ local = [w \in Writers |-> <<>>]
  /\ batch = [s \in SyncProcs |-> IF s = s1
                THEN {[itemid |-> i, val |-> HistorySize + 1] : i \in Items} ELSE {}]

VacuumInit ==
  /\ Full \/ Scanned
  /\ reg = Regs0
  /\ db = [i \in Items |-> 1 .. HistorySize]
  /\ syncs = [s \in SyncProcs |-> 0]
  /\ skipped = [s \in SyncProcs |-> FALSE]
  /\ gathered = 0
  /\ lost = [i \in Items |-> {}]
  /\ torn = FALSE /\ cut = FALSE

\* The writer or the syncer, until it gives the mutex up, and the end of the daemon
\* at any moment, with the parent's sync of what is left.
VacuumNext ==
  \/ cache_lock = w1 /\ Fill(w1)
  \/ TrimStep(s1) \/ TrimDone(s1)
  \/ Terminate \/ SyncFull \/ Collect(Main) \/ Drain(Main) \/ Release(Main)
================================================================================
