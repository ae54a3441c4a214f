--------------------------- MODULE TrendCacheProofs ---------------------------
(***************************************************************************)
(* Proofs about TrendCache for any number of items, tables, hours, values  *)
(* and syncers.                                                            *)
(*                                                                         *)
(* KeysSound is not inductive.  An INSERT is harmless because of what      *)
(* FlushProbe has learned, from one table and several steps before: what   *)
(* the copies in the arrays know (CopiesSound), how that goes with what    *)
(* the cached trend knows (CopiesAgree) and that nobody else writes rows   *)
(* of the items of a batch (Owned) has to be carried along.                *)
(*                                                                         *)
(* CountedOnce and RowsExact follow from one account of each key: what the *)
(* cache, an array and the row tell, put together (Total), is what was     *)
(* seen of it.  Each of the three parts has a minimum, a maximum and a sum *)
(* that values can have (PartsGood), which is what keeps an average in     *)
(* place when a row is merged, and a row that is written again holds more  *)
(* than the committed one (RowsGrow), so that a committed row that holds   *)
(* all values has no newer version on its way.                             *)
(***************************************************************************)
EXTENDS TrendCache, FiniteSetTheorems, TLAPS

CachedTrend == [clock : 0 .. Hours, type : Tables, disable_from : 0 .. Hours + 1, agg : Aggregates]
ArrayTrend == [itemid : Items \cup {0}, clock : 1 .. Hours, type : Tables,
               disable_from : 0 .. Hours + 1, agg : Aggregates]

\* Between the first query of a call and its INSERTs
InCall(p) == pc[p] \in {"merge", "cache", "insert"}

TrendTypes ==
  /\ DOMAIN cache \subseteq Items /\ \A i \in DOMAIN cache : cache[i] \in CachedTrend
  /\ pc \in [Procs -> {"idle", "flush", "merge", "cache", "insert"}]
  /\ trends \in [Procs -> Seq(ArrayTrend)]
  /\ DOMAIN rows \subseteq Keys /\ \A p \in Procs : DOMAIN txn[p] \subseteq Keys
  /\ busy \in [Procs -> SUBSET Items]
  /\ DOMAIN call = Procs /\ DOMAIN txn = Procs
  /\ \A p \in Procs : call[p].to \in Nat /\ (InCall(p) => call[p].to <= Len(trends[p]))
  /\ received \in 0 .. MaxValues /\ stops \in Nat
  /\ seen \in [Keys -> [num : Nat, min : Nat, max : Nat, sum : Nat]]
  /\ \A i \in DOMAIN cache : cache[i].agg.num <= received

HasRow(k) == k \in DOMAIN rows \/ \E p \in Procs : k \in DOMAIN txn[p]

\* The places of item i in the array of p
At(p, i) == {n \in DOMAIN trends[p] : trends[p][n].itemid = i}

\* Who works on what.
Owned ==
  /\ \A p \in Procs : pc[p] = "idle" => trends[p] = <<>> /\ DOMAIN txn[p] = {} /\ busy[p] = {}
  /\ busy[Parent] = {} /\ pc[Parent] # "cache"
  /\ pc[Parent] # "idle" => stops > 0 /\ \A p \in Syncers : pc[p] = "idle"
  /\ \A p \in Procs, q \in Procs : p # q => busy[p] \cap busy[q] = {}
  /\ \A p \in Syncers : \A i \in Items : \A n \in At(p, i) : i \in busy[p]
  /\ \A p \in Syncers : \A k \in DOMAIN txn[p] : k[1] \in busy[p]
  /\ \A p \in Procs : \A i \in Items : \A m \in At(p, i), n \in At(p, i) : m = n

\* Nothing is kept or written of an hour and a table without a value.
SeenAll ==
  /\ \A i \in DOMAIN cache :
       /\ pc[Parent] = "idle" => cache[i].agg.num > 0
       /\ cache[i].agg.num > 0 =>
            cache[i].clock > 0 /\ seen[<<i, cache[i].type, cache[i].clock>>].num > 0
  /\ \A p \in Procs : \A i \in Items : \A n \in At(p, i) : seen[Key(trends[p][n])].num > 0
  /\ \A k \in Keys : HasRow(k) => seen[k].num > 0

Excused(i) == stops > 0 /\ Retyped(i)

\* Item i has no row from hour h on, unless it is excused.
NoneFrom(i, h) == \A k \in Keys : HasRow(k) /\ k[1] = i => k[3] < h \/ Excused(i)

\* In the first server's life an item with rows is one that the cache knows more of.
CacheSound ==
  pc[Parent] = "idle" =>
    /\ \A i \in DOMAIN cache : cache[i].disable_from # 0 => NoneFrom(i, cache[i].disable_from)
    /\ stops = 0 => \A k \in Keys : HasRow(k) => k[1] \in DOMAIN cache /\ cache[k[1]].disable_from # 0

CopiesSound ==
  \A p \in Procs : \A i \in Items : \A n \in At(p, i) : trends[p][n].disable_from # 0 =>
    NoneFrom(i, trends[p][n].disable_from)

CopiesAgree ==
  \A p \in Syncers : \A i \in Items : \A n \in At(p, i) :
    /\ i \in DOMAIN cache
    /\ trends[p][n].disable_from = 0 => cache[i].disable_from = 0
    /\ trends[p][n].disable_from > trends[p][n].clock => cache[i].disable_from = trends[p][n].disable_from
    /\ pc[p] = "insert" /\ n \in Pending(p) /\ KnownNew(trends[p][n]) =>
         cache[i].disable_from = trends[p][n].clock + 1

PendingSound ==
  \A p \in Procs : InCall(p) => \A n \in Pending(p) :
    /\ stops = 0 => trends[p][n].disable_from # 0
    /\ pc[p] # "merge" => Key(trends[p][n]) \notin DOMAIN Visible(p) \/ Excused(trends[p][n].itemid)

KeysIInv == TrendTypes /\ Owned /\ SeenAll /\ CacheSound /\ CopiesSound /\ CopiesAgree /\ PendingSound
            /\ clash \subseteq Items /\ NoKeyClash

--------------------------------------------------------------------------------
(* Operators *)

LEMMA OverrideLaws ==
  ASSUME NEW f, NEW g
  PROVE  /\ DOMAIN Override(f, g) = DOMAIN f \cup DOMAIN g
         /\ \A x \in DOMAIN g : Override(f, g)[x] = g[x]
         /\ \A x \in DOMAIN f : x \notin DOMAIN g => Override(f, g)[x] = f[x]
  BY DEF Override

LEMMA EmptyLaws == DOMAIN Empty = {}
  BY DEF Empty

\* The sequences SetToSeqs makes of a finite set list its elements, each once.
LEMMA SeqsLaws ==
  ASSUME NEW S, IsFiniteSet(S), NEW f \in SetToSeqs(S)
  PROVE  /\ Cardinality(S) \in Nat /\ f \in [1 .. Cardinality(S) -> S]
         /\ \A m \in DOMAIN f, n \in DOMAIN f : f[m] = f[n] => m = n
         /\ \A x \in S : \E n \in DOMAIN f : f[n] = x
  <1>1. Cardinality(S) \in Nat
    BY FS_CardinalityType
  <1>2. /\ f \in [1 .. Cardinality(S) -> S]
        /\ \A m \in DOMAIN f, n \in DOMAIN f : f[m] = f[n] => m = n
    BY DEF SetToSeqs
  <1>3. f \in Injection(1 .. Cardinality(S), S)
    BY <1>2 DEF Injection, IsInjective
  <1>4. IsFiniteSet(1 .. Cardinality(S)) /\ Cardinality(1 .. Cardinality(S)) = Cardinality(S)
    BY <1>1, FS_Interval
  <1>5. f \in Surjection(1 .. Cardinality(S), S)
    BY <1>3, <1>4, FS_Injection
  <1>6. \A x \in S : \E n \in DOMAIN f : f[n] = x
    BY <1>2, <1>5 DEF Surjection
  <1> QED
    BY <1>1, <1>2, <1>6

LEMMA WithTypes ==
  ASSUME NEW a \in Aggregates, NEW v \in Values, NEW r \in Nat, a.num <= r, r + 1 <= MaxValues
  PROVE  With(a, v) \in Aggregates /\ With(a, v).num = a.num + 1
  <1>1. a.num \in 0 .. MaxValues /\ a.min \in Values \cup {0} /\ a.max \in Values \cup {0} /\ a.sum \in Nat
    BY DEF Aggregates
  <1>2. v \in Nat /\ MaxValues \in Nat
    BY TrendAssumption
  <1>3. a.num + 1 \in 0 .. MaxValues /\ a.sum + v \in Nat
    BY <1>1, <1>2
  <1>4. /\ (IF a.num = 0 THEN v ELSE Lesser(a.min, v)) \in Values \cup {0}
        /\ (IF a.num = 0 THEN v ELSE Greater(a.max, v)) \in Values \cup {0}
    BY <1>1 DEF Lesser, Greater
  <1> QED
    BY <1>3, <1>4 DEF With, Aggregates

LEMMA NoneTypes == None \in Aggregates /\ None.num = 0
  BY TrendAssumption DEF None, Aggregates

LEMMA GetTypes ==
  ASSUME TrendTypes, NEW i \in Items
  PROVE  /\ DCget_trend(i).agg \in Aggregates /\ DCget_trend(i).agg.num <= received
         /\ DCget_trend(i).disable_from \in 0 .. Hours + 1
         /\ DCget_trend(i).agg.num > 0 => i \in DOMAIN cache /\ DCget_trend(i) = cache[i]
  <1>1. CASE i \in DOMAIN cache
    BY <1>1 DEF TrendTypes, CachedTrend, DCget_trend
  <1>2. CASE i \notin DOMAIN cache
    BY <1>2, NoneTypes, TrendAssumption DEF TrendTypes, DCget_trend
  <1> QED
    BY <1>1, <1>2

\* A batch: the values of some items, and the trends that go into the array.
Batch(p, b, val, out) ==
  /\ b # {} /\ b \in SUBSET Items /\ val \in [b -> (1 .. Hours) \X Tables \X Values]
  /\ \A i \in b : Free(i)
  /\ received' \in 0 .. MaxValues /\ received + 1 <= received'
  /\ DOMAIN cache' = DOMAIN cache \cup b
  /\ \A i \in b : cache'[i] = DCadd_trend(DCget_trend(i), val[i][1], val[i][2], val[i][3])
  /\ \A i \in DOMAIN cache : i \notin b => cache'[i] = cache[i]
  /\ \E N \in Nat : out \in [1 .. N -> {i \in b : Outdated(DCget_trend(i), val[i][1], val[i][2])}]
  /\ \A m \in DOMAIN out, n \in DOMAIN out : out[m] = out[n] => m = n
  /\ \A i \in b : Outdated(DCget_trend(i), val[i][1], val[i][2]) => \E n \in DOMAIN out : out[n] = i
  /\ trends' = [trends EXCEPT ![p] = [n \in DOMAIN out |-> Copy(out[n])]]
  /\ busy' = [busy EXCEPT ![p] = b]
  /\ seen' = [k \in Keys |-> IF k[1] \in b /\ k[2] = val[k[1]][2] /\ k[3] = val[k[1]][1]
                             THEN With(seen[k], val[k[1]][3]) ELSE seen[k]]

LEMMA BatchMeans ==
  ASSUME TrendTypes, NEW p \in Syncers, DCmass_update_trends(p)
  PROVE  \E b, val, out : Batch(p, b, val, out)
  <1>0. PICK b \in (SUBSET Items) \ {{}} : \E val \in [b -> (1 .. Hours) \X Tables \X Values] :
          /\ \A i \in b : Free(i)
          /\ received + Cardinality(b) <= MaxValues /\ received' = received + Cardinality(b)
          /\ cache' = Override(cache, [i \in b |->
               DCadd_trend(DCget_trend(i), val[i][1], val[i][2], val[i][3])])
          /\ \E out \in SetToSeqs({i \in b : Outdated(DCget_trend(i), val[i][1], val[i][2])}) :
               trends' = [trends EXCEPT ![p] = [n \in DOMAIN out |-> Copy(out[n])]]
          /\ busy' = [busy EXCEPT ![p] = b]
          /\ seen' = [k \in Keys |-> IF k[1] \in b /\ k[2] = val[k[1]][2] /\ k[3] = val[k[1]][1]
                                     THEN With(seen[k], val[k[1]][3]) ELSE seen[k]]
    BY DEF DCmass_update_trends
  <1>1. PICK val \in [b -> (1 .. Hours) \X Tables \X Values] :
          /\ \A i \in b : Free(i)
          /\ received + Cardinality(b) <= MaxValues /\ received' = received + Cardinality(b)
          /\ cache' = Override(cache, [i \in b |->
               DCadd_trend(DCget_trend(i), val[i][1], val[i][2], val[i][3])])
          /\ \E out \in SetToSeqs({i \in b : Outdated(DCget_trend(i), val[i][1], val[i][2])}) :
               trends' = [trends EXCEPT ![p] = [n \in DOMAIN out |-> Copy(out[n])]]
          /\ busy' = [busy EXCEPT ![p] = b]
          /\ seen' = [k \in Keys |-> IF k[1] \in b /\ k[2] = val[k[1]][2] /\ k[3] = val[k[1]][1]
                                     THEN With(seen[k], val[k[1]][3]) ELSE seen[k]]
    BY <1>0
  <1> DEFINE late == {i \in b : Outdated(DCget_trend(i), val[i][1], val[i][2])}
  <1>2. IsFiniteSet(b) /\ IsFiniteSet(late)
    BY FS_Subset, TrendAssumption
  <1> HIDE DEF late
  <1>3. PICK out \in SetToSeqs(late) : trends' = [trends EXCEPT ![p] = [n \in DOMAIN out |-> Copy(out[n])]]
    BY <1>1 DEF late
  <1>4. /\ Cardinality(late) \in Nat /\ out \in [1 .. Cardinality(late) -> late]
        /\ \A m \in DOMAIN out, n \in DOMAIN out : out[m] = out[n] => m = n
        /\ \A i \in late : \E n \in DOMAIN out : out[n] = i
    BY <1>2, <1>3, SeqsLaws
  <1>5. Cardinality(b) \in Nat \ {0}
    <2>1. Cardinality(b) \in Nat
      BY <1>2, FS_CardinalityType
    <2>2. Cardinality(b) # 0
      BY <1>0, <1>2, FS_EmptySet
    <2> QED
      BY <2>1, <2>2
  <1>6. received' \in 0 .. MaxValues /\ received + 1 <= received'
    BY <1>1, <1>5 DEF TrendTypes
  <1>7. /\ DOMAIN cache' = DOMAIN cache \cup b
        /\ \A i \in b : cache'[i] = DCadd_trend(DCget_trend(i), val[i][1], val[i][2], val[i][3])
        /\ \A i \in DOMAIN cache : i \notin b => cache'[i] = cache[i]
    <2> DEFINE g == [i \in b |-> DCadd_trend(DCget_trend(i), val[i][1], val[i][2], val[i][3])]
    <2>1. DOMAIN g = b /\ \A i \in b : g[i] = DCadd_trend(DCget_trend(i), val[i][1], val[i][2], val[i][3])
      OBVIOUS
    <2>2. cache' = Override(cache, g)
      BY <1>1
    <2> HIDE DEF g
    <2>3. /\ DOMAIN Override(cache, g) = DOMAIN cache \cup DOMAIN g
          /\ \A x \in DOMAIN g : Override(cache, g)[x] = g[x]
          /\ \A x \in DOMAIN cache : x \notin DOMAIN g => Override(cache, g)[x] = cache[x]
      BY OverrideLaws
    <2>4. /\ DOMAIN cache' = DOMAIN cache \cup b
          /\ \A i \in b : cache'[i] = g[i]
          /\ \A i \in DOMAIN cache : i \notin b => cache'[i] = cache[i]
      BY <2>1, <2>2, <2>3
    <2> QED
      BY <2>1, <2>4
  <1>8. \E N \in Nat : out \in [1 .. N -> late]
    BY <1>4
  <1>9. Batch(p, b, val, out)
    <2>1. /\ \E N \in Nat : out \in [1 .. N -> {i \in b : Outdated(DCget_trend(i), val[i][1], val[i][2])}]
          /\ trends' = [trends EXCEPT ![p] = [n \in DOMAIN out |-> Copy(out[n])]]
          /\ \A m \in DOMAIN out, n \in DOMAIN out : out[m] = out[n] => m = n
          /\ \A i \in b : Outdated(DCget_trend(i), val[i][1], val[i][2]) => \E n \in DOMAIN out : out[n] = i
      BY <1>3, <1>4, <1>8 DEF late
    <2>2. /\ \A i \in b : Free(i)
          /\ busy' = [busy EXCEPT ![p] = b]
          /\ seen' = [k \in Keys |-> IF k[1] \in b /\ k[2] = val[k[1]][2] /\ k[3] = val[k[1]][1]
                                     THEN With(seen[k], val[k[1]][3]) ELSE seen[k]]
      BY <1>1
    <2>3. b # {} /\ b \in SUBSET Items /\ val \in [b -> (1 .. Hours) \X Tables \X Values]
      BY <1>0, <1>1
    <2> QED
      BY <1>6, <1>7, <2>1, <2>2, <2>3 DEF Batch
  <1> QED
    BY <1>9

LEMMA SyncMeans ==
  ASSUME TrendTypes, DCsync_trends
  PROVE  \E is :
           /\ \E N \in Nat : is \in [1 .. N -> DOMAIN cache]
           /\ \A m \in DOMAIN is, n \in DOMAIN is : is[m] = is[n] => m = n
           /\ \A i \in DOMAIN cache : \E n \in DOMAIN is : is[n] = i
           /\ trends' = [trends EXCEPT ![Parent] = [n \in DOMAIN is |-> Copy(is[n])]]
  <1>1. PICK is \in SetToSeqs(DOMAIN cache) :
          trends' = [trends EXCEPT ![Parent] = [n \in DOMAIN is |-> Copy(is[n])]]
    BY DEF DCsync_trends
  <1>2. IsFiniteSet(DOMAIN cache)
    BY FS_Subset, TrendAssumption DEF TrendTypes
  <1>3. /\ Cardinality(DOMAIN cache) \in Nat /\ is \in [1 .. Cardinality(DOMAIN cache) -> DOMAIN cache]
        /\ \A m \in DOMAIN is, n \in DOMAIN is : is[m] = is[n] => m = n
        /\ \A i \in DOMAIN cache : \E n \in DOMAIN is : is[n] = i
    BY <1>1, <1>2, SeqsLaws
  <1> QED
    BY <1>1, <1>3

\* What the first query leaves of entry n.
Probed(p, n, h, t, to) ==
  IF /\ n <= to /\ trends[p][n].clock = h /\ trends[p][n].type = t
     /\ trends[p][n].disable_from = 0 /\ NewerRows(p, trends[p][n]) = {}
  THEN [trends[p][n] EXCEPT !.disable_from = h] ELSE trends[p][n]

LEMMA ProbeMeans ==
  ASSUME TrendTypes, NEW p \in Procs, FlushProbe(p)
  PROVE  \E h \in 1 .. Hours, t \in Tables, to \in 0 .. Len(trends[p]) :
           /\ call' = [call EXCEPT ![p] = [clock |-> h, type |-> t, to |-> to]]
           /\ trends' = [trends EXCEPT ![p] = [n \in DOMAIN trends[p] |-> Probed(p, n, h, t, to)]]
  <1> DEFINE ts == trends[p]
             head == [clock |-> ts[1].clock, type |-> ts[1].type, to |-> 0]
             to == TrendsTo(head, ts)
  <1>1. ts \in Seq(ArrayTrend) /\ ts # <<>>
    BY DEF TrendTypes, FlushProbe
  <1>2. ts[1].clock \in 1 .. Hours /\ ts[1].type \in Tables
    <2>1. ts[1] \in ArrayTrend
      BY <1>1
    <2> QED
      BY <2>1 DEF ArrayTrend
  <1>3. to \in 0 .. Len(ts)
    <2> DEFINE full == {n \in Unknown(head, ts) : Cardinality({m \in Unknown(head, ts) : m <= n}) = ZBX_SYNC_MAX}
    <2>1. full \subseteq 1 .. Len(ts)
      BY <1>1 DEF Unknown
    <2>2. to = IF full = {} THEN Len(ts) ELSE CHOOSE n \in full : TRUE
      BY DEF TrendsTo
    <2> HIDE DEF full, to, head
    <2>3. full # {} => (CHOOSE n \in full : TRUE) \in full
      OBVIOUS
    <2>4. Len(ts) \in Nat
      BY <1>1
    <2>5. CASE full = {}
      BY <2>2, <2>4, <2>5
    <2>6. CASE full # {}
      <3>1. to \in full
        BY <2>2, <2>3, <2>6
      <3> QED
        BY <2>1, <2>4, <3>1
    <2> QED
      BY <2>5, <2>6
  <1>4. /\ call' = [call EXCEPT ![p] = [head EXCEPT !.to = to]]
        /\ trends' = [trends EXCEPT ![p] =
             [n \in DOMAIN ts |->
                IF n <= to /\ n \in Unknown(head, ts) /\ NewerRows(p, ts[n]) = {}
                THEN [ts[n] EXCEPT !.disable_from = head.clock] ELSE ts[n]]]
    BY DEF FlushProbe
  <1> DEFINE h == ts[1].clock
             t == ts[1].type
  <1>5. [head EXCEPT !.to = to] = [clock |-> h, type |-> t, to |-> to] /\ head.clock = h /\ head.type = t
    OBVIOUS
  <1> HIDE DEF to
  <1>6. ASSUME NEW n \in DOMAIN ts
        PROVE  (IF n <= to /\ n \in Unknown(head, ts) /\ NewerRows(p, ts[n]) = {}
                THEN [ts[n] EXCEPT !.disable_from = head.clock] ELSE ts[n]) = Probed(p, n, h, t, to)
    <2>1. n \in Unknown(head, ts) <=> ts[n].clock = h /\ ts[n].type = t /\ ts[n].disable_from = 0
      BY <1>5 DEF Unknown, Due
    <2> QED
      BY <1>5, <2>1 DEF Probed
  <1>7. [n \in DOMAIN ts |->
           IF n <= to /\ n \in Unknown(head, ts) /\ NewerRows(p, ts[n]) = {}
           THEN [ts[n] EXCEPT !.disable_from = head.clock] ELSE ts[n]] =
        [n \in DOMAIN ts |-> Probed(p, n, h, t, to)]
    BY <1>6
  <1>8. /\ call' = [call EXCEPT ![p] = [clock |-> h, type |-> t, to |-> to]]
        /\ trends' = [trends EXCEPT ![p] = [n \in DOMAIN trends[p] |-> Probed(p, n, h, t, to)]]
    BY <1>4, <1>5, <1>7
  <1> QED
    BY <1>2, <1>3, <1>8

\* The pending trends whose row the second query finds.
Found(p) == {n \in Pending(p) : ~KnownNew(trends[p][n]) /\ Key(trends[p][n]) \in DOMAIN Visible(p)}

KeysOf(p, ns) == {Key(trends[p][n]) : n \in ns}

LEMMA MergeMeans ==
  ASSUME TrendTypes, NEW p \in Procs, FlushMerge(p)
  PROVE  /\ trends' = [trends EXCEPT ![p] = Written(p, Found(p))]
         /\ DOMAIN txn' = Procs /\ \A q \in Procs : q # p => txn'[q] = txn[q]
         /\ DOMAIN txn'[p] = DOMAIN txn[p] \cup KeysOf(p, Found(p))
  <1> DEFINE found == {n \in Pending(p) : ~KnownNew(trends[p][n]) /\ Key(trends[p][n]) \in DOMAIN Visible(p)}
             Of(k) == CHOOSE n \in found : Key(trends[p][n]) = k
             g == [k \in {Key(trends[p][n]) : n \in found} |-> Merged(Visible(p)[k], trends[p][Of(k)].agg)]
  <1>1. /\ txn' = [txn EXCEPT ![p] = Override(txn[p], g)]
        /\ trends' = [trends EXCEPT ![p] = Written(p, found)]
    BY DEF FlushMerge
  <1>2. found = Found(p) /\ DOMAIN g = KeysOf(p, found)
    BY DEF Found, KeysOf
  <1> HIDE DEF g, found
  <1>3. DOMAIN Override(txn[p], g) = DOMAIN txn[p] \cup DOMAIN g
    BY OverrideLaws
  <1>4. DOMAIN txn = Procs
    BY DEF TrendTypes
  <1>5. txn'[p] = Override(txn[p], g) /\ DOMAIN txn' = Procs /\ \A q \in Procs : q # p => txn'[q] = txn[q]
    BY <1>1, <1>4
  <1> QED
    BY <1>1, <1>2, <1>3, <1>5

LEMMA InsertMeans ==
  ASSUME TrendTypes, NEW p \in Procs, FlushInsert(p)
  PROVE  /\ DOMAIN txn' = Procs /\ \A q \in Procs : q # p => txn'[q] = txn[q]
         /\ DOMAIN txn'[p] = DOMAIN txn[p] \cup KeysOf(p, Pending(p))
         /\ clash' = clash \cup {k[1] : k \in KeysOf(p, Pending(p)) \cap DOMAIN Visible(p)}
         /\ \E left :
              /\ \E N \in Nat : left \in [1 .. N -> Unwritten(p)]
              /\ \A m \in DOMAIN left, n \in DOMAIN left : left[m] = left[n] => m = n
              /\ \A m \in Unwritten(p) : \E n \in DOMAIN left : left[n] = m
              /\ trends' = [trends EXCEPT ![p] = [n \in DOMAIN left |-> trends[p][left[n]]]]
  <1> DEFINE Of(k) == CHOOSE n \in Pending(p) : Key(trends[p][n]) = k
             ks == {Key(trends[p][n]) : n \in Pending(p)}
             g == [k \in ks |-> Row(trends[p][Of(k)].agg)]
  <1>1. /\ clash' = clash \cup {k[1] : k \in ks \cap DOMAIN Visible(p)}
        /\ txn' = [txn EXCEPT ![p] = Override(txn[p], g)]
    BY DEF FlushInsert
  <1>2. ks = KeysOf(p, Pending(p)) /\ DOMAIN g = ks
    BY DEF KeysOf
  <1> HIDE DEF g, ks
  <1>3. DOMAIN Override(txn[p], g) = DOMAIN txn[p] \cup DOMAIN g
    BY OverrideLaws
  <1>4. DOMAIN txn = Procs
    BY DEF TrendTypes
  <1>5. txn'[p] = Override(txn[p], g) /\ DOMAIN txn' = Procs /\ \A q \in Procs : q # p => txn'[q] = txn[q]
    BY <1>1, <1>4
  <1>6. PICK left \in SetToSeqs(Unwritten(p)) :
          trends' = [trends EXCEPT ![p] = [n \in DOMAIN left |-> trends[p][left[n]]]]
    BY DEF FlushInsert
  <1>7. IsFiniteSet(Unwritten(p))
    <2>1. trends[p] \in Seq(ArrayTrend)
      BY DEF TrendTypes
    <2>2. Len(trends[p]) \in Nat /\ Unwritten(p) \subseteq 1 .. Len(trends[p])
      BY <2>1 DEF Unwritten
    <2>3. IsFiniteSet(1 .. Len(trends[p]))
      BY <2>2, FS_Interval
    <2> QED
      BY <2>2, <2>3, FS_Subset
  <1>8. /\ Cardinality(Unwritten(p)) \in Nat /\ left \in [1 .. Cardinality(Unwritten(p)) -> Unwritten(p)]
        /\ \A m \in DOMAIN left, n \in DOMAIN left : left[m] = left[n] => m = n
        /\ \A m \in Unwritten(p) : \E n \in DOMAIN left : left[n] = m
    BY <1>6, <1>7, SeqsLaws
  <1> QED
    BY <1>1, <1>2, <1>3, <1>5, <1>6, <1>8

--------------------------------------------------------------------------------
(* Types *)

LEMMA TypesLaw == TrendTypes => TypeOK
  <1> SUFFICES ASSUME TrendTypes PROVE TypeOK
    OBVIOUS
  <1>1. ASSUME NEW p \in Procs, NEW n \in DOMAIN trends[p]
        PROVE  trends[p][n] \in ArrayTrend
    <2>1. trends[p] \in Seq(ArrayTrend)
      BY DEF TrendTypes
    <2> QED
      BY <2>1
  <1> QED
    BY <1>1 DEF TrendTypes, TypeOK, CachedTrend, ArrayTrend

\* An entry of an array, field by field.
LEMMA EntryTypes ==
  ASSUME TrendTypes, NEW p \in Procs, NEW n \in DOMAIN trends[p]
  PROVE  /\ trends[p] \in Seq(ArrayTrend) /\ n \in 1 .. Len(trends[p]) /\ trends[p][n] \in ArrayTrend
         /\ trends[p][n].itemid \in Items \cup {0} /\ trends[p][n].clock \in 1 .. Hours
         /\ trends[p][n].type \in Tables /\ trends[p][n].disable_from \in 0 .. Hours + 1
         /\ trends[p][n].itemid \in Items => Key(trends[p][n]) \in Keys
  <1>1. trends[p] \in Seq(ArrayTrend)
    BY DEF TrendTypes
  <1>2. n \in 1 .. Len(trends[p]) /\ trends[p][n] \in ArrayTrend
    BY <1>1
  <1> QED
    BY <1>1, <1>2 DEF ArrayTrend, Key, Keys

\* A cached trend that goes into an array.
LEMMA CopyTypes ==
  ASSUME TrendTypes, SeenAll, NEW i \in DOMAIN cache, cache[i].agg.num > 0
  PROVE  Copy(i) \in ArrayTrend
  <1>1. cache[i] \in CachedTrend /\ i \in Items /\ cache[i].clock > 0
    BY DEF TrendTypes, SeenAll
  <1>2. /\ cache[i].clock \in 0 .. Hours /\ cache[i].type \in Tables
        /\ cache[i].disable_from \in 0 .. Hours + 1 /\ cache[i].agg \in Aggregates
    BY <1>1 DEF CachedTrend
  <1>3. cache[i].clock \in 1 .. Hours
    BY <1>1, <1>2, TrendAssumption
  <1> QED
    BY <1>1, <1>2, <1>3 DEF Copy, ArrayTrend

LEMMA InitTypes == Init => TrendTypes
  <1> SUFFICES ASSUME Init PROVE TrendTypes
    OBVIOUS
  <1>1. <<>> \in Seq(ArrayTrend)
    OBVIOUS
  <1>2. trends \in [Procs -> Seq(ArrayTrend)] /\ busy \in [Procs -> SUBSET Items]
    BY <1>1 DEF Init
  <1>3. seen \in [Keys -> [num : Nat, min : Nat, max : Nat, sum : Nat]]
    BY DEF Init, None
  <1>4. DOMAIN cache = {} /\ DOMAIN rows = {} /\ \A p \in Procs : DOMAIN txn[p] = {}
    BY EmptyLaws DEF Init
  <1>5. DOMAIN call = Procs /\ DOMAIN txn = Procs /\ \A p \in Procs : call[p].to \in Nat /\ ~InCall(p)
    BY DEF Init, NoCall, InCall
  <1>6. received \in 0 .. MaxValues /\ stops \in Nat
    BY TrendAssumption DEF Init
  <1>7. pc \in [Procs -> {"idle", "flush", "merge", "cache", "insert"}]
    BY DEF Init
  <1> QED
    BY <1>2, <1>3, <1>4, <1>5, <1>6, <1>7 DEF TrendTypes

LEMMA BatchTypes ==
  ASSUME TrendTypes, SeenAll, NEW p \in Syncers, DCmass_update_trends(p)
  PROVE  TrendTypes'
  <1>1. PICK b, val, out : Batch(p, b, val, out)
    BY BatchMeans
  <1>2. p \in Procs
    BY DEF Procs
  <1>3. DOMAIN cache' \subseteq Items
    BY <1>1 DEF Batch, TrendTypes
  <1>4. ASSUME NEW i \in b
        PROVE  cache'[i] \in CachedTrend /\ cache'[i].agg.num <= received'
    <2>1. i \in Items /\ val[i][1] \in 1 .. Hours /\ val[i][2] \in Tables /\ val[i][3] \in Values
      BY <1>1 DEF Batch
    <2> DEFINE t == DCget_trend(i)
               base == IF Outdated(t, val[i][1], val[i][2]) THEN None ELSE t.agg
    <2>2. t.agg \in Aggregates /\ t.agg.num <= received /\ t.disable_from \in 0 .. Hours + 1
      BY <2>1, GetTypes
    <2>3. base \in Aggregates /\ base.num <= received
      BY <2>2, NoneTypes DEF TrendTypes
    <2>4. cache'[i] = [clock |-> val[i][1], type |-> val[i][2], disable_from |-> t.disable_from,
                       agg |-> With(base, val[i][3])]
      BY <1>1 DEF Batch, DCadd_trend
    <2> HIDE DEF t, base
    <2>5. received \in Nat /\ received' \in 0 .. MaxValues /\ received + 1 <= received' /\ MaxValues \in Nat
      BY <1>1, TrendAssumption DEF Batch, TrendTypes
    <2>6. received + 1 <= MaxValues
      BY <2>5
    <2>7. With(base, val[i][3]) \in Aggregates /\ With(base, val[i][3]).num = base.num + 1
      BY <2>1, <2>3, <2>5, <2>6, WithTypes
    <2>8. base.num \in Nat
      BY <2>3 DEF Aggregates
    <2>9. val[i][1] \in 0 .. Hours
      BY <2>1
    <2>10. cache'[i] \in CachedTrend
      BY <2>1, <2>2, <2>4, <2>7, <2>9 DEF CachedTrend
    <2>11. cache'[i].agg.num <= received'
      BY <2>3, <2>4, <2>5, <2>7, <2>8
    <2> QED
      BY <2>10, <2>11
  <1>5. \A i \in DOMAIN cache' : cache'[i] \in CachedTrend /\ cache'[i].agg.num <= received'
    <2> SUFFICES ASSUME NEW i \in DOMAIN cache', i \notin b
                 PROVE  cache'[i] \in CachedTrend /\ cache'[i].agg.num <= received'
      BY <1>4
    <2>1. i \in DOMAIN cache /\ cache'[i] = cache[i]
      BY <1>1 DEF Batch
    <2>2. cache[i] \in CachedTrend /\ cache[i].agg.num <= received
      BY <2>1 DEF TrendTypes
    <2>3. cache[i].agg.num \in 0 .. MaxValues
      BY <2>2 DEF CachedTrend, Aggregates
    <2>4. received + 1 <= received' /\ received \in Nat /\ received' \in Nat
      BY <1>1 DEF Batch, TrendTypes
    <2> QED
      BY <2>1, <2>2, <2>3, <2>4
  <1>6. trends' \in [Procs -> Seq(ArrayTrend)]
    <2>1. PICK N \in Nat : out \in [1 .. N -> {i \in b : Outdated(DCget_trend(i), val[i][1], val[i][2])}]
      BY <1>1 DEF Batch
    <2>2. ASSUME NEW n \in 1 .. N
          PROVE  Copy(out[n]) \in ArrayTrend
      <3>1. out[n] \in b /\ out[n] \in Items /\ DCget_trend(out[n]).agg.num > 0
        BY <1>1, <2>1 DEF Batch, Outdated
      <3>2. out[n] \in DOMAIN cache /\ cache[out[n]].agg.num > 0
        BY <3>1, GetTypes
      <3> QED
        BY <3>2, CopyTypes
    <2>3. [n \in DOMAIN out |-> Copy(out[n])] \in Seq(ArrayTrend)
      <3>1. DOMAIN out = 1 .. N
        BY <2>1
      <3>2. [n \in DOMAIN out |-> Copy(out[n])] \in [1 .. N -> ArrayTrend]
        BY <2>2, <3>1
      <3> QED
        BY <3>2
    <2>4. trends' = [trends EXCEPT ![p] = [n \in DOMAIN out |-> Copy(out[n])]]
      BY <1>1 DEF Batch
    <2> QED
      BY <2>3, <2>4 DEF TrendTypes
  <1>7. /\ pc' = [pc EXCEPT ![p] = "flush"] /\ pc[p] = "idle"
        /\ UNCHANGED <<call, txn, rows, stops>>
    BY DEF DCmass_update_trends
  <1>8. pc' \in [Procs -> {"idle", "flush", "merge", "cache", "insert"}]
    BY <1>7 DEF TrendTypes
  <1>9. \A q \in Procs : call'[q].to \in Nat /\ (InCall(q)' => call'[q].to <= Len(trends'[q]))
    <2>1. ASSUME NEW q \in Procs, q # p
          PROVE  InCall(q)' = InCall(q) /\ trends'[q] = trends[q]
      BY <1>1, <1>7, <2>1 DEF Batch, InCall, TrendTypes
    <2>2. ~InCall(p)'
      BY <1>2, <1>7 DEF InCall, TrendTypes
    <2> QED
      BY <1>7, <2>1, <2>2 DEF TrendTypes
  <1>10. busy' \in [Procs -> SUBSET Items]
    BY <1>1, <1>2 DEF Batch, TrendTypes
  <1>11. received' \in 0 .. MaxValues
    BY <1>1 DEF Batch
  <1>12. seen' \in [Keys -> [num : Nat, min : Nat, max : Nat, sum : Nat]]
    <2>1. seen' = [k \in Keys |-> IF k[1] \in b /\ k[2] = val[k[1]][2] /\ k[3] = val[k[1]][1]
                                  THEN With(seen[k], val[k[1]][3]) ELSE seen[k]]
      BY <1>1 DEF Batch
    <2>2. ASSUME NEW k \in Keys, k[1] \in b
          PROVE  With(seen[k], val[k[1]][3]) \in [num : Nat, min : Nat, max : Nat, sum : Nat]
      <3>1. seen[k] \in [num : Nat, min : Nat, max : Nat, sum : Nat]
        BY DEF TrendTypes
      <3>2. val[k[1]][3] \in Nat
        <4>1. val \in [b -> (1 .. Hours) \X Tables \X Values]
          BY <1>1 DEF Batch
        <4> QED
          BY <2>2, <4>1, TrendAssumption
      <3>3. seen[k].num \in Nat /\ seen[k].min \in Nat /\ seen[k].max \in Nat /\ seen[k].sum \in Nat
        BY <3>1
      <3> QED
        BY <3>2, <3>3 DEF With, Lesser, Greater
    <2> QED
      BY <2>1, <2>2 DEF TrendTypes
  <1> QED
    BY <1>3, <1>5, <1>6, <1>7, <1>8, <1>9, <1>10, <1>11, <1>12 DEF TrendTypes

LEMMA SyncTypes ==
  ASSUME TrendTypes, SeenAll, DCsync_trends
  PROVE  TrendTypes'
  <1>1. PICK is : /\ \E N \in Nat : is \in [1 .. N -> DOMAIN cache]
                  /\ \A m \in DOMAIN is, n \in DOMAIN is : is[m] = is[n] => m = n
                  /\ trends' = [trends EXCEPT ![Parent] = [n \in DOMAIN is |-> Copy(is[n])]]
    BY SyncMeans
  <1>2. /\ cache' = [i \in DOMAIN cache |-> [cache[i] EXCEPT !.clock = 0, !.agg = None]]
        /\ pc' = [pc EXCEPT ![Parent] = "flush"] /\ stops' = stops + 1
        /\ \A p \in Procs : pc[p] = "idle"
        /\ UNCHANGED <<call, txn, rows, busy, seen, received>>
    BY DEF DCsync_trends
  <1>3. Parent \in Procs
    BY DEF Procs
  <1>4. ASSUME NEW i \in DOMAIN cache
        PROVE  cache'[i] \in CachedTrend /\ cache'[i].agg.num <= received
    <2>1. cache'[i] = [cache[i] EXCEPT !.clock = 0, !.agg = None]
      BY <1>2
    <2>2. cache[i] \in CachedTrend /\ received \in Nat
      BY DEF TrendTypes
    <2>3. 0 \in 0 .. Hours
      BY TrendAssumption
    <2>4. None \in Aggregates /\ None.num <= received
      BY <2>2, NoneTypes
    <2> HIDE DEF None
    <2>5. cache'[i] \in CachedTrend
      BY <2>1, <2>2, <2>3, <2>4 DEF CachedTrend
    <2>6. cache'[i].agg = None
      BY <2>1, <2>2 DEF CachedTrend
    <2> QED
      BY <2>4, <2>5, <2>6
  <1>5. trends' \in [Procs -> Seq(ArrayTrend)]
    <2>1. PICK N \in Nat : is \in [1 .. N -> DOMAIN cache]
      BY <1>1
    <2>2. ASSUME NEW n \in 1 .. N
          PROVE  Copy(is[n]) \in ArrayTrend
      <3>1. is[n] \in DOMAIN cache
        BY <2>1
      <3>2. cache[is[n]].agg.num > 0
        BY <1>2, <1>3, <3>1 DEF SeenAll
      <3> QED
        BY <3>1, <3>2, CopyTypes
    <2>3. [n \in DOMAIN is |-> Copy(is[n])] \in Seq(ArrayTrend)
      <3>1. DOMAIN is = 1 .. N
        BY <2>1
      <3>2. [n \in DOMAIN is |-> Copy(is[n])] \in [1 .. N -> ArrayTrend]
        BY <2>2, <3>1
      <3> QED
        BY <3>2
    <2>4. trends' = [trends EXCEPT ![Parent] = [n \in DOMAIN is |-> Copy(is[n])]]
      BY <1>1
    <2> QED
      BY <2>3, <2>4 DEF TrendTypes
  <1>6. pc' \in [Procs -> {"idle", "flush", "merge", "cache", "insert"}]
    BY <1>2 DEF TrendTypes
  <1>7. \A q \in Procs : call'[q].to \in Nat /\ ~InCall(q)'
    BY <1>2 DEF InCall, TrendTypes
  <1>8. /\ DOMAIN cache' \subseteq Items
        /\ \A i \in DOMAIN cache' : cache'[i] \in CachedTrend /\ cache'[i].agg.num <= received'
    <2>1. DOMAIN cache' = DOMAIN cache /\ received' = received
      BY <1>2
    <2> QED
      BY <1>4, <2>1 DEF TrendTypes
  <1>9. /\ DOMAIN rows' \subseteq Keys /\ \A p \in Procs : DOMAIN txn'[p] \subseteq Keys
        /\ busy' \in [Procs -> SUBSET Items] /\ DOMAIN call' = Procs /\ DOMAIN txn' = Procs
        /\ received' \in 0 .. MaxValues /\ stops' \in Nat
        /\ seen' \in [Keys -> [num : Nat, min : Nat, max : Nat, sum : Nat]]
    <2>1. /\ call' = call /\ txn' = txn /\ rows' = rows /\ busy' = busy
          /\ seen' = seen /\ received' = received /\ stops' = stops + 1
      BY <1>2
    <2>2. stops' \in Nat
      BY <2>1 DEF TrendTypes
    <2> QED
      BY <2>1, <2>2 DEF TrendTypes
  <1> QED
    BY <1>5, <1>6, <1>7, <1>8, <1>9 DEF TrendTypes

LEMMA ProbedTypes ==
  ASSUME TrendTypes, NEW p \in Procs, NEW n \in DOMAIN trends[p], NEW h \in 1 .. Hours, NEW t, NEW to
  PROVE  /\ Probed(p, n, h, t, to) \in ArrayTrend
         /\ Probed(p, n, h, t, to).itemid = trends[p][n].itemid
         /\ Key(Probed(p, n, h, t, to)) = Key(trends[p][n])
  <1>1. trends[p][n] \in ArrayTrend /\ h \in 0 .. Hours + 1
    BY EntryTypes, TrendAssumption
  <1> QED
    BY <1>1 DEF Probed, ArrayTrend, Key

LEMMA ProbeTypes ==
  ASSUME TrendTypes, NEW p \in Procs, FlushProbe(p)
  PROVE  TrendTypes'
  <1>1. PICK h \in 1 .. Hours, t \in Tables, to \in 0 .. Len(trends[p]) :
           /\ call' = [call EXCEPT ![p] = [clock |-> h, type |-> t, to |-> to]]
           /\ trends' = [trends EXCEPT ![p] = [n \in DOMAIN trends[p] |-> Probed(p, n, h, t, to)]]
    BY ProbeMeans
  <1>2. pc' = [pc EXCEPT ![p] = "merge"] /\ UNCHANGED <<cache, txn, rows, busy, stops, seen, received>>
    BY DEF FlushProbe
  <1>3. trends[p] \in Seq(ArrayTrend)
    BY DEF TrendTypes
  <1> DEFINE ts == [n \in DOMAIN trends[p] |-> Probed(p, n, h, t, to)]
  <1>4. ts \in Seq(ArrayTrend) /\ Len(ts) = Len(trends[p])
    <2>1. \A n \in DOMAIN trends[p] : Probed(p, n, h, t, to) \in ArrayTrend
      BY ProbedTypes
    <2>2. ts \in [1 .. Len(trends[p]) -> ArrayTrend] /\ Len(trends[p]) \in Nat
      BY <1>3, <2>1
    <2> QED
      BY <2>2
  <1>5. trends' = [trends EXCEPT ![p] = ts]
    BY <1>1
  <1> HIDE DEF ts
  <1>6. trends' \in [Procs -> Seq(ArrayTrend)] /\ trends'[p] = ts /\ \A q \in Procs : q # p => trends'[q] = trends[q]
    BY <1>4, <1>5 DEF TrendTypes
  <1>7. pc' \in [Procs -> {"idle", "flush", "merge", "cache", "insert"}]
    BY <1>2 DEF TrendTypes
  <1>8. \A q \in Procs : call'[q].to \in Nat /\ (InCall(q)' => call'[q].to <= Len(trends'[q]))
    <2>1. call'[p].to = to /\ to \in Nat /\ to <= Len(trends'[p])
      BY <1>1, <1>3, <1>4, <1>6 DEF TrendTypes
    <2>2. \A q \in Procs : q # p => call'[q] = call[q] /\ (InCall(q)' <=> InCall(q))
      BY <1>1, <1>2 DEF TrendTypes, InCall
    <2> QED
      BY <1>6, <2>1, <2>2 DEF TrendTypes
  <1>9. DOMAIN call' = Procs
    BY <1>1 DEF TrendTypes
  <1> QED
    BY <1>2, <1>6, <1>7, <1>8, <1>9 DEF TrendTypes

\* The array with some of its trends marked as written.
LEMMA WrittenTypes ==
  ASSUME TrendTypes, NEW p \in Procs, NEW ns
  PROVE  /\ Written(p, ns) \in Seq(ArrayTrend) /\ Len(Written(p, ns)) = Len(trends[p])
         /\ DOMAIN Written(p, ns) = DOMAIN trends[p]
         /\ \A n \in DOMAIN trends[p] :
              /\ n \notin ns => Written(p, ns)[n] = trends[p][n]
              /\ n \in ns => Written(p, ns)[n].itemid = 0
  <1>1. trends[p] \in Seq(ArrayTrend)
    BY DEF TrendTypes
  <1>2. \A n \in DOMAIN trends[p] : Written(p, ns)[n] \in ArrayTrend
    <2> SUFFICES ASSUME NEW n \in DOMAIN trends[p] PROVE Written(p, ns)[n] \in ArrayTrend
      OBVIOUS
    <2>1. trends[p][n] \in ArrayTrend
      BY <1>1
    <2> QED
      BY <2>1 DEF Written, ArrayTrend
  <1>3. Written(p, ns) \in [1 .. Len(trends[p]) -> ArrayTrend] /\ Len(trends[p]) \in Nat
    <2>1. DOMAIN trends[p] = 1 .. Len(trends[p]) /\ Len(trends[p]) \in Nat
      BY <1>1
    <2> QED
      BY <1>2, <2>1 DEF Written
  <1>4. Written(p, ns) \in Seq(ArrayTrend) /\ Len(Written(p, ns)) = Len(trends[p])
    BY <1>3
  <1>5. DOMAIN Written(p, ns) = DOMAIN trends[p]
    BY DEF Written
  <1>6. ASSUME NEW n \in DOMAIN trends[p]
        PROVE  /\ n \notin ns => Written(p, ns)[n] = trends[p][n]
               /\ n \in ns => Written(p, ns)[n].itemid = 0
    <2>1. trends[p][n] \in ArrayTrend
      BY <1>1
    <2> QED
      BY <2>1 DEF Written, ArrayTrend
  <1> QED
    BY <1>4, <1>5, <1>6

\* The keys of pending trends are keys.
LEMMA KeysOfTypes ==
  ASSUME TrendTypes, NEW p \in Procs, InCall(p), NEW ns, ns \subseteq Pending(p)
  PROVE  KeysOf(p, ns) \subseteq Keys /\ ns \subseteq DOMAIN trends[p]
  <1>1. trends[p] \in Seq(ArrayTrend) /\ call[p].to \in Nat /\ call[p].to <= Len(trends[p])
    BY DEF TrendTypes
  <1>2. ASSUME NEW n \in ns
        PROVE  n \in DOMAIN trends[p] /\ trends[p][n].itemid # 0
    BY <1>1 DEF Pending
  <1>3. ASSUME NEW n \in ns
        PROVE  Key(trends[p][n]) \in Keys
    <2>1. trends[p][n].itemid \in Items
      BY <1>2, EntryTypes
    <2> QED
      BY <1>2, <2>1, EntryTypes
  <1> QED
    BY <1>2, <1>3 DEF KeysOf

LEMMA MergeTypes ==
  ASSUME TrendTypes, NEW p \in Procs, FlushMerge(p)
  PROVE  TrendTypes'
  <1>1. /\ trends' = [trends EXCEPT ![p] = Written(p, Found(p))]
        /\ DOMAIN txn' = Procs /\ \A q \in Procs : q # p => txn'[q] = txn[q]
        /\ DOMAIN txn'[p] = DOMAIN txn[p] \cup KeysOf(p, Found(p))
    BY MergeMeans
  <1>2. /\ pc' = [pc EXCEPT ![p] = IF p = Parent THEN "insert" ELSE "cache"] /\ pc[p] = "merge"
        /\ cache' = cache /\ call' = call /\ rows' = rows /\ busy' = busy /\ stops' = stops
        /\ seen' = seen /\ received' = received
    BY DEF FlushMerge
  <1>3. InCall(p) /\ Found(p) \subseteq Pending(p)
    BY <1>2 DEF InCall, Found
  <1>4. \A q \in Procs : DOMAIN txn'[q] \subseteq Keys
    <2>1. KeysOf(p, Found(p)) \subseteq Keys
      BY <1>3, KeysOfTypes
    <2> QED
      BY <1>1, <2>1 DEF TrendTypes
  <1>5. Written(p, Found(p)) \in Seq(ArrayTrend) /\ Len(Written(p, Found(p))) = Len(trends[p])
    BY WrittenTypes
  <1>6. trends' \in [Procs -> Seq(ArrayTrend)] /\ \A q \in Procs : Len(trends'[q]) = Len(trends[q])
    BY <1>1, <1>5 DEF TrendTypes
  <1>7. pc' \in [Procs -> {"idle", "flush", "merge", "cache", "insert"}]
    BY <1>2 DEF TrendTypes
  <1>8. \A q \in Procs : InCall(q)' <=> InCall(q)
    BY <1>2 DEF TrendTypes, InCall
  <1>9. \A q \in Procs : call'[q].to \in Nat /\ (InCall(q)' => call'[q].to <= Len(trends'[q]))
    BY <1>2, <1>6, <1>8 DEF TrendTypes
  <1> QED
    BY <1>1, <1>2, <1>4, <1>6, <1>7, <1>9 DEF TrendTypes

LEMMA CacheTypes ==
  ASSUME TrendTypes, NEW p \in Procs, FlushCache(p)
  PROVE  TrendTypes'
  <1> DEFINE known == {trends[p][n].itemid : n \in {m \in Pending(p) : KnownNew(trends[p][m])}}
  <1>1. /\ pc' = [pc EXCEPT ![p] = "insert"] /\ pc[p] = "cache"
        /\ trends' = trends /\ call' = call /\ txn' = txn /\ rows' = rows /\ busy' = busy
        /\ stops' = stops /\ seen' = seen /\ received' = received
        /\ cache' = [i \in DOMAIN cache |->
             IF i \in known THEN [cache[i] EXCEPT !.disable_from = NextFrom(call[p].clock)] ELSE cache[i]]
    BY DEF FlushCache
  <1>2. ASSUME NEW i \in known
        PROVE  NextFrom(call[p].clock) \in 0 .. Hours + 1
    <2>1. PICK n \in Pending(p) : trends[p][n].itemid = i
      OBVIOUS
    <2>2. n \in DOMAIN trends[p] /\ trends[p][n].clock = call[p].clock
      <3>1. trends[p] \in Seq(ArrayTrend) /\ call[p].to \in Nat /\ call[p].to <= Len(trends[p])
        BY <1>1 DEF TrendTypes, InCall
      <3> QED
        BY <3>1 DEF Pending, Due
    <2>3. call[p].clock \in 1 .. Hours
      BY <2>2, EntryTypes
    <2> QED
      BY <2>3, TrendAssumption DEF NextFrom
  <1> HIDE DEF known
  <1>3. ASSUME NEW i \in DOMAIN cache
        PROVE  cache'[i] \in CachedTrend /\ cache'[i].agg.num <= received
    <2>1. cache[i] \in CachedTrend /\ cache[i].agg.num <= received
      BY DEF TrendTypes
    <2>2. CASE i \in known
      <3>1. NextFrom(call[p].clock) \in 0 .. Hours + 1
        BY <1>2, <2>2
      <3>2. cache'[i] = [cache[i] EXCEPT !.disable_from = NextFrom(call[p].clock)]
        BY <1>1, <2>2
      <3> HIDE DEF NextFrom
      <3> QED
        BY <2>1, <3>1, <3>2 DEF CachedTrend
    <2>3. CASE i \notin known
      BY <1>1, <2>1, <2>3
    <2> QED
      BY <2>2, <2>3
  <1>4. /\ DOMAIN cache' \subseteq Items
        /\ \A i \in DOMAIN cache' : cache'[i] \in CachedTrend /\ cache'[i].agg.num <= received'
    BY <1>1, <1>3 DEF TrendTypes
  <1>5. pc' \in [Procs -> {"idle", "flush", "merge", "cache", "insert"}]
    BY <1>1 DEF TrendTypes
  <1>6. \A q \in Procs : InCall(q)' <=> InCall(q)
    BY <1>1 DEF TrendTypes, InCall
  <1> QED
    BY <1>1, <1>4, <1>5, <1>6 DEF TrendTypes

LEMMA InsertTypes ==
  ASSUME TrendTypes, NEW p \in Procs, FlushInsert(p)
  PROVE  TrendTypes'
  <1>1. /\ DOMAIN txn' = Procs /\ \A q \in Procs : q # p => txn'[q] = txn[q]
        /\ DOMAIN txn'[p] = DOMAIN txn[p] \cup KeysOf(p, Pending(p))
    BY InsertMeans
  <1>2. PICK left : /\ \E N \in Nat : left \in [1 .. N -> Unwritten(p)]
                    /\ trends' = [trends EXCEPT ![p] = [n \in DOMAIN left |-> trends[p][left[n]]]]
    BY InsertMeans
  <1>3. /\ pc' = [pc EXCEPT ![p] = "flush"] /\ pc[p] = "insert"
        /\ cache' = cache /\ call' = call /\ rows' = rows /\ busy' = busy /\ stops' = stops
        /\ seen' = seen /\ received' = received
    BY DEF FlushInsert
  <1>4. \A q \in Procs : DOMAIN txn'[q] \subseteq Keys
    <2>1. KeysOf(p, Pending(p)) \subseteq Keys
      BY <1>3, KeysOfTypes DEF InCall
    <2> QED
      BY <1>1, <2>1 DEF TrendTypes
  <1> DEFINE ts == [n \in DOMAIN left |-> trends[p][left[n]]]
  <1>5. ts \in Seq(ArrayTrend)
    <2>1. PICK N \in Nat : left \in [1 .. N -> Unwritten(p)]
      BY <1>2
    <2>2. \A n \in 1 .. N : left[n] \in DOMAIN trends[p]
      BY <2>1 DEF Unwritten
    <2>3. \A n \in 1 .. N : trends[p][left[n]] \in ArrayTrend
      BY <2>2, EntryTypes
    <2>4. DOMAIN left = 1 .. N
      BY <2>1
    <2>5. ts \in [1 .. N -> ArrayTrend]
      BY <2>3, <2>4
    <2> QED
      BY <2>5
  <1>6. trends' = [trends EXCEPT ![p] = ts]
    BY <1>2
  <1> HIDE DEF ts
  <1>7. trends' \in [Procs -> Seq(ArrayTrend)] /\ \A q \in Procs : q # p => trends'[q] = trends[q]
    BY <1>5, <1>6 DEF TrendTypes
  <1>8. pc' \in [Procs -> {"idle", "flush", "merge", "cache", "insert"}]
    BY <1>3 DEF TrendTypes
  <1>9. ~InCall(p)' /\ \A q \in Procs : q # p => (InCall(q)' <=> InCall(q))
    BY <1>3 DEF TrendTypes, InCall
  <1>10. \A q \in Procs : call'[q].to \in Nat /\ (InCall(q)' => call'[q].to <= Len(trends'[q]))
    BY <1>3, <1>7, <1>9 DEF TrendTypes
  <1> QED
    BY <1>1, <1>3, <1>4, <1>7, <1>8, <1>10 DEF TrendTypes

LEMMA CommitTypes ==
  ASSUME TrendTypes, NEW p \in Procs, Commit(p)
  PROVE  TrendTypes'
  <1>1. /\ pc[p] = "flush" /\ trends' = trends /\ stops' = stops /\ seen' = seen /\ received' = received
        /\ rows' = Override(rows, txn[p]) \/ rows' = rows
        /\ txn' = [txn EXCEPT ![p] = Empty] /\ call' = [call EXCEPT ![p] = NoCall]
        /\ busy' = [busy EXCEPT ![p] = {}] /\ pc' = [pc EXCEPT ![p] = "idle"]
        /\ cache' = IF p = Parent THEN Empty ELSE cache
    BY DEF Commit
  <1>2. DOMAIN rows' \subseteq Keys
    <2>1. DOMAIN Override(rows, txn[p]) = DOMAIN rows \cup DOMAIN txn[p]
      BY OverrideLaws
    <2> QED
      BY <1>1, <2>1 DEF TrendTypes
  <1>3. DOMAIN txn' = Procs /\ \A q \in Procs : DOMAIN txn'[q] \subseteq Keys
    BY <1>1, EmptyLaws DEF TrendTypes
  <1>4. busy' \in [Procs -> SUBSET Items] /\ pc' \in [Procs -> {"idle", "flush", "merge", "cache", "insert"}]
    BY <1>1 DEF TrendTypes
  <1>5. \A q \in Procs : call'[q].to \in Nat /\ (InCall(q)' => call'[q].to <= Len(trends'[q]))
    <2>1. call'[p].to = 0 /\ ~InCall(p)'
      BY <1>1 DEF NoCall, InCall, TrendTypes
    <2>2. \A q \in Procs : q # p => call'[q] = call[q] /\ (InCall(q)' <=> InCall(q))
      BY <1>1 DEF TrendTypes, InCall
    <2> QED
      BY <1>1, <2>1, <2>2 DEF TrendTypes
  <1>6. DOMAIN call' = Procs
    BY <1>1 DEF TrendTypes
  <1>7. /\ DOMAIN cache' \subseteq Items
        /\ \A i \in DOMAIN cache' : cache'[i] \in CachedTrend /\ cache'[i].agg.num <= received'
    <2>1. CASE p = Parent
      BY <1>1, <2>1, EmptyLaws
    <2>2. CASE p # Parent
      BY <1>1, <2>2 DEF TrendTypes
    <2> QED
      BY <2>1, <2>2
  <1> QED
    BY <1>1, <1>2, <1>3, <1>4, <1>5, <1>6, <1>7 DEF TrendTypes

--------------------------------------------------------------------------------
(* What a step leaves of the arrays, the rows and the excuses *)

\* No trend is new in an array, and no item is there twice.
Shrunk ==
  \A q \in Procs : \A i \in Items :
    /\ \A n \in At(q, i)' : \E m \in At(q, i) : trends'[q][n] = trends[q][m]
    /\ \A m \in At(q, i)', n \in At(q, i)' : m = n

LEMMA SameShrunk ==
  ASSUME Owned, trends' = trends
  PROVE  Shrunk
  <1>1. \A q \in Procs : \A i \in Items : At(q, i)' = At(q, i)
    BY DEF At
  <1> QED
    BY <1>1 DEF Shrunk, Owned

LEMMA MergeShrunk ==
  ASSUME TrendTypes, Owned, NEW p \in Procs, FlushMerge(p)
  PROVE  /\ Shrunk
         /\ \A i \in Items : \A n \in At(p, i)' : n \in At(p, i) /\ n \notin Found(p) /\ trends'[p][n] = trends[p][n]
  <1>1. trends' = [trends EXCEPT ![p] = Written(p, Found(p))]
    BY MergeMeans
  <1>2. /\ DOMAIN Written(p, Found(p)) = DOMAIN trends[p]
        /\ \A n \in DOMAIN trends[p] :
              /\ n \notin Found(p) => Written(p, Found(p))[n] = trends[p][n]
              /\ n \in Found(p) => Written(p, Found(p))[n].itemid = 0
    BY WrittenTypes
  <1>3. trends'[p] = Written(p, Found(p)) /\ \A q \in Procs : q # p => trends'[q] = trends[q]
    BY <1>1 DEF TrendTypes
  <1>4. ASSUME NEW i \in Items, NEW n \in At(p, i)'
        PROVE  n \in At(p, i) /\ n \notin Found(p) /\ trends'[p][n] = trends[p][n]
    <2>1. n \in DOMAIN Written(p, Found(p)) /\ Written(p, Found(p))[n].itemid = i /\ i # 0
      BY <1>3, TrendAssumption DEF At
    <2>2. n \notin Found(p) /\ n \in DOMAIN trends[p]
      BY <1>2, <2>1
    <2> QED
      BY <1>2, <1>3, <2>1, <2>2 DEF At
  <1>5. ASSUME NEW q \in Procs, NEW i \in Items
        PROVE  /\ \A n \in At(q, i)' : n \in At(q, i) /\ trends'[q][n] = trends[q][n]
               /\ \A m \in At(q, i)', n \in At(q, i)' : m = n
    <2>1. CASE q = p
      BY <1>4, <2>1 DEF Owned
    <2>2. CASE q # p
      <3>1. At(q, i)' = At(q, i) /\ trends'[q] = trends[q]
        BY <1>3, <2>2 DEF At
      <3> QED
        BY <3>1 DEF Owned
    <2> QED
      BY <2>1, <2>2
  <1> QED
    BY <1>4, <1>5 DEF Shrunk

LEMMA InsertShrunk ==
  ASSUME TrendTypes, Owned, NEW p \in Procs, FlushInsert(p)
  PROVE  /\ Shrunk
         /\ \A i \in Items : \A n \in At(p, i)' :
              \E m \in At(p, i) : m \notin Pending(p) /\ trends'[p][n] = trends[p][m]
  <1>1. PICK left : /\ \E N \in Nat : left \in [1 .. N -> Unwritten(p)]
                    /\ \A m \in DOMAIN left, n \in DOMAIN left : left[m] = left[n] => m = n
                    /\ trends' = [trends EXCEPT ![p] = [n \in DOMAIN left |-> trends[p][left[n]]]]
    BY InsertMeans
  <1>2. /\ trends'[p] = [n \in DOMAIN left |-> trends[p][left[n]]]
        /\ \A q \in Procs : q # p => trends'[q] = trends[q]
    BY <1>1 DEF TrendTypes
  <1>3. \A n \in DOMAIN left : left[n] \in DOMAIN trends[p] /\ left[n] \notin Pending(p)
    BY <1>1 DEF Unwritten
  <1>4. ASSUME NEW i \in Items, NEW n \in At(p, i)'
        PROVE  /\ n \in DOMAIN left /\ left[n] \in At(p, i) /\ left[n] \notin Pending(p)
               /\ trends'[p][n] = trends[p][left[n]]
    BY <1>2, <1>3 DEF At
  <1>5. ASSUME NEW i \in Items, NEW m \in At(p, i)', NEW n \in At(p, i)'
        PROVE  m = n
    <2>1. left[m] = left[n]
      BY <1>4 DEF Owned
    <2> QED
      BY <1>1, <1>4, <2>1
  <1>6. ASSUME NEW q \in Procs, NEW i \in Items
        PROVE  /\ \A n \in At(q, i)' : \E m \in At(q, i) : trends'[q][n] = trends[q][m]
               /\ \A m \in At(q, i)', n \in At(q, i)' : m = n
    <2>1. CASE q = p
      <3>1. \A n \in At(p, i)' : \E m \in At(p, i) : trends'[p][n] = trends[p][m]
        BY <1>4
      <3>2. \A m \in At(p, i)', n \in At(p, i)' : m = n
        BY <1>5
      <3> QED
        BY <2>1, <3>1, <3>2
    <2>2. CASE q # p
      <3>1. At(q, i)' = At(q, i) /\ trends'[q] = trends[q]
        BY <1>2, <2>2 DEF At
      <3> QED
        BY <3>1 DEF Owned
    <2> QED
      BY <2>1, <2>2
  <1> QED
    BY <1>4, <1>6 DEF Shrunk

\* The first query changes nothing but disable_from.
LEMMA ProbeKeeps ==
  ASSUME TrendTypes, NEW p \in Procs, FlushProbe(p)
  PROVE  /\ \A q \in Procs : q # p => trends'[q] = trends[q] /\ call'[q] = call[q]
         /\ DOMAIN trends'[p] = DOMAIN trends[p]
         /\ \A n \in DOMAIN trends[p] : /\ trends'[p][n].itemid = trends[p][n].itemid
                                        /\ Key(trends'[p][n]) = Key(trends[p][n])
         /\ \A q \in Procs : \A i \in Items : At(q, i)' = At(q, i)
  <1>1. PICK h \in 1 .. Hours, t \in Tables, to \in 0 .. Len(trends[p]) :
           /\ call' = [call EXCEPT ![p] = [clock |-> h, type |-> t, to |-> to]]
           /\ trends' = [trends EXCEPT ![p] = [n \in DOMAIN trends[p] |-> Probed(p, n, h, t, to)]]
    BY ProbeMeans
  <1>2. \A q \in Procs : q # p => trends'[q] = trends[q] /\ call'[q] = call[q]
    BY <1>1 DEF TrendTypes
  <1>3. /\ DOMAIN trends'[p] = DOMAIN trends[p]
        /\ \A n \in DOMAIN trends[p] : trends'[p][n] = Probed(p, n, h, t, to)
    BY <1>1 DEF TrendTypes
  <1>4. \A n \in DOMAIN trends[p] : /\ trends'[p][n].itemid = trends[p][n].itemid
                                    /\ Key(trends'[p][n]) = Key(trends[p][n])
    BY <1>3, ProbedTypes
  <1>5. \A q \in Procs : \A i \in Items : At(q, i)' = At(q, i)
    <2> SUFFICES ASSUME NEW q \in Procs, NEW i \in Items PROVE At(q, i)' = At(q, i)
      OBVIOUS
    <2>1. CASE q = p
      BY <1>3, <1>4, <2>1 DEF At
    <2>2. CASE q # p
      BY <1>2, <2>2 DEF At
    <2> QED
      BY <2>1, <2>2
  <1> QED
    BY <1>2, <1>3, <1>4, <1>5

\* The rows after a step that inserts none
NoNewRows == \A k \in Keys : HasRow(k)' => HasRow(k)

LEMMA MergeRows ==
  ASSUME TrendTypes, NEW p \in Procs, FlushMerge(p)
  PROVE  NoNewRows /\ DOMAIN Visible(p)' = DOMAIN Visible(p)
  <1>1. /\ DOMAIN txn' = Procs /\ \A q \in Procs : q # p => txn'[q] = txn[q]
        /\ DOMAIN txn'[p] = DOMAIN txn[p] \cup KeysOf(p, Found(p))
    BY MergeMeans
  <1>2. rows' = rows
    BY DEF FlushMerge
  <1>3. DOMAIN Visible(p) = DOMAIN rows \cup DOMAIN txn[p]
    BY OverrideLaws DEF Visible
  <1>4. DOMAIN Visible(p)' = DOMAIN rows' \cup DOMAIN txn'[p]
    BY OverrideLaws DEF Visible
  <1>5. KeysOf(p, Found(p)) \subseteq DOMAIN Visible(p)
    BY DEF KeysOf, Found
  <1>6. NoNewRows
    BY <1>1, <1>2, <1>3, <1>5 DEF NoNewRows, HasRow
  <1> QED
    BY <1>1, <1>2, <1>3, <1>4, <1>5, <1>6

LEMMA CommitRows ==
  ASSUME TrendTypes, NEW p \in Procs, Commit(p)
  PROVE  /\ NoNewRows
         /\ DOMAIN rows' \subseteq DOMAIN rows \cup DOMAIN txn[p]
         /\ DOMAIN txn'[p] = {} /\ \A q \in Procs : q # p => txn'[q] = txn[q]
  <1>1. txn' = [txn EXCEPT ![p] = Empty] /\ (rows' = Override(rows, txn[p]) \/ rows' = rows)
    BY DEF Commit
  <1>2. DOMAIN Override(rows, txn[p]) = DOMAIN rows \cup DOMAIN txn[p]
    BY OverrideLaws
  <1>3. DOMAIN rows' \subseteq DOMAIN rows \cup DOMAIN txn[p]
    BY <1>1, <1>2
  <1>4. DOMAIN txn'[p] = {} /\ \A q \in Procs : q # p => txn'[q] = txn[q]
    BY <1>1, EmptyLaws DEF TrendTypes
  <1>5. NoNewRows
    BY <1>3, <1>4 DEF NoNewRows, HasRow
  <1> QED
    BY <1>3, <1>4, <1>5

\* Once excused, for ever.
LEMMA ExcusedStays ==
  ASSUME TrendTypes, stops' >= stops, stops' \in Nat,
         \A k \in Keys : seen[k].num > 0 => seen'[k].num > 0
  PROVE  \A i \in Items : Excused(i) => Excused(i)'
  <1> SUFFICES ASSUME NEW i \in Items, Excused(i) PROVE Excused(i)'
    OBVIOUS
  <1>1. PICK t \in Tables, u \in Tables : t # u /\ \E h, k \in 1 .. Hours :
           seen[<<i, t, h>>].num > 0 /\ seen[<<i, u, k>>].num > 0
    BY DEF Excused, Retyped
  <1>2. PICK h \in 1 .. Hours, k \in 1 .. Hours : seen[<<i, t, h>>].num > 0 /\ seen[<<i, u, k>>].num > 0
    BY <1>1
  <1>3. <<i, t, h>> \in Keys /\ <<i, u, k>> \in Keys
    BY DEF Keys
  <1>4. seen'[<<i, t, h>>].num > 0 /\ seen'[<<i, u, k>>].num > 0
    BY <1>2, <1>3
  <1>5. Retyped(i)'
    BY <1>1, <1>4 DEF Retyped
  <1>6. stops' > 0
    BY DEF Excused, TrendTypes
  <1> QED
    BY <1>5, <1>6 DEF Excused

LEMMA SameExcused ==
  ASSUME stops' = stops, seen' = seen, NEW i
  PROVE  Excused(i)' = Excused(i)
  BY DEF Excused, Retyped

\* What a batch does to the values seen.
LEMMA BatchSeen ==
  ASSUME TrendTypes, NEW p \in Syncers, NEW b, NEW val, NEW out, Batch(p, b, val, out)
  PROVE  /\ \A k \in Keys : seen[k].num > 0 => seen'[k].num > 0
         /\ \A i \in b : seen'[<<i, val[i][2], val[i][1]>>].num > 0
  <1>1. \A k \in Keys : seen[k].num \in Nat
    BY DEF TrendTypes
  <1>2. seen' = [k \in Keys |-> IF k[1] \in b /\ k[2] = val[k[1]][2] /\ k[3] = val[k[1]][1]
                                THEN With(seen[k], val[k[1]][3]) ELSE seen[k]]
    BY DEF Batch
  <1>3. \A k \in Keys : With(seen[k], val[k[1]][3]).num = seen[k].num + 1
    BY DEF With
  <1>4. \A i \in b : <<i, val[i][2], val[i][1]>> \in Keys
    BY DEF Batch, Keys
  <1>5. \A k \in Keys : seen[k].num > 0 => seen'[k].num > 0
    BY <1>1, <1>2, <1>3
  <1>6. ASSUME NEW i \in b PROVE seen'[<<i, val[i][2], val[i][1]>>].num > 0
    <2> DEFINE k == <<i, val[i][2], val[i][1]>>
    <2>1. k \in Keys /\ k[1] = i /\ k[2] = val[i][2] /\ k[3] = val[i][1]
      BY <1>4
    <2> HIDE DEF k
    <2>2. seen'[k] = With(seen[k], val[k[1]][3])
      BY <1>2, <2>1
    <2>3. seen'[k].num > 0
      BY <1>1, <1>3, <2>1, <2>2
    <2> QED
      BY <2>3 DEF k
  <1> QED
    BY <1>5, <1>6

\* What a batch does to the arrays: the trends that go into one are copies.
LEMMA BatchArrays ==
  ASSUME TrendTypes, NEW p \in Syncers, NEW b, NEW val, NEW out, Batch(p, b, val, out)
  PROVE  /\ \A q \in Procs : q # p => trends'[q] = trends[q]
         /\ \A i \in Items : \A n \in At(p, i)' :
              /\ i \in b /\ i \in DOMAIN cache /\ cache[i].agg.num > 0
              /\ n \in DOMAIN out /\ out[n] = i /\ trends'[p][n] = Copy(i)
         /\ \A i \in Items : \A m \in At(p, i)', n \in At(p, i)' : m = n
  <1>1. PICK N \in Nat : out \in [1 .. N -> {i \in b : Outdated(DCget_trend(i), val[i][1], val[i][2])}]
    BY DEF Batch
  <1>2. /\ trends' = [trends EXCEPT ![p] = [n \in DOMAIN out |-> Copy(out[n])]]
        /\ \A m \in DOMAIN out, n \in DOMAIN out : out[m] = out[n] => m = n
        /\ b \subseteq Items
    BY DEF Batch
  <1>3. p \in Procs
    BY DEF Procs
  <1>4. trends'[p] = [n \in DOMAIN out |-> Copy(out[n])] /\ \A q \in Procs : q # p => trends'[q] = trends[q]
    BY <1>2, <1>3 DEF TrendTypes
  <1>5. \A n \in DOMAIN out : out[n] \in b /\ DCget_trend(out[n]).agg.num > 0
    BY <1>1 DEF Outdated
  <1>6. \A n \in DOMAIN out : Copy(out[n]).itemid = out[n]
    BY DEF Copy
  <1>7. ASSUME NEW i \in Items, NEW n \in At(p, i)'
        PROVE  /\ i \in b /\ i \in DOMAIN cache /\ cache[i].agg.num > 0
               /\ n \in DOMAIN out /\ out[n] = i /\ trends'[p][n] = Copy(i)
    <2>1. n \in DOMAIN out /\ trends'[p][n] = Copy(out[n]) /\ out[n] = i
      BY <1>4, <1>6 DEF At
    <2>2. i \in b /\ DCget_trend(i).agg.num > 0
      BY <1>5, <2>1
    <2>3. i \in DOMAIN cache /\ cache[i].agg.num > 0
      BY <2>2, GetTypes
    <2> QED
      BY <2>1, <2>2, <2>3
  <1>8. ASSUME NEW i \in Items, NEW m \in At(p, i)', NEW n \in At(p, i)'
        PROVE  m = n
    <2>1. m \in DOMAIN out /\ n \in DOMAIN out /\ out[m] = i /\ out[n] = i
      BY <1>7
    <2> QED
      BY <1>2, <2>1
  <1> QED
    BY <1>4, <1>7, <1>8

LEMMA SyncArrays ==
  ASSUME TrendTypes, SeenAll, DCsync_trends
  PROVE  /\ \A q \in Syncers : trends'[q] = trends[q]
         /\ \A i \in Items : \A n \in At(Parent, i)' :
              i \in DOMAIN cache /\ cache[i].agg.num > 0 /\ trends'[Parent][n] = Copy(i)
         /\ \A i \in Items : \A m \in At(Parent, i)', n \in At(Parent, i)' : m = n
  <1>1. PICK is : /\ \E N \in Nat : is \in [1 .. N -> DOMAIN cache]
                  /\ \A m \in DOMAIN is, n \in DOMAIN is : is[m] = is[n] => m = n
                  /\ trends' = [trends EXCEPT ![Parent] = [n \in DOMAIN is |-> Copy(is[n])]]
    BY SyncMeans
  <1>2. Parent \in Procs /\ Parent \notin Syncers /\ Syncers \subseteq Procs /\ pc[Parent] = "idle"
    BY TrendAssumption DEF Procs, DCsync_trends
  <1>3. trends'[Parent] = [n \in DOMAIN is |-> Copy(is[n])] /\ \A q \in Syncers : trends'[q] = trends[q]
    BY <1>1, <1>2 DEF TrendTypes
  <1>4. ASSUME NEW i \in Items, NEW n \in At(Parent, i)'
        PROVE  /\ n \in DOMAIN is /\ is[n] = i
               /\ i \in DOMAIN cache /\ cache[i].agg.num > 0 /\ trends'[Parent][n] = Copy(i)
    <2>1. n \in DOMAIN is /\ trends'[Parent][n] = Copy(is[n]) /\ is[n] = i
      BY <1>3 DEF At, Copy
    <2>2. i \in DOMAIN cache
      BY <1>1, <2>1
    <2>3. cache[i].agg.num > 0
      BY <1>2, <2>2 DEF SeenAll
    <2> QED
      BY <2>1, <2>2, <2>3
  <1>5. ASSUME NEW i \in Items, NEW m \in At(Parent, i)', NEW n \in At(Parent, i)'
        PROVE  m = n
    <2>1. m \in DOMAIN is /\ n \in DOMAIN is /\ is[m] = i /\ is[n] = i
      BY <1>4
    <2> QED
      BY <1>1, <2>1
  <1> QED
    BY <1>3, <1>4, <1>5

--------------------------------------------------------------------------------
(* Who works on what *)

\* What every step of a call has in common.
LEMMA FlushPc ==
  ASSUME TrendTypes, NEW p \in Procs,
         FlushProbe(p) \/ FlushMerge(p) \/ FlushCache(p) \/ FlushInsert(p)
  PROVE  /\ pc[p] # "idle" /\ pc'[p] # "idle"
         /\ \A q \in Procs : q # p => pc'[q] = pc[q]
         /\ busy' = busy /\ stops' = stops /\ seen' = seen /\ rows' = rows
  BY DEF FlushProbe, FlushMerge, FlushCache, FlushInsert, TrendTypes

LEMMA InitOwned == Init => Owned
  <1> SUFFICES ASSUME Init PROVE Owned
    OBVIOUS
  <1>1. Parent \in Procs /\ Syncers \subseteq Procs
    BY DEF Procs
  <1>2. \A p \in Procs : pc[p] = "idle" /\ trends[p] = <<>> /\ DOMAIN txn[p] = {} /\ busy[p] = {}
    BY EmptyLaws DEF Init
  <1>3. \A p \in Procs : \A i \in Items : At(p, i) = {}
    BY <1>2 DEF At
  <1> QED
    BY <1>1, <1>2, <1>3 DEF Owned

LEMMA BatchOwned ==
  ASSUME TrendTypes, Owned, NEW p \in Syncers, DCmass_update_trends(p)
  PROVE  Owned'
  <1>1. PICK b, val, out : Batch(p, b, val, out)
    BY BatchMeans
  <1>2. /\ pc[p] = "idle" /\ pc[Parent] = "idle" /\ pc' = [pc EXCEPT ![p] = "flush"]
        /\ txn' = txn /\ stops' = stops
    BY DEF DCmass_update_trends
  <1>3. p \in Procs /\ p # Parent /\ Parent \in Procs /\ Syncers \subseteq Procs
    BY TrendAssumption DEF Procs
  <1>4. /\ busy'[p] = b /\ \A q \in Procs : q # p => busy'[q] = busy[q] /\ pc'[q] = pc[q]
        /\ pc'[p] = "flush"
    BY <1>1, <1>2, <1>3 DEF Batch, TrendTypes
  <1>5. \A q \in Procs : b \cap busy[q] = {}
    BY <1>1 DEF Batch, Free
  <1>6. /\ \A q \in Procs : q # p => trends'[q] = trends[q]
        /\ \A i \in Items : \A n \in At(p, i)' : i \in b
        /\ \A i \in Items : \A m \in At(p, i)', n \in At(p, i)' : m = n
    BY <1>1, BatchArrays
  <1>7. \A q \in Procs : q # p => \A i \in Items : At(q, i)' = At(q, i)
    BY <1>6 DEF At
  <1>8. \A q \in Procs : pc'[q] = "idle" => trends'[q] = <<>> /\ DOMAIN txn'[q] = {} /\ busy'[q] = {}
    BY <1>2, <1>4, <1>6 DEF Owned
  <1>9. busy'[Parent] = {} /\ pc'[Parent] = "idle"
    BY <1>2, <1>3, <1>4 DEF Owned
  <1>10. \A q \in Procs, r \in Procs : q # r => busy'[q] \cap busy'[r] = {}
    BY <1>4, <1>5 DEF Owned
  <1>11. \A q \in Syncers : \A i \in Items : \A n \in At(q, i)' : i \in busy'[q]
    BY <1>3, <1>4, <1>6, <1>7 DEF Owned
  <1>12. \A q \in Syncers : \A k \in DOMAIN txn'[q] : k[1] \in busy'[q]
    <2>1. DOMAIN txn[p] = {}
      BY <1>2, <1>3 DEF Owned
    <2> QED
      BY <1>2, <1>3, <1>4, <2>1 DEF Owned
  <1>13. \A q \in Procs : \A i \in Items : \A m \in At(q, i)', n \in At(q, i)' : m = n
    BY <1>6, <1>7 DEF Owned
  <1> QED
    BY <1>8, <1>9, <1>10, <1>11, <1>12, <1>13 DEF Owned

LEMMA SyncOwned ==
  ASSUME TrendTypes, Owned, SeenAll, DCsync_trends
  PROVE  Owned'
  <1>1. /\ \A p \in Procs : pc[p] = "idle"
        /\ pc' = [pc EXCEPT ![Parent] = "flush"] /\ stops' = stops + 1
        /\ txn' = txn /\ busy' = busy
    BY DEF DCsync_trends
  <1>2. Parent \in Procs /\ Parent \notin Syncers /\ Syncers \subseteq Procs /\ Procs = Syncers \cup {Parent}
    BY TrendAssumption DEF Procs
  <1>3. pc'[Parent] = "flush" /\ \A q \in Syncers : pc'[q] = "idle"
    BY <1>1, <1>2 DEF TrendTypes
  <1>4. /\ \A q \in Syncers : trends'[q] = trends[q]
        /\ \A i \in Items : \A m \in At(Parent, i)', n \in At(Parent, i)' : m = n
    BY SyncArrays
  <1>5. \A q \in Syncers : \A i \in Items : At(q, i)' = At(q, i)
    BY <1>4 DEF At
  <1>6. \A q \in Procs : pc'[q] = "idle" => trends'[q] = <<>> /\ DOMAIN txn'[q] = {} /\ busy'[q] = {}
    BY <1>1, <1>2, <1>3, <1>4 DEF Owned
  <1>7. stops' > 0
    BY <1>1 DEF TrendTypes
  <1>8. \A q \in Procs : \A i \in Items : \A m \in At(q, i)', n \in At(q, i)' : m = n
    BY <1>2, <1>4, <1>5 DEF Owned
  <1> QED
    BY <1>1, <1>3, <1>5, <1>6, <1>7, <1>8 DEF Owned

\* The rows a call adds are of the items of its batch.
LEMMA KeysOfOwned ==
  ASSUME TrendTypes, Owned, NEW p \in Syncers, InCall(p), NEW ns, ns \subseteq Pending(p)
  PROVE  \A k \in KeysOf(p, ns) : k[1] \in busy[p]
  <1>1. p \in Procs
    BY DEF Procs
  <1>2. ASSUME NEW n \in ns
        PROVE  Key(trends[p][n])[1] \in busy[p]
    <2>1. n \in DOMAIN trends[p] /\ trends[p][n].itemid # 0
      BY <1>1, KeysOfTypes DEF Pending
    <2>2. trends[p][n].itemid \in Items
      BY <1>1, <2>1, EntryTypes
    <2>3. trends[p][n].itemid \in busy[p]
      BY <2>1, <2>2 DEF Owned, At
    <2> QED
      BY <2>3 DEF Key
  <1> QED
    BY <1>2 DEF KeysOf

LEMMA FlushOwned ==
  ASSUME TrendTypes, Owned, NEW p \in Procs,
         FlushProbe(p) \/ FlushMerge(p) \/ FlushCache(p) \/ FlushInsert(p)
  PROVE  Owned'
  <1>1. /\ pc[p] # "idle" /\ pc'[p] # "idle"
        /\ \A q \in Procs : q # p => pc'[q] = pc[q]
        /\ busy' = busy /\ stops' = stops
    BY FlushPc
  <1>2. Parent \in Procs /\ Parent \notin Syncers /\ Syncers \subseteq Procs /\ Procs = Syncers \cup {Parent}
    BY TrendAssumption DEF Procs
  <1>3. pc'[Parent] # "cache"
    <2>1. CASE p = Parent
      BY <1>2, <2>1 DEF FlushProbe, FlushMerge, FlushCache, FlushInsert, TrendTypes
    <2>2. CASE p # Parent
      BY <1>1, <1>2, <2>2 DEF Owned
    <2> QED
      BY <2>1, <2>2
  <1>4. /\ \A q \in Procs : \A i \in Items : \A n \in At(q, i)' : \E m : m \in At(q, i)
        /\ \A q \in Procs : \A i \in Items : \A m \in At(q, i)', n \in At(q, i)' : m = n
        /\ \A q \in Procs : q # p => trends'[q] = trends[q]
    <2>1. CASE FlushProbe(p)
      BY <2>1, ProbeKeeps DEF Owned
    <2>2. CASE FlushMerge(p)
      <3>1. \A q \in Procs : q # p => trends'[q] = trends[q]
        BY <2>2 DEF FlushMerge, TrendTypes
      <3>2. Shrunk
        BY <2>2, MergeShrunk
      <3> QED
        BY <3>1, <3>2 DEF Shrunk
    <2>3. CASE FlushCache(p)
      <3>1. trends' = trends
        BY <2>3 DEF FlushCache
      <3>2. Shrunk
        BY <3>1, SameShrunk
      <3> QED
        BY <3>1, <3>2 DEF Shrunk
    <2>4. CASE FlushInsert(p)
      <3>1. \A q \in Procs : q # p => trends'[q] = trends[q]
        BY <2>4 DEF FlushInsert, TrendTypes
      <3>2. Shrunk
        BY <2>4, InsertShrunk
      <3> QED
        BY <3>1, <3>2 DEF Shrunk
    <2> QED
      BY <2>1, <2>2, <2>3, <2>4
  <1>5. /\ \A q \in Procs : q # p => txn'[q] = txn[q]
        /\ p \in Syncers => \A k \in DOMAIN txn'[p] : k[1] \in busy[p]
    <2>1. CASE txn' = txn
      BY <2>1 DEF Owned
    <2>2. CASE FlushMerge(p)
      <3>1. /\ \A q \in Procs : q # p => txn'[q] = txn[q]
            /\ DOMAIN txn'[p] = DOMAIN txn[p] \cup KeysOf(p, Found(p))
        BY <2>2, MergeMeans
      <3>2. InCall(p) /\ Found(p) \subseteq Pending(p)
        BY <2>2 DEF FlushMerge, InCall, Found
      <3>3. p \in Syncers => \A k \in KeysOf(p, Found(p)) : k[1] \in busy[p]
        BY <3>2, KeysOfOwned
      <3> QED
        BY <3>1, <3>3 DEF Owned
    <2>3. CASE FlushInsert(p)
      <3>1. /\ \A q \in Procs : q # p => txn'[q] = txn[q]
            /\ DOMAIN txn'[p] = DOMAIN txn[p] \cup KeysOf(p, Pending(p))
        BY <2>3, InsertMeans
      <3>2. InCall(p)
        BY <2>3 DEF FlushInsert, InCall
      <3>3. p \in Syncers => \A k \in KeysOf(p, Pending(p)) : k[1] \in busy[p]
        BY <3>2, KeysOfOwned
      <3> QED
        BY <3>1, <3>3 DEF Owned
    <2> QED
      BY <2>1, <2>2, <2>3 DEF FlushProbe, FlushCache
  <1>6. \A q \in Procs : pc'[q] = "idle" => trends'[q] = <<>> /\ DOMAIN txn'[q] = {} /\ busy'[q] = {}
    BY <1>1, <1>4, <1>5 DEF Owned
  <1>7. pc'[Parent] # "idle" => stops' > 0 /\ \A q \in Syncers : pc'[q] = "idle"
    BY <1>1, <1>2 DEF Owned
  <1>8. \A q \in Syncers : \A i \in Items : \A n \in At(q, i)' : i \in busy'[q]
    BY <1>1, <1>2, <1>4 DEF Owned
  <1>9. \A q \in Syncers : \A k \in DOMAIN txn'[q] : k[1] \in busy'[q]
    BY <1>1, <1>2, <1>5 DEF Owned
  <1>10. busy'[Parent] = {} /\ \A q \in Procs, r \in Procs : q # r => busy'[q] \cap busy'[r] = {}
    BY <1>1 DEF Owned
  <1> QED
    BY <1>3, <1>4, <1>6, <1>7, <1>8, <1>9, <1>10 DEF Owned

LEMMA CommitOwned ==
  ASSUME TrendTypes, Owned, NEW p \in Procs, Commit(p)
  PROVE  Owned'
  <1>1. /\ pc[p] = "flush" /\ trends[p] = <<>> /\ trends' = trends /\ stops' = stops
        /\ busy' = [busy EXCEPT ![p] = {}] /\ pc' = [pc EXCEPT ![p] = "idle"]
    BY DEF Commit
  <1>2. Parent \in Procs /\ Parent \notin Syncers /\ Syncers \subseteq Procs /\ Procs = Syncers \cup {Parent}
    BY TrendAssumption DEF Procs
  <1>3. DOMAIN txn'[p] = {} /\ \A q \in Procs : q # p => txn'[q] = txn[q]
    BY CommitRows
  <1>4. /\ busy'[p] = {} /\ pc'[p] = "idle"
        /\ \A q \in Procs : q # p => busy'[q] = busy[q] /\ pc'[q] = pc[q]
    BY <1>1 DEF TrendTypes
  <1>5. \A q \in Procs : \A i \in Items : At(q, i)' = At(q, i)
    BY <1>1 DEF At
  <1>6. \A i \in Items : At(p, i) = {}
    BY <1>1 DEF At
  <1>7. \A q \in Procs : pc'[q] = "idle" => trends'[q] = <<>> /\ DOMAIN txn'[q] = {} /\ busy'[q] = {}
    BY <1>1, <1>3, <1>4 DEF Owned
  <1>8. busy'[Parent] = {} /\ pc'[Parent] # "cache"
    BY <1>2, <1>4 DEF Owned
  <1>9. pc'[Parent] # "idle" => stops' > 0 /\ \A q \in Syncers : pc'[q] = "idle"
    BY <1>1, <1>2, <1>4 DEF Owned
  <1>10. \A q \in Procs, r \in Procs : q # r => busy'[q] \cap busy'[r] = {}
    BY <1>4 DEF Owned
  <1>11. \A q \in Syncers : \A i \in Items : \A n \in At(q, i)' : i \in busy'[q]
    BY <1>2, <1>4, <1>5, <1>6 DEF Owned
  <1>12. \A q \in Syncers : \A k \in DOMAIN txn'[q] : k[1] \in busy'[q]
    BY <1>2, <1>3, <1>4 DEF Owned
  <1>13. \A q \in Procs : \A i \in Items : \A m \in At(q, i)', n \in At(q, i)' : m = n
    BY <1>5 DEF Owned
  <1> QED
    BY <1>7, <1>8, <1>9, <1>10, <1>11, <1>12, <1>13 DEF Owned

--------------------------------------------------------------------------------
(* Nothing without a value *)

LEMMA InitSeen == Init => SeenAll
  <1> SUFFICES ASSUME Init PROVE SeenAll
    OBVIOUS
  <1>1. DOMAIN cache = {} /\ DOMAIN rows = {} /\ \A p \in Procs : DOMAIN txn[p] = {} /\ DOMAIN trends[p] = {}
    BY EmptyLaws DEF Init
  <1>2. \A k \in Keys : ~HasRow(k)
    BY <1>1 DEF HasRow
  <1>3. \A p \in Procs : \A i \in Items : At(p, i) = {}
    BY <1>1 DEF At
  <1> QED
    BY <1>1, <1>2, <1>3 DEF SeenAll

\* The key of a cached trend is the one of its copy.
LEMMA CopyKey ==
  ASSUME NEW i
  PROVE  /\ Key(Copy(i)) = <<i, cache[i].type, cache[i].clock>>
         /\ Copy(i).disable_from = cache[i].disable_from /\ Copy(i).clock = cache[i].clock
  BY DEF Key, Copy

\* What is kept of an item has a key.
LEMMA CachedKey ==
  ASSUME TrendTypes, NEW i \in DOMAIN cache, cache[i].clock > 0
  PROVE  <<i, cache[i].type, cache[i].clock>> \in Keys
  <1>1. cache[i] \in CachedTrend /\ i \in Items
    BY DEF TrendTypes
  <1>2. cache[i].clock \in 0 .. Hours /\ cache[i].type \in Tables
    BY <1>1 DEF CachedTrend
  <1>3. cache[i].clock \in 1 .. Hours
    BY <1>2, TrendAssumption
  <1> QED
    BY <1>1, <1>2, <1>3 DEF Keys

LEMMA BatchSeenAll ==
  ASSUME TrendTypes, SeenAll, NEW p \in Syncers, DCmass_update_trends(p)
  PROVE  SeenAll'
  <1>1. PICK b, val, out : Batch(p, b, val, out)
    BY BatchMeans
  <1>2. /\ pc[Parent] = "idle" /\ rows' = rows /\ txn' = txn
    BY DEF DCmass_update_trends
  <1>3. /\ \A k \in Keys : seen[k].num > 0 => seen'[k].num > 0
        /\ \A i \in b : seen'[<<i, val[i][2], val[i][1]>>].num > 0
    BY <1>1, BatchSeen
  <1>4. ASSUME NEW i \in DOMAIN cache'
        PROVE  /\ cache'[i].agg.num > 0 /\ cache'[i].clock > 0
               /\ seen'[<<i, cache'[i].type, cache'[i].clock>>].num > 0
    <2>1. CASE i \in b
      <3>1. i \in Items /\ val[i][1] \in 1 .. Hours /\ val[i][2] \in Tables /\ val[i][3] \in Values
        BY <1>1, <2>1 DEF Batch
      <3> DEFINE t == DCget_trend(i)
                 base == IF Outdated(t, val[i][1], val[i][2]) THEN None ELSE t.agg
      <3>2. base \in Aggregates
        BY <3>1, GetTypes, NoneTypes
      <3>3. cache'[i] = [clock |-> val[i][1], type |-> val[i][2], disable_from |-> t.disable_from,
                         agg |-> With(base, val[i][3])]
        BY <1>1, <2>1 DEF Batch, DCadd_trend
      <3> HIDE DEF t, base
      <3>4. With(base, val[i][3]).num = base.num + 1 /\ base.num \in Nat
        BY <3>2 DEF With, Aggregates
      <3> QED
        BY <1>3, <2>1, <3>1, <3>3, <3>4
    <2>2. CASE i \notin b
      <3>1. i \in DOMAIN cache /\ cache'[i] = cache[i]
        BY <1>1, <2>2 DEF Batch
      <3>2. cache[i].agg.num > 0 /\ cache[i].clock > 0 /\ seen[<<i, cache[i].type, cache[i].clock>>].num > 0
        BY <1>2, <3>1 DEF SeenAll
      <3>3. <<i, cache[i].type, cache[i].clock>> \in Keys
        BY <3>1, <3>2, CachedKey
      <3> QED
        BY <1>3, <3>1, <3>2, <3>3
    <2> QED
      BY <2>1, <2>2
  <1>5. ASSUME NEW q \in Procs, NEW i \in Items, NEW n \in At(q, i)'
        PROVE  seen'[Key(trends'[q][n])].num > 0
    <2>1. CASE q = p
      <3>1. i \in DOMAIN cache /\ cache[i].agg.num > 0 /\ trends'[p][n] = Copy(i)
        BY <1>1, <2>1, BatchArrays
      <3>2. cache[i].clock > 0 /\ seen[<<i, cache[i].type, cache[i].clock>>].num > 0
        BY <3>1 DEF SeenAll
      <3>3. <<i, cache[i].type, cache[i].clock>> \in Keys
        BY <3>1, <3>2, CachedKey
      <3>4. Key(trends'[p][n]) = <<i, cache[i].type, cache[i].clock>>
        BY <3>1, CopyKey
      <3> QED
        BY <1>3, <2>1, <3>2, <3>3, <3>4
    <2>2. CASE q # p
      <3>1. trends'[q] = trends[q]
        BY <1>1, <2>2, BatchArrays
      <3>2. n \in At(q, i) /\ n \in DOMAIN trends[q] /\ trends[q][n].itemid = i
        BY <3>1 DEF At
      <3>3. Key(trends[q][n]) \in Keys
        BY <3>2, EntryTypes
      <3> QED
        BY <1>3, <3>1, <3>2, <3>3 DEF SeenAll
    <2> QED
      BY <2>1, <2>2
  <1>6. \A k \in Keys : HasRow(k)' => seen'[k].num > 0
    <2>1. \A k \in Keys : HasRow(k)' => HasRow(k)
      BY <1>2 DEF HasRow
    <2> QED
      BY <1>3, <2>1 DEF SeenAll
  <1>7. \A i \in DOMAIN cache' :
          /\ pc'[Parent] = "idle" => cache'[i].agg.num > 0
          /\ cache'[i].agg.num > 0 =>
               cache'[i].clock > 0 /\ seen'[<<i, cache'[i].type, cache'[i].clock>>].num > 0
    BY <1>4
  <1> QED
    BY <1>5, <1>6, <1>7 DEF SeenAll

LEMMA SyncSeenAll ==
  ASSUME TrendTypes, Owned, SeenAll, DCsync_trends
  PROVE  SeenAll'
  <1>1. /\ pc[Parent] = "idle" /\ pc' = [pc EXCEPT ![Parent] = "flush"]
        /\ cache' = [i \in DOMAIN cache |-> [cache[i] EXCEPT !.clock = 0, !.agg = None]]
        /\ rows' = rows /\ txn' = txn /\ seen' = seen
    BY DEF DCsync_trends, Procs
  <1>2. Parent \in Procs /\ Parent \notin Syncers /\ Procs = Syncers \cup {Parent}
    BY TrendAssumption DEF Procs
  <1>3. pc'[Parent] = "flush"
    BY <1>1, <1>2 DEF TrendTypes
  <1>4. \A i \in DOMAIN cache' : cache'[i].agg.num = 0
    <2> SUFFICES ASSUME NEW i \in DOMAIN cache PROVE cache'[i].agg.num = 0
      BY <1>1
    <2>1. cache[i] \in CachedTrend
      BY DEF TrendTypes
    <2>2. cache'[i].agg = None
      BY <1>1, <2>1 DEF CachedTrend
    <2> QED
      BY <2>2, NoneTypes
  <1>5. \A i \in Items : \A n \in At(Parent, i)' : seen[Key(trends'[Parent][n])].num > 0
    <2> SUFFICES ASSUME NEW i \in Items, NEW n \in At(Parent, i)'
                 PROVE  seen[Key(trends'[Parent][n])].num > 0
      OBVIOUS
    <2>1. i \in DOMAIN cache /\ cache[i].agg.num > 0 /\ trends'[Parent][n] = Copy(i)
      BY SyncArrays
    <2>2. Key(trends'[Parent][n]) = <<i, cache[i].type, cache[i].clock>>
      BY <2>1, CopyKey
    <2> QED
      BY <2>1, <2>2 DEF SeenAll
  <1>6. \A q \in Syncers : trends'[q] = trends[q] /\ \A i \in Items : At(q, i)' = At(q, i)
    <2>1. \A q \in Syncers : trends'[q] = trends[q]
      BY SyncArrays
    <2> QED
      BY <2>1 DEF At
  <1>7. ASSUME NEW q \in Procs, NEW i \in Items, NEW n \in At(q, i)'
        PROVE  seen'[Key(trends'[q][n])].num > 0
    <2>1. CASE q = Parent
      BY <1>1, <1>5, <2>1
    <2>2. CASE q \in Syncers
      <3>1. n \in At(q, i) /\ trends'[q] = trends[q]
        BY <1>6, <2>2
      <3> QED
        BY <1>1, <3>1 DEF SeenAll
    <2> QED
      BY <1>2, <2>1, <2>2
  <1>8. \A k \in Keys : HasRow(k)' => seen'[k].num > 0
    <2>1. \A k \in Keys : HasRow(k)' => HasRow(k)
      BY <1>1 DEF HasRow
    <2> QED
      BY <1>1, <2>1 DEF SeenAll
  <1>9. \A i \in DOMAIN cache' :
          /\ pc'[Parent] = "idle" => cache'[i].agg.num > 0
          /\ cache'[i].agg.num > 0 =>
               cache'[i].clock > 0 /\ seen'[<<i, cache'[i].type, cache'[i].clock>>].num > 0
    BY <1>3, <1>4
  <1> QED
    BY <1>7, <1>8, <1>9 DEF SeenAll

\* The rows that a step of p adds are those of pending trends.
RowsFrom(p) == \A k \in Keys : HasRow(k)' =>
                 HasRow(k) \/ (FlushInsert(p) /\ k \in KeysOf(p, Pending(p)))

LEMMA FlushRows ==
  ASSUME TrendTypes, NEW p \in Procs, Step(p)
  PROVE  RowsFrom(p)
  <1>1. CASE FlushProbe(p) \/ FlushCache(p)
    <2>1. rows' = rows /\ txn' = txn
      BY <1>1 DEF FlushProbe, FlushCache
    <2> QED
      BY <2>1 DEF RowsFrom, HasRow
  <1>2. CASE FlushMerge(p)
    BY <1>2, MergeRows DEF RowsFrom, NoNewRows
  <1>3. CASE FlushInsert(p)
    <2>1. /\ \A q \in Procs : q # p => txn'[q] = txn[q]
          /\ DOMAIN txn'[p] = DOMAIN txn[p] \cup KeysOf(p, Pending(p))
      BY <1>3, InsertMeans
    <2>2. rows' = rows
      BY <1>3 DEF FlushInsert
    <2> QED
      BY <1>3, <2>1, <2>2 DEF RowsFrom, HasRow
  <1>4. CASE Commit(p)
    BY <1>4, CommitRows DEF RowsFrom, NoNewRows
  <1> QED
    BY <1>1, <1>2, <1>3, <1>4 DEF Step

\* The key of a pending trend, and what the array says of it.
LEMMA PendingKey ==
  ASSUME TrendTypes, NEW p \in Procs, InCall(p), NEW k \in KeysOf(p, Pending(p))
  PROVE  \E n \in Pending(p) : n \in At(p, k[1]) /\ k[1] \in Items /\ k \in Keys
                               /\ k = Key(trends[p][n]) /\ k[2] = trends[p][n].type /\ k[3] = trends[p][n].clock
  <1>1. PICK n \in Pending(p) : k = Key(trends[p][n])
    BY DEF KeysOf
  <1>2. n \in DOMAIN trends[p] /\ trends[p][n].itemid # 0
    BY KeysOfTypes DEF Pending
  <1>3. trends[p][n].itemid \in Items /\ k \in Keys
    BY <1>1, <1>2, EntryTypes
  <1>4. k[1] = trends[p][n].itemid /\ k[2] = trends[p][n].type /\ k[3] = trends[p][n].clock
    BY <1>1 DEF Key
  <1> QED
    BY <1>1, <1>2, <1>3, <1>4 DEF At

LEMMA FlushSeenAll ==
  ASSUME TrendTypes, Owned, SeenAll, NEW p \in Procs, Step(p)
  PROVE  SeenAll'
  <1>1. seen' = seen
    BY DEF Step, FlushProbe, FlushMerge, FlushCache, FlushInsert, Commit
  <1>2. \A q \in Procs : \A i \in Items : \A n \in At(q, i)' :
          \E m \in At(q, i) : Key(trends'[q][n]) = Key(trends[q][m])
    <2>1. CASE FlushProbe(p)
      <3>1. /\ \A q \in Procs : q # p => trends'[q] = trends[q]
            /\ \A n \in DOMAIN trends[p] : Key(trends'[p][n]) = Key(trends[p][n])
            /\ \A q \in Procs : \A i \in Items : At(q, i)' = At(q, i)
        BY <2>1, ProbeKeeps
      <3>2. \A q \in Procs : \A i \in Items : At(q, i) \subseteq DOMAIN trends[q]
        BY DEF At
      <3> QED
        BY <3>1, <3>2
    <2>2. CASE FlushMerge(p)
      BY <2>2, MergeShrunk DEF Shrunk
    <2>3. CASE FlushCache(p) \/ Commit(p)
      <3>1. trends' = trends
        BY <2>3 DEF FlushCache, Commit
      <3> QED
        BY <3>1, SameShrunk DEF Shrunk
    <2>4. CASE FlushInsert(p)
      BY <2>4, InsertShrunk DEF Shrunk
    <2> QED
      BY <2>1, <2>2, <2>3, <2>4 DEF Step
  <1>3. \A q \in Procs : \A i \in Items : \A n \in At(q, i)' : seen'[Key(trends'[q][n])].num > 0
    BY <1>1, <1>2 DEF SeenAll
  <1>4. ASSUME NEW k \in Keys, HasRow(k)'
        PROVE  seen'[k].num > 0
    <2>1. CASE HasRow(k)
      BY <1>1, <2>1 DEF SeenAll
    <2>2. CASE FlushInsert(p) /\ k \in KeysOf(p, Pending(p))
      <3>1. InCall(p)
        BY <2>2 DEF FlushInsert, InCall
      <3>2. PICK n \in Pending(p) : n \in At(p, k[1]) /\ k[1] \in Items /\ k = Key(trends[p][n])
        BY <2>2, <3>1, PendingKey
      <3> QED
        BY <1>1, <3>2 DEF SeenAll
    <2> QED
      BY <1>4, <2>1, <2>2, FlushRows DEF RowsFrom
  <1>5. \A i \in DOMAIN cache' :
          /\ i \in DOMAIN cache /\ cache'[i].agg = cache[i].agg
          /\ cache'[i].clock = cache[i].clock /\ cache'[i].type = cache[i].type
    <2>1. CASE cache' = cache
      BY <2>1
    <2>2. CASE cache' = Empty
      BY <2>2, EmptyLaws
    <2>3. CASE FlushCache(p)
      <3> DEFINE known == {trends[p][n].itemid : n \in {m \in Pending(p) : KnownNew(trends[p][m])}}
      <3>1. cache' = [i \in DOMAIN cache |->
              IF i \in known THEN [cache[i] EXCEPT !.disable_from = NextFrom(call[p].clock)] ELSE cache[i]]
        BY <2>3 DEF FlushCache
      <3> HIDE DEF known
      <3>2. \A i \in DOMAIN cache : cache[i] \in CachedTrend
        BY DEF TrendTypes
      <3> QED
        BY <3>1, <3>2 DEF CachedTrend
    <2> QED
      BY <2>1, <2>2, <2>3 DEF Step, FlushProbe, FlushMerge, FlushInsert, Commit
  <1>6. \A i \in DOMAIN cache' : pc'[Parent] = "idle" => pc[Parent] = "idle"
    <2> SUFFICES ASSUME NEW i \in DOMAIN cache', pc'[Parent] = "idle", pc[Parent] # "idle" PROVE FALSE
      OBVIOUS
    <2>1. Parent \in Procs
      BY DEF Procs
    <2>2. p = Parent /\ Commit(p)
      BY <2>1, FlushPc DEF Step, Commit, TrendTypes
    <2>3. cache' = Empty
      BY <2>2 DEF Commit
    <2> QED
      BY <2>3, EmptyLaws
  <1>7. \A i \in DOMAIN cache' :
          /\ pc'[Parent] = "idle" => cache'[i].agg.num > 0
          /\ cache'[i].agg.num > 0 =>
               cache'[i].clock > 0 /\ seen'[<<i, cache'[i].type, cache'[i].clock>>].num > 0
    BY <1>1, <1>5, <1>6 DEF SeenAll
  <1> QED
    BY <1>3, <1>4, <1>7 DEF SeenAll

--------------------------------------------------------------------------------
(* What the cached trends know *)

LEMMA InitCacheSound == Init => CacheSound
  <1> SUFFICES ASSUME Init PROVE CacheSound
    OBVIOUS
  <1>1. DOMAIN cache = {} /\ DOMAIN rows = {} /\ \A p \in Procs : DOMAIN txn[p] = {}
    BY EmptyLaws DEF Init
  <1>2. \A k \in Keys : ~HasRow(k)
    BY <1>1 DEF HasRow
  <1> QED
    BY <1>1, <1>2 DEF CacheSound

\* A batch leaves what is known of an item.
LEMMA BatchDisableFrom ==
  ASSUME TrendTypes, NEW p \in Syncers, NEW b, NEW val, NEW out, Batch(p, b, val, out)
  PROVE  /\ DOMAIN cache \subseteq DOMAIN cache'
         /\ \A i \in DOMAIN cache : cache'[i].disable_from = cache[i].disable_from
         /\ \A i \in DOMAIN cache' : i \notin DOMAIN cache => cache'[i].disable_from = 0
  <1>1. \A i \in b : cache'[i].disable_from = DCget_trend(i).disable_from
    BY DEF Batch, DCadd_trend
  <1>2. /\ \A i \in DOMAIN cache : DCget_trend(i) = cache[i]
        /\ \A i : i \notin DOMAIN cache => DCget_trend(i).disable_from = 0
    BY DEF DCget_trend
  <1>3. /\ DOMAIN cache' = DOMAIN cache \cup b
        /\ \A i \in DOMAIN cache : i \notin b => cache'[i] = cache[i]
    BY DEF Batch
  <1> QED
    BY <1>1, <1>2, <1>3

LEMMA BatchCacheSound ==
  ASSUME TrendTypes, CacheSound, NEW p \in Syncers, DCmass_update_trends(p)
  PROVE  CacheSound' /\ (\A i \in Items : Excused(i) => Excused(i)') /\ (\A k \in Keys : HasRow(k)' <=> HasRow(k))
  <1>1. PICK b, val, out : Batch(p, b, val, out)
    BY BatchMeans
  <1>2. /\ pc[Parent] = "idle" /\ rows' = rows /\ txn' = txn /\ stops' = stops
    BY DEF DCmass_update_trends
  <1>3. \A k \in Keys : seen[k].num > 0 => seen'[k].num > 0
    BY <1>1, BatchSeen
  <1>4. \A i \in Items : Excused(i) => Excused(i)'
    <2>1. stops' >= stops /\ stops' \in Nat
      BY <1>2 DEF TrendTypes
    <2> QED
      BY <1>3, <2>1, ExcusedStays
  <1>5. \A k \in Keys : HasRow(k)' <=> HasRow(k)
    BY <1>2 DEF HasRow
  <1>6. /\ DOMAIN cache \subseteq DOMAIN cache'
        /\ \A i \in DOMAIN cache : cache'[i].disable_from = cache[i].disable_from
        /\ \A i \in DOMAIN cache' : i \notin DOMAIN cache => cache'[i].disable_from = 0
    BY <1>1, BatchDisableFrom
  <1>7. ASSUME NEW i \in DOMAIN cache', cache'[i].disable_from # 0
        PROVE  NoneFrom(i, cache[i].disable_from)'
    <2>1. i \in DOMAIN cache /\ i \in Items /\ cache'[i].disable_from = cache[i].disable_from
      BY <1>6, <1>7 DEF TrendTypes
    <2>2. NoneFrom(i, cache[i].disable_from)
      BY <1>2, <1>7, <2>1 DEF CacheSound
    <2> QED
      BY <1>4, <1>5, <2>1, <2>2 DEF NoneFrom
  <1>8. stops' = 0 => \A k \in Keys : HasRow(k)' => k[1] \in DOMAIN cache' /\ cache'[k[1]].disable_from # 0
    <2> SUFFICES ASSUME stops' = 0, NEW k \in Keys, HasRow(k)'
                 PROVE  k[1] \in DOMAIN cache' /\ cache'[k[1]].disable_from # 0
      OBVIOUS
    <2>1. k[1] \in DOMAIN cache /\ cache[k[1]].disable_from # 0
      BY <1>2, <1>5 DEF CacheSound
    <2> QED
      BY <1>6, <2>1
  <1>9. CacheSound'
    BY <1>7, <1>8 DEF CacheSound
  <1> QED
    BY <1>4, <1>5, <1>9

\* What update_cache does to the cached trends.
LEMMA CacheMeans ==
  ASSUME TrendTypes, NEW p \in Procs, FlushCache(p)
  PROVE  /\ DOMAIN cache' = DOMAIN cache
         /\ \A i \in DOMAIN cache :
              \/ /\ cache'[i] = cache[i]
                 /\ \A n \in Pending(p) : trends[p][n].itemid = i => ~KnownNew(trends[p][n])
              \/ /\ cache'[i].disable_from = call[p].clock + 1
                 /\ \E n \in Pending(p) : n \in At(p, i) /\ KnownNew(trends[p][n])
                                          /\ trends[p][n].clock = call[p].clock
  <1> DEFINE known == {trends[p][n].itemid : n \in {m \in Pending(p) : KnownNew(trends[p][m])}}
  <1>1. cache' = [i \in DOMAIN cache |->
             IF i \in known THEN [cache[i] EXCEPT !.disable_from = NextFrom(call[p].clock)] ELSE cache[i]]
    BY DEF FlushCache
  <1>2. \A i : i \in known <=> \E n \in Pending(p) : KnownNew(trends[p][n]) /\ trends[p][n].itemid = i
    OBVIOUS
  <1> HIDE DEF known
  <1>3. \A n \in Pending(p) : n \in DOMAIN trends[p] /\ trends[p][n].clock = call[p].clock
    <2>1. InCall(p)
      BY DEF FlushCache, InCall
    <2> QED
      BY <2>1, KeysOfTypes DEF Pending, Due
  <1>4. ASSUME NEW i \in DOMAIN cache
        PROVE  \/ /\ cache'[i] = cache[i]
                  /\ \A n \in Pending(p) : trends[p][n].itemid = i => ~KnownNew(trends[p][n])
               \/ /\ cache'[i].disable_from = call[p].clock + 1
                  /\ \E n \in Pending(p) : n \in At(p, i) /\ KnownNew(trends[p][n])
                                           /\ trends[p][n].clock = call[p].clock
    <2>1. CASE i \notin known
      BY <1>1, <1>2, <2>1
    <2>2. CASE i \in known
      <3>1. cache[i] \in CachedTrend
        BY DEF TrendTypes
      <3>2. cache'[i].disable_from = call[p].clock + 1
        BY <1>1, <2>2, <3>1 DEF CachedTrend, NextFrom
      <3>3. PICK n \in Pending(p) : KnownNew(trends[p][n]) /\ trends[p][n].itemid = i
        BY <1>2, <2>2
      <3> QED
        BY <1>3, <3>2, <3>3 DEF At
    <2> QED
      BY <2>1, <2>2
  <1> QED
    BY <1>1, <1>4

LEMMA FlushExcused ==
  ASSUME NEW p \in Procs, Step(p)
  PROVE  /\ \A i : Excused(i)' = Excused(i)
         /\ stops' = stops /\ seen' = seen
  <1>1. stops' = stops /\ seen' = seen
    BY DEF Step, FlushProbe, FlushMerge, FlushCache, FlushInsert, Commit
  <1> QED
    BY <1>1, SameExcused

LEMMA FlushCacheSound ==
  ASSUME TrendTypes, Owned, CacheSound, CopiesSound, CopiesAgree, PendingSound, NEW p \in Procs, Step(p)
  PROVE  CacheSound'
  <1> SUFFICES ASSUME pc'[Parent] = "idle"
               PROVE  /\ \A i \in DOMAIN cache' : cache'[i].disable_from # 0 => NoneFrom(i, cache[i].disable_from)'
                      /\ stops' = 0 => \A k \in Keys : HasRow(k)' =>
                           k[1] \in DOMAIN cache' /\ cache'[k[1]].disable_from # 0
    BY DEF CacheSound
  <1>1. (\A i : Excused(i)' = Excused(i)) /\ stops' = stops
    BY FlushExcused
  <1>2. Parent \in Procs /\ Parent \notin Syncers /\ Procs = Syncers \cup {Parent}
    BY TrendAssumption DEF Procs
  <1>3. CASE p = Parent
    <2>1. Commit(p)
      BY <1>3, FlushPc DEF Step
    <2>2. cache' = Empty
      BY <1>3, <2>1 DEF Commit
    <2>3. stops' # 0
      BY <1>1, <1>2, <1>3, <2>1 DEF Commit, Owned, TrendTypes
    <2> QED
      BY <2>2, <2>3, EmptyLaws
  <1>4. CASE p # Parent
    <2>1. p \in Syncers /\ pc[Parent] = "idle"
      BY <1>2, <1>4, FlushPc DEF Step, Commit, TrendTypes
    <2>2. /\ \A i \in DOMAIN cache : cache[i].disable_from # 0 => NoneFrom(i, cache[i].disable_from)
          /\ stops = 0 => \A k \in Keys : HasRow(k) => k[1] \in DOMAIN cache /\ cache[k[1]].disable_from # 0
      BY <2>1 DEF CacheSound
    <2>3. DOMAIN cache \subseteq Items
      BY DEF TrendTypes
    <2>4. CASE FlushProbe(p) \/ FlushMerge(p) \/ Commit(p)
      <3>1. cache' = cache
        BY <1>4, <2>4 DEF FlushProbe, FlushMerge, Commit
      <3>2. \A k \in Keys : HasRow(k)' => HasRow(k)
        <4>1. FlushProbe(p) => rows' = rows /\ txn' = txn
          BY DEF FlushProbe
        <4> QED
          BY <2>4, <4>1, MergeRows, CommitRows DEF NoNewRows, HasRow
      <3> QED
        BY <1>1, <2>2, <3>1, <3>2 DEF NoneFrom
    <2>5. CASE FlushCache(p)
      <3>1. \A k \in Keys : HasRow(k)' => HasRow(k)
        BY <2>5 DEF FlushCache, HasRow
      <3>2. ASSUME NEW i \in DOMAIN cache
            PROVE  /\ cache'[i].disable_from # 0 => NoneFrom(i, cache'[i].disable_from)
                   /\ cache[i].disable_from # 0 => cache'[i].disable_from # 0
        <4>1. CASE cache'[i] = cache[i]
          BY <2>2, <4>1
        <4>2. ASSUME cache'[i].disable_from = call[p].clock + 1,
                     \E n \in Pending(p) : n \in At(p, i) /\ KnownNew(trends[p][n])
                                           /\ trends[p][n].clock = call[p].clock
              PROVE  cache'[i].disable_from # 0 /\ NoneFrom(i, cache'[i].disable_from)
          <5>1. PICK n \in Pending(p) : n \in At(p, i) /\ KnownNew(trends[p][n])
                                        /\ trends[p][n].clock = call[p].clock
            BY <4>2
          <5>2. n \in DOMAIN trends[p]
            BY <5>1 DEF At
          <5>3. trends[p][n].clock \in 1 .. Hours /\ trends[p][n].disable_from \in 0 .. Hours + 1
            BY <5>2, EntryTypes
          <5>4. trends[p][n].disable_from # 0 /\ trends[p][n].disable_from <= trends[p][n].clock
            BY <5>1 DEF KnownNew
          <5>5. NoneFrom(i, trends[p][n].disable_from)
            BY <2>3, <5>1, <5>4 DEF CopiesSound
          <5>6. \A k \in Keys : k[3] \in Nat
            BY DEF Keys
          <5>7. \A k \in Keys : k[3] < trends[p][n].disable_from => k[3] < cache'[i].disable_from
            BY <4>2, <5>1, <5>3, <5>4, <5>6
          <5>8. cache'[i].disable_from # 0
            BY <4>2, <5>1, <5>3
          <5> QED
            BY <5>5, <5>7, <5>8 DEF NoneFrom
        <4> QED
          BY <2>5, <4>1, <4>2, CacheMeans
      <3>3. DOMAIN cache' = DOMAIN cache
        BY <2>5, CacheMeans
      <3>4. ASSUME NEW i \in DOMAIN cache', cache'[i].disable_from # 0
            PROVE  NoneFrom(i, cache[i].disable_from)'
        <4>1. NoneFrom(i, cache'[i].disable_from)
          BY <3>2, <3>3, <3>4
        <4> QED
          BY <1>1, <3>1, <4>1 DEF NoneFrom
      <3> QED
        BY <1>1, <2>2, <3>1, <3>2, <3>3, <3>4
    <2>6. CASE FlushInsert(p)
      <3>1. cache' = cache /\ pc[p] = "insert" /\ InCall(p)
        BY <2>6 DEF FlushInsert, InCall
      <3>2. \A k \in Keys : HasRow(k)' => HasRow(k) \/ k \in KeysOf(p, Pending(p))
        BY <2>6, FlushRows DEF Step, RowsFrom
      <3>3. ASSUME NEW k \in KeysOf(p, Pending(p))
            PROVE  /\ k[1] \in DOMAIN cache
                   /\ cache[k[1]].disable_from # 0 => k[3] < cache[k[1]].disable_from
                   /\ stops = 0 => cache[k[1]].disable_from # 0
        <4>1. PICK n \in Pending(p) : n \in At(p, k[1]) /\ k[1] \in Items /\ k[3] = trends[p][n].clock
          BY <3>1, PendingKey
        <4>2. n \in DOMAIN trends[p]
          BY <4>1 DEF At
        <4>3. trends[p][n].clock \in 1 .. Hours /\ trends[p][n].disable_from \in 0 .. Hours + 1
          BY <4>2, EntryTypes
        <4>4. /\ k[1] \in DOMAIN cache
              /\ trends[p][n].disable_from = 0 => cache[k[1]].disable_from = 0
              /\ trends[p][n].disable_from > trends[p][n].clock =>
                   cache[k[1]].disable_from = trends[p][n].disable_from
              /\ KnownNew(trends[p][n]) => cache[k[1]].disable_from = trends[p][n].clock + 1
          BY <2>1, <3>1, <4>1 DEF CopiesAgree
        <4>5. stops = 0 => trends[p][n].disable_from # 0
          BY <3>1, <4>1 DEF PendingSound
        <4>6. CASE trends[p][n].disable_from = 0
          BY <4>4, <4>5, <4>6
        <4>7. CASE trends[p][n].disable_from > trends[p][n].clock
          BY <4>1, <4>3, <4>4, <4>7
        <4>8. CASE KnownNew(trends[p][n])
          BY <4>1, <4>3, <4>4, <4>8
        <4> QED
          BY <4>3, <4>6, <4>7, <4>8 DEF KnownNew
      <3>4. ASSUME NEW i \in DOMAIN cache', cache'[i].disable_from # 0
            PROVE  NoneFrom(i, cache[i].disable_from)'
        <4>1. NoneFrom(i, cache[i].disable_from)
          BY <2>2, <3>1, <3>4
        <4> QED
          BY <1>1, <3>1, <3>2, <3>3, <3>4, <4>1 DEF NoneFrom
      <3>5. stops' = 0 => \A k \in Keys : HasRow(k)' => k[1] \in DOMAIN cache' /\ cache'[k[1]].disable_from # 0
        BY <1>1, <2>2, <3>1, <3>2, <3>3
      <3> QED
        BY <3>4, <3>5
    <2> QED
      BY <2>4, <2>5, <2>6 DEF Step
  <1> QED
    BY <1>3, <1>4

--------------------------------------------------------------------------------
(* What the copies know *)

\* The rows of the items of a batch are those the syncer sees.
LEMMA OwnRows ==
  ASSUME TrendTypes, Owned, NEW p \in Procs, pc[p] # "idle", NEW i \in Items, NEW n \in At(p, i),
         NEW k \in Keys, HasRow(k), k[1] = i
  PROVE  k \in DOMAIN Visible(p)
  <1>1. DOMAIN Visible(p) = DOMAIN rows \cup DOMAIN txn[p]
    BY OverrideLaws DEF Visible
  <1>2. Parent \in Procs /\ Parent \notin Syncers /\ Procs = Syncers \cup {Parent}
    BY TrendAssumption DEF Procs
  <1>3. ASSUME NEW q \in Procs, q # p, k \in DOMAIN txn[q]
        PROVE  FALSE
    <2>1. pc[q] # "idle"
      BY <1>3 DEF Owned
    <2>2. p \in Syncers /\ q \in Syncers
      BY <1>2, <1>3, <2>1 DEF Owned
    <2>3. i \in busy[p] /\ i \in busy[q]
      BY <1>3, <2>2 DEF Owned
    <2> QED
      BY <1>3, <2>3 DEF Owned
  <1> QED
    BY <1>1, <1>3 DEF HasRow

LEMMA InitCopies == Init => CopiesSound /\ CopiesAgree /\ PendingSound
  <1> SUFFICES ASSUME Init PROVE CopiesSound /\ CopiesAgree /\ PendingSound
    OBVIOUS
  <1>1. \A p \in Procs : DOMAIN trends[p] = {} /\ ~InCall(p)
    BY DEF Init, InCall
  <1>2. \A p \in Procs : \A i \in Items : At(p, i) = {}
    BY <1>1 DEF At
  <1>3. Syncers \subseteq Procs
    BY DEF Procs
  <1> QED
    BY <1>1, <1>2, <1>3 DEF CopiesSound, CopiesAgree, PendingSound

LEMMA BatchCopiesSound ==
  ASSUME TrendTypes, CacheSound, CopiesSound, NEW p \in Syncers, DCmass_update_trends(p)
  PROVE  CopiesSound'
  <1>1. PICK b, val, out : Batch(p, b, val, out)
    BY BatchMeans
  <1>2. (\A i \in Items : Excused(i) => Excused(i)') /\ (\A k \in Keys : HasRow(k)' <=> HasRow(k))
    BY BatchCacheSound
  <1>3. pc[Parent] = "idle"
    BY DEF DCmass_update_trends
  <1>4. ASSUME NEW q \in Procs, NEW i \in Items, NEW n \in At(q, i)', trends'[q][n].disable_from # 0
        PROVE  NoneFrom(i, trends[q][n].disable_from)'
    <2>1. NoneFrom(i, trends'[q][n].disable_from)
      <3>1. CASE q = p
        <4>1. i \in DOMAIN cache /\ trends'[p][n] = Copy(i)
          BY <1>1, <3>1, BatchArrays
        <4>2. trends'[q][n].disable_from = cache[i].disable_from
          BY <3>1, <4>1, CopyKey
        <4> QED
          BY <1>3, <1>4, <4>1, <4>2 DEF CacheSound
      <3>2. CASE q # p
        <4>1. trends'[q] = trends[q]
          BY <1>1, <3>2, BatchArrays
        <4>2. n \in At(q, i)
          BY <4>1 DEF At
        <4> QED
          BY <1>4, <4>1, <4>2 DEF CopiesSound
      <3> QED
        BY <3>1, <3>2
    <2> QED
      BY <1>2, <2>1 DEF NoneFrom
  <1> QED
    BY <1>4 DEF CopiesSound

LEMMA SyncCopiesSound ==
  ASSUME TrendTypes, SeenAll, CacheSound, CopiesSound, DCsync_trends
  PROVE  CopiesSound' /\ (\A i \in Items : Excused(i) => Excused(i)')
  <1>1. /\ \A p \in Procs : pc[p] = "idle"
        /\ rows' = rows /\ txn' = txn /\ seen' = seen /\ stops' = stops + 1
    BY DEF DCsync_trends
  <1>2. Parent \in Procs /\ Parent \notin Syncers /\ Procs = Syncers \cup {Parent}
    BY TrendAssumption DEF Procs
  <1>3. \A k \in Keys : HasRow(k)' => HasRow(k)
    BY <1>1 DEF HasRow
  <1>4. \A i \in Items : Excused(i) => Excused(i)'
    <2>1. stops' >= stops /\ stops' \in Nat
      BY <1>1 DEF TrendTypes
    <2>2. \A k \in Keys : seen[k].num > 0 => seen'[k].num > 0
      BY <1>1
    <2> QED
      BY <2>1, <2>2, ExcusedStays
  <1>5. ASSUME NEW q \in Procs, NEW i \in Items, NEW n \in At(q, i)', trends'[q][n].disable_from # 0
        PROVE  NoneFrom(i, trends[q][n].disable_from)'
    <2>1. NoneFrom(i, trends'[q][n].disable_from)
      <3>1. CASE q = Parent
        <4>1. i \in DOMAIN cache /\ trends'[Parent][n] = Copy(i)
          BY <3>1, SyncArrays
        <4>2. trends'[q][n].disable_from = cache[i].disable_from
          BY <3>1, <4>1, CopyKey
        <4> QED
          BY <1>1, <1>2, <1>5, <4>1, <4>2 DEF CacheSound
      <3>2. CASE q \in Syncers
        <4>1. trends'[q] = trends[q]
          BY <3>2, SyncArrays
        <4>2. n \in At(q, i)
          BY <4>1 DEF At
        <4> QED
          BY <1>5, <4>1, <4>2 DEF CopiesSound
      <3> QED
        BY <1>2, <3>1, <3>2
    <2> QED
      BY <1>3, <1>4, <2>1 DEF NoneFrom
  <1>6. CopiesSound'
    BY <1>5 DEF CopiesSound
  <1> QED
    BY <1>4, <1>6

\* What the first query learns is true.
LEMMA ProbeLearns ==
  ASSUME TrendTypes, Owned, SeenAll, CacheSound, CopiesAgree, NEW p \in Procs, pc[p] # "idle",
         NEW i \in Items, NEW n \in At(p, i), trends[p][n].disable_from = 0
  PROVE  /\ stops = 0 => \A k \in Keys : HasRow(k) => k[1] # i
         /\ NewerRows(p, trends[p][n]) = {} => NoneFrom(i, trends[p][n].clock)
  <1>1. Parent \in Procs /\ Parent \notin Syncers /\ Procs = Syncers \cup {Parent}
    BY TrendAssumption DEF Procs
  <1>2. n \in DOMAIN trends[p] /\ trends[p][n].itemid = i
    BY DEF At
  <1>3. ASSUME stops = 0, NEW k \in Keys, HasRow(k), k[1] = i
        PROVE  FALSE
    <2>1. pc[Parent] = "idle" /\ p \in Syncers
      BY <1>1, <1>3 DEF Owned
    <2>2. cache[i].disable_from # 0
      BY <1>3, <2>1 DEF CacheSound
    <2>3. cache[i].disable_from = 0
      BY <2>1 DEF CopiesAgree
    <2> QED
      BY <2>2, <2>3
  <1>4. ASSUME NewerRows(p, trends[p][n]) = {}, NEW k \in Keys, HasRow(k), k[1] = i,
               ~(k[3] < trends[p][n].clock)
        PROVE  Excused(i)
    <2>1. k \in DOMAIN Visible(p)
      BY <1>4, OwnRows
    <2>2. k[3] \in 1 .. Hours /\ trends[p][n].clock \in 1 .. Hours /\ k[2] \in Tables
      BY <1>2, EntryTypes DEF Keys
    <2>3. k[3] >= trends[p][n].clock
      BY <1>4, <2>2
    <2>4. k[2] # trends[p][n].type
      BY <1>2, <1>4, <2>1, <2>3 DEF NewerRows
    <2>5. seen[k].num > 0 /\ seen[Key(trends[p][n])].num > 0
      BY <1>4 DEF SeenAll
    <2>6. k = <<i, k[2], k[3]>> /\ Key(trends[p][n]) = <<i, trends[p][n].type, trends[p][n].clock>>
      BY <1>2, <1>4 DEF Keys, Key
    <2>7. trends[p][n].type \in Tables
      BY <1>2, EntryTypes
    <2>8. Retyped(i)
      <3> DEFINE t == k[2]
                 u == trends[p][n].type
                 h == k[3]
                 g == trends[p][n].clock
      <3>1. t \in Tables /\ u \in Tables /\ t # u /\ h \in 1 .. Hours /\ g \in 1 .. Hours
        BY <2>2, <2>4, <2>7
      <3>2. seen[<<i, t, h>>].num > 0 /\ seen[<<i, u, g>>].num > 0
        BY <2>5, <2>6
      <3> HIDE DEF t, u, h, g
      <3> QED
        BY <3>1, <3>2 DEF Retyped
    <2>9. stops > 0
      BY <1>3, <1>4 DEF TrendTypes
    <2> QED
      BY <2>8, <2>9 DEF Excused
  <1> QED
    BY <1>3, <1>4 DEF NoneFrom

\* An entry after the first query: either as before or no longer unknown.
LEMMA ProbeEntry ==
  ASSUME TrendTypes, NEW p \in Procs, FlushProbe(p), NEW i \in Items, NEW n \in At(p, i)
  PROVE  \/ /\ trends'[p][n] = trends[p][n]
            /\ n \in Pending(p)' => trends[p][n].disable_from # 0 \/ NewerRows(p, trends[p][n]) # {}
         \/ /\ trends[p][n].disable_from = 0 /\ NewerRows(p, trends[p][n]) = {}
            /\ trends'[p][n].disable_from = trends[p][n].clock /\ trends'[p][n].clock = trends[p][n].clock
            /\ trends[p][n].clock \in 1 .. Hours
  <1>1. PICK h \in 1 .. Hours, t \in Tables, to \in 0 .. Len(trends[p]) :
           /\ call' = [call EXCEPT ![p] = [clock |-> h, type |-> t, to |-> to]]
           /\ trends' = [trends EXCEPT ![p] = [m \in DOMAIN trends[p] |-> Probed(p, m, h, t, to)]]
    BY ProbeMeans
  <1>2. n \in DOMAIN trends[p] /\ trends[p][n].itemid = i
    BY DEF At
  <1>3. trends'[p][n] = Probed(p, n, h, t, to) /\ call'[p] = [clock |-> h, type |-> t, to |-> to]
    BY <1>1, <1>2 DEF TrendTypes
  <1>4. trends[p][n] \in ArrayTrend
    BY <1>2, EntryTypes
  <1> DEFINE learns == /\ n <= to /\ trends[p][n].clock = h /\ trends[p][n].type = t
                       /\ trends[p][n].disable_from = 0 /\ NewerRows(p, trends[p][n]) = {}
  <1>5. CASE learns
    <2>1. trends'[p][n] = [trends[p][n] EXCEPT !.disable_from = h]
      BY <1>3, <1>5 DEF Probed
    <2>2. trends'[p][n].disable_from = h /\ trends'[p][n].clock = trends[p][n].clock
      BY <1>4, <2>1 DEF ArrayTrend
    <2> QED
      BY <1>5, <2>2
  <1>6. CASE ~learns
    <2>1. trends'[p][n] = trends[p][n]
      BY <1>3, <1>6 DEF Probed
    <2>2. n \in Pending(p)' => n <= to /\ trends[p][n].clock = h /\ trends[p][n].type = t
      BY <1>3, <2>1 DEF Pending, Due
    <2> QED
      BY <1>6, <2>1, <2>2
  <1> QED
    BY <1>5, <1>6

LEMMA ProbeCopiesSound ==
  ASSUME TrendTypes, Owned, SeenAll, CacheSound, CopiesSound, CopiesAgree, NEW p \in Procs, FlushProbe(p)
  PROVE  CopiesSound'
  <1>1. rows' = rows /\ txn' = txn /\ pc[p] # "idle"
    BY DEF FlushProbe
  <1>2. (\A k \in Keys : HasRow(k)' => HasRow(k)) /\ (\A i : Excused(i)' = Excused(i))
    BY <1>1, FlushExcused DEF HasRow, Step
  <1>3. /\ \A q \in Procs : q # p => trends'[q] = trends[q]
        /\ \A q \in Procs : \A i \in Items : At(q, i)' = At(q, i)
    BY ProbeKeeps
  <1>4. ASSUME NEW q \in Procs, NEW i \in Items, NEW n \in At(q, i), trends'[q][n].disable_from # 0
        PROVE  NoneFrom(i, trends'[q][n].disable_from)
    <2>1. CASE trends'[q][n] = trends[q][n]
      BY <1>4, <2>1 DEF CopiesSound
    <2>2. CASE trends'[q][n] # trends[q][n]
      <3>1. q = p
        BY <1>3, <2>2
      <3>2. /\ trends[p][n].disable_from = 0 /\ NewerRows(p, trends[p][n]) = {}
            /\ trends'[p][n].disable_from = trends[p][n].clock
        BY <2>2, <3>1, ProbeEntry
      <3>3. NoneFrom(i, trends[p][n].clock)
        BY <1>1, <3>1, <3>2, ProbeLearns
      <3> QED
        BY <3>1, <3>2, <3>3
    <2> QED
      BY <2>1, <2>2
  <1>5. ASSUME NEW q \in Procs, NEW i \in Items, NEW n \in At(q, i)', trends'[q][n].disable_from # 0
        PROVE  NoneFrom(i, trends[q][n].disable_from)'
    <2>1. NoneFrom(i, trends'[q][n].disable_from)
      BY <1>3, <1>4, <1>5
    <2> QED
      BY <1>2, <2>1 DEF NoneFrom
  <1> QED
    BY <1>5 DEF CopiesSound

LEMMA FlushCopiesSound ==
  ASSUME TrendTypes, Owned, SeenAll, CacheSound, CopiesSound, CopiesAgree, NEW p \in Procs, Step(p)
  PROVE  CopiesSound'
  <1>1. \A i : Excused(i)' = Excused(i)
    BY FlushExcused
  <1>2. CASE FlushProbe(p)
    BY <1>2, ProbeCopiesSound
  <1>3. CASE FlushMerge(p) \/ FlushCache(p) \/ Commit(p)
    <2>1. Shrunk
      <3>1. FlushCache(p) \/ Commit(p) => trends' = trends
        BY DEF FlushCache, Commit
      <3> QED
        BY <1>3, <3>1, MergeShrunk, SameShrunk
    <2>2. \A k \in Keys : HasRow(k)' => HasRow(k)
      <3>1. FlushCache(p) => rows' = rows /\ txn' = txn
        BY DEF FlushCache
      <3> QED
        BY <1>3, <3>1, MergeRows, CommitRows DEF NoNewRows, HasRow
    <2>3. ASSUME NEW q \in Procs, NEW i \in Items, NEW n \in At(q, i)', trends'[q][n].disable_from # 0
          PROVE  NoneFrom(i, trends[q][n].disable_from)'
      <3>1. PICK m \in At(q, i) : trends'[q][n] = trends[q][m]
        BY <2>1 DEF Shrunk
      <3>2. NoneFrom(i, trends'[q][n].disable_from)
        BY <2>3, <3>1 DEF CopiesSound
      <3> QED
        BY <1>1, <2>2, <3>2 DEF NoneFrom
    <2> QED
      BY <2>3 DEF CopiesSound
  <1>4. CASE FlushInsert(p)
    <2>1. InCall(p) /\ pc[p] # "idle" /\ \A q \in Procs : q # p => trends'[q] = trends[q]
      BY <1>4 DEF FlushInsert, InCall, TrendTypes
    <2>2. \A k \in Keys : HasRow(k)' => HasRow(k) \/ k \in KeysOf(p, Pending(p))
      BY <1>4, FlushRows DEF Step, RowsFrom
    <2>3. ASSUME NEW q \in Procs, NEW i \in Items, NEW n \in At(q, i)'
          PROVE  \A k \in KeysOf(p, Pending(p)) : k[1] # i
      <3> SUFFICES ASSUME NEW k \in KeysOf(p, Pending(p)), k[1] = i PROVE FALSE
        OBVIOUS
      <3>1. PICK l \in Pending(p) : l \in At(p, i)
        BY <2>1, PendingKey
      <3>2. CASE q = p
        <4>1. PICK m \in At(p, i) : m \notin Pending(p)
          BY <1>4, <3>2, InsertShrunk
        <4> QED
          BY <3>1, <4>1 DEF Owned
      <3>3. CASE q # p
        <4>1. n \in At(q, i)
          BY <2>1, <3>3 DEF At
        <4>2. Parent \in Procs /\ Parent \notin Syncers /\ Procs = Syncers \cup {Parent}
          BY TrendAssumption DEF Procs
        <4>3. pc[q] # "idle"
          BY <4>1 DEF Owned, At
        <4>4. p \in Syncers /\ q \in Syncers
          BY <2>1, <3>3, <4>2, <4>3 DEF Owned
        <4>5. i \in busy[p] /\ i \in busy[q]
          BY <3>1, <4>1, <4>4 DEF Owned
        <4> QED
          BY <3>3, <4>5 DEF Owned
      <3> QED
        BY <3>2, <3>3
    <2>4. ASSUME NEW q \in Procs, NEW i \in Items, NEW n \in At(q, i)', trends'[q][n].disable_from # 0
          PROVE  NoneFrom(i, trends[q][n].disable_from)'
      <3>1. PICK m \in At(q, i) : trends'[q][n] = trends[q][m]
        BY <1>4, InsertShrunk DEF Shrunk
      <3>2. NoneFrom(i, trends'[q][n].disable_from)
        BY <2>4, <3>1 DEF CopiesSound
      <3>3. \A k \in KeysOf(p, Pending(p)) : k[1] # i
        BY <2>3
      <3> QED
        BY <1>1, <2>2, <3>2, <3>3 DEF NoneFrom
    <2> QED
      BY <2>4 DEF CopiesSound
  <1> QED
    BY <1>2, <1>3, <1>4 DEF Step

--------------------------------------------------------------------------------
(* How copies and cached trends go together *)

LEMMA BatchCopiesAgree ==
  ASSUME TrendTypes, Owned, CopiesAgree, NEW p \in Syncers, DCmass_update_trends(p)
  PROVE  CopiesAgree'
  <1>1. PICK b, val, out : Batch(p, b, val, out)
    BY BatchMeans
  <1>2. pc' = [pc EXCEPT ![p] = "flush"] /\ call' = call /\ p \in Procs /\ Syncers \subseteq Procs
    BY DEF DCmass_update_trends, Procs
  <1>3. /\ DOMAIN cache \subseteq DOMAIN cache'
        /\ \A i \in DOMAIN cache : cache'[i].disable_from = cache[i].disable_from
    BY <1>1, BatchDisableFrom
  <1>4. ASSUME NEW q \in Syncers, NEW i \in Items, NEW n \in At(q, i)'
        PROVE  /\ i \in DOMAIN cache'
               /\ trends'[q][n].disable_from = 0 => cache'[i].disable_from = 0
               /\ trends'[q][n].disable_from > trends'[q][n].clock =>
                    cache'[i].disable_from = trends'[q][n].disable_from
               /\ pc'[q] = "insert" /\ n \in Pending(q)' /\ KnownNew(trends'[q][n]) =>
                    cache'[i].disable_from = trends'[q][n].clock + 1
    <2>1. CASE q = p
      <3>1. i \in DOMAIN cache /\ trends'[p][n] = Copy(i)
        BY <1>1, <2>1, BatchArrays
      <3>2. trends'[q][n].disable_from = cache[i].disable_from
        BY <2>1, <3>1, CopyKey
      <3>3. pc'[q] # "insert"
        BY <1>2, <2>1 DEF TrendTypes
      <3> QED
        BY <1>3, <3>1, <3>2, <3>3
    <2>2. CASE q # p
      <3>1. trends'[q] = trends[q] /\ pc'[q] = pc[q]
        BY <1>1, <1>2, <2>2, BatchArrays DEF TrendTypes
      <3>2. n \in At(q, i) /\ (n \in Pending(q)' <=> n \in Pending(q))
        BY <1>2, <3>1 DEF At, Pending
      <3> QED
        BY <1>3, <3>1, <3>2 DEF CopiesAgree
    <2> QED
      BY <2>1, <2>2
  <1> QED
    BY <1>4 DEF CopiesAgree

LEMMA SyncCopiesAgree ==
  ASSUME TrendTypes, Owned, SeenAll, DCsync_trends
  PROVE  CopiesAgree'
  <1>1. \A q \in Syncers : pc[q] = "idle" /\ q \in Procs
    BY DEF DCsync_trends, Procs
  <1>2. \A q \in Syncers : trends'[q] = <<>>
    BY <1>1, SyncArrays DEF Owned
  <1>3. \A q \in Syncers : \A i \in Items : At(q, i)' = {}
    BY <1>2 DEF At
  <1> QED
    BY <1>3 DEF CopiesAgree

LEMMA FlushCopiesAgree ==
  ASSUME TrendTypes, Owned, CopiesAgree, NEW p \in Procs, Step(p)
  PROVE  CopiesAgree'
  <1>1. Parent \in Procs /\ Parent \notin Syncers /\ Procs = Syncers \cup {Parent}
    BY TrendAssumption DEF Procs
  <1> SUFFICES ASSUME NEW q \in Syncers, NEW i \in Items, NEW n \in At(q, i)'
               PROVE  /\ i \in DOMAIN cache'
                      /\ trends'[q][n].disable_from = 0 => cache'[i].disable_from = 0
                      /\ trends'[q][n].disable_from > trends'[q][n].clock =>
                           cache'[i].disable_from = trends'[q][n].disable_from
                      /\ pc'[q] = "insert" /\ n \in Pending(q)' /\ KnownNew(trends'[q][n]) =>
                           cache'[i].disable_from = trends'[q][n].clock + 1
    BY DEF CopiesAgree
  <1>2. \A m \in At(q, i) :
          /\ i \in DOMAIN cache
          /\ trends[q][m].disable_from = 0 => cache[i].disable_from = 0
          /\ trends[q][m].disable_from > trends[q][m].clock => cache[i].disable_from = trends[q][m].disable_from
    BY DEF CopiesAgree
  <1>3. CASE FlushProbe(p)
    <2>1. cache' = cache
      BY <1>3 DEF FlushProbe
    <2>2. n \in At(q, i)
      BY <1>1, <1>3, ProbeKeeps
    <2>3. CASE q = p
      <3>1. pc'[q] # "insert"
        BY <1>1, <1>3, <2>3 DEF FlushProbe, TrendTypes
      <3>2. \/ trends'[p][n] = trends[p][n]
            \/ /\ trends'[p][n].disable_from = trends[p][n].clock /\ trends'[p][n].clock = trends[p][n].clock
               /\ trends[p][n].clock \in 1 .. Hours
        BY <1>3, <2>2, <2>3, ProbeEntry
      <3>3. CASE trends'[p][n] = trends[p][n]
        BY <1>2, <2>1, <2>2, <2>3, <3>1, <3>3
      <3>4. CASE /\ trends'[p][n].disable_from = trends[p][n].clock /\ trends'[p][n].clock = trends[p][n].clock
                 /\ trends[p][n].clock \in 1 .. Hours
        <4>1. trends'[q][n].disable_from # 0 /\ ~(trends'[q][n].disable_from > trends'[q][n].clock)
          BY <2>3, <3>4
        <4> QED
          BY <1>2, <2>1, <2>2, <3>1, <4>1
      <3> QED
        BY <3>2, <3>3, <3>4
    <2>4. CASE q # p
      <3>1. trends'[q] = trends[q] /\ call'[q] = call[q]
        BY <1>1, <1>3, <2>4, ProbeKeeps
      <3>2. pc'[q] = pc[q]
        BY <1>1, <1>3, <2>4, FlushPc
      <3>3. n \in Pending(q)' <=> n \in Pending(q)
        BY <3>1 DEF Pending
      <3> QED
        BY <2>1, <2>2, <3>1, <3>2, <3>3 DEF CopiesAgree
    <2> QED
      BY <2>3, <2>4
  <1>4. CASE FlushMerge(p) \/ FlushInsert(p)
    <2>1. cache' = cache /\ call' = call /\ \A r \in Procs : r # p => trends'[r] = trends[r]
      BY <1>4 DEF FlushMerge, FlushInsert, TrendTypes
    <2>2. CASE q = p
      <3>1. PICK m \in At(q, i) : trends'[q][n] = trends[q][m]
        BY <1>1, <1>4, MergeShrunk, InsertShrunk DEF Shrunk
      <3>2. pc'[q] # "insert"
        BY <1>1, <1>4, <2>2 DEF FlushMerge, FlushInsert, TrendTypes
      <3> QED
        BY <1>2, <2>1, <3>1, <3>2
    <2>3. CASE q # p
      <3>1. trends'[q] = trends[q]
        BY <1>1, <2>1, <2>3
      <3>2. pc'[q] = pc[q]
        BY <1>1, <1>4, <2>3, FlushPc
      <3>3. n \in At(q, i) /\ (n \in Pending(q)' <=> n \in Pending(q))
        BY <2>1, <3>1 DEF At, Pending
      <3> QED
        BY <2>1, <3>1, <3>2, <3>3 DEF CopiesAgree
    <2> QED
      BY <2>2, <2>3
  <1>5. CASE FlushCache(p)
    <2>1. trends' = trends /\ call' = call /\ pc[p] = "cache"
      BY <1>5 DEF FlushCache
    <2>2. n \in At(q, i) /\ (n \in Pending(q)' <=> n \in Pending(q))
      BY <2>1 DEF At, Pending
    <2>3. i \in DOMAIN cache /\ n \in DOMAIN trends[q]
      BY <1>2, <2>2 DEF At
    <2>4. i \in DOMAIN cache'
      BY <1>5, <2>3, CacheMeans
    <2>5. p \in Syncers
      BY <1>1, <2>1 DEF Owned
    <2>6. CASE /\ cache'[i] = cache[i]
               /\ \A m \in Pending(p) : trends[p][m].itemid = i => ~KnownNew(trends[p][m])
      <3>1. CASE q = p
        <4>1. n \in Pending(q) => ~KnownNew(trends[q][n])
          BY <2>2, <2>6, <3>1 DEF At
        <4> QED
          BY <1>2, <2>1, <2>2, <2>4, <2>6, <4>1
      <3>2. CASE q # p
        <4>1. pc'[q] = pc[q]
          BY <1>1, <1>5, <3>2, FlushPc
        <4> QED
          BY <2>1, <2>2, <2>4, <2>6, <4>1 DEF CopiesAgree
      <3> QED
        BY <3>1, <3>2
    <2>7. ASSUME cache'[i].disable_from = call[p].clock + 1,
                 \E m \in Pending(p) : m \in At(p, i) /\ KnownNew(trends[p][m])
                                       /\ trends[p][m].clock = call[p].clock
          PROVE  /\ trends[q][n].clock = call[p].clock /\ KnownNew(trends[q][n])
                 /\ cache'[i].disable_from = call[p].clock + 1
      <3>1. PICK m \in Pending(p) : m \in At(p, i) /\ KnownNew(trends[p][m])
                                    /\ trends[p][m].clock = call[p].clock
        BY <2>7
      <3>2. i \in busy[p] /\ i \in busy[q]
        BY <2>2, <2>5, <3>1 DEF Owned
      <3>3. q = p
        BY <1>1, <2>5, <3>2 DEF Owned
      <3>4. m = n
        BY <1>1, <2>2, <3>1, <3>3 DEF Owned
      <3> QED
        BY <2>7, <3>1, <3>3, <3>4
    <2>8. CASE cache'[i].disable_from = call[p].clock + 1 /\ trends[q][n].clock = call[p].clock /\ KnownNew(trends[q][n])
      <3>1. trends[q][n].clock \in 1 .. Hours /\ trends[q][n].disable_from \in 0 .. Hours + 1
        BY <1>1, <2>3, EntryTypes
      <3>2. trends[q][n].disable_from # 0 /\ ~(trends[q][n].disable_from > trends[q][n].clock)
        BY <2>8, <3>1 DEF KnownNew
      <3> QED
        BY <2>1, <2>4, <2>8, <3>2
    <2> QED
      BY <1>5, <2>3, <2>6, <2>7, <2>8, CacheMeans
  <1>6. CASE Commit(p)
    <2>1. trends' = trends /\ trends[p] = <<>> /\ pc[p] = "flush"
      BY <1>6 DEF Commit
    <2>2. n \in At(q, i)
      BY <2>1 DEF At
    <2>3. q # p
      BY <2>1, <2>2 DEF At
    <2>4. p # Parent
      BY <1>1, <2>1, <2>2 DEF Owned, At
    <2>5. cache' = cache
      BY <1>6, <2>4 DEF Commit
    <2>6. pc'[q] = pc[q] /\ call'[q] = call[q]
      BY <1>1, <1>6, <2>3 DEF Commit, TrendTypes
    <2>7. n \in Pending(q)' <=> n \in Pending(q)
      BY <2>1, <2>6 DEF Pending
    <2> QED
      BY <2>1, <2>2, <2>5, <2>6, <2>7 DEF CopiesAgree
  <1> QED
    BY <1>3, <1>4, <1>5, <1>6 DEF Step

--------------------------------------------------------------------------------
(* The trends of a call *)

\* A step of another process leaves what is pending as it is.
LEMMA PendingStays ==
  ASSUME TrendTypes, PendingSound, NEW q \in Procs,
         trends'[q] = trends[q], call'[q] = call[q], pc'[q] = pc[q],
         stops' = stops, \A i \in Items : Excused(i) => Excused(i)',
         InCall(q), \A n \in Pending(q) : Key(trends[q][n]) \in DOMAIN Visible(q)' => Key(trends[q][n]) \in DOMAIN Visible(q)
  PROVE  \A n \in Pending(q)' :
           /\ stops' = 0 => trends'[q][n].disable_from # 0
           /\ pc'[q] # "merge" => Key(trends'[q][n]) \notin DOMAIN Visible(q)' \/ Excused(trends[q][n].itemid)'
  <1>1. Pending(q)' = Pending(q)
    BY DEF Pending
  <1>2. \A n \in Pending(q) : trends[q][n].itemid \in Items
    <2>1. \A n \in Pending(q) : n \in DOMAIN trends[q] /\ trends[q][n].itemid # 0
      BY KeysOfTypes DEF Pending
    <2> QED
      BY <2>1, EntryTypes
  <1>3. ASSUME NEW n \in Pending(q)
        PROVE  /\ stops' = 0 => trends'[q][n].disable_from # 0
               /\ pc'[q] # "merge" => Key(trends'[q][n]) \notin DOMAIN Visible(q)' \/ Excused(trends'[q][n].itemid)
    <2>1. /\ stops = 0 => trends[q][n].disable_from # 0
          /\ pc[q] # "merge" => Key(trends[q][n]) \notin DOMAIN Visible(q) \/ Excused(trends[q][n].itemid)
      BY DEF PendingSound
    <2> QED
      BY <2>1
  <1>4. ASSUME NEW n \in Pending(q)
        PROVE  Excused(trends'[q][n].itemid) => Excused(trends[q][n].itemid)'
    <2>1. trends'[q][n].itemid \in Items
      BY <1>2
    <2> DEFINE j == trends'[q][n].itemid
    <2>2. Excused(j) => Excused(trends[q][n].itemid)'
      BY <2>1
    <2> QED
      BY <2>2
  <1> QED
    BY <1>1, <1>3, <1>4

LEMMA BatchPending ==
  ASSUME TrendTypes, CacheSound, PendingSound, NEW p \in Syncers, DCmass_update_trends(p)
  PROVE  PendingSound'
  <1>1. PICK b, val, out : Batch(p, b, val, out)
    BY BatchMeans
  <1>2. /\ pc' = [pc EXCEPT ![p] = "flush"] /\ call' = call /\ txn' = txn /\ rows' = rows /\ stops' = stops
    BY DEF DCmass_update_trends
  <1>3. \A i \in Items : Excused(i) => Excused(i)'
    BY BatchCacheSound
  <1>4. ASSUME NEW q \in Procs, InCall(q)'
        PROVE  \A n \in Pending(q)' :
                 /\ stops' = 0 => trends'[q][n].disable_from # 0
                 /\ pc'[q] # "merge" => Key(trends'[q][n]) \notin DOMAIN Visible(q)' \/ Excused(trends[q][n].itemid)'
    <2>1. q # p /\ pc'[q] = pc[q] /\ InCall(q)
      BY <1>2, <1>4 DEF InCall, TrendTypes
    <2>2. trends'[q] = trends[q]
      BY <1>1, <2>1, BatchArrays
    <2>3. Visible(q)' = Visible(q)
      BY <1>2 DEF Visible
    <2> QED
      BY <1>2, <1>3, <2>1, <2>2, <2>3, PendingStays
  <1> QED
    BY <1>4 DEF PendingSound

LEMMA SyncPending ==
  ASSUME TrendTypes, DCsync_trends
  PROVE  PendingSound'
  <1>1. \A q \in Procs : ~InCall(q)'
    BY DEF DCsync_trends, InCall, TrendTypes
  <1> QED
    BY <1>1 DEF PendingSound

\* Another process's step leaves the rows of the items of a call as they are.
LEMMA OthersRows ==
  ASSUME TrendTypes, Owned, NEW p \in Procs, Step(p), NEW q \in Procs, q # p, InCall(q)
  PROVE  /\ pc'[q] = pc[q] /\ trends'[q] = trends[q] /\ call'[q] = call[q]
         /\ \A n \in Pending(q) : Key(trends[q][n]) \in DOMAIN Visible(q)' => Key(trends[q][n]) \in DOMAIN Visible(q)
  <1>1. /\ DOMAIN Visible(q) = DOMAIN rows \cup DOMAIN txn[q]
        /\ DOMAIN Visible(q)' = DOMAIN rows' \cup DOMAIN txn'[q]
    BY OverrideLaws DEF Visible
  <1>2. CASE FlushProbe(p) \/ FlushMerge(p) \/ FlushCache(p) \/ FlushInsert(p)
    <2>1. pc'[q] = pc[q] /\ rows' = rows
      BY <1>2, FlushPc
    <2>2. trends'[q] = trends[q] /\ call'[q] = call[q]
      <3>1. FlushProbe(p) => trends'[q] = trends[q] /\ call'[q] = call[q]
        BY ProbeKeeps
      <3> QED
        BY <1>2, <3>1 DEF FlushMerge, FlushCache, FlushInsert, TrendTypes
    <2>3. txn'[q] = txn[q]
      <3>1. FlushProbe(p) \/ FlushCache(p) => txn' = txn
        BY DEF FlushProbe, FlushCache
      <3>2. FlushMerge(p) => txn'[q] = txn[q]
        BY MergeMeans
      <3>3. FlushInsert(p) => txn'[q] = txn[q]
        BY InsertMeans
      <3> QED
        BY <1>2, <3>1, <3>2, <3>3
    <2> QED
      BY <1>1, <2>1, <2>2, <2>3
  <1>3. CASE Commit(p)
    <2>1. pc'[q] = pc[q] /\ trends' = trends /\ call'[q] = call[q] /\ pc[p] = "flush"
      BY <1>3 DEF Commit, TrendTypes
    <2>2. DOMAIN rows' \subseteq DOMAIN rows \cup DOMAIN txn[p] /\ txn'[q] = txn[q]
      BY <1>3, CommitRows
    <2>3. ASSUME NEW n \in Pending(q), Key(trends[q][n]) \in DOMAIN txn[p]
          PROVE  FALSE
      <3>1. Parent \in Procs /\ Parent \notin Syncers /\ Procs = Syncers \cup {Parent}
        BY TrendAssumption DEF Procs
      <3>2. p \in Syncers /\ q \in Syncers
        BY <2>1, <3>1 DEF Owned, InCall
      <3>3. Key(trends[q][n]) \in KeysOf(q, Pending(q))
        BY DEF KeysOf
      <3>4. Key(trends[q][n])[1] \in busy[q]
        BY <3>2, <3>3, KeysOfOwned
      <3>5. Key(trends[q][n])[1] \in busy[p]
        BY <2>3, <3>2 DEF Owned
      <3> QED
        BY <3>4, <3>5 DEF Owned
    <2> QED
      BY <1>1, <2>1, <2>2, <2>3
  <1> QED
    BY <1>2, <1>3 DEF Step

LEMMA FlushPending ==
  ASSUME TrendTypes, Owned, SeenAll, CacheSound, CopiesSound, CopiesAgree, PendingSound, NEW p \in Procs, Step(p)
  PROVE  PendingSound'
  <1>1. (\A i : Excused(i)' = Excused(i)) /\ stops' = stops
    BY FlushExcused
  <1>2. ASSUME NEW q \in Procs, q # p, InCall(q)'
        PROVE  \A n \in Pending(q)' :
                 /\ stops' = 0 => trends'[q][n].disable_from # 0
                 /\ pc'[q] # "merge" => Key(trends'[q][n]) \notin DOMAIN Visible(q)' \/ Excused(trends[q][n].itemid)'
    <2>1. pc'[q] = pc[q]
      BY <1>2, FlushPc DEF Step, Commit, TrendTypes
    <2>2. InCall(q)
      BY <1>2, <2>1 DEF InCall
    <2>3. /\ trends'[q] = trends[q] /\ call'[q] = call[q]
          /\ \A n \in Pending(q) : Key(trends[q][n]) \in DOMAIN Visible(q)' => Key(trends[q][n]) \in DOMAIN Visible(q)
      BY <1>2, <2>2, OthersRows
    <2>4. \A i \in Items : Excused(i) => Excused(i)'
      BY <1>1
    <2> QED
      BY <1>1, <2>1, <2>2, <2>3, <2>4, PendingStays
  <1>3. ASSUME InCall(p)', NEW n \in Pending(p)'
        PROVE  /\ stops' = 0 => trends'[p][n].disable_from # 0
               /\ pc'[p] # "merge" => Key(trends'[p][n]) \notin DOMAIN Visible(p)' \/ Excused(trends[p][n].itemid)'
    <2>1. CASE FlushProbe(p)
      <3>1. pc'[p] = "merge" /\ pc[p] # "idle"
        BY <2>1 DEF FlushProbe, TrendTypes
      <3>2. TrendTypes'
        BY <2>1, ProbeTypes
      <3>3. n \in DOMAIN trends'[p] /\ trends'[p][n].itemid # 0
        <4>1. trends'[p] \in Seq(ArrayTrend) /\ call'[p].to \in Nat /\ call'[p].to <= Len(trends'[p])
          BY <1>3, <3>2 DEF TrendTypes
        <4> QED
          BY <4>1 DEF Pending
      <3> DEFINE i == trends[p][n].itemid
      <3>4. n \in DOMAIN trends[p] /\ i = trends'[p][n].itemid
        BY <2>1, <3>3, ProbeKeeps
      <3>5. i \in Items
        BY <3>3, <3>4, EntryTypes
      <3>6. n \in At(p, i)
        BY <3>4 DEF At
      <3> HIDE DEF i
      <3>7. ASSUME stops = 0, trends'[p][n].disable_from = 0
            PROVE  FALSE
        <4>1. trends'[p][n] = trends[p][n] /\ NewerRows(p, trends[p][n]) # {}
          BY <1>3, <2>1, <3>5, <3>6, <3>7, ProbeEntry
        <4>2. \A k \in Keys : HasRow(k) => k[1] # i
          BY <3>1, <3>5, <3>6, <3>7, <4>1, ProbeLearns
        <4>3. PICK k \in DOMAIN Visible(p) : k[1] = trends[p][n].itemid
          BY <4>1 DEF NewerRows
        <4>4. DOMAIN Visible(p) = DOMAIN rows \cup DOMAIN txn[p]
          BY OverrideLaws DEF Visible
        <4>5. k \in Keys /\ HasRow(k)
          BY <4>3, <4>4 DEF HasRow, TrendTypes
        <4> QED
          BY <4>2, <4>3, <4>5 DEF i
      <3> QED
        BY <1>1, <3>1, <3>7
    <2>2. CASE FlushMerge(p)
      <3>1. InCall(p) /\ call' = call
        BY <2>2 DEF FlushMerge, InCall
      <3>2. TrendTypes'
        BY <2>2, MergeTypes
      <3>3. n \in DOMAIN trends'[p] /\ trends'[p][n].itemid # 0
        <4>1. trends'[p] \in Seq(ArrayTrend) /\ call'[p].to \in Nat /\ call'[p].to <= Len(trends'[p])
          BY <1>3, <3>2 DEF TrendTypes
        <4> QED
          BY <4>1 DEF Pending
      <3>4. PICK i \in Items : trends'[p][n].itemid = i
        <4>1. trends'[p] \in Seq(ArrayTrend)
          BY <3>2 DEF TrendTypes
        <4>2. trends'[p][n] \in ArrayTrend
          BY <3>3, <4>1
        <4> QED
          BY <3>3, <4>2 DEF ArrayTrend
      <3>5. n \in At(p, i)'
        BY <3>3, <3>4 DEF At
      <3>6. n \in At(p, i) /\ n \notin Found(p) /\ trends'[p][n] = trends[p][n]
        BY <2>2, <3>4, <3>5, MergeShrunk
      <3>7. n \in Pending(p)
        BY <3>1, <3>6 DEF Pending
      <3>8. stops = 0 => trends[p][n].disable_from # 0
        BY <3>1, <3>7 DEF PendingSound
      <3>9. DOMAIN Visible(p)' = DOMAIN Visible(p)
        BY <2>2, MergeRows
      <3>10. ASSUME Key(trends[p][n]) \in DOMAIN Visible(p)
             PROVE  Excused(i)
        <4>1. KnownNew(trends[p][n])
          BY <3>7, <3>6, <3>10 DEF Found
        <4>2. NoneFrom(i, trends[p][n].disable_from) /\ trends[p][n].disable_from <= trends[p][n].clock
          BY <3>4, <3>6, <4>1 DEF CopiesSound, KnownNew
        <4>3. n \in DOMAIN trends[p] /\ trends[p][n].itemid = i
          BY <3>6 DEF At
        <4>4. Key(trends[p][n]) \in Keys
          BY <3>4, <4>3, EntryTypes
        <4>5. DOMAIN Visible(p) = DOMAIN rows \cup DOMAIN txn[p]
          BY OverrideLaws DEF Visible
        <4>6. HasRow(Key(trends[p][n]))
          BY <3>10, <4>5 DEF HasRow
        <4>7. Key(trends[p][n])[1] = i /\ Key(trends[p][n])[3] = trends[p][n].clock
          BY <4>3 DEF Key
        <4>8. trends[p][n].clock \in 1 .. Hours /\ trends[p][n].disable_from \in 0 .. Hours + 1
          BY <4>3, EntryTypes
        <4>9. trends[p][n].clock < trends[p][n].disable_from \/ Excused(i)
          BY <4>2, <4>4, <4>6, <4>7 DEF NoneFrom
        <4>10. ~(trends[p][n].clock < trends[p][n].disable_from)
          BY <4>2, <4>8, TrendAssumption
        <4> QED
          BY <4>9, <4>10
      <3>11. Excused(i) => Excused(trends[p][n].itemid)'
        <4>1. \A j : Excused(j) = Excused(j)'
          BY <1>1
        <4>2. Excused(i)' = Excused(trends[p][n].itemid)'
          BY <3>4
        <4> QED
          BY <4>1, <4>2
      <3> QED
        BY <1>1, <3>6, <3>8, <3>9, <3>10, <3>11
    <2>3. CASE FlushCache(p)
      <3>1. /\ InCall(p) /\ call' = call /\ trends' = trends /\ rows' = rows /\ txn' = txn /\ pc[p] # "merge"
        BY <2>3 DEF FlushCache, InCall
      <3>2. n \in Pending(p) /\ Visible(p)' = Visible(p)
        BY <3>1 DEF Pending, Visible
      <3>3. /\ stops = 0 => trends[p][n].disable_from # 0
            /\ Key(trends[p][n]) \notin DOMAIN Visible(p) \/ Excused(trends[p][n].itemid)
        BY <3>1, <3>2 DEF PendingSound
      <3>4. Excused(trends[p][n].itemid) => Excused(trends[p][n].itemid)'
        BY <1>1, <3>1
      <3> QED
        BY <1>1, <3>1, <3>2, <3>3, <3>4
    <2>4. CASE FlushInsert(p) \/ Commit(p)
      BY <1>3, <2>4 DEF FlushInsert, Commit, InCall, TrendTypes
    <2> QED
      BY <2>1, <2>2, <2>3, <2>4 DEF Step
  <1>4. ASSUME NEW q \in Procs, InCall(q)'
        PROVE  \A n \in Pending(q)' :
                 /\ stops' = 0 => trends'[q][n].disable_from # 0
                 /\ pc'[q] # "merge" => Key(trends'[q][n]) \notin DOMAIN Visible(q)' \/ Excused(trends[q][n].itemid)'
    BY <1>2, <1>3, <1>4
  <1> QED
    BY <1>4 DEF PendingSound

--------------------------------------------------------------------------------
(* The theorem *)

LEMMA StepNoKeyClash ==
  ASSUME TrendTypes, PendingSound, clash \subseteq Items, NoKeyClash, NEW p \in Procs, Step(p)
  PROVE  clash' \subseteq Items /\ NoKeyClash'
  <1>1. (\A i : Excused(i)' = Excused(i)) /\ \A i \in clash : Excused(i)
    BY FlushExcused DEF NoKeyClash, Excused
  <1>2. CASE FlushInsert(p)
    <2>1. clash' = clash \cup {k[1] : k \in KeysOf(p, Pending(p)) \cap DOMAIN Visible(p)}
      BY <1>2, InsertMeans
    <2>2. InCall(p) /\ pc[p] # "merge"
      BY <1>2 DEF FlushInsert, InCall
    <2>3. ASSUME NEW k \in KeysOf(p, Pending(p)), k \in DOMAIN Visible(p)
          PROVE  k[1] \in Items /\ Excused(k[1])
      <3>1. PICK n \in Pending(p) : n \in At(p, k[1]) /\ k[1] \in Items /\ k = Key(trends[p][n])
        BY <2>2, PendingKey
      <3>2. trends[p][n].itemid = k[1]
        BY <3>1 DEF At
      <3> QED
        BY <2>2, <2>3, <3>1, <3>2 DEF PendingSound
    <2> QED
      BY <1>1, <2>1, <2>3 DEF NoKeyClash, Excused
  <1>3. CASE ~FlushInsert(p)
    <2>1. clash' = clash
      BY <1>3 DEF Step, FlushProbe, FlushMerge, FlushCache, Commit
    <2> QED
      BY <1>1, <2>1 DEF NoKeyClash, Excused
  <1> QED
    BY <1>2, <1>3

LEMMA KeysStep == KeysIInv /\ [Next]_vars => KeysIInv'
  <1> SUFFICES ASSUME KeysIInv, [Next]_vars PROVE KeysIInv'
    OBVIOUS
  <1> USE DEF KeysIInv
  <1>1. ASSUME NEW p \in Syncers, DCmass_update_trends(p)
        PROVE  KeysIInv'
    <2>1. TrendTypes' /\ Owned' /\ SeenAll'
      BY <1>1, BatchTypes, BatchOwned, BatchSeenAll
    <2>2. CacheSound' /\ CopiesSound' /\ CopiesAgree' /\ PendingSound'
      BY <1>1, BatchCacheSound, BatchCopiesSound, BatchCopiesAgree, BatchPending
    <2>3. clash' \subseteq Items /\ NoKeyClash'
      <3>1. clash' = clash
        BY <1>1 DEF DCmass_update_trends
      <3>2. \A i \in Items : Excused(i) => Excused(i)'
        BY <1>1, BatchCacheSound
      <3> QED
        BY <3>1, <3>2 DEF NoKeyClash, Excused
    <2> QED
      BY <2>1, <2>2, <2>3
  <1>2. ASSUME DCsync_trends
        PROVE  KeysIInv'
    <2>1. TrendTypes' /\ Owned' /\ SeenAll'
      BY <1>2, SyncTypes, SyncOwned, SyncSeenAll
    <2>2. CopiesSound' /\ CopiesAgree' /\ PendingSound'
      BY <1>2, SyncCopiesSound, SyncCopiesAgree, SyncPending
    <2>3. CacheSound'
      <3>1. pc'[Parent] # "idle"
        BY <1>2 DEF DCsync_trends, Procs, TrendTypes
      <3> QED
        BY <3>1 DEF CacheSound
    <2>4. clash' \subseteq Items /\ NoKeyClash'
      <3>1. clash' = clash
        BY <1>2 DEF DCsync_trends
      <3>2. \A i \in Items : Excused(i) => Excused(i)'
        BY <1>2, SyncCopiesSound
      <3> QED
        BY <3>1, <3>2 DEF NoKeyClash, Excused
    <2> QED
      BY <2>1, <2>2, <2>3, <2>4
  <1>3. ASSUME NEW p \in Procs, Step(p)
        PROVE  KeysIInv'
    <2>1. TrendTypes'
      BY <1>3, ProbeTypes, MergeTypes, CacheTypes, InsertTypes, CommitTypes DEF Step
    <2>2. Owned' /\ SeenAll'
      BY <1>3, FlushOwned, CommitOwned, FlushSeenAll DEF Step
    <2>3. CacheSound' /\ CopiesSound' /\ CopiesAgree' /\ PendingSound'
          /\ clash' \subseteq Items /\ NoKeyClash'
      BY <1>3, FlushCacheSound, FlushCopiesSound, FlushCopiesAgree, FlushPending, StepNoKeyClash
    <2> QED
      BY <2>1, <2>2, <2>3
  <1>4. CASE UNCHANGED vars
    <2>1. /\ TrendTypes' = TrendTypes /\ Owned' = Owned /\ SeenAll' = SeenAll
      BY <1>4 DEF vars, TrendTypes, InCall, Owned, At, SeenAll, HasRow
    <2>2. CacheSound' = CacheSound /\ CopiesSound' = CopiesSound
      BY <1>4 DEF vars, CacheSound, CopiesSound, NoneFrom, Excused, Retyped, HasRow, At
    <2>3. CopiesAgree' = CopiesAgree /\ PendingSound' = PendingSound /\ NoKeyClash' = NoKeyClash /\ clash' = clash
      BY <1>4 DEF vars, CopiesAgree, PendingSound, NoKeyClash, Excused, Retyped, At, Pending, InCall, Visible
    <2> QED
      BY <2>1, <2>2, <2>3
  <1> QED
    BY <1>1, <1>2, <1>3, <1>4 DEF Next

\* DCflush_trends never inserts a row that is there already, save for the items
\* excused, and the cached disable_from tells the truth about the rows.
THEOREM KeysKept == Spec => []KeysSound
  <1>1. Init => KeysIInv
    <2>1. Init => clash \subseteq Items /\ NoKeyClash
      BY DEF Init, NoKeyClash
    <2> QED
      BY <2>1, InitTypes, InitOwned, InitSeen, InitCacheSound, InitCopies DEF KeysIInv
  <1>2. KeysIInv => KeysSound
    <2> SUFFICES ASSUME KeysIInv PROVE KeysSound
      OBVIOUS
    <2>1. TypeOK /\ NoKeyClash
      BY TypesLaw DEF KeysIInv
    <2>2. DisableFromSound
      <3> SUFFICES ASSUME NEW i \in DOMAIN cache, pc[Parent] = "idle", cache[i].disable_from # 0,
                          NEW k \in DOMAIN rows \cup UNION {DOMAIN txn[p] : p \in Procs}, k[1] = i
                   PROVE  k[3] < cache[i].disable_from \/ (stops > 0 /\ Retyped(i))
        BY DEF DisableFromSound
      <3>1. HasRow(k) /\ k \in Keys
        BY DEF HasRow, KeysIInv, TrendTypes
      <3>2. NoneFrom(i, cache[i].disable_from)
        BY DEF KeysIInv, CacheSound
      <3> QED
        BY <3>1, <3>2 DEF NoneFrom, Excused
    <2> QED
      BY <2>1, <2>2 DEF KeysSound
  <1> QED
    BY <1>1, <1>2, KeysStep, PTL DEF Spec

--------------------------------------------------------------------------------
(* What is counted *)

Sums == [num : Nat, min : Nat, max : Nat, sum : Nat]

\* num, min, max and sum of some values: num values between min and max
Good(a) ==
  /\ a \in Sums /\ a.num > 0
  /\ a.num * a.min <= a.sum /\ a.sum <= a.num * a.max

\* A row of such values; its average is between them
GoodRow(r) ==
  /\ r \in [num : Nat, min : Nat, max : Nat, avg : Nat] /\ r.num > 0
  /\ r.min <= r.avg /\ r.avg <= r.max

\* The values of a and of b together
Join(a, b) ==
  IF a.num = 0 THEN b ELSE IF b.num = 0 THEN a
  ELSE [num |-> a.num + b.num, min |-> Lesser(a.min, b.min), max |-> Greater(a.max, b.max),
        sum |-> a.sum + b.sum]

\* The same values, with at most the sum
Within(a, b) ==
  /\ a.num = b.num
  /\ a.num > 0 => a.min = b.min /\ a.max = b.max /\ a.sum <= b.sum

\* Some of the values; if it is all of them, min and max are theirs.
PartOf(a, s) ==
  /\ a.num <= s.num
  /\ a.num = s.num /\ a.num > 0 => a.min = s.min /\ a.max = s.max /\ a.sum <= s.sum

\* A part that may be empty
Part(a) == a \in Sums /\ (a.num = 0 => a = None)

OfRow(r) == [num |-> r.num, min |-> r.min, max |-> r.max, sum |-> r.num * r.avg]

RowPart(k) == IF InRows(k).num = 0 THEN None ELSE OfRow(InRows(k))

Total(k) == Join(Join(InCache(k), InArray(k)), RowPart(k))

LEMMA SumsLaws ==
  ASSUME NEW a \in Sums
  PROVE  a.num \in Nat /\ a.min \in Nat /\ a.max \in Nat /\ a.sum \in Nat
  BY DEF Sums

LEMMA NonePart == Part(None) /\ None.num = 0
  BY DEF None, Part, Sums

LEMMA JoinLaws ==
  ASSUME NEW a, NEW b, Part(a), Part(b)
  PROVE  /\ Part(Join(a, b)) /\ Join(a, b).num = a.num + b.num
         /\ Join(None, b) = b /\ Join(a, None) = a
  <1>1. a \in Sums /\ b \in Sums /\ (a.num = 0 => a = None) /\ (b.num = 0 => b = None)
    BY DEF Part
  <1>2. a.num \in Nat /\ a.min \in Nat /\ a.max \in Nat /\ a.sum \in Nat
    BY <1>1, SumsLaws
  <1>3. b.num \in Nat /\ b.min \in Nat /\ b.max \in Nat /\ b.sum \in Nat
    BY <1>1, SumsLaws
  <1>4. Join(None, b) = b
    BY NonePart DEF Join
  <1>5. Join(a, None) = a
    BY <1>1, NonePart DEF Join
  <1>6. Part(Join(a, b)) /\ Join(a, b).num = a.num + b.num
    <2>1. CASE a.num = 0
      BY <1>2, <1>3, <2>1 DEF Join
    <2>2. CASE b.num = 0
      BY <1>2, <1>3, <2>2 DEF Join
    <2>3. CASE a.num # 0 /\ b.num # 0
      <3>1. Join(a, b) = [num |-> a.num + b.num, min |-> Lesser(a.min, b.min),
                          max |-> Greater(a.max, b.max), sum |-> a.sum + b.sum]
        BY <2>3 DEF Join
      <3>2. Lesser(a.min, b.min) \in Nat /\ Greater(a.max, b.max) \in Nat
        BY <1>2, <1>3 DEF Lesser, Greater
      <3>3. a.num + b.num \in Nat /\ a.sum + b.sum \in Nat /\ a.num + b.num # 0
        BY <1>2, <1>3, <2>3
      <3>4. Join(a, b) \in Sums /\ Join(a, b).num = a.num + b.num
        BY <3>1, <3>2, <3>3 DEF Sums
      <3> QED
        BY <3>3, <3>4 DEF Part
    <2> QED
      BY <2>1, <2>2, <2>3
  <1> QED
    BY <1>4, <1>5, <1>6

LEMMA WithinLaws ==
  ASSUME NEW a \in Sums
  PROVE  Within(a, a)
  BY SumsLaws DEF Within

LEMMA JoinWithin ==
  ASSUME NEW a, NEW b, NEW c, NEW d, Part(a), Part(b), Part(c), Part(d), Within(a, c), Within(b, d)
  PROVE  Within(Join(a, b), Join(c, d))
  <1>1. a \in Sums /\ b \in Sums /\ c \in Sums /\ d \in Sums
    BY DEF Part
  <1>2. /\ a.num \in Nat /\ b.num \in Nat /\ c.num \in Nat /\ d.num \in Nat
        /\ a.sum \in Nat /\ b.sum \in Nat /\ c.sum \in Nat /\ d.sum \in Nat
    BY <1>1, SumsLaws
  <1>3. a.num = c.num /\ b.num = d.num
    BY DEF Within
  <1>4. CASE a.num = 0
    BY <1>2, <1>3, <1>4 DEF Join, Within
  <1>5. CASE b.num = 0
    BY <1>2, <1>3, <1>5 DEF Join, Within
  <1>6. CASE a.num # 0 /\ b.num # 0
    <2>1. a.min = c.min /\ a.max = c.max /\ a.sum <= c.sum /\ b.min = d.min /\ b.max = d.max /\ b.sum <= d.sum
      BY <1>2, <1>6 DEF Within
    <2>2. Join(a, b) = [num |-> a.num + b.num, min |-> Lesser(a.min, b.min),
                        max |-> Greater(a.max, b.max), sum |-> a.sum + b.sum]
      BY <1>6 DEF Join
    <2>3. Join(c, d) = [num |-> c.num + d.num, min |-> Lesser(c.min, d.min),
                        max |-> Greater(c.max, d.max), sum |-> c.sum + d.sum]
      BY <1>3, <1>6 DEF Join
    <2> QED
      BY <1>2, <1>3, <2>1, <2>2, <2>3 DEF Within
  <1> QED
    BY <1>4, <1>5, <1>6

LEMMA PartOfWithin ==
  ASSUME NEW a \in Sums, NEW b \in Sums, NEW s \in Sums, Within(a, b), PartOf(b, s)
  PROVE  PartOf(a, s)
  BY SumsLaws DEF Within, PartOf

\* A value counted into a part
LEMMA WithPart ==
  ASSUME NEW a, Part(a), NEW v \in Nat
  PROVE  Part(With(a, v)) /\ With(a, v).num = a.num + 1
  <1>1. a.num \in Nat /\ a.min \in Nat /\ a.max \in Nat /\ a.sum \in Nat
    BY SumsLaws DEF Part
  <1>2. With(a, v) \in Sums /\ With(a, v).num = a.num + 1
    BY <1>1 DEF With, Sums, Lesser, Greater
  <1> QED
    BY <1>1, <1>2 DEF Part

LEMMA JoinWith ==
  ASSUME NEW a, NEW b, Part(a), Part(b), NEW v \in Nat
  PROVE  Within(Join(With(a, v), b), With(Join(a, b), v))
  <1>1. a \in Sums /\ b \in Sums /\ (a.num = 0 => a = None) /\ (b.num = 0 => b = None)
    BY DEF Part
  <1>2. a.num \in Nat /\ a.min \in Nat /\ a.max \in Nat /\ a.sum \in Nat
    BY <1>1, SumsLaws
  <1>3. b.num \in Nat /\ b.min \in Nat /\ b.max \in Nat /\ b.sum \in Nat
    BY <1>1, SumsLaws
  <1>4. None.num = 0 /\ None.sum = 0
    BY DEF None
  <1>5. With(a, v).num # 0
    BY <1>2 DEF With
  <1>6. CASE b.num = 0
    <2>1. Join(With(a, v), b) = With(a, v) /\ Join(a, b) = a
      BY <1>1, <1>5, <1>6 DEF Join
    <2>2. With(a, v) \in Sums
      BY WithPart DEF Part
    <2> QED
      BY <2>1, <2>2, WithinLaws
  <1>7. CASE b.num # 0 /\ a.num = 0
    <2>1. Join(a, b) = b /\ a.sum = 0
      BY <1>1, <1>4, <1>7 DEF Join
    <2>2. With(a, v) = [num |-> 1, sum |-> v, min |-> v, max |-> v]
      BY <1>7, <2>1 DEF With
    <2>3. Join(With(a, v), b) = [num |-> 1 + b.num, min |-> Lesser(v, b.min), max |-> Greater(v, b.max), sum |-> v + b.sum]
      BY <1>7, <2>2 DEF Join
    <2>4. With(b, v) = [num |-> b.num + 1, sum |-> b.sum + v, min |-> Lesser(b.min, v), max |-> Greater(b.max, v)]
      BY <1>7 DEF With
    <2> QED
      BY <1>3, <2>1, <2>3, <2>4 DEF Within, Lesser, Greater
  <1>8. CASE b.num # 0 /\ a.num # 0
    <2>1. With(a, v) = [num |-> a.num + 1, sum |-> a.sum + v, min |-> Lesser(a.min, v), max |-> Greater(a.max, v)]
      BY <1>8 DEF With
    <2>2. Join(With(a, v), b) = [num |-> (a.num + 1) + b.num, min |-> Lesser(Lesser(a.min, v), b.min),
                                 max |-> Greater(Greater(a.max, v), b.max), sum |-> (a.sum + v) + b.sum]
      BY <1>2, <1>8, <2>1 DEF Join
    <2>3. Join(a, b) = [num |-> a.num + b.num, min |-> Lesser(a.min, b.min),
                        max |-> Greater(a.max, b.max), sum |-> a.sum + b.sum]
      BY <1>8 DEF Join
    <2>4. a.num + b.num # 0
      BY <1>2, <1>3, <1>8
    <2>5. With(Join(a, b), v) = [num |-> (a.num + b.num) + 1, sum |-> (a.sum + b.sum) + v,
                                 min |-> Lesser(Lesser(a.min, b.min), v), max |-> Greater(Greater(a.max, b.max), v)]
      BY <2>3, <2>4 DEF With
    <2>6. /\ Lesser(Lesser(a.min, v), b.min) = Lesser(Lesser(a.min, b.min), v)
          /\ Greater(Greater(a.max, v), b.max) = Greater(Greater(a.max, b.max), v)
      BY <1>2, <1>3 DEF Lesser, Greater
    <2> QED
      BY <1>2, <1>3, <2>2, <2>5, <2>6 DEF Within
  <1> QED
    BY <1>6, <1>7, <1>8

LEMMA PartOfWith ==
  ASSUME NEW a, Part(a), NEW s \in Sums, NEW v \in Nat, PartOf(a, s)
  PROVE  PartOf(With(a, v), With(s, v)) /\ With(s, v) \in Sums
  <1>1. a \in Sums /\ (a.num = 0 => a = None) /\ None.num = 0 /\ None.sum = 0
    BY DEF Part, None
  <1>2. a.num \in Nat /\ a.min \in Nat /\ a.max \in Nat /\ a.sum \in Nat
    BY <1>1, SumsLaws
  <1>3. s.num \in Nat /\ s.min \in Nat /\ s.max \in Nat /\ s.sum \in Nat
    BY SumsLaws
  <1>4. With(s, v) \in Sums
    BY <1>3 DEF With, Sums, Lesser, Greater
  <1>5. /\ With(a, v).num = a.num + 1 /\ With(a, v).sum = a.sum + v
        /\ With(s, v).num = s.num + 1 /\ With(s, v).sum = s.sum + v
        /\ With(a, v).min = (IF a.num = 0 THEN v ELSE Lesser(a.min, v))
        /\ With(s, v).min = (IF s.num = 0 THEN v ELSE Lesser(s.min, v))
        /\ With(a, v).max = (IF a.num = 0 THEN v ELSE Greater(a.max, v))
        /\ With(s, v).max = (IF s.num = 0 THEN v ELSE Greater(s.max, v))
    BY DEF With
  <1>6. a.num + 1 <= s.num + 1
    BY <1>2, <1>3 DEF PartOf
  <1>7. ASSUME a.num + 1 = s.num + 1
        PROVE  /\ With(a, v).min = With(s, v).min /\ With(a, v).max = With(s, v).max
               /\ With(a, v).sum <= With(s, v).sum
    <2>1. a.num = s.num
      BY <1>2, <1>3, <1>7
    <2>2. CASE a.num = 0
      BY <1>1, <1>2, <1>3, <1>5, <2>1, <2>2
    <2>3. CASE a.num # 0
      <3>1. a.min = s.min /\ a.max = s.max /\ a.sum <= s.sum
        BY <1>2, <2>1, <2>3 DEF PartOf
      <3> QED
        BY <1>2, <1>3, <1>5, <2>1, <2>3, <3>1
    <2> QED
      BY <2>2, <2>3
  <1> QED
    BY <1>4, <1>5, <1>6, <1>7 DEF PartOf

LEMMA TimesMonotone ==
  ASSUME NEW n \in Nat, NEW a \in Nat, NEW b \in Nat, a <= b
  PROVE  n * a \in Nat /\ n * b \in Nat /\ n * a <= n * b
  <1>1. PICK d \in Nat : b = a + d
    <2>1. b - a \in Nat /\ b = a + (b - a)
      OBVIOUS
    <2> QED
      BY <2>1
  <1>2. n * b = n * a + n * d /\ n * d \in Nat /\ n * a \in Nat
    BY <1>1
  <1> QED
    BY <1>2

\* The integer average of n values with the sum s
LEMMA AverageLaws ==
  ASSUME NEW n \in Nat \ {0}, NEW s \in Nat, NEW m \in Nat, NEW M \in Nat, n * m <= s, s <= n * M
  PROVE  /\ s \div n \in Nat /\ n * (s \div n) <= s
         /\ m <= s \div n /\ s \div n <= M
  <1>1. PICK q \in Nat, r \in Nat : q = s \div n /\ r < n /\ s = n * q + r
    <2>1. s \div n \in Nat /\ s % n \in Nat /\ s % n < n /\ s = n * (s \div n) + (s % n)
      OBVIOUS
    <2> QED
      BY <2>1
  <1>2. n * q \in Nat /\ n * q <= s
    BY <1>1
  <1>3. m <= q
    <2> SUFFICES ASSUME q + 1 <= m PROVE FALSE
      BY <1>1
    <2>1. n * (q + 1) <= n * m
      BY TimesMonotone
    <2>2. n * (q + 1) = n * q + n
      OBVIOUS
    <2> QED
      BY <1>1, <1>2, <2>1, <2>2
  <1>4. q <= M
    <2> SUFFICES ASSUME M + 1 <= q PROVE FALSE
      BY <1>1
    <2>1. n * (M + 1) <= n * q
      BY TimesMonotone
    <2>2. n * (M + 1) = n * M + n /\ n * M \in Nat
      OBVIOUS
    <2> QED
      BY <1>1, <1>2, <2>1, <2>2
  <1> QED
    BY <1>1, <1>2, <1>3, <1>4

LEMMA WithGood ==
  ASSUME NEW a, Good(a) \/ a = None, NEW v \in Nat
  PROVE  Good(With(a, v))
  <1>1. CASE a = None
    <2>1. With(a, v) = [num |-> 1, sum |-> v, min |-> v, max |-> v]
      BY <1>1 DEF With, None
    <2>2. 1 * v = v
      OBVIOUS
    <2> QED
      BY <2>1, <2>2 DEF Good, Sums
  <1>2. CASE Good(a)
    <2>1. a.num \in Nat \ {0} /\ a.min \in Nat /\ a.max \in Nat /\ a.sum \in Nat
          /\ a.num * a.min <= a.sum /\ a.sum <= a.num * a.max
      BY <1>2, SumsLaws DEF Good
    <2>2. With(a, v) = [num |-> a.num + 1, sum |-> a.sum + v, min |-> Lesser(a.min, v), max |-> Greater(a.max, v)]
      BY <2>1 DEF With
    <2> DEFINE l == Lesser(a.min, v)
               g == Greater(a.max, v)
    <2>3. l \in Nat /\ g \in Nat /\ l <= a.min /\ l <= v /\ a.max <= g /\ v <= g
      BY <2>1 DEF Lesser, Greater
    <2> HIDE DEF l, g
    <2>4. a.num * l \in Nat /\ a.num * l <= a.num * a.min /\ a.num * a.min \in Nat
      BY <2>1, <2>3, TimesMonotone
    <2>5. a.num * g \in Nat /\ a.num * a.max <= a.num * g /\ a.num * a.max \in Nat
      BY <2>1, <2>3, TimesMonotone
    <2>6. (a.num + 1) * l = a.num * l + l /\ (a.num + 1) * g = a.num * g + g
      BY <2>1, <2>3
    <2>7. a.num * l + l <= a.sum + v
      BY <2>1, <2>3, <2>4
    <2>8. a.sum + v <= a.num * g + g
      BY <2>1, <2>3, <2>5
    <2>9. With(a, v) \in Sums /\ a.num + 1 > 0
      BY <2>1, <2>2, <2>3 DEF Sums, l, g
    <2>10. /\ With(a, v).num = a.num + 1 /\ With(a, v).sum = a.sum + v
           /\ With(a, v).min = l /\ With(a, v).max = g
      BY <2>2 DEF l, g
    <2> QED
      BY <2>6, <2>7, <2>8, <2>9, <2>10 DEF Good
  <1> QED
    BY <1>1, <1>2

\* A new row
LEMMA RowLaws ==
  ASSUME NEW a, Good(a)
  PROVE  GoodRow(Row(a)) /\ Within(OfRow(Row(a)), a) /\ Part(OfRow(Row(a))) /\ Row(a).num = a.num
  <1>1. a.num \in Nat \ {0} /\ a.min \in Nat /\ a.max \in Nat /\ a.sum \in Nat
        /\ a.num * a.min <= a.sum /\ a.sum <= a.num * a.max
    BY SumsLaws DEF Good
  <1> DEFINE q == a.sum \div a.num
  <1>2. q \in Nat /\ a.num * q <= a.sum /\ a.min <= q /\ q <= a.max
    BY <1>1, AverageLaws
  <1>3. Row(a) = [num |-> a.num, min |-> a.min, max |-> a.max, avg |-> q]
    BY DEF Row
  <1> HIDE DEF q
  <1>4. a.num * q \in Nat
    BY <1>1, <1>2, TimesMonotone
  <1>5. OfRow(Row(a)) = [num |-> a.num, min |-> a.min, max |-> a.max, sum |-> a.num * q]
    BY <1>3 DEF OfRow
  <1>6. GoodRow(Row(a))
    BY <1>1, <1>2, <1>3 DEF GoodRow
  <1>7. Within(OfRow(Row(a)), a) /\ Part(OfRow(Row(a)))
    BY <1>1, <1>2, <1>4, <1>5 DEF Within, Part, Sums
  <1> QED
    BY <1>3, <1>6, <1>7

LEMMA OfRowLaws ==
  ASSUME NEW r, GoodRow(r)
  PROVE  /\ r.num \in Nat \ {0} /\ r.min \in Nat /\ r.max \in Nat /\ r.avg \in Nat
         /\ r.min <= r.avg /\ r.avg <= r.max
         /\ OfRow(r) = [num |-> r.num, min |-> r.min, max |-> r.max, sum |-> r.num * r.avg]
         /\ r.num * r.avg \in Nat /\ Part(OfRow(r)) /\ Good(OfRow(r))
  <1>1. /\ r.num \in Nat \ {0} /\ r.min \in Nat /\ r.max \in Nat /\ r.avg \in Nat
        /\ r.min <= r.avg /\ r.avg <= r.max
    BY DEF GoodRow
  <1>2. r.num * r.min <= r.num * r.avg /\ r.num * r.avg <= r.num * r.max /\ r.num * r.avg \in Nat
    BY <1>1, TimesMonotone
  <1>3. OfRow(r) = [num |-> r.num, min |-> r.min, max |-> r.max, sum |-> r.num * r.avg]
    BY DEF OfRow
  <1>4. OfRow(r) \in Sums
    BY <1>1, <1>2, <1>3 DEF Sums
  <1>5. Part(OfRow(r)) /\ Good(OfRow(r))
    BY <1>1, <1>2, <1>3, <1>4 DEF Part, Good
  <1> QED
    BY <1>1, <1>2, <1>3, <1>5

\* A row and a trend together: nothing is lost but the rest of the division.
LEMMA MergedLaws ==
  ASSUME NEW r, NEW a, GoodRow(r), Good(a)
  PROVE  /\ GoodRow(Merged(r, a)) /\ Part(OfRow(Merged(r, a)))
         /\ Within(OfRow(Merged(r, a)), Join(a, OfRow(r)))
         /\ Merged(r, a).num = r.num + a.num
  <1>1. a.num \in Nat \ {0} /\ a.min \in Nat /\ a.max \in Nat /\ a.sum \in Nat
        /\ a.num * a.min <= a.sum /\ a.sum <= a.num * a.max
    BY SumsLaws DEF Good
  <1>2. /\ r.num \in Nat \ {0} /\ r.min \in Nat /\ r.max \in Nat /\ r.avg \in Nat
        /\ r.min <= r.avg /\ r.avg <= r.max
        /\ OfRow(r) = [num |-> r.num, min |-> r.min, max |-> r.max, sum |-> r.num * r.avg]
        /\ r.num * r.avg \in Nat
    BY OfRowLaws
  <1> DEFINE l == Lesser(r.min, a.min)
             g == Greater(r.max, a.max)
             n == r.num + a.num
             s == r.num * r.avg + a.sum
  <1>3. l \in Nat /\ g \in Nat /\ l <= a.min /\ l <= r.avg /\ a.max <= g /\ r.avg <= g
    BY <1>1, <1>2 DEF Lesser, Greater
  <1>4. n \in Nat \ {0} /\ s \in Nat
    BY <1>1, <1>2
  <1> HIDE DEF l, g
  <1>5. n * l <= s
    <2>1. r.num * l <= r.num * r.avg /\ r.num * l \in Nat
      BY <1>2, <1>3, TimesMonotone
    <2>2. a.num * l <= a.num * a.min /\ a.num * l \in Nat /\ a.num * a.min \in Nat
      BY <1>1, <1>3, TimesMonotone
    <2>3. n * l = r.num * l + a.num * l
      BY <1>1, <1>2, <1>3
    <2> QED
      BY <1>1, <1>2, <2>1, <2>2, <2>3
  <1>6. s <= n * g
    <2>1. r.num * r.avg <= r.num * g /\ r.num * g \in Nat
      BY <1>2, <1>3, TimesMonotone
    <2>2. a.num * a.max <= a.num * g /\ a.num * g \in Nat /\ a.num * a.max \in Nat
      BY <1>1, <1>3, TimesMonotone
    <2>3. n * g = r.num * g + a.num * g
      BY <1>1, <1>2, <1>3
    <2> QED
      BY <1>1, <1>2, <2>1, <2>2, <2>3
  <1>7. Merged(r, a) = [num |-> n, min |-> l, max |-> g, avg |-> s \div n]
    BY DEF Merged, l, g
  <1> HIDE DEF n, s
  <1> DEFINE q == s \div n
  <1>8. q \in Nat /\ n * q <= s /\ l <= q /\ q <= g
    BY <1>3, <1>4, <1>5, <1>6, AverageLaws
  <1> HIDE DEF q
  <1>9. Merged(r, a) = [num |-> n, min |-> l, max |-> g, avg |-> q]
    BY <1>7 DEF q
  <1>10. GoodRow(Merged(r, a))
    BY <1>3, <1>4, <1>8, <1>9 DEF GoodRow
  <1>11. OfRow(Merged(r, a)) = [num |-> n, min |-> l, max |-> g, sum |-> n * q]
    BY <1>9 DEF OfRow
  <1>12. Join(a, OfRow(r)) = [num |-> a.num + r.num, min |-> Lesser(a.min, r.min),
                              max |-> Greater(a.max, r.max), sum |-> a.sum + r.num * r.avg]
    BY <1>1, <1>2 DEF Join
  <1>13. Lesser(a.min, r.min) = l /\ Greater(a.max, r.max) = g
    BY <1>1, <1>2 DEF Lesser, Greater, l, g
  <1>14. a.num + r.num = n /\ a.sum + r.num * r.avg = s
    BY <1>1, <1>2 DEF n, s
  <1>15. Within(OfRow(Merged(r, a)), Join(a, OfRow(r)))
    BY <1>8, <1>11, <1>12, <1>13, <1>14 DEF Within
  <1>16. Part(OfRow(Merged(r, a)))
    BY <1>10, OfRowLaws
  <1>17. Merged(r, a).num = r.num + a.num
    BY <1>9 DEF n
  <1> QED
    BY <1>10, <1>15, <1>16, <1>17

LEMMA JoinAssociative ==
  ASSUME NEW a, NEW b, NEW c, Part(a), Part(b), Part(c)
  PROVE  Join(a, Join(b, c)) = Join(Join(a, b), c)
  <1>1. a \in Sums /\ b \in Sums /\ c \in Sums /\ (a.num = 0 => a = None) /\ (b.num = 0 => b = None) /\ (c.num = 0 => c = None)
    BY DEF Part
  <1>2. /\ a.num \in Nat /\ a.min \in Nat /\ a.max \in Nat /\ a.sum \in Nat
        /\ b.num \in Nat /\ b.min \in Nat /\ b.max \in Nat /\ b.sum \in Nat
        /\ c.num \in Nat /\ c.min \in Nat /\ c.max \in Nat /\ c.sum \in Nat
    BY <1>1, SumsLaws
  <1>3. CASE a.num = 0
    BY <1>3 DEF Join
  <1>4. CASE b.num = 0
    BY <1>1, <1>4, JoinLaws DEF Join
  <1>5. CASE c.num = 0
    BY <1>1, <1>5, JoinLaws
  <1>6. CASE a.num # 0 /\ b.num # 0 /\ c.num # 0
    <2>1. Join(a, b) = [num |-> a.num + b.num, min |-> Lesser(a.min, b.min),
                        max |-> Greater(a.max, b.max), sum |-> a.sum + b.sum]
      BY <1>6 DEF Join
    <2>2. Join(b, c) = [num |-> b.num + c.num, min |-> Lesser(b.min, c.min),
                        max |-> Greater(b.max, c.max), sum |-> b.sum + c.sum]
      BY <1>6 DEF Join
    <2>3. a.num + b.num # 0 /\ b.num + c.num # 0
      BY <1>2, <1>6
    <2>4. Join(Join(a, b), c) = [num |-> (a.num + b.num) + c.num, min |-> Lesser(Lesser(a.min, b.min), c.min),
                                 max |-> Greater(Greater(a.max, b.max), c.max), sum |-> (a.sum + b.sum) + c.sum]
      BY <1>6, <2>1, <2>3 DEF Join
    <2>5. Join(a, Join(b, c)) = [num |-> a.num + (b.num + c.num), min |-> Lesser(a.min, Lesser(b.min, c.min)),
                                 max |-> Greater(a.max, Greater(b.max, c.max)), sum |-> a.sum + (b.sum + c.sum)]
      BY <1>6, <2>2, <2>3 DEF Join
    <2>6. /\ Lesser(Lesser(a.min, b.min), c.min) = Lesser(a.min, Lesser(b.min, c.min))
          /\ Greater(Greater(a.max, b.max), c.max) = Greater(a.max, Greater(b.max, c.max))
      BY <1>2 DEF Lesser, Greater
    <2>7. (a.num + b.num) + c.num = a.num + (b.num + c.num) /\ (a.sum + b.sum) + c.sum = a.sum + (b.sum + c.sum)
      BY <1>2
    <2> QED
      BY <2>4, <2>5, <2>6, <2>7
  <1> QED
    BY <1>3, <1>4, <1>5, <1>6

\* What is in the cache, the arrays and the rows are trends and rows of values.
CacheGood ==
  \A i \in DOMAIN cache : IF pc[Parent] = "idle" THEN Good(cache[i].agg) ELSE cache[i].clock = 0

ArraysGood ==
  \A p \in Procs : \A i \in Items : \A n \in At(p, i) : Good(trends[p][n].agg)

RowsGood ==
  /\ \A k \in DOMAIN rows : GoodRow(rows[k])
  /\ \A p \in Procs : \A k \in DOMAIN txn[p] : GoodRow(txn[p][k])

PartsGood == CacheGood /\ ArraysGood /\ RowsGood

\* A row that is written again holds more than before.
RowsGrow ==
  \A p \in Procs : \A k \in DOMAIN txn[p] :
    k[1] \notin clash /\ k \in DOMAIN rows => rows[k].num < txn[p][k].num

\* All values of a key are in the cache, an array and its row, unless a transaction failed.
Counted(k) == PartOf(Total(k), seen[k]) /\ (~failed => Total(k).num = seen[k].num)

TotalsTrue == \A k \in Keys : k[1] \notin clash => Counted(k)

CountIInv == KeysIInv /\ PartsGood /\ RowsGrow /\ TotalsTrue

\* No array has a trend of the key.
Carried(k) == \E q \in Procs : \E n \in At(q, k[1]) : Key(trends[q][n]) = k

PartsTold ==
  \A k \in Keys :
    /\ Part(InCache(k)) /\ Part(InArray(k)) /\ Part(RowPart(k)) /\ Part(Total(k))
    /\ Total(k).num = InCache(k).num + InArray(k).num + RowPart(k).num
    /\ \A q \in Procs : \A n \in At(q, k[1]) : Key(trends[q][n]) = k => InArray(k) = trends[q][n].agg
    /\ ~Carried(k) => InArray(k) = None
    /\ \A q \in Procs : k \in DOMAIN txn[q] => InRows(k) = txn[q][k]
    /\ (\A q \in Procs : k \notin DOMAIN txn[q]) => InRows(k) = IF k \in DOMAIN rows THEN rows[k] ELSE None
    /\ InRows(k) = None \/ GoodRow(InRows(k))
    /\ RowPart(k).num = InRows(k).num

LEMMA GoodPart ==
  ASSUME NEW a, Good(a)
  PROVE  Part(a) /\ a.num # 0
  BY DEF Good, Part

\* Two processes do not work on one item.
LEMMA OneWorker ==
  ASSUME Owned, NEW i \in Items, NEW p \in Procs, NEW q \in Procs, pc[p] # "idle", pc[q] # "idle",
         p \in Syncers => i \in busy[p], q \in Syncers => i \in busy[q]
  PROVE  p = q
  <1>1. Parent \in Procs /\ Parent \notin Syncers /\ Procs = Syncers \cup {Parent}
    BY TrendAssumption DEF Procs
  <1> QED
    BY <1>1 DEF Owned

LEMMA Worker ==
  ASSUME Owned, NEW p \in Procs
  PROVE  /\ \A i \in Items : \A n \in At(p, i) : pc[p] # "idle" /\ (p \in Syncers => i \in busy[p])
         /\ \A k \in DOMAIN txn[p] : pc[p] # "idle" /\ (p \in Syncers => k[1] \in busy[p])
  <1>1. \A i \in Items : \A n \in At(p, i) : pc[p] # "idle"
    BY DEF Owned, At
  <1> QED
    BY <1>1 DEF Owned

LEMMA PartsLaw == TrendTypes /\ Owned /\ PartsGood => PartsTold
  <1> SUFFICES ASSUME TrendTypes, Owned, PartsGood, NEW k \in Keys
               PROVE  /\ Part(InCache(k)) /\ Part(InArray(k)) /\ Part(RowPart(k)) /\ Part(Total(k))
                      /\ Total(k).num = InCache(k).num + InArray(k).num + RowPart(k).num
                      /\ \A q \in Procs : \A n \in At(q, k[1]) : Key(trends[q][n]) = k => InArray(k) = trends[q][n].agg
                      /\ ~Carried(k) => InArray(k) = None
                      /\ \A q \in Procs : k \in DOMAIN txn[q] => InRows(k) = txn[q][k]
                      /\ (\A q \in Procs : k \notin DOMAIN txn[q]) => InRows(k) = IF k \in DOMAIN rows THEN rows[k] ELSE None
                      /\ InRows(k) = None \/ GoodRow(InRows(k))
                      /\ RowPart(k).num = InRows(k).num
    BY DEF PartsTold
  <1>1. k[1] \in Items /\ k[3] \in 1 .. Hours
    BY DEF Keys
  <1>2. Part(InCache(k))
    <2>1. CASE k[1] \in DOMAIN cache /\ cache[k[1]].type = k[2] /\ cache[k[1]].clock = k[3]
      <3>1. InCache(k) = cache[k[1]].agg
        BY <2>1 DEF InCache
      <3>2. cache[k[1]].clock # 0
        BY <1>1, <2>1
      <3>3. Good(cache[k[1]].agg)
        BY <2>1, <3>2 DEF PartsGood, CacheGood, ArraysGood, RowsGood
      <3> QED
        BY <3>1, <3>3, GoodPart
    <2>2. CASE ~(k[1] \in DOMAIN cache /\ cache[k[1]].type = k[2] /\ cache[k[1]].clock = k[3])
      BY <2>2, NonePart DEF InCache
    <2> QED
      BY <2>1, <2>2
  <1> DEFINE ps == {p \in Procs : \E n \in DOMAIN trends[p] : Key(trends[p][n]) = k}
             P == CHOOSE q \in ps : TRUE
             N == CHOOSE n \in DOMAIN trends[P] : Key(trends[P][n]) = k
  <1>3. InArray(k) = IF ps = {} THEN None ELSE trends[P][N].agg
    BY DEF InArray
  <1>4. \A q \in Procs : \A n \in DOMAIN trends[q] : Key(trends[q][n]) = k => n \in At(q, k[1])
    BY DEF Key, At
  <1>5. ps # {} <=> Carried(k)
    BY <1>4 DEF Carried, At
  <1>6. ASSUME NEW q \in Procs, NEW n \in At(q, k[1]), Key(trends[q][n]) = k
        PROVE  InArray(k) = trends[q][n].agg
    <2>1. ps # {}
      BY <1>5, <1>6 DEF Carried
    <2>2. P \in ps
      BY <2>1
    <2> HIDE DEF P
    <2>3. N \in DOMAIN trends[P] /\ Key(trends[P][N]) = k /\ P \in Procs
      BY <2>2
    <2> HIDE DEF N
    <2>4. N \in At(P, k[1])
      BY <1>4, <2>3
    <2>5. P = q
      BY <1>1, <1>6, <2>3, <2>4, Worker, OneWorker
    <2>6. N = n
      BY <1>1, <1>6, <2>4, <2>5 DEF Owned
    <2> QED
      BY <1>3, <2>1, <2>5, <2>6
  <1>7. ~Carried(k) => InArray(k) = None
    BY <1>3, <1>5
  <1> HIDE DEF ps, P, N
  <1>8. Part(InArray(k))
    <2>1. CASE Carried(k)
      <3>1. PICK q \in Procs : \E n \in At(q, k[1]) : Key(trends[q][n]) = k
        BY <2>1 DEF Carried
      <3>2. PICK n \in At(q, k[1]) : Key(trends[q][n]) = k
        BY <3>1
      <3>3. Good(trends[q][n].agg)
        BY <1>1, <3>2 DEF PartsGood, CacheGood, ArraysGood, RowsGood
      <3> QED
        BY <1>6, <3>2, <3>3, GoodPart
    <2>2. CASE ~Carried(k)
      BY <1>7, <2>2, NonePart
    <2> QED
      BY <2>1, <2>2
  <1> DEFINE qs == {p \in Procs : k \in DOMAIN txn[p]}
             Q == CHOOSE p \in qs : TRUE
  <1>9. InRows(k) = IF qs # {} THEN txn[Q][k] ELSE IF k \in DOMAIN rows THEN rows[k] ELSE None
    BY DEF InRows
  <1>10. ASSUME NEW q \in Procs, k \in DOMAIN txn[q]
         PROVE  InRows(k) = txn[q][k]
    <2>1. qs # {}
      BY <1>10
    <2>2. Q \in qs
      BY <2>1
    <2> HIDE DEF Q
    <2>3. Q \in Procs /\ k \in DOMAIN txn[Q]
      BY <2>2
    <2>4. Q = q
      BY <1>1, <1>10, <2>3, Worker, OneWorker
    <2> QED
      BY <1>9, <2>1, <2>4
  <1>11. (\A q \in Procs : k \notin DOMAIN txn[q]) => InRows(k) = IF k \in DOMAIN rows THEN rows[k] ELSE None
    BY <1>9
  <1> HIDE DEF qs, Q
  <1>12. InRows(k) = None \/ GoodRow(InRows(k))
    <2>1. CASE \E q \in Procs : k \in DOMAIN txn[q]
      BY <1>10, <2>1 DEF PartsGood, CacheGood, ArraysGood, RowsGood
    <2>2. CASE \A q \in Procs : k \notin DOMAIN txn[q]
      BY <1>11, <2>2 DEF PartsGood, CacheGood, ArraysGood, RowsGood
    <2> QED
      BY <2>1, <2>2
  <1>13. Part(RowPart(k)) /\ RowPart(k).num = InRows(k).num
    <2>1. CASE InRows(k) = None
      BY <2>1, NonePart DEF RowPart
    <2>2. CASE GoodRow(InRows(k))
      BY <2>2, OfRowLaws DEF RowPart
    <2> QED
      BY <1>12, <2>1, <2>2
  <1>14. Part(Join(InCache(k), InArray(k))) /\ Join(InCache(k), InArray(k)).num = InCache(k).num + InArray(k).num
    BY <1>2, <1>8, JoinLaws
  <1>15. /\ Part(Join(Join(InCache(k), InArray(k)), RowPart(k)))
         /\ Join(Join(InCache(k), InArray(k)), RowPart(k)).num = Join(InCache(k), InArray(k)).num + RowPart(k).num
    BY <1>13, <1>14, JoinLaws
  <1>16. Part(Total(k)) /\ Total(k).num = InCache(k).num + InArray(k).num + RowPart(k).num
    BY <1>14, <1>15 DEF Total
  <1> QED
    BY <1>2, <1>6, <1>7, <1>8, <1>10, <1>11, <1>12, <1>13, <1>16

LEMMA PartsLawNext == TrendTypes' /\ Owned' /\ PartsGood' => PartsTold'
  BY PartsLaw, PTL

\* What a step does to the values of a key: they move from one place to another,
\* one is counted, or a transaction that is rolled back loses some.
Moved(k) == seen'[k] = seen[k] /\ Within(Total(k)', Total(k))
Gained(k) == \E v \in Nat : seen'[k] = With(seen[k], v) /\ Within(Total(k)', With(Total(k), v))
LostSome(k) == failed' /\ seen'[k] = seen[k] /\ (Total(k).num)' < Total(k).num

LEMMA CountStep ==
  ASSUME PartsTold, PartsTold', failed => failed', NEW k \in Keys, seen[k] \in Sums, Counted(k),
         Moved(k) \/ Gained(k) \/ LostSome(k)
  PROVE  Counted(k)'
  <1>1. Part(Total(k)) /\ Total(k) \in Sums /\ Part(Total(k)') /\ Total(k)' \in Sums
    BY DEF PartsTold, Part
  <1>2. seen[k].num \in Nat /\ Total(k).num \in Nat /\ (Total(k).num)' \in Nat
    BY <1>1, SumsLaws
  <1>3. PartOf(Total(k), seen[k]) /\ (~failed => Total(k).num = seen[k].num)
    BY DEF Counted
  <1>4. CASE Moved(k)
    BY <1>1, <1>3, <1>4, PartOfWithin DEF Moved, Counted, Within
  <1>5. CASE Gained(k)
    <2>1. PICK v \in Nat : seen'[k] = With(seen[k], v) /\ Within(Total(k)', With(Total(k), v))
      BY <1>5 DEF Gained
    <2>2. PartOf(With(Total(k), v), With(seen[k], v)) /\ With(seen[k], v) \in Sums
      BY <1>1, <1>3, PartOfWith
    <2>3. With(Total(k), v) \in Sums /\ With(Total(k), v).num = Total(k).num + 1
      BY <1>1, WithPart DEF Part
    <2>4. PartOf(Total(k)', With(seen[k], v))
      BY <1>1, <2>1, <2>2, <2>3, PartOfWithin
    <2>5. (Total(k).num)' = Total(k).num + 1 /\ With(seen[k], v).num = seen[k].num + 1
      BY <2>1, <2>3 DEF Within, With
    <2> QED
      BY <1>3, <2>1, <2>4, <2>5 DEF Counted
  <1>6. CASE LostSome(k)
    <2>1. (Total(k).num)' < seen[k].num
      BY <1>2, <1>3, <1>6 DEF LostSome, PartOf
    <2>2. PartOf(Total(k)', seen[k])
      BY <1>2, <2>1 DEF PartOf
    <2> QED
      BY <1>6, <2>2 DEF LostSome, Counted
  <1> QED
    BY <1>4, <1>5, <1>6

--------------------------------------------------------------------------------
(* What a step does to the values *)

LEMMA PendingOne ==
  ASSUME TrendTypes, Owned, NEW p \in Procs, InCall(p), NEW m \in Pending(p), NEW n \in Pending(p),
         Key(trends[p][m]) = Key(trends[p][n])
  PROVE  m = n
  <1>1. m \in DOMAIN trends[p] /\ n \in DOMAIN trends[p]
    BY KeysOfTypes
  <1>2. trends[p][m].itemid = trends[p][n].itemid /\ trends[p][n].itemid # 0
    BY DEF Key, Pending
  <1>3. trends[p][n].itemid \in Items
    BY <1>1, <1>2, EntryTypes
  <1>4. m \in At(p, trends[p][n].itemid) /\ n \in At(p, trends[p][n].itemid)
    BY <1>1, <1>2 DEF At
  <1> QED
    BY <1>3, <1>4 DEF Owned

LEMMA VisibleLaws ==
  ASSUME NEW p
  PROVE  /\ DOMAIN Visible(p) = DOMAIN rows \cup DOMAIN txn[p]
         /\ \A k \in DOMAIN txn[p] : Visible(p)[k] = txn[p][k]
         /\ \A k \in DOMAIN rows : k \notin DOMAIN txn[p] => Visible(p)[k] = rows[k]
  BY OverrideLaws DEF Visible

LEMMA MergeValues ==
  ASSUME TrendTypes, Owned, NEW p \in Procs, FlushMerge(p)
  PROVE  /\ \A n \in Found(p) : txn'[p][Key(trends[p][n])] = Merged(Visible(p)[Key(trends[p][n])], trends[p][n].agg)
         /\ \A k \in DOMAIN txn[p] : k \notin KeysOf(p, Found(p)) => txn'[p][k] = txn[p][k]
  <1> DEFINE found == {n \in Pending(p) : ~KnownNew(trends[p][n]) /\ Key(trends[p][n]) \in DOMAIN Visible(p)}
             Of(k) == CHOOSE n \in found : Key(trends[p][n]) = k
             g == [k \in {Key(trends[p][n]) : n \in found} |-> Merged(Visible(p)[k], trends[p][Of(k)].agg)]
  <1>1. txn' = [txn EXCEPT ![p] = Override(txn[p], g)]
    BY DEF FlushMerge
  <1>2. found = Found(p) /\ found \subseteq Pending(p) /\ InCall(p)
    BY DEF Found, FlushMerge, InCall
  <1>3. ASSUME NEW n \in found
        PROVE  Of(Key(trends[p][n])) = n
    <2> HIDE DEF found
    <2>1. Of(Key(trends[p][n])) \in found /\ Key(trends[p][Of(Key(trends[p][n]))]) = Key(trends[p][n])
      OBVIOUS
    <2> HIDE DEF Of
    <2> QED
      BY <1>2, <2>1, PendingOne
  <1> HIDE DEF Of, found
  <1>4. DOMAIN g = KeysOf(p, found)
    BY DEF KeysOf
  <1>5. ASSUME NEW n \in found
        PROVE  g[Key(trends[p][n])] = Merged(Visible(p)[Key(trends[p][n])], trends[p][n].agg)
    <2>1. Key(trends[p][n]) \in DOMAIN g
      OBVIOUS
    <2>2. g[Key(trends[p][n])] = Merged(Visible(p)[Key(trends[p][n])], trends[p][Of(Key(trends[p][n]))].agg)
      BY <2>1
    <2> QED
      BY <1>3, <2>2
  <1>6. \A n \in found : Key(trends[p][n]) \in DOMAIN g
    OBVIOUS
  <1> HIDE DEF g
  <1>7. DOMAIN txn = Procs
    BY DEF TrendTypes
  <1>8. txn'[p] = Override(txn[p], g)
    BY <1>1, <1>7
  <1>9. /\ \A k \in DOMAIN g : txn'[p][k] = g[k]
        /\ \A k \in DOMAIN txn[p] : k \notin DOMAIN g => txn'[p][k] = txn[p][k]
    <2>1. /\ \A k \in DOMAIN g : Override(txn[p], g)[k] = g[k]
          /\ \A k \in DOMAIN txn[p] : k \notin DOMAIN g => Override(txn[p], g)[k] = txn[p][k]
      BY OverrideLaws
    <2> QED
      BY <1>8, <2>1
  <1> QED
    BY <1>2, <1>4, <1>5, <1>6, <1>9

LEMMA InsertValues ==
  ASSUME TrendTypes, Owned, NEW p \in Procs, FlushInsert(p)
  PROVE  /\ \A n \in Pending(p) : txn'[p][Key(trends[p][n])] = Row(trends[p][n].agg)
         /\ \A k \in DOMAIN txn[p] : k \notin KeysOf(p, Pending(p)) => txn'[p][k] = txn[p][k]
  <1> DEFINE Of(k) == CHOOSE n \in Pending(p) : Key(trends[p][n]) = k
             ks == {Key(trends[p][n]) : n \in Pending(p)}
             g == [k \in ks |-> Row(trends[p][Of(k)].agg)]
  <1>1. txn' = [txn EXCEPT ![p] = Override(txn[p], g)]
    BY DEF FlushInsert
  <1>2. InCall(p)
    BY DEF FlushInsert, InCall
  <1>3. ASSUME NEW n \in Pending(p)
        PROVE  Of(Key(trends[p][n])) = n
    <2>1. Of(Key(trends[p][n])) \in Pending(p) /\ Key(trends[p][Of(Key(trends[p][n]))]) = Key(trends[p][n])
      OBVIOUS
    <2> HIDE DEF Of
    <2> QED
      BY <1>2, <2>1, PendingOne
  <1> HIDE DEF Of
  <1>4. DOMAIN g = KeysOf(p, Pending(p))
    BY DEF KeysOf
  <1>5. ASSUME NEW n \in Pending(p)
        PROVE  Key(trends[p][n]) \in DOMAIN g /\ g[Key(trends[p][n])] = Row(trends[p][n].agg)
    <2>1. Key(trends[p][n]) \in DOMAIN g
      OBVIOUS
    <2>2. g[Key(trends[p][n])] = Row(trends[p][Of(Key(trends[p][n]))].agg)
      BY <2>1
    <2> QED
      BY <1>3, <2>1, <2>2
  <1> HIDE DEF g
  <1>6. DOMAIN txn = Procs
    BY DEF TrendTypes
  <1>7. txn'[p] = Override(txn[p], g)
    BY <1>1, <1>6
  <1>8. /\ \A k \in DOMAIN g : txn'[p][k] = g[k]
        /\ \A k \in DOMAIN txn[p] : k \notin DOMAIN g => txn'[p][k] = txn[p][k]
    <2>1. /\ \A k \in DOMAIN g : Override(txn[p], g)[k] = g[k]
          /\ \A k \in DOMAIN txn[p] : k \notin DOMAIN g => Override(txn[p], g)[k] = txn[p][k]
      BY OverrideLaws
    <2> QED
      BY <1>7, <2>1
  <1> QED
    BY <1>4, <1>5, <1>8

\* The first query and update_cache change no value.
LEMMA ProbeValues ==
  ASSUME TrendTypes, NEW p \in Procs, FlushProbe(p)
  PROVE  \A n \in DOMAIN trends[p] : trends'[p][n].agg = trends[p][n].agg
  <1>1. PICK h \in 1 .. Hours, t \in Tables, to \in 0 .. Len(trends[p]) :
           trends' = [trends EXCEPT ![p] = [n \in DOMAIN trends[p] |-> Probed(p, n, h, t, to)]]
    BY ProbeMeans
  <1>2. \A n \in DOMAIN trends[p] : trends'[p][n] = Probed(p, n, h, t, to)
    BY <1>1 DEF TrendTypes
  <1>3. ASSUME NEW n \in DOMAIN trends[p]
        PROVE  Probed(p, n, h, t, to).agg = trends[p][n].agg
    <2>1. trends[p][n] \in ArrayTrend
      BY EntryTypes
    <2> QED
      BY <2>1 DEF Probed, ArrayTrend
  <1> QED
    BY <1>2, <1>3

LEMMA CacheValues ==
  ASSUME TrendTypes, NEW p \in Procs, FlushCache(p)
  PROVE  /\ DOMAIN cache' = DOMAIN cache
         /\ \A i \in DOMAIN cache : /\ cache'[i].agg = cache[i].agg /\ cache'[i].clock = cache[i].clock
                                    /\ cache'[i].type = cache[i].type
  <1> DEFINE known == {trends[p][n].itemid : n \in {m \in Pending(p) : KnownNew(trends[p][m])}}
  <1>1. cache' = [i \in DOMAIN cache |->
             IF i \in known THEN [cache[i] EXCEPT !.disable_from = NextFrom(call[p].clock)] ELSE cache[i]]
    BY DEF FlushCache
  <1> HIDE DEF known
  <1>2. \A i \in DOMAIN cache : cache[i] \in CachedTrend
    BY DEF TrendTypes
  <1> QED
    BY <1>1, <1>2 DEF CachedTrend

LEMMA BatchGood ==
  ASSUME TrendTypes, PartsGood, NEW p \in Syncers, DCmass_update_trends(p)
  PROVE  PartsGood'
  <1>1. PICK b, val, out : Batch(p, b, val, out)
    BY BatchMeans
  <1>2. pc[Parent] = "idle" /\ p \in Procs /\ Parent \in Procs /\ p # Parent
        /\ pc' = [pc EXCEPT ![p] = "flush"] /\ rows' = rows /\ txn' = txn
    BY TrendAssumption DEF DCmass_update_trends, Procs
  <1>3. pc'[Parent] = "idle"
    BY <1>2 DEF TrendTypes
  <1>4. ASSUME NEW i \in DOMAIN cache'
        PROVE  Good(cache'[i].agg)
    <2>1. CASE i \notin b
      <3>1. i \in DOMAIN cache /\ cache'[i] = cache[i]
        BY <1>1, <2>1 DEF Batch
      <3> QED
        BY <1>2, <3>1 DEF PartsGood, CacheGood
    <2>2. CASE i \in b
      <3>1. val \in [b -> (1 .. Hours) \X Tables \X Values]
        BY <1>1 DEF Batch
      <3>2. val[i][3] \in Nat
        BY <2>2, <3>1, TrendAssumption
      <3>3. cache'[i] = DCadd_trend(DCget_trend(i), val[i][1], val[i][2], val[i][3])
        BY <1>1, <2>2 DEF Batch
      <3> DEFINE a == IF Outdated(DCget_trend(i), val[i][1], val[i][2]) THEN None ELSE DCget_trend(i).agg
      <3>4. cache'[i].agg = With(a, val[i][3])
        BY <3>3 DEF DCadd_trend
      <3>5. Good(a) \/ a = None
        BY <1>2 DEF DCget_trend, PartsGood, CacheGood
      <3> QED
        BY <3>2, <3>4, <3>5, WithGood
    <2> QED
      BY <2>1, <2>2
  <1>5. ArraysGood'
    <2> SUFFICES ASSUME NEW q \in Procs, NEW i \in Items, NEW n \in At(q, i)'
                 PROVE  Good(trends'[q][n].agg)
      BY DEF ArraysGood
    <2>1. CASE q = p
      <3>1. i \in DOMAIN cache /\ trends'[p][n] = Copy(i)
        BY <1>1, <2>1, BatchArrays
      <3>2. trends'[p][n].agg = cache[i].agg
        BY <3>1 DEF Copy
      <3> QED
        BY <1>2, <2>1, <3>1, <3>2 DEF PartsGood, CacheGood
    <2>2. CASE q # p
      <3>1. trends'[q] = trends[q]
        BY <1>1, <2>2, BatchArrays
      <3>2. n \in At(q, i)
        BY <3>1 DEF At
      <3> QED
        BY <3>1, <3>2 DEF PartsGood, ArraysGood
    <2> QED
      BY <2>1, <2>2
  <1>6. CacheGood'
    BY <1>3, <1>4 DEF CacheGood
  <1>7. RowsGood'
    BY <1>2 DEF PartsGood, RowsGood
  <1> QED
    BY <1>5, <1>6, <1>7 DEF PartsGood

LEMMA SyncGood ==
  ASSUME TrendTypes, SeenAll, PartsGood, DCsync_trends
  PROVE  PartsGood'
  <1>1. /\ pc[Parent] = "idle" /\ Parent \in Procs /\ pc' = [pc EXCEPT ![Parent] = "flush"]
        /\ rows' = rows /\ txn' = txn
        /\ cache' = [i \in DOMAIN cache |-> [cache[i] EXCEPT !.clock = 0, !.agg = None]]
    BY DEF DCsync_trends, Procs
  <1>2. pc'[Parent] # "idle"
    BY <1>1 DEF TrendTypes
  <1>3. \A i \in DOMAIN cache' : cache'[i].clock = 0
    <2>1. \A i \in DOMAIN cache : cache[i] \in CachedTrend
      BY DEF TrendTypes
    <2> QED
      BY <1>1, <2>1 DEF CachedTrend
  <1>4. ArraysGood'
    <2> SUFFICES ASSUME NEW q \in Procs, NEW i \in Items, NEW n \in At(q, i)'
                 PROVE  Good(trends'[q][n].agg)
      BY DEF ArraysGood
    <2>1. CASE q = Parent
      <3>1. i \in DOMAIN cache /\ trends'[Parent][n] = Copy(i)
        BY <2>1, SyncArrays
      <3>2. trends'[Parent][n].agg = cache[i].agg
        BY <3>1 DEF Copy
      <3> QED
        BY <1>1, <2>1, <3>1, <3>2 DEF PartsGood, CacheGood
    <2>2. CASE q # Parent
      <3>1. q \in Syncers
        BY <2>2 DEF Procs
      <3>2. trends'[q] = trends[q]
        BY <3>1, SyncArrays
      <3>3. n \in At(q, i)
        BY <3>2 DEF At
      <3> QED
        BY <3>2, <3>3 DEF PartsGood, ArraysGood
    <2> QED
      BY <2>1, <2>2
  <1>5. CacheGood'
    BY <1>2, <1>3 DEF CacheGood
  <1>6. RowsGood'
    BY <1>1 DEF PartsGood, RowsGood
  <1> QED
    BY <1>4, <1>5, <1>6 DEF PartsGood

LEMMA ShrunkGood == ArraysGood /\ Shrunk => ArraysGood'
  <1> SUFFICES ASSUME ArraysGood, Shrunk, NEW q \in Procs, NEW i \in Items, NEW n \in At(q, i)'
               PROVE  Good(trends'[q][n].agg)
    BY DEF ArraysGood
  <1>1. PICK m \in At(q, i) : trends'[q][n] = trends[q][m]
    BY DEF Shrunk
  <1> QED
    BY <1>1 DEF ArraysGood

\* A pending trend is one of the array.
LEMMA PendingEntry ==
  ASSUME TrendTypes, ArraysGood, NEW p \in Procs, InCall(p), NEW n \in Pending(p)
  PROVE  /\ trends[p][n].itemid \in Items /\ n \in At(p, trends[p][n].itemid)
         /\ Good(trends[p][n].agg) /\ Key(trends[p][n]) \in Keys
         /\ Key(trends[p][n])[1] = trends[p][n].itemid
  <1>1. n \in DOMAIN trends[p]
    BY KeysOfTypes
  <1>2. trends[p][n].itemid \in Items
    BY <1>1, EntryTypes DEF Pending
  <1>3. n \in At(p, trends[p][n].itemid)
    BY <1>1 DEF At
  <1>4. Key(trends[p][n]) \in Keys /\ Key(trends[p][n])[1] = trends[p][n].itemid
    BY <1>1, <1>2, EntryTypes DEF Key
  <1> QED
    BY <1>2, <1>3, <1>4 DEF ArraysGood

LEMMA FlushGood ==
  ASSUME TrendTypes, Owned, PartsGood, RowsGrow, NEW p \in Procs,
         FlushProbe(p) \/ FlushMerge(p) \/ FlushCache(p) \/ FlushInsert(p)
  PROVE  PartsGood' /\ RowsGrow'
  <1>1. /\ \A q \in Procs : pc'[q] = "idle" <=> pc[q] = "idle"
        /\ rows' = rows /\ Parent \in Procs
    BY FlushPc DEF Procs
  <1>2. CASE FlushProbe(p) \/ FlushCache(p)
    <2>1. txn' = txn /\ clash' = clash
      BY <1>2 DEF FlushProbe, FlushCache
    <2>2. RowsGood' /\ RowsGrow'
      BY <1>1, <2>1 DEF PartsGood, RowsGood, RowsGrow
    <2>3. CacheGood'
      <3>1. CASE FlushProbe(p)
        <4>1. cache' = cache
          BY <3>1 DEF FlushProbe
        <4> QED
          BY <1>1, <4>1 DEF PartsGood, CacheGood
      <3>2. CASE FlushCache(p)
        <4>1. DOMAIN cache' = DOMAIN cache
              /\ \A i \in DOMAIN cache : cache'[i].agg = cache[i].agg /\ cache'[i].clock = cache[i].clock
          BY <3>2, CacheValues
        <4> QED
          BY <1>1, <4>1 DEF PartsGood, CacheGood
      <3> QED
        BY <1>2, <3>1, <3>2
    <2>4. ArraysGood'
      <3>1. CASE FlushProbe(p)
        <4> SUFFICES ASSUME NEW q \in Procs, NEW i \in Items, NEW n \in At(q, i)'
                     PROVE  Good(trends'[q][n].agg)
          BY DEF ArraysGood
        <4>1. n \in At(q, i) /\ n \in DOMAIN trends[q]
          BY <3>1, ProbeKeeps DEF At
        <4>2. trends'[q][n].agg = trends[q][n].agg
          BY <3>1, <4>1, ProbeKeeps, ProbeValues
        <4> QED
          BY <4>1, <4>2 DEF PartsGood, ArraysGood
      <3>2. CASE FlushCache(p)
        <4>1. trends' = trends
          BY <3>2 DEF FlushCache
        <4> QED
          BY <4>1, SameShrunk, ShrunkGood DEF PartsGood
      <3> QED
        BY <1>2, <3>1, <3>2
    <2> QED
      BY <2>2, <2>3, <2>4 DEF PartsGood
  <1>3. CASE FlushMerge(p) \/ FlushInsert(p)
    <2>1. cache' = cache /\ InCall(p)
      BY <1>3 DEF FlushMerge, FlushInsert, InCall
    <2>2. CacheGood'
      BY <1>1, <2>1 DEF PartsGood, CacheGood
    <2>3. ArraysGood'
      BY <1>3, MergeShrunk, InsertShrunk, ShrunkGood DEF PartsGood
    <2>4. DOMAIN txn' = Procs /\ \A q \in Procs : q # p => txn'[q] = txn[q]
      BY <1>3, MergeMeans, InsertMeans
    <2>5. \A k \in DOMAIN Visible(p) : GoodRow(Visible(p)[k])
      BY VisibleLaws DEF PartsGood, RowsGood
    <2>6. ASSUME NEW k \in DOMAIN txn'[p]
          PROVE  GoodRow(txn'[p][k]) /\ (k[1] \notin clash' /\ k \in DOMAIN rows => rows[k].num < txn'[p][k].num)
      <3>1. CASE FlushMerge(p)
        <4>1. CASE k \in KeysOf(p, Found(p))
          <5>1. PICK n \in Found(p) : k = Key(trends[p][n])
            BY <4>1 DEF KeysOf
          <5>2. k \in DOMAIN Visible(p) /\ Good(trends[p][n].agg)
            BY <2>1, <5>1, PendingEntry DEF Found, PartsGood
          <5>3. txn'[p][k] = Merged(Visible(p)[k], trends[p][n].agg)
            BY <3>1, <5>1, MergeValues
          <5>4. /\ GoodRow(Merged(Visible(p)[k], trends[p][n].agg))
                /\ Merged(Visible(p)[k], trends[p][n].agg).num = Visible(p)[k].num + trends[p][n].agg.num
            BY <2>5, <5>2, MergedLaws
          <5>5. Visible(p)[k].num \in Nat /\ trends[p][n].agg.num \in Nat /\ trends[p][n].agg.num > 0
            BY <2>5, <5>2, SumsLaws DEF GoodRow, Good
          <5>6. k[1] \notin clash' /\ k \in DOMAIN rows => rows[k].num \in Nat /\ rows[k].num <= Visible(p)[k].num
            <6> SUFFICES ASSUME k[1] \notin clash', k \in DOMAIN rows
                         PROVE  rows[k].num \in Nat /\ rows[k].num <= Visible(p)[k].num
              OBVIOUS
            <6>1. rows[k].num \in Nat
              BY DEF PartsGood, RowsGood, GoodRow
            <6>2. clash' = clash
              BY <3>1 DEF FlushMerge
            <6>3. CASE k \in DOMAIN txn[p]
              <7>1. Visible(p)[k] = txn[p][k]
                BY <6>3, VisibleLaws
              <7>2. rows[k].num < txn[p][k].num
                BY <6>2, <6>3 DEF RowsGrow
              <7> QED
                BY <5>5, <6>1, <7>1, <7>2
            <6>4. CASE k \notin DOMAIN txn[p]
              <7>1. Visible(p)[k] = rows[k]
                BY <6>4, VisibleLaws
              <7> QED
                BY <6>1, <7>1
            <6> QED
              BY <6>1, <6>3, <6>4
          <5> QED
            BY <5>3, <5>4, <5>5, <5>6
        <4>2. CASE k \notin KeysOf(p, Found(p))
          <5>1. k \in DOMAIN txn[p] /\ clash' = clash
            BY <3>1, <4>2, MergeMeans DEF FlushMerge
          <5>2. txn'[p][k] = txn[p][k]
            BY <3>1, <4>2, <5>1, MergeValues
          <5> QED
            BY <5>1, <5>2 DEF PartsGood, RowsGood, RowsGrow
        <4> QED
          BY <4>1, <4>2
      <3>2. CASE FlushInsert(p)
        <4>1. clash' = clash \cup {l[1] : l \in KeysOf(p, Pending(p)) \cap DOMAIN Visible(p)}
          BY <3>2, InsertMeans
        <4>2. CASE k \in KeysOf(p, Pending(p))
          <5>1. PICK n \in Pending(p) : k = Key(trends[p][n])
            BY <4>2 DEF KeysOf
          <5>2. Good(trends[p][n].agg)
            BY <2>1, <5>1, PendingEntry DEF PartsGood
          <5>3. txn'[p][k] = Row(trends[p][n].agg)
            BY <3>2, <5>1, InsertValues
          <5>4. k[1] \notin clash' => k \notin DOMAIN rows
            BY <4>1, <4>2, VisibleLaws
          <5> QED
            BY <5>2, <5>3, <5>4, RowLaws
        <4>3. CASE k \notin KeysOf(p, Pending(p))
          <5>1. k \in DOMAIN txn[p]
            BY <3>2, <4>3, InsertMeans
          <5>2. txn'[p][k] = txn[p][k]
            BY <3>2, <4>3, <5>1, InsertValues
          <5> QED
            BY <4>1, <5>1, <5>2 DEF PartsGood, RowsGood, RowsGrow
        <4> QED
          BY <4>2, <4>3
      <3> QED
        BY <1>3, <3>1, <3>2
    <2>7. clash \subseteq clash'
      BY <1>3, InsertMeans DEF FlushMerge
    <2>8. RowsGood' /\ RowsGrow'
      BY <1>1, <2>4, <2>6, <2>7 DEF PartsGood, RowsGood, RowsGrow
    <2> QED
      BY <2>2, <2>3, <2>8 DEF PartsGood
  <1> QED
    BY <1>2, <1>3

LEMMA CommitValues ==
  ASSUME TrendTypes, NEW p \in Procs, Commit(p)
  PROVE  /\ DOMAIN txn'[p] = {} /\ \A q \in Procs : q # p => txn'[q] = txn[q]
         /\ \/ /\ failed' = failed
               /\ DOMAIN rows' = DOMAIN rows \cup DOMAIN txn[p]
               /\ \A k \in DOMAIN txn[p] : rows'[k] = txn[p][k]
               /\ \A k \in DOMAIN rows : k \notin DOMAIN txn[p] => rows'[k] = rows[k]
            \/ failed' = TRUE /\ rows' = rows
         /\ p = Parent => DOMAIN cache' = {}
         /\ p # Parent => cache' = cache
         /\ trends' = trends /\ trends[p] = <<>> /\ clash' = clash /\ seen' = seen
         /\ pc[p] = "flush" /\ pc' = [pc EXCEPT ![p] = "idle"]
  <1>1. DOMAIN txn'[p] = {} /\ \A q \in Procs : q # p => txn'[q] = txn[q]
    BY CommitRows
  <1>2. /\ DOMAIN Override(rows, txn[p]) = DOMAIN rows \cup DOMAIN txn[p]
        /\ \A k \in DOMAIN txn[p] : Override(rows, txn[p])[k] = txn[p][k]
        /\ \A k \in DOMAIN rows : k \notin DOMAIN txn[p] => Override(rows, txn[p])[k] = rows[k]
    BY OverrideLaws
  <1>3. (rows' = Override(rows, txn[p]) /\ failed' = failed) \/ (failed' = TRUE /\ rows' = rows)
    BY DEF Commit
  <1>4. (p = Parent => DOMAIN cache' = {}) /\ (p # Parent => cache' = cache)
    BY EmptyLaws DEF Commit
  <1>5. /\ trends' = trends /\ trends[p] = <<>> /\ clash' = clash /\ seen' = seen
        /\ pc[p] = "flush" /\ pc' = [pc EXCEPT ![p] = "idle"]
    BY DEF Commit
  <1>6. \/ /\ failed' = failed
           /\ DOMAIN rows' = DOMAIN rows \cup DOMAIN txn[p]
           /\ \A k \in DOMAIN txn[p] : rows'[k] = txn[p][k]
           /\ \A k \in DOMAIN rows : k \notin DOMAIN txn[p] => rows'[k] = rows[k]
        \/ failed' = TRUE /\ rows' = rows
    BY <1>2, <1>3
  <1> QED
    BY <1>1, <1>4, <1>5, <1>6

\* Only one transaction has a key.
LEMMA OneWriter ==
  ASSUME TrendTypes, Owned, NEW p \in Procs, NEW q \in Procs, NEW k, k \in DOMAIN txn[p], k \in DOMAIN txn[q]
  PROVE  p = q
  <1>1. k[1] \in Items
    BY DEF TrendTypes, Keys
  <1> QED
    BY <1>1, Worker, OneWorker

LEMMA CommitGood ==
  ASSUME TrendTypes, Owned, PartsGood, RowsGrow, NEW p \in Procs, Commit(p)
  PROVE  PartsGood' /\ RowsGrow'
  <1>1. CacheGood'
    <2>1. CASE p = Parent
      BY <2>1, CommitValues DEF CacheGood
    <2>2. CASE p # Parent
      <3>1. Parent \in Procs
        BY DEF Procs
      <3>2. cache' = cache /\ pc'[Parent] = pc[Parent]
        BY <2>2, <3>1, CommitValues DEF TrendTypes
      <3> QED
        BY <3>2 DEF PartsGood, CacheGood
    <2> QED
      BY <2>1, <2>2
  <1>2. ArraysGood'
    BY CommitValues, SameShrunk, ShrunkGood DEF PartsGood
  <1>3. \A k \in DOMAIN rows' : GoodRow(rows'[k])
    <2>1. CASE rows' = rows
      BY <2>1 DEF PartsGood, RowsGood
    <2>2. CASE /\ DOMAIN rows' = DOMAIN rows \cup DOMAIN txn[p]
               /\ \A k \in DOMAIN txn[p] : rows'[k] = txn[p][k]
               /\ \A k \in DOMAIN rows : k \notin DOMAIN txn[p] => rows'[k] = rows[k]
      BY <2>2 DEF PartsGood, RowsGood
    <2> QED
      BY <2>1, <2>2, CommitValues
  <1>4. RowsGood'
    BY <1>3, CommitValues DEF PartsGood, RowsGood
  <1>5. ASSUME NEW q \in Procs, NEW k \in DOMAIN txn'[q], k[1] \notin clash', k \in DOMAIN rows'
        PROVE  rows'[k].num < txn'[q][k].num
    <2>1. q # p /\ txn'[q] = txn[q] /\ clash' = clash
      BY <1>5, CommitValues
    <2>2. k \notin DOMAIN txn[p]
      BY <1>5, <2>1, OneWriter
    <2>3. k \in DOMAIN rows /\ rows'[k] = rows[k]
      BY <1>5, <2>2, CommitValues
    <2> QED
      BY <1>5, <2>1, <2>3 DEF RowsGrow
  <1> QED
    BY <1>1, <1>2, <1>4, <1>5 DEF PartsGood, RowsGrow

LEMMA SameArray ==
  ASSUME PartsTold, PartsTold', NEW k \in Keys,
         \A q \in Procs : \A n \in At(q, k[1])' : Key(trends'[q][n]) = k =>
           \E m \in At(q, k[1]) : Key(trends[q][m]) = k /\ trends[q][m].agg = trends'[q][n].agg,
         \A q \in Procs : \A m \in At(q, k[1]) : Key(trends[q][m]) = k =>
           \E n \in At(q, k[1])' : Key(trends'[q][n]) = k
  PROVE  InArray(k)' = InArray(k)
  <1>1. CASE Carried(k)
    <2>1. PICK q \in Procs : \E m \in At(q, k[1]) : Key(trends[q][m]) = k
      BY <1>1 DEF Carried
    <2>2. PICK n \in At(q, k[1])' : Key(trends'[q][n]) = k
      BY <2>1
    <2>3. PICK m \in At(q, k[1]) : Key(trends[q][m]) = k /\ trends[q][m].agg = trends'[q][n].agg
      BY <2>2
    <2>4. InArray(k) = trends[q][m].agg
      BY <2>3 DEF PartsTold
    <2>5. InArray(k)' = trends'[q][n].agg
      BY <2>2 DEF PartsTold
    <2> QED
      BY <2>3, <2>4, <2>5
  <1>2. CASE ~Carried(k)
    <2>1. ~Carried(k)'
      BY <1>2 DEF Carried
    <2> QED
      BY <1>2, <2>1 DEF PartsTold
  <1> QED
    BY <1>1, <1>2

LEMMA SameRows ==
  ASSUME PartsTold, PartsTold', NEW k \in Keys,
         \A q \in Procs : k \in DOMAIN txn'[q] <=> k \in DOMAIN txn[q],
         \A q \in Procs : k \in DOMAIN txn[q] => txn'[q][k] = txn[q][k],
         k \in DOMAIN rows' <=> k \in DOMAIN rows,
         k \in DOMAIN rows => rows'[k] = rows[k]
  PROVE  InRows(k)' = InRows(k)
  <1>1. CASE \E q \in Procs : k \in DOMAIN txn[q]
    <2>1. PICK q \in Procs : k \in DOMAIN txn[q]
      BY <1>1
    <2>2. InRows(k) = txn[q][k]
      BY <2>1 DEF PartsTold
    <2>3. InRows(k)' = txn'[q][k]
      BY <2>1 DEF PartsTold
    <2> QED
      BY <2>1, <2>2, <2>3
  <1>2. CASE \A q \in Procs : k \notin DOMAIN txn[q]
    <2>1. InRows(k) = IF k \in DOMAIN rows THEN rows[k] ELSE None
      BY <1>2 DEF PartsTold
    <2>2. InRows(k)' = IF k \in DOMAIN rows' THEN rows'[k] ELSE None
      BY <1>2 DEF PartsTold
    <2> QED
      BY <2>1, <2>2
  <1> QED
    BY <1>1, <1>2

LEMMA SameTotal ==
  ASSUME PartsTold, NEW k \in Keys, seen'[k] = seen[k],
         InCache(k)' = InCache(k), InArray(k)' = InArray(k), InRows(k)' = InRows(k)
  PROVE  Moved(k)
  <1>1. RowPart(k)' = RowPart(k)
    BY DEF RowPart
  <1>2. Total(k)' = Total(k)
    BY <1>1 DEF Total
  <1>3. Total(k) \in Sums
    BY DEF PartsTold, Part
  <1> QED
    BY <1>2, <1>3, WithinLaws DEF Moved

\* The cached values go into an array.
LEMMA CacheToArray ==
  ASSUME PartsTold, NEW k \in Keys, seen'[k] = seen[k], InRows(k)' = InRows(k),
         InArray(k) = None, InArray(k)' = InCache(k), InCache(k)' = None
  PROVE  Moved(k)
  <1>1. RowPart(k)' = RowPart(k)
    BY DEF RowPart
  <1>2. Part(InCache(k)) /\ Total(k) \in Sums
    BY DEF PartsTold, Part
  <1>3. Join(InCache(k), None) = InCache(k) /\ Join(None, InCache(k)) = InCache(k)
    BY <1>2, NonePart, JoinLaws
  <1>4. Total(k) = Join(Join(InCache(k), None), RowPart(k))
    BY DEF Total
  <1>5. Total(k)' = Join(Join(None, InCache(k)), RowPart(k))
    BY <1>1 DEF Total
  <1>6. Total(k)' = Total(k)
    BY <1>3, <1>4, <1>5
  <1> QED
    BY <1>2, <1>6, WithinLaws DEF Moved

\* A value is counted in.
LEMMA CountIn ==
  ASSUME PartsTold, NEW k \in Keys, NEW v \in Nat, seen'[k] = With(seen[k], v), InRows(k)' = InRows(k),
         InArray(k) = None, InArray(k)' = None, InCache(k)' = With(InCache(k), v)
  PROVE  Gained(k)
  <1>1. RowPart(k)' = RowPart(k)
    BY DEF RowPart
  <1>2. Part(InCache(k)) /\ Part(RowPart(k))
    BY DEF PartsTold
  <1>3. Part(With(InCache(k), v))
    BY <1>2, WithPart
  <1>4. Join(InCache(k), None) = InCache(k) /\ Join(With(InCache(k), v), None) = With(InCache(k), v)
    BY <1>2, <1>3, NonePart, JoinLaws
  <1>5. Total(k) = Join(Join(InCache(k), None), RowPart(k))
    BY DEF Total
  <1>6. Total(k)' = Join(Join(With(InCache(k), v), None), RowPart(k))
    BY <1>1 DEF Total
  <1>7. Within(Join(With(InCache(k), v), RowPart(k)), With(Join(InCache(k), RowPart(k)), v))
    BY <1>2, JoinWith
  <1>8. Within(Total(k)', With(Total(k), v))
    BY <1>4, <1>5, <1>6, <1>7
  <1> QED
    BY <1>8 DEF Gained

\* The values of an array go into the row.
LEMMA ArrayToRow ==
  ASSUME PartsTold, PartsTold', NEW k \in Keys, seen'[k] = seen[k], InCache(k)' = InCache(k),
         InArray(k)' = None, Within(RowPart(k)', Join(InArray(k), RowPart(k)))
  PROVE  Moved(k)
  <1>1. Part(InCache(k)) /\ Part(InArray(k)) /\ Part(RowPart(k)) /\ Part(RowPart(k)')
    BY DEF PartsTold
  <1>2. Join(InCache(k), None) = InCache(k) /\ Part(Join(InArray(k), RowPart(k)))
    BY <1>1, NonePart, JoinLaws
  <1>3. Within(InCache(k), InCache(k))
    BY <1>1, WithinLaws DEF Part
  <1>4. Within(Join(InCache(k), RowPart(k)'), Join(InCache(k), Join(InArray(k), RowPart(k))))
    BY <1>1, <1>2, <1>3, JoinWithin
  <1>5. Join(InCache(k), Join(InArray(k), RowPart(k))) = Total(k)
    BY <1>1, JoinAssociative DEF Total
  <1>6. Total(k)' = Join(Join(InCache(k), None), RowPart(k)')
    BY DEF Total
  <1> QED
    BY <1>2, <1>4, <1>5, <1>6 DEF Moved

LEMMA CopyOf ==
  ASSUME NEW k \in Keys
  PROVE  Key(Copy(k[1])) = k <=> cache[k[1]].type = k[2] /\ cache[k[1]].clock = k[3]
  BY CopyKey DEF Keys

LEMMA BatchCounts ==
  ASSUME TrendTypes, Owned, PartsGood, PartsTold, PartsTold', NEW p \in Syncers, DCmass_update_trends(p),
         NEW k \in Keys
  PROVE  Moved(k) \/ Gained(k)
  <1>1. PICK b, val, out : Batch(p, b, val, out)
    BY BatchMeans
  <1> DEFINE i == k[1]
  <1>2. /\ pc[Parent] = "idle" /\ pc[p] = "idle" /\ p \in Procs /\ Parent \in Procs
        /\ Procs = Syncers \cup {Parent} /\ rows' = rows /\ txn' = txn /\ i \in Items
    BY DEF DCmass_update_trends, Procs, Keys
  <1>3. InRows(k)' = InRows(k)
    BY <1>2 DEF InRows
  <1>4. /\ \A q \in Procs : q # p => trends'[q] = trends[q] /\ At(q, i)' = At(q, i)
        /\ \A n \in At(p, i)' :
              /\ i \in b /\ i \in DOMAIN cache /\ cache[i].agg.num > 0
              /\ n \in DOMAIN out /\ out[n] = i /\ trends'[p][n] = Copy(i)
    BY <1>1, <1>2, BatchArrays DEF At
  <1>5. At(p, i) = {} /\ At(Parent, i) = {}
    BY <1>2 DEF Owned, At
  <1>6. /\ DOMAIN cache' = DOMAIN cache \cup b
        /\ i \in b => cache'[i] = DCadd_trend(DCget_trend(i), val[i][1], val[i][2], val[i][3])
        /\ i \in DOMAIN cache /\ i \notin b => cache'[i] = cache[i]
        /\ seen'[k] = IF i \in b /\ k[2] = val[i][2] /\ k[3] = val[i][1] THEN With(seen[k], val[i][3]) ELSE seen[k]
    BY <1>1 DEF Batch
  <1> HIDE DEF i
  <1>7. CASE i \notin b
    <2>1. InCache(k)' = InCache(k)
      BY <1>6, <1>7 DEF InCache, i
    <2>2. At(p, i)' = {}
      BY <1>4, <1>7
    <2>3. InArray(k)' = InArray(k)
      <3>1. \A q \in Procs : \A n \in At(q, k[1])' : Key(trends'[q][n]) = k =>
              \E m \in At(q, k[1]) : Key(trends[q][m]) = k /\ trends[q][m].agg = trends'[q][n].agg
        BY <1>4, <2>2 DEF i
      <3>2. \A q \in Procs : \A m \in At(q, k[1]) : Key(trends[q][m]) = k =>
              \E n \in At(q, k[1])' : Key(trends'[q][n]) = k
        BY <1>4, <1>5 DEF i
      <3> QED
        BY <3>1, <3>2, SameArray
    <2>4. seen'[k] = seen[k]
      BY <1>6, <1>7
    <2> QED
      BY <1>3, <2>1, <2>3, <2>4, SameTotal
  <1>8. CASE i \in b
    <2> DEFINE h == val[i][1]
               t == val[i][2]
               v == val[i][3]
               late == Outdated(DCget_trend(i), h, t)
    <2>1. v \in Nat
      <3>1. val \in [b -> (1 .. Hours) \X Tables \X Values]
        BY <1>1 DEF Batch
      <3> QED
        BY <1>8, <3>1, TrendAssumption
    <2>2. \A q \in Procs : At(q, i) = {}
      <3>1. \A q \in Procs : i \notin busy[q]
        BY <1>1, <1>8 DEF Batch, Free
      <3> QED
        BY <1>2, <1>5, <3>1 DEF Owned
    <2>3. InArray(k) = None
      BY <2>2 DEF PartsTold, Carried, i
    <2>4. /\ i \in DOMAIN cache'
          /\ cache'[i].clock = h /\ cache'[i].type = t
          /\ cache'[i].agg = With(IF late THEN None ELSE DCget_trend(i).agg, v)
      BY <1>6, <1>8 DEF DCadd_trend
    <2>5. i \in DOMAIN cache => DCget_trend(i) = cache[i] /\ cache[i].agg.num > 0
      BY <1>2 DEF PartsGood, CacheGood, Good, DCget_trend
    <2>6. i \notin DOMAIN cache => DCget_trend(i).agg = None /\ ~late
      BY NonePart DEF DCget_trend, Outdated
    <2>7. i \in DOMAIN cache => (late <=> cache[i].clock # h \/ cache[i].type # t)
      BY <2>5 DEF Outdated
    <2>8. \A n \in At(p, i)' : late
      BY <1>1, <1>4 DEF Batch
    <2>9. late => \E n \in DOMAIN out : out[n] = i
      BY <1>1, <1>8 DEF Batch
    <2>10. trends'[p] = [n \in DOMAIN out |-> Copy(out[n])]
      BY <1>1, <1>2 DEF Batch, TrendTypes
    <2> HIDE DEF late, h, t, v
    <2>11. \A q \in Procs : \A n \in At(q, i)' : q = p /\ late /\ i \in DOMAIN cache /\ trends'[p][n] = Copy(i)
      BY <1>4, <2>2, <2>8
    <2>12. CASE k[2] = t /\ k[3] = h
      <3>1. InCache(k)' = With(IF late THEN None ELSE DCget_trend(i).agg, v)
        BY <2>4, <2>12 DEF InCache, i
      <3>2. (IF late THEN None ELSE DCget_trend(i).agg) = InCache(k)
        BY <2>5, <2>6, <2>7, <2>12 DEF InCache, i
      <3>3. ~Carried(k)'
        BY <2>7, <2>11, <2>12, CopyOf DEF Carried, i
      <3>4. InArray(k)' = None
        BY <3>3 DEF PartsTold
      <3>5. seen'[k] = With(seen[k], v)
        BY <1>6, <1>8, <2>12 DEF h, t, v
      <3> QED
        BY <1>3, <2>1, <2>3, <3>1, <3>2, <3>4, <3>5, CountIn
    <2>13. CASE ~(k[2] = t /\ k[3] = h)
      <3>1. InCache(k)' = None
        BY <2>4, <2>13 DEF InCache, i
      <3>2. seen'[k] = seen[k]
        BY <1>6, <2>13 DEF h, t
      <3>3. InArray(k)' = InCache(k)
        <4>1. CASE i \in DOMAIN cache /\ cache[i].type = k[2] /\ cache[i].clock = k[3]
          <5>1. late
            BY <2>7, <2>13, <4>1
          <5>2. PICK n \in DOMAIN out : out[n] = i
            BY <2>9, <5>1
          <5>3. n \in DOMAIN trends'[p] /\ trends'[p][n] = Copy(i)
            BY <2>10, <5>2
          <5>4. n \in At(p, k[1])' /\ Key(trends'[p][n]) = k
            BY <4>1, <5>3, CopyOf DEF At, Copy, i
          <5>5. InArray(k)' = trends'[p][n].agg
            BY <1>2, <5>4 DEF PartsTold
          <5>6. InCache(k) = cache[i].agg
            BY <4>1 DEF InCache, i
          <5> QED
            BY <5>3, <5>5, <5>6 DEF Copy
        <4>2. CASE ~(i \in DOMAIN cache /\ cache[i].type = k[2] /\ cache[i].clock = k[3])
          <5>1. InCache(k) = None
            BY <4>2 DEF InCache, i
          <5>2. ~Carried(k)'
            BY <2>11, <4>2, CopyOf DEF Carried, i
          <5> QED
            BY <5>1, <5>2 DEF PartsTold
        <4> QED
          BY <4>1, <4>2
      <3> QED
        BY <1>3, <2>3, <3>1, <3>2, <3>3, CacheToArray
    <2> QED
      BY <2>12, <2>13
  <1> QED
    BY <1>7, <1>8

LEMMA SyncCounts ==
  ASSUME TrendTypes, Owned, SeenAll, PartsTold, PartsTold', DCsync_trends, NEW k \in Keys
  PROVE  Moved(k)
  <1>1. PICK is : /\ \E N \in Nat : is \in [1 .. N -> DOMAIN cache]
                  /\ \A m \in DOMAIN is, n \in DOMAIN is : is[m] = is[n] => m = n
                  /\ \A i \in DOMAIN cache : \E n \in DOMAIN is : is[n] = i
                  /\ trends' = [trends EXCEPT ![Parent] = [n \in DOMAIN is |-> Copy(is[n])]]
    BY SyncMeans
  <1>2. /\ \A q \in Procs : pc[q] = "idle"
        /\ Parent \in Procs /\ Procs = Syncers \cup {Parent} /\ Parent \notin Syncers
        /\ seen' = seen /\ k[1] \in Items /\ k[3] # 0
        /\ cache' = [i \in DOMAIN cache |-> [cache[i] EXCEPT !.clock = 0, !.agg = None]]
    <2>1. k[1] \in Items /\ k[3] # 0
      BY DEF Keys
    <2>2. Parent \in Procs /\ Procs = Syncers \cup {Parent} /\ Parent \notin Syncers
      BY TrendAssumption DEF Procs
    <2>3. /\ \A q \in Procs : pc[q] = "idle"
          /\ seen' = seen
          /\ cache' = [i \in DOMAIN cache |-> [cache[i] EXCEPT !.clock = 0, !.agg = None]]
      BY DEF DCsync_trends
    <2> QED
      BY <2>1, <2>2, <2>3
  <1>3. InRows(k)' = InRows(k)
    <2>1. rows' = rows /\ txn' = txn
      BY DEF DCsync_trends
    <2> QED
      BY <2>1 DEF InRows
  <1>4. InCache(k)' = None
    <2>1. \A i \in DOMAIN cache : cache[i] \in CachedTrend
      BY DEF TrendTypes
    <2>2. \A i \in DOMAIN cache' : cache'[i].clock = 0
      BY <1>2, <2>1 DEF CachedTrend
    <2> QED
      BY <1>2, <2>2 DEF InCache
  <1>5. \A q \in Procs : At(q, k[1]) = {}
    <2>1. \A q \in Procs : trends[q] = <<>>
      BY <1>2 DEF Owned
    <2> QED
      BY <2>1 DEF At
  <1>6. InArray(k) = None
    BY <1>5 DEF PartsTold, Carried
  <1>7. trends'[Parent] = [n \in DOMAIN is |-> Copy(is[n])]
    BY <1>1, <1>2 DEF TrendTypes
  <1>8. \A q \in Procs : \A n \in At(q, k[1])' :
          q = Parent /\ k[1] \in DOMAIN cache /\ trends'[Parent][n] = Copy(k[1])
    <2> SUFFICES ASSUME NEW q \in Procs, NEW n \in At(q, k[1])'
                 PROVE  q = Parent /\ k[1] \in DOMAIN cache /\ trends'[Parent][n] = Copy(k[1])
      OBVIOUS
    <2>1. q = Parent
      <3> SUFFICES ASSUME q # Parent PROVE FALSE
        OBVIOUS
      <3>1. trends'[q] = trends[q]
        BY <1>2, SyncArrays
      <3> QED
        BY <1>5, <3>1 DEF At
    <2> QED
      BY <1>2, <2>1, SyncArrays
  <1>9. InArray(k)' = InCache(k)
    <2>1. CASE k[1] \in DOMAIN cache /\ cache[k[1]].type = k[2] /\ cache[k[1]].clock = k[3]
      <3>1. PICK n \in DOMAIN is : is[n] = k[1]
        BY <1>1, <2>1
      <3>2. n \in DOMAIN trends'[Parent] /\ trends'[Parent][n] = Copy(k[1])
        BY <1>7, <3>1
      <3>3. n \in At(Parent, k[1])' /\ Key(trends'[Parent][n]) = k
        BY <2>1, <3>2, CopyOf DEF At, Copy
      <3>4. InArray(k)' = trends'[Parent][n].agg
        BY <1>2, <3>3 DEF PartsTold
      <3>5. InCache(k) = cache[k[1]].agg
        BY <2>1 DEF InCache
      <3> QED
        BY <3>2, <3>4, <3>5 DEF Copy
    <2>2. CASE ~(k[1] \in DOMAIN cache /\ cache[k[1]].type = k[2] /\ cache[k[1]].clock = k[3])
      <3>1. InCache(k) = None
        BY <2>2 DEF InCache
      <3>2. ~Carried(k)'
        BY <1>8, <2>2, CopyOf DEF Carried
      <3> QED
        BY <3>1, <3>2 DEF PartsTold
    <2> QED
      BY <2>1, <2>2
  <1> QED
    BY <1>2, <1>3, <1>4, <1>6, <1>9, CacheToArray

\* The row of a key that a process works on
LEMMA OwnRow ==
  ASSUME TrendTypes, Owned, PartsTold, NEW p \in Procs, NEW k \in Keys, NEW n \in At(p, k[1])
  PROVE  /\ k \in DOMAIN Visible(p) => InRows(k) = Visible(p)[k]
         /\ k \notin DOMAIN Visible(p) => InRows(k) = None
  <1>1. k[1] \in Items
    BY DEF Keys
  <1>2. \A q \in Procs : k \in DOMAIN txn[q] => q = p
    BY <1>1, Worker, OneWorker
  <1>3. CASE k \in DOMAIN txn[p]
    <2>1. k \in DOMAIN Visible(p) /\ Visible(p)[k] = txn[p][k]
      BY <1>3, VisibleLaws
    <2>2. InRows(k) = txn[p][k]
      BY <1>3 DEF PartsTold
    <2> QED
      BY <2>1, <2>2
  <1>4. CASE k \notin DOMAIN txn[p]
    <2>1. InRows(k) = IF k \in DOMAIN rows THEN rows[k] ELSE None
      BY <1>2, <1>4 DEF PartsTold
    <2>2. /\ k \in DOMAIN Visible(p) <=> k \in DOMAIN rows
          /\ k \in DOMAIN rows => Visible(p)[k] = rows[k]
      BY <1>4, VisibleLaws
    <2> QED
      BY <2>1, <2>2
  <1> QED
    BY <1>3, <1>4

LEMMA ProbeCacheCounts ==
  ASSUME TrendTypes, PartsTold, PartsTold', NEW p \in Procs, FlushProbe(p) \/ FlushCache(p),
         NEW k \in Keys
  PROVE  Moved(k)
  <1>1. rows' = rows /\ txn' = txn /\ seen' = seen
    BY DEF FlushProbe, FlushCache
  <1>2. InRows(k)' = InRows(k)
    BY <1>1 DEF InRows
  <1>3. CASE FlushProbe(p)
    <2>1. cache' = cache
      BY <1>3 DEF FlushProbe
    <2>2. InCache(k)' = InCache(k)
      BY <2>1 DEF InCache
    <2>3. k[1] \in Items
      BY DEF Keys
    <2>4. ASSUME NEW q \in Procs, NEW n \in At(q, k[1])
          PROVE  trends'[q][n].agg = trends[q][n].agg /\ Key(trends'[q][n]) = Key(trends[q][n])
      <3>1. n \in DOMAIN trends[q]
        BY DEF At
      <3> QED
        BY <1>3, <3>1, ProbeKeeps, ProbeValues
    <2>5. \A q \in Procs : At(q, k[1])' = At(q, k[1])
      BY <1>3, <2>3, ProbeKeeps
    <2>6. InArray(k)' = InArray(k)
      BY <2>4, <2>5, SameArray
    <2> QED
      BY <1>1, <1>2, <2>2, <2>6, SameTotal
  <1>4. CASE FlushCache(p)
    <2>1. trends' = trends
      BY <1>4 DEF FlushCache
    <2>2. InArray(k)' = InArray(k)
      BY <2>1 DEF InArray
    <2>3. InCache(k)' = InCache(k)
      BY <1>4, CacheValues DEF InCache
    <2> QED
      BY <1>1, <1>2, <2>2, <2>3, SameTotal
  <1> QED
    BY <1>3, <1>4

\* An array without the trends that have been written
LEMMA LeftArray ==
  ASSUME TrendTypes, Owned, PartsTold, PartsTold', NEW p \in Procs, InCall(p), NEW ns \in SUBSET Pending(p),
         \A q \in Procs : q # p => trends'[q] = trends[q],
         \A i \in Items : \A n \in At(p, i)' : \E m \in At(p, i) : m \notin ns /\ trends'[p][n] = trends[p][m],
         \A i \in Items : \A m \in At(p, i) : m \notin ns => \E n \in At(p, i)' : trends'[p][n] = trends[p][m],
         NEW k \in Keys
  PROVE  /\ k \notin KeysOf(p, ns) => InArray(k)' = InArray(k)
         /\ \A n \in ns : Key(trends[p][n]) = k => n \in At(p, k[1]) /\ InArray(k) = trends[p][n].agg /\ InArray(k)' = None
  <1>1. k[1] \in Items
    BY DEF Keys
  <1>2. \A q \in Procs : q # p => At(q, k[1])' = At(q, k[1])
    BY DEF At
  <1>3. ASSUME k \notin KeysOf(p, ns)
        PROVE  InArray(k)' = InArray(k)
    <2>1. ASSUME NEW q \in Procs, NEW n \in At(q, k[1])', Key(trends'[q][n]) = k
          PROVE  \E m \in At(q, k[1]) : Key(trends[q][m]) = k /\ trends[q][m].agg = trends'[q][n].agg
      <3>1. CASE q = p
        BY <1>1, <2>1, <3>1
      <3>2. CASE q # p
        BY <1>2, <2>1, <3>2
      <3> QED
        BY <3>1, <3>2
    <2>2. ASSUME NEW q \in Procs, NEW m \in At(q, k[1]), Key(trends[q][m]) = k
          PROVE  \E n \in At(q, k[1])' : Key(trends'[q][n]) = k
      <3>1. CASE q = p
        <4>1. m \notin ns
          BY <1>3, <2>2, <3>1 DEF KeysOf
        <4> QED
          BY <1>1, <2>2, <3>1, <4>1
      <3>2. CASE q # p
        BY <1>2, <2>2, <3>2
      <3> QED
        BY <3>1, <3>2
    <2> QED
      BY <2>1, <2>2, SameArray
  <1>4. ASSUME NEW n \in ns, Key(trends[p][n]) = k
        PROVE  n \in At(p, k[1]) /\ InArray(k) = trends[p][n].agg /\ InArray(k)' = None
    <2>1. n \in At(p, k[1])
      <3>1. n \in DOMAIN trends[p]
        BY KeysOfTypes
      <3> QED
        BY <1>4, <3>1 DEF At, Key
    <2>2. InArray(k) = trends[p][n].agg
      BY <1>4, <2>1 DEF PartsTold
    <2>3. ~Carried(k)'
      <3> SUFFICES ASSUME NEW q \in Procs, NEW m \in At(q, k[1])', Key(trends'[q][m]) = k
                   PROVE  FALSE
        BY DEF Carried
      <3>1. CASE q = p
        <4>1. PICK l \in At(p, k[1]) : l \notin ns /\ trends'[p][m] = trends[p][l]
          BY <1>1, <3>1
        <4>2. l = n
          BY <1>1, <2>1, <4>1 DEF Owned
        <4> QED
          BY <4>1, <4>2
      <3>2. CASE q # p
        <4>1. m \in At(q, k[1])
          BY <1>2, <3>2
        <4>2. q = p
          BY <1>1, <2>1, <4>1, Worker, OneWorker
        <4> QED
          BY <3>2, <4>2
      <3> QED
        BY <3>1, <3>2
    <2>4. InArray(k)' = None
      BY <2>3 DEF PartsTold
    <2> QED
      BY <2>1, <2>2, <2>4
  <1> QED
    BY <1>3, <1>4

LEMMA MergeCounts ==
  ASSUME TrendTypes, Owned, PartsGood, PartsTold, PartsTold', NEW p \in Procs, FlushMerge(p), NEW k \in Keys
  PROVE  Moved(k)
  <1>1. cache' = cache /\ rows' = rows /\ seen' = seen /\ InCall(p)
    BY DEF FlushMerge, InCall
  <1>2. InCache(k)' = InCache(k)
    BY <1>1 DEF InCache
  <1>3. /\ trends' = [trends EXCEPT ![p] = Written(p, Found(p))]
        /\ DOMAIN txn' = Procs /\ \A q \in Procs : q # p => txn'[q] = txn[q]
        /\ DOMAIN txn'[p] = DOMAIN txn[p] \cup KeysOf(p, Found(p))
    BY MergeMeans
  <1>4. trends'[p] = Written(p, Found(p)) /\ \A q \in Procs : q # p => trends'[q] = trends[q]
    BY <1>3 DEF TrendTypes
  <1>5. /\ DOMAIN Written(p, Found(p)) = DOMAIN trends[p]
        /\ \A n \in DOMAIN trends[p] : n \notin Found(p) => Written(p, Found(p))[n] = trends[p][n]
    BY WrittenTypes
  <1>6. \A i \in Items : \A m \in At(p, i) : m \notin Found(p) => \E n \in At(p, i)' : trends'[p][n] = trends[p][m]
    <2> SUFFICES ASSUME NEW i \in Items, NEW m \in At(p, i), m \notin Found(p)
                 PROVE  m \in At(p, i)' /\ trends'[p][m] = trends[p][m]
      OBVIOUS
    <2>1. m \in DOMAIN trends[p] /\ trends[p][m].itemid = i
      BY DEF At
    <2>2. trends'[p][m] = trends[p][m] /\ m \in DOMAIN trends'[p]
      BY <1>4, <1>5, <2>1
    <2> QED
      BY <2>1, <2>2 DEF At
  <1>7. \A i \in Items : \A n \in At(p, i)' : \E m \in At(p, i) : m \notin Found(p) /\ trends'[p][n] = trends[p][m]
    BY MergeShrunk
  <1>8. Found(p) \in SUBSET Pending(p)
    BY DEF Found
  <1>9. /\ k \notin KeysOf(p, Found(p)) => InArray(k)' = InArray(k)
        /\ \A n \in Found(p) : Key(trends[p][n]) = k => n \in At(p, k[1]) /\ InArray(k) = trends[p][n].agg /\ InArray(k)' = None
    BY <1>1, <1>4, <1>6, <1>7, <1>8, LeftArray
  <1>10. CASE k \notin KeysOf(p, Found(p))
    <2>1. \A q \in Procs : k \in DOMAIN txn'[q] <=> k \in DOMAIN txn[q]
      BY <1>3, <1>10
    <2>2. \A q \in Procs : k \in DOMAIN txn[q] => txn'[q][k] = txn[q][k]
      BY <1>3, <1>10, MergeValues
    <2>3. InRows(k)' = InRows(k)
      BY <1>1, <2>1, <2>2, SameRows
    <2> QED
      BY <1>1, <1>2, <1>9, <1>10, <2>3, SameTotal
  <1>11. CASE k \in KeysOf(p, Found(p))
    <2>1. PICK n \in Found(p) : Key(trends[p][n]) = k
      BY <1>11 DEF KeysOf
    <2>2. n \in At(p, k[1]) /\ InArray(k) = trends[p][n].agg /\ InArray(k)' = None
      BY <1>9, <2>1
    <2>3. k \in DOMAIN Visible(p) /\ InRows(k) = Visible(p)[k]
      BY <2>1, <2>2, OwnRow DEF Found
    <2>4. InRows(k)' = Merged(InRows(k), InArray(k))
      <3>1. txn'[p][k] = Merged(Visible(p)[k], trends[p][n].agg)
        BY <2>1, MergeValues
      <3>2. InRows(k)' = txn'[p][k]
        BY <1>3, <1>11 DEF PartsTold
      <3> QED
        BY <2>2, <2>3, <3>1, <3>2
    <2>5. GoodRow(InRows(k)) /\ Good(InArray(k))
      <3>1. GoodRow(InRows(k))
        <4>1. \A l \in DOMAIN Visible(p) : GoodRow(Visible(p)[l])
          BY VisibleLaws DEF PartsGood, RowsGood
        <4> QED
          BY <2>3, <4>1
      <3>2. Good(InArray(k))
        BY <1>1, <1>8, <2>1, <2>2, PendingEntry DEF PartsGood
      <3> QED
        BY <3>1, <3>2
    <2>6. Within(OfRow(InRows(k)'), Join(InArray(k), OfRow(InRows(k)))) /\ GoodRow(InRows(k)')
      BY <2>4, <2>5, MergedLaws
    <2>7. RowPart(k) = OfRow(InRows(k)) /\ RowPart(k)' = OfRow(InRows(k)')
      BY <2>5, <2>6 DEF RowPart, GoodRow
    <2>8. Within(RowPart(k)', Join(InArray(k), RowPart(k)))
      BY <2>6, <2>7
    <2> QED
      BY <1>1, <1>2, <2>2, <2>8, ArrayToRow
  <1> QED
    BY <1>10, <1>11

LEMMA InsertCounts ==
  ASSUME TrendTypes, Owned, PartsGood, PartsTold, PartsTold', NEW p \in Procs, FlushInsert(p), NEW k \in Keys,
         k[1] \notin clash'
  PROVE  Moved(k)
  <1>1. cache' = cache /\ rows' = rows /\ seen' = seen /\ InCall(p)
    BY DEF FlushInsert, InCall
  <1>2. InCache(k)' = InCache(k)
    BY <1>1 DEF InCache
  <1>3. /\ DOMAIN txn' = Procs /\ \A q \in Procs : q # p => txn'[q] = txn[q]
        /\ DOMAIN txn'[p] = DOMAIN txn[p] \cup KeysOf(p, Pending(p))
        /\ clash' = clash \cup {l[1] : l \in KeysOf(p, Pending(p)) \cap DOMAIN Visible(p)}
    BY InsertMeans
  <1>4. PICK left : /\ \E N \in Nat : left \in [1 .. N -> Unwritten(p)]
                    /\ \A m \in DOMAIN left, n \in DOMAIN left : left[m] = left[n] => m = n
                    /\ \A m \in Unwritten(p) : \E n \in DOMAIN left : left[n] = m
                    /\ trends' = [trends EXCEPT ![p] = [n \in DOMAIN left |-> trends[p][left[n]]]]
    BY InsertMeans
  <1>5. /\ trends'[p] = [n \in DOMAIN left |-> trends[p][left[n]]]
        /\ \A q \in Procs : q # p => trends'[q] = trends[q]
    BY <1>4 DEF TrendTypes
  <1>6. \A i \in Items : \A m \in At(p, i) : m \notin Pending(p) => \E n \in At(p, i)' : trends'[p][n] = trends[p][m]
    <2> SUFFICES ASSUME NEW i \in Items, NEW m \in At(p, i), m \notin Pending(p)
                 PROVE  \E n \in At(p, i)' : trends'[p][n] = trends[p][m]
      OBVIOUS
    <2>1. m \in Unwritten(p) /\ trends[p][m].itemid = i
      BY TrendAssumption DEF At, Unwritten
    <2>2. PICK n \in DOMAIN left : left[n] = m
      BY <1>4, <2>1
    <2>3. n \in DOMAIN trends'[p] /\ trends'[p][n] = trends[p][m]
      BY <1>5, <2>2
    <2> QED
      BY <2>1, <2>3 DEF At
  <1>7. \A i \in Items : \A n \in At(p, i)' : \E m \in At(p, i) : m \notin Pending(p) /\ trends'[p][n] = trends[p][m]
    BY InsertShrunk
  <1>8. /\ k \notin KeysOf(p, Pending(p)) => InArray(k)' = InArray(k)
        /\ \A n \in Pending(p) : Key(trends[p][n]) = k => n \in At(p, k[1]) /\ InArray(k) = trends[p][n].agg /\ InArray(k)' = None
    BY <1>1, <1>5, <1>6, <1>7, LeftArray
  <1>9. CASE k \notin KeysOf(p, Pending(p))
    <2>1. \A q \in Procs : k \in DOMAIN txn'[q] <=> k \in DOMAIN txn[q]
      BY <1>3, <1>9
    <2>2. \A q \in Procs : k \in DOMAIN txn[q] => txn'[q][k] = txn[q][k]
      BY <1>3, <1>9, InsertValues
    <2>3. InRows(k)' = InRows(k)
      BY <1>1, <2>1, <2>2, SameRows
    <2> QED
      BY <1>1, <1>2, <1>8, <1>9, <2>3, SameTotal
  <1>10. CASE k \in KeysOf(p, Pending(p))
    <2>1. PICK n \in Pending(p) : Key(trends[p][n]) = k
      BY <1>10 DEF KeysOf
    <2>2. n \in At(p, k[1]) /\ InArray(k) = trends[p][n].agg /\ InArray(k)' = None
      BY <1>8, <2>1
    <2>3. k \notin DOMAIN Visible(p)
      BY <1>3, <1>10
    <2>4. InRows(k) = None
      BY <2>2, <2>3, OwnRow
    <2>5. Good(InArray(k))
      BY <1>1, <2>1, <2>2, PendingEntry DEF PartsGood
    <2>6. InRows(k)' = Row(InArray(k))
      <3>1. txn'[p][k] = Row(trends[p][n].agg)
        BY <2>1, InsertValues
      <3>2. InRows(k)' = txn'[p][k]
        BY <1>3, <1>10 DEF PartsTold
      <3> QED
        BY <2>2, <3>1, <3>2
    <2>7. GoodRow(InRows(k)') /\ Within(OfRow(InRows(k)'), InArray(k))
      BY <2>5, <2>6, RowLaws
    <2>8. RowPart(k) = None /\ RowPart(k)' = OfRow(InRows(k)')
      BY <2>4, <2>7, NonePart DEF RowPart, GoodRow
    <2>9. Join(InArray(k), None) = InArray(k)
      BY <2>5, GoodPart, NonePart, JoinLaws
    <2> QED
      BY <1>1, <1>2, <2>2, <2>7, <2>8, <2>9, ArrayToRow
  <1> QED
    BY <1>9, <1>10

LEMMA CommitCounts ==
  ASSUME TrendTypes, Owned, PartsGood, RowsGrow, PartsTold, PartsTold', NEW p \in Procs, Commit(p), NEW k \in Keys,
         k[1] \notin clash
  PROVE  Moved(k) \/ LostSome(k)
  <1>1. trends' = trends /\ seen' = seen /\ pc[p] = "flush"
    BY CommitValues
  <1>2. InArray(k)' = InArray(k)
    BY <1>1 DEF InArray
  <1>3. InCache(k)' = InCache(k)
    <2>1. CASE p = Parent
      <3>1. DOMAIN cache' = {} /\ \A i \in DOMAIN cache : cache[i].clock = 0
        BY <1>1, <2>1, CommitValues DEF PartsGood, CacheGood
      <3>2. k[3] # 0
        BY DEF Keys
      <3> QED
        BY <3>1, <3>2 DEF InCache
    <2>2. CASE p # Parent
      <3>1. cache' = cache
        BY <2>2, CommitValues
      <3> QED
        BY <3>1 DEF InCache
    <2> QED
      BY <2>1, <2>2
  <1>4. DOMAIN txn'[p] = {} /\ \A q \in Procs : q # p => txn'[q] = txn[q]
    BY CommitValues
  <1>5. CASE k \notin DOMAIN txn[p]
    <2>1. \A q \in Procs : k \in DOMAIN txn'[q] <=> k \in DOMAIN txn[q]
      BY <1>4, <1>5
    <2>2. \A q \in Procs : k \in DOMAIN txn[q] => txn'[q][k] = txn[q][k]
      BY <1>4, <1>5
    <2>3. (k \in DOMAIN rows' <=> k \in DOMAIN rows) /\ (k \in DOMAIN rows => rows'[k] = rows[k])
      BY <1>5, CommitValues
    <2>4. InRows(k)' = InRows(k)
      BY <2>1, <2>2, <2>3, SameRows
    <2> QED
      BY <1>1, <1>2, <1>3, <2>4, SameTotal
  <1>6. CASE k \in DOMAIN txn[p]
    <2>1. InRows(k) = txn[p][k] /\ GoodRow(txn[p][k])
      BY <1>6 DEF PartsTold, PartsGood, RowsGood
    <2>2. \A q \in Procs : k \notin DOMAIN txn'[q]
      BY <1>4, <1>6, OneWriter
    <2>3. InRows(k)' = IF k \in DOMAIN rows' THEN rows'[k] ELSE None
      BY <2>2 DEF PartsTold
    <2>4. CASE failed' = TRUE /\ rows' = rows
      <3>1. InRows(k)'.num \in Nat /\ InRows(k)'.num < InRows(k).num
        <4>1. CASE k \in DOMAIN rows
          <5>1. rows[k].num < txn[p][k].num /\ GoodRow(rows[k])
            BY <1>6, <4>1 DEF RowsGrow, PartsGood, RowsGood
          <5> QED
            BY <2>1, <2>3, <2>4, <4>1, <5>1 DEF GoodRow
        <4>2. CASE k \notin DOMAIN rows
          BY <2>1, <2>3, <2>4, <4>2, NonePart DEF GoodRow
        <4> QED
          BY <4>1, <4>2
      <3>2. /\ Total(k).num = InCache(k).num + InArray(k).num + InRows(k).num
            /\ Part(InCache(k)) /\ Part(InArray(k))
        BY DEF PartsTold
      <3>3. (Total(k)').num = (InCache(k)').num + (InArray(k)').num + (InRows(k)').num
        BY DEF PartsTold
      <3>4. InCache(k).num \in Nat /\ InArray(k).num \in Nat /\ InRows(k).num \in Nat
        BY <2>1, <3>2, SumsLaws DEF Part, GoodRow
      <3>5. (Total(k)').num < Total(k).num
        BY <1>2, <1>3, <3>1, <3>2, <3>3, <3>4
      <3> QED
        BY <1>1, <2>4, <3>5 DEF LostSome
    <2>5. CASE k \in DOMAIN rows' /\ rows'[k] = txn[p][k]
      <3>1. InRows(k)' = InRows(k)
        BY <2>1, <2>3, <2>5
      <3> QED
        BY <1>1, <1>2, <1>3, <3>1, SameTotal
    <2> QED
      BY <1>6, <2>4, <2>5, CommitValues
  <1> QED
    BY <1>5, <1>6

LEMMA InitCounts == Init => PartsGood /\ RowsGrow /\ TotalsTrue
  <1> SUFFICES ASSUME Init PROVE PartsGood /\ RowsGrow /\ TotalsTrue
    OBVIOUS
  <1>1. PartsGood /\ RowsGrow
    <2>1. DOMAIN cache = {} /\ DOMAIN rows = {} /\ \A p \in Procs : DOMAIN txn[p] = {} /\ trends[p] = <<>>
      BY EmptyLaws DEF Init
    <2>2. CacheGood /\ RowsGood /\ RowsGrow
      BY <2>1 DEF CacheGood, RowsGood, RowsGrow
    <2>3. ArraysGood
      BY <2>1 DEF ArraysGood, At
    <2> QED
      BY <2>2, <2>3 DEF PartsGood
  <1>2. PartsTold
    BY <1>1, InitTypes, InitOwned, PartsLaw
  <1>3. ASSUME NEW k \in Keys
        PROVE  Counted(k)
    <2>1. InCache(k) = None
      BY EmptyLaws DEF Init, InCache
    <2>2. ~Carried(k)
      BY DEF Init, Carried, At
    <2>3. InArray(k) = None
      BY <1>2, <2>2 DEF PartsTold
    <2>4. InRows(k) = None
      <3>1. DOMAIN rows = {} /\ \A p \in Procs : DOMAIN txn[p] = {}
        BY EmptyLaws DEF Init
      <3> QED
        BY <1>2, <3>1 DEF PartsTold
    <2>5. Total(k).num = 0 /\ Total(k) \in Sums
      BY <1>2, <2>1, <2>3, <2>4, NonePart DEF PartsTold, Part
    <2>6. seen[k] = None
      BY DEF Init
    <2> QED
      BY <2>5, <2>6, NonePart DEF Counted, PartOf
  <1> QED
    BY <1>1, <1>3 DEF TotalsTrue

LEMMA CountStable == CountIInv /\ [Next]_vars => CountIInv'
  <1> SUFFICES ASSUME CountIInv, [Next]_vars PROVE CountIInv'
    OBVIOUS
  <1> USE DEF CountIInv
  <1>1. TrendTypes /\ Owned /\ SeenAll /\ PartsTold
    BY PartsLaw DEF KeysIInv
  <1>2. KeysIInv'
    BY KeysStep
  <1>3. PartsGood' /\ RowsGrow' /\ (failed => failed') /\ clash \subseteq clash'
    <2>1. CASE \E p \in Syncers : DCmass_update_trends(p)
      <3>1. txn' = txn /\ rows' = rows /\ clash' = clash /\ failed' = failed
        BY <2>1 DEF DCmass_update_trends
      <3>2. PartsGood'
        BY <1>1, <2>1, BatchGood
      <3> QED
        BY <3>1, <3>2 DEF RowsGrow
    <2>2. CASE DCsync_trends
      <3>1. txn' = txn /\ rows' = rows /\ clash' = clash /\ failed' = failed
        BY <2>2 DEF DCsync_trends
      <3>2. PartsGood'
        BY <1>1, <2>2, SyncGood
      <3> QED
        BY <3>1, <3>2 DEF RowsGrow
    <2>3. ASSUME NEW p \in Procs, Step(p)
          PROVE  PartsGood' /\ RowsGrow' /\ (failed => failed') /\ clash \subseteq clash'
      <3>1. PartsGood' /\ RowsGrow'
        BY <1>1, <2>3, FlushGood, CommitGood DEF Step
      <3>2. failed => failed'
        BY <2>3 DEF Step, FlushProbe, FlushMerge, FlushCache, FlushInsert, Commit
      <3>3. clash \subseteq clash'
        BY <2>3 DEF Step, FlushProbe, FlushMerge, FlushCache, FlushInsert, Commit
      <3> QED
        BY <3>1, <3>2, <3>3
    <2>4. CASE UNCHANGED vars
      <3>1. PartsGood' = PartsGood
        BY <2>4 DEF vars, PartsGood, CacheGood, ArraysGood, RowsGood, At
      <3>2. RowsGrow' = RowsGrow /\ failed' = failed /\ clash' = clash
        BY <2>4 DEF vars, RowsGrow
      <3> QED
        BY <3>1, <3>2
    <2> QED
      BY <2>1, <2>2, <2>3, <2>4 DEF Next
  <1>4. PartsTold'
    BY <1>2, <1>3, PartsLawNext DEF KeysIInv
  <1>5. ASSUME NEW k \in Keys, k[1] \notin clash'
        PROVE  Counted(k)'
    <2>1. Counted(k) /\ k[1] \notin clash /\ seen[k] \in Sums
      BY <1>1, <1>3, <1>5 DEF TotalsTrue, TrendTypes, Sums
    <2>2. CASE \E p \in Syncers : DCmass_update_trends(p)
      <3>1. Moved(k) \/ Gained(k)
        BY <1>1, <1>4, <2>2, BatchCounts
      <3> QED
        BY <1>1, <1>3, <1>4, <2>1, <3>1, CountStep
    <2>3. CASE DCsync_trends
      <3>1. Moved(k)
        BY <1>1, <1>4, <2>3, SyncCounts
      <3> QED
        BY <1>1, <1>3, <1>4, <2>1, <3>1, CountStep
    <2>4. ASSUME NEW p \in Procs, Step(p)
          PROVE  Counted(k)'
      <3>1. CASE FlushProbe(p) \/ FlushCache(p)
        <4>1. Moved(k)
          BY <1>1, <1>4, <3>1, ProbeCacheCounts
        <4> QED
          BY <1>1, <1>3, <1>4, <2>1, <4>1, CountStep
      <3>2. CASE FlushMerge(p)
        <4>1. Moved(k)
          BY <1>1, <1>4, <3>2, MergeCounts
        <4> QED
          BY <1>1, <1>3, <1>4, <2>1, <4>1, CountStep
      <3>3. CASE FlushInsert(p)
        <4>1. Moved(k)
          BY <1>1, <1>4, <1>5, <3>3, InsertCounts
        <4> QED
          BY <1>1, <1>3, <1>4, <2>1, <4>1, CountStep
      <3>4. CASE Commit(p)
        <4>1. Moved(k) \/ LostSome(k)
          BY <1>1, <1>4, <2>1, <3>4, CommitCounts
        <4> QED
          BY <1>1, <1>3, <1>4, <2>1, <4>1, CountStep
      <3> QED
        BY <2>4, <3>1, <3>2, <3>3, <3>4 DEF Step
    <2>5. CASE UNCHANGED vars
      <3>1. seen'[k] = seen[k]
        BY <2>5 DEF vars
      <3>2. InCache(k)' = InCache(k) /\ InArray(k)' = InArray(k) /\ InRows(k)' = InRows(k)
        BY <2>5 DEF vars, InCache, InArray, InRows
      <3>3. Moved(k)
        BY <1>1, <3>1, <3>2, SameTotal
      <3> QED
        BY <1>1, <1>3, <1>4, <2>1, <3>3, CountStep
    <2> QED
      BY <2>2, <2>3, <2>4, <2>5 DEF Next
  <1> QED
    BY <1>2, <1>3, <1>5 DEF TotalsTrue

LEMMA CountLaw == Spec => []CountIInv
  <1>1. Init => CountIInv
    <2>1. Init => clash \subseteq Items /\ NoKeyClash
      BY DEF Init, NoKeyClash
    <2> QED
      BY <2>1, InitTypes, InitOwned, InitSeen, InitCacheSound, InitCopies, InitCounts DEF KeysIInv, CountIInv
  <1> QED
    BY <1>1, CountStable, PTL DEF Spec

\* DCmass_update_trends, DCsync_trends and DCflush_trends lose no value and
\* count none twice, unless a transaction is rolled back or an INSERT refused.
THEOREM CountedOnceKept == Spec => []CountedOnce
  <1>1. CountIInv => CountedOnce
    <2> SUFFICES ASSUME CountIInv, ~failed, clash = {}, NEW k \in Keys
                 PROVE  seen[k].num = InCache(k).num + InArray(k).num + InRows(k).num
      BY DEF CountedOnce
    <2>1. PartsTold
      BY PartsLaw DEF CountIInv, KeysIInv
    <2>2. Total(k).num = seen[k].num
      BY DEF CountIInv, TotalsTrue, Counted
    <2>3. Total(k).num = InCache(k).num + InArray(k).num + RowPart(k).num /\ RowPart(k).num = InRows(k).num
      BY <2>1 DEF PartsTold
    <2> QED
      BY <2>2, <2>3
  <1> QED
    BY <1>1, CountLaw, PTL

\* A row that has all the values of its hour tells their minimum and maximum,
\* and its average is one they can have, however DCflush_trends merged it.
THEOREM RowsExactKept == Spec => []RowsExact
  <1>1. CountIInv => RowsExact
    <2> SUFFICES ASSUME CountIInv, NEW k \in DOMAIN rows, k[1] \notin clash, rows[k].num = seen[k].num
                 PROVE  /\ rows[k].min = seen[k].min /\ rows[k].max = seen[k].max
                        /\ rows[k].min <= rows[k].avg /\ rows[k].avg <= rows[k].max
                        /\ rows[k].avg * rows[k].num <= seen[k].sum
      BY DEF RowsExact
    <2>1. PartsTold
      BY PartsLaw DEF CountIInv, KeysIInv
    <2>2. k \in Keys /\ seen[k] \in Sums
      BY DEF CountIInv, KeysIInv, TrendTypes, Sums
    <2>3. PartOf(Total(k), seen[k])
      BY <2>2 DEF CountIInv, TotalsTrue, Counted
    <2>4. GoodRow(rows[k])
      BY DEF CountIInv, PartsGood, RowsGood
    <2>5. /\ Total(k).num = InCache(k).num + InArray(k).num + RowPart(k).num /\ RowPart(k).num = InRows(k).num
          /\ Part(InCache(k)) /\ Part(InArray(k)) /\ Part(RowPart(k)) /\ Part(Total(k))
      BY <2>1, <2>2 DEF PartsTold
    <2>6. /\ InCache(k).num \in Nat /\ InArray(k).num \in Nat /\ RowPart(k).num \in Nat
          /\ rows[k].num \in Nat \ {0}
      BY <2>4, <2>5, SumsLaws DEF Part, GoodRow
    <2>7. Total(k).num <= rows[k].num
      BY <2>3 DEF PartOf
    <2>8. ASSUME NEW q \in Procs, k \in DOMAIN txn[q]
          PROVE  FALSE
      <3>1. InRows(k) = txn[q][k]
        BY <2>1, <2>2, <2>8 DEF PartsTold
      <3>2. rows[k].num < txn[q][k].num
        BY <2>8 DEF CountIInv, RowsGrow
      <3>3. rows[k].num < RowPart(k).num
        BY <2>5, <3>1, <3>2
      <3> QED
        BY <2>5, <2>6, <2>7, <3>3
    <2>9. InRows(k) = rows[k]
      BY <2>1, <2>2, <2>8 DEF PartsTold
    <2>10. InCache(k).num = 0 /\ InArray(k).num = 0
      BY <2>5, <2>6, <2>7, <2>9
    <2>11. Total(k) = OfRow(rows[k])
      <3>1. InCache(k) = None /\ InArray(k) = None
        BY <2>5, <2>10 DEF Part
      <3>2. RowPart(k) = OfRow(rows[k])
        BY <2>6, <2>9 DEF RowPart
      <3>3. Total(k) = Join(Join(None, None), RowPart(k))
        BY <3>1 DEF Total
      <3>4. Join(None, None) = None /\ Join(None, RowPart(k)) = RowPart(k)
        BY <2>5, NonePart, JoinLaws
      <3> QED
        BY <3>2, <3>3, <3>4
    <2>12. /\ OfRow(rows[k]) = [num |-> rows[k].num, min |-> rows[k].min, max |-> rows[k].max,
                                sum |-> rows[k].num * rows[k].avg]
           /\ rows[k].min <= rows[k].avg /\ rows[k].avg <= rows[k].max
           /\ rows[k].num \in Nat /\ rows[k].avg \in Nat
      BY <2>4, OfRowLaws
    <2>13. /\ OfRow(rows[k]).min = seen[k].min /\ OfRow(rows[k]).max = seen[k].max
           /\ OfRow(rows[k]).sum <= seen[k].sum
      BY <2>3, <2>6, <2>11, <2>12 DEF PartOf
    <2>14. rows[k].avg * rows[k].num = rows[k].num * rows[k].avg
      BY <2>12
    <2> QED
      BY <2>12, <2>13, <2>14
  <1> QED
    BY <1>1, CountLaw, PTL
================================================================================
