------------------------------ MODULE TrendCache ------------------------------
(***************************************************************************)
(* The trend cache of libs/zbxdbcache/dbcache.c: hourly num, min, max and  *)
(* average per item, kept in shared memory under LOCK_TRENDS and flushed   *)
(* to the tables trends and trends_uint when an item's hour or value type  *)
(* changes and when the server stops.  disable_from saves a query: from    *)
(* that hour on the item is known to have no row.                          *)
(*                                                                         *)
(* Hours are numbered 1, 2, ...; sums and averages are those of            *)
(* trends_uint (integer division).                                         *)
(***************************************************************************)
EXTENDS Integers, Sequences, FiniteSets, SequencesExt

CONSTANTS
  Items,        \* item ids
  Tables,       \* the tables of trends in use, one for each value type
  Hours,        \* bound of the model: values carry the hours 1 .. Hours
  Values,       \* the values received
  Syncers,      \* history syncers
  Parent,       \* the parent process: it runs DCsync_trends when the server stops
  ZBX_SYNC_MAX, \* at most so many items are looked up by one query
  MaxValues,    \* bound of the model: number of values received
  MaxStops,     \* bound of the model: how often the server is stopped
  TxnFails      \* TRUE: the transaction of a syncer may be rolled back

ASSUME TrendAssumption ==
  /\ Items \subseteq Nat \ {0} /\ IsFiniteSet(Items) /\ Values \subseteq Nat /\ Hours \in Nat \ {0}
  /\ ZBX_SYNC_MAX \in Nat \ {0} /\ MaxValues \in Nat /\ MaxStops \in Nat
  /\ Parent \notin Syncers /\ TxnFails \in BOOLEAN

VARIABLES
  cache,    \* cache->trends: a trend for some of the items
  pc,       \* where each process is in DCflush_trends
  trends,   \* the array `trends' of each process
  call,     \* clock, value_type and trends_to of its call of DCflush_trends
  txn,      \* the rows written by its open transaction
  rows,     \* the committed rows of trends and trends_uint
  busy,     \* the items of its batch
  stops,    \* how often the server was stopped
  seen,     \* ghost: num, min, max and sum of the values received
  received, \* ghost: number of values received
  clash,    \* ghost: the items whose INSERT met a row with its primary key
  failed    \* ghost: a transaction was rolled back

vars == <<cache, pc, trends, call, txn, rows, busy, stops, seen, received, clash, failed>>

Procs == Syncers \cup {Parent}
Keys  == Items \X Tables \X (1 .. Hours)
Empty == [x \in {} |-> 0]
NoTable == "none"     \* a value type that is never read

\* f with the entries of g added, or overwritten.
Override(f, g) == [x \in DOMAIN f \cup DOMAIN g |-> IF x \in DOMAIN g THEN g[x] ELSE f[x]]

Lesser(a, b)  == IF a < b THEN a ELSE b
Greater(a, b) == IF a < b THEN b ELSE a

\* num, min, max and sum of no value
None == [num |-> 0, min |-> 0, max |-> 0, sum |-> 0]

\* The value v counted in.
With(a, v) ==
  [num |-> a.num + 1, sum |-> a.sum + v,
   min |-> IF a.num = 0 THEN v ELSE Lesser(a.min, v),
   max |-> IF a.num = 0 THEN v ELSE Greater(a.max, v)]

NoCall == [clock |-> 0, type |-> NoTable, to |-> 0]

Init ==
  /\ cache = Empty
  /\ pc = [p \in Procs |-> "idle"]
  /\ trends = [p \in Procs |-> <<>>]
  /\ call = [p \in Procs |-> NoCall]
  /\ txn = [p \in Procs |-> Empty]
  /\ rows = Empty
  /\ busy = [p \in Procs |-> {}]
  /\ stops = 0
  /\ seen = [k \in Keys |-> None] /\ received = 0
  /\ clash = {} /\ failed = FALSE
--------------------------------------------------------------------------------
(***************************************************************************)
(* DCmass_update_trends: the values of a batch, under LOCK_TRENDS.         *)
(***************************************************************************)

\* DCget_trend: a new entry is all zero.
DCget_trend(i) ==
  IF i \in DOMAIN cache THEN cache[i]
  ELSE [clock |-> 0, type |-> NoTable, disable_from |-> 0, agg |-> None]

\* Mutant of Outdated: a value type that changes within the hour is not noticed.
OutdatedHourOnly(t, hour, type) == t.agg.num > 0 /\ t.clock # hour

\* DCadd_trend: the cached trend has to be flushed before the value is added.
Outdated(t, hour, type) == t.agg.num > 0 /\ (t.clock # hour \/ t.type # type)

\* DCadd_trend: the cached trend after it.
DCadd_trend(t, hour, type, v) ==
  [clock |-> hour, type |-> type, disable_from |-> t.disable_from,
   agg |-> With(IF Outdated(t, hour, type) THEN None ELSE t.agg, v)]

\* DCflush_trend: the copy that goes into the array.
Copy(i) ==
  [itemid |-> i, clock |-> cache[i].clock, type |-> cache[i].type,
   disable_from |-> cache[i].disable_from, agg |-> cache[i].agg]

\* No batch in work has the item (HistoryCache!ItemExclusive).
Free(i) == \A p \in Procs : i \notin busy[p]

\* A batch: one value (hour, table, value) of each of some items. What has to be
\* flushed goes into the array in the order of the batch.
DCmass_update_trends(p) ==
  /\ pc[p] = "idle" /\ pc[Parent] = "idle"
  /\ \E b \in (SUBSET Items) \ {{}} : \E val \in [b -> (1 .. Hours) \X Tables \X Values] :
       /\ \A i \in b : Free(i)
       /\ received + Cardinality(b) <= MaxValues /\ received' = received + Cardinality(b)
       /\ cache' = Override(cache, [i \in b |->
            DCadd_trend(DCget_trend(i), val[i][1], val[i][2], val[i][3])])
       /\ \E out \in SetToSeqs({i \in b : Outdated(DCget_trend(i), val[i][1], val[i][2])}) :
            trends' = [trends EXCEPT ![p] = [n \in DOMAIN out |-> Copy(out[n])]]
       /\ busy' = [busy EXCEPT ![p] = b]
       /\ seen' = [k \in Keys |-> IF k[1] \in b /\ k[2] = val[k[1]][2] /\ k[3] = val[k[1]][1]
                                  THEN With(seen[k], val[k[1]][3]) ELSE seen[k]]
  /\ pc' = [pc EXCEPT ![p] = "flush"]
  /\ UNCHANGED <<call, txn, rows, stops, clash, failed>>

\* DCsync_trends: all trends of the cache, when the syncers are gone.
DCsync_trends ==
  /\ \A p \in Procs : pc[p] = "idle"
  /\ stops < MaxStops /\ stops' = stops + 1
  /\ \E is \in SetToSeqs(DOMAIN cache) :
       trends' = [trends EXCEPT ![Parent] = [n \in DOMAIN is |-> Copy(is[n])]]
  /\ cache' = [i \in DOMAIN cache |-> [cache[i] EXCEPT !.clock = 0, !.agg = None]]
  /\ pc' = [pc EXCEPT ![Parent] = "flush"]
  /\ UNCHANGED <<call, txn, rows, busy, seen, received, clash, failed>>
--------------------------------------------------------------------------------
(***************************************************************************)
(* DCflush_trends: the trends of one hour and table, those of the first    *)
(* trend of the array, up to trends_to.  A trend that has been written has *)
(* itemid 0.                                                               *)
(***************************************************************************)

Due(c, t) == t.clock = c.clock /\ t.type = c.type

\* The trends of the array that the first query asks for: nothing is known of them.
Unknown(c, ts) == {n \in DOMAIN ts : Due(c, ts[n]) /\ ts[n].disable_from = 0}

\* trends_to: where the query has got ZBX_SYNC_MAX items.
TrendsTo(c, ts) ==
  LET full == {n \in Unknown(c, ts) :
                 Cardinality({m \in Unknown(c, ts) : m <= n}) = ZBX_SYNC_MAX}
  IN IF full = {} THEN Len(ts) ELSE CHOOSE n \in full : TRUE

\* What the database shows to the transaction of p.
Visible(p) == Override(rows, txn[p])

\* select distinct itemid from ... where clock>=...
NewerRows(p, t) ==
  {k \in DOMAIN Visible(p) : k[1] = t.itemid /\ k[2] = t.type /\ k[3] >= t.clock}

\* The first query: an item with no row from this hour on needs no second query.
FlushProbe(p) ==
  /\ pc[p] = "flush" /\ trends[p] # <<>>
  /\ LET ts == trends[p]
         head == [clock |-> ts[1].clock, type |-> ts[1].type, to |-> 0]
         to == TrendsTo(head, ts)
     IN /\ call' = [call EXCEPT ![p] = [head EXCEPT !.to = to]]
        /\ trends' = [trends EXCEPT ![p] =
             [n \in DOMAIN ts |->
                IF n <= to /\ n \in Unknown(head, ts) /\ NewerRows(p, ts[n]) = {}
                THEN [ts[n] EXCEPT !.disable_from = head.clock] ELSE ts[n]]]
  /\ pc' = [pc EXCEPT ![p] = "merge"]
  /\ UNCHANGED <<cache, txn, rows, busy, stops, seen, received, clash, failed>>

\* The trends the call is about, and has not written yet.
Pending(p) ==
  {n \in 1 .. call[p].to : Due(call[p], trends[p][n]) /\ trends[p][n].itemid # 0}

Key(t) == <<t.itemid, t.type, t.clock>>

\* The trends of the array with the ones at ns marked as written.
Written(p, ns) ==
  [n \in DOMAIN trends[p] |->
     IF n \in ns THEN [trends[p][n] EXCEPT !.itemid = 0] ELSE trends[p][n]]

\* Mutant of KnownNew: also the hour before disable_from.
KnownNewEarly(t) == t.disable_from # 0 /\ t.disable_from <= t.clock + 1

\* There is no row for the trend.
KnownNew(t) == t.disable_from # 0 /\ t.disable_from <= t.clock

\* Mutant of Merged: the maximum of the row is forgotten.
MergedNewMax(row, a) ==
  [num |-> row.num + a.num, min |-> Lesser(row.min, a.min), max |-> a.max,
   avg |-> (row.num * row.avg + a.sum) \div (row.num + a.num)]

\* The values of a row and of a trend together.
Merged(row, a) ==
  [num |-> row.num + a.num, min |-> Lesser(row.min, a.min), max |-> Greater(row.max, a.max),
   avg |-> (row.num * row.avg + a.sum) \div (row.num + a.num)]

\* The second query, and an UPDATE for every row found.
FlushMerge(p) ==
  /\ pc[p] = "merge"
  /\ LET found == {n \in Pending(p) :
                     ~KnownNew(trends[p][n]) /\ Key(trends[p][n]) \in DOMAIN Visible(p)}
         Of(k) == CHOOSE n \in found : Key(trends[p][n]) = k
     IN /\ txn' = [txn EXCEPT ![p] = Override(@,
             [k \in {Key(trends[p][n]) : n \in found} |->
                Merged(Visible(p)[k], trends[p][Of(k)].agg)])]
        /\ trends' = [trends EXCEPT ![p] = Written(p, found)]
  /\ pc' = [pc EXCEPT ![p] = IF p = Parent THEN "insert" ELSE "cache"]
  /\ UNCHANGED <<cache, call, rows, busy, stops, seen, received, clash, failed>>

\* From the next hour on the item has no row.
NextFrom(hour) == hour + 1

\* update_cache: the cached trend learns it too, under LOCK_TRENDS.
FlushCache(p) ==
  /\ pc[p] = "cache"
  /\ LET known == {trends[p][n].itemid : n \in {m \in Pending(p) : KnownNew(trends[p][m])}}
     IN cache' = [i \in DOMAIN cache |->
          IF i \in known THEN [cache[i] EXCEPT !.disable_from = NextFrom(call[p].clock)]
                         ELSE cache[i]]
  /\ pc' = [pc EXCEPT ![p] = "insert"]
  /\ UNCHANGED <<trends, call, txn, rows, busy, stops, seen, received, clash, failed>>

\* The row of a trend.
Row(a) == [num |-> a.num, min |-> a.min, max |-> a.max, avg |-> a.sum \div a.num]

\* The trends of the array that the call leaves.
Unwritten(p) == {n \in DOMAIN trends[p] : trends[p][n].itemid # 0 /\ n \notin Pending(p)}

\* The INSERTs; then the array is left with the trends not written yet.
FlushInsert(p) ==
  /\ pc[p] = "insert"
  /\ LET Of(k) == CHOOSE n \in Pending(p) : Key(trends[p][n]) = k
         ks == {Key(trends[p][n]) : n \in Pending(p)}
     IN /\ clash' = clash \cup {k[1] : k \in ks \cap DOMAIN Visible(p)}
        /\ txn' = [txn EXCEPT ![p] = Override(@, [k \in ks |-> Row(trends[p][Of(k)].agg)])]
  /\ \E left \in SetToSeqs(Unwritten(p)) :
       /\ \A m, n \in DOMAIN left : m < n => left[m] < left[n]
       /\ trends' = [trends EXCEPT ![p] = [n \in DOMAIN left |-> trends[p][left[n]]]]
  /\ pc' = [pc EXCEPT ![p] = "flush"]
  /\ UNCHANGED <<cache, call, rows, busy, stops, seen, received, failed>>

\* The array is empty: the transaction is committed and the items are released.
\* For the parent this is the end of the server; another one starts with an
\* empty cache.
Commit(p) ==
  /\ pc[p] = "flush" /\ trends[p] = <<>>
  /\ \/ rows' = Override(rows, txn[p]) /\ UNCHANGED failed
     \/ TxnFails /\ failed' = TRUE /\ UNCHANGED rows
  /\ txn' = [txn EXCEPT ![p] = Empty]
  /\ call' = [call EXCEPT ![p] = NoCall]
  /\ busy' = [busy EXCEPT ![p] = {}]
  /\ pc' = [pc EXCEPT ![p] = "idle"]
  /\ cache' = IF p = Parent THEN Empty ELSE cache
  /\ UNCHANGED <<trends, stops, seen, received, clash>>

Step(p) == FlushProbe(p) \/ FlushMerge(p) \/ FlushCache(p) \/ FlushInsert(p) \/ Commit(p)

Next ==
  \/ \E p \in Syncers : DCmass_update_trends(p)
  \/ DCsync_trends
  \/ \E p \in Procs : Step(p)

Spec == Init /\ [][Next]_vars

--------------------------------------------------------------------------------
(***************************************************************************)
(* Properties.                                                             *)
(***************************************************************************)

Aggregates == [num : 0 .. MaxValues, min : Values \cup {0}, max : Values \cup {0}, sum : Nat]

\* The variables hold what the C structures can hold; no clock goes past the last
\* hour, no disable_from past the hour after it.
TypeOK ==
  /\ DOMAIN cache \subseteq Items
  /\ \A i \in DOMAIN cache :
       cache[i] \in [clock : 0 .. Hours, type : Tables, disable_from : 0 .. Hours + 1, agg : Aggregates]
  /\ pc \in [Procs -> {"idle", "flush", "merge", "cache", "insert"}]
  /\ \A p \in Procs : \A n \in DOMAIN trends[p] :
       trends[p][n] \in [itemid : Items \cup {0}, clock : 1 .. Hours, type : Tables,
                         disable_from : 0 .. Hours + 1, agg : Aggregates]
  /\ DOMAIN rows \subseteq Keys /\ \A p \in Procs : DOMAIN txn[p] \subseteq Keys
  /\ busy \in [Procs -> SUBSET Items]

\* The item has had values of more than one type.
Retyped(i) == \E t, u \in Tables : t # u /\ \E h, k \in 1 .. Hours :
                 seen[<<i, t, h>>].num > 0 /\ seen[<<i, u, k>>].num > 0

\* No INSERT of DCflush_trends meets a row with the same item and hour: skipping
\* the query for items with disable_from is safe. (The database would refuse the
\* INSERT and with it the history of the whole batch.) The exception is an item
\* that changed its value type and whose rows were written by an earlier server:
\* disable_from is learned from one table and used for the other.
NoKeyClash == \A i \in clash : stops > 0 /\ Retyped(i)

\* What disable_from stands for, as long as the server runs: from that hour on
\* the item has no row, neither committed nor written by an open transaction.
DisableFromSound ==
  \A i \in DOMAIN cache : pc[Parent] = "idle" /\ cache[i].disable_from # 0 =>
    \A k \in DOMAIN rows \cup UNION {DOMAIN txn[p] : p \in Procs} :
      k[1] = i => k[3] < cache[i].disable_from \/ (stops > 0 /\ Retyped(i))

\* Skipping the query is safe because what disable_from stands for is true.
KeysSound == TypeOK /\ NoKeyClash /\ DisableFromSound

\* What is counted of a key in the cache, in an array and in its row.
InCache(k) == IF k[1] \in DOMAIN cache /\ cache[k[1]].type = k[2] /\ cache[k[1]].clock = k[3]
              THEN cache[k[1]].agg ELSE None
InArray(k) ==
  LET ps == {p \in Procs : \E n \in DOMAIN trends[p] : Key(trends[p][n]) = k}
      p == CHOOSE q \in ps : TRUE
  IN IF ps = {} THEN None ELSE trends[p][CHOOSE n \in DOMAIN trends[p] : Key(trends[p][n]) = k].agg
InRows(k) ==
  LET ps == {p \in Procs : k \in DOMAIN txn[p]}
  IN IF ps # {} THEN txn[CHOOSE p \in ps : TRUE][k] ELSE IF k \in DOMAIN rows THEN rows[k] ELSE None

\* Every value is counted once: in the cached trend, in a trend on its way to
\* the database or in the row of its hour, however often the hour changes back
\* and forth, as long as the database accepts what it is told.
CountedOnce ==
  ~failed /\ clash = {} =>
    \A k \in Keys : seen[k].num = InCache(k).num + InArray(k).num + InRows(k).num

\* A row that holds all values of its hour has their minimum and maximum, and
\* an average that lies between them and is not above the true one, however
\* many times the row was merged with a trend.
RowsExact ==
  \A k \in DOMAIN rows : k[1] \notin clash /\ rows[k].num = seen[k].num =>
    /\ rows[k].min = seen[k].min /\ rows[k].max = seen[k].max
    /\ rows[k].min <= rows[k].avg /\ rows[k].avg <= rows[k].max
    /\ rows[k].avg * rows[k].num <= seen[k].sum
================================================================================
