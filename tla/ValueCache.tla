----------------------------- MODULE ValueCache -----------------------------
(***************************************************************************)
(* One item of the value cache (libs/zbxdbcache/valuecache.c).  History    *)
(* syncers write values to the database inside a transaction, add them to  *)
(* the cache, and evaluate triggers, which request values.  A request that *)
(* the cache cannot answer reads the database with the cache unlocked and  *)
(* puts the older values in front of the cached ones.                      *)
(*                                                                         *)
(* A value is its timestamp: NsPerSec values share a second.  The values   *)
(* of an item lie in chunks of slots; slots outside of first..last hold    *)
(* nothing (Garbage).  The other items are an environment that may need    *)
(* the memory.  The string pool, statistics and the split of a count based *)
(* query into periods are left out.                                        *)
(***************************************************************************)
EXTENDS Integers, Sequences, FiniteSets, SequencesExt, FiniteSetsExt

CONSTANTS
    VCProcs,        \* history syncers
    MaxSec,         \* bound on the clock
    NsPerSec,       \* how many timestamps there are in a second
    Requests,       \* the requests: records with kind, seconds or count, shift
    MaxWritten,     \* bound on the number of values written
    MinChunk,       \* ZBX_VC_MIN_CHUNK_RECORDS
    MaxChunk,       \* ZBX_VC_MAX_CHUNK_RECORDS
    CleanSlack,     \* SEC_PER_MIN in vch_item_clean_cache
    MayEvict,       \* whether other items may need the memory
    EvictUnread,    \* whether an item that was never read counts as unused for a day
    MayFail,        \* the allocations for a cached item that may fail
    SecondsInOrder, \* whether the values of a second arrive in their order
    LateIntoEmpty   \* whether an old value may come while no value is cached

ASSUME VCAssumption ==
    /\ {MaxSec, NsPerSec, MinChunk, MaxChunk} \subseteq Nat \ {0} /\ MinChunk <= MaxChunk
    /\ {CleanSlack, MaxWritten} \subseteq Nat
    /\ {MayEvict, EvictUnread, SecondsInOrder, LateIntoEmpty} \subseteq BOOLEAN
    /\ MayFail \subseteq {"new", "late", "fill"}

VARIABLES
    vcNow,      \* ZBX_VC_TIME()
    vcDb,       \* committed values
    vcPend,     \* values of each process's open transaction
    vcItem,     \* the zbx_vc_item_t, if known
    vcLow,      \* low_memory
    vcProc,     \* the request of each process
    vcRaced,    \* ghost: values written while another process reads the database
    vcWritten,  \* ghost: all values written so far
    vcWrong     \* ghost: a request got a wrong answer

vcVars == <<vcNow, vcDb, vcPend, vcItem, vcLow, vcProc, vcRaced, vcWritten, vcWrong>>

Garbage == 0
Earlier(v, w) == v < w
VCSec(v) == v \div NsPerSec
LastOfSec(s) == (s + 1) * NsPerSec - 1      \* {s, VC_MAX_NANOSECONDS}

NoVCItem  == [known |-> FALSE, chunks |-> <<>>, cached_all |-> FALSE, range |-> 0, refcount |-> 0,
              clean |-> FALSE, remove |-> FALSE, last_accessed |-> FALSE]
NewVCItem == [NoVCItem EXCEPT !.known = TRUE]

NoQuery   == [kind |-> "none"]
NoVCProc  == [pc |-> "idle", req |-> NoQuery, at |-> 0, query |-> NoQuery, read |-> FALSE, rows |-> {}]

Newest(S, n) == {v \in S : Cardinality({w \in S : w > v}) < n}

-----------------------------------------------------------------------------
(* The database *)

vc_db_read_values_by_time(view, seconds, end) ==
    {v \in view : VCSec(v) > end - seconds /\ VCSec(v) <= end}

\* The values after count_ts, and count values up to it with all others in the
\* second of the last of these.
vc_db_read_values_by_count(view, count, end, count_ts) ==
    LET upto  == {v \in view : VCSec(v) <= end}
        older == {v \in upto : v <= count_ts}
        last  == Newest(older, count)
    IN  (upto \ older) \cup last \cup
        {v \in older : Cardinality(last) = count /\ VCSec(v) = VCSec(Min(last))}

ReadDb(view, q) ==
    IF q.kind = "time" THEN vc_db_read_values_by_time(view, q.seconds, q.end)
    ELSE vc_db_read_values_by_count(view, q.count, q.end, q.ts)

-----------------------------------------------------------------------------
(* The chunks: slots first .. first + Len(vals) - 1 of 0 .. slots - 1 are used *)

LastSlot(ch) == ch.first + Len(ch.vals) - 1
VCSlot(ch, n)  == IF n \in ch.first .. LastSlot(ch) THEN ch.vals[n - ch.first + 1] ELSE Garbage
Cached(it)   == FlattenSeq([c \in DOMAIN it.chunks |-> it.chunks[c].vals])
Oldest(it)   == Cached(it)[1]
CachedSet(it) == ToSet(Cached(it))

vch_get_new_chunk_slot_count(n) ==
    IF n > MaxChunk THEN MaxChunk ELSE IF n < MinChunk THEN MinChunk ELSE n

\* vch_item_copy_values_at_end, for one value, after a new chunk where needed
AppendValue(chunks, v) ==
    LET n     == Len(chunks)
        total == Len(FlattenSeq([c \in DOMAIN chunks |-> chunks[c].vals]))
    IN  IF n > 0 /\ LastSlot(chunks[n]) < chunks[n].slots - 1
        THEN [chunks EXCEPT ![n].vals = Append(@, v)]
        ELSE Append(chunks, [first |-> 0, vals |-> <<v>>,
                             slots |-> vch_get_new_chunk_slot_count(total \div 2 + 1)])

\* vch_item_copy_values_at_beginning, for one value; count are left to be copied
PrependValue(chunks, v, count) ==
    IF chunks # <<>> /\ chunks[1].first > 0
    THEN [chunks EXCEPT ![1].vals = <<v>> \o @, ![1].first = @ - 1]
    ELSE LET slots == vch_get_new_chunk_slot_count(count)
         IN  <<[first |-> slots - 1, vals |-> <<v>>, slots |-> slots]>> \o chunks

\* The slot from which values are taken out to make room for v: that of the last
\* value that is not newer.  If the second of v begins with newer ones it is the
\* slot of the first of them, but with the chunk of the value before it.
InsertPlace(it, v) ==
    LET Val(p)  == VCSlot(it.chunks[p[1]], p[2])
        places  == {<<c, n>> \in (DOMAIN it.chunks) \X (0 .. MaxChunk) :
                      n \in it.chunks[c].first .. LastSlot(it.chunks[c])}
        At(x)   == CHOOSE p \in places : Val(p) = x
        vals    == {Val(p) : p \in places}
        before  == At(Max({x \in vals : x <= v}))
        newer   == {x \in vals : x > v /\ VCSec(x) = VCSec(v)}
    IN  IF newer = {} THEN before ELSE <<before[1], At(Min(newer))[2]>>

\* vch_item_get_values_from
TakenFrom(it, p) ==
    LET ch == it.chunks[p[1]]
    IN  [n \in 1 .. LastSlot(ch) - p[2] + 1 |-> VCSlot(ch, p[2] + n - 1)] \o
        FlattenSeq([c \in 1 .. Len(it.chunks) - p[1] |-> it.chunks[p[1] + c].vals])

\* vch_item_remove_values_from
KeptBefore(it, p) ==
    LET ch == it.chunks[p[1]]
    IN  IF p[2] - 1 < ch.first THEN SubSeq(it.chunks, 1, p[1] - 1)
        ELSE Append(SubSeq(it.chunks, 1, p[1] - 1),
                    [ch EXCEPT !.vals = [n \in 1 .. p[2] - ch.first |-> VCSlot(ch, ch.first + n - 1)]])

\* Mutant: a late value in front of the cached ones leaves the range as it is
SkippedKeepsRange(it, v) == it

\* vch_item_add_values_at_end: a value older than all cached ones is not added
Skipped(it, v) ==
    [it EXCEPT !.cached_all = FALSE,
               !.range = IF vcNow - VCSec(v) <= @ THEN vcNow - VCSec(v) - 1 ELSE @]

\* The outcomes: the last one is for a new chunk that cannot be allocated.
vch_item_add_values_at_end(it, v) ==
    LET old  == Cached(it)
        late == old # <<>> /\ old[Len(old)] > v
        kept == IF late THEN KeptBefore(it, InsertPlace(it, v)) ELSE it.chunks
        new  == IF late THEN SortSeq(<<v>> \o TakenFrom(it, InsertPlace(it, v)), Earlier) ELSE <<v>>
        all  == FoldLeft(AppendValue, kept, new)
    IN  IF late /\ old[1] > v THEN {Skipped(it, v)}
        ELSE {[it EXCEPT !.chunks = all,
                         !.clean = @ \/ Len(kept) < Len(it.chunks) \/ Len(all) > Len(kept)]} \cup
             {[it EXCEPT !.chunks = SubSeq(all, 1, Len(kept)), !.remove = TRUE] :
                 f \in {f \in MayFail : Len(all) > Len(kept) /\ f = IF late THEN "late" ELSE "new"}}

\* values of the seconds that are cached already are skipped
ToPrepend(it, vals) ==
    IF it.chunks = <<>> THEN vals ELSE {v \in vals : VCSec(v) < VCSec(Oldest(it))}

vch_item_add_values_at_beginning(it, vals) ==
    LET new == Reverse(SetToSortSeq(ToPrepend(it, vals), Earlier))
        Put(chunks, n) == PrependValue(chunks, new[n], Len(new) - n + 1)
    IN  [it EXCEPT !.chunks = FoldLeft(Put, @, [n \in DOMAIN new |-> n])]

\* Chunks with no value in the range are removed; values of the same second go
\* together.
vch_item_clean_cache(it) ==
    LET limit == vcNow - it.range - CleanSlack
        gone  == Cardinality({c \in DOMAIN it.chunks : VCSec(Last(it.chunks[c].vals)) < limit})
        rest  == SubSeq(it.chunks, gone + 1, Len(it.chunks))
        sec   == VCSec(Last(it.chunks[gone].vals))
        same  == Cardinality({n \in DOMAIN rest[1].vals : VCSec(rest[1].vals[n]) = sec})
        trim  == gone > 0 /\ rest # <<>> /\ VCSec(rest[1].vals[1]) # VCSec(Last(rest[1].vals))
    IN  IF it.range = 0 \/ gone = 0 THEN it
        ELSE [it EXCEPT !.cached_all = FALSE,
                        !.chunks = IF trim
                                   THEN [rest EXCEPT ![1].vals = SubSeq(@, same + 1, Len(@)),
                                                     ![1].first = @ + same]
                                   ELSE rest]

vc_item_release(it) ==
    LET left == [it EXCEPT !.refcount = @ - 1]
    IN  IF left.refcount # 0 THEN left
        ELSE IF left.remove THEN NoVCItem
        ELSE [(IF left.clean THEN vch_item_clean_cache(left) ELSE left)
              EXCEPT !.clean = FALSE, !.remove = FALSE]

-----------------------------------------------------------------------------
(* Requests *)

RequestEnd(req, at) == at - req.shift

\* The query that makes the cached values sufficient (vch_item_cache_values_by_...)
CacheQuery(it, req, at) ==
    LET ts      == RequestEnd(req, at)
        upto    == {v \in CachedSet(it) : v <= LastOfSec(ts)}
        empty   == it.chunks = <<>>
        end     == IF empty THEN vcNow ELSE VCSec(Oldest(it)) - 1
        start   == ts - req.seconds
    IN  CASE it.cached_all -> NoQuery
          [] ~ it.cached_all /\ req.kind = "time" ->
                IF (empty \/ start < vcNow - it.range) /\ end - start > 0
                THEN [kind |-> "time", seconds |-> end - start, end |-> end] ELSE NoQuery
          [] ~ it.cached_all /\ req.kind # "time" ->
                IF Cardinality(upto) < req.count
                THEN [kind |-> "count", count |-> req.count - Cardinality(upto), end |-> end,
                      ts |-> LastOfSec(ts)]
                ELSE NoQuery

\* vc_add_item: the query for an item that is not cached
AddQuery(req, at) ==
    IF req.kind = "time"
    THEN [kind |-> "time", seconds |-> vcNow - RequestEnd(req, at) + req.seconds, end |-> vcNow]
    ELSE [kind |-> "count", count |-> IF req.count = 1 THEN 2 ELSE req.count, end |-> vcNow,
          ts |-> LastOfSec(RequestEnd(req, at))]

\* zbx_vc_get_value_range without the cache
DirectQuery(req, at) ==
    IF req.kind = "time"
    THEN [kind |-> "time", seconds |-> req.seconds, end |-> RequestEnd(req, at)]
    ELSE [kind |-> "count", count |-> req.count, end |-> RequestEnd(req, at),
          ts |-> LastOfSec(RequestEnd(req, at))]

\* The values of S that the request is for.
Answer(S, req, at) ==
    LET upto == {v \in S : VCSec(v) <= RequestEnd(req, at)}
    IN  IF req.kind = "time" THEN {v \in upto : VCSec(v) > RequestEnd(req, at) - req.seconds}
        ELSE Newest(upto, req.count)

\* What a request notes in the item (vch_item_get_values_by_time / _by_count,
\* vch_item_get_value)
RangeAfter(it, req, at) ==
    LET got   == Answer(CachedSet(it), req, at)
        AtLeast(n) == [it EXCEPT !.range = Max({@, n})]
    IN  CASE req.kind = "time" ->
                IF it.range # 0 \/ ~ it.cached_all
                THEN AtLeast(req.seconds + vcNow - RequestEnd(req, at)) ELSE it
          [] req.kind # "time" /\ Cardinality(got) = req.count ->
                AtLeast(vcNow - VCSec(Min(got)))
          [] req.kind = "value" /\ Cardinality(got) < req.count -> [it EXCEPT !.cached_all = TRUE]
          [] req.kind = "count" /\ Cardinality(got) < req.count ->
                [it EXCEPT !.range = 0, !.cached_all = TRUE]

\* vch_init
vch_init(it, req, at, rows) ==
    LET ts   == RequestEnd(req, at)
        upto == {v \in rows : VCSec(v) <= ts}
        all  == req.kind # "time" /\ rows # {} /\
                Cardinality(upto) < (IF req.kind = "count" /\ req.count = 1 THEN 2 ELSE req.count)
        range == CASE rows = {}                          -> 0
                   [] rows # {} /\ req.kind = "time"     -> vcNow - ts + req.seconds
                   [] rows # {} /\ req.kind # "time"     ->
                         IF all THEN 0 ELSE vcNow - VCSec(Min(rows))
    IN  vch_item_add_values_at_beginning([it EXCEPT !.cached_all = all, !.range = range], rows)

VCInit ==
    /\ vcNow = 1 /\ vcDb = {} /\ vcPend = [p \in VCProcs |-> {}] /\ vcLow = FALSE
    /\ vcItem = NoVCItem /\ vcProc = [p \in VCProcs |-> NoVCProc]
    /\ vcRaced = {} /\ vcWritten = {} /\ vcWrong = FALSE

InRead(p)  == vcProc[p].pc \in {"add", "fill", "direct"}
Others(p)  == VCProcs \ {p}
Holds(p)   == vcProc[p].pc \in {"fill", "direct"}

\* The values of the open transactions of other processes
Unseen(p) == UNION {vcPend[q] : q \in Others(p)}

\* The order in which values come; see the constants.
MayCome(v) ==
    /\ SecondsInOrder => \A w \in vcWritten : VCSec(w) = VCSec(v) => w < v
    /\ LateIntoEmpty \/ ~ vcItem.known \/ vcItem.chunks # <<>> \/ \A w \in vcWritten : VCSec(w) < VCSec(v)

\* A value is written to the database and, before the commit, to the cache
\* (DCmass_add_history, zbx_vc_add_value).
AddValue(p, v) ==
    /\ vcProc[p].pc = "idle"
    /\ v \notin vcWritten /\ VCSec(v) \in 1 .. vcNow /\ MayCome(v)
    /\ Cardinality(vcWritten) < MaxWritten
    /\ vcPend' = [vcPend EXCEPT ![p] = @ \cup {v}]
    /\ vcWritten' = vcWritten \cup {v}
    /\ vcRaced' = IF \E q \in Others(p) : InRead(q) THEN vcRaced \cup {v} ELSE vcRaced
    /\ IF vcItem.known
       THEN \E it \in vch_item_add_values_at_end([vcItem EXCEPT !.refcount = @ + 1], v) :
               /\ vcItem' = vc_item_release(it)
               /\ vcLow' = (vcLow \/ it.remove # vcItem.remove)
       ELSE UNCHANGED <<vcItem, vcLow>>
    /\ UNCHANGED <<vcNow, vcDb, vcProc, vcWrong>>

VCCommit(p) ==
    /\ vcProc[p].pc = "idle" /\ vcPend[p] # {}
    /\ vcDb' = vcDb \cup vcPend[p] /\ vcPend' = [vcPend EXCEPT ![p] = {}]
    /\ UNCHANGED <<vcNow, vcItem, vcLow, vcProc, vcRaced, vcWritten, vcWrong>>

\* The database goes down: what is in the cache stays there.
VCRollback(p) ==
    /\ vcProc[p].pc = "idle" /\ vcPend[p] # {}
    /\ vcPend' = [vcPend EXCEPT ![p] = {}]
    /\ UNCHANGED <<vcNow, vcDb, vcItem, vcLow, vcProc, vcRaced, vcWritten, vcWrong>>

VCTick ==
    /\ vcNow < MaxSec /\ vcNow' = vcNow + 1
    /\ UNCHANGED <<vcDb, vcPend, vcItem, vcLow, vcProc, vcRaced, vcWritten, vcWrong>>

\* A request gets every value that is in the database, for the period or among
\* the newest that it asks for, and nothing that was never written.
RightAnswer(p, req, at, result) ==
    LET enough == [req EXCEPT !.count = MaxWritten]
    IN  /\ result \subseteq Answer(vcWritten, enough, at)
        /\ \A v \in Answer(vcDb \cup vcPend[p], enough, at) \ vcRaced :
              \/ v \in result
              \/ req.kind # "time" /\ Cardinality(result) = req.count /\ \A w \in result : w > v

\* The request returns.
Answered(p, req, at, result) ==
    /\ vcProc' = [vcProc EXCEPT ![p] = NoVCProc]
    /\ vcWrong' = (vcWrong \/ ~ RightAnswer(p, req, at, result))

\* last_accessed is set by a request,
\* but by zbx_vc_get_value for an item that it has added.
Accessed(it, pr) ==
    IF pr.req.kind = "value" /\ pr.pc = "add" THEN it ELSE [it EXCEPT !.last_accessed = TRUE]

\* zbx_vc_get_value_range and zbx_vc_get_value up to the first database read, if
\* there is one.
StartRequest(p, req) ==
    LET it   == [vcItem EXCEPT !.refcount = @ + 1]
        q    == CacheQuery(it, req, vcNow)
        base == [NoVCProc EXCEPT !.req = req, !.at = vcNow]
        Reading(pc, query) ==
            /\ vcProc' = [vcProc EXCEPT ![p] = [base EXCEPT !.pc = pc, !.query = query]]
            /\ vcRaced' = vcRaced \cup Unseen(p) /\ UNCHANGED vcWrong
    IN  /\ vcProc[p].pc = "idle" /\ vcNow > req.shift
        /\ IF ~ vcItem.known
           THEN Reading("add", AddQuery(req, vcNow)) /\ UNCHANGED vcItem
           ELSE IF vcItem.remove THEN Reading("direct", NoQuery) /\ vcItem' = it
           ELSE IF q # NoQuery THEN Reading("fill", q) /\ vcItem' = it
           ELSE /\ Answered(p, req, vcNow, Answer(CachedSet(it), req, vcNow))
                /\ vcItem' = vc_item_release(Accessed(RangeAfter(it, req, vcNow), base))
                /\ UNCHANGED vcRaced
        /\ UNCHANGED <<vcNow, vcDb, vcPend, vcLow, vcWritten>>

\* The SELECT, with the cache unlocked: the process sees its own transaction.
ReadDatabase(p) ==
    LET pr   == vcProc[p]
        view == vcDb \cup vcPend[p]
        rows == IF pr.pc = "direct" THEN Answer(view, pr.req, pr.at) ELSE ReadDb(view, pr.query)
    IN  /\ InRead(p) /\ ~ pr.read
        /\ vcProc' = [vcProc EXCEPT ![p].read = TRUE, ![p].rows = rows,
                                  ![p].query = NoQuery]
        /\ UNCHANGED <<vcNow, vcDb, vcPend, vcItem, vcLow, vcRaced, vcWritten, vcWrong>>

\* vc_add_item after the read: another process may have added the item meanwhile.
EndAdd(p) ==
    LET pr == vcProc[p]
        it == IF vcItem.known THEN vch_item_add_values_at_beginning(vcItem, pr.rows)
              ELSE vch_init(NewVCItem, pr.req, pr.at, pr.rows)
    IN  /\ pr.pc = "add" /\ pr.read
        /\ vcItem' = IF vcItem.known \/ ~ vcLow
                     THEN vc_item_release(Accessed([it EXCEPT !.refcount = @ + 1], pr)) ELSE vcItem
        /\ Answered(p, pr.req, pr.at, Answer(pr.rows, pr.req, pr.at))
        /\ UNCHANGED <<vcNow, vcDb, vcPend, vcLow, vcRaced, vcWritten>>

\* vch_item_cache_values_by_time / _by_count after the read, and the answer
EndFill(p) ==
    LET pr == vcProc[p]
        it == vch_item_add_values_at_beginning(vcItem, pr.rows)
    IN  /\ pr.pc = "fill" /\ pr.read
        /\ vcItem' = vc_item_release(Accessed(RangeAfter(it, pr.req, pr.at), pr))
        /\ Answered(p, pr.req, pr.at, Answer(CachedSet(it), pr.req, pr.at))
        /\ UNCHANGED <<vcNow, vcDb, vcPend, vcLow, vcRaced, vcWritten>>

\* The values do not fit: the item will be removed, the database is read again.
FailFill(p) ==
    /\ "fill" \in MayFail /\ vcProc[p].pc = "fill" /\ vcProc[p].read
    /\ ToPrepend(vcItem, vcProc[p].rows) # {}
    /\ vcItem' = [vcItem EXCEPT !.remove = TRUE] /\ vcLow' = TRUE
    /\ vcProc' = [vcProc EXCEPT ![p].pc = "direct", ![p].read = FALSE, ![p].rows = {}]
    /\ UNCHANGED <<vcNow, vcDb, vcPend, vcRaced, vcWritten, vcWrong>>

EndDirect(p) ==
    /\ vcProc[p].pc = "direct" /\ vcProc[p].read
    /\ vcItem' = vc_item_release(vcItem)
    /\ Answered(p, vcProc[p].req, vcProc[p].at, vcProc[p].rows)
    /\ UNCHANGED <<vcNow, vcDb, vcPend, vcLow, vcRaced, vcWritten>>

\* Mutant: items in use are removed too
vc_release_spaceAny ==
    /\ MayEvict /\ vcItem.known /\ vcItem' = NoVCItem /\ vcLow' = TRUE
    /\ UNCHANGED <<vcNow, vcDb, vcPend, vcProc, vcRaced, vcWritten, vcWrong>>

\* Another item needs memory: this one goes if its last access is older than a
\* day, or if nobody uses it and the memory is low.  A last_accessed that was
\* never set is older than a day; that a request takes a day is left out.
vc_release_space ==
    /\ MayEvict /\ vcItem.known /\ vcItem' = NoVCItem
    /\ \/ EvictUnread /\ ~ vcItem.last_accessed /\ UNCHANGED vcLow
       \/ vcItem.refcount = 0 /\ vcLow' \in {vcLow, TRUE}
    /\ UNCHANGED <<vcNow, vcDb, vcPend, vcProc, vcRaced, vcWritten, vcWrong>>

VCNext ==
    \/ VCTick \/ vc_release_space
    \/ \E p \in VCProcs :
          \/ \E v \in NsPerSec .. LastOfSec(MaxSec) : AddValue(p, v)
          \/ \E req \in Requests : StartRequest(p, req)
          \/ VCCommit(p) \/ VCRollback(p) \/ ReadDatabase(p) \/ EndAdd(p) \/ EndFill(p)
          \/ FailFill(p) \/ EndDirect(p)

VCSpec == VCInit /\ [][VCNext]_vcVars

-----------------------------------------------------------------------------
(* Properties *)

\* Every request gets the right answer, unless the value was on its way to the
\* cache while another process read the database (zbx_vc_get_value_range: "this
\* function will always return the requested data").
AnswersRight == ~ vcWrong

\* An item in use is in the cache, and its reference counter is the number of
\* its users: vc_item_release removes or cleans an item only after the last one.
RefsExact ==
    vcItem.refcount = Cardinality({p \in VCProcs : Holds(p)})

\* The cached values are in order and, from the oldest on, complete: a late value
\* is put in its place or in front, where the database is read again.
NoHoles ==
    LET vals == Cached(vcItem)
    IN  /\ \A n \in 1 .. Len(vals) - 1 : vals[n] < vals[n + 1]
        /\ vals # <<>> /\ ~ vcItem.remove =>
              \A v \in vcDb \ vcRaced : v >= vals[1] => v \in CachedSet(vcItem)

\* What the users of an item rely on when they take the lock again after a query:
\* the item is still there for them, and its values have no hole.
ItemSound == RefsExact /\ NoHoles
=============================================================================
