---------------------------- MODULE PollerQueue ----------------------------
(***************************************************************************)
(* The items of one host on their way between the poller queues of the      *)
(* configuration cache (libs/zbxdbcache/dbconfig.c) and the pollers         *)
(* (zabbix_server/poller/poller.c), and the availability of that host.      *)
(*                                                                          *)
(* A poller takes the item with the smallest nextcheck from the queue of    *)
(* its type, polls it without any lock, updates the availability of the     *)
(* host in the cache and then in the database, and returns the item.  A     *)
(* host with network errors is left to the unreachable pollers.  Meanwhile  *)
(* the configuration syncer adds, deletes and moves items, the timer        *)
(* changes the maintenance of the host, and a history syncer may find the   *)
(* value of an item unsuitable and requeue the item too.                    *)
(*                                                                          *)
(* The queues are the heaps of HeapOps over the shared nextcheck of the     *)
(* items.  All items have the same type, one with an availability of its    *)
(* own, and a plain interval.  The Java pollers, which take several items   *)
(* at once, are not modelled.                                               *)
(***************************************************************************)
EXTENDS HeapOps

CONSTANTS
    Items,              \* itemids
    Pollers,            \* the processes that serve the normal queue
    UnreachablePollers, \* the processes that serve the unreachable queue
    ItemType,           \* "agent", "snmp" or "ipmi": the type of the items
    Delays,             \* for each item, the intervals it may be given
    Refreshes,          \* the values the setting refresh_unsupported may be given
    UnreachableDelay,   \* CONFIG_UNREACHABLE_DELAY
    UnreachablePeriod,  \* CONFIG_UNREACHABLE_PERIOD
    UnavailableDelay,   \* CONFIG_UNAVAILABLE_DELAY
    Timeout,            \* CONFIG_TIMEOUT
    MaxTime,            \* bound on the clock
    MaxSyncs,           \* bound on the number of configuration syncs
    MayMove,            \* whether a sync may give the host to a proxy and back
    MayDelete,          \* whether a sync may delete and add items
    MayMaintain,        \* whether the host may enter maintenance without data
    MayReject           \* whether values may be unsuitable for their item

ASSUME ItemsAssumption == Items \subseteq Nat /\ IsFiniteSet(Items)
ASSUME ProcsAssumption == Pollers \cap UnreachablePollers = {}
ASSUME TimesAssumption ==
    /\ {UnreachableDelay, UnreachablePeriod, UnavailableDelay, Timeout} \subseteq Nat \ {0}
    /\ \A i \in Items : Delays[i] \subseteq Nat \ {0} /\ Delays[i] # {}
    /\ Refreshes \subseteq Nat /\ Refreshes # {}
    /\ MaxTime \in Nat \ {0} /\ MaxSyncs \in Nat

VARIABLES
    now,            \* the clock, starting at 1: 0 means "no errors" in errors_from
    item,           \* the items in the cache
    queues,         \* config->queues of the two poller types
    host,           \* availability of the host in the cache
    dbhost,         \* availability of the host in the database
    maintenance,    \* whether the host is in maintenance without data collection
    byProxy,        \* whether the host is monitored by a proxy
    proc,           \* the pollers
    lock,           \* LOCK_CACHE: "free", a poller, or "sync"
    sync,           \* the items a configuration sync has yet to look at, and its rows
    value,          \* the timestamp of an item's value in the history cache, 0: none
    refresh_unsupported,  \* interval of not supported items, 0: never
    syncs,          \* number of syncs so far
    rejected        \* whether a history syncer has requeued an item so far

config == <<maintenance, byProxy, refresh_unsupported>>
counts == <<syncs, rejected>>
vars == <<now, item, queues, host, dbhost, config, proc, lock, sync, value, counts>>

Procs == Pollers \cup UnreachablePollers
QueueTypes == {"NORMAL", "UNREACHABLE"}
TypeOfProc(p) == IF p \in Pollers THEN "NORMAL" ELSE "UNREACHABLE"

NoItem == [known |-> FALSE, location |-> "NOWHERE", poller_type |-> "NO", nextcheck |-> 0,
           state |-> "NORMAL", delay |-> 0]

NewHost == [errors_from |-> 0, available |-> "UNKNOWN", disable_until |-> 0]

\* The locals of get_values; one that is not read (again) has this value.
NoProc == [pc |-> "idle", now |-> 0, item |-> 0, host |-> NewHost, result |-> "OK", ts |-> 0,
           state |-> "NORMAL", before |-> NewHost, after |-> NewHost]

Free == lock = "free"

-----------------------------------------------------------------------------
(* When an item is due, and where *)

\* calculate_item_nextcheck for a plain interval: the next time in the item's
\* own phase; an interval of 0 is a year, which is never here
calculate_item_nextcheck(i, delay, t) ==
    IF delay = 0 THEN MaxTime + 1
    ELSE LET phase == delay * (t \div delay) + (i % delay)
         IN  IF phase > t THEN phase ELSE phase + delay

States == {"NORMAL", "NOTSUPPORTED"}

IntervalOf(state, delay) == IF state = "NOTSUPPORTED" THEN refresh_unsupported ELSE delay

DCget_reachable_nextcheck(i, state, t) ==
    calculate_item_nextcheck(i, IntervalOf(state, item[i].delay), t)

DCget_disable_until == IF host.errors_from # 0 THEN host.disable_until ELSE 0

DCget_unreachable_nextcheck(i, state) ==
    IF host.errors_from # 0 THEN host.disable_until
    ELSE DCget_reachable_nextcheck(i, state, now)

\* poller_by_item for the item types modelled
poller_by_item == IF byProxy THEN "NO" ELSE "NORMAL"

Nextchecks(i, t) == [j \in Items |-> IF j = i THEN t ELSE item[j].nextcheck]

\* Mutant: an item in the queue keeps its place
UpdatedQueuesInPlace(q, i, rec, old_poller_type, old_nextcheck) ==
    IF rec.location = "NOWHERE" /\ rec.poller_type # "NO"
    THEN [q EXCEPT ![rec.poller_type] = HeapInsert(@, Nextchecks(i, rec.nextcheck), i)] ELSE q

\* DCupdate_item_queue leaves queues q for item i, whose record is now rec
UpdatedQueues(q, i, rec, old_poller_type, old_nextcheck) ==
    LET next   == Nextchecks(i, rec.nextcheck)
        leaves == rec.location = "QUEUE" /\ old_poller_type # rec.poller_type
        left   == IF leaves THEN [q EXCEPT ![old_poller_type] = HeapRemove(@, next, i)] ELSE q
        queued == rec.location = "QUEUE" /\ ~ leaves /\ rec.poller_type # "NO"
    IN  CASE rec.location = "POLLER" \/ rec.poller_type = "NO"   -> left
          [] queued /\ old_nextcheck = rec.nextcheck             -> left
          [] queued /\ old_nextcheck # rec.nextcheck             ->
                [left EXCEPT ![rec.poller_type] = HeapUpdate(@, next, i)]
          [] OTHER                                               ->
                [left EXCEPT ![rec.poller_type] = HeapInsert(@, next, i)]

\* Mutant: an item that a poller has taken is queued as well
UpdatedLocationTaken(rec, old_poller_type) ==
    IF rec.poller_type # "NO" THEN "QUEUE" ELSE "NOWHERE"

UpdatedLocation(rec, old_poller_type) ==
    IF rec.location = "POLLER" THEN "POLLER"
    ELSE IF rec.poller_type # "NO" \/ (rec.location = "QUEUE" /\ old_poller_type = "NO")
         THEN "QUEUE"
         ELSE "NOWHERE"

DCupdate_item_queue(q, i, rec, old_poller_type, old_nextcheck) ==
    /\ queues' = UpdatedQueues(q, i, rec, old_poller_type, old_nextcheck)
    /\ item' = [item EXCEPT ![i] = [rec EXCEPT !.location = UpdatedLocation(rec, old_poller_type)]]

-----------------------------------------------------------------------------
(* DCconfig_get_poller_items, one round of its loop a step *)

Init ==
    /\ now = 1
    /\ byProxy = FALSE
    /\ refresh_unsupported \in Refreshes
    /\ item = [i \in Items |-> NoItem]
    /\ queues = [t \in QueueTypes |-> HeapEmpty]
    /\ host = NewHost
    /\ dbhost = NewHost
    /\ maintenance = FALSE
    /\ proc = [p \in Procs |-> NoProc]
    /\ lock = "sync"
    /\ sync = [todo |-> Items, rows |-> Items]      \* the first sync, from empty
    /\ value = [i \in Items |-> 0]
    /\ syncs = 0
    /\ rejected = FALSE

\* get_values: the time is read before the lock is taken
GetStart(p) ==
    /\ proc[p].pc = "idle"
    /\ proc' = [proc EXCEPT ![p].pc = "lock", ![p].now = now]
    /\ UNCHANGED <<now, item, queues, host, dbhost, config, lock, sync, value, counts>>

GetLock(p) ==
    /\ proc[p].pc = "lock"
    /\ Free
    /\ lock' = p
    /\ proc' = [proc EXCEPT ![p].pc = "scan"]
    /\ UNCHANGED <<now, item, queues, host, dbhost, config, sync, value, counts>>

Scanning(p) == proc[p].pc = "scan" /\ lock = p
Queue(p)    == queues[TypeOfProc(p)]
QueueHead(p)     == Queue(p)[0]
HeadDue(p)  == Size(Queue(p)) > 0 /\ item[QueueHead(p)].nextcheck <= proc[p].now

NothingDue(p) ==
    /\ Scanning(p)
    /\ ~ HeadDue(p)
    /\ lock' = "free"
    /\ proc' = [proc EXCEPT ![p] = NoProc]
    /\ UNCHANGED <<now, item, queues, host, dbhost, config, sync, value, counts>>

Popped(p) ==
    [queues EXCEPT ![TypeOfProc(p)] =
        HeapRemoveMin(@, Nextchecks(QueueHead(p), item[QueueHead(p)].nextcheck))]

\* the item is put back with new nextcheck and poller_type, and the loop goes on
PutBack(p, nextcheck, poller_type) ==
    LET i == QueueHead(p)
    IN  /\ DCupdate_item_queue(Popped(p), i,
              [item[i] EXCEPT !.location = "NOWHERE", !.nextcheck = nextcheck,
                              !.poller_type = poller_type],
              item[i].poller_type, item[i].nextcheck)
        /\ UNCHANGED <<now, host, dbhost, config, proc, lock, sync, value, counts>>

\* not supported items are not checked any more: out of the queue
SkipUnsupported(p) == refresh_unsupported = 0 /\ item[QueueHead(p)].state = "NOTSUPPORTED"

DropItem(p) ==
    /\ Scanning(p) /\ HeadDue(p)
    /\ SkipUnsupported(p)
    /\ queues' = Popped(p)
    /\ item' = [item EXCEPT ![QueueHead(p)].location = "NOWHERE"]
    /\ UNCHANGED <<now, host, dbhost, config, proc, lock, sync, value, counts>>

Postpone(p) ==
    /\ Scanning(p) /\ HeadDue(p)
    /\ ~ SkipUnsupported(p)
    /\ LET i         == QueueHead(p)
           reachable == DCget_reachable_nextcheck(i, item[i].state, proc[p].now)
           until     == DCget_disable_until
       IN  \/ /\ maintenance
              /\ PutBack(p, reachable, item[i].poller_type)
           \/ /\ ~ maintenance
              /\ until = 0 /\ p \in UnreachablePollers
              /\ PutBack(p, reachable, poller_by_item)
           \/ /\ ~ maintenance
              /\ until # 0 /\ p \in Pollers
              /\ PutBack(p, IF until > proc[p].now THEN until ELSE item[i].nextcheck, "UNREACHABLE")
           \/ /\ ~ maintenance
              /\ until > proc[p].now /\ p \in UnreachablePollers
              /\ PutBack(p, until, item[i].poller_type)

\* DCincrease_disable_until: keeps the other pollers away during the poll
Increased(t) == IF host.errors_from # 0 THEN [host EXCEPT !.disable_until = t + Timeout] ELSE host

TakeItem(p) ==
    /\ Scanning(p) /\ HeadDue(p)
    /\ ~ SkipUnsupported(p)
    /\ ~ maintenance
    /\ IF p \in Pollers THEN DCget_disable_until = 0
       ELSE DCget_disable_until # 0 /\ DCget_disable_until <= proc[p].now
    /\ queues' = Popped(p)
    /\ item' = [item EXCEPT ![QueueHead(p)].location = "POLLER"]
    /\ host' = Increased(proc[p].now)
    /\ proc' = [proc EXCEPT ![p].pc = "poll", ![p].item = QueueHead(p), ![p].host = [host' EXCEPT !.disable_until = 0],
                           ![p].state = item[QueueHead(p)].state, ![p].now = 0]
    /\ lock' = "free"
    /\ UNCHANGED <<now, dbhost, config, sync, value, counts>>

-----------------------------------------------------------------------------
(* get_values after it has its item *)

Results == {"SUCCEED", "NOTSUPPORTED", "NETWORK_ERROR"}

GetValue(p) ==
    /\ proc[p].pc = "poll"
    /\ \E r \in Results :
          proc' = [proc EXCEPT ![p].pc = "avail", ![p].result = r, ![p].ts = now]
    /\ UNCHANGED <<now, item, queues, host, dbhost, config, lock, sync, value, counts>>

AvailUnneeded(p) ==
    /\ proc[p].pc = "avail"
    /\ \/ /\ proc[p].result # "NETWORK_ERROR"
          /\ proc[p].host.errors_from = 0 /\ proc[p].host.available = "TRUE"
       \* DChost_deactivate compares with out->errors_from, which nobody has set
       \/ proc[p].result = "NETWORK_ERROR"
    /\ proc' = [proc EXCEPT ![p].pc = "requeue", ![p].host = NewHost]
    /\ UNCHANGED <<now, item, queues, host, dbhost, config, lock, sync, value, counts>>

Activated == [errors_from |-> 0, available |-> "TRUE", disable_until |-> 0]

Deactivated(ts) ==
    LET failing == ts - host.errors_from
    IN  CASE host.errors_from = 0 ->
                [host EXCEPT !.errors_from = ts, !.disable_until = ts + UnreachableDelay]
          [] host.errors_from # 0 /\ failing >= UnreachableDelay /\ failing < UnreachablePeriod ->
                [host EXCEPT !.disable_until = ts + UnreachableDelay]
          [] host.errors_from # 0 /\ failing >= UnreachableDelay /\ failing >= UnreachablePeriod ->
                [host EXCEPT !.disable_until = ts + UnavailableDelay, !.available = "FALSE"]
          [] OTHER -> host

SetHost(p, new) ==
    /\ Free
    /\ host' = new
    /\ proc' = [proc EXCEPT ![p].pc = "db", ![p].host = NewHost,
                           ![p].before = host, ![p].after = new]
    /\ UNCHANGED <<now, item, queues, dbhost, config, lock, sync, value, counts>>

DChost_activate(p) ==
    /\ proc[p].pc = "avail"
    /\ proc[p].result # "NETWORK_ERROR"
    /\ ~ (proc[p].host.errors_from = 0 /\ proc[p].host.available = "TRUE")
    /\ SetHost(p, Activated)

DChost_deactivate(p) ==
    /\ proc[p].pc = "avail"
    /\ proc[p].result = "NETWORK_ERROR"
    /\ SetHost(p, Deactivated(proc[p].ts))

\* the columns that db_host_update_availability names, and those of the table
ColumnPrefix ==
    CASE ItemType = "agent" -> "" [] ItemType = "snmp" -> "snmp_" [] ItemType = "ipmi" -> "impi_"
ColumnsExist == ColumnPrefix \in {"", "snmp_", "ipmi_", "jmx_"}

\* Mutant: errors_from is written only together with available
WrittenAvailable(p) ==
    IF proc[p].before.available # proc[p].after.available THEN proc[p].after ELSE dbhost

\* the fields that changed are written; an unknown column fails the UPDATE
Written(p) ==
    [f \in DOMAIN dbhost |-> IF ColumnsExist /\ proc[p].before[f] # proc[p].after[f]
                             THEN proc[p].after[f] ELSE dbhost[f]]

db_host_update_availability(p) ==
    /\ proc[p].pc = "db"
    /\ dbhost' = Written(p)
    /\ proc' = [proc EXCEPT ![p].pc = "requeue", ![p].before = NewHost, ![p].after = NewHost]
    /\ UNCHANGED <<now, item, queues, host, config, lock, sync, value, counts>>

-----------------------------------------------------------------------------
(* DCrequeue_items *)

DCrequeue_reachable_item(i, state, lastclock) ==
    LET old == [item[i] EXCEPT !.state = state,
                               !.nextcheck = DCget_reachable_nextcheck(i, state, lastclock)]
        new == [old EXCEPT
                  !.location = IF @ = "POLLER" THEN "NOWHERE" ELSE @,
                  !.poller_type = IF @ = "UNREACHABLE" THEN poller_by_item ELSE @]
    IN  IF old.poller_type = "NO"
        THEN item' = [item EXCEPT ![i] = old] /\ UNCHANGED queues
        ELSE DCupdate_item_queue(queues, i, new, old.poller_type, old.nextcheck)

DCrequeue_unreachable_item(i, state) ==
    LET old == [item[i] EXCEPT !.state = state,
                               !.nextcheck = DCget_unreachable_nextcheck(i, state)]
        new == [old EXCEPT
                  !.location = IF @ = "POLLER" THEN "NOWHERE" ELSE @,
                  !.poller_type = "UNREACHABLE"]
    IN  IF old.poller_type = "NO"
        THEN item' = [item EXCEPT ![i] = old] /\ UNCHANGED queues
        ELSE DCupdate_item_queue(queues, i, new, old.poller_type, old.nextcheck)

\* the item's state after the poll: a network error leaves the copied one
StateAfter(p) ==
    CASE proc[p].result = "SUCCEED"      -> "NORMAL"
      [] proc[p].result = "NOTSUPPORTED" -> "NOTSUPPORTED"
      [] OTHER                           -> proc[p].state

\* Mutant: the polled item is not put back into a queue
ReturnForgotten(p) == UNCHANGED <<item, queues>>

Return(p) ==
    LET i == proc[p].item
    IN  CASE ~ item[i].known -> UNCHANGED <<item, queues>>
          [] item[i].known /\ proc[p].result # "NETWORK_ERROR" ->
                DCrequeue_reachable_item(i, StateAfter(p), proc[p].ts)
          [] item[i].known /\ proc[p].result = "NETWORK_ERROR" ->
                DCrequeue_unreachable_item(i, StateAfter(p))

DCrequeue_items(p) ==
    LET i == proc[p].item
    IN  /\ proc[p].pc = "requeue"
        /\ Free
        /\ Return(p)
        \* dc_flush_history
        /\ value' = IF MayReject /\ proc[p].result = "SUCCEED"
                    THEN [value EXCEPT ![i] = proc[p].ts] ELSE value
        /\ proc' = [proc EXCEPT ![p] = NoProc]
        /\ UNCHANGED <<now, host, dbhost, config, lock, sync, counts>>

\* DCcalculate_item_delta_float in a history syncer: the value does not fit
RejectValue(i) ==
    /\ value[i] # 0
    /\ Free
    /\ IF item[i].known THEN DCrequeue_reachable_item(i, "NOTSUPPORTED", value[i])
       ELSE UNCHANGED <<item, queues>>
    /\ value' = [value EXCEPT ![i] = 0]
    /\ rejected' = TRUE
    /\ UNCHANGED <<now, host, dbhost, config, proc, lock, sync, syncs>>

AcceptValue(i) ==
    /\ value[i] # 0
    /\ value' = [value EXCEPT ![i] = 0]
    /\ UNCHANGED <<now, item, queues, host, dbhost, config, proc, lock, sync, counts>>

-----------------------------------------------------------------------------
(* DCsync_configuration, under the lock for the whole time *)

SyncBegin ==
    /\ Free
    /\ syncs < MaxSyncs
    /\ \E rows \in (IF MayDelete THEN SUBSET Items ELSE {Items}) :
          sync' = [todo |-> Items, rows |-> rows]
    /\ refresh_unsupported' \in Refreshes
    /\ byProxy' \in (IF MayMove THEN BOOLEAN ELSE {byProxy})
    /\ lock' = "sync"
    /\ syncs' = syncs + 1
    /\ UNCHANGED <<now, item, queues, host, dbhost, maintenance, proc, value, rejected>>

\* the poller type after a sync: an item of the unreachable pollers stays theirs
SyncedType(i) ==
    IF item[i].poller_type = "UNREACHABLE" /\ poller_by_item = "NORMAL"
    THEN "UNREACHABLE" ELSE poller_by_item

\* DCsync_items, one row
SyncRow(i) ==
    /\ lock = "sync"
    /\ i \in sync.todo \cap sync.rows
    /\ \E d \in Delays[i], st \in States :
          LET row == [item[i] EXCEPT !.known = TRUE, !.delay = d, !.poller_type = SyncedType(i)]
              new == [row EXCEPT !.state = st,
                                 !.nextcheck = calculate_item_nextcheck(i, IntervalOf(st, d), now)]
              old == [row EXCEPT !.nextcheck = IF item[i].state = "NORMAL" /\ d # item[i].delay
                                               THEN calculate_item_nextcheck(i, d, now) ELSE @]
          IN  DCupdate_item_queue(queues, i, IF item[i].known THEN old ELSE new,
                                  item[i].poller_type, item[i].nextcheck)
    /\ sync' = [sync EXCEPT !.todo = @ \ {i}]
    /\ UNCHANGED <<now, host, dbhost, config, proc, lock, value, counts>>

Dequeued(i) ==
    IF item[i].location = "QUEUE"
    THEN [queues EXCEPT ![item[i].poller_type] = HeapRemove(@, Nextchecks(i, item[i].nextcheck), i)]
    ELSE queues

\* DCsync_items: items without a row are removed after all rows were read
SyncDelete(i) ==
    /\ lock = "sync"
    /\ i \in sync.todo \ sync.rows
    /\ sync.todo \cap sync.rows = {}
    /\ queues' = Dequeued(i)
    /\ item' = [item EXCEPT ![i] = NoItem]
    /\ sync' = [sync EXCEPT !.todo = @ \ {i}]
    /\ UNCHANGED <<now, host, dbhost, config, proc, lock, value, counts>>

SyncEnd ==
    /\ lock = "sync"
    /\ sync.todo = {}
    /\ lock' = "free"
    /\ sync' = [sync EXCEPT !.rows = {}]
    /\ UNCHANGED <<now, item, queues, host, dbhost, config, proc, value, counts>>

\* the timer process
Maintain ==
    /\ MayMaintain
    /\ Free
    /\ maintenance' = ~ maintenance
    /\ UNCHANGED <<now, item, queues, host, dbhost, byProxy, refresh_unsupported, proc,
                   lock, sync, value, counts>>

Tick ==
    /\ now < MaxTime
    /\ now' = now + 1
    /\ UNCHANGED <<item, queues, host, dbhost, config, proc, lock, sync, value, counts>>

-----------------------------------------------------------------------------
Poller(p) ==
    \/ GetStart(p) \/ GetLock(p) \/ NothingDue(p) \/ DropItem(p) \/ Postpone(p) \/ TakeItem(p)
    \/ GetValue(p) \/ AvailUnneeded(p) \/ DChost_activate(p) \/ DChost_deactivate(p)
    \/ db_host_update_availability(p) \/ DCrequeue_items(p)

SyncStep == SyncEnd \/ \E i \in Items : SyncRow(i) \/ SyncDelete(i)

Next ==
    \/ \E p \in Procs : Poller(p)
    \/ \E i \in Items : RejectValue(i) \/ AcceptValue(i)
    \/ SyncBegin \/ SyncStep
    \/ Maintain
    \/ Tick

\* The processes run; the semaphore of the lock is granted in turn, so that a
\* process that waits for it gets it although others take it again and again.
Fairness ==
    /\ \A p \in Procs : SF_vars(Poller(p))
    /\ WF_vars(SyncStep)
    /\ WF_vars(Tick)

Spec == Init /\ [][Next]_vars /\ Fairness

-----------------------------------------------------------------------------
(* Properties *)

\* The variables have their types.
TypeOK ==
    /\ now \in 1 .. MaxTime
    /\ \A i \in Items :
          /\ item[i].location \in {"NOWHERE", "QUEUE", "POLLER"}
          /\ item[i].poller_type \in QueueTypes \cup {"NO"}
          /\ item[i].nextcheck \in Nat
          /\ ~ item[i].known => item[i] = NoItem
    /\ \A t \in QueueTypes : \A n \in DOMAIN queues[t] : queues[t][n] \in Items
    /\ {host.available, dbhost.available} \subseteq {"UNKNOWN", "TRUE", "FALSE"}
    /\ lock \in Procs \cup {"free", "sync"}

\* An item is in the queue of its poller type, once, exactly when its location
\* says so.  Otherwise the heap would end the process: it exits on a duplicate
\* key and on a key that it does not find.
Placed ==
    \A i \in Items, t \in QueueTypes :
        LET places == {n \in DOMAIN queues[t] : queues[t][n] = i}
        IN  Cardinality(places) =
               (IF item[i].location = "QUEUE" /\ item[i].poller_type = t THEN 1 ELSE 0)

Holds(p, i) == proc[p].pc \in {"poll", "avail", "db", "requeue"} /\ proc[p].item = i

\* `Items leave the queue only through this function. Pollers must always
\* return the items they have taken', dbconfig.c:4001: an item that is marked as
\* taken is in the hands of a poller, so that it will come back.
TakenIsHeld ==
    \A i \in Items : item[i].location = "POLLER" => \E p \in Procs : Holds(p, i)

\* The other direction: an item in the hands of a poller is taken, and by no
\* other one; it is not polled twice at the same time.
HeldIsTaken ==
    \A i \in Items :
        /\ \A p, q \in Procs : Holds(p, i) /\ Holds(q, i) => p = q
        /\ \A p \in Procs : Holds(p, i) /\ item[i].known => item[i].location = "POLLER"

\* The queues are min-heaps over the nextchecks: the head of the queue is due
\* first, and no due item waits behind one that is not.  (Until a history syncer
\* requeues an item that it has not taken: DCrequeue_reachable_item then changes
\* the nextcheck of a queued item without telling the heap.  In a queue of six
\* or more zbx_binary_heap_remove_direct can break the order too: BinaryHeap.)
\* And every item is in the queue its location names, so that no process exits.
QueueOrder ==
    /\ TypeOK /\ Placed
    /\ ~ rejected =>
        \A t \in QueueTypes : \A n \in DOMAIN queues[t] :
            item[queues[t][0]].nextcheck <= item[queues[t][n]].nextcheck

\* When no poller is in between, the database has the availability of the cache.
DbAgrees ==
    (\A p \in Procs : proc[p].pc # "db") =>
        dbhost.available = host.available /\ dbhost.errors_from = host.errors_from

Due(i) == item[i].known /\ ~ byProxy /\ item[i].nextcheck <= now

\* Every item that is due is polled or put off to a later time, whatever the
\* errors of its host.
DueServed == \A i \in Items : Due(i) ~> ~ Due(i)

=============================================================================
