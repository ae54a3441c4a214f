----------------------------- MODULE ProxyUpload -----------------------------
(***************************************************************************)
(* The way of a value from a proxy to the server: syncers insert rows into *)
(* proxy_history, a data sender (active proxy) or a trapper (passive proxy)*)
(* reads the rows after history_lastid (zbxdbhigh/proxy.c), sends them and *)
(* moves history_lastid when the server has answered; the housekeeper      *)
(* deletes rows that are sent or too old (zabbix_proxy/housekeeper).       *)
(*                                                                         *)
(* The ids of the rows come from the database when they are inserted, not  *)
(* when they are committed; after a restart it goes on after the greatest  *)
(* id it finds.  A batch reaches the server as a whole or not at all.      *)
(***************************************************************************)
EXTENDS Naturals, FiniteSets, FiniteSetsExt

CONSTANTS
    PUSyncers,          \* database syncers of the proxy
    PUReaders,          \* the data sender, or the trappers of a passive proxy
    PUItems,            \* items of the values
    Passive,            \* the server asks for the data, and answers before it processes them
    ZBX_MAX_HRECORDS,   \* rows in one message
    OfflineBuffer, LocalBuffer, KeepWindow,   \* the ages of the housekeeper
    MaxRows, MaxUpNow, MaxFaults              \* bounds on ids, time and faults

ASSUME ProxyUploadAssumption ==
    /\ Passive \in BOOLEAN /\ (Passive \/ Cardinality(PUReaders) = 1)
    /\ ZBX_MAX_HRECORDS \in Nat \ {0} /\ LocalBuffer <= OfflineBuffer
    /\ {OfflineBuffer, LocalBuffer, KeepWindow, MaxRows, MaxUpNow, MaxFaults} \subseteq Nat

VARIABLES
    puRows,     \* proxy_history, by id: [st, item, clock]
    puNextId,   \* the id the database gives next
    puLast,     \* ids.nextid of history_lastid
    puRead,     \* what each reader is doing
    puItems,    \* items in the configuration cache of the proxy
    puNow,
    puGot,      \* ghost: how often the server has processed each row
    puLate,     \* ghost: rows that were still not committed when a reader passed them
    puExcused,  \* ghost: rows given up on purpose, or lost by the server
    puFaults    \* ghost: faults and overlapping requests so far

puVars == <<puRows, puNextId, puLast, puRead, puItems, puNow, puGot, puLate, puExcused, puFaults>>

IdleReader == [pc |-> "idle", id |-> 0, lastid |-> 0, batch |-> {}, lim |-> 0, retries |-> 0]
NoRow == [st |-> "none", item |-> "none", clock |-> 0, by |-> "none"]

Ids == 1 .. MaxRows
Committed == {n \in Ids : puRows[n].st = "done"}
Known(n) == puRows[n].item \in puItems

PUInit ==
    /\ puRows = [n \in Ids |-> NoRow] /\ puNextId = 1 /\ puLast = 0
    /\ puRead = [r \in PUReaders |-> IdleReader]
    /\ puItems = PUItems /\ puNow = 0
    /\ puGot = [n \in Ids |-> 0] /\ puLate = {} /\ puExcused = {} /\ puFaults = 0

-----------------------------------------------------------------------------
(* The syncers of the proxy *)

\* DCmass_proxy_add_history: a row, in the transaction of the syncer
ProxyInsert(s, item) ==
    /\ puNextId \in Ids /\ item \in puItems
    /\ puRows' = [puRows EXCEPT ![puNextId] = [st |-> "open", item |-> item, clock |-> puNow, by |-> s]]
    /\ puNextId' = puNextId + 1
    /\ UNCHANGED <<puLast, puRead, puItems, puNow, puGot, puLate, puExcused, puFaults>>

RowsOf(s) == {n \in Ids : puRows[n].st = "open" /\ puRows[n].by = s}
Closed(n, st) == IF st = "done" THEN [puRows[n] EXCEPT !.st = st, !.by = "none"] ELSE NoRow

ProxyEnd(s, st) ==
    /\ RowsOf(s) # {}
    /\ puRows' = [n \in Ids |-> IF n \in RowsOf(s) THEN Closed(n, st) ELSE puRows[n]]
    /\ UNCHANGED <<puNextId, puLast, puRead, puItems, puNow, puGot, puLate, puExcused, puFaults>>

DatabaseRestart ==
    /\ puFaults < MaxFaults /\ puFaults' = puFaults + 1
    /\ puRows' = [n \in Ids |-> IF puRows[n].st = "open" THEN NoRow ELSE puRows[n]]
    /\ puNextId' = IF Committed = {} THEN 1 ELSE Max(Committed) + 1
    /\ UNCHANGED <<puLast, puRead, puItems, puNow, puGot, puLate, puExcused>>

\* process_proxyconfig: the server has removed an item
ItemRemoved(item) ==
    /\ item \in puItems /\ puItems' = puItems \ {item}
    /\ UNCHANGED <<puRows, puNextId, puLast, puRead, puNow, puGot, puLate, puExcused, puFaults>>

-----------------------------------------------------------------------------
(* The upload *)

\* A passive proxy is asked again when the server has got its answer, although the
\* trapper may not have noted it; or when the server has given up waiting.
Overlaps(r) == \E q \in PUReaders \ {r} : puRead[q].pc # "idle"

proxy_get_lastid(r) ==
    /\ puRead[r].pc = "idle" /\ Committed # {} /\ Max(Committed) > puLast
    /\ Overlaps(r) => puFaults < MaxFaults
    /\ puRead' = [puRead EXCEPT ![r] = [IdleReader EXCEPT !.pc = "read", !.id = puLast,
                                                 !.lim = ZBX_MAX_HRECORDS, !.retries = 1]]
    /\ puFaults' = IF Overlaps(r) THEN puFaults + 1 ELSE puFaults
    /\ UNCHANGED <<puRows, puNextId, puLast, puItems, puNow, puGot, puLate, puExcused>>

\* The first lim rows after id
SelectN(id, lim) ==
    LET rows == {n \in Committed : n > id}
    IN  {n \in rows : Cardinality({m \in rows : m <= n}) <= lim}

\* Rows with a missing one before them
Gaps(rd, ids) == {n \in ids : n - 1 \notin ids \cup {rd.id}}

\* The first missing row: what is before it is kept, the rest is read again after 0.1 s,
\* once.
ReadAgain(r, ids) ==
    LET rd == puRead[r]
        first == Min(Gaps(rd, ids))
        before == {n \in ids : n < first}
    IN  /\ rd.retries > 0 /\ Gaps(rd, ids) # {}
        /\ puRead' = [puRead EXCEPT ![r] =
              [rd EXCEPT !.id = IF before = {} THEN @ ELSE Max(before), !.lastid = first,
                         !.batch = @ \cup before, !.lim = @ - Cardinality(before), !.retries = 0]]
        /\ UNCHANGED <<puLate, puExcused>>

\* Rows are sent whose item is known.
ReadDone(r, ids) ==
    LET rd == puRead[r]
        batch == rd.batch \cup ids
        records == {n \in batch : Known(n)}
        lastid == IF ids = {} THEN rd.lastid ELSE Max(ids)
    IN  /\ rd.retries = 0 \/ Gaps(rd, ids) = {}
        /\ puRead' = [puRead EXCEPT ![r] = IF records = {} THEN IdleReader
                         ELSE [rd EXCEPT !.pc = "send", !.batch = records, !.lastid = lastid]]
        /\ puLate' = puLate \cup {n \in Ids : puRows[n].st = "open" /\ n < lastid}
        /\ puExcused' = puExcused \cup (batch \ records)

\* One SELECT with its fetches
proxy_get_history_data(r) ==
    /\ puRead[r].pc = "read"
    /\ LET ids == SelectN(puRead[r].id, puRead[r].lim)
       IN  ReadAgain(r, ids) \/ ReadDone(r, ids)
    /\ UNCHANGED <<puRows, puNextId, puLast, puItems, puNow, puGot, puFaults>>

\* Mutant: history_lastid is moved whether the server has answered or not
AfterSendAlways(rd, answered) == [rd EXCEPT !.pc = "set"]

AfterSend(rd, answered) == IF answered THEN [rd EXCEPT !.pc = "set"] ELSE IdleReader

\* put_data_to_server and recv_proxyhistory, or send_proxyhistory and
\* get_data_from_proxy.  A passive proxy's server answers before it processes the
\* data, so the answer says nothing about them.
SendBatch(r, processed, answered) ==
    LET sent == puRead[r].batch
        fault == ~processed \/ ~answered
    IN  /\ puRead[r].pc = "send"
        /\ answered /\ ~processed => Passive
        /\ fault => puFaults < MaxFaults
        /\ puFaults' = IF fault THEN puFaults + 1 ELSE puFaults
        /\ puGot' = [n \in Ids |-> IF processed /\ n \in sent THEN puGot[n] + 1 ELSE puGot[n]]
        /\ puExcused' = IF answered /\ ~processed THEN puExcused \cup sent ELSE puExcused
        /\ puRead' = [puRead EXCEPT ![r] = AfterSend(@, answered)]
        /\ UNCHANGED <<puRows, puNextId, puLast, puItems, puNow, puLate>>

proxy_set_lastid(r) ==
    /\ puRead[r].pc = "set"
    /\ puLast' = puRead[r].lastid
    /\ puRead' = [puRead EXCEPT ![r] = IdleReader]
    /\ UNCHANGED <<puRows, puNextId, puItems, puNow, puGot, puLate, puExcused, puFaults>>

ReaderRestart(r) ==
    /\ puRead[r].pc # "idle" /\ puFaults < MaxFaults /\ puFaults' = puFaults + 1
    /\ puRead' = [puRead EXCEPT ![r] = IdleReader]
    /\ UNCHANGED <<puRows, puNextId, puLast, puItems, puNow, puGot, puLate, puExcused>>

-----------------------------------------------------------------------------
(* The housekeeper and time *)

\* Mutant: the row with the greatest id is deleted too
DeletedAll(maxid, minclock) ==
    {n \in Committed :
        /\ n <= maxid
        /\ \/ puRows[n].clock + OfflineBuffer < puNow
           \/ n <= puLast /\ puRows[n].clock + LocalBuffer < puNow /\ puRows[n].clock < minclock + KeepWindow}

\* The row with the greatest id stays, whatever its age.
Deleted(maxid, minclock) ==
    {n \in Committed :
        /\ n < maxid
        /\ \/ puRows[n].clock + OfflineBuffer < puNow
           \/ n <= puLast /\ puRows[n].clock + LocalBuffer < puNow /\ puRows[n].clock < minclock + KeepWindow}

delete_history ==
    /\ puLast > 0 /\ Committed # {}
    /\ LET gone == Deleted(Max(Committed), Min({puRows[n].clock : n \in Committed}))
       IN  /\ gone # {}
           /\ puRows' = [n \in Ids |-> IF n \in gone THEN [NoRow EXCEPT !.st = "deleted"] ELSE puRows[n]]
    /\ UNCHANGED <<puNextId, puLast, puRead, puItems, puNow, puGot, puLate, puExcused, puFaults>>

UpTick ==
    /\ puNow < MaxUpNow /\ puNow' = puNow + 1
    /\ UNCHANGED <<puRows, puNextId, puLast, puRead, puItems, puGot, puLate, puExcused, puFaults>>

ReaderStep(r) ==
    proxy_get_lastid(r) \/ proxy_get_history_data(r) \/ SendBatch(r, TRUE, TRUE) \/ proxy_set_lastid(r)

PUNext ==
    \/ \E s \in PUSyncers : \/ \E item \in PUItems : ProxyInsert(s, item)
                            \/ \E st \in {"done", "none"} : ProxyEnd(s, st)
    \/ \E r \in PUReaders : \/ proxy_get_lastid(r) \/ proxy_get_history_data(r) \/ proxy_set_lastid(r)
                            \/ \E processed, answered \in BOOLEAN : SendBatch(r, processed, answered)
                            \/ ReaderRestart(r)
    \/ \E item \in PUItems : ItemRemoved(item)
    \/ DatabaseRestart \/ delete_history \/ UpTick

PUSpec == PUInit /\ [][PUNext]_puVars

\* The data sender, or the proxy poller with its trappers, goes on.
PUFair == \A r \in PUReaders : WF_puVars(ReaderStep(r))

-----------------------------------------------------------------------------
(* Properties *)

\* history_lastid only passes rows that the server has processed, apart from rows
\* that were not committed at the second look (proxy.c "No more retries"), rows of
\* removed items and what a server lost after its answer; and the server processes
\* a row twice only after a fault or an overlap of two requests.
UploadExact ==
    /\ \A n \in Committed \ (puLate \cup puExcused) : n <= puLast => puGot[n] > 0
    /\ \A n \in Ids : puGot[n] <= 1 + puFaults

\* No row gets an id that history_lastid has already passed, although the database
\* forgets the ids of deleted rows when it restarts: it would never be sent.
FreshIds == puNextId > puLast

\* What history_lastid stands for, over restarts of the database, of the readers and
\* of the server: what is before it is done with, what is still to come is after it.
UploadSound == UploadExact /\ FreshIds

\* As many rows of removed items as a message may have, all before row n
Blocked(n) == Cardinality({m \in Committed : puLast < m /\ m < n /\ ~Known(m)}) >= ZBX_MAX_HRECORDS

\* Every committed row is sent, unless it came late, its item is removed, it grew
\* too old, or a full message of rows of removed items stands before it: records is
\* then 0 and history_lastid stays where it is.
EveryUploaded ==
    []<>(\A n \in Committed : puGot[n] > 0 \/ n \in puLate \cup puExcused \/ ~Known(n) \/ Blocked(n))
=============================================================================
