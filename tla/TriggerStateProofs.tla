-------------------------- MODULE TriggerStateProofs --------------------------
(***************************************************************************)
(* Proofs about triggers, for any triggers, dependencies and error         *)
(* messages, any number of passes and any number of transactions.          *)
(*                                                                         *)
(* No property is inductive.  That a row has the value of the last event   *)
(* (any number of processes, rollbacks, the configuration syncer) rests on *)
(* what a transaction in progress has at hand: its last event tells the    *)
(* value that its last pending UPDATE will write or that it has written    *)
(* already, to a row that it holds (TxnsTell).  That cache and table agree *)
(* (one process) rests on the copies: those not processed yet are those of *)
(* the cache, and what the pending UPDATEs will write is in it             *)
(* (CopiesTrue).                                                           *)
(***************************************************************************)
EXTENDS TriggerState, FiniteSetTheorems, SequenceTheorems, TLAPS

Copies ==
  [id : Triggers, value : Values, state : States, error : Errors \cup {""}, lastchange : {0, 1},
   new_value : Values \cup {"UNKNOWN"}, new_error : Errors \cup {""}]

Events == [id : Triggers, value : Values]

Types ==
  /\ trig \in [Triggers -> Stored] /\ row \in [Triggers -> Stored]
  /\ pc \in [Procs -> {"idle", "check", "set", "open"}]
  /\ order \in [Procs -> Seq(Copies)] /\ sql \in [Procs -> Seq(Copies)]
  /\ events \in [Procs -> Seq(Events)] /\ log \in Seq(Events)
  /\ failed \in [Procs -> BOOLEAN] /\ pass \in [Procs -> Nat]
  /\ rowlock \in [Triggers -> Procs \cup {NoProc}]
  /\ selected \subseteq [Triggers -> Stored]
  /\ DOMAIN txn = Procs
  /\ \A p \in Procs : /\ DOMAIN txn[p] \subseteq Triggers
                      /\ \A t \in DOMAIN txn[p] : txn[p][t] \in Stored

\* What a process does and what it has at hand.
Phases ==
  /\ \A p \in Procs : pc[p] = "set" => order[p] # <<>>
  /\ \A p \in Procs : pc[p] = "open" => sql[p] = <<>>
  /\ \A p \in Procs : \A t \in DOMAIN txn[p] : rowlock[t] = p

\* The event at n is the last one of trigger t in s.
LastIn(s, t, n) == s[n].id = t /\ \A k \in n + 1 .. Len(s) : s[k].id # t

\* The copy at n changes the value of t, and none after it does.
ChangeAt(cs, t, n) == cs[n].id = t /\ value_changed(cs[n])
LastChange(cs, t, n) == ChangeAt(cs, t, n) /\ \A k \in n + 1 .. Len(cs) : ~ ChangeAt(cs, t, k)

\* A transaction has the events es and the UPDATEs cs left. The value of t is r
\* in the table and seen for the transaction, which has written the rows own.
\* Its last event tells the value it will have.
Tells(es, cs, t, r, seen, own) ==
  /\ \A n \in DOMAIN cs : LastChange(cs, t, n) =>
       /\ \E m \in DOMAIN es : es[m].id = t
       /\ \A m \in DOMAIN es : LastIn(es, t, m) => es[m].value = new_value(cs[n])
  /\ (\A n \in DOMAIN cs : ~ ChangeAt(cs, t, n)) =>
       /\ \A m \in DOMAIN es : LastIn(es, t, m) => es[m].value = seen
       /\ (\E m \in DOMAIN es : es[m].id = t) => t \in own
       /\ (\A m \in DOMAIN es : es[m].id # t) => seen = r

TxnsTell ==
  \A p \in Procs : ~ failed[p] => \A t \in Triggers \ Multiple :
    Tells(events[p], sql[p], t, row[t].value, Seen(p, t).value, DOMAIN txn[p])

RowInv == Types /\ Phases /\ TxnsTell /\ RowFollowsEvents

\* One process that calls process_triggers, a database that refuses nothing,
\* and no configuration syncer.
Serial == Procs # {} /\ (\A p, q \in Procs : p = q) /\ ~ TxnFails /\ ~ ConfigSync

\* c is a copy of r, and the result of its evaluation.
Copied(c, r) ==
  c.value = r.value /\ c.state = r.state /\ c.error = r.error /\ c.lastchange = r.lastchange

Evaluated(c) == c.new_error # "" <=> c.new_value = "UNKNOWN"

\* The copies not processed yet are those of the cache, and what the UPDATEs
\* left will write is in it.
CopiesTrue(p) ==
  /\ \A n \in DOMAIN order[p] : Copied(order[p][n], trig[order[p][n].id]) /\ Evaluated(order[p][n])
  /\ \A n \in DOMAIN sql[p] :
       /\ Copied(sql[p][n], Seen(p, sql[p][n].id))
       /\ trig[sql[p][n].id] = Assign(Seen(p, sql[p][n].id), sql[p][n])
  /\ \A t \in Triggers : (\A n \in DOMAIN sql[p] : sql[p][n].id # t) => trig[t] = Seen(p, t)

\* Every trigger is processed once.
CopiesApart(p) ==
  /\ \A m, n \in DOMAIN order[p] : m # n => order[p][m].id # order[p][n].id
  /\ \A m, n \in DOMAIN sql[p] : m # n => sql[p][m].id # sql[p][n].id
  /\ \A m \in DOMAIN order[p], n \in DOMAIN sql[p] : order[p][m].id # sql[p][n].id

Quiet(p) ==
  /\ ~ failed[p] /\ pass[p] \in 0 .. Passes
  /\ pc[p] = "idle" => sql[p] = <<>> /\ events[p] = <<>> /\ DOMAIN txn[p] = {} /\ pass[p] = 0
  /\ pc[p] \in {"idle", "open"} => order[p] = <<>>

ErrorTells == \A t \in Triggers : trig[t].error # "" <=> trig[t].state = "UNKNOWN"

\* The events s of t alternate, the last one has the value that t has in the
\* cache, and a trigger that never changed has none.
Alternates(s, t) ==
  \A m \in DOMAIN s : s[m].id = t => \A n \in 1 .. m - 1 :
    s[n].id = t /\ (\A k \in n + 1 .. m - 1 : s[k].id # t) => s[n].value # s[m].value

Told(s, t, r) ==
  /\ Alternates(s, t)
  /\ \A n \in DOMAIN s : LastIn(s, t, n) => s[n].value = r.value
  /\ r.lastchange = 0 => \A n \in DOMAIN s : s[n].id # t

EventsTold(p) == \A t \in Triggers \ Multiple : Told(log \o events[p], t, trig[t])

SerialInv ==
  /\ selected = {} /\ ErrorTells
  /\ \A p \in Procs : Quiet(p) /\ CopiesTrue(p) /\ CopiesApart(p) /\ EventsTold(p)

-----------------------------------------------------------------------------
(* Sequences *)

LEMMA QueueLaws ==
  ASSUME NEW S, NEW s \in Seq(S), s # <<>>
  PROVE  /\ Len(s) \in Nat \ {0}
         /\ Head(s) = s[1] /\ Head(s) \in S
         /\ Tail(s) \in Seq(S) /\ Len(Tail(s)) = Len(s) - 1
         /\ \A n \in 1 .. Len(s) - 1 : Tail(s)[n] = s[n + 1]
<1>1. Len(s) \in Nat /\ Len(s) # 0
  BY EmptySeq
<1> QED
  BY <1>1, HeadTailProperties

LEMMA AppendLaws ==
  ASSUME NEW S, NEW s \in Seq(S), NEW e \in S
  PROVE  /\ Append(s, e) \in Seq(S) /\ Len(Append(s, e)) = Len(s) + 1 /\ Len(s) \in Nat
         /\ Append(s, e)[Len(s) + 1] = e
         /\ \A n \in 1 .. Len(s) : Append(s, e)[n] = s[n]
  BY AppendProperties

-----------------------------------------------------------------------------
(* What the events of a transaction tell *)

\* A decision that is no event of t leaves what is told of t.
LEMMA TellsLonger ==
  ASSUME NEW es \in Seq(Events), NEW cs \in Seq(Copies), NEW t, NEW r, NEW seen, NEW own,
         NEW new \in Seq(Events), NEW ds \in Seq(Copies),
         Tells(es, cs, t, r, seen, own),
         Len(new) >= Len(es), \A m \in 1 .. Len(es) : new[m] = es[m],
         \A m \in 1 .. Len(new) : m > Len(es) => new[m].id # t,
         Len(ds) = Len(cs) + 1, \A n \in 1 .. Len(cs) : ds[n] = cs[n],
         ~ ChangeAt(ds, t, Len(ds))
  PROVE  Tells(new, ds, t, r, seen, own)
<1>1. Len(es) \in Nat /\ Len(new) \in Nat /\ Len(cs) \in Nat
  OBVIOUS
<1>2. DOMAIN es = 1 .. Len(es) /\ DOMAIN new = 1 .. Len(new) /\ DOMAIN cs = 1 .. Len(cs) /\ DOMAIN ds = 1 .. Len(ds)
  OBVIOUS
<1>3. /\ Len(new) >= Len(es) /\ \A m \in 1 .. Len(es) : new[m] = es[m]
      /\ \A m \in 1 .. Len(new) : m > Len(es) => new[m].id # t
      /\ Len(ds) = Len(cs) + 1 /\ \A n \in 1 .. Len(cs) : ds[n] = cs[n]
  OBVIOUS
<1>4. ASSUME NEW m \in DOMAIN new, LastIn(new, t, m)
      PROVE  m \in DOMAIN es /\ LastIn(es, t, m) /\ new[m] = es[m]
  BY <1>1, <1>2, <1>3, <1>4 DEF LastIn
<1>5. (\E m \in DOMAIN new : new[m].id = t) <=> (\E m \in DOMAIN es : es[m].id = t)
  <2>1. ASSUME NEW m \in DOMAIN new, new[m].id = t
        PROVE  m \in DOMAIN es /\ es[m].id = t
    BY <1>1, <1>2, <1>3, <2>1
  <2>2. ASSUME NEW m \in DOMAIN es
        PROVE  m \in DOMAIN new /\ new[m] = es[m]
    BY <1>1, <1>2, <1>3
  <2> QED
    BY <2>1, <2>2
<1>6. ASSUME NEW n \in DOMAIN ds
      PROVE  ChangeAt(ds, t, n) <=> n \in DOMAIN cs /\ ChangeAt(cs, t, n)
  BY <1>1, <1>2, <1>3 DEF ChangeAt
<1>7. ASSUME NEW n \in DOMAIN ds, LastChange(ds, t, n)
      PROVE  n \in DOMAIN cs /\ LastChange(cs, t, n) /\ ds[n] = cs[n]
  <2>1. n \in DOMAIN cs /\ ChangeAt(cs, t, n) /\ ds[n] = cs[n]
    BY <1>1, <1>2, <1>3, <1>6, <1>7 DEF LastChange
  <2>2. ASSUME NEW k \in n + 1 .. Len(cs)
        PROVE  ~ ChangeAt(cs, t, k)
    <3>1. k \in DOMAIN ds /\ k \in DOMAIN cs /\ k \in n + 1 .. Len(ds)
      BY <1>1, <1>2, <1>3, <2>1
    <3> QED
      BY <3>1, <1>6, <1>7 DEF LastChange
  <2> QED
    BY <2>1, <2>2 DEF LastChange
<1>8. ASSUME \A n \in DOMAIN ds : ~ ChangeAt(ds, t, n)
      PROVE  \A n \in DOMAIN cs : ~ ChangeAt(cs, t, n)
  <2>1. \A n \in DOMAIN cs : n \in DOMAIN ds
    BY <1>1, <1>2, <1>3
  <2> QED
    BY <2>1, <1>6, <1>8
<1> QED
  BY <1>4, <1>5, <1>7, <1>8 DEF Tells

LEMMA TellsOther ==
  ASSUME NEW es \in Seq(Events), NEW cs \in Seq(Copies), NEW t, NEW r, NEW seen, NEW own,
         NEW e \in Events, NEW c \in Copies, NEW new,
         new = es \/ (new = Append(es, e) /\ e.id # t),
         Tells(es, cs, t, r, seen, own), ~ (c.id = t /\ value_changed(c))
  PROVE  Tells(new, Append(cs, c), t, r, seen, own)
<1>1. /\ Len(es) \in Nat /\ Len(new) \in Nat /\ Len(new) >= Len(es) /\ new \in Seq(Events)
      /\ \A m \in 1 .. Len(es) : new[m] = es[m]
      /\ \A m \in 1 .. Len(new) : m > Len(es) => new[m].id # t
  <2>1. CASE new = es
    BY <2>1
  <2>2. CASE new = Append(es, e) /\ e.id # t
    BY <2>2, AppendLaws
  <2> QED
    BY <2>1, <2>2
<1>2. /\ Len(Append(cs, c)) = Len(cs) + 1 /\ Append(cs, c) \in Seq(Copies)
      /\ \A n \in 1 .. Len(cs) : Append(cs, c)[n] = cs[n]
      /\ Append(cs, c)[Len(Append(cs, c))] = c
  BY AppendLaws
<1>3. ~ ChangeAt(Append(cs, c), t, Len(Append(cs, c)))
  BY <1>2 DEF ChangeAt
<1> QED
  BY <1>1, <1>2, <1>3, TellsLonger

\* A decision that changes the value of t comes with its event.
LEMMA TellsChange ==
  ASSUME NEW es \in Seq(Events), NEW cs \in Seq(Copies), NEW t, NEW r, NEW seen, NEW own,
         NEW c \in Copies, NEW e \in Events, e = [id |-> c.id, value |-> new_value(c)],
         c.id = t, value_changed(c)
  PROVE  Tells(Append(es, e), Append(cs, c), t, r, seen, own)
<1> DEFINE ds == Append(cs, c)  fs == Append(es, e)
<1>1. /\ Len(ds) = Len(cs) + 1 /\ Len(cs) \in Nat /\ ds \in Seq(Copies)
      /\ ds[Len(cs) + 1] = c
  BY AppendLaws
<1>2. /\ Len(fs) = Len(es) + 1 /\ Len(es) \in Nat /\ fs \in Seq(Events)
      /\ fs[Len(es) + 1] = e
  BY AppendLaws
<1>3. DOMAIN fs = 1 .. Len(fs) /\ DOMAIN ds = 1 .. Len(ds)
  BY <1>1, <1>2
<1> HIDE DEF ds, fs
<1>4. Len(ds) \in DOMAIN ds /\ ChangeAt(ds, t, Len(ds))
  BY <1>1, <1>3 DEF ChangeAt
<1>5. Len(fs) \in DOMAIN fs /\ fs[Len(fs)].id = t /\ fs[Len(fs)].value = new_value(c)
  BY <1>2, <1>3
<1>6. ASSUME NEW n \in DOMAIN ds, LastChange(ds, t, n)
      PROVE  ds[n] = c
  BY <1>1, <1>3, <1>4, <1>6 DEF LastChange
<1>7. ASSUME NEW m \in DOMAIN fs, LastIn(fs, t, m)
      PROVE  m = Len(fs)
  BY <1>2, <1>3, <1>5, <1>7 DEF LastIn
<1> QED
  BY <1>4, <1>5, <1>6, <1>7 DEF Tells, ds, fs

\* The first UPDATE left is executed.
LEMMA TellsExecute ==
  ASSUME NEW es \in Seq(Events), NEW cs \in Seq(Copies), cs # <<>>, NEW t, NEW r, NEW seen, NEW own,
         NEW seen2, NEW own2, Tells(es, cs, t, r, seen, own),
         t \in own => t \in own2, Head(cs).id = t => t \in own2,
         seen2 = IF Head(cs).id = t /\ value_changed(Head(cs)) THEN new_value(Head(cs)) ELSE seen
  PROVE  Tells(es, Tail(cs), t, r, seen2, own2)
<1> DEFINE ds == Tail(cs)
<1>1. /\ Len(cs) \in Nat \ {0} /\ Head(cs) = cs[1] /\ ds \in Seq(Copies) /\ Len(ds) = Len(cs) - 1
      /\ \A n \in 1 .. Len(cs) - 1 : ds[n] = cs[n + 1]
  BY QueueLaws
<1>2. DOMAIN cs = 1 .. Len(cs) /\ DOMAIN ds = 1 .. Len(ds)
  BY <1>1
<1> HIDE DEF ds
<1>3. ASSUME NEW n \in DOMAIN ds
      PROVE  /\ n + 1 \in DOMAIN cs /\ ds[n] = cs[n + 1]
             /\ ChangeAt(ds, t, n) <=> ChangeAt(cs, t, n + 1)
  BY <1>1, <1>2 DEF ChangeAt
<1>4. ASSUME NEW n \in DOMAIN ds, LastChange(ds, t, n)
      PROVE  LastChange(cs, t, n + 1)
  <2>1. ASSUME NEW k \in n + 2 .. Len(cs)
        PROVE  ~ ChangeAt(cs, t, k)
    <3>1. k - 1 \in DOMAIN ds /\ k - 1 \in n + 1 .. Len(ds) /\ k - 1 + 1 = k
      BY <1>1, <1>2
    <3> QED
      BY <3>1, <1>3, <1>4 DEF LastChange
  <2>2. n + 1 + 1 = n + 2
    BY <1>2
  <2> QED
    BY <2>1, <2>2, <1>3, <1>4 DEF LastChange
<1>5. ASSUME \A n \in DOMAIN ds : ~ ChangeAt(ds, t, n)
      PROVE  \A n \in DOMAIN cs : n # 1 => ~ ChangeAt(cs, t, n)
  <2>1. ASSUME NEW n \in DOMAIN cs, n # 1
        PROVE  n - 1 \in DOMAIN ds /\ n - 1 + 1 = n
    BY <1>1, <1>2, <2>1
  <2> QED
    BY <2>1, <1>3, <1>5
<1>6. CASE ChangeAt(cs, t, 1)
  <2>1. cs[1].id = t /\ seen2 = new_value(cs[1]) /\ t \in own2
    BY <1>1, <1>6 DEF ChangeAt
  <2>2. 1 \in DOMAIN cs /\ \A k \in 1 + 1 .. Len(cs) : k \in DOMAIN cs /\ k # 1
    BY <1>1, <1>2
  <2>3. ASSUME \A n \in DOMAIN ds : ~ ChangeAt(ds, t, n)
        PROVE  LastChange(cs, t, 1)
    BY <2>2, <1>5, <1>6, <2>3 DEF LastChange
  <2> QED
    BY <2>1, <2>2, <2>3, <1>3, <1>4 DEF Tells, ds
<1>7. CASE ~ ChangeAt(cs, t, 1)
  <2>1. seen2 = seen
    BY <1>1, <1>7 DEF ChangeAt
  <2>2. ASSUME \A n \in DOMAIN ds : ~ ChangeAt(ds, t, n)
        PROVE  \A n \in DOMAIN cs : ~ ChangeAt(cs, t, n)
    BY <1>5, <1>7, <2>2
  <2> QED
    BY <2>1, <2>2, <1>3, <1>4 DEF Tells, ds
<1> QED
  BY <1>6, <1>7

\* Nothing is told and nothing is left.
LEMMA TellsNothing ==
  ASSUME NEW t, NEW r, NEW own
  PROVE  Tells(<<>>, <<>>, t, r, r, own)
  BY DEF Tells

-----------------------------------------------------------------------------
(* Types *)

LEMMA CopyTypes ==
  ASSUME NEW c \in Copies
  PROVE  /\ c.id \in Triggers /\ c.value \in Values
         /\ new_value(c) \in Values /\ new_state(c) \in States
         /\ c.new_error \in Errors \cup {""}
         /\ [id |-> c.id, value |-> new_value(c)] \in Events
  BY DEF Copies, Events, new_value, new_state, Values, States

LEMMA AssignTypes ==
  ASSUME NEW c \in Copies, NEW r \in Stored
  PROVE  Assign(r, c) \in Stored /\ Cached(r, c) \in Stored
  BY CopyTypes DEF Assign, Cached, Stored

LEMMA SeenTypes ==
  ASSUME Types, NEW p \in Procs, NEW t \in Triggers
  PROVE  Seen(p, t) \in Stored
  BY DEF Types, Seen

LEMMA SortedTypes ==
  ASSUME NEW ts \in SUBSET Triggers, NEW s \in Sorted(ts)
  PROVE  /\ s \in Seq(Triggers) /\ \A n \in DOMAIN s : s[n] \in ts
         /\ \A m, n \in DOMAIN s : m # n => s[m] # s[n]
<1>1. IsFiniteSet(ts) /\ Cardinality(ts) \in Nat
  BY TriggerAssumption, FS_Subset, FS_CardinalityType
<1>2. s \in [1 .. Cardinality(ts) -> ts] /\ \A i, j \in 1 .. Cardinality(ts) : i # j => s[i] # s[j]
  BY DEF Sorted, SetToSeqs
<1>3. s \in Seq(ts)
  BY <1>1, <1>2
<1>4. DOMAIN s = 1 .. Cardinality(ts)
  BY <1>2
<1>5. s \in Seq(Triggers)
  BY <1>3, SeqMonotonic
<1> QED
  BY <1>2, <1>4, <1>5

-----------------------------------------------------------------------------
(* Any number of processes *)

LEMMA InitRow == Init => RowInv
<1> SUFFICES ASSUME Init PROVE RowInv
  OBVIOUS
<1>0. /\ trig \in [Triggers -> Stored] /\ row = trig
      /\ \A t \in Triggers : row[t].value = "OK"
  BY TriggerAssumption DEF Init, Stored, Values, States
<1>1. Types
  <2>1. /\ pc \in [Procs -> {"idle", "check", "set", "open"}]
        /\ order \in [Procs -> Seq(Copies)] /\ sql \in [Procs -> Seq(Copies)]
        /\ events \in [Procs -> Seq(Events)] /\ log \in Seq(Events)
    <3>1. <<>> \in Seq(Copies) /\ <<>> \in Seq(Events)
      OBVIOUS
    <3> QED
      BY <3>1 DEF Init
  <2>2. /\ failed \in [Procs -> BOOLEAN] /\ pass \in [Procs -> Nat]
        /\ rowlock \in [Triggers -> Procs \cup {NoProc}] /\ selected = {}
    BY DEF Init
  <2>3. /\ DOMAIN txn = Procs
        /\ \A p \in Procs : DOMAIN txn[p] = {}
    BY DEF Init, Nothing
  <2> QED
    BY <1>0, <2>1, <2>2, <2>3 DEF Types
<1>2. Phases
  BY DEF Init, Phases, Nothing
<1>3. TxnsTell
  <2> SUFFICES ASSUME NEW p \in Procs, NEW t \in Triggers \ Multiple
               PROVE  Tells(events[p], sql[p], t, row[t].value, Seen(p, t).value, DOMAIN txn[p])
    BY DEF TxnsTell
  <2>1. events[p] = <<>> /\ sql[p] = <<>> /\ Seen(p, t).value = row[t].value
    BY <1>1 DEF Init, Nothing, Seen, Types
  <2> QED
    BY <2>1, TellsNothing
<1>4. RowFollowsEvents
  <2>1. log = <<>>
    BY DEF Init
  <2>2. \A n \in DOMAIN log : FALSE
    BY <2>1
  <2> QED
    BY <1>0, <2>2 DEF RowFollowsEvents
<1> QED
  BY <1>1, <1>2, <1>3, <1>4 DEF RowInv

\* The steps that leave events, UPDATEs and tables alone.
LEMMA RestRow ==
  ASSUME TxnsTell, RowFollowsEvents, UNCHANGED <<sql, txn, events, failed, row, log>>
  PROVE  TxnsTell' /\ RowFollowsEvents'
<1>1. \A p, t : Seen(p, t)' = Seen(p, t)
  BY DEF Seen
<1>2. TxnsTell'
  BY <1>1 DEF TxnsTell
<1>3. RowFollowsEvents'
  BY DEF RowFollowsEvents, LastOf
<1> QED
  BY <1>2, <1>3

\* The copies are those of the cache, each of another trigger.
LEMMA GetOrder ==
  ASSUME Types, NEW p \in Procs, GetTriggers(p)
  PROVE  \E cs \in Seq(Copies) :
           /\ order' = [order EXCEPT ![p] = cs]
           /\ \A n \in DOMAIN cs : Copied(cs[n], trig[cs[n].id]) /\ Evaluated(cs[n])
           /\ \A m, n \in DOMAIN cs : m # n => cs[m].id # cs[n].id
<1>1. PICK ts \in SUBSET Triggers \ {{}} : \E s \in Sorted(ts), res \in [ts -> Results] :
       order' = [order EXCEPT ![p] = [n \in DOMAIN s |->
         [id |-> s[n], value |-> trig[s[n]].value, state |-> trig[s[n]].state,
          error |-> trig[s[n]].error, lastchange |-> trig[s[n]].lastchange,
          new_value |-> res[s[n]][1], new_error |-> res[s[n]][2]]]]
  BY DEF GetTriggers
<1>2. PICK s \in Sorted(ts), res \in [ts -> Results] :
       order' = [order EXCEPT ![p] = [n \in DOMAIN s |->
         [id |-> s[n], value |-> trig[s[n]].value, state |-> trig[s[n]].state,
          error |-> trig[s[n]].error, lastchange |-> trig[s[n]].lastchange,
          new_value |-> res[s[n]][1], new_error |-> res[s[n]][2]]]]
  BY <1>1
<1> DEFINE cs == [n \in DOMAIN s |->
         [id |-> s[n], value |-> trig[s[n]].value, state |-> trig[s[n]].state,
          error |-> trig[s[n]].error, lastchange |-> trig[s[n]].lastchange,
          new_value |-> res[s[n]][1], new_error |-> res[s[n]][2]]]
<1>3. /\ s \in Seq(Triggers) /\ \A n \in DOMAIN s : s[n] \in ts
      /\ \A m, n \in DOMAIN s : m # n => s[m] # s[n]
  BY SortedTypes
<1>4. ASSUME NEW n \in DOMAIN s
      PROVE  cs[n] \in Copies /\ Copied(cs[n], trig[cs[n].id]) /\ Evaluated(cs[n])
  <2>1. trig[s[n]] \in Stored
    BY <1>3 DEF Types
  <2>2. res[s[n]] \in Results
    BY <1>3
  <2>3. res[s[n]][1] \in Values \cup {"UNKNOWN"} /\ res[s[n]][2] \in Errors \cup {""}
        /\ (res[s[n]][2] # "" <=> res[s[n]][1] = "UNKNOWN")
    <3>1. ASSUME NEW v, NEW e, res[s[n]] = <<v, e>>
          PROVE  res[s[n]][1] = v /\ res[s[n]][2] = e
      BY <3>1
    <3>2. \/ res[s[n]] = <<"OK", "">> \/ res[s[n]] = <<"PROBLEM", "">>
          \/ \E e \in Errors : res[s[n]] = <<"UNKNOWN", e>>
      BY <2>2 DEF Results
    <3>3. \A e \in Errors : e # ""
      BY TriggerAssumption
    <3>4. \/ res[s[n]][1] = "OK" /\ res[s[n]][2] = ""
          \/ res[s[n]][1] = "PROBLEM" /\ res[s[n]][2] = ""
          \/ res[s[n]][1] = "UNKNOWN" /\ res[s[n]][2] \in Errors
      BY <3>1, <3>2
    <3> QED
      BY <3>3, <3>4 DEF Values
  <2>4. s[n] \in Triggers
    BY <1>3
  <2>5. /\ cs[n].id = s[n] /\ cs[n].value = trig[s[n]].value /\ cs[n].state = trig[s[n]].state
        /\ cs[n].error = trig[s[n]].error /\ cs[n].lastchange = trig[s[n]].lastchange
        /\ cs[n].new_value = res[s[n]][1] /\ cs[n].new_error = res[s[n]][2]
    OBVIOUS
  <2>6. cs[n] \in Copies
    BY <2>1, <2>3, <2>4 DEF Copies, Stored
  <2> HIDE DEF cs
  <2> QED
    BY <2>3, <2>5, <2>6 DEF Copied, Evaluated
<1>5. cs \in Seq(Copies)
  <2>1. Len(s) \in Nat /\ DOMAIN s = 1 .. Len(s)
    BY <1>3
  <2>2. cs \in [1 .. Len(s) -> Copies]
    BY <1>4, <2>1
  <2> QED
    BY <2>1, <2>2
<1>6. order' = [order EXCEPT ![p] = cs]
  BY <1>2
<1> HIDE DEF cs
<1>7. \A n \in DOMAIN cs : n \in DOMAIN s /\ cs[n].id = s[n]
  BY DEF cs
<1>8. \A m, n \in DOMAIN cs : m # n => cs[m].id # cs[n].id
  BY <1>3, <1>7
<1>9. \A n \in DOMAIN cs : Copied(cs[n], trig[cs[n].id]) /\ Evaluated(cs[n])
  BY <1>4, <1>7
<1> QED
  BY <1>5, <1>6, <1>8, <1>9

LEMMA GetRow ==
  ASSUME RowInv, NEW p \in Procs, GetTriggers(p)
  PROVE  RowInv'
<1>5. PICK cs \in Seq(Copies) : order' = [order EXCEPT ![p] = cs]
  BY GetOrder DEF RowInv
<1>6. order' = [order EXCEPT ![p] = cs]
  BY <1>5
<1>7. Types'
  <2>1. order' \in [Procs -> Seq(Copies)]
    BY <1>5, <1>6 DEF RowInv, Types
  <2>2. pass' \in [Procs -> Nat] /\ pc' \in [Procs -> {"idle", "check", "set", "open"}]
    BY DEF RowInv, Types, GetTriggers
  <2> QED
    BY <2>1, <2>2 DEF RowInv, Types, GetTriggers
<1>8. Phases'
  BY <1>6 DEF RowInv, Types, Phases, GetTriggers
<1>9. TxnsTell' /\ RowFollowsEvents'
  BY RestRow DEF RowInv, GetTriggers
<1> QED
  BY <1>7, <1>8, <1>9 DEF RowInv

LEMMA CheckRow ==
  ASSUME RowInv, NEW p \in Procs, CheckTrigger(p)
  PROVE  RowInv'
<1>1. order[p] \in Seq(Copies) /\ order[p] # <<>>
  BY DEF RowInv, Types, CheckTrigger
<1>2. Tail(order[p]) \in Seq(Copies)
  BY <1>1, QueueLaws
<1>3. \/ pc' = [pc EXCEPT ![p] = "set"] /\ UNCHANGED order
      \/ order' = [order EXCEPT ![p] = Tail(@)] /\ UNCHANGED pc
  BY DEF CheckTrigger
<1>4. Types'
  <2>1. order' \in [Procs -> Seq(Copies)] /\ pc' \in [Procs -> {"idle", "check", "set", "open"}]
    BY <1>2, <1>3 DEF RowInv, Types
  <2> QED
    BY <2>1 DEF RowInv, Types, CheckTrigger
<1>5. Phases'
  BY <1>1, <1>3 DEF RowInv, Types, Phases, CheckTrigger
<1>6. TxnsTell' /\ RowFollowsEvents'
  BY RestRow DEF RowInv, CheckTrigger
<1> QED
  BY <1>4, <1>5, <1>6 DEF RowInv

LEMMA ExecutedRow ==
  ASSUME RowInv, NEW p \in Procs, Executed(p)
  PROVE  RowInv'
<1>1. Types' /\ Phases'
  BY DEF RowInv, Types, Phases, Executed
<1>2. TxnsTell' /\ RowFollowsEvents'
  BY RestRow DEF RowInv, Executed
<1> QED
  BY <1>1, <1>2 DEF RowInv

LEMMA SyncRow ==
  ASSUME RowInv, SyncSelect \/ DCsync_triggers \/ UNCHANGED vars
  PROVE  RowInv'
<1>1. CASE SyncSelect
  <2>1. Types' /\ Phases'
    BY <1>1 DEF RowInv, Types, Phases, SyncSelect, local
  <2>2. TxnsTell' /\ RowFollowsEvents'
    BY <1>1, RestRow DEF RowInv, SyncSelect, local
  <2> QED
    BY <2>1, <2>2 DEF RowInv
<1>2. CASE DCsync_triggers
  <2>1. Types' /\ Phases'
    BY <1>2 DEF RowInv, Types, Phases, DCsync_triggers, local, Refresh
  <2>2. TxnsTell' /\ RowFollowsEvents'
    BY <1>2, RestRow DEF RowInv, DCsync_triggers, local
  <2> QED
    BY <2>1, <2>2 DEF RowInv
<1>3. CASE UNCHANGED vars
  <2>1. Types' /\ Phases'
    BY <1>3 DEF RowInv, Types, Phases, vars, local
  <2>2. TxnsTell' /\ RowFollowsEvents'
    BY <1>3, RestRow DEF RowInv, vars, local
  <2> QED
    BY <2>1, <2>2 DEF RowInv
<1> QED
  BY <1>1, <1>2, <1>3

LEMMA RefusedRow ==
  ASSUME RowInv, NEW p \in Procs, Refused(p)
  PROVE  RowInv'
<1>1. Types'
  BY DEF RowInv, Types, Refused, Release, Nothing
<1>2. Phases'
  BY DEF RowInv, Types, Phases, Refused, Release, Nothing
<1>3. RowFollowsEvents'
  BY DEF RowInv, RowFollowsEvents, LastOf, Refused
<1>4. ASSUME NEW q \in Procs, ~ failed'[q]
      PROVE  /\ q # p /\ ~ failed[q] /\ sql'[q] = sql[q] /\ events'[q] = events[q]
             /\ txn'[q] = txn[q] /\ row' = row
  BY <1>4 DEF RowInv, Types, Refused
<1>5. TxnsTell'
  BY <1>4 DEF RowInv, TxnsTell, Seen
<1> QED
  BY <1>1, <1>2, <1>3, <1>5 DEF RowInv
LEMMA SetRow ==
  ASSUME RowInv, NEW p \in Procs, SetTrigger(p)
  PROVE  RowInv'
<1>1. order[p] \in Seq(Copies) /\ order[p] # <<>>
  BY DEF RowInv, Types, Phases, SetTrigger
<1>2. PICK c \in Copies : c = Head(order[p]) /\ Tail(order[p]) \in Seq(Copies)
  BY <1>1, QueueLaws
<1>3. PICK e \in Events : e = [id |-> c.id, value |-> new_value(c)]
  BY CopyTypes
<1>4. /\ trig' = [trig EXCEPT ![c.id] = Cached(@, c)]
      /\ events' = [events EXCEPT ![p] = IF Event(c) THEN Append(@, e) ELSE @]
      /\ sql' = [sql EXCEPT ![p] = Append(@, c)]
      /\ order' = [order EXCEPT ![p] = Tail(@)]
      /\ pc' = [pc EXCEPT ![p] = "check"]
      /\ UNCHANGED <<txn, pass, failed, row, rowlock, log, selected>>
  BY <1>2, <1>3 DEF SetTrigger
<1>5. Types'
  <2>1. trig' \in [Triggers -> Stored]
    BY <1>4, AssignTypes DEF RowInv, Types
  <2>2. events' \in [Procs -> Seq(Events)]
    BY <1>4 DEF RowInv, Types
  <2>3. sql' \in [Procs -> Seq(Copies)] /\ order' \in [Procs -> Seq(Copies)]
    BY <1>2, <1>4 DEF RowInv, Types
  <2> QED
    BY <2>1, <2>2, <2>3, <1>4 DEF RowInv, Types
<1>6. Phases'
  BY <1>4 DEF RowInv, Types, Phases
<1>7. RowFollowsEvents'
  BY <1>4 DEF RowInv, RowFollowsEvents, LastOf
<1>8. TxnsTell'
  <2> SUFFICES ASSUME NEW q \in Procs, ~ failed'[q], NEW t \in Triggers \ Multiple
               PROVE  Tells(events'[q], sql'[q], t, row'[t].value, (Seen(q, t)').value, DOMAIN (txn'[q]))
    BY DEF TxnsTell
  <2>1. Tells(events[q], sql[q], t, row[t].value, Seen(q, t).value, DOMAIN txn[q])
    BY <1>4 DEF RowInv, TxnsTell
  <2>2. Seen(q, t)' = Seen(q, t) /\ row' = row /\ txn' = txn
    BY <1>4 DEF Seen
  <2>3. Tells(events'[q], sql'[q], t, row[t].value, Seen(q, t).value, DOMAIN txn[q])
    <3>1. CASE q # p
      BY <2>1, <3>1, <1>4
    <3>2. CASE q = p /\ ~ (c.id = t /\ value_changed(c))
      <4>1. events'[p] = events[p] \/ (events'[p] = Append(events[p], e) /\ e.id # t)
        <5>1. Event(c) => c.id # t
          BY <3>2 DEF Event, multiple_problem
        <5> QED
          BY <5>1, <1>3, <1>4 DEF RowInv, Types
      <4>2. sql'[p] = Append(sql[p], c) /\ sql[p] \in Seq(Copies) /\ events[p] \in Seq(Events)
        BY <1>4 DEF RowInv, Types
      <4>3. PICK seen, own, r : seen = Seen(p, t).value /\ own = DOMAIN txn[p] /\ r = row[t].value
        OBVIOUS
      <4>4. Tells(events[p], sql[p], t, r, seen, own)
        BY <2>1, <3>2, <4>3
      <4>5. Tells(events'[p], Append(sql[p], c), t, r, seen, own)
        BY <3>2, <4>1, <4>2, <4>4, TellsOther
      <4> QED
        BY <3>2, <4>2, <4>3, <4>5
    <3>3. CASE q = p /\ c.id = t /\ value_changed(c)
      <4>1. events'[p] = Append(events[p], e)
        BY <3>3, <1>4 DEF Event, RowInv, Types
      <4>2. sql'[p] = Append(sql[p], c) /\ sql[p] \in Seq(Copies) /\ events[p] \in Seq(Events)
        BY <1>4 DEF RowInv, Types
      <4> QED
        BY <1>3, <3>3, <4>1, <4>2, TellsChange
    <3> QED
      BY <3>1, <3>2, <3>3
  <2> QED
    BY <2>2, <2>3
<1> QED
  BY <1>5, <1>6, <1>7, <1>8 DEF RowInv

LEMMA ExecuteRow ==
  ASSUME RowInv, NEW p \in Procs, Execute(p)
  PROVE  RowInv'
<1>1. sql[p] \in Seq(Copies) /\ sql[p] # <<>> /\ events[p] \in Seq(Events)
  BY DEF RowInv, Types, Execute
<1>2. PICK c \in Copies : c = Head(sql[p]) /\ Tail(sql[p]) \in Seq(Copies)
  BY <1>1, QueueLaws
<1> DEFINE new == [t \in DOMAIN txn[p] \cup {c.id} |-> IF t = c.id THEN Assign(Seen(p, t), c) ELSE txn[p][t]]
<1>3. /\ rowlock[c.id] \in {NoProc, p} /\ ~ failed[p] /\ pc[p] = "check"
      /\ rowlock' = [rowlock EXCEPT ![c.id] = p]
      /\ txn' = [txn EXCEPT ![p] = new]
      /\ sql' = [sql EXCEPT ![p] = Tail(@)]
      /\ UNCHANGED <<trig, pc, order, events, pass, failed, row, log, selected, txns>>
  BY <1>2 DEF Execute
<1>4. /\ DOMAIN new = DOMAIN txn[p] \cup {c.id} /\ c.id \in Triggers
      /\ new[c.id] = Assign(Seen(p, c.id), c)
      /\ \A t \in DOMAIN txn[p] : t # c.id => new[t] = txn[p][t]
  BY CopyTypes
<1> HIDE DEF new
<1>5. Assign(Seen(p, c.id), c) \in Stored
  BY <1>4, SeenTypes, AssignTypes DEF RowInv
<1>6. DOMAIN txn' = Procs /\ txn'[p] = new /\ \A q \in Procs : q # p => txn'[q] = txn[q]
  BY <1>3 DEF RowInv, Types
<1>7. Types'
  <2>1. \A q \in Procs : /\ DOMAIN (txn'[q]) \subseteq Triggers
                          /\ \A t \in DOMAIN (txn'[q]) : txn'[q][t] \in Stored
    BY <1>4, <1>5, <1>6 DEF RowInv, Types
  <2>2. sql' \in [Procs -> Seq(Copies)] /\ rowlock' \in [Triggers -> Procs \cup {NoProc}]
    BY <1>2, <1>3 DEF RowInv, Types
  <2> QED
    BY <1>3, <1>6, <2>1, <2>2 DEF RowInv, Types
<1>8. Phases'
  <2>1. \A q \in Procs : pc'[q] = "set" => order'[q] # <<>>
    BY <1>3 DEF RowInv, Phases
  <2>2. \A q \in Procs : pc'[q] = "open" => sql'[q] = <<>>
    BY <1>3 DEF RowInv, Types, Phases
  <2>3. ASSUME NEW q \in Procs, NEW t \in DOMAIN (txn'[q])
        PROVE  rowlock'[t] = q
    <3>1. CASE t # c.id
      <4>1. t \in DOMAIN txn[q]
        BY <3>1, <1>4, <1>6, <2>3
      <4>2. rowlock[t] = q /\ t \in Triggers
        BY <4>1 DEF RowInv, Types, Phases
      <4> QED
        BY <3>1, <4>2, <1>3 DEF RowInv, Types
    <3>2. CASE t = c.id /\ q = p
      BY <3>2, <1>3, <1>4 DEF RowInv, Types
    <3>3. CASE t = c.id /\ q # p
      <4>1. rowlock[t] = q
        BY <3>3, <1>6, <2>3 DEF RowInv, Phases
      <4> QED
        BY <3>3, <4>1, <1>3, TriggerAssumption
    <3> QED
      BY <3>1, <3>2, <3>3
  <2> QED
    BY <2>1, <2>2, <2>3 DEF Phases
<1>9. RowFollowsEvents'
  BY <1>3 DEF RowInv, RowFollowsEvents, LastOf
<1>10. TxnsTell'
  <2> SUFFICES ASSUME NEW q \in Procs, ~ failed'[q], NEW t \in Triggers \ Multiple
               PROVE  Tells(events'[q], sql'[q], t, row'[t].value, (Seen(q, t)').value, DOMAIN (txn'[q]))
    BY DEF TxnsTell
  <2>1. Tells(events[q], sql[q], t, row[t].value, Seen(q, t).value, DOMAIN txn[q])
    BY <1>3 DEF RowInv, TxnsTell
  <2>2. CASE q # p
    <3>1. /\ events'[q] = events[q] /\ sql'[q] = sql[q] /\ row' = row /\ txn'[q] = txn[q]
          /\ Seen(q, t)' = Seen(q, t)
      BY <2>2, <1>3, <1>6 DEF Seen, RowInv, Types
    <3> QED
      BY <2>1, <3>1
  <2>3. CASE q = p
    <3>1. events' = events /\ row' = row /\ sql'[p] = Tail(sql[p])
      BY <1>3 DEF RowInv, Types
    <3>2. (Seen(p, t)').value = IF c.id = t /\ value_changed(c) THEN new_value(c) ELSE Seen(p, t).value
      <4>1. CASE c.id = t
        <5>1. Seen(p, t)' = Assign(Seen(p, t), c)
          BY <4>1, <1>4, <1>6 DEF Seen
        <5> QED
          BY <4>1, <5>1 DEF Assign
      <4>2. CASE c.id # t
        BY <4>2, <1>3, <1>4, <1>6 DEF Seen
      <4> QED
        BY <4>1, <4>2
    <3>3. /\ t \in DOMAIN txn[p] => t \in DOMAIN (txn'[p])
          /\ c.id = t => t \in DOMAIN (txn'[p])
      BY <1>4, <1>6
    <3>4. PICK seen, seen2, own, own2, r :
            /\ seen = Seen(p, t).value /\ seen2 = (Seen(p, t)').value
            /\ own = DOMAIN txn[p] /\ own2 = DOMAIN (txn'[p]) /\ r = row[t].value
      OBVIOUS
    <3>5. Tells(events[p], Tail(sql[p]), t, r, seen2, own2)
      <4>1. /\ Tells(events[p], sql[p], t, r, seen, own)
            /\ t \in own => t \in own2
            /\ Head(sql[p]).id = t => t \in own2
            /\ seen2 = IF Head(sql[p]).id = t /\ value_changed(Head(sql[p]))
                       THEN new_value(Head(sql[p])) ELSE seen
        BY <2>1, <2>3, <3>2, <3>3, <3>4, <1>2
      <4> QED
        BY <4>1, <1>1, TellsExecute
    <3> QED
      BY <2>3, <3>1, <3>4, <3>5
  <2> QED
    BY <2>2, <2>3
<1> QED
  BY <1>7, <1>8, <1>9, <1>10 DEF RowInv
\* The value a transaction has seen is that of the last event it adds.
LEMMA TellsCommit ==
  ASSUME NEW es \in Seq(Events), NEW lg \in Seq(Events), NEW t, NEW r, NEW seen, NEW own,
         Tells(es, <<>>, t, r, seen, own),
         \A n \in DOMAIN lg : LastIn(lg, t, n) => r = lg[n].value,
         (\A n \in DOMAIN lg : lg[n].id # t) => r = "OK"
  PROVE  /\ \A n \in DOMAIN (lg \o es) : LastIn(lg \o es, t, n) => seen = (lg \o es)[n].value
         /\ (\A n \in DOMAIN (lg \o es) : (lg \o es)[n].id # t) => seen = "OK"
<1> DEFINE fs == lg \o es
<1>1. /\ Len(lg) \in Nat /\ Len(es) \in Nat /\ Len(fs) = Len(lg) + Len(es)
      /\ DOMAIN lg = 1 .. Len(lg) /\ DOMAIN es = 1 .. Len(es) /\ DOMAIN fs = 1 .. Len(fs)
      /\ \A n \in 1 .. Len(lg) : fs[n] = lg[n]
      /\ \A n \in 1 .. Len(es) : fs[Len(lg) + n] = es[n]
  BY ConcatProperties
<1> HIDE DEF fs
<1>2. /\ \A m \in DOMAIN es : LastIn(es, t, m) => es[m].value = seen
      /\ (\A m \in DOMAIN es : es[m].id # t) => seen = r
  BY DEF Tells
<1>3. ASSUME NEW n \in DOMAIN fs, LastIn(fs, t, n)
      PROVE  seen = fs[n].value
  <2>1. CASE n > Len(lg)
    <3>1. /\ n - Len(lg) \in DOMAIN es /\ es[n - Len(lg)] = fs[n]
      BY <2>1, <1>1
    <3>2. ASSUME NEW k \in n - Len(lg) + 1 .. Len(es)
          PROVE  es[k].id # t
      <4>1. Len(lg) + k \in n + 1 .. Len(fs) /\ fs[Len(lg) + k] = es[k]
        BY <2>1, <1>1
      <4> QED
        BY <4>1, <1>3 DEF LastIn
    <3>3. LastIn(es, t, n - Len(lg))
      BY <3>1, <3>2, <1>3 DEF LastIn
    <3> QED
      BY <3>1, <3>3, <1>2
  <2>2. CASE n <= Len(lg)
    <3>1. n \in DOMAIN lg /\ fs[n] = lg[n]
      BY <2>2, <1>1
    <3>2. ASSUME NEW k \in n + 1 .. Len(lg)
          PROVE  lg[k].id # t
      <4>1. k \in n + 1 .. Len(fs) /\ fs[k] = lg[k]
        BY <2>2, <1>1
      <4> QED
        BY <4>1, <1>3 DEF LastIn
    <3>3. ASSUME NEW k \in DOMAIN es
          PROVE  es[k].id # t
      <4>1. Len(lg) + k \in n + 1 .. Len(fs) /\ fs[Len(lg) + k] = es[k]
        BY <2>2, <1>1
      <4> QED
        BY <4>1, <1>3 DEF LastIn
    <3>4. LastIn(lg, t, n)
      BY <3>1, <3>2, <1>3 DEF LastIn
    <3> QED
      BY <3>1, <3>3, <3>4, <1>2
  <2> QED
    BY <2>1, <2>2, <1>1
<1>4. ASSUME \A n \in DOMAIN fs : fs[n].id # t
      PROVE  seen = "OK"
  <2>1. ASSUME NEW n \in DOMAIN lg
        PROVE  lg[n].id # t
    BY <1>1, <1>4
  <2>2. ASSUME NEW m \in DOMAIN es
        PROVE  es[m].id # t
    <3>1. Len(lg) + m \in DOMAIN fs /\ fs[Len(lg) + m] = es[m]
      BY <1>1
    <3> QED
      BY <3>1, <1>4
  <2> QED
    BY <2>1, <2>2, <1>2
<1> QED
  BY <1>3, <1>4 DEF fs

LEMMA CommitRow ==
  ASSUME RowInv, NEW p \in Procs, Commit(p)
  PROVE  RowInv'
<1>1. /\ sql[p] = <<>> /\ txn' = [txn EXCEPT ![p] = Nothing] /\ events' = [events EXCEPT ![p] = <<>>]
      /\ rowlock' = Release(p) /\ failed' = [failed EXCEPT ![p] = FALSE]
      /\ pc' = [pc EXCEPT ![p] = "idle"] /\ pass' = [pass EXCEPT ![p] = 0]
      /\ UNCHANGED <<trig, order, sql, selected>>
  BY DEF RowInv, Phases, Commit
<1>2. \/ ~ failed[p] /\ row' = [t \in Triggers |-> Seen(p, t)] /\ log' = log \o events[p]
      \/ UNCHANGED <<row, log>>
  BY DEF Commit
<1>3. events[p] \in Seq(Events) /\ log \in Seq(Events)
  BY DEF RowInv, Types
<1>4. DOMAIN Nothing = {}
  BY DEF Nothing
<1>5. Types'
  <2>1. row' \in [Triggers -> Stored] /\ log' \in Seq(Events)
    <3>1. \A t \in Triggers : Seen(p, t) \in Stored
      BY SeenTypes DEF RowInv
    <3>2. CASE row' = [t \in Triggers |-> Seen(p, t)] /\ log' = log \o events[p]
      <4>1. row' \in [Triggers -> Stored]
        BY <3>1, <3>2
      <4>2. log' \in Seq(Events)
        BY <3>2, <1>3, ConcatProperties
      <4> QED
        BY <4>1, <4>2
    <3>3. CASE UNCHANGED <<row, log>>
      BY <3>3 DEF RowInv, Types
    <3> QED
      BY <3>2, <3>3, <1>2
  <2>2. <<>> \in Seq(Events)
    OBVIOUS
  <2>3. /\ events' \in [Procs -> Seq(Events)] /\ failed' \in [Procs -> BOOLEAN]
        /\ pass' \in [Procs -> Nat] /\ pc' \in [Procs -> {"idle", "check", "set", "open"}]
        /\ rowlock' \in [Triggers -> Procs \cup {NoProc}]
    BY <1>1, <2>2 DEF RowInv, Types, Release
  <2>4. /\ DOMAIN txn' = Procs
        /\ \A q \in Procs : /\ DOMAIN (txn'[q]) \subseteq Triggers
                            /\ \A t \in DOMAIN (txn'[q]) : txn'[q][t] \in Stored
    BY <1>1, <1>4 DEF RowInv, Types
  <2> QED
    BY <2>1, <2>3, <2>4, <1>1 DEF RowInv, Types
<1>6. Phases'
  <2>1. /\ \A q \in Procs : pc'[q] = "set" => order'[q] # <<>>
        /\ \A q \in Procs : pc'[q] = "open" => sql'[q] = <<>>
    BY <1>1 DEF RowInv, Types, Phases
  <2>2. ASSUME NEW q \in Procs, NEW t \in DOMAIN (txn'[q])
        PROVE  rowlock'[t] = q
    <3>1. q # p /\ t \in DOMAIN txn[q]
      BY <1>1, <1>4, <2>2 DEF RowInv, Types
    <3>2. rowlock[t] = q /\ t \in Triggers
      BY <3>1 DEF RowInv, Types, Phases
    <3> QED
      BY <3>1, <3>2, <1>1 DEF Release
  <2> QED
    BY <2>1, <2>2 DEF Phases
<1>7. RowFollowsEvents'
  <2>1. CASE UNCHANGED <<row, log>>
    BY <2>1 DEF RowInv, RowFollowsEvents, LastOf
  <2>2. CASE ~ failed[p] /\ row' = [t \in Triggers |-> Seen(p, t)] /\ log' = log \o events[p]
    <3> SUFFICES ASSUME NEW t \in Triggers \ Multiple
                 PROVE  /\ \A n \in DOMAIN log' : LastOf(t, n, Len(log))' => (row[t].value)' = log'[n].value
                        /\ (\A n \in DOMAIN log' : log'[n].id # t) => (row[t].value)' = "OK"
      BY DEF RowFollowsEvents
    <3>1. PICK seen, own, r, es, lg :
            /\ seen = Seen(p, t).value /\ own = DOMAIN txn[p] /\ r = row[t].value
            /\ es = events[p] /\ lg = log
      OBVIOUS
    <3>2. Tells(es, <<>>, t, r, seen, own)
      BY <2>2, <3>1, <1>1 DEF RowInv, TxnsTell
    <3>3. /\ \A n \in DOMAIN lg : LastIn(lg, t, n) => r = lg[n].value
          /\ (\A n \in DOMAIN lg : lg[n].id # t) => r = "OK"
      BY <3>1 DEF RowInv, RowFollowsEvents, LastIn, LastOf
    <3>4. /\ \A n \in DOMAIN (lg \o es) : LastIn(lg \o es, t, n) => seen = (lg \o es)[n].value
          /\ (\A n \in DOMAIN (lg \o es) : (lg \o es)[n].id # t) => seen = "OK"
      <4>1. es \in Seq(Events) /\ lg \in Seq(Events)
        BY <3>1, <1>3
      <4> QED
        BY <3>2, <3>3, <4>1, TellsCommit
    <3>5. log' = lg \o es /\ (row[t].value)' = seen
      BY <2>2, <3>1
    <3>6. \A n : LastOf(t, n, Len(log))' <=> LastIn(lg \o es, t, n)
      BY <3>5 DEF LastOf, LastIn
    <3> QED
      BY <3>4, <3>5, <3>6
  <2> QED
    BY <2>1, <2>2, <1>2
<1>8. TxnsTell'
  <2> SUFFICES ASSUME NEW q \in Procs, ~ failed'[q], NEW t \in Triggers \ Multiple
               PROVE  Tells(events'[q], sql'[q], t, row'[t].value, (Seen(q, t)').value, DOMAIN (txn'[q]))
    BY DEF TxnsTell
  <2>1. CASE q = p
    <3>1. events'[q] = <<>> /\ sql'[q] = <<>> /\ (Seen(q, t)').value = row'[t].value
      BY <2>1, <1>1, <1>4 DEF RowInv, Types, Seen
    <3> QED
      BY <3>1, TellsNothing
  <2>2. CASE q # p
    <3>1. events'[q] = events[q] /\ sql'[q] = sql[q] /\ txn'[q] = txn[q] /\ failed'[q] = failed[q]
      BY <2>2, <1>1 DEF RowInv, Types
    <3>2. Tells(events[q], sql[q], t, row[t].value, Seen(q, t).value, DOMAIN txn[q])
      BY <2>2, <3>1 DEF RowInv, TxnsTell
    <3>3. CASE t \in DOMAIN txn[q]
      <4>1. t \notin DOMAIN txn[p]
        BY <2>2, <3>3 DEF RowInv, Phases
      <4>2. row'[t] = row[t]
        BY <4>1, <1>2 DEF Seen, RowInv, Types
      <4>3. Seen(q, t)' = Seen(q, t)
        BY <3>1, <3>3 DEF Seen
      <4> QED
        BY <3>1, <3>2, <4>2, <4>3
    <3>4. CASE t \notin DOMAIN txn[q]
      <4>1. Seen(q, t) = row[t] /\ Seen(q, t)' = row'[t]
        BY <3>1, <3>4 DEF Seen
      <4>2. PICK es, cs, own, r, s : /\ es = events[q] /\ cs = sql[q] /\ own = DOMAIN txn[q]
                                     /\ r = row[t].value /\ s = row'[t].value
        OBVIOUS
      <4>3. Tells(es, cs, t, r, r, own) /\ t \notin own
        BY <3>2, <3>4, <4>1, <4>2
      <4>4. (\A n \in DOMAIN cs : ~ ChangeAt(cs, t, n)) => \A m \in DOMAIN es : es[m].id # t
        BY <4>3 DEF Tells
      <4>5. Tells(es, cs, t, s, s, own)
        BY <4>3, <4>4 DEF Tells, LastIn
      <4> QED
        BY <3>1, <4>1, <4>2, <4>5
    <3> QED
      BY <3>3, <3>4
  <2> QED
    BY <2>1, <2>2
<1> QED
  BY <1>5, <1>6, <1>7, <1>8 DEF RowInv

LEMMA NextRow == RowInv /\ [Next]_vars => RowInv'
<1> SUFFICES ASSUME RowInv, [Next]_vars PROVE RowInv'
  OBVIOUS
<1>1. CASE \E p \in Procs : Step(p)
  BY <1>1, GetRow, CheckRow, SetRow, ExecuteRow, RefusedRow, ExecutedRow, CommitRow DEF Step
<1>2. CASE SyncSelect \/ DCsync_triggers \/ Idle \/ UNCHANGED vars
  BY <1>2, SyncRow DEF Idle
<1> QED
  BY <1>1, <1>2 DEF Next

\* In the database the value of a trigger that is not `multiple' is that of its
\* last event (process_events and the UPDATEs of process_triggers in one
\* transaction): with any number of processes that work on stale copies,
\* whichever transactions are rolled back, and whatever the configuration
\* syncer does to the cache.
THEOREM ValueOfLastEvent == Spec => []RowFollowsEvents
<1>1. RowInv => RowFollowsEvents
  BY DEF RowInv
<1> QED
  BY <1>1, InitRow, NextRow, PTL DEF Spec
-----------------------------------------------------------------------------
(* The decisions of process_trigger *)

\* What is noted in the cache is what the UPDATE writes over the same row.
LEMMA CachedIsAssigned ==
  ASSUME NEW c, NEW r, Copied(c, r)
  PROVE  Cached(r, c) = Assign(r, c)
<1>1. new_value(c) = IF value_changed(c) THEN new_value(c) ELSE r.value
  BY DEF Copied, value_changed
<1>2. new_state(c) = IF state_changed(c) THEN new_state(c) ELSE r.state
  BY DEF Copied, state_changed
<1>3. c.new_error = IF error_changed(c) THEN c.new_error ELSE r.error
  BY DEF Copied, error_changed
<1> QED
  BY <1>1, <1>2, <1>3 DEF Cached, Assign

\* The table in the comment of process_trigger.
LEMMA TableAgrees ==
  ASSUME NEW c \in Copies, Evaluated(c), c.lastchange # 0,
         c.error # "" <=> c.state = "UNKNOWN"
  PROVE  Agrees(c)
<1>1. c.value \in {"OK", "PROBLEM"} /\ c.state \in {"NORMAL", "UNKNOWN"}
      /\ c.new_value \in {"OK", "PROBLEM", "UNKNOWN"}
  BY DEF Copies, Values, States
<1>2. ~ (c.lastchange = 0 /\ new_state(c) # "UNKNOWN")
  OBVIOUS
<1>6. Changed(c) \in BOOLEAN /\ Event(c) \in BOOLEAN
  <2>1. value_changed(c) \in BOOLEAN /\ state_changed(c) \in BOOLEAN
        /\ multiple_problem(c) \in BOOLEAN /\ error_changed(c) \in BOOLEAN
    BY DEF value_changed, state_changed, multiple_problem, error_changed
  <2> QED
    BY <2>1 DEF Changed, Event
<1>7. ASSUME NEW x \in BOOLEAN, NEW y \in BOOLEAN, Changed(c) <=> x, Event(c) <=> y
      PROVE  [T |-> Changed(c), E |-> Event(c)] = [T |-> x, E |-> y]
  <2>1. Changed(c) = x /\ Event(c) = y
    BY <1>6, <1>7
  <2> QED
    BY <2>1
<1>3. CASE c.new_value = "OK"
  <2>1. new_value(c) = "OK" /\ new_state(c) = "NORMAL" /\ c.new_error = ""
    BY <1>3 DEF new_value, new_state, Evaluated
  <2>2. Changed(c) <=> <<c.value, c.state>> # <<"OK", "NORMAL">>
    BY <1>1, <1>2, <2>1 DEF Changed, value_changed, state_changed, multiple_problem, error_changed
  <2>3. Event(c) <=> c.value = "PROBLEM"
    BY <1>1, <1>2, <2>1 DEF Event, value_changed, multiple_problem
  <2>4. Table(c) = [T |-> <<c.value, c.state>> # <<"OK", "NORMAL">>, E |-> c.value = "PROBLEM"]
    BY <2>1 DEF Table
  <2> QED
    BY <2>2, <2>3, <2>4, <1>7 DEF Agrees
<1>4. CASE c.new_value = "PROBLEM"
  <2>1. new_value(c) = "PROBLEM" /\ new_state(c) = "NORMAL" /\ c.new_error = ""
    BY <1>4 DEF new_value, new_state, Evaluated
  <2>2. Changed(c) <=> <<c.value, c.state>> # <<"PROBLEM", "NORMAL">> \/ c.id \in Multiple
    BY <1>1, <1>2, <2>1 DEF Changed, value_changed, state_changed, multiple_problem, error_changed
  <2>3. Event(c) <=> c.value = "OK" \/ c.id \in Multiple
    BY <1>1, <1>2, <2>1 DEF Event, value_changed, multiple_problem
  <2>4. Table(c) = [T |-> <<c.value, c.state>> # <<"PROBLEM", "NORMAL">> \/ c.id \in Multiple,
                    E |-> c.value = "OK" \/ c.id \in Multiple]
    BY <2>1 DEF Table
  <2> QED
    BY <2>2, <2>3, <2>4, <1>7 DEF Agrees
<1>5. CASE c.new_value = "UNKNOWN"
  <2>1. new_value(c) = c.value /\ new_state(c) = "UNKNOWN" /\ c.new_error # ""
    BY <1>5 DEF new_value, new_state, Evaluated
  <2>2. Changed(c) <=> c.state = "NORMAL" \/ c.error # c.new_error
    BY <1>1, <2>1 DEF Changed, value_changed, state_changed, multiple_problem, error_changed
  <2>3. ~ Event(c)
    BY <2>1 DEF Event, value_changed, multiple_problem
  <2>4. Table(c) = [T |-> c.state = "NORMAL" \/ c.error # c.new_error, E |-> FALSE]
    BY <2>1 DEF Table
  <2> QED
    BY <2>2, <2>3, <2>4, <1>7 DEF Agrees
<1> QED
  BY <1>1, <1>3, <1>4, <1>5

-----------------------------------------------------------------------------
(* Events of one process *)

LEMMA ToldOther ==
  ASSUME NEW s \in Seq(Events), NEW t, NEW r, NEW e \in Events, e.id # t, Told(s, t, r)
  PROVE  Told(Append(s, e), t, r)
<1> DEFINE f == Append(s, e)
<1>1. /\ Len(s) \in Nat /\ Len(f) = Len(s) + 1 /\ f[Len(s) + 1] = e
      /\ \A n \in 1 .. Len(s) : f[n] = s[n]
      /\ DOMAIN s = 1 .. Len(s) /\ DOMAIN f = 1 .. Len(f)
  BY AppendLaws
<1> HIDE DEF f
<1>2. ASSUME NEW n \in DOMAIN f, f[n].id = t
      PROVE  n \in DOMAIN s /\ f[n] = s[n]
  BY <1>1, <1>2
<1>3. ASSUME NEW m \in DOMAIN f, f[m].id = t, NEW n \in 1 .. m - 1,
             f[n].id = t, \A k \in n + 1 .. m - 1 : f[k].id # t
      PROVE  f[n].value # f[m].value
  <2>1. m \in DOMAIN s /\ f[m] = s[m] /\ m <= Len(s)
    BY <1>1, <1>2, <1>3
  <2>2. f[n] = s[n]
    BY <1>1, <2>1
  <2>3. ASSUME NEW k \in n + 1 .. m - 1
        PROVE  s[k].id # t
    BY <1>1, <1>3, <2>1
  <2> QED
    BY <1>3, <2>1, <2>2, <2>3 DEF Told, Alternates
<1>4. ASSUME NEW n \in DOMAIN f, LastIn(f, t, n)
      PROVE  f[n].value = r.value
  <2>1. n \in DOMAIN s /\ f[n] = s[n]
    BY <1>2, <1>4 DEF LastIn
  <2>2. ASSUME NEW k \in n + 1 .. Len(s)
        PROVE  s[k].id # t
    BY <1>1, <1>4, <2>1 DEF LastIn
  <2> QED
    BY <1>4, <2>1, <2>2 DEF Told, LastIn
<1>5. r.lastchange = 0 => \A n \in DOMAIN f : f[n].id # t
  BY <1>2 DEF Told
<1> QED
  BY <1>3, <1>4, <1>5 DEF Told, Alternates, f

LEMMA ToldEvent ==
  ASSUME NEW s \in Seq(Events), NEW t, NEW r, NEW r2, NEW e \in Events, e.id = t, Told(s, t, r),
         r.value # e.value \/ r.lastchange = 0, r2.value = e.value, r2.lastchange # 0
  PROVE  Told(Append(s, e), t, r2)
<1> DEFINE f == Append(s, e)
<1>1. /\ Len(s) \in Nat /\ Len(f) = Len(s) + 1 /\ f[Len(s) + 1] = e
      /\ \A n \in 1 .. Len(s) : f[n] = s[n]
      /\ DOMAIN s = 1 .. Len(s) /\ DOMAIN f = 1 .. Len(f)
  BY AppendLaws
<1> HIDE DEF f
<1>2. ASSUME NEW m \in DOMAIN f, f[m].id = t, NEW n \in 1 .. m - 1,
             f[n].id = t, \A k \in n + 1 .. m - 1 : f[k].id # t
      PROVE  f[n].value # f[m].value
  <2>1. f[n] = s[n] /\ n \in DOMAIN s
    BY <1>1
  <2>2. ASSUME NEW k \in n + 1 .. m - 1
        PROVE  s[k].id # t
    BY <1>1, <1>2
  <2>3. CASE m <= Len(s)
    <3>1. m \in DOMAIN s /\ f[m] = s[m]
      BY <1>1, <2>3
    <3> QED
      BY <1>2, <2>1, <2>2, <3>1 DEF Told, Alternates
  <2>4. CASE m = Len(s) + 1
    <3>1. LastIn(s, t, n)
      BY <1>1, <1>2, <2>1, <2>2, <2>4 DEF LastIn
    <3>2. s[n].value = r.value /\ r.lastchange # 0
      BY <2>1, <3>1 DEF Told, LastIn
    <3> QED
      BY <1>1, <2>1, <2>4, <3>2
  <2> QED
    BY <1>1, <2>3, <2>4
<1>3. ASSUME NEW n \in DOMAIN f, LastIn(f, t, n)
      PROVE  f[n].value = r2.value
  BY <1>1, <1>3 DEF LastIn
<1> QED
  BY <1>2, <1>3 DEF Told, Alternates, f

\* A trigger whose value and lastchange are kept.
LEMMA ToldKept ==
  ASSUME NEW s, NEW t, NEW r, NEW r2, Told(s, t, r), r2.value = r.value, r2.lastchange = r.lastchange
  PROVE  Told(s, t, r2)
  BY DEF Told

LEMMA EvaluationFits ==
  ASSUME NEW c \in Copies, NEW r \in Stored, Copied(c, r), ~ Event(c)
  PROVE  Cached(r, c).value = r.value /\ Cached(r, c).lastchange = r.lastchange
  BY DEF Cached, Event, value_changed, Copied
-----------------------------------------------------------------------------
(* One process *)

LEMMA InitSerial == Serial /\ Init => SerialInv
<1> SUFFICES ASSUME Serial, Init PROVE SerialInv
  OBVIOUS
<1>1. selected = {} /\ ErrorTells
  BY DEF Init, ErrorTells
<1> SUFFICES ASSUME NEW p \in Procs
             PROVE  Quiet(p) /\ CopiesTrue(p) /\ CopiesApart(p) /\ EventsTold(p)
  BY <1>1 DEF SerialInv
<1>2. Types
  BY InitRow DEF RowInv
<1>3. /\ order[p] = <<>> /\ sql[p] = <<>> /\ events[p] = <<>> /\ log = <<>>
      /\ DOMAIN txn[p] = {} /\ pass[p] = 0 /\ ~ failed[p] /\ row = trig
  BY DEF Init, Nothing
<1>4. Quiet(p)
  <2>1. Passes \in Nat \ {0}
    BY TriggerAssumption
  <2>2. 0 \in 0 .. Passes
    BY <2>1
  <2> QED
    BY <1>3, <2>2 DEF Quiet
<1>5. CopiesTrue(p) /\ CopiesApart(p)
  BY <1>3 DEF CopiesTrue, CopiesApart, Seen
<1>6. log \o events[p] = <<>>
  BY <1>3
<1>7. \A t, r : Told(<<>>, t, r)
  BY DEF Told, Alternates
<1>8. EventsTold(p)
  BY <1>6, <1>7 DEF EventsTold
<1> QED
  BY <1>4, <1>5, <1>8

LEMMA GetSerial ==
  ASSUME Serial, RowInv, SerialInv, NEW p \in Procs, GetTriggers(p)
  PROVE  SerialInv'
<1>1. PICK cs \in Seq(Copies) :
        /\ order' = [order EXCEPT ![p] = cs]
        /\ \A n \in DOMAIN cs : Copied(cs[n], trig[cs[n].id]) /\ Evaluated(cs[n])
        /\ \A m, n \in DOMAIN cs : m # n => cs[m].id # cs[n].id
  BY GetOrder DEF RowInv
<1>2. /\ \/ pc[p] = "idle"
         \/ pc[p] = "open" /\ pass[p] < Passes
      /\ pass' = [pass EXCEPT ![p] = @ + 1] /\ pc' = [pc EXCEPT ![p] = "check"]
      /\ UNCHANGED <<trig, sql, txn, events, failed, row, rowlock, log, selected>>
  BY DEF GetTriggers
<1>3. /\ sql[p] = <<>> /\ order'[p] = cs /\ pc'[p] = "check" /\ pass'[p] = pass[p] + 1
      /\ Quiet(p) /\ CopiesTrue(p) /\ EventsTold(p)
  BY <1>1, <1>2 DEF SerialInv, RowInv, Types, Phases, Quiet
<1>4. \A t : Seen(p, t)' = Seen(p, t)
  BY <1>2 DEF Seen
<1>5. Quiet(p)'
  <2>1. Passes \in Nat \ {0}
    BY TriggerAssumption
  <2>2. pass[p] + 1 \in 0 .. Passes
    BY <1>2, <1>3, <2>1 DEF Quiet
  <2>3. ~ failed'[p]
    BY <1>2, <1>3 DEF Quiet
  <2> QED
    BY <1>3, <2>2, <2>3 DEF Quiet
<1>6. CopiesTrue(p)'
  BY <1>1, <1>2, <1>3, <1>4 DEF CopiesTrue
<1>7. CopiesApart(p)'
  BY <1>1, <1>2, <1>3 DEF CopiesApart
<1>8. EventsTold(p)'
  BY <1>2, <1>3 DEF EventsTold
<1>9. selected' = {} /\ ErrorTells'
  BY <1>2 DEF SerialInv, ErrorTells
<1> QED
  BY <1>5, <1>6, <1>7, <1>8, <1>9 DEF SerialInv, Serial

LEMMA CheckSerial ==
  ASSUME Serial, RowInv, SerialInv, NEW p \in Procs, CheckTrigger(p)
  PROVE  SerialInv'
<1>1. order[p] \in Seq(Copies) /\ order[p] # <<>> /\ pc[p] = "check"
  BY DEF RowInv, Types, CheckTrigger
<1>2. /\ Len(order[p]) \in Nat \ {0} /\ Tail(order[p]) \in Seq(Copies)
      /\ Len(Tail(order[p])) = Len(order[p]) - 1
      /\ \A n \in 1 .. Len(order[p]) - 1 : Tail(order[p])[n] = order[p][n + 1]
  BY <1>1, QueueLaws
<1>3. /\ \/ pc'[p] = "set" /\ order'[p] = order[p]
         \/ order'[p] = Tail(order[p]) /\ pc'[p] = "check"
      /\ UNCHANGED <<trig, sql, txn, events, pass, failed, row, rowlock, log, selected>>
  BY <1>1 DEF RowInv, Types, CheckTrigger
<1>4. Quiet(p) /\ CopiesTrue(p) /\ CopiesApart(p) /\ EventsTold(p)
  BY DEF SerialInv
<1>5. \A t : Seen(p, t)' = Seen(p, t)
  BY <1>3 DEF Seen
<1>6. Quiet(p)'
  BY <1>3, <1>4 DEF Quiet
<1>7. PICK d \in {0, 1} : \A n \in DOMAIN (order'[p]) : n + d \in DOMAIN order[p] /\ order'[p][n] = order[p][n + d]
  <2>1. CASE order'[p] = order[p]
    <3>1. \A n \in DOMAIN order[p] : n + 0 = n
      BY <1>1
    <3> QED
      BY <2>1, <3>1
  <2>2. CASE order'[p] = Tail(order[p])
    <3>1. \A n \in DOMAIN Tail(order[p]) : n + 1 \in DOMAIN order[p] /\ n \in 1 .. Len(order[p]) - 1
      BY <1>1, <1>2
    <3> QED
      BY <2>2, <3>1, <1>2
  <2> QED
    BY <2>1, <2>2, <1>3
<1>8. \A m, n \in DOMAIN (order'[p]) : m # n => m + d # n + d
  <2>1. DOMAIN (order'[p]) \subseteq Int
    BY <1>1, <1>2, <1>3
  <2> QED
    BY <2>1
<1>9. CopiesTrue(p)'
  BY <1>3, <1>4, <1>5, <1>7 DEF CopiesTrue
<1>10. CopiesApart(p)'
  BY <1>3, <1>4, <1>7, <1>8 DEF CopiesApart
<1>11. EventsTold(p)'
  BY <1>3, <1>4 DEF EventsTold
<1>12. selected' = {} /\ ErrorTells'
  BY <1>3 DEF SerialInv, ErrorTells
<1> QED
  BY <1>6, <1>9, <1>10, <1>11, <1>12 DEF SerialInv, Serial

LEMMA ExecutedSerial ==
  ASSUME Serial, RowInv, SerialInv, NEW p \in Procs, Executed(p)
  PROVE  SerialInv'
<1>1. /\ pc'[p] = "open" /\ order[p] = <<>>
      /\ UNCHANGED <<trig, order, sql, txn, events, pass, failed, row, rowlock, log, selected>>
  BY DEF Executed, RowInv, Types
<1>2. Quiet(p) /\ CopiesTrue(p) /\ CopiesApart(p) /\ EventsTold(p)
  BY DEF SerialInv
<1>3. \A t : Seen(p, t)' = Seen(p, t)
  BY <1>1 DEF Seen
<1>4. Quiet(p)'
  BY <1>1, <1>2 DEF Quiet
<1>5. CopiesTrue(p)' /\ CopiesApart(p)' /\ EventsTold(p)'
  BY <1>1, <1>2, <1>3 DEF CopiesTrue, CopiesApart, EventsTold
<1>6. selected' = {} /\ ErrorTells'
  BY <1>1 DEF SerialInv, ErrorTells
<1> QED
  BY <1>4, <1>5, <1>6 DEF SerialInv, Serial

LEMMA StillSerial ==
  ASSUME SerialInv, UNCHANGED vars
  PROVE  SerialInv'
<1>1. \A p, t : Seen(p, t)' = Seen(p, t)
  BY DEF Seen, vars, local
<1>2. \A p \in Procs : Quiet(p)' /\ CopiesTrue(p)' /\ CopiesApart(p)' /\ EventsTold(p)'
  BY <1>1 DEF SerialInv, vars, local, Quiet, CopiesTrue, CopiesApart, EventsTold
<1> QED
  BY <1>2 DEF SerialInv, ErrorTells, vars

LEMMA SetSerial ==
  ASSUME Serial, RowInv, SerialInv, NEW p \in Procs, SetTrigger(p)
  PROVE  SerialInv'
<1>1. order[p] \in Seq(Copies) /\ order[p] # <<>> /\ sql[p] \in Seq(Copies) /\ pc[p] = "set"
      /\ events[p] \in Seq(Events) /\ log \in Seq(Events) /\ trig \in [Triggers -> Stored]
  BY DEF RowInv, Types, Phases, SetTrigger
<1>2. /\ Len(order[p]) \in Nat \ {0} /\ Tail(order[p]) \in Seq(Copies)
      /\ Len(Tail(order[p])) = Len(order[p]) - 1
      /\ \A n \in 1 .. Len(order[p]) - 1 : Tail(order[p])[n] = order[p][n + 1]
      /\ Head(order[p]) = order[p][1]
  BY <1>1, QueueLaws
<1>3. PICK c \in Copies : c = Head(order[p])
  BY <1>1, QueueLaws
<1>4. PICK e \in Events : e = [id |-> c.id, value |-> new_value(c)]
  BY CopyTypes
<1>5. /\ trig' = [trig EXCEPT ![c.id] = Cached(@, c)]
      /\ events'[p] = (IF Event(c) THEN Append(events[p], e) ELSE events[p])
      /\ sql'[p] = Append(sql[p], c) /\ order'[p] = Tail(order[p]) /\ pc'[p] = "check"
      /\ UNCHANGED <<txn, pass, failed, row, rowlock, log, selected>>
  BY <1>3, <1>4 DEF SetTrigger, RowInv, Types
<1>6. Quiet(p) /\ CopiesTrue(p) /\ CopiesApart(p) /\ EventsTold(p)
  BY DEF SerialInv
<1>7. \A t : Seen(p, t)' = Seen(p, t)
  BY <1>5 DEF Seen
<1>8. /\ c.id \in Triggers /\ 1 \in DOMAIN order[p] /\ c = order[p][1]
      /\ Copied(c, trig[c.id]) /\ Evaluated(c)
      /\ \A n \in DOMAIN sql[p] : sql[p][n].id # c.id
  <2>1. c.id \in Triggers /\ 1 \in DOMAIN order[p] /\ c = order[p][1]
    <3>1. DOMAIN order[p] = 1 .. Len(order[p])
      BY <1>1
    <3>2. c.id \in Triggers
      BY CopyTypes
    <3> QED
      BY <3>1, <3>2, <1>2, <1>3
  <2>2. Copied(c, trig[c.id]) /\ Evaluated(c)
    BY <2>1, <1>6 DEF CopiesTrue
  <2>3. \A n \in DOMAIN sql[p] : sql[p][n].id # c.id
    BY <2>1, <1>6 DEF CopiesApart
  <2> QED
    BY <2>1, <2>2, <2>3
<1>9. /\ trig[c.id] = Seen(p, c.id)
      /\ trig'[c.id] = Assign(Seen(p, c.id), c)
      /\ \A t \in Triggers : t # c.id => trig'[t] = trig[t]
  <2>1. trig[c.id] = Seen(p, c.id)
    BY <1>6, <1>8 DEF CopiesTrue
  <2> QED
    BY <2>1, <1>1, <1>5, <1>8, CachedIsAssigned
<1>10. \A n \in DOMAIN (order'[p]) : /\ n + 1 \in DOMAIN order[p] /\ order'[p][n] = order[p][n + 1]
                                     /\ n + 1 # 1 /\ n \in Int
  BY <1>1, <1>2, <1>5
<1>11. /\ DOMAIN (sql'[p]) = 1 .. Len(sql[p]) + 1 /\ Len(sql[p]) \in Nat
       /\ sql'[p][Len(sql[p]) + 1] = c
       /\ \A n \in DOMAIN sql[p] : sql'[p][n] = sql[p][n] /\ n \in DOMAIN (sql'[p])
       /\ DOMAIN sql[p] = 1 .. Len(sql[p])
  BY <1>1, <1>5, AppendLaws
<1>12. \A n \in DOMAIN (sql'[p]) : n \in DOMAIN sql[p] \/ n = Len(sql[p]) + 1
  BY <1>11
<1>13. Quiet(p)'
  BY <1>5, <1>6 DEF Quiet
<1>14. CopiesTrue(p)'
  <2>1. ASSUME NEW n \in DOMAIN (order'[p])
        PROVE  Copied(order'[p][n], trig'[order'[p][n].id]) /\ Evaluated(order'[p][n])
    <3>1. order[p][n + 1] \in Copies
      BY <1>1, <1>10
    <3>2. order'[p][n].id # c.id /\ order'[p][n].id \in Triggers
      BY <3>1, <1>6, <1>8, <1>10, CopyTypes DEF CopiesApart
    <3> QED
      BY <3>2, <1>6, <1>9, <1>10 DEF CopiesTrue
  <2>2. ASSUME NEW n \in DOMAIN (sql'[p])
        PROVE  /\ Copied(sql'[p][n], Seen(p, sql'[p][n].id))
               /\ trig'[sql'[p][n].id] = Assign(Seen(p, sql'[p][n].id), sql'[p][n])
    <3>1. CASE n \in DOMAIN sql[p]
      <4>1. sql'[p][n] = sql[p][n] /\ sql[p][n].id # c.id /\ sql[p][n].id \in Triggers
        <5>1. sql[p][n] \in Copies
          BY <3>1, <1>1
        <5> QED
          BY <3>1, <5>1, <1>8, <1>11, CopyTypes
      <4> QED
        BY <3>1, <4>1, <1>6, <1>9 DEF CopiesTrue
    <3>2. CASE n = Len(sql[p]) + 1
      BY <3>2, <1>8, <1>9, <1>11
    <3> QED
      BY <3>1, <3>2, <1>12
  <2>3. ASSUME NEW t \in Triggers, \A n \in DOMAIN (sql'[p]) : sql'[p][n].id # t
        PROVE  trig'[t] = Seen(p, t)
    <3>1. Len(sql[p]) + 1 \in DOMAIN (sql'[p])
      BY <1>11
    <3>2. t # c.id /\ \A n \in DOMAIN sql[p] : sql[p][n].id # t
      BY <2>3, <3>1, <1>11
    <3> QED
      BY <3>2, <1>6, <1>9 DEF CopiesTrue
  <2> QED
    BY <2>1, <2>2, <2>3, <1>7 DEF CopiesTrue
<1>15. CopiesApart(p)'
  <2>1. ASSUME NEW m \in DOMAIN (order'[p]), NEW n \in DOMAIN (order'[p]), m # n
        PROVE  order'[p][m].id # order'[p][n].id
    <3>1. m + 1 # n + 1
      BY <2>1, <1>10
    <3> QED
      BY <3>1, <1>6, <1>10 DEF CopiesApart
  <2>2. ASSUME NEW m \in DOMAIN (sql'[p]), NEW n \in DOMAIN (sql'[p]), m # n
        PROVE  sql'[p][m].id # sql'[p][n].id
    BY <2>2, <1>6, <1>8, <1>11, <1>12 DEF CopiesApart
  <2>3. ASSUME NEW m \in DOMAIN (order'[p]), NEW n \in DOMAIN (sql'[p])
        PROVE  order'[p][m].id # sql'[p][n].id
    <3>1. order'[p][m].id # c.id
      BY <1>6, <1>8, <1>10 DEF CopiesApart
    <3> QED
      BY <3>1, <1>6, <1>10, <1>11, <1>12 DEF CopiesApart
  <2> QED
    BY <2>1, <2>2, <2>3 DEF CopiesApart
<1>16. EventsTold(p)'
  <2> SUFFICES ASSUME NEW t \in Triggers \ Multiple
               PROVE  Told(log' \o events'[p], t, trig'[t])
    BY DEF EventsTold
  <2>1. PICK h, r, r2 : h = log \o events[p] /\ r = trig[t] /\ r2 = trig'[t]
    OBVIOUS
  <2>2. h \in Seq(Events) /\ Told(h, t, r) /\ r \in Stored
    BY <2>1, <1>1, <1>6, ConcatProperties DEF EventsTold
  <2>3. log' \o events'[p] = IF Event(c) THEN Append(h, e) ELSE h
    <3>1. log \o Append(events[p], e) = Append(h, e)
      BY <2>1, <1>1, <1>4
    <3> QED
      BY <2>1, <3>1, <1>5
  <2>4. CASE c.id # t
    <3>1. r2 = r /\ e.id # t
      BY <2>1, <2>4, <1>4, <1>9
    <3>2. Told(Append(h, e), t, r)
      BY <2>2, <3>1, ToldOther
    <3> QED
      BY <2>1, <2>2, <2>3, <3>1, <3>2
  <2>5. CASE c.id = t /\ Event(c)
    <3>1. value_changed(c)
      BY <2>5 DEF Event, multiple_problem
    <3>2. Copied(c, r) /\ r2 = Cached(r, c)
      BY <2>1, <2>5, <1>1, <1>5, <1>8
    <3>3. r.value # e.value \/ r.lastchange = 0
      BY <3>1, <3>2, <1>4 DEF value_changed, Copied
    <3>4. r2.value = e.value /\ r2.lastchange # 0
      BY <2>5, <3>2, <1>4 DEF Cached
    <3>5. e.id = t
      BY <2>5, <1>4
    <3>6. Told(Append(h, e), t, r2)
      BY <2>2, <3>3, <3>4, <3>5, ToldEvent
    <3> QED
      BY <2>1, <2>3, <2>5, <3>6
  <2>6. CASE c.id = t /\ ~ Event(c)
    <3>1. Copied(c, r) /\ r2 = Cached(r, c)
      BY <2>1, <2>6, <1>1, <1>5, <1>8
    <3>2. r2.value = r.value /\ r2.lastchange = r.lastchange
      BY <2>2, <2>6, <3>1, EvaluationFits
    <3>3. Told(h, t, r2)
      BY <2>2, <3>2, ToldKept
    <3> QED
      BY <2>1, <2>3, <2>6, <3>3
  <2> QED
    BY <2>4, <2>5, <2>6
<1>17. ErrorTells'
  <2>1. Cached(trig[c.id], c).error # "" <=> Cached(trig[c.id], c).state = "UNKNOWN"
    BY <1>8 DEF Cached, new_state, Evaluated
  <2>2. trig'[c.id] = Cached(trig[c.id], c)
    BY <1>1, <1>5, <1>8
  <2> QED
    BY <2>1, <2>2, <1>9 DEF SerialInv, ErrorTells
<1>18. selected' = {}
  BY <1>5 DEF SerialInv
<1> QED
  BY <1>13, <1>14, <1>15, <1>16, <1>17, <1>18 DEF SerialInv, Serial

LEMMA ExecuteSerial ==
  ASSUME Serial, RowInv, SerialInv, NEW p \in Procs, Execute(p)
  PROVE  SerialInv'
<1>1. /\ sql[p] \in Seq(Copies) /\ sql[p] # <<>> /\ order[p] = <<>> /\ pc[p] = "check"
  BY DEF RowInv, Types, Execute
<1>2. /\ Len(sql[p]) \in Nat \ {0} /\ Tail(sql[p]) \in Seq(Copies)
      /\ Len(Tail(sql[p])) = Len(sql[p]) - 1
      /\ \A n \in 1 .. Len(sql[p]) - 1 : Tail(sql[p])[n] = sql[p][n + 1]
      /\ Head(sql[p]) = sql[p][1]
  BY <1>1, QueueLaws
<1>3. PICK c \in Copies : c = Head(sql[p])
  BY <1>1, QueueLaws
<1>4. /\ txn'[p] = [t \in DOMAIN txn[p] \cup {c.id} |-> IF t = c.id THEN Assign(Seen(p, t), c) ELSE txn[p][t]]
      /\ sql'[p] = Tail(sql[p])
      /\ UNCHANGED <<trig, pc, order, events, pass, failed, row, log, selected>>
  BY <1>3 DEF Execute, RowInv, Types
<1>5. Quiet(p) /\ CopiesTrue(p) /\ CopiesApart(p) /\ EventsTold(p)
  BY DEF SerialInv
<1>6. /\ 1 \in DOMAIN sql[p] /\ c = sql[p][1]
      /\ trig[c.id] = Assign(Seen(p, c.id), c)
  BY <1>1, <1>2, <1>3, <1>5 DEF CopiesTrue
<1>7. /\ Seen(p, c.id)' = trig[c.id]
      /\ \A t : t # c.id => Seen(p, t)' = Seen(p, t)
  BY <1>4, <1>6 DEF Seen
<1>8. \A n \in DOMAIN (sql'[p]) : /\ n + 1 \in DOMAIN sql[p] /\ sql'[p][n] = sql[p][n + 1]
                                  /\ n + 1 # 1 /\ n \in Int
  BY <1>1, <1>2, <1>4
<1>9. \A n \in DOMAIN (sql'[p]) : sql'[p][n].id # c.id
  BY <1>5, <1>6, <1>8 DEF CopiesApart
<1>10. Quiet(p)'
  BY <1>1, <1>4, <1>5 DEF Quiet
<1>11. CopiesTrue(p)'
  <2>1. ASSUME NEW n \in DOMAIN (sql'[p]), NEW d, d = sql'[p][n]
        PROVE  Copied(d, Seen(p, d.id)') /\ trig'[d.id] = Assign(Seen(p, d.id)', d)
    <3>1. n + 1 \in DOMAIN sql[p] /\ d = sql[p][n + 1] /\ d.id # c.id
      BY <2>1, <1>8, <1>9
    <3>2. Copied(d, Seen(p, d.id)) /\ trig[d.id] = Assign(Seen(p, d.id), d)
      BY <3>1, <1>5 DEF CopiesTrue
    <3> QED
      BY <3>1, <3>2, <1>4, <1>7
  <2>2. ASSUME NEW t \in Triggers, \A n \in DOMAIN (sql'[p]) : sql'[p][n].id # t
        PROVE  trig'[t] = Seen(p, t)'
    <3>1. CASE t = c.id
      BY <3>1, <1>4, <1>7
    <3>2. CASE t # c.id
      <4>1. ASSUME NEW n \in DOMAIN sql[p]
            PROVE  sql[p][n].id # t
        <5>1. CASE n = 1
          BY <5>1, <3>2, <1>6
        <5>2. CASE n # 1
          <6>1. n - 1 \in DOMAIN (sql'[p]) /\ n - 1 + 1 = n
            BY <5>2, <1>1, <1>2, <1>4
          <6> QED
            BY <6>1, <2>2, <1>8
        <5> QED
          BY <5>1, <5>2
      <4> QED
        BY <3>2, <4>1, <1>4, <1>5, <1>7 DEF CopiesTrue
    <3> QED
      BY <3>1, <3>2
  <2>3. order'[p] = <<>>
    BY <1>1, <1>4
  <2> QED
    BY <2>1, <2>2, <2>3 DEF CopiesTrue, Seen
<1>12. CopiesApart(p)'
  <2>1. ASSUME NEW m \in DOMAIN (sql'[p]), NEW n \in DOMAIN (sql'[p]), m # n
        PROVE  sql'[p][m].id # sql'[p][n].id
    <3>1. m + 1 # n + 1
      BY <2>1, <1>8
    <3> QED
      BY <3>1, <1>5, <1>8 DEF CopiesApart
  <2> QED
    BY <2>1, <1>1, <1>4 DEF CopiesApart
<1>13. EventsTold(p)'
  BY <1>4, <1>5 DEF EventsTold
<1>14. selected' = {} /\ ErrorTells'
  BY <1>4 DEF SerialInv, ErrorTells
<1> QED
  BY <1>10, <1>11, <1>12, <1>13, <1>14 DEF SerialInv, Serial

LEMMA CommitSerial ==
  ASSUME Serial, RowInv, SerialInv, NEW p \in Procs, Commit(p)
  PROVE  SerialInv'
<1>1. Quiet(p) /\ CopiesTrue(p) /\ CopiesApart(p) /\ EventsTold(p)
  BY DEF SerialInv
<1>2. sql[p] = <<>> /\ order[p] = <<>> /\ ~ failed[p] /\ ~ TxnFails
  BY <1>1 DEF RowInv, Phases, Commit, Quiet, Serial
<1>3. /\ row' = [t \in Triggers |-> Seen(p, t)] /\ log' = log \o events[p]
      /\ txn'[p] = Nothing /\ events'[p] = <<>> /\ pass'[p] = 0 /\ failed'[p] = FALSE
      /\ pc'[p] = "idle" /\ UNCHANGED <<trig, order, sql, selected>>
  BY <1>2 DEF Commit, RowInv, Types
<1>4. DOMAIN (txn'[p]) = {}
  BY <1>3 DEF Nothing
<1>5. \A t \in Triggers : Seen(p, t)' = Seen(p, t)
  BY <1>3, <1>4 DEF Seen
<1>6. Quiet(p)'
  <2>1. Passes \in Nat
    BY TriggerAssumption
  <2>2. 0 \in 0 .. Passes
    BY <2>1
  <2> QED
    BY <2>2, <1>2, <1>3, <1>4 DEF Quiet
<1>7. CopiesTrue(p)' /\ CopiesApart(p)'
  BY <1>1, <1>2, <1>3, <1>5 DEF CopiesTrue, CopiesApart
<1>8. EventsTold(p)'
  <2>1. log' \in Seq(Events) /\ log' = log \o events[p]
    BY <1>3, ConcatProperties DEF RowInv, Types
  <2>2. log' \o events'[p] = log \o events[p]
    BY <2>1, <1>3, ConcatEmptySeq
  <2> QED
    BY <2>2, <1>1, <1>3 DEF EventsTold
<1>9. selected' = {} /\ ErrorTells'
  BY <1>3 DEF SerialInv, ErrorTells
<1> QED
  BY <1>6, <1>7, <1>8, <1>9 DEF SerialInv, Serial

LEMMA NextSerial == Serial /\ RowInv /\ SerialInv /\ [Next]_vars => SerialInv'
<1> SUFFICES ASSUME Serial, RowInv, SerialInv, [Next]_vars PROVE SerialInv'
  OBVIOUS
<1>1. CASE \E p \in Procs : Step(p)
  <2> PICK p \in Procs : Step(p)
    BY <1>1
  <2>1. ~ Refused(p)
    BY DEF Refused, Serial, SerialInv, Quiet
  <2> QED
    BY <2>1, GetSerial, CheckSerial, SetSerial, ExecuteSerial, ExecutedSerial, CommitSerial DEF Step
<1>2. CASE Idle \/ UNCHANGED vars
  BY <1>2, StillSerial DEF Idle
<1>3. ~ SyncSelect /\ ~ DCsync_triggers
  BY DEF Serial, SyncSelect, DCsync_triggers, SerialInv
<1> QED
  BY <1>1, <1>2, <1>3 DEF Next

LEMMA SerialAgrees == RowInv /\ SerialInv /\ Serial => CacheAgrees
<1> SUFFICES ASSUME RowInv, SerialInv, Serial PROVE CacheAgrees
  OBVIOUS
<1>1. TypeOK
  <2>1. pass \in [Procs -> 0 .. Passes]
    BY DEF SerialInv, Quiet, RowInv, Types
  <2> QED
    BY <2>1 DEF TypeOK, RowInv, Types, SerialInv, ErrorTells
<1>2. ASSUME \A p \in Procs : pc[p] = "idle"
      PROVE  trig = row
  <2> PICK p \in Procs : TRUE
    BY DEF Serial
  <2>1. sql[p] = <<>> /\ DOMAIN txn[p] = {} /\ CopiesTrue(p)
    BY <1>2 DEF SerialInv, Quiet
  <2>2. \A t \in Triggers : trig[t] = row[t]
    BY <2>1 DEF CopiesTrue, Seen
  <2> QED
    BY <2>2 DEF RowInv, Types
<1> QED
  BY <1>1, <1>2 DEF CacheAgrees

LEMMA SerialSound == RowInv /\ SerialInv /\ Serial => DecisionsSound
<1> SUFFICES ASSUME RowInv, SerialInv, Serial PROVE DecisionsSound
  OBVIOUS
<1>1. FollowsTable
  <2> SUFFICES ASSUME NEW p \in Procs, NEW n \in DOMAIN order[p], order[p][n].lastchange # 0
               PROVE  Agrees(order[p][n])
    BY DEF FollowsTable
  <2>1. PICK c : c = order[p][n]
    OBVIOUS
  <2>2. c \in Copies /\ c.id \in Triggers
    <3>1. order[p] \in Seq(Copies)
      BY DEF RowInv, Types
    <3>2. c \in Copies
      BY <2>1, <3>1
    <3> QED
      BY <3>2, CopyTypes
  <2>3. Copied(c, trig[c.id]) /\ Evaluated(c)
    BY <2>1 DEF SerialInv, CopiesTrue
  <2>4. c.error # "" <=> c.state = "UNKNOWN"
    BY <2>2, <2>3 DEF SerialInv, ErrorTells, Copied
  <2> QED
    BY <2>1, <2>2, <2>3, <2>4, TableAgrees
<1>2. EventsAlternate
  <2> SUFFICES ASSUME NEW t \in Triggers \ Multiple, NEW m \in DOMAIN log, log[m].id = t,
                      NEW n \in 1 .. m - 1, LastOf(t, n, m - 1)
               PROVE  log[n].value # log[m].value
    BY DEF EventsAlternate
  <2> PICK p \in Procs : TRUE
    BY DEF Serial
  <2>1. PICK h : h = log \o events[p]
    OBVIOUS
  <2>2. /\ Len(log) \in Nat /\ DOMAIN log = 1 .. Len(log) /\ m \in DOMAIN h
        /\ \A k \in 1 .. Len(log) : h[k] = log[k]
    BY <2>1, ConcatProperties DEF RowInv, Types
  <2>3. Alternates(h, t)
    BY <2>1 DEF SerialInv, EventsTold, Told
  <2>4. h[m] = log[m] /\ h[n] = log[n] /\ \A k \in n + 1 .. m - 1 : h[k] = log[k]
    BY <2>2
  <2> QED
    BY <2>2, <2>3, <2>4 DEF Alternates, LastOf
<1> QED
  BY <1>1, <1>2 DEF DecisionsSound

LEMMA AlwaysRow == Spec => []RowInv
  BY InitRow, NextRow, PTL DEF Spec

LEMMA AlwaysSerial == Serial /\ Spec => [](RowInv /\ SerialInv /\ Serial)
<1>1. Serial /\ UNCHANGED vars => Serial'
  BY DEF Serial
<1>2. Serial => []Serial
  BY DEF Serial
<1> QED
  BY <1>2, AlwaysRow, InitSerial, NextSerial, PTL DEF Spec

\* With one process, a database that refuses nothing and no configuration
\* syncer, whatever DCconfig_set_trigger_value notes in the cache before the
\* UPDATE is what the committed UPDATEs leave in the row: between transactions
\* the cache is the table.
THEOREM CacheFollowsTable == Serial /\ Spec => []CacheAgrees
  BY AlwaysSerial, SerialAgrees, PTL

\* Under the same conditions the decisions of process_trigger follow the table
\* in its comment, and together they raise an event for every change of a
\* trigger and for nothing else.
THEOREM DecisionsFollowTable == Serial /\ Spec => []DecisionsSound
  BY AlwaysSerial, SerialSound, PTL
=============================================================================
