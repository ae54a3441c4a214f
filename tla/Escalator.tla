------------------------------ MODULE Escalator ------------------------------
(***************************************************************************)
(* Escalations: events of triggers open and recover them (process_actions  *)
(* in actions.c), the escalator (escalator/escalator.c) takes them from    *)
(* step to step, and may crash between two transactions.                   *)
(*                                                                         *)
(* There is one action with one user to notify.  The transactions of the   *)
(* events of a trigger follow each other: each begins with an update of    *)
(* the trigger's row.  Evaluation of conditions, permissions, media and    *)
(* the text of messages are left out; a remote command is a message.       *)
(***************************************************************************)
EXTENDS Integers, Sequences, FiniteSets, SequencesExt, FiniteSetsExt

CONSTANTS
    EscTriggers,    \* triggers, as numbers: the table is read in their order
    EscPeriods,     \* what actions.esc_period may be; 0: all operations at once
    OpSteps,        \* steps with an operation
    RecoveryMsg,    \* actions.recovery_msg
    EscMultiple,    \* whether a problem may have several events
    SleepPeriod,    \* SEC_PER_MIN, the check of a sleeping escalation
    MaxEscNow,      \* bound on the clock
    MaxEscEvents,   \* bound on the number of events
    MaxEscCrashes   \* bound on crashes of the escalator

ASSUME EscAssumption ==
    /\ EscTriggers \subseteq Nat \ {0} /\ OpSteps \subseteq Nat \ {0}
    /\ EscPeriods \cup {SleepPeriod, MaxEscNow, MaxEscEvents, MaxEscCrashes} \subseteq Nat
    /\ {RecoveryMsg, EscMultiple} \subseteq BOOLEAN

VARIABLES
    esNow,      \* time
    esPeriod,   \* actions.esc_period
    esEvents,   \* the events, committed or not: [trigger, problem]
    esOpen,     \* the transaction that is open for each trigger: rows to insert, or NoTxn
    esNextId,   \* the next escalationid
    esRows,     \* table escalations
    esMsgs,     \* table alerts, in the order of insertion
    esScan,     \* process_escalations
    esConfig,   \* "on", or why the escalations are cancelled: "off" or "deleted"
    esCrashes

esVars == <<esNow, esPeriod, esEvents, esOpen, esNextId, esRows, esMsgs, esScan, esConfig, esCrashes>>

NoTxn == [on |-> FALSE, rows |-> {}]
NoEsc == [id |-> 0, trigger |-> 0, ev |-> 0, rev |-> 0, next |-> 0, step |-> 0, status |-> "active"]
NoScan == [on |-> FALSE, now |-> 0, rest |-> <<>>, dels |-> {}]

EscInit ==
    /\ esNow = 1 /\ esPeriod \in EscPeriods /\ esEvents = <<>> /\ esOpen = [t \in EscTriggers |-> NoTxn] /\ esNextId = 1
    /\ esRows = {} /\ esMsgs = <<>> /\ esScan = NoScan /\ esConfig = "on" /\ esCrashes = 0

EscTick == esNow < MaxEscNow /\ esNow' = esNow + 1
           /\ UNCHANGED <<esPeriod, esEvents, esOpen, esNextId, esRows, esMsgs, esScan, esConfig, esCrashes>>

-----------------------------------------------------------------------------
(* Events *)

InProblem(t) ==
    LET mine == {n \in DOMAIN esEvents : esEvents[n].trigger = t}
    IN  mine # {} /\ esEvents[Max(mine)].problem

\* get_escalation_sql
NewEsc(id, t, ev, rev) == [NoEsc EXCEPT !.id = id, !.trigger = t, !.ev = ev, !.rev = rev]

\* The problem event matches the conditions of the action, the other one does
\* not: it recovers the escalations there are.
process_actions(t, problem) ==
    LET e       == Len(esEvents) + 1
        ongoing == {r \in esRows : r.ev # 0 /\ r.trigger = t}
        n       == IF problem THEN 1 ELSE Cardinality(ongoing)
    IN  /\ ~ esOpen[t].on /\ Len(esEvents) < MaxEscEvents
        /\ IF problem THEN EscMultiple \/ ~ InProblem(t) ELSE InProblem(t)
        /\ esEvents' = Append(esEvents, [trigger |-> t, problem |-> problem])
        /\ esOpen' = [esOpen EXCEPT ![t] = [on |-> TRUE, rows |->
              {NewEsc(esNextId + i - 1, t, IF problem THEN e ELSE 0, IF problem THEN 0 ELSE e) : i \in 1 .. n}]]
        /\ esNextId' = esNextId + n
        /\ UNCHANGED <<esNow, esPeriod, esRows, esMsgs, esScan, esConfig, esCrashes>>

CommitEvent(t) ==
    /\ esOpen[t].on /\ esRows' = esRows \cup esOpen[t].rows
    /\ esOpen' = [esOpen EXCEPT ![t] = NoTxn]
    /\ UNCHANGED <<esNow, esPeriod, esEvents, esNextId, esMsgs, esScan, esConfig, esCrashes>>

\* The action, the trigger, an item or a host is disabled; or the action or the
\* trigger is deleted. Events may still come: the processes that make them see the
\* change only after the next synchronisation of the configuration cache.
Reconfigure(c) ==
    /\ esConfig = "on" /\ esConfig' = c
    /\ UNCHANGED <<esNow, esPeriod, esEvents, esOpen, esNextId, esRows, esMsgs, esScan, esCrashes>>

-----------------------------------------------------------------------------
(* One escalation: [esc, msgs] with the messages to insert *)

Quiet == IF RecoveryMsg THEN "sleep" ELSE "completed"

execute_operations(esc) ==
    LET step == IF esPeriod = 0 THEN esc.step ELSE esc.step + 1
        now  == esPeriod = 0 \/ step \in OpSteps
        more == esPeriod # 0 /\ (now \/ \E s \in OpSteps : s > step)
        done == [esc EXCEPT !.step = step]
    IN  [esc  |-> IF more THEN [done EXCEPT !.next = esNow + esPeriod]
                  ELSE [done EXCEPT !.status = Quiet,
                                    !.next = IF RecoveryMsg THEN esNow + SleepPeriod ELSE @],
         msgs |-> IF now THEN <<[ev |-> esc.ev, rev |-> 0, step |-> step]>> ELSE <<>>]

\* The recovery message goes to those who got a message of the problem.
process_recovery_msg(esc, before) ==
    LET told == \E n \in DOMAIN before : before[n].ev = esc.ev /\ before[n].rev = 0
    IN  [esc  |-> [esc EXCEPT !.status = "completed"],
         msgs |-> IF RecoveryMsg /\ told THEN <<[ev |-> esc.ev, rev |-> esc.rev, step |-> 0]>> ELSE <<>>]

\* check_escalation and execute_escalation: a cancelled one says so, once
execute_escalation(esc, before) ==
    LET res == IF esConfig = "deleted" THEN [esc |-> esc, msgs |-> <<>>]
               ELSE IF esc.status = "active" THEN execute_operations(esc)
               ELSE process_recovery_msg(esc, before)
    IN  IF esConfig = "on" THEN res ELSE [res EXCEPT !.esc.status = "completed"]

\* The body of the transaction for an active escalation
RunActive(esc, superseded) ==
    LET first == IF esc.next <= esScan.now THEN execute_escalation(esc, esMsgs)
                 ELSE [esc |-> esc, msgs |-> <<>>]
        mid   == first.esc
    IN  IF mid.status # "completed" /\ mid.rev # 0
        THEN LET rec == execute_escalation([mid EXCEPT !.status = "recovery"], esMsgs \o first.msgs)
             IN  [esc |-> rec.esc, msgs |-> first.msgs \o rec.msgs]
        ELSE IF superseded THEN [first EXCEPT !.esc.status = "completed"] ELSE first

\* Mutant: the step is not written
EscWrittenStepless(old, esc) ==
    IF esc.status = "active" THEN [old EXCEPT !.next = esc.next] ELSE [old EXCEPT !.status = esc.status]

\* What UPDATE writes: step and nextcheck only for one that stays active
EscWritten(old, esc) ==
    IF esc.status = "active" THEN [old EXCEPT !.step = esc.step, !.next = esc.next]
    ELSE [old EXCEPT !.status = esc.status]

-----------------------------------------------------------------------------
(* The escalator *)

EscBefore(r, s) == r.trigger < s.trigger \/ (r.trigger = s.trigger /\ r.id < s.id)

\* The SELECT.  A record of a recovery is only there to be deleted.
ScanBegin ==
    /\ ~ esScan.on /\ esRows # {}
    /\ LET Read(r) == IF r.rev # 0 THEN [r EXCEPT !.status = "completed"] ELSE r
       IN  \E rest \in SetToSeqs({Read(r) : r \in esRows}) :
             /\ \A m, n \in DOMAIN rest : m < n => EscBefore(rest[m], rest[n])
             /\ esScan' = [on |-> TRUE, now |-> esNow, dels |-> {}, rest |-> rest]
    /\ UNCHANGED <<esNow, esPeriod, esEvents, esOpen, esNextId, esRows, esMsgs, esConfig, esCrashes>>

\* Mutant: an escalation that is superseded goes, whether it has recovered or not
TakeOverDrops(esc, last) ==
    [esc |-> esc, superseded |-> esc.trigger = last.trigger,
     drop |-> esc.trigger = last.trigger /\ (esc.next > esScan.now \/ esc.status = "sleep")]

\* The next record may be of the same trigger: a recovery is taken over from it,
\* another problem ends this one.
TakeOver(esc, last) ==
    LET superseded == esc.trigger = last.trigger
        recovered  == superseded /\ last.rev # 0
    IN  [esc        |-> IF recovered THEN [esc EXCEPT !.rev = last.rev, !.status = "active"] ELSE esc,
         superseded |-> superseded,
         drop       |-> superseded /\ ~ recovered /\ (esc.next > esScan.now \/ esc.status = "sleep")]

\* The transaction for one record.
ScanRow ==
    LET row  == Head(esScan.rest)
        last == IF Len(esScan.rest) > 1 THEN esScan.rest[2] ELSE NoEsc
        t    == TakeOver(row, last)
        esc  == t.esc
        old  == CHOOSE r \in esRows : r.id = row.id
        run  == RunActive(esc, t.superseded)
        due  == esc.next <= esScan.now \/ esc.rev # 0
        Skip(dels) == /\ esScan' = [esScan EXCEPT !.rest = Tail(@), !.dels = @ \cup dels]
                      /\ UNCHANGED <<esRows, esMsgs>>
        Save(new, msgs) ==
            /\ esRows' = (esRows \ {old}) \cup new
            /\ esMsgs' = esMsgs \o msgs
            /\ esScan' = [esScan EXCEPT !.rest = Tail(@)]
    IN  /\ esScan.on /\ esScan.rest # <<>>
        /\ \/ row.status = "completed" /\ Skip({row.id})
           \/ row.status # "completed" /\ t.drop /\ Skip({row.id})
           \/ row.status # "completed" /\ ~ t.drop /\ ~ due /\ Skip({})
           \/ /\ row.status # "completed" /\ ~ t.drop /\ due /\ esc.status = "active"
              /\ Save(IF run.esc.status = "completed" THEN {} ELSE {EscWritten(old, run.esc)}, run.msgs)
           \/ /\ row.status # "completed" /\ ~ t.drop /\ due /\ esc.status = "sleep"
              /\ Save(IF esConfig = "on" THEN {[old EXCEPT !.next = esNow + SleepPeriod]} ELSE {}, <<>>)
        /\ UNCHANGED <<esNow, esPeriod, esEvents, esOpen, esNextId, esConfig, esCrashes>>

\* The completed ones are deleted at the end.
ScanEnd ==
    /\ esScan.on /\ esScan.rest = <<>>
    /\ esRows' = {r \in esRows : r.id \notin esScan.dels}
    /\ esScan' = NoScan
    /\ UNCHANGED <<esNow, esPeriod, esEvents, esOpen, esNextId, esMsgs, esConfig, esCrashes>>

ScanCrash ==
    /\ esScan.on /\ esCrashes < MaxEscCrashes /\ esCrashes' = esCrashes + 1
    /\ esScan' = NoScan
    /\ UNCHANGED <<esNow, esPeriod, esEvents, esOpen, esNextId, esRows, esMsgs, esConfig>>

EscNext ==
    \/ EscTick
    \/ \E t \in EscTriggers : (\E pr \in BOOLEAN : process_actions(t, pr)) \/ CommitEvent(t)
    \/ \E c \in {"off", "deleted"} : Reconfigure(c)
    \/ ScanBegin \/ ScanRow \/ ScanEnd \/ ScanCrash

EscSpec == EscInit /\ [][EscNext]_esVars

\* The escalator's loop goes on, and so do the writers of events.
EscFair ==
    /\ WF_esVars(ScanBegin) /\ WF_esVars(ScanRow) /\ WF_esVars(ScanEnd)
    /\ \A t \in EscTriggers : WF_esVars(CommitEvent(t))

-----------------------------------------------------------------------------
(* Properties *)

\* Nobody is told of the same step of a problem twice, however often the
\* escalator crashes and whatever supersedes the escalation; an action without
\* escalation period (esc_period 0) repeats its operations once at the recovery.
StepOnce ==
    \A m, n \in DOMAIN esMsgs :
        m < n /\ esMsgs[m] = esMsgs[n] /\ esMsgs[n].rev = 0 =>
            /\ esPeriod = 0
            /\ \A k \in DOMAIN esMsgs : esMsgs[k] = esMsgs[m] => k \in {m, n}

\* A recovery message is sent once for a problem, after the messages of the
\* problem, with a later event of the same trigger that is no problem.
RecoveryLast ==
    \A m \in DOMAIN esMsgs :
        LET msg == esMsgs[m]
        IN  msg.rev # 0 =>
              /\ msg.ev < msg.rev
              /\ ~ esEvents[msg.rev].problem /\ esEvents[msg.rev].trigger = esEvents[msg.ev].trigger
              /\ \E k \in 1 .. m - 1 : esMsgs[k].ev = msg.ev /\ esMsgs[k].rev = 0
              /\ \A k \in m + 1 .. Len(esMsgs) : esMsgs[k].ev # msg.ev

\* The messages of a problem: every step once, then the recovery.
MessagesSound == StepOnce /\ RecoveryLast

\* Every recovery reaches the escalation: the escalation that is open when the
\* recovery is written ends, with a recovery message to those who were told of
\* the problem, unless a newer problem or a change of the configuration ends it.
RecoveryReaches ==
    \A e \in 1 .. MaxEscEvents :
        (\E r, s \in esRows : r.ev = e /\ s.rev # 0 /\ s.trigger = r.trigger /\ s.id > r.id) ~>
            /\ \A r \in esRows : r.ev # e
            /\ \/ \A n \in DOMAIN esMsgs : esMsgs[n].ev # e
               \/ \E n \in DOMAIN esMsgs : esMsgs[n].ev = e /\ esMsgs[n].rev # 0
               \/ ~ RecoveryMsg \/ esConfig # "on"
               \/ \E f \in e + 1 .. Len(esEvents) : esEvents[f] = esEvents[e]
=============================================================================
