----------------------------- MODULE AgentBuffer -----------------------------
(***************************************************************************)
(* Active checks of the agent (zabbix_agent/active.c): values are kept in  *)
(* a buffer of CONFIG_BUFFER_SIZE elements and sent together.  Lines of a  *)
(* log file are persistent, they may fill one half of the buffer; other    *)
(* values give way to newer ones.  One thread serves one server.           *)
(*                                                                         *)
(* A value is its key and, for a log, the number of the line.  Lines that  *)
(* do not match the pattern are left out: they only move the position.     *)
(***************************************************************************)
EXTENDS Naturals, Sequences, FiniteSets, FiniteSetsExt, SequencesExt

CONSTANTS
    AgKeys,             \* keys of checks that are not logs
    LogKey,             \* key of the log file
    CONFIG_BUFFER_SIZE,
    MaxLines,           \* bound on the lines of the log file
    MaxRestarts         \* bound on restarts of the agent

ASSUME AgentBufferAssumption ==
    /\ CONFIG_BUFFER_SIZE \in Nat \ {0, 1} /\ LogKey \notin AgKeys
    /\ {MaxLines, MaxRestarts} \subseteq Nat

VARIABLES
    agFile,     \* number of lines in the log file
    agMetric,   \* active_metrics[]: state of the log check, "none" before the first refresh
    agPos,      \* its lastlogsize: the line read last
    agBuffer,   \* buffer.data: <<[key, line, pos, persistent], ...>>, oldest first
    agPcount,   \* buffer.pcount
    agGot,      \* lines the server has processed
    agSrvPos,   \* lastlogsize of the item in the server
    agGone,     \* ghost: lines given up with a message the server did not process
    agOusted,   \* ghost: lines that the log's own "not supported" value has replaced
    agRestarts

agVars == <<agFile, agMetric, agPos, agBuffer, agPcount, agGot, agSrvPos, agGone, agOusted, agRestarts>>

Half == CONFIG_BUFFER_SIZE \div 2
Outcomes == {"fail", "gone", "ok"}

AgInit ==
    /\ agFile = 0 /\ agMetric = "none" /\ agPos = 0
    /\ agBuffer = <<>> /\ agPcount = 0
    /\ agGot = {} /\ agSrvPos = 0 /\ agGone = {} /\ agOusted = {} /\ agRestarts = 0

LinesIn(buf) == {buf[k].line : k \in DOMAIN buf} \ {0}

-----------------------------------------------------------------------------
(* Sending.  due: CONFIG_BUFFER_SEND seconds have passed.                  *)

Sends(due) == agBuffer # <<>> /\ (agPcount >= Half \/ Len(agBuffer) >= CONFIG_BUFFER_SIZE \/ due)

\* The buffer is emptied when the message has been written; no answer, or an
\* answer that is not OK, is only logged.
Emptied(due, out) == Sends(due) /\ out # "fail"

\* What send_buffer does apart from the buffer itself
send_buffer(due, out) ==
    LET lines == LinesIn(agBuffer)
        logs == {k \in DOMAIN agBuffer : agBuffer[k].key = LogKey}
        arrives == Sends(due) /\ out = "ok"
    IN  /\ agGot' = IF arrives THEN agGot \cup lines ELSE agGot
        /\ agSrvPos' = IF arrives /\ logs # {} THEN agBuffer[Max(logs)].pos ELSE agSrvPos
        /\ agGone' = IF Sends(due) /\ out = "gone" THEN agGone \cup lines ELSE agGone

-----------------------------------------------------------------------------
(* The buffer *)

\* Mutant: the oldest element gives way, whatever it is
OldestOf(buf, el) == 1

\* The element that gives way to el in a full buffer: an old value of the same key,
\* which for a log may be a line, or the first one that is not persistent.
VictimOf(buf, el) ==
    LET same == {k \in DOMAIN buf : buf[k].key = el.key}
        plain == {k \in DOMAIN buf : ~buf[k].persistent}
    IN  IF ~el.persistent /\ same # {} THEN Min(same) ELSE Min(plain)

Added(buf, el) ==
    IF Len(buf) < CONFIG_BUFFER_SIZE THEN Append(buf, el)
    ELSE Append(RemoveAt(buf, VictimOf(buf, el)), el)

\* process_value: Full is its FAIL
Full(due, out, el) == el.persistent /\ ~Emptied(due, out) /\ agPcount >= Half

process_value(due, out, el) ==
    LET buf == IF Emptied(due, out) THEN <<>> ELSE agBuffer
        pcount == IF Emptied(due, out) THEN 0 ELSE agPcount
    IN  /\ send_buffer(due, out)
        /\ IF Full(due, out, el) THEN agBuffer' = buf /\ agPcount' = pcount /\ UNCHANGED agOusted
           ELSE /\ agBuffer' = Added(buf, el)
                /\ agPcount' = IF el.persistent THEN pcount + 1 ELSE pcount
                /\ agOusted' = agOusted \cup (IF el.key = LogKey /\ ~el.persistent
                                              THEN LinesIn(buf) \ LinesIn(agBuffer') ELSE {})

-----------------------------------------------------------------------------
(* The thread of the active checks *)

\* The loop of the thread: send_buffer alone, once a second
SendAlone(due, out) ==
    /\ Sends(due)
    /\ send_buffer(due, out)
    /\ agBuffer' = IF Emptied(due, out) THEN <<>> ELSE agBuffer
    /\ agPcount' = IF Emptied(due, out) THEN 0 ELSE agPcount
    /\ UNCHANGED <<agFile, agMetric, agPos, agOusted, agRestarts>>

\* process_active_checks, a line of the log: the position only moves with the value
ReadLine(due, out) ==
    LET el == [key |-> LogKey, line |-> agPos + 1, pos |-> agPos + 1, persistent |-> TRUE]
    IN  /\ agMetric = "normal" /\ agPos < agFile
        /\ process_value(due, out, el)
        /\ agPos' = IF Full(due, out, el) THEN agPos ELSE agPos + 1
        /\ UNCHANGED <<agFile, agMetric, agRestarts>>

\* process_active_checks, process_log has failed: the check is disabled until the
\* next list of checks and the server is told.
LogFails(due, out) ==
    /\ agMetric = "normal" /\ agMetric' = "notsupported"
    /\ process_value(due, out, [key |-> LogKey, line |-> 0, pos |-> agPos, persistent |-> FALSE])
    /\ UNCHANGED <<agFile, agPos, agRestarts>>

\* process_active_checks, a check that is not a log
PlainValue(k, due, out) ==
    /\ agMetric # "none"
    /\ process_value(due, out, [key |-> k, line |-> 0, pos |-> 0, persistent |-> FALSE])
    /\ UNCHANGED <<agFile, agMetric, agPos, agRestarts>>

\* Mutant: a check that is known and not supported is left as it is
RenewedNew == agMetric = "none"

\* The checks to which a new list gives the state "normal"
Renewed == agMetric # "normal"

\* parse_list_of_checks and add_check: a check that is known keeps its position
refresh_active_checks ==
    /\ Renewed /\ agMetric' = "normal"
    /\ agPos' = IF agMetric = "none" THEN agSrvPos ELSE agPos
    /\ UNCHANGED <<agFile, agBuffer, agPcount, agGot, agSrvPos, agGone, agOusted, agRestarts>>

AgentRestart ==
    /\ agRestarts < MaxRestarts /\ agRestarts' = agRestarts + 1
    /\ agMetric' = "none" /\ agPos' = 0 /\ agBuffer' = <<>> /\ agPcount' = 0
    /\ UNCHANGED <<agFile, agGot, agSrvPos, agGone, agOusted>>

LineWritten ==
    /\ agFile < MaxLines /\ agFile' = agFile + 1
    /\ UNCHANGED <<agMetric, agPos, agBuffer, agPcount, agGot, agSrvPos, agGone, agOusted, agRestarts>>

AgNext ==
    \/ LineWritten \/ refresh_active_checks \/ AgentRestart
    \/ \E due \in BOOLEAN, out \in Outcomes :
         \/ SendAlone(due, out) \/ ReadLine(due, out) \/ LogFails(due, out)
         \/ \E k \in AgKeys : PlainValue(k, due, out)

AgSpec == AgInit /\ [][AgNext]_agVars

\* The thread goes on, the server can be reached and the file be read again and again.
AgFair ==
    /\ WF_agVars(refresh_active_checks)
    /\ SF_agVars(SendAlone(TRUE, "ok"))
    /\ SF_agVars(ReadLine(FALSE, "ok"))

-----------------------------------------------------------------------------
(* Properties *)

\* A line that was read is in the buffer or with the server; what is lost went with
\* a message that was written and not processed, or gave way to the "not supported"
\* value of its own log.  A restarted agent goes on where the server stands.
LinesKept == \A n \in 1 .. agPos : n \in agGot \cup agGone \cup agOusted \cup LinesIn(agBuffer)

\* pcount counts every persistent element, so that a full buffer always has a
\* value that may give way: process_value looks for it and does not expect to fail.
RoomForAll ==
    /\ Cardinality({k \in DOMAIN agBuffer : agBuffer[k].persistent}) <= agPcount
    /\ agPcount <= Half
    /\ Len(agBuffer) = CONFIG_BUFFER_SIZE => \E k \in DOMAIN agBuffer : ~agBuffer[k].persistent

\* What process_log relies on when it moves its position: the line is safe, and a
\* full buffer never makes process_value give up another one.
BufferSound == LinesKept /\ RoomForAll

\* Every line of the log gets to the server, or is lost in the ways LinesKept allows.
LinesArrive == []<>(1 .. agFile \subseteq agGot \cup agGone \cup agOusted)
=============================================================================
