------------------------------- MODULE Alerter -------------------------------
(***************************************************************************)
(* The alerter (alerter/alerter.c): it reads the alerts that are not sent, *)
(* sends each one, up to ALERT_MAX_RETRIES times, and notes the result.    *)
(* The medium is an environment that accepts a message or not; a crash may *)
(* come between the message and the note.                                  *)
(***************************************************************************)
EXTENDS Naturals, Sequences, Functions

CONSTANTS
    MaxAlerts,          \* bound on the number of alerts
    ALERT_MAX_RETRIES,
    MaxAlertCrashes     \* bound on crashes of the alerter

ASSUME AlerterAssumption ==
    ALERT_MAX_RETRIES \in Nat \ {0} /\ {MaxAlerts, MaxAlertCrashes} \subseteq Nat

VARIABLES
    alAlerts,   \* table alerts: [status, retries], in the order of alertid
    alTodo,     \* main_alerter_loop: rows of the SELECT that are left, the retries by alertid
    alResult,   \* the result of the first of them, or "none"
    alTries,    \* ghost: how often each alert was handed to the medium
    alGot,      \* ghost: the alerts that the medium has accepted
    alCrashes

alVars == <<alAlerts, alTodo, alResult, alTries, alGot, alCrashes>>

NoRows == [n \in {} |-> 0]

AlertInit ==
    /\ alAlerts = <<>> /\ alTodo = NoRows /\ alResult = "none"
    /\ alTries = <<>> /\ alGot = {} /\ alCrashes = 0

\* db_insert_alert, committed by the escalator; for a medium that is disabled the
\* alert has failed from the beginning.
db_insert_alert(active) ==
    /\ Len(alAlerts) < MaxAlerts
    /\ alAlerts' = Append(alAlerts, [status |-> IF active THEN "not_sent" ELSE "failed", retries |-> 0])
    /\ alTries' = Append(alTries, 0)
    /\ UNCHANGED <<alTodo, alResult, alGot, alCrashes>>

\* Mutant: only alerts that were never tried are read
UnsentNew == {n \in DOMAIN alAlerts : alAlerts[n].status = "not_sent" /\ alAlerts[n].retries = 0}

Unsent == {n \in DOMAIN alAlerts : alAlerts[n].status = "not_sent"}

\* The SELECT
AlertSelect ==
    /\ DOMAIN alTodo = {} /\ Unsent # {}
    /\ alTodo' = [n \in Unsent |-> alAlerts[n].retries]
    /\ UNCHANGED <<alAlerts, alResult, alTries, alGot, alCrashes>>

\* The row that is fetched: the rows come in the order of alertid.
Fetched(n) == n \in DOMAIN alTodo /\ \A m \in DOMAIN alTodo : n <= m

\* The message may have been accepted although the result is a failure (timeout).
execute_action(n, res, accepted) ==
    /\ Fetched(n) /\ alResult = "none" /\ (res = "ok" => accepted)
    /\ alResult' = res
    /\ alTries' = [alTries EXCEPT ![n] = @ + 1]
    /\ alGot' = IF accepted THEN alGot \cup {n} ELSE alGot
    /\ UNCHANGED <<alAlerts, alTodo, alCrashes>>

\* Mutant: the retries are counted one short
AfterFailureShort(retries) ==
    [status |-> IF retries < ALERT_MAX_RETRIES THEN "not_sent" ELSE "failed", retries |-> retries + 1]

\* The retries are counted from the row that was read.
AfterFailure(retries) ==
    [status |-> IF retries + 1 < ALERT_MAX_RETRIES THEN "not_sent" ELSE "failed", retries |-> retries + 1]

\* The result is noted.
AlertResult(n) ==
    /\ Fetched(n) /\ alResult # "none"
    /\ alAlerts' = [alAlerts EXCEPT ![n] =
          IF alResult = "ok" THEN [@ EXCEPT !.status = "sent"] ELSE AfterFailure(alTodo[n])]
    /\ alTodo' = Restrict(alTodo, DOMAIN alTodo \ {n}) /\ alResult' = "none"
    /\ UNCHANGED <<alTries, alGot, alCrashes>>

AlertCrash ==
    /\ DOMAIN alTodo # {} /\ alCrashes < MaxAlertCrashes /\ alCrashes' = alCrashes + 1
    /\ alTodo' = NoRows /\ alResult' = "none"
    /\ UNCHANGED <<alAlerts, alTries, alGot>>

AlertNext ==
    \/ \E active \in BOOLEAN : db_insert_alert(active)
    \/ AlertSelect \/ AlertCrash
    \/ \E n \in DOMAIN alTodo :
          \/ \E res \in {"ok", "error"}, accepted \in BOOLEAN : execute_action(n, res, accepted)
          \/ AlertResult(n)

AlertSpec == AlertInit /\ [][AlertNext]_alVars

\* The loop of the alerter goes on.
AlertStep ==
    \/ AlertSelect
    \/ \E n \in DOMAIN alTodo :
          AlertResult(n) \/ \E res \in {"ok", "error"} : execute_action(n, res, res = "ok")
AlertFair == WF_alVars(AlertStep)

-----------------------------------------------------------------------------
(* Properties *)

\* An alert is handed to the medium at most ALERT_MAX_RETRIES times, and once
\* more for a crash between the message and the note; it is only given up after
\* as many attempts, and only called sent when the medium has accepted it.
AttemptsCounted ==
    \A n \in DOMAIN alAlerts :
        /\ alTries[n] <= ALERT_MAX_RETRIES + alCrashes
        /\ alAlerts[n].status = "failed" => alTries[n] >= ALERT_MAX_RETRIES \/ alTries[n] = 0
        /\ alAlerts[n].status = "sent" => n \in alGot

\* Every alert is eventually sent or given up: when no more alerts come there is a
\* time without one that waits.
AlertsEnd == []<>(\A n \in DOMAIN alAlerts : alAlerts[n].status # "not_sent")
=============================================================================
