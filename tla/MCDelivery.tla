----------------------------- MODULE MCDelivery -----------------------------
(***************************************************************************)
(* Five parts that go on until something has got where it belongs: the     *)
(* transactions of a database session, the upload of an active proxy, the  *)
(* buffer of an agent, escalations, and alerts.  They have no state in     *)
(* common; a behaviour is one of one part, the others rest.                *)
(***************************************************************************)
EXTENDS DBTxn, ProxyUpload, AgentBuffer, Escalator, Alerter

VARIABLE part

all == <<vars, puVars, agVars, esVars, alVars, part>>

MCInit ==
    /\ Init /\ PUInit /\ AgInit /\ EscInit /\ AlertInit
    /\ part \in {"session", "upload", "agent", "escalator", "alerter"}
    /\ part = "escalator" \/ esPeriod = 0

\* No more values, lines, events and alerts need come.
Rest == part # "session" /\ UNCHANGED all

Sessions(A)   == part = "session" /\ A /\ UNCHANGED <<puVars, agVars, esVars, alVars, part>>
Uploads(A)    == part = "upload" /\ A /\ UNCHANGED <<vars, agVars, esVars, alVars, part>>
Agents(A)     == part = "agent" /\ A /\ UNCHANGED <<vars, puVars, esVars, alVars, part>>
Escalates(A) == part = "escalator" /\ A /\ UNCHANGED <<vars, puVars, agVars, alVars, part>>
Alerts(A)   == part = "alerter" /\ A /\ UNCHANGED <<vars, puVars, agVars, esVars, part>>

MCNext ==
    \/ Sessions(Next) \/ Uploads(PUNext) \/ Agents(AgNext) \/ Escalates(EscNext) \/ Alerts(AlertNext)
    \/ Rest

\* The fairness of each part, for its own behaviours: that of its module
MCFair ==
    /\ WF_all(Sessions(Next))
    /\ \A r \in PUReaders : WF_all(Uploads(ReaderStep(r)))
    /\ WF_all(Agents(refresh_active_checks))
    /\ SF_all(Agents(SendAlone(TRUE, "ok"))) /\ SF_all(Agents(ReadLine(FALSE, "ok")))
    /\ WF_all(Escalates(ScanBegin)) /\ WF_all(Escalates(ScanRow)) /\ WF_all(Escalates(ScanEnd))
    /\ \A t \in EscTriggers : WF_all(Escalates(CommitEvent(t)))
    /\ WF_all(Alerts(AlertStep))

MCSpec == MCInit /\ [][MCNext]_all /\ MCFair
=============================================================================
