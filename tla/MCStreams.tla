------------------------------ MODULE MCStreams ------------------------------
(***************************************************************************)
(* Three parts without state in common, each with a stream that must not   *)
(* be torn: the decisions of one process about triggers, the reading of    *)
(* rotated logs, and the rows of a passive proxy.  A behaviour is one of   *)
(* one part, the others rest.                                              *)
(***************************************************************************)
EXTENDS MCTriggerState, LogFiles, ProxyUpload, TLC

VARIABLE part

all == <<vars, lfVars, puVars, part>>

StreamsInit ==
    /\ Init /\ LFInit /\ PUInit
    /\ part \in {"triggers", "log", "upload"}
    /\ part = "log" \/ ~ lfSkip

\* No more values may come to the proxy.
Rest == part = "upload" /\ UNCHANGED all

StreamsNext ==
    \/ part = "triggers" /\ Next /\ UNCHANGED <<lfVars, puVars, part>>
    \/ part = "log" /\ LFNext /\ UNCHANGED <<vars, puVars, part>>
    \/ part = "upload" /\ PUNext /\ UNCHANGED <<vars, lfVars, part>>
    \/ Rest

StreamsSpec == StreamsInit /\ [][StreamsNext]_all

\* The syncers and the trappers of the upload may be exchanged, each among themselves.
Alike == Permutations(PUSyncers) \cup Permutations(PUReaders)
=============================================================================
