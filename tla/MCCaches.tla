------------------------------ MODULE MCCaches ------------------------------
(***************************************************************************)
(* Three caches without state in common: the compaction of the history     *)
(* cache (MCHistoryVacuum), the value cache, and the index and pointers of *)
(* the configuration cache.  A behaviour is one of one part, the others    *)
(* rest.                                                                   *)
(***************************************************************************)
EXTENDS MCHistoryVacuum, ValueCache, ConfigSync

VARIABLE part

all == <<vars, vcVars, csVars, part>>

\* The values of the last two seconds; the two newest values before the last second.
SomeRequests == {[kind |-> "time", seconds |-> 2, count |-> 0, shift |-> 0],
                 [kind |-> "count", seconds |-> 0, count |-> 2, shift |-> 1]}

CachesInit ==
    /\ VCInit /\ CSInit
    /\ \/ part = "vacuum" /\ VacuumInit
       \/ part \in {"values", "configuration"} /\ Init

CachesNext ==
    \/ part = "vacuum" /\ VacuumNext /\ UNCHANGED <<vcVars, csVars, part>>
    \/ part = "values" /\ VCNext /\ UNCHANGED <<vars, csVars, part>>
    \/ part = "configuration" /\ CSNext /\ UNCHANGED <<vars, vcVars, part>>

CachesSpec == CachesInit /\ [][CachesNext]_all

\* The processes that use the value cache may be exchanged.
Alike == Permutations(VCProcs)
=============================================================================
