----------------------------- MODULE MCTrendCache -----------------------------
(***************************************************************************)
(* TrendCache for TLC.                                                     *)
(***************************************************************************)
EXTENDS TrendCache, TLC

MCItems == {1, 2}
MCValues == {1, 4}

\* The two tables are treated alike.
TableSymmetry == Permutations(Tables)

Quiet == received = MaxValues /\ stops = MaxStops /\ \A p \in Procs : pc[p] = "idle"

\* Values keep coming; where the bounds end them the processes stay idle.
Done == Quiet /\ UNCHANGED vars
MCSpec == Init /\ [][Next \/ Done]_vars
================================================================================
