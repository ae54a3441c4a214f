---- MODULE MCPollerQueue ----
(* Instances of PollerQueue. *)
EXTENDS PollerQueue

\* The interval of item 1 may be changed.
MCDelays == [i \in Items |-> IF i = 1 THEN {1, 2} ELSE {2}]
MCDelay == [i \in Items |-> {2}]
==============================
