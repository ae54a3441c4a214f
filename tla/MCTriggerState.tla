---------------------------- MODULE MCTriggerState ----------------------------
(***************************************************************************)
(* TriggerState for TLC.                                                   *)
(***************************************************************************)
EXTENDS TriggerState

Two == {1, 2}
Chain == {<<2, 1>>}
================================================================================
