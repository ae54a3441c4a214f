---------------------------- MODULE MCBinaryHeap ----------------------------
(* An instance of BinaryHeap for TLC. *)
EXTENDS BinaryHeap, TLC

\* Keys carry no order: any two of them may be exchanged.
KeysAlike == Permutations(Keys)
=============================================================================
