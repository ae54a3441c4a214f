------------------------------- MODULE ItemQueue -------------------------------
(***************************************************************************)
(* What the history cache promises the rest of the server: the values of   *)
(* an item are processed one at a time, oldest first, each one once.  How  *)
(* many values there is room for, which process works on which item and    *)
(* where values are kept is not said here.                                 *)
(***************************************************************************)
EXTENDS Integers

CONSTANT Items

VARIABLES
  added,    \* number of values of each item put into the cache so far
  waiting,  \* the numbers of the values waiting in the cache
  busy,     \* the value being processed: a set of at most one number
  done,     \* the values in the database
  lost      \* the values whose transaction was rolled back

vars == <<added, waiting, busy, done, lost>>

Init ==
  /\ added = [i \in Items |-> 0]
  /\ waiting = [i \in Items |-> {}]
  /\ busy = [i \in Items |-> {}]
  /\ done = [i \in Items |-> {}]
  /\ lost = [i \in Items |-> {}]

Add(i) ==
  /\ added' = [added EXCEPT ![i] = @ + 1]
  /\ waiting' = [waiting EXCEPT ![i] = @ \cup {added[i] + 1}]
  /\ UNCHANGED <<busy, done, lost>>

\* The oldest waiting value, and only when no other value of the item is busy.
Take(i, v) ==
  /\ busy[i] = {}
  /\ v \in waiting[i] /\ \A u \in waiting[i] : v <= u
  /\ waiting' = [waiting EXCEPT ![i] = @ \ {v}]
  /\ busy' = [busy EXCEPT ![i] = {v}]
  /\ UNCHANGED <<added, done, lost>>

\* One transaction ends: the busy values of a set of items get into the
\* database together, or are lost together.
Finish(I) ==
  /\ \A i \in I : busy[i] # {}
  /\ busy' = [i \in Items |-> IF i \in I THEN {} ELSE busy[i]]
  /\ \/ /\ done' = [i \in Items |-> IF i \in I THEN done[i] \cup busy[i] ELSE done[i]]
        /\ UNCHANGED lost
     \/ /\ lost' = [i \in Items |-> IF i \in I THEN lost[i] \cup busy[i] ELSE lost[i]]
        /\ UNCHANGED done
  /\ UNCHANGED <<added, waiting>>

Next ==
  \/ \E i \in Items : Add(i) \/ \E v \in waiting[i] : Take(i, v)
  \/ \E I \in SUBSET Items : Finish(I)

Spec == Init /\ [][Next]_vars
================================================================================
