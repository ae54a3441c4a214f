----------------------------- MODULE MCHistoryCache -----------------------------
(***************************************************************************)
(* HistoryCache on small instances.                                        *)
(***************************************************************************)
EXTENDS HistoryCache, TLC

CONSTANTS a, b, w1, w2, s1, s2

Perms == Permutations({a, b}) \cup Permutations({s1, s2})

\* No value has text.
Numeric == [i \in Items |-> 0]
\* Item a is a text item, item b a numeric one.
Mixed == [i \in Items |-> IF i = a THEN 2 ELSE 0]
\* Two text items of different length.
Texts == [i \in Items |-> IF i = a THEN 2 ELSE 1]
================================================================================
