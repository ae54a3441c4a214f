------------------------------ MODULE HeapOps ------------------------------
(***************************************************************************)
(* The operations of the binary heap of libs/zbxalgo/binaryheap.c as        *)
(* functions from heap to heap, for the modules that use a heap without     *)
(* looking into it.  A heap is a function from 0..n-1 to keys, data gives   *)
(* the value the compare function looks at.  BinaryHeap has the loops of    *)
(* the code step by step; they compute these functions (LoopsCompute).      *)
(***************************************************************************)
EXTENDS Integers, FiniteSets

Size(h) == Cardinality(DOMAIN h)

Parent(i) == (i - 1) \div 2

\* the positions from i up to the root
Ancestors(i) ==
    LET up[j \in 0 .. i] == {j} \cup (IF j = 0 THEN {} ELSE up[Parent(j)])
    IN  up[i]

\* the smaller child, the left one when both are equal
Child(h, data, i) ==
    IF 2 * i + 2 < Size(h) /\ data[h[2 * i + 1]] > data[h[2 * i + 2]]
    THEN 2 * i + 2
    ELSE 2 * i + 1

\* __binary_heap_bubble_up: the element at i moves to its first ancestor
\* position whose parent is not larger
BubbleUp(h, data, i) ==
    LET stop[j \in 0 .. i] ==
            IF j = 0 \/ data[h[Parent(j)]] <= data[h[i]] THEN j ELSE stop[Parent(j)]
        s == stop[i]
    IN  [j \in DOMAIN h |-> CASE j = s                          -> h[i]
                              [] j > s /\ j \in Ancestors(i)    -> h[Parent(j)]
                              [] OTHER                          -> h[j]]

\* __binary_heap_bubble_down: the element at i moves down past smaller children
BubbleDown(h, data, i) ==
    LET stop[j \in DOMAIN h] ==
            IF 2 * j + 1 >= Size(h) \/ data[h[i]] <= data[h[Child(h, data, j)]]
            THEN j
            ELSE stop[Child(h, data, j)]
        s == stop[i]
    IN  [j \in DOMAIN h |-> CASE j = s                                      -> h[i]
                              [] j >= i /\ j # s /\ j \in Ancestors(s)      -> h[Child(h, data, j)]
                              [] OTHER                                      -> h[j]]

Position(h, key) == CHOOSE i \in DOMAIN h : h[i] = key

HeapEmpty == [i \in {} |-> 0]

HeapInsert(h, data, key) ==
    BubbleUp([i \in 0 .. Size(h) |-> IF i = Size(h) THEN key ELSE h[i]], data, Size(h))

\* bubble down only where bubbling up left the element in its place
HeapUpdate(h, data, key) ==
    LET i  == Position(h, key)
        up == BubbleUp(h, data, i)
    IN  IF up[i] = key THEN BubbleDown(up, data, i) ELSE up

\* the last element replaces the one at i, and may move down but not up
HeapRemoveAt(h, data, i) ==
    LET last == Size(h) - 1
        cut  == [j \in 0 .. last - 1 |-> IF j = i THEN h[last] ELSE h[j]]
    IN  IF i = last THEN cut ELSE BubbleDown(cut, data, i)

HeapRemoveMin(h, data) == HeapRemoveAt(h, data, 0)

HeapRemove(h, data, key) == HeapRemoveAt(h, data, Position(h, key))

=============================================================================
