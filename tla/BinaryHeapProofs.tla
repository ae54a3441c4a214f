-------------------------- MODULE BinaryHeapProofs --------------------------
(***************************************************************************)
(* Proofs about the binary heap for any number of elements and any data:    *)
(* the map of positions is exact whatever operations are used, the heap is  *)
(* a min-heap when zbx_binary_heap_remove_direct is not among them, and the *)
(* loops compute the functions of HeapOps.                                  *)
(*                                                                          *)
(* Each function of HeapOps moves one element along a branch up or down and *)
(* shifts the others; StopsUp and StopsDown say where it ends, and what is  *)
(* true of every position is shown by the least number principle (Least).   *)
(* IsHeap, an array without duplicates, is kept by every function; Ordered  *)
(* is kept by all of them but HeapRemove.  The poller queues are such heaps *)
(* (ConfigCacheProofs).                                                     *)
(***************************************************************************)
EXTENDS BinaryHeap, FiniteSetTheorems, WellFoundedInduction, TLAPS

(***************************************************************************)
(* The loops                                                                *)
(***************************************************************************)

Positions == 0 .. num - 1

\* The positions of parent and children.
LEMMA Parents ==
    /\ \A i \in Nat \ {0} : ParentOf(i) \in Nat /\ ParentOf(i) < i
    /\ \A i \in Nat \ {0}, j \in Nat :
          ParentOf(i) = j <=> i = 2 * j + 1 \/ i = 2 * j + 2
  BY DEF ParentOf

-----------------------------------------------------------------------------
(* The map of positions *)

\* The element that a loop moves is entered in the map by its first swap, or
\* after the loop when there is none.
NotEntered(i) == op \in {"insert", "remove"} /\ index = start /\ i = index

IndexInv ==
    /\ HeapTypeOK
    /\ op = "insert" => start = num - 1
    /\ op # "idle" => IF pc = "up" THEN index <= start ELSE index >= start
    /\ \A i, j \in Positions : elems[i] = elems[j] => i = j
    /\ \A i \in Positions : NotEntered(i) \/ key_index[elems[i]] = i
    /\ \A k \in Keys : \/ key_index[k] = FAIL
                       \/ key_index[k] \in Positions /\ elems[key_index[k]] = k
                       \/ op # "idle" /\ NotEntered(index) /\ elems[index] = k

LEMMA IndexInit == HeapInit => IndexInv
  BY DataAssumption, MaxElemsAssumption
     DEF HeapInit, IndexInv, HeapTypeOK, Positions, NotEntered, FAIL, Ops

LEMMA IndexInsert ==
    ASSUME IndexInv, NEW k \in Keys, NEW d \in Data, zbx_binary_heap_insert(k, d)
    PROVE  IndexInv'
  <1> USE MaxElemsAssumption DEF IndexInv, HeapTypeOK, Positions, NotEntered, FAIL
  <1>1. \A i \in 0 .. num - 1 : elems[i] # k
    BY DEF zbx_binary_heap_insert
  <1>2. HeapTypeOK' /\ (op = "insert" => start = num - 1)'
    BY DEF zbx_binary_heap_insert, Begin, Ops
  <1>3. \A i, j \in 0 .. num : elems'[i] = elems'[j] => i = j
    BY <1>1 DEF zbx_binary_heap_insert
  <1>4. \A i \in 0 .. num - 1 : elems'[i] = elems[i] /\ key_index'[elems'[i]] = i
    BY DEF zbx_binary_heap_insert
  <1>5. op' = "insert" /\ index' = num /\ start' = num /\ num' = num + 1
    BY DEF zbx_binary_heap_insert, Begin
  <1>6. \A i \in 0 .. num : NotEntered(i)' \/ key_index'[elems'[i]] = i
    BY <1>4, <1>5
  <1>7. \A q \in Keys : \/ key_index'[q] = FAIL
                        \/ key_index'[q] \in 0 .. num /\ elems'[key_index'[q]] = q
    BY <1>4 DEF zbx_binary_heap_insert
  <1> QED
    BY <1>2, <1>3, <1>5, <1>6, <1>7

LEMMA IndexUpdate ==
    ASSUME IndexInv, NEW k \in Keys, NEW d \in Data, zbx_binary_heap_update_direct(k, d)
    PROVE  IndexInv'
  BY DEF IndexInv, HeapTypeOK, Positions, NotEntered, FAIL, zbx_binary_heap_update_direct,
         Begin, Ops

LEMMA IndexRemove ==
    ASSUME IndexInv, op = "idle", NEW p \in Positions, RemoveAt(p)
    PROVE  IndexInv'
  <1> USE MaxElemsAssumption DEF IndexInv, HeapTypeOK, Positions, NotEntered, FAIL
  <1>1. num' = num - 1 /\ num \in Nat /\ num > 0
    BY DEF RemoveAt
  <1>2. /\ elems' = [j \in 0 .. num - 2 |-> IF j = p THEN elems[num - 1] ELSE elems[j]]
        /\ key_index' = [key_index EXCEPT ![elems[p]] = FAIL]
    BY DEF RemoveAt
  <1>3. \A i \in 0 .. num - 1 : key_index[elems[i]] = i /\ elems[i] \in Keys
    OBVIOUS
  <1>4. \A i, j \in 0 .. num - 2 : elems'[i] = elems'[j] => i = j
    BY <1>1, <1>2, <1>3
  <1>5. \A i \in 0 .. num - 2 : i # p => elems'[i] = elems[i] /\ key_index'[elems'[i]] = i
    BY <1>1, <1>2, <1>3
  <1>6. \A q \in Keys : \/ key_index'[q] = FAIL
                        \/ q # elems[p] /\ key_index[q] \in 0 .. num - 1 /\ elems[key_index[q]] = q
                           /\ key_index'[q] = key_index[q]
    BY <1>2, <1>3
  <1>7. CASE p = num - 1
    <2>1. UNCHANGED <<op, pc, index, start>> /\ UNCHANGED data
      BY <1>7 DEF RemoveAt
    <2>2. HeapTypeOK'
      BY <1>1, <1>2, <1>7, <2>1
    <2> QED
      BY <1>1, <1>2, <1>4, <1>5, <1>6, <1>7, <2>1, <2>2
  <1>8. CASE p # num - 1
    <2>1. op' = "remove" /\ pc' = "down" /\ index' = p /\ start' = p /\ data' = data
      BY <1>8 DEF RemoveAt, Begin
    <2>2. p \in 0 .. num - 2 /\ elems'[p] = elems[num - 1]
      BY <1>1, <1>2, <1>8
    <2>3. HeapTypeOK'
      BY <1>1, <1>2, <1>8, <2>1, <2>2 DEF Ops
    <2>4. \A q \in Keys : \/ key_index'[q] = FAIL
                          \/ key_index'[q] \in 0 .. num - 2 /\ elems'[key_index'[q]] = q
                          \/ elems'[p] = q
      BY <1>1, <1>2, <1>6, <2>2
    <2> QED
      BY <1>1, <1>4, <1>5, <1>8, <2>1, <2>2, <2>3, <2>4
  <1> QED
    BY <1>7, <1>8

LEMMA IndexSwap ==
    ASSUME IndexInv, op # "idle", NEW c \in Positions, c # index, Swap(index, c),
           UNCHANGED <<num, data, op, pc, start>>,
           IF pc = "up" THEN c < index ELSE c > index
    PROVE  IndexInv'
  <1> USE DEF IndexInv, HeapTypeOK, Positions, NotEntered, FAIL
  <1>1. /\ elems' = [elems EXCEPT ![index] = elems[c], ![c] = elems[index]]
        /\ key_index' = [key_index EXCEPT ![elems[index]] = c, ![elems[c]] = index]
        /\ index' = c /\ num' = num /\ op' = op /\ start' = start /\ pc' = pc
        /\ data' = data
    BY DEF Swap, SwapIndex
  <1>2. elems[index] # elems[c]
    OBVIOUS
  <1>3. \A i \in Positions : elems'[i] = IF i = index THEN elems[c]
                                         ELSE IF i = c THEN elems[index] ELSE elems[i]
    BY <1>1
  <1>4. \A i, j \in Positions : elems'[i] = elems'[j] => i = j
    BY <1>3
  <1>5. \A i \in Positions : key_index'[elems'[i]] = i
    BY <1>1, <1>2, <1>3
  <1>6. \A k \in Keys : \/ key_index'[k] = FAIL
                        \/ key_index'[k] \in Positions /\ elems'[key_index'[k]] = k
    BY <1>1, <1>2, <1>3
  <1>7. index \in Positions /\ start \in Positions
    OBVIOUS
  <1>8. elems' \in [Positions -> Keys] /\ key_index' \in [Keys -> {FAIL} \cup 0 .. MaxElems - 1]
    BY <1>1, <1>7, MaxElemsAssumption
  <1>9. HeapTypeOK'
    BY <1>1, <1>7, <1>8
  <1>10. IF pc = "up" THEN c <= start ELSE c >= start
    BY <1>7
  <1>11. (op = "insert" => start = num - 1)'
    BY <1>1
  <1> HIDE DEF HeapTypeOK
  <1> QED
    BY <1>1, <1>4, <1>5, <1>6, <1>9, <1>10, <1>11

LEMMA IndexLoop == ASSUME IndexInv, Rise \/ Sink PROVE IndexInv'
  <1>1. CASE Rise
    <2>1. ParentOf(index) \in Positions /\ ParentOf(index) < index
      BY <1>1, Parents DEF Rise, IndexInv, HeapTypeOK, MustRise, Positions
    <2> QED
      BY <1>1, <2>1, IndexSwap DEF Rise, Positions, IndexInv, HeapTypeOK
  <1>2. CASE Sink
    <2>1. ChildOf(index) \in Positions /\ ChildOf(index) > index
      BY <1>2 DEF Sink, IndexInv, HeapTypeOK, MustSink, ChildOf, Positions
    <2>2. pc # "up"
      BY <1>2 DEF Sink
    <2> QED
      BY <1>2, <2>1, <2>2, IndexSwap DEF Sink, Positions, IndexInv, HeapTypeOK
  <1> QED
    BY <1>1, <1>2

LEMMA IndexEntered ==
    ASSUME IndexInv, op \in {"insert", "remove"}, key_index' = EnterIndex, End,
           UNCHANGED <<num, elems, data>>
    PROVE  IndexInv'
  <1> USE DEF IndexInv, HeapTypeOK, Positions, NotEntered, FAIL
  <1>1. CASE index = start
    <2>1. key_index' = [key_index EXCEPT ![elems[index]] = index]
      BY <1>1 DEF EnterIndex
    <2>2. \A i \in Positions : key_index'[elems[i]] = i
      BY <1>1, <2>1
    <2>3. \A k \in Keys : \/ key_index'[k] = FAIL
                          \/ key_index'[k] \in Positions /\ elems[key_index'[k]] = k
      BY <1>1, <2>1
    <2>4. key_index' \in [Keys -> {FAIL} \cup 0 .. MaxElems - 1]
      BY <2>1, MaxElemsAssumption
    <2> QED
      BY <1>1, <2>2, <2>3, <2>4 DEF End
  <1>2. CASE index # start
    BY <1>2 DEF EnterIndex, End
  <1> QED
    BY <1>1, <1>2

LEMMA IndexUpdateLoop == ASSUME IndexInv, UpdateUp \/ UpdateDone PROVE IndexInv'
  BY DEF IndexInv, HeapTypeOK, Positions, NotEntered, FAIL, UpdateUp, UpdateDone, UpdateTurns,
         End, Ops

LEMMA IndexNext == IndexInv /\ [HeapNext]_heapVars => IndexInv'
  <1> SUFFICES ASSUME IndexInv, [HeapNext]_heapVars PROVE IndexInv'
    OBVIOUS
  <1>1. CASE \E k \in Keys, d \in Data : zbx_binary_heap_insert(k, d)
    BY <1>1, IndexInsert
  <1>2. CASE \E k \in Keys, d \in Data : zbx_binary_heap_update_direct(k, d)
    BY <1>2, IndexUpdate
  <1>3. CASE zbx_binary_heap_remove_min
    BY <1>3, IndexRemove DEF zbx_binary_heap_remove_min, Positions, IndexInv, HeapTypeOK
  <1>4. CASE \E k \in Keys : zbx_binary_heap_remove_direct(k)
    <2>1. PICK k \in Keys : zbx_binary_heap_remove_direct(k)
      BY <1>4
    <2>2. key_index[k] \in Positions
      BY <2>1 DEF zbx_binary_heap_remove_direct, IndexInv, NotEntered
    <2> QED
      BY <2>1, <2>2, IndexRemove DEF zbx_binary_heap_remove_direct
  <1>5. CASE Rise \/ Sink
    BY <1>5, IndexLoop
  <1>6. CASE InsertDone \/ RemoveDone
    BY <1>6, IndexEntered DEF InsertDone, RemoveDone
  <1>7. CASE UpdateUp \/ UpdateDone
    BY <1>7, IndexUpdateLoop
  <1>8. CASE UNCHANGED heapVars
    BY <1>8 DEF heapVars, IndexInv, HeapTypeOK, Positions, NotEntered
  <1> QED
    BY <1>1, <1>2, <1>3, <1>4, <1>5, <1>6, <1>7, <1>8 DEF HeapNext, Step

(***************************************************************************)
(* For any number of elements and any sequence of operations, the direct    *)
(* ones included, every position the heap uses is inside the array and the  *)
(* map of positions is exact between operations: a direct update or removal *)
(* meets the element it was called for.                                     *)
(***************************************************************************)
THEOREM PositionsExact == HeapSpec => [](HeapTypeOK /\ IndexExact)
  <1>1. IndexInv => HeapTypeOK /\ IndexExact
    BY DEF IndexInv, IndexExact, NotEntered, Positions
  <1> QED
    BY <1>1, IndexInit, IndexNext, PTL DEF HeapSpec


-----------------------------------------------------------------------------
(* The order *)

LE(i, j) == data[elems[i]] <= data[elems[j]]

\* While an element rises, the order holds everywhere but above it, and below
\* it too until its first swap; while it sinks, everywhere but below it.  In
\* both cases its children are not smaller than its parent.
OrderInv ==
    /\ op = "idle" => \A i \in 1 .. num - 1 : LE(ParentOf(i), i)
    /\ op # "idle" /\ pc = "up" =>
          \A i \in 1 .. num - 1 :
              i # index /\ (ParentOf(i) # index \/ index # start) => LE(ParentOf(i), i)
    /\ op # "idle" /\ pc = "down" =>
          \A i \in 1 .. num - 1 : ParentOf(i) # index => LE(ParentOf(i), i)
    /\ op # "idle" /\ index # 0 =>
          \A i \in 1 .. num - 1 : ParentOf(i) = index => LE(ParentOf(index), i)

LEMMA OrderInit == HeapInit => OrderInv
  BY DEF HeapInit, OrderInv

\* The values that the order compares.
LEMMA Values ==
    ASSUME IndexInv
    PROVE  /\ \A i \in Positions : elems[i] \in Keys /\ data[elems[i]] \in Int
           /\ num \in Nat
           /\ op # "idle" => index \in Positions /\ start \in Positions
  <1>1. \A i \in Positions : elems[i] \in Keys /\ data[elems[i]] \in Data
    BY DEF IndexInv, HeapTypeOK, Positions
  <1>2. \A i \in Positions : data[elems[i]] \in Int
    BY <1>1, DataAssumption
  <1>3. num \in Nat /\ (op # "idle" => index \in Positions /\ start \in Positions)
    BY MaxElemsAssumption DEF IndexInv, HeapTypeOK, Positions
  <1> QED
    BY <1>1, <1>2, <1>3

LEMMA OrderInsert ==
    ASSUME IndexInv, OrderInv, NEW k \in Keys, NEW d \in Data, zbx_binary_heap_insert(k, d)
    PROVE  OrderInv'
  <1>1. \A i \in Positions : elems[i] # k
    BY DEF zbx_binary_heap_insert, IndexInv, NotEntered, Positions, FAIL, HeapTypeOK
  <1>2. \A i \in Positions : data'[elems'[i]] = data[elems[i]]
    BY <1>1 DEF zbx_binary_heap_insert, IndexInv, Positions, HeapTypeOK
  <1>3. op' = "insert" /\ pc' = "up" /\ index' = num /\ start' = num /\ num' = num + 1
    BY DEF zbx_binary_heap_insert, Begin
  <1>4. \A i \in 1 .. num - 1 : LE(ParentOf(i), i)'
    <2>1. \A i \in 1 .. num - 1 : i \in Positions /\ ParentOf(i) \in Positions
      BY Parents, Values DEF Positions
    <2>2. \A i \in 1 .. num - 1 : LE(ParentOf(i), i)
      BY DEF OrderInv, zbx_binary_heap_insert
    <2> QED
      BY <1>2, <2>1, <2>2 DEF LE
  <1>5. \A i \in 1 .. num : ParentOf(i) # num
    BY Parents, Values
  <1> QED
    BY <1>3, <1>4, <1>5, Values DEF OrderInv

LEMMA OrderUpdate ==
    ASSUME IndexInv, OrderInv, NEW k \in Keys, NEW d \in Data,
           zbx_binary_heap_update_direct(k, d)
    PROVE  OrderInv'
  <1>1. key_index[k] \in Positions /\ elems[key_index[k]] = k
    BY DEF zbx_binary_heap_update_direct, IndexInv, NotEntered
  <1>2. \A i \in Positions : i # key_index[k] => data'[elems'[i]] = data[elems[i]]
    BY <1>1 DEF zbx_binary_heap_update_direct, IndexInv, Positions, HeapTypeOK
  <1>3. /\ op' = "update" /\ pc' = "up" /\ index' = key_index[k] /\ start' = key_index[k]
        /\ num' = num
    BY DEF zbx_binary_heap_update_direct, Begin
  <1>4. \A i \in 1 .. num - 1 : LE(ParentOf(i), i)
    BY DEF OrderInv, zbx_binary_heap_update_direct
  <1>5. \A i \in 1 .. num - 1 : ParentOf(i) \in Positions /\ i \in Positions /\ ParentOf(i) # i
    BY Parents, Values DEF Positions
  <1>6. \A i \in 1 .. num - 1 :
            i # key_index[k] /\ ParentOf(i) # key_index[k] => LE(ParentOf(i), i)'
    BY <1>2, <1>4, <1>5 DEF LE
  <1>7. ASSUME key_index[k] # 0, NEW i \in 1 .. num - 1, ParentOf(i) = key_index[k]
        PROVE  data'[elems'[ParentOf(key_index[k])]] <= data'[elems'[i]]
    <2>1. /\ ParentOf(key_index[k]) \in Positions
          /\ ParentOf(key_index[k]) # key_index[k]
          /\ i # key_index[k]
      BY <1>1, <1>5, <1>7 DEF Positions
    <2>2. LE(ParentOf(key_index[k]), key_index[k]) /\ LE(key_index[k], i)
      BY <1>1, <1>4, <1>7 DEF Positions
    <2>3. data[elems[ParentOf(key_index[k])]] <= data[elems[i]]
      BY <1>1, <1>5, <2>1, <2>2, Values DEF LE
    <2> QED
      BY <1>2, <1>5, <2>1, <2>3
  <1>8. key_index' = key_index
    BY DEF zbx_binary_heap_update_direct
  <1> QED
    BY <1>3, <1>6, <1>7, <1>8 DEF OrderInv, LE

LEMMA OrderRemoveMin ==
    ASSUME IndexInv, OrderInv, zbx_binary_heap_remove_min
    PROVE  OrderInv'
  <1>1. num' = num - 1 /\ data' = data /\ op = "idle" /\ num > 0
    BY DEF zbx_binary_heap_remove_min, RemoveAt
  <1>2. \A i \in 1 .. num - 2 : elems'[i] = elems[i]
    BY Values DEF zbx_binary_heap_remove_min, RemoveAt
  <1>3. \A i \in 1 .. num - 2 : ParentOf(i) # 0 => LE(ParentOf(i), i)'
    BY <1>1, <1>2, Parents, Values DEF OrderInv, LE, zbx_binary_heap_remove_min
  <1>4. CASE num = 1
    BY <1>1, <1>4 DEF zbx_binary_heap_remove_min, RemoveAt, OrderInv
  <1>5. CASE num # 1
    <2>1. op' = "remove" /\ pc' = "down" /\ index' = 0
      BY <1>5, Values DEF zbx_binary_heap_remove_min, RemoveAt, Begin
    <2> QED
      BY <1>1, <1>3, <2>1, Values DEF OrderInv
  <1> QED
    BY <1>4, <1>5

LEMMA OrderRise == ASSUME IndexInv, OrderInv, Rise PROVE OrderInv'
  <1> DEFINE p == ParentOf(index)
             V(i) == data[elems[i]]
             W(i) == data'[elems'[i]]
  <1>1. /\ p \in Positions /\ index \in Positions /\ p \in Nat /\ index \in Nat
        /\ p < index /\ index # 0 /\ V(p) > V(index)
    BY Parents, Values DEF Rise, MustRise, Positions
  <1>2. /\ \A i \in Positions : W(i) = IF i = index THEN V(p) ELSE IF i = p THEN V(index) ELSE V(i)
        /\ index' = p /\ num' = num /\ start' = start /\ op' = op /\ pc' = "up" /\ op # "idle"
        /\ pc = "up"
    BY <1>1 DEF Rise, Swap, IndexInv, HeapTypeOK, Positions
  <1>3. index <= start /\ start \in Nat
    BY <1>2, Values DEF IndexInv, Positions
  <1>4. \A i \in 1 .. num - 1 : /\ i \in Positions /\ ParentOf(i) \in Positions
                                /\ i # ParentOf(i)
                                /\ V(i) \in Int /\ V(ParentOf(i)) \in Int
    BY Parents, Values DEF Positions
  <1>5. \A i \in 1 .. num - 1 : i # index /\ ParentOf(i) # index => V(ParentOf(i)) <= V(i)
    BY <1>2 DEF OrderInv, LE
  <1>6. \A i \in 1 .. num - 1 : ParentOf(i) = index => V(p) <= V(i)
    BY <1>1, <1>2 DEF OrderInv, LE
  <1>7. V(p) \in Int /\ V(index) \in Int
    BY <1>1, Values
  <1> HIDE DEF V, W
  <1>8. ASSUME NEW i \in 1 .. num - 1, i # p PROVE W(ParentOf(i)) <= W(i)
    <2>1. CASE i = index
      BY <1>1, <1>2, <1>4, <1>7, <2>1
    <2>2. CASE ParentOf(i) = index
      BY <1>1, <1>2, <1>4, <1>6, <1>8, <2>2
    <2>3. CASE i # index /\ ParentOf(i) = p
      <3>1. V(p) <= V(i)
        BY <1>1, <1>5, <2>3
      <3>2. W(ParentOf(i)) = V(index) /\ W(i) = V(i)
        BY <1>1, <1>2, <1>4, <1>8, <2>3
      <3> QED
        BY <1>1, <1>4, <1>7, <3>1, <3>2
    <2>4. CASE i # index /\ ParentOf(i) # p /\ ParentOf(i) # index
      BY <1>2, <1>4, <1>5, <1>8, <2>4
    <2> QED
      BY <2>1, <2>2, <2>3, <2>4
  <1>9. ASSUME p # 0, NEW i \in 1 .. num - 1, ParentOf(i) = p
        PROVE  W(ParentOf(p)) <= W(i)
    <2>1. p \in 1 .. num - 1
      BY <1>1, <1>9 DEF Positions
    <2>2. ParentOf(p) \in Nat /\ ParentOf(p) < p
      BY <1>1, <1>9, Parents
    <2>3. V(ParentOf(p)) <= V(p) /\ W(ParentOf(p)) = V(ParentOf(p))
      BY <1>1, <1>2, <1>4, <1>5, <2>1, <2>2
    <2>4. CASE i = index
      BY <1>2, <1>4, <2>3, <2>4
    <2>5. CASE i # index
      <3>1. V(p) <= V(i) /\ W(i) = V(i)
        BY <1>1, <1>2, <1>4, <1>5, <1>9, <2>5
      <3> QED
        BY <1>4, <1>7, <2>1, <2>3, <3>1
    <2> QED
      BY <2>4, <2>5
  <1>10. \A i \in 1 .. num - 1 : i # p => LE(ParentOf(i), i)'
    BY <1>8 DEF LE, W
  <1>11. \A i \in 1 .. num - 1 : index' # 0 /\ ParentOf(i) = index'
                                 => data'[elems'[ParentOf(index')]] <= data'[elems'[i]]
    BY <1>2, <1>9 DEF W
  <1> HIDE DEF p
  <1> QED
    BY <1>2, <1>10, <1>11 DEF OrderInv, LE

LEMMA OrderSink == ASSUME IndexInv, OrderInv, Sink PROVE OrderInv'
  <1> DEFINE c == ChildOf(index)
             V(i) == data[elems[i]]
             W(i) == data'[elems'[i]]
  <1>1. /\ c \in Positions /\ index \in Positions /\ c \in Nat /\ index \in Nat
        /\ c > index /\ ParentOf(c) = index /\ V(index) > V(c)
    BY Parents, Values DEF Sink, MustSink, ChildOf, Positions
  <1>2. /\ \A i \in Positions : W(i) = IF i = index THEN V(c) ELSE IF i = c THEN V(index) ELSE V(i)
        /\ index' = c /\ num' = num /\ op' = op /\ pc' = "down" /\ op # "idle" /\ pc = "down"
    BY <1>1 DEF Sink, Swap, IndexInv, HeapTypeOK, Positions
  <1>3. \A i \in 1 .. num - 1 : /\ i \in Positions /\ ParentOf(i) \in Positions
                                /\ i # ParentOf(i)
                                /\ V(i) \in Int /\ V(ParentOf(i)) \in Int
    BY Parents, Values DEF Positions
  <1>4. \A i \in 1 .. num - 1 : ParentOf(i) # index => V(ParentOf(i)) <= V(i)
    BY <1>2 DEF OrderInv, LE
  <1>5. index # 0 => \A i \in 1 .. num - 1 : ParentOf(i) = index => V(ParentOf(index)) <= V(i)
    BY <1>2 DEF OrderInv, LE
  <1>6. V(c) \in Int /\ V(index) \in Int
    BY <1>1, Values
  <1>7. ASSUME NEW i \in 1 .. num - 1, ParentOf(i) = index PROVE V(c) <= V(i)
    <2>1. i = 2 * index + 1 \/ i = 2 * index + 2
      BY <1>1, <1>7, Parents
    <2>2. num \in Nat /\ index \in Nat
      BY <1>1, Values
    <2>3. CASE i = c
      BY <1>6, <2>3
    <2>4. CASE i # c
      <3>1. 2 * index + 1 \in 1 .. num - 1
        BY <2>1, <2>2
      <3> QED
        BY <1>3, <2>1, <2>2, <2>4, <3>1 DEF ChildOf
    <2> QED
      BY <2>3, <2>4
  <1>8. c \in 1 .. num - 1
    BY <1>1 DEF Positions
  <1> HIDE DEF c, V, W
  <1>9. ASSUME NEW i \in 1 .. num - 1, ParentOf(i) # c PROVE W(ParentOf(i)) <= W(i)
    <2>1. CASE i = c
      BY <1>1, <1>2, <1>3, <1>6, <2>1
    <2>2. CASE i # c /\ ParentOf(i) = index
      BY <1>1, <1>2, <1>3, <1>7, <2>2
    <2>3. CASE i = index
      <3>1. V(ParentOf(index)) <= V(c) /\ ParentOf(index) # c
        BY <1>1, <1>5, <1>8, <1>9, <2>3
      <3>2. W(ParentOf(i)) = V(ParentOf(i)) /\ W(i) = V(c)
        BY <1>1, <1>2, <1>3, <2>3, <3>1
      <3> QED
        BY <2>3, <3>1, <3>2
    <2>4. CASE i # c /\ ParentOf(i) # index /\ i # index
      BY <1>2, <1>3, <1>4, <1>9, <2>4
    <2> QED
      BY <2>1, <2>2, <2>3, <2>4
  <1>10. ASSUME NEW i \in 1 .. num - 1, ParentOf(i) = c PROVE W(ParentOf(c)) <= W(i)
    <2>1. V(c) <= V(i)
      BY <1>1, <1>4, <1>10
    <2>2. i # c /\ i # index
      BY <1>1, <1>3, <1>8, <1>10, Parents DEF Positions
    <2> QED
      BY <1>1, <1>2, <1>3, <2>1, <2>2
  <1>11. \A i \in 1 .. num - 1 : ParentOf(i) # c => LE(ParentOf(i), i)'
    BY <1>9 DEF LE, W
  <1>12. \A i \in 1 .. num - 1 : ParentOf(i) = index'
                                 => data'[elems'[ParentOf(index')]] <= data'[elems'[i]]
    BY <1>2, <1>10 DEF W
  <1> QED
    BY <1>2, <1>11, <1>12 DEF OrderInv, LE

LEMMA OrderDone ==
    ASSUME IndexInv, OrderInv, InsertDone \/ UpdateUp \/ UpdateDone \/ RemoveDone
    PROVE  OrderInv'
  <1>1. UNCHANGED <<num, elems, data>> /\ op # "idle"
    BY DEF InsertDone, UpdateUp, UpdateDone, RemoveDone
  <1>2. \A i \in 1 .. num - 1 : LE(ParentOf(i), i)' <=> LE(ParentOf(i), i)
    BY <1>1 DEF LE
  <1>3. index \in Positions /\ start \in Positions /\ num \in Nat
    BY <1>1, Values
  <1>4. \A i \in 1 .. num - 1 : data[elems[i]] \in Int /\ data[elems[ParentOf(i)]] \in Int
    BY Values, Parents DEF Positions
  <1>5. ~ MustRise => index = 0 \/ LE(ParentOf(index), index)
    BY <1>3, <1>4 DEF MustRise, LE, Positions
  <1>6. ~ MustSink => \A i \in 1 .. num - 1 : ParentOf(i) = index => LE(index, i)
    <2> SUFFICES ASSUME ~ MustSink, NEW i \in 1 .. num - 1, ParentOf(i) = index
                 PROVE  LE(index, i)
      OBVIOUS
    <2>1. i = 2 * index + 1 \/ i = 2 * index + 2
      BY <1>3, Parents DEF Positions
    <2>2. 2 * index + 1 \in 1 .. num - 1
      BY <1>3, <2>1 DEF Positions
    <2>3. 2 * index + 2 < num => 2 * index + 2 \in 1 .. num - 1
      BY <1>3 DEF Positions
    <2>4. data[elems[index]] \in Int
      BY <1>3, Values
    <2> QED
      BY <1>3, <1>4, <2>1, <2>2, <2>3, <2>4 DEF MustSink, ChildOf, LE, Positions
  <1>7. CASE InsertDone
    <2>1. op = "insert" /\ pc = "up" /\ op' = "idle" /\ ~ MustRise
      BY <1>7 DEF InsertDone, End, IndexInv, HeapTypeOK
    <2>2. \A i \in 1 .. num - 1 : ParentOf(i) = index => index # start
      BY <2>1, <1>3, Parents DEF IndexInv, Positions
    <2>3. \A i \in 1 .. num - 1 : LE(ParentOf(i), i)
      BY <1>3, <1>5, <2>1, <2>2 DEF OrderInv
    <2> QED
      BY <1>1, <1>2, <2>1, <2>3 DEF OrderInv
  <1>8. CASE UpdateUp
    <2>1. op = "update" /\ pc = "up" /\ ~ MustRise
      BY <1>8 DEF UpdateUp
    <2>2. \A i \in 1 .. num - 1 :
             ParentOf(i) # index \/ index # start => LE(ParentOf(i), i)
      BY <1>3, <1>5, <2>1 DEF OrderInv, Positions
    <2>3. CASE index = start
      <3>1. op' = op /\ pc' = "down" /\ index' = index
        BY <1>8, <2>3 DEF UpdateUp, UpdateTurns
      <3>2. (\A i \in 1 .. num - 1 : ParentOf(i) # index => LE(ParentOf(i), i))'
        BY <1>1, <1>2, <2>2, <3>1
      <3>3. (index # 0 =>
               \A i \in 1 .. num - 1 : ParentOf(i) = index => LE(ParentOf(index), i))'
        BY <1>1, <3>1 DEF OrderInv, LE
      <3> QED
        BY <1>1, <3>1, <3>2, <3>3 DEF OrderInv
    <2>4. CASE index # start
      <3>1. op' = "idle"
        BY <1>8, <2>4 DEF UpdateUp, UpdateTurns, End
      <3> QED
        BY <1>1, <1>2, <2>2, <2>4, <3>1 DEF OrderInv
    <2> QED
      BY <2>3, <2>4
  <1>9. CASE UpdateDone \/ RemoveDone
    <2>1. pc = "down" /\ op' = "idle" /\ ~ MustSink
      BY <1>9 DEF UpdateDone, RemoveDone, End, IndexInv, HeapTypeOK
    <2>2. \A i \in 1 .. num - 1 : LE(ParentOf(i), i)
      BY <1>1, <1>6, <2>1 DEF OrderInv
    <2> QED
      BY <1>1, <1>2, <2>1, <2>2 DEF OrderInv
  <1> QED
    BY <1>7, <1>8, <1>9

LEMMA OrderNext ==
    IndexInv /\ (~ removed => OrderInv) /\ [HeapNext]_heapVars => (~ removed => OrderInv)'
  <1> SUFFICES ASSUME IndexInv, ~ removed => OrderInv, [HeapNext]_heapVars, ~ removed' PROVE OrderInv'
    OBVIOUS
  <1>1. \A k \in Keys : ~ zbx_binary_heap_remove_direct(k)
    BY DEF zbx_binary_heap_remove_direct
  <1>2. removed' = removed
    BY <1>1 DEF HeapNext, Step, heapVars, zbx_binary_heap_insert, zbx_binary_heap_update_direct,
                zbx_binary_heap_remove_min, Rise, Sink, InsertDone, UpdateUp, UpdateDone, RemoveDone
  <1>3. OrderInv
    BY <1>2
  <1>4. CASE \E k \in Keys, d \in Data : zbx_binary_heap_insert(k, d)
    BY <1>3, <1>4, OrderInsert
  <1>5. CASE \E k \in Keys, d \in Data : zbx_binary_heap_update_direct(k, d)
    BY <1>3, <1>5, OrderUpdate
  <1>6. CASE zbx_binary_heap_remove_min
    BY <1>3, <1>6, OrderRemoveMin
  <1>7. CASE Rise
    BY <1>3, <1>7, OrderRise
  <1>8. CASE Sink
    BY <1>3, <1>8, OrderSink
  <1>9. CASE InsertDone \/ UpdateUp \/ UpdateDone \/ RemoveDone
    BY <1>3, <1>9, OrderDone
  <1>10. CASE UNCHANGED heapVars
    BY <1>3, <1>10 DEF heapVars, OrderInv, LE
  <1> QED
    BY <1>1, <1>4, <1>5, <1>6, <1>7, <1>8, <1>9, <1>10 DEF HeapNext, Step

(***************************************************************************)
(* For any number of elements and any data, insertion, update and the       *)
(* removal of the minimum restore the order of the heap: it is a min-heap   *)
(* between operations until zbx_binary_heap_remove_direct is called.        *)
(***************************************************************************)
THEOREM MinHeap == HeapSpec => []HeapOrder
  <1>1. OrderInv => HeapOrder
    BY DEF OrderInv, HeapOrder, LE
  <1>2. removed => HeapOrder
    BY DEF HeapOrder
  <1> QED
    BY <1>1, <1>2, IndexInit, IndexNext, OrderInit, OrderNext, PTL DEF HeapSpec

(***************************************************************************)
(* The functions of HeapOps                                                 *)
(***************************************************************************)

\* A nonempty set of natural numbers has a least one.
LEMMA Least ==
  ASSUME NEW S \in SUBSET Nat, S # {}
  PROVE  \E m \in S : \A k \in S : m <= k
<1>1. \E R : IsWellFoundedOn(R, Nat) /\ \A i \in Nat, j \in Nat : <<i, j>> \in R <=> i < j
  <2> DEFINE R == OpToRel(<, Nat)
  <2>1. IsWellFoundedOn(R, Nat)
    BY NatLessThanWellFounded
  <2>2. \A i \in Nat, j \in Nat : <<i, j>> \in R <=> i < j
    BY DEF OpToRel
  <2> QED
    BY <2>1, <2>2
<1>2. PICK R : IsWellFoundedOn(R, Nat) /\ \A i \in Nat, j \in Nat : <<i, j>> \in R <=> i < j
  BY <1>1
<1>3. IsWellFoundedOn(R, Nat)
  BY <1>2
<1>4. PICK m \in S : \A k \in S : ~ (<<k, m>> \in R)
  BY <1>3, WFMin
<1>5. ASSUME NEW k \in S
      PROVE  m <= k
  <2>1. k \in Nat /\ m \in Nat /\ <<k, m>> \notin R
    BY <1>4
  <2>2. <<k, m>> \in R <=> k < m
    BY <2>1, <1>2
  <2> QED
    BY <2>1, <2>2
<1> QED
  BY <1>5

\* f computes the ancestors of the positions up to n.
Climbs(f, n) == f = [j \in 0 .. n |-> {j} \cup (IF j = 0 THEN {} ELSE f[Parent(j)])]

\* The value at a position, from those above it.
LEMMA ClimbsAt ==
  ASSUME NEW n, NEW f, Climbs(f, n), NEW j \in 0 .. n
  PROVE  f[j] = {j} \cup (IF j = 0 THEN {} ELSE f[Parent(j)])
<1> DEFINE g == [k \in 0 .. n |-> {k} \cup (IF k = 0 THEN {} ELSE f[Parent(k)])]
<1>1. g[j] = {j} \cup (IF j = 0 THEN {} ELSE f[Parent(j)])
  OBVIOUS
<1>2. f = g
  BY DEF Climbs
<1> HIDE DEF g
<1>3. f[j] = g[j]
  BY <1>2
<1> QED
  BY <1>1, <1>3

\* There is such a function, however many positions there are.
LEMMA ClimbsTo ==
  ASSUME NEW n \in Nat
  PROVE  \E f : Climbs(f, n)
<1> DEFINE bad == {i \in Nat : ~ \E f : Climbs(f, i)}
<1> SUFFICES ASSUME bad # {} PROVE FALSE
  OBVIOUS
<1>1. PICK m \in bad : \A k \in bad : m <= k
  BY Least
<1>2. CASE m = 0
  <2> DEFINE f == [j \in 0 .. 0 |-> {j}]
  <2>1. Climbs(f, 0)
    BY DEF Climbs
  <2> QED
    BY <1>1, <1>2, <2>1
<1>3. CASE m # 0
  <2>1. m - 1 \in Nat /\ m - 1 \notin bad
    BY <1>1, <1>3
  <2>2. PICK f : Climbs(f, m - 1)
    BY <2>1
  <2> DEFINE g == [j \in 0 .. m |-> IF j = m THEN {m} \cup f[Parent(m)] ELSE f[j]]
  <2>3. \A j \in 1 .. m : Parent(j) \in 0 .. m - 1 /\ Parent(j) < j
    BY DEF Parent
  <2>4. Climbs(g, m)
    <3>1. ASSUME NEW j \in 0 .. m
          PROVE  g[j] = {j} \cup (IF j = 0 THEN {} ELSE g[Parent(j)])
      BY <1>3, <2>2, <2>3 DEF Climbs
    <3> QED
      BY <3>1 DEF Climbs
  <2> QED
    BY <1>1, <2>4
<1> QED
  BY <1>2, <1>3

\* Ancestors, which is a recursive function, has the values of one.
LEMMA AncestorsLaw ==
  ASSUME NEW n \in Nat
  PROVE  \E f : Climbs(f, n) /\ Ancestors(n) = f[n]
<1>1. PICK g : Climbs(g, n)
  BY ClimbsTo
<1> DEFINE f == CHOOSE u : u = [j \in 0 .. n |-> {j} \cup (IF j = 0 THEN {} ELSE u[Parent(j)])]
<1>2. Climbs(f, n)
  BY <1>1 DEF Climbs
<1>3. Ancestors(n) = f[n]
  BY DEF Ancestors
<1> QED
  BY <1>2, <1>3

LEMMA ParentFacts ==
  ASSUME NEW j \in Nat \ {0}
  PROVE  Parent(j) \in Nat /\ Parent(j) < j /\ (j = 2 * Parent(j) + 1 \/ j = 2 * Parent(j) + 2)
  BY DEF Parent

LEMMA ChildFacts ==
  ASSUME NEW j \in Nat, NEW c \in {2 * j + 1, 2 * j + 2}
  PROVE  c \in Nat \ {0} /\ c > j /\ Parent(c) = j
  BY DEF Parent

\* Whatever it was computed for, the value at a position is the same.
LEMMA ClimbsSame ==
  ASSUME NEW m \in Nat, NEW n \in Nat, NEW f, NEW g, Climbs(f, m), Climbs(g, n),
         NEW j \in Nat, j <= m, j <= n
  PROVE  f[j] = g[j]
<1> DEFINE bad == {i \in Nat : i <= m /\ i <= n /\ f[i] # g[i]}
<1> SUFFICES ASSUME bad # {} PROVE FALSE
  OBVIOUS
<1>1. PICK i \in bad : \A k \in bad : i <= k
  BY Least
<1>2. f[i] = {i} \cup (IF i = 0 THEN {} ELSE f[Parent(i)]) /\ g[i] = {i} \cup (IF i = 0 THEN {} ELSE g[Parent(i)])
  <2>1. i \in 0 .. m /\ i \in 0 .. n
    BY <1>1
  <2> QED
    BY <2>1, ClimbsAt
<1>3. CASE i = 0
  BY <1>1, <1>2, <1>3
<1>4. CASE i # 0
  <2>1. Parent(i) \in Nat /\ Parent(i) < i
    BY <1>1, <1>4, ParentFacts
  <2>2. Parent(i) \notin bad
    BY <1>1, <2>1
  <2>3. f[Parent(i)] = g[Parent(i)]
    BY <1>1, <2>1, <2>2
  <2> QED
    BY <1>1, <1>2, <2>3
<1> QED
  BY <1>3, <1>4

\* The positions from an element up to the top: itself, and those of its parent.
LEMMA AncestorsStep ==
  ASSUME NEW n \in Nat
  PROVE  /\ n = 0 => Ancestors(n) = {0}
         /\ n # 0 => Ancestors(n) = {n} \cup Ancestors(Parent(n))
<1>1. PICK f : Climbs(f, n) /\ Ancestors(n) = f[n]
  BY AncestorsLaw
<1>2. f[n] = {n} \cup (IF n = 0 THEN {} ELSE f[Parent(n)])
  BY <1>1, ClimbsAt
<1>3. ASSUME n # 0
      PROVE  f[Parent(n)] = Ancestors(Parent(n))
  <2>1. Parent(n) \in Nat /\ Parent(n) < n
    BY <1>3, ParentFacts
  <2>2. PICK g : Climbs(g, Parent(n)) /\ Ancestors(Parent(n)) = g[Parent(n)]
    BY <2>1, AncestorsLaw
  <2> QED
    BY <1>1, <2>1, <2>2, ClimbsSame
<1> QED
  BY <1>1, <1>2, <1>3

\* The ancestors are a chain, each the parent of the next one.
Chain(n) ==
  /\ Ancestors(n) \subseteq 0 .. n /\ n \in Ancestors(n)
  /\ \A b \in Ancestors(n) : b # 0 => Parent(b) \in Ancestors(n)
  /\ \A a, b \in Ancestors(n) : a < b => a <= Parent(b)

LEMMA AncestorsChain ==
  ASSUME NEW n \in Nat
  PROVE  Chain(n)
<1> DEFINE bad == {i \in Nat : ~ Chain(i)}
<1> SUFFICES ASSUME bad # {} PROVE FALSE
  OBVIOUS
<1>1. PICK i \in bad : \A k \in bad : i <= k
  BY Least
<1>2. CASE i = 0
  <2>1. Ancestors(i) = {0}
    BY <1>1, <1>2, AncestorsStep
  <2>2. Chain(i)
    BY <2>1, <1>2 DEF Chain
  <2> QED
    BY <1>1, <2>2
<1>3. CASE i # 0
  <2>1. PICK m \in Nat : m = Parent(i) /\ m < i
    BY <1>1, <1>3, ParentFacts
  <2>2. Chain(m)
    <3>1. m \notin bad
      BY <1>1, <2>1
    <3> QED
      BY <3>1
  <2>3. Ancestors(i) = {i} \cup Ancestors(m)
    BY <1>1, <1>3, <2>1, AncestorsStep
  <2>4. Ancestors(m) \subseteq 0 .. m /\ m \in Ancestors(m)
    BY <2>2 DEF Chain
  <2>5. Ancestors(i) \subseteq 0 .. i /\ i \in Ancestors(i)
    BY <1>1, <2>1, <2>3, <2>4
  <2>6. \A b \in Ancestors(i) : b # 0 => Parent(b) \in Ancestors(i)
    BY <2>1, <2>2, <2>3, <2>4 DEF Chain
  <2>7. ASSUME NEW a \in Ancestors(i), NEW b \in Ancestors(i), a < b
        PROVE  a <= Parent(b)
    <3>1. CASE b = i
      BY <1>1, <2>1, <2>3, <2>4, <2>7, <3>1
    <3>2. CASE b \in Ancestors(m)
      <4>1. a \in Ancestors(m)
        BY <1>1, <2>1, <2>3, <2>4, <2>7, <3>2
      <4> QED
        BY <2>2, <2>7, <3>2, <4>1 DEF Chain
    <3> QED
      BY <2>3, <3>1, <3>2
  <2>8. Chain(i)
    BY <2>5, <2>6, <2>7 DEF Chain
  <2> QED
    BY <1>1, <2>8
<1> QED
  BY <1>2, <1>3
\* The next position on the way from an ancestor down to n.
LEMMA ChainNext ==
  ASSUME NEW n \in Nat, NEW k \in Ancestors(n), k < n
  PROVE  \E c \in Ancestors(n) : c # 0 /\ k < c /\ Parent(c) = k
<1>1. /\ Ancestors(n) \subseteq 0 .. n /\ n \in Ancestors(n)
      /\ \A b \in Ancestors(n) : b # 0 => Parent(b) \in Ancestors(n)
      /\ \A a, b \in Ancestors(n) : a < b => a <= Parent(b)
  BY AncestorsChain DEF Chain
<1> DEFINE above == {a \in Ancestors(n) : k < a}
<1>2. above \subseteq Nat /\ above # {}
  BY <1>1
<1>3. PICK c \in above : \A a \in above : c <= a
  BY <1>2, Least
<1>4. c \in Nat \ {0} /\ k \in Nat
  BY <1>1
<1>5. Parent(c) \in Nat /\ Parent(c) < c
  BY <1>4, ParentFacts
<1>6. k <= Parent(c) /\ Parent(c) \notin above
  BY <1>1, <1>3, <1>4, <1>5
<1>7. Parent(c) \in Ancestors(n)
  BY <1>1, <1>4
<1> QED
  BY <1>4, <1>5, <1>6, <1>7

-----------------------------------------------------------------------------
(* Heaps keep their elements *)

\* The elements of an array, and that none is there twice.
Members(h) == {h[n] : n \in DOMAIN h}
Once(h) == \A m, n \in DOMAIN h : h[m] = h[n] => m = n

\* A heap without duplicates.
IsHeap(h) == (\E n \in Nat : DOMAIN h = 0 .. n - 1) /\ Once(h)

LEMMA SizeOf ==
  ASSUME NEW h, NEW n \in Nat, DOMAIN h = 0 .. n - 1
  PROVE  Size(h) = n
<1>1. 0 \in Int /\ n - 1 \in Int
  OBVIOUS
<1>2. Cardinality(0 .. n - 1) = IF 0 > n - 1 THEN 0 ELSE n - 1 - 0 + 1
  BY <1>1, FS_Interval
<1> QED
  BY <1>2 DEF Size

\* pi tells for every position of g where the element was in h.
Permutes(pi, g, h) ==
  /\ DOMAIN g = DOMAIN h
  /\ \A j \in DOMAIN h : pi[j] \in DOMAIN h /\ g[j] = h[pi[j]]
  /\ \A a, b \in DOMAIN h : pi[a] = pi[b] => a = b
  /\ \A k \in DOMAIN h : \E j \in DOMAIN h : pi[j] = k

LEMMA Rearranged ==
  ASSUME NEW h, NEW g, NEW pi, Permutes(pi, g, h)
  PROVE  Members(g) = Members(h) /\ (Once(h) => Once(g))
<1>0. /\ DOMAIN g = DOMAIN h
      /\ \A j \in DOMAIN h : pi[j] \in DOMAIN h /\ g[j] = h[pi[j]]
      /\ \A a, b \in DOMAIN h : pi[a] = pi[b] => a = b
      /\ \A k \in DOMAIN h : \E j \in DOMAIN h : pi[j] = k
  BY DEF Permutes
<1>1. ASSUME NEW x \in Members(h) PROVE x \in Members(g)
  <2>1. PICK k \in DOMAIN h : h[k] = x
    BY DEF Members
  <2>2. PICK j \in DOMAIN h : pi[j] = k
    BY <1>0
  <2>3. j \in DOMAIN g /\ g[j] = x
    BY <1>0, <2>1, <2>2
  <2> QED
    BY <2>3 DEF Members
<1>2. ASSUME NEW x \in Members(g) PROVE x \in Members(h)
  <2>1. PICK j \in DOMAIN g : g[j] = x
    BY DEF Members
  <2>2. pi[j] \in DOMAIN h /\ h[pi[j]] = x
    BY <1>0, <2>1
  <2> QED
    BY <2>2 DEF Members
<1>3. ASSUME Once(h), NEW m \in DOMAIN g, NEW n \in DOMAIN g, g[m] = g[n]
      PROVE  m = n
  <2>1. pi[m] \in DOMAIN h /\ pi[n] \in DOMAIN h /\ h[pi[m]] = h[pi[n]]
    BY <1>0, <1>3
  <2>2. \A a, b \in DOMAIN h : h[a] = h[b] => a = b
    BY <1>3 DEF Once
  <2>3. pi[m] = pi[n]
    BY <2>1, <2>2
  <2> QED
    BY <1>0, <1>3, <2>3
<1>4. Once(h) => Once(g)
  BY <1>3 DEF Once
<1> QED
  BY <1>1, <1>2, <1>4

\* The elements on a stretch of the way to the root move on by one, and the one
\* at its end comes to the beginning.
LEMMA MovedUp ==
  ASSUME NEW h, NEW g, NEW n \in Nat, DOMAIN h = 0 .. n - 1, NEW i \in DOMAIN h, NEW s \in Ancestors(i),
         g = [j \in DOMAIN h |-> CASE j = s                       -> h[i]
                                  [] j > s /\ j \in Ancestors(i) -> h[Parent(j)]
                                  [] OTHER                       -> h[j]]
  PROVE  DOMAIN g = DOMAIN h /\ Members(g) = Members(h) /\ (Once(h) => Once(g))
<1> DEFINE pi == [j \in DOMAIN h |-> IF j = s THEN i ELSE IF j > s /\ j \in Ancestors(i) THEN Parent(j) ELSE j]
<1>1. i \in Nat /\ i < n
  OBVIOUS
<1>2. /\ Ancestors(i) \subseteq 0 .. i /\ i \in Ancestors(i)
      /\ \A b \in Ancestors(i) : b # 0 => Parent(b) \in Ancestors(i)
      /\ \A a, b \in Ancestors(i) : a < b => a <= Parent(b)
  BY <1>1, AncestorsChain DEF Chain
<1>3. s \in 0 .. i /\ s \in DOMAIN h
  BY <1>1, <1>2
<1>4. ASSUME NEW j \in DOMAIN h, j > s, j \in Ancestors(i)
      PROVE  /\ j # 0 /\ Parent(j) \in Nat /\ Parent(j) < j /\ Parent(j) \in Ancestors(i)
             /\ s <= Parent(j) /\ Parent(j) \in DOMAIN h /\ Parent(j) < i
  <2>1. j \in Nat \ {0} /\ j <= i
    BY <1>1, <1>2, <1>3, <1>4
  <2>2. Parent(j) \in Nat /\ Parent(j) < j
    BY <2>1, ParentFacts
  <2> QED
    BY <1>1, <1>2, <1>3, <1>4, <2>1, <2>2
<1>5. \A j \in DOMAIN h : /\ j = s => pi[j] = i
                          /\ j > s /\ j \in Ancestors(i) => pi[j] = Parent(j)
                          /\ j # s /\ ~ (j > s /\ j \in Ancestors(i)) => pi[j] = j
  BY <1>1, <1>3
<1>6. DOMAIN g = DOMAIN h
  OBVIOUS
<1>7. ASSUME NEW j \in DOMAIN h
      PROVE  pi[j] \in DOMAIN h /\ g[j] = h[pi[j]]
  <2>1. CASE j = s
    BY <1>5, <2>1
  <2>2. CASE j > s /\ j \in Ancestors(i)
    <3>1. j # s /\ pi[j] = Parent(j) /\ Parent(j) \in DOMAIN h
      BY <1>3, <1>4, <1>5, <2>2
    <3>2. g[j] = h[Parent(j)]
      BY <2>2, <3>1
    <3> QED
      BY <3>1, <3>2
  <2>3. CASE j # s /\ ~ (j > s /\ j \in Ancestors(i))
    BY <1>5, <2>3
  <2> QED
    BY <2>1, <2>2, <2>3
<1> HIDE DEF pi
<1>8. ASSUME NEW a \in DOMAIN h, NEW b \in DOMAIN h, pi[a] = pi[b]
      PROVE  a = b
  <2> DEFINE On(j) == j > s /\ j \in Ancestors(i)
  <2>1. CASE On(a) /\ On(b)
    <3>1. Parent(a) = Parent(b) /\ Parent(a) < a /\ Parent(b) < b
      BY <1>4, <1>5, <1>8, <2>1
    <3>2. ~ (a < b) /\ ~ (b < a)
      BY <1>2, <2>1, <3>1
    <3> QED
      BY <3>2
  <2>2. ASSUME NEW j \in DOMAIN h, NEW k \in DOMAIN h, On(j), ~ On(k)
        PROVE  pi[j] # pi[k]
    <3>1. pi[j] = Parent(j) /\ Parent(j) \in Ancestors(i) /\ s <= Parent(j) /\ Parent(j) < i /\ Parent(j) \in Nat
      BY <1>4, <1>5, <2>2
    <3>2. CASE k = s
      BY <1>1, <1>5, <3>1, <3>2
    <3>3. CASE k # s
      <4>1. pi[k] = k
        BY <1>5, <2>2, <3>3
      <4> QED
        BY <1>3, <2>2, <3>1, <3>3, <4>1
    <3> QED
      BY <3>2, <3>3
  <2>3. CASE ~ On(a) /\ ~ On(b)
    <3>1. ASSUME NEW k \in DOMAIN h, ~ On(k), k # s
          PROVE  pi[k] = k /\ k # i
      BY <1>1, <1>2, <1>3, <1>5, <3>1
    <3>2. pi[s] = i
      BY <1>3, <1>5
    <3> QED
      BY <1>8, <2>3, <3>1, <3>2
  <2> QED
    BY <1>8, <2>1, <2>2, <2>3
<1>9. ASSUME NEW k \in DOMAIN h
      PROVE  \E j \in DOMAIN h : pi[j] = k
  <2>1. CASE k = i
    BY <1>3, <1>5, <2>1
  <2>2. CASE k # i /\ k >= s /\ k \in Ancestors(i)
    <3>1. k < i
      BY <1>1, <1>2, <2>2
    <3>2. PICK c \in Ancestors(i) : c # 0 /\ k < c /\ Parent(c) = k
      BY <1>1, <2>2, <3>1, ChainNext
    <3>3. c \in DOMAIN h /\ c > s
      BY <1>1, <1>2, <1>3, <2>2, <3>2
    <3> QED
      BY <1>5, <3>2, <3>3
  <2>3. CASE k # i /\ ~ (k >= s /\ k \in Ancestors(i))
    <3>1. k # s /\ ~ (k > s /\ k \in Ancestors(i))
      BY <1>3, <2>3
    <3> QED
      BY <1>5, <3>1
  <2> QED
    BY <2>1, <2>2, <2>3
<1>10. \A a, b \in DOMAIN h : pi[a] = pi[b] => a = b
  BY <1>8
<1>11. Permutes(pi, g, h)
  BY <1>6, <1>7, <1>9, <1>10 DEF Permutes
<1> HIDE DEF Members, Once, Permutes
<1>12. Members(g) = Members(h) /\ (Once(h) => Once(g))
  BY <1>11, Rearranged
<1> QED
  BY <1>6, <1>12

\* f finds where the element at i stops on its way up, from the positions up to n.
StopsUp(f, h, val, i, n) ==
  f = [j \in 0 .. n |-> IF j = 0 \/ val[h[Parent(j)]] <= val[h[i]] THEN j ELSE f[Parent(j)]]

LEMMA StopsUpAt ==
  ASSUME NEW h, NEW val, NEW i, NEW n, NEW f, StopsUp(f, h, val, i, n), NEW j \in 0 .. n
  PROVE  f[j] = IF j = 0 \/ val[h[Parent(j)]] <= val[h[i]] THEN j ELSE f[Parent(j)]
<1> DEFINE At(k) == IF k = 0 \/ val[h[Parent(k)]] <= val[h[i]] THEN k ELSE f[Parent(k)]
<1> DEFINE g == [k \in 0 .. n |-> At(k)]
<1>1. f = g
  BY DEF StopsUp
<1> HIDE DEF At
<1>2. g[j] = At(j)
  OBVIOUS
<1> HIDE DEF g
<1>3. f[j] = At(j)
  BY <1>1, <1>2
<1> QED
  BY <1>3 DEF At

\* There is a place where a rising element stops.
LEMMA StopsUpExists ==
  ASSUME NEW h, NEW val, NEW i, NEW n \in Nat
  PROVE  \E f : StopsUp(f, h, val, i, n)
<1> DEFINE bad == {k \in Nat : ~ \E f : StopsUp(f, h, val, i, k)}
<1> SUFFICES ASSUME bad # {} PROVE FALSE
  OBVIOUS
<1>1. PICK m \in bad : \A k \in bad : m <= k
  BY Least
<1>2. CASE m = 0
  <2> DEFINE f == [j \in 0 .. 0 |-> j]
  <2>1. StopsUp(f, h, val, i, 0)
    BY DEF StopsUp
  <2> QED
    BY <1>1, <1>2, <2>1
<1>3. CASE m # 0
  <2>1. m - 1 \in Nat /\ m - 1 \notin bad
    BY <1>1, <1>3
  <2>2. PICK f : StopsUp(f, h, val, i, m - 1)
    BY <2>1
  <2> DEFINE At(k, u) == IF k = 0 \/ val[h[Parent(k)]] <= val[h[i]] THEN k ELSE u[Parent(k)]
  <2> DEFINE g == [j \in 0 .. m |-> IF j = m THEN At(m, f) ELSE f[j]]
  <2>3. \A j \in 1 .. m : Parent(j) \in 0 .. m - 1
    BY DEF Parent
  <2>4. \A j \in 0 .. m - 1 : g[j] = f[j] /\ f[j] = At(j, f)
    <3> HIDE DEF At
    <3>1. \A j \in 0 .. m - 1 : g[j] = f[j]
      BY <1>1, <1>3
    <3>2. \A j \in 0 .. m - 1 : f[j] = At(j, f)
      BY <2>2, StopsUpAt DEF At
    <3> QED
      BY <3>1, <3>2
  <2>5. g[m] = At(m, f)
    <3> HIDE DEF At
    <3> QED
      BY <1>1
  <2>6. ASSUME NEW j \in 0 .. m
        PROVE  At(j, f) = At(j, g)
    <3>1. j # 0 => f[Parent(j)] = g[Parent(j)]
      BY <1>1, <2>3, <2>4, <2>6
    <3> HIDE DEF g
    <3> QED
      BY <3>1
  <2>7. g = [j \in 0 .. m |-> At(j, g)]
    <3> DEFINE u == [j \in 0 .. m |-> At(j, g)]
    <3>1. \A j \in 0 .. m : g[j] = At(j, g)
      <4> HIDE DEF At
      <4> HIDE DEF g
      <4> QED
        BY <1>1, <2>4, <2>5, <2>6
    <3>2. \E v : v = g
      OBVIOUS
    <3>3. g = [j \in 0 .. m |-> g[j]]
      OBVIOUS
    <3> HIDE DEF At, g
    <3> QED
      BY <3>1, <3>3
  <2>8. StopsUp(g, h, val, i, m)
    <3> HIDE DEF g
    <3> QED
      BY <2>7 DEF StopsUp
  <2> QED
    BY <1>1, <2>8
<1> QED
  BY <1>2, <1>3

LEMMA StopsUpIn ==
  ASSUME NEW h, NEW val, NEW i \in Nat, NEW n \in Nat, NEW f, StopsUp(f, h, val, i, n),
         NEW j \in Nat, j <= n
  PROVE  f[j] \in Ancestors(j)
<1> DEFINE bad == {k \in Nat : k <= n /\ f[k] \notin Ancestors(k)}
<1> SUFFICES ASSUME bad # {} PROVE FALSE
  OBVIOUS
<1>1. PICK m \in bad : \A k \in bad : m <= k
  BY Least
<1>2. m \in 0 .. n
  BY <1>1
<1>3. f[m] = IF m = 0 \/ val[h[Parent(m)]] <= val[h[i]] THEN m ELSE f[Parent(m)]
  BY <1>2, StopsUpAt
<1>4. m \in Ancestors(m)
  BY <1>1, AncestorsChain DEF Chain
<1>5. m # 0 /\ f[m] = f[Parent(m)]
  BY <1>1, <1>3, <1>4
<1>6. Parent(m) \in Nat /\ Parent(m) < m
  BY <1>1, <1>5, ParentFacts
<1>7. Parent(m) \notin bad
  BY <1>1, <1>6
<1>8. f[Parent(m)] \in Ancestors(Parent(m))
  BY <1>1, <1>6, <1>7
<1>9. Ancestors(Parent(m)) \subseteq Ancestors(m)
  BY <1>1, <1>5, AncestorsStep
<1> QED
  BY <1>1, <1>5, <1>8, <1>9

\* Bubbling up keeps the elements, each of them once.
LEMMA BubbleUpKeeps ==
  ASSUME NEW h, NEW val, NEW n \in Nat, DOMAIN h = 0 .. n - 1, NEW i \in DOMAIN h
  PROVE  /\ DOMAIN BubbleUp(h, val, i) = DOMAIN h
         /\ Members(BubbleUp(h, val, i)) = Members(h)
         /\ Once(h) => Once(BubbleUp(h, val, i))
<1>1. i \in Nat
  OBVIOUS
<1> DEFINE f == CHOOSE u : u = [j \in 0 .. i |-> IF j = 0 \/ val[h[Parent(j)]] <= val[h[i]] THEN j ELSE u[Parent(j)]]
           s == f[i]
           g == [j \in DOMAIN h |-> CASE j = s                       -> h[i]
                                      [] j > s /\ j \in Ancestors(i) -> h[Parent(j)]
                                      [] OTHER                       -> h[j]]
<1>2. StopsUp(f, h, val, i, i)
  <2>1. PICK u : StopsUp(u, h, val, i, i)
    BY <1>1, StopsUpExists
  <2> QED
    BY <2>1 DEF StopsUp
<1>3. BubbleUp(h, val, i) = g
  BY DEF BubbleUp
<1> HIDE DEF f
<1>4. s \in Ancestors(i)
  <2>1. i <= i
    BY <1>1
  <2>2. f[i] \in Ancestors(i)
    BY <1>1, <1>2, <2>1, StopsUpIn
  <2> QED
    BY <2>2
<1> HIDE DEF s
<1>5. DOMAIN g = DOMAIN h /\ Members(g) = Members(h) /\ (Once(h) => Once(g))
  BY <1>4, MovedUp
<1> QED
  BY <1>3, <1>5

LEMMA ChildIn ==
  ASSUME NEW h, NEW val, NEW n \in Nat, DOMAIN h = 0 .. n - 1, NEW j \in Nat, 2 * j + 1 < n
  PROVE  /\ Child(h, val, j) \in DOMAIN h \ {0} /\ Child(h, val, j) > j
         /\ Parent(Child(h, val, j)) = j
<1>1. Size(h) = n
  BY SizeOf
<1>2. Child(h, val, j) \in {2 * j + 1, 2 * j + 2} /\ Child(h, val, j) < n
  BY <1>1 DEF Child
<1>3. Child(h, val, j) \in Nat \ {0} /\ Child(h, val, j) > j /\ Parent(Child(h, val, j)) = j
  BY <1>2, ChildFacts
<1> QED
  BY <1>2, <1>3

\* f finds where the element at i stops on its way down, from the last k of the
\* n positions.
StopsDown(f, h, val, i, n, k) ==
  f = [j \in n - k .. n - 1 |-> IF 2 * j + 1 >= Size(h) \/ val[h[i]] <= val[h[Child(h, val, j)]]
                                THEN j ELSE f[Child(h, val, j)]]

LEMMA StopsDownAt ==
  ASSUME NEW h, NEW val, NEW i, NEW n, NEW k, NEW f, StopsDown(f, h, val, i, n, k),
         NEW j \in n - k .. n - 1
  PROVE  f[j] = IF 2 * j + 1 >= Size(h) \/ val[h[i]] <= val[h[Child(h, val, j)]]
                THEN j ELSE f[Child(h, val, j)]
<1> DEFINE At(m) == IF 2 * m + 1 >= Size(h) \/ val[h[i]] <= val[h[Child(h, val, m)]]
                    THEN m ELSE f[Child(h, val, m)]
<1> DEFINE g == [m \in n - k .. n - 1 |-> At(m)]
<1>1. f = g
  BY DEF StopsDown
<1> HIDE DEF At
<1>2. g[j] = At(j)
  OBVIOUS
<1> HIDE DEF g
<1>3. f[j] = At(j)
  BY <1>1, <1>2
<1> QED
  BY <1>3 DEF At

\* There is a place where a sinking element stops.
LEMMA StopsDownExists ==
  ASSUME NEW h, NEW val, NEW i, NEW n \in Nat, DOMAIN h = 0 .. n - 1, NEW k \in 0 .. n
  PROVE  \E f : StopsDown(f, h, val, i, n, k)
<1> DEFINE bad == {l \in Nat : l <= n /\ ~ \E f : StopsDown(f, h, val, i, n, l)}
<1>0. SUFFICES ASSUME bad # {} PROVE FALSE
  <2>1. k \in Nat /\ k <= n /\ k \notin bad
    BY <1>0
  <2> QED
    BY <2>1
<1>1. PICK m \in bad : \A l \in bad : m <= l
  BY <1>0, Least
<1>2. CASE m = 0
  <2> DEFINE f == [j \in {} |-> j]
  <2>1. n - 0 .. n - 1 = {}
    OBVIOUS
  <2>2. StopsDown(f, h, val, i, n, 0)
    BY <2>1 DEF StopsDown
  <2> QED
    BY <1>1, <1>2, <2>2
<1>3. CASE m # 0
  <2>1. m - 1 \in Nat /\ m - 1 <= n /\ m - 1 \notin bad
    BY <1>1, <1>3
  <2>2. PICK f : StopsDown(f, h, val, i, n, m - 1)
    BY <2>1
  <2> DEFINE lo == n - m
             At(j, u) == IF 2 * j + 1 >= Size(h) \/ val[h[i]] <= val[h[Child(h, val, j)]]
                         THEN j ELSE u[Child(h, val, j)]
             g == [j \in lo .. n - 1 |-> IF j = lo THEN At(lo, f) ELSE f[j]]
  <2>3. lo \in Nat /\ lo < n /\ n - (m - 1) = lo + 1
    BY <1>1, <1>3
  <2>4. \A j \in lo + 1 .. n - 1 : g[j] = f[j] /\ f[j] = At(j, f)
    <3> HIDE DEF At
    <3>1. \A j \in lo + 1 .. n - 1 : g[j] = f[j]
      BY <2>3
    <3> USE DEF At
    <3>2. ASSUME NEW j \in lo + 1 .. n - 1
          PROVE  f[j] = At(j, f)
      <4>1. j \in n - (m - 1) .. n - 1
        BY <2>3
      <4>2. PICK l : l = m - 1
        OBVIOUS
      <4>3. StopsDown(f, h, val, i, n, l) /\ j \in n - l .. n - 1
        BY <2>2, <4>1, <4>2
      <4> HIDE DEF g
      <4>4. f[j] = IF 2 * j + 1 >= Size(h) \/ val[h[i]] <= val[h[Child(h, val, j)]]
                   THEN j ELSE f[Child(h, val, j)]
        BY <4>3, StopsDownAt
      <4> QED
        BY <4>4
    <3> HIDE DEF At
    <3> QED
      BY <3>1, <3>2
  <2>5. g[lo] = At(lo, f)
    <3> HIDE DEF At
    <3> QED
      BY <2>3
  <2>6. ASSUME NEW j \in lo .. n - 1
        PROVE  At(j, f) = At(j, g)
    <3>1. Size(h) = n
      BY SizeOf
    <3>2. ~ (2 * j + 1 >= Size(h)) => Child(h, val, j) \in lo + 1 .. n - 1
      <4>1. j \in Nat /\ j >= lo
        BY <2>3
      <4>2. ASSUME ~ (2 * j + 1 >= n)
            PROVE  Child(h, val, j) \in 0 .. n - 1 /\ Child(h, val, j) > j
        BY <4>1, <4>2, ChildIn
      <4> QED
        BY <2>3, <3>1, <4>1, <4>2
    <3>3. ~ (2 * j + 1 >= Size(h)) => f[Child(h, val, j)] = g[Child(h, val, j)]
      BY <2>4, <3>2
    <3> HIDE DEF g
    <3> QED
      BY <3>3
  <2>7. g = [j \in lo .. n - 1 |-> At(j, g)]
    <3>1. \A j \in lo .. n - 1 : g[j] = At(j, g)
      <4> HIDE DEF At
      <4> HIDE DEF g
      <4> QED
        BY <2>3, <2>4, <2>5, <2>6
    <3>3. g = [j \in lo .. n - 1 |-> g[j]]
      OBVIOUS
    <3> HIDE DEF At, g
    <3> QED
      BY <3>1, <3>3
  <2>8. StopsDown(g, h, val, i, n, m)
    <3> HIDE DEF g
    <3> QED
      BY <2>7 DEF StopsDown
  <2> QED
    BY <1>1, <2>8
<1> QED
  BY <1>2, <1>3

\* The way down from j to s goes from child to child.
Last(h, val, i, s) == 2 * s + 1 >= Size(h) \/ val[h[i]] <= val[h[Child(h, val, s)]]

DownTo(h, val, i, j, s) ==
  /\ s \in DOMAIN h /\ j <= s /\ j \in Ancestors(s) /\ Last(h, val, i, s)
  /\ \A k \in Ancestors(s) : j <= k /\ k < s =>
        /\ Child(h, val, k) \in Ancestors(s) \ {0} /\ Child(h, val, k) > k
        /\ Parent(Child(h, val, k)) = k /\ ~ Last(h, val, i, k)

LEMMA StopsDownIn ==
  ASSUME NEW h, NEW val, NEW i, NEW n \in Nat, DOMAIN h = 0 .. n - 1, NEW f,
         StopsDown(f, h, val, i, n, n), NEW j \in DOMAIN h
  PROVE  DownTo(h, val, i, j, f[j])
<1> DEFINE bad == {l \in Nat : l < n /\ ~ DownTo(h, val, i, n - 1 - l, f[n - 1 - l])}
<1>1. SUFFICES ASSUME bad # {} PROVE FALSE
  <2>1. n - 1 - j \in Nat /\ n - 1 - j < n /\ n - 1 - (n - 1 - j) = j
    OBVIOUS
  <2>2. n - 1 - j \notin bad => DownTo(h, val, i, n - 1 - (n - 1 - j), f[n - 1 - (n - 1 - j)])
    BY <2>1
  <2> QED
    BY <2>1, <2>2
<1>2. PICK l \in bad : \A m \in bad : l <= m
  BY <1>1, Least
<1>3. PICK p : p = n - 1 - l
  OBVIOUS
<1>4. p \in DOMAIN h /\ p \in Nat /\ p < n /\ ~ DownTo(h, val, i, p, f[p])
  BY <1>2, <1>3
<1>5. f[p] = IF 2 * p + 1 >= Size(h) \/ val[h[i]] <= val[h[Child(h, val, p)]]
             THEN p ELSE f[Child(h, val, p)]
  <2>1. p \in n - n .. n - 1
    BY <1>4
  <2> QED
    BY <2>1, StopsDownAt
<1>6. Size(h) = n
  BY SizeOf
<1>7. CASE f[p] = p
  <2>1. p \in Ancestors(p) /\ Ancestors(p) \subseteq 0 .. p
    BY <1>4, AncestorsChain DEF Chain
  <2>2. Last(h, val, i, p)
    <3>1. Last(h, val, i, p) \/ f[Child(h, val, p)] = p
      BY <1>5, <1>7 DEF Last
    <3>2. ASSUME ~ Last(h, val, i, p)
          PROVE  FALSE
      <4>1. ~ (2 * p + 1 >= n)
        BY <1>6, <3>2 DEF Last
      <4>2. PICK c : c = Child(h, val, p)
        OBVIOUS
      <4>3. 2 * p + 1 < n
        BY <1>4, <4>1
      <4>4. c \in DOMAIN h /\ c > p
        BY <1>4, <4>2, <4>3, ChildIn
      <4>5. DownTo(h, val, i, c, f[c])
        <5>1. n - 1 - c \in Nat /\ n - 1 - c < l /\ n - 1 - (n - 1 - c) = c /\ n - 1 - c < n
          BY <1>2, <1>3, <4>4
        <5>2. n - 1 - c \notin bad
          BY <1>2, <5>1
        <5>3. DownTo(h, val, i, n - 1 - (n - 1 - c), f[n - 1 - (n - 1 - c)])
          BY <5>1, <5>2
        <5> QED
          BY <5>1, <5>3
      <4>6. c <= f[c]
        BY <4>5 DEF DownTo
      <4>7. f[c] = p
        BY <3>1, <3>2, <4>2
      <4> QED
        BY <1>4, <4>4, <4>6, <4>7
    <3> QED
      BY <3>2
  <2>3. DownTo(h, val, i, p, p)
    BY <1>4, <2>1, <2>2 DEF DownTo
  <2> QED
    BY <1>4, <1>7, <2>3
<1>8. CASE f[p] # p
  <2>1. PICK c : c = Child(h, val, p)
    OBVIOUS
  <2>2. 2 * p + 1 < n /\ f[p] = f[c]
    BY <1>4, <1>5, <1>6, <1>8, <2>1
  <2>3. c \in DOMAIN h \ {0} /\ c > p /\ Parent(c) = p
    BY <1>4, <2>1, <2>2, ChildIn
  <2>4. DownTo(h, val, i, c, f[c])
    <3>1. n - 1 - c \in Nat /\ n - 1 - c < l /\ n - 1 - (n - 1 - c) = c /\ n - 1 - c < n
      BY <1>2, <1>3, <2>3
    <3>2. n - 1 - c \notin bad
      BY <1>2, <3>1
    <3>3. DownTo(h, val, i, n - 1 - (n - 1 - c), f[n - 1 - (n - 1 - c)])
      BY <3>1, <3>2
    <3> QED
      BY <3>1, <3>3
  <2>5. PICK s : s = f[c]
    OBVIOUS
  <2>6. /\ s \in DOMAIN h /\ c <= s /\ c \in Ancestors(s) /\ Last(h, val, i, s)
        /\ \A k \in Ancestors(s) : c <= k /\ k < s =>
              /\ Child(h, val, k) \in Ancestors(s) \ {0} /\ Child(h, val, k) > k
              /\ Parent(Child(h, val, k)) = k /\ ~ Last(h, val, i, k)
    BY <2>4, <2>5 DEF DownTo
  <2>7. s \in Nat /\ c \in Nat
    BY <2>3, <2>6
  <2>8. /\ Ancestors(s) \subseteq 0 .. s /\ s \in Ancestors(s)
        /\ \A b \in Ancestors(s) : b # 0 => Parent(b) \in Ancestors(s)
        /\ \A a, b \in Ancestors(s) : a < b => a <= Parent(b)
    BY <2>7, AncestorsChain DEF Chain
  <2>9. p \in Ancestors(s) /\ p <= s
    BY <1>4, <2>3, <2>6, <2>7, <2>8
  <2>10. ASSUME NEW k \in Ancestors(s), p <= k, k < s
         PROVE  /\ Child(h, val, k) \in Ancestors(s) \ {0} /\ Child(h, val, k) > k
                /\ Parent(Child(h, val, k)) = k /\ ~ Last(h, val, i, k)
    <3>1. CASE k = p
      <4>1. ~ Last(h, val, i, p)
        BY <1>5, <1>8 DEF Last
      <4> QED
        BY <2>1, <2>3, <2>6, <3>1, <4>1
    <3>2. CASE k # p
      <4>1. k \in Nat /\ k > p
        BY <1>4, <2>8, <2>10, <3>2
      <4>2. ~ (k < c)
        BY <1>4, <2>3, <2>6, <2>8, <4>1
      <4>3. c <= k
        BY <2>7, <4>1, <4>2
      <4> QED
        BY <2>6, <2>10, <4>3
    <3> QED
      BY <3>1, <3>2
  <2>11. DownTo(h, val, i, p, s)
    BY <2>6, <2>9, <2>10 DEF DownTo
  <2> QED
    BY <1>4, <2>2, <2>5, <2>11
<1> QED
  BY <1>7, <1>8

\* The elements on the way down move up by one, and the one at its beginning
\* comes to the end.
LEMMA MovedDown ==
  ASSUME NEW h, NEW g, NEW val, NEW n \in Nat, DOMAIN h = 0 .. n - 1, NEW i \in DOMAIN h, NEW s,
         DownTo(h, val, i, i, s),
         g = [j \in DOMAIN h |-> CASE j = s                                 -> h[i]
                                   [] j >= i /\ j # s /\ j \in Ancestors(s) -> h[Child(h, val, j)]
                                   [] OTHER                                 -> h[j]]
  PROVE  DOMAIN g = DOMAIN h /\ Members(g) = Members(h) /\ (Once(h) => Once(g))
<1> DEFINE On(j) == j >= i /\ j # s /\ j \in Ancestors(s)
           pi == [j \in DOMAIN h |-> IF j = s THEN i ELSE IF On(j) THEN Child(h, val, j) ELSE j]
<1>1. /\ s \in DOMAIN h /\ i <= s /\ i \in Ancestors(s)
      /\ \A k \in Ancestors(s) : i <= k /\ k < s =>
            /\ Child(h, val, k) \in Ancestors(s) \ {0} /\ Child(h, val, k) > k
            /\ Parent(Child(h, val, k)) = k
  BY DEF DownTo
<1>2. i \in Nat /\ s \in Nat /\ s < n
  BY <1>1
<1>3. /\ Ancestors(s) \subseteq 0 .. s /\ s \in Ancestors(s)
      /\ \A b \in Ancestors(s) : b # 0 => Parent(b) \in Ancestors(s)
      /\ \A a, b \in Ancestors(s) : a < b => a <= Parent(b)
  BY <1>2, AncestorsChain DEF Chain
<1>4. ASSUME NEW j \in DOMAIN h, On(j)
      PROVE  /\ Child(h, val, j) \in Ancestors(s) \ {0} /\ Child(h, val, j) > i
             /\ Child(h, val, j) \in DOMAIN h /\ Parent(Child(h, val, j)) = j
  <2>1. j \in Nat /\ i <= j /\ j < s
    BY <1>2, <1>3, <1>4
  <2>2. /\ Child(h, val, j) \in Ancestors(s) \ {0} /\ Child(h, val, j) > j
        /\ Parent(Child(h, val, j)) = j
    BY <1>1, <1>4, <2>1
  <2> QED
    BY <1>2, <1>3, <2>1, <2>2
<1>5. \A j \in DOMAIN h : /\ j = s => pi[j] = i
                          /\ On(j) => pi[j] = Child(h, val, j)
                          /\ j # s /\ ~ On(j) => pi[j] = j
  OBVIOUS
<1>6. DOMAIN g = DOMAIN h
  OBVIOUS
<1>7. ASSUME NEW j \in DOMAIN h
      PROVE  pi[j] \in DOMAIN h /\ g[j] = h[pi[j]]
  <2>1. CASE j = s
    BY <1>5, <2>1
  <2>2. CASE On(j)
    <3>1. pi[j] = Child(h, val, j) /\ Child(h, val, j) \in DOMAIN h
      BY <1>4, <1>5, <2>2
    <3>2. g[j] = h[Child(h, val, j)]
      BY <2>2
    <3> QED
      BY <3>1, <3>2
  <2>3. CASE j # s /\ ~ On(j)
    BY <1>5, <2>3
  <2> QED
    BY <2>1, <2>2, <2>3
<1> HIDE DEF pi
<1>8. ASSUME NEW a \in DOMAIN h, NEW b \in DOMAIN h, pi[a] = pi[b]
      PROVE  a = b
  <2>1. CASE On(a) /\ On(b)
    BY <1>4, <1>5, <1>8, <2>1
  <2>2. ASSUME NEW j \in DOMAIN h, NEW k \in DOMAIN h, On(j), ~ On(k)
        PROVE  pi[j] # pi[k]
    <3>1. pi[j] = Child(h, val, j) /\ Child(h, val, j) \in Ancestors(s) /\ Child(h, val, j) > i
          /\ Child(h, val, j) \in Nat
      BY <1>4, <1>5, <2>2
    <3>2. CASE k = s
      BY <1>2, <1>5, <3>1, <3>2
    <3>3. CASE k # s
      <4>1. pi[k] = k
        BY <1>5, <2>2, <3>3
      <4> QED
        BY <1>2, <2>2, <3>1, <3>3, <4>1
    <3> QED
      BY <3>2, <3>3
  <2>3. CASE ~ On(a) /\ ~ On(b)
    <3>1. ASSUME NEW k \in DOMAIN h, ~ On(k), k # s
          PROVE  pi[k] = k /\ k # i
      BY <1>1, <1>2, <1>5, <3>1
    <3>2. pi[s] = i
      BY <1>1, <1>5
    <3> HIDE DEF On
    <3> QED
      BY <1>8, <2>3, <3>1, <3>2
  <2> HIDE DEF On
  <2> QED
    BY <1>8, <2>1, <2>2, <2>3
<1>9. ASSUME NEW k \in DOMAIN h
      PROVE  \E j \in DOMAIN h : pi[j] = k
  <2>1. CASE k = i
    BY <1>1, <1>5, <2>1
  <2>2. CASE k # i /\ k >= i /\ k \in Ancestors(s)
    <3>1. k \in Nat \ {0} /\ i < k /\ k <= s
      BY <1>2, <1>3, <2>2
    <3>2. Parent(k) \in Nat /\ Parent(k) < k
      BY <3>1, ParentFacts
    <3>3. Parent(k) \in Ancestors(s) /\ i <= Parent(k)
      BY <1>1, <1>3, <2>2, <3>1
    <3>4. On(Parent(k)) /\ Parent(k) \in DOMAIN h
      BY <1>2, <3>1, <3>2, <3>3
    <3>5. PICK c : c = Child(h, val, Parent(k))
      OBVIOUS
    <3>6. c \in Ancestors(s) \ {0} /\ Parent(c) = Parent(k) /\ pi[Parent(k)] = c
      BY <1>4, <1>5, <3>4, <3>5
    <3>7. c \in Nat \ {0}
      BY <1>3, <3>6
    <3>8. Parent(c) < c
      BY <3>7, ParentFacts
    <3>9. ~ (c < k) /\ ~ (k < c)
      BY <1>3, <2>2, <3>1, <3>2, <3>6, <3>7, <3>8
    <3>10. c = k
      BY <3>1, <3>7, <3>9
    <3> QED
      BY <3>4, <3>6, <3>10
  <2>3. CASE ~ (k >= i /\ k \in Ancestors(s))
    <3>1. k # s /\ ~ On(k)
      BY <1>1, <1>2, <1>3, <2>3
    <3> QED
      BY <1>5, <3>1
  <2> QED
    BY <2>1, <2>2, <2>3
<1>10. \A a, b \in DOMAIN h : pi[a] = pi[b] => a = b
  BY <1>8
<1>11. Permutes(pi, g, h)
  BY <1>6, <1>7, <1>9, <1>10 DEF Permutes
<1> HIDE DEF Members, Once, Permutes
<1>12. Members(g) = Members(h) /\ (Once(h) => Once(g))
  BY <1>11, Rearranged
<1> QED
  BY <1>6, <1>12

\* Bubbling down keeps the elements, each of them once.
LEMMA BubbleDownKeeps ==
  ASSUME NEW h, NEW val, NEW n \in Nat, DOMAIN h = 0 .. n - 1, NEW i \in DOMAIN h
  PROVE  /\ DOMAIN BubbleDown(h, val, i) = DOMAIN h
         /\ Members(BubbleDown(h, val, i)) = Members(h)
         /\ Once(h) => Once(BubbleDown(h, val, i))
<1> DEFINE f == CHOOSE u : u = [j \in DOMAIN h |->
                  IF 2 * j + 1 >= Size(h) \/ val[h[i]] <= val[h[Child(h, val, j)]]
                  THEN j ELSE u[Child(h, val, j)]]
           s == f[i]
           g == [j \in DOMAIN h |-> CASE j = s                                 -> h[i]
                                      [] j >= i /\ j # s /\ j \in Ancestors(s) -> h[Child(h, val, j)]
                                      [] OTHER                                 -> h[j]]
<1>1. n - n .. n - 1 = DOMAIN h
  OBVIOUS
<1>2. StopsDown(f, h, val, i, n, n)
  <2>1. n \in 0 .. n
    OBVIOUS
  <2>2. PICK u : StopsDown(u, h, val, i, n, n)
    BY <2>1, StopsDownExists
  <2> QED
    BY <1>1, <2>2 DEF StopsDown
<1>3. BubbleDown(h, val, i) = g
  BY DEF BubbleDown
<1> HIDE DEF f
<1>4. DownTo(h, val, i, i, s)
  <2>1. DownTo(h, val, i, i, f[i])
    BY <1>2, StopsDownIn
  <2> QED
    BY <2>1
<1> HIDE DEF s
<1>5. DOMAIN g = DOMAIN h /\ Members(g) = Members(h) /\ (Once(h) => Once(g))
  BY <1>4, MovedDown
<1> QED
  BY <1>3, <1>5

-----------------------------------------------------------------------------
(* What the operations leave *)

LEMMA EmptyHeap == IsHeap(HeapEmpty) /\ Members(HeapEmpty) = {}
<1>1. DOMAIN HeapEmpty = {}
  BY DEF HeapEmpty
<1>2. 0 \in Nat /\ {} = 0 .. 0 - 1
  OBVIOUS
<1>3. \E n \in Nat : DOMAIN HeapEmpty = 0 .. n - 1
  BY <1>1, <1>2
<1> QED
  BY <1>1, <1>3 DEF IsHeap, Once, Members

\* HeapInsert: the new element is in the heap once, with all the others.
LEMMA InsertKeeps ==
  ASSUME NEW h, IsHeap(h), NEW val, NEW key, key \notin Members(h)
  PROVE  IsHeap(HeapInsert(h, val, key)) /\ Members(HeapInsert(h, val, key)) = Members(h) \cup {key}
<1>1. PICK n \in Nat : DOMAIN h = 0 .. n - 1
  BY DEF IsHeap
<1>2. Size(h) = n
  BY <1>1, SizeOf
<1> DEFINE k == [i \in 0 .. n |-> IF i = n THEN key ELSE h[i]]
<1>3. HeapInsert(h, val, key) = BubbleUp(k, val, n)
  BY <1>2 DEF HeapInsert
<1>4. DOMAIN k = 0 .. n /\ n \in 0 .. n /\ k[n] = key /\ \A i \in DOMAIN h : i \in 0 .. n /\ i # n /\ k[i] = h[i]
  BY <1>1
<1>5. \A i \in 0 .. n : i = n \/ i \in DOMAIN h
  BY <1>1
<1> HIDE DEF k
<1>6. \A i \in DOMAIN h : h[i] # key
  BY DEF Members
<1>7. Once(k)
  <2>1. \A a, b \in DOMAIN h : h[a] = h[b] => a = b
    BY DEF IsHeap, Once
  <2>2. ASSUME NEW a \in 0 .. n, NEW b \in 0 .. n, k[a] = k[b]
        PROVE  a = b
    <3>1. CASE a = n
      BY <1>4, <1>5, <1>6, <2>2, <3>1
    <3>2. CASE a \in DOMAIN h
      BY <1>4, <1>5, <1>6, <2>1, <2>2, <3>2
    <3> QED
      BY <1>5, <3>1, <3>2
  <2> QED
    BY <1>4, <2>2 DEF Once
<1>8. Members(k) = Members(h) \cup {key}
  <2>1. ASSUME NEW x \in Members(k) PROVE x \in Members(h) \cup {key}
    <3>1. PICK i \in 0 .. n : k[i] = x
      BY <1>4 DEF Members
    <3> QED
      BY <1>4, <1>5, <3>1 DEF Members
  <2>2. ASSUME NEW x \in Members(h) PROVE x \in Members(k)
    <3>1. PICK i \in DOMAIN h : h[i] = x
      BY DEF Members
    <3>2. i \in DOMAIN k /\ k[i] = x
      BY <1>4, <3>1
    <3> QED
      BY <3>2 DEF Members
  <2>3. key \in Members(k)
    BY <1>4 DEF Members
  <2> QED
    BY <2>1, <2>2, <2>3
<1>9. n + 1 \in Nat /\ DOMAIN k = 0 .. (n + 1) - 1
  BY <1>4
<1>10. n \in DOMAIN k
  BY <1>4
<1>11. /\ DOMAIN BubbleUp(k, val, n) = DOMAIN k /\ Members(BubbleUp(k, val, n)) = Members(k)
       /\ Once(BubbleUp(k, val, n))
  BY <1>7, <1>9, <1>10, BubbleUpKeeps
<1>12. IsHeap(BubbleUp(k, val, n))
  <2>1. \E m \in Nat : DOMAIN BubbleUp(k, val, n) = 0 .. m - 1
    BY <1>9, <1>11
  <2> QED
    BY <1>11, <2>1 DEF IsHeap
<1> QED
  BY <1>3, <1>8, <1>11, <1>12

LEMMA PositionIn ==
  ASSUME NEW h, NEW key \in Members(h)
  PROVE  Position(h, key) \in DOMAIN h /\ h[Position(h, key)] = key
  BY DEF Position, Members

LEMMA DownKeeps ==
  ASSUME NEW h, IsHeap(h), NEW val, NEW i \in DOMAIN h
  PROVE  IsHeap(BubbleDown(h, val, i)) /\ Members(BubbleDown(h, val, i)) = Members(h)
<1>1. PICK n \in Nat : DOMAIN h = 0 .. n - 1
  BY DEF IsHeap
<1>2. Once(h)
  BY DEF IsHeap
<1>3. /\ DOMAIN BubbleDown(h, val, i) = DOMAIN h /\ Members(BubbleDown(h, val, i)) = Members(h)
      /\ Once(BubbleDown(h, val, i))
  BY <1>1, <1>2, BubbleDownKeeps
<1>4. IsHeap(BubbleDown(h, val, i))
  BY <1>1, <1>3 DEF IsHeap
<1> QED
  BY <1>3, <1>4

LEMMA UpKeeps ==
  ASSUME NEW h, IsHeap(h), NEW val, NEW i \in DOMAIN h
  PROVE  /\ IsHeap(BubbleUp(h, val, i)) /\ Members(BubbleUp(h, val, i)) = Members(h)
         /\ DOMAIN BubbleUp(h, val, i) = DOMAIN h
<1>1. PICK n \in Nat : DOMAIN h = 0 .. n - 1
  BY DEF IsHeap
<1>2. Once(h)
  BY DEF IsHeap
<1>3. /\ DOMAIN BubbleUp(h, val, i) = DOMAIN h /\ Members(BubbleUp(h, val, i)) = Members(h)
      /\ Once(BubbleUp(h, val, i))
  BY <1>1, <1>2, BubbleUpKeeps
<1>4. IsHeap(BubbleUp(h, val, i))
  BY <1>1, <1>3 DEF IsHeap
<1> QED
  BY <1>3, <1>4

\* HeapUpdate: the elements are the same.
LEMMA UpdateKeeps ==
  ASSUME NEW h, IsHeap(h), NEW val, NEW key \in Members(h)
  PROVE  IsHeap(HeapUpdate(h, val, key)) /\ Members(HeapUpdate(h, val, key)) = Members(h)
<1>1. PICK i : i = Position(h, key)
  OBVIOUS
<1>2. i \in DOMAIN h
  BY <1>1, PositionIn
<1>3. PICK up : up = BubbleUp(h, val, i)
  OBVIOUS
<1>4. IsHeap(up) /\ Members(up) = Members(h) /\ i \in DOMAIN up
  BY <1>2, <1>3, UpKeeps
<1>5. IsHeap(BubbleDown(up, val, i)) /\ Members(BubbleDown(up, val, i)) = Members(up)
  BY <1>4, DownKeeps
<1>6. HeapUpdate(h, val, key) = up \/ HeapUpdate(h, val, key) = BubbleDown(up, val, i)
  BY <1>1, <1>3 DEF HeapUpdate
<1> QED
  BY <1>4, <1>5, <1>6

\* HeapRemove and HeapRemoveMin: the element is gone, the others are there.
LEMMA RemoveAtKeeps ==
  ASSUME NEW h, IsHeap(h), NEW val, NEW i \in DOMAIN h
  PROVE  IsHeap(HeapRemoveAt(h, val, i)) /\ Members(HeapRemoveAt(h, val, i)) = Members(h) \ {h[i]}
<1>1. PICK n \in Nat : DOMAIN h = 0 .. n - 1
  BY DEF IsHeap
<1>2. Size(h) = n
  BY <1>1, SizeOf
<1>3. PICK last \in Nat : last = n - 1
  BY <1>1
<1> DEFINE cut == [j \in 0 .. last - 1 |-> IF j = i THEN h[last] ELSE h[j]]
<1>4. HeapRemoveAt(h, val, i) = IF i = last THEN cut ELSE BubbleDown(cut, val, i)
  BY <1>2, <1>3 DEF HeapRemoveAt
<1>5. DOMAIN cut = 0 .. last - 1 /\ last \in DOMAIN h
  BY <1>1, <1>3
<1>6. \A j \in DOMAIN cut : j \in DOMAIN h /\ j # last /\ cut[j] = IF j = i THEN h[last] ELSE h[j]
  BY <1>1, <1>3
<1>7. \A j \in DOMAIN h : j = last \/ j \in DOMAIN cut
  BY <1>1, <1>3
<1> HIDE DEF cut
<1>8. \A a, b \in DOMAIN h : h[a] = h[b] => a = b
  BY DEF IsHeap, Once
<1>9. Once(cut)
  <2>1. ASSUME NEW a \in DOMAIN cut, NEW b \in DOMAIN cut, cut[a] = cut[b]
        PROVE  a = b
    <3>1. a \in DOMAIN h /\ a # last /\ b \in DOMAIN h /\ b # last
      BY <1>6
    <3>2. CASE a = i
      BY <1>5, <1>6, <1>8, <2>1, <3>1, <3>2
    <3>3. CASE a # i
      BY <1>5, <1>6, <1>8, <2>1, <3>1, <3>3
    <3> QED
      BY <3>2, <3>3
  <2> QED
    BY <2>1 DEF Once
<1>10. Members(cut) = Members(h) \ {h[i]}
  <2>1. ASSUME NEW x \in Members(cut) PROVE x \in Members(h) \ {h[i]}
    <3>1. PICK j \in DOMAIN cut : cut[j] = x
      BY DEF Members
    <3>2. j \in DOMAIN h /\ j # last /\ x = IF j = i THEN h[last] ELSE h[j]
      BY <1>6, <3>1
    <3>3. PICK k \in DOMAIN h : k # i /\ x = h[k]
      BY <1>5, <3>2
    <3>4. x # h[i]
      BY <1>8, <3>3
    <3> QED
      BY <3>3, <3>4 DEF Members
  <2>2. ASSUME NEW x \in Members(h) \ {h[i]} PROVE x \in Members(cut)
    <3>1. PICK k \in DOMAIN h : h[k] = x /\ k # i
      BY DEF Members
    <3>2. CASE k = last
      <4>1. i \in DOMAIN cut /\ cut[i] = x
        BY <1>6, <1>7, <3>1, <3>2
      <4> QED
        BY <4>1 DEF Members
    <3>3. CASE k # last
      <4>1. k \in DOMAIN cut /\ cut[k] = x
        BY <1>6, <1>7, <3>1, <3>3
      <4> QED
        BY <4>1 DEF Members
    <3> QED
      BY <3>2, <3>3
  <2> QED
    BY <2>1, <2>2
<1>11. IsHeap(cut)
  BY <1>3, <1>5, <1>9 DEF IsHeap
<1>12. CASE i = last
  BY <1>4, <1>10, <1>11, <1>12
<1>13. CASE i # last
  <2>1. i \in DOMAIN cut
    BY <1>7, <1>13
  <2>2. IsHeap(BubbleDown(cut, val, i)) /\ Members(BubbleDown(cut, val, i)) = Members(cut)
    BY <1>11, <2>1, DownKeeps
  <2> QED
    BY <1>4, <1>10, <1>13, <2>2
<1> QED
  BY <1>12, <1>13

LEMMA RemoveKeeps ==
  ASSUME NEW h, IsHeap(h), NEW val, NEW key \in Members(h)
  PROVE  IsHeap(HeapRemove(h, val, key)) /\ Members(HeapRemove(h, val, key)) = Members(h) \ {key}
<1>1. PICK i : i = Position(h, key)
  OBVIOUS
<1>2. i \in DOMAIN h /\ h[i] = key
  BY <1>1, PositionIn
<1>3. HeapRemove(h, val, key) = HeapRemoveAt(h, val, i)
  BY <1>1 DEF HeapRemove
<1> QED
  BY <1>2, <1>3, RemoveAtKeeps

LEMMA HeadIn ==
  ASSUME NEW h, IsHeap(h), Size(h) > 0
  PROVE  0 \in DOMAIN h /\ h[0] \in Members(h)
<1>1. PICK n \in Nat : DOMAIN h = 0 .. n - 1
  BY DEF IsHeap
<1>2. n > 0
  BY <1>1, SizeOf
<1>3. 0 \in DOMAIN h
  BY <1>1, <1>2
<1> QED
  BY <1>3 DEF Members

LEMMA RemoveMinKeeps ==
  ASSUME NEW h, IsHeap(h), NEW val, Size(h) > 0
  PROVE  IsHeap(HeapRemoveMin(h, val)) /\ Members(HeapRemoveMin(h, val)) = Members(h) \ {h[0]}
<1>1. 0 \in DOMAIN h
  BY HeadIn
<1> QED
  BY <1>1, RemoveAtKeeps DEF HeapRemoveMin

\* In a heap without duplicates a key has one place or none.
LEMMA Places ==
  ASSUME NEW h, IsHeap(h), NEW key
  PROVE  Cardinality({n \in DOMAIN h : h[n] = key}) = IF key \in Members(h) THEN 1 ELSE 0
<1>1. CASE key \in Members(h)
  <2>1. PICK m \in DOMAIN h : h[m] = key
    BY <1>1 DEF Members
  <2>2. {n \in DOMAIN h : h[n] = key} = {m}
    BY <2>1 DEF IsHeap, Once
  <2>3. Cardinality({m}) = 1
    BY FS_Singleton
  <2> QED
    BY <1>1, <2>2, <2>3
<1>2. CASE key \notin Members(h)
  <2>1. {n \in DOMAIN h : h[n] = key} = {}
    BY <1>2 DEF Members
  <2>2. Cardinality({}) = 0
    BY FS_EmptySet
  <2> QED
    BY <1>2, <2>1, <2>2
<1> QED
  BY <1>1, <1>2

-----------------------------------------------------------------------------
(* Heaps keep their order *)

\* The val can be compared; no element is smaller than its parent.
Numeric(h, val) == \A m \in DOMAIN h : val[h[m]] \in Int

Ordered(h, val) == \A m \in DOMAIN h \ {0} : val[h[Parent(m)]] <= val[h[m]]

\* In order but for the element at i, to its parent and to its children.
OrderedBut(h, val, i) ==
  \A m \in DOMAIN h \ {0} :
    /\ m # i /\ Parent(m) # i => val[h[Parent(m)]] <= val[h[m]]
    /\ Parent(m) = i /\ i # 0 => val[h[Parent(i)]] <= val[h[m]]

\* The way up from j ends at s.
UpTo(h, val, i, j, s) ==
  /\ s \in Ancestors(j)
  /\ s = 0 \/ val[h[Parent(s)]] <= val[h[i]]
  /\ \A k \in Ancestors(j) : s < k => k # 0 /\ ~ (val[h[Parent(k)]] <= val[h[i]])

LEMMA StopsUpTo ==
  ASSUME NEW h, NEW val, NEW i \in Nat, NEW n \in Nat, NEW f, StopsUp(f, h, val, i, n),
         NEW j \in Nat, j <= n
  PROVE  UpTo(h, val, i, j, f[j])
<1> DEFINE bad == {k \in Nat : k <= n /\ ~ UpTo(h, val, i, k, f[k])}
<1> SUFFICES ASSUME bad # {} PROVE FALSE
  OBVIOUS
<1>1. PICK m \in bad : \A k \in bad : m <= k
  BY Least
<1>2. m \in 0 .. n /\ m \in Nat /\ ~ UpTo(h, val, i, m, f[m])
  BY <1>1
<1>3. f[m] = IF m = 0 \/ val[h[Parent(m)]] <= val[h[i]] THEN m ELSE f[Parent(m)]
  BY <1>2, StopsUpAt
<1>4. m \in Ancestors(m) /\ Ancestors(m) \subseteq 0 .. m
  BY <1>2, AncestorsChain DEF Chain
<1>5. CASE m = 0 \/ val[h[Parent(m)]] <= val[h[i]]
  <2>1. f[m] = m
    BY <1>3, <1>5
  <2>2. UpTo(h, val, i, m, m)
    BY <1>4, <1>5 DEF UpTo
  <2> QED
    BY <1>2, <2>1, <2>2
<1>6. CASE ~ (m = 0 \/ val[h[Parent(m)]] <= val[h[i]])
  <2>1. PICK p : p = Parent(m)
    OBVIOUS
  <2>2. f[m] = f[p]
    BY <1>3, <1>6, <2>1
  <2>3. p \in Nat /\ p < m
    BY <1>2, <1>6, <2>1, ParentFacts
  <2>4. UpTo(h, val, i, p, f[p])
    <3>1. p \notin bad
      BY <1>1, <2>3
    <3> QED
      BY <1>2, <2>3, <3>1
  <2>5. Ancestors(m) = {m} \cup Ancestors(p)
    BY <1>2, <1>6, <2>1, AncestorsStep
  <2>6. UpTo(h, val, i, m, f[p])
    BY <1>6, <2>1, <2>4, <2>5 DEF UpTo
  <2> QED
    BY <1>2, <2>2, <2>6
<1> QED
  BY <1>5, <1>6

\* Bubbling up leaves the element where it is, or puts the heap in order.
LEMMA UpOrders ==
  ASSUME NEW h, NEW val, NEW n \in Nat, DOMAIN h = 0 .. n - 1, NEW i \in DOMAIN h,
         Numeric(h, val), OrderedBut(h, val, i), NEW b, b = BubbleUp(h, val, i)
  PROVE  \/ /\ \A j \in DOMAIN h : b[j] = h[j]
            /\ i = 0 \/ val[h[Parent(i)]] <= val[h[i]]
         \/ i # 0 /\ b[i] = h[Parent(i)] /\ Ordered(b, val)
<1>1. i \in Nat
  OBVIOUS
<1> DEFINE f == CHOOSE u : u = [j \in 0 .. i |-> IF j = 0 \/ val[h[Parent(j)]] <= val[h[i]] THEN j ELSE u[Parent(j)]]
<1>2. StopsUp(f, h, val, i, i)
  <2>1. PICK u : StopsUp(u, h, val, i, i)
    BY <1>1, StopsUpExists
  <2> QED
    BY <2>1 DEF StopsUp
<1>3. b = [j \in DOMAIN h |-> CASE j = f[i]                       -> h[i]
                                [] j > f[i] /\ j \in Ancestors(i) -> h[Parent(j)]
                                [] OTHER                          -> h[j]]
  BY DEF BubbleUp
<1> HIDE DEF f
<1>4. PICK s : s = f[i]
  OBVIOUS
<1>5. UpTo(h, val, i, i, s)
  <2>1. i <= i
    BY <1>1
  <2>2. UpTo(h, val, i, i, f[i])
    BY <1>1, <1>2, <2>1, StopsUpTo
  <2> QED
    BY <1>4, <2>2
<1>6. /\ Ancestors(i) \subseteq 0 .. i /\ i \in Ancestors(i)
      /\ \A a \in Ancestors(i) : a # 0 => Parent(a) \in Ancestors(i)
      /\ \A a, c \in Ancestors(i) : a < c => a <= Parent(c)
  BY <1>1, AncestorsChain DEF Chain
<1>7. /\ s \in Ancestors(i) /\ s \in Nat /\ s <= i /\ s \in DOMAIN h
      /\ s = 0 \/ val[h[Parent(s)]] <= val[h[i]]
      /\ \A k \in Ancestors(i) : s < k => k # 0 /\ ~ (val[h[Parent(k)]] <= val[h[i]])
  BY <1>1, <1>5, <1>6 DEF UpTo
<1> DEFINE On(j) == j > s /\ j \in Ancestors(i)
<1>8. /\ DOMAIN b = DOMAIN h
      /\ b[s] = h[i]
      /\ \A j \in DOMAIN h : On(j) => b[j] = h[Parent(j)]
      /\ \A j \in DOMAIN h : ~ On(j) /\ j # s => b[j] = h[j]
  <2>1. b = [j \in DOMAIN h |-> CASE j = s                       -> h[i]
                                  [] j > s /\ j \in Ancestors(i) -> h[Parent(j)]
                                  [] OTHER                       -> h[j]]
    BY <1>3, <1>4
  <2>2. \A j \in DOMAIN h : On(j) => j # s
    BY <1>7
  <2> QED
    BY <1>7, <2>1, <2>2
<1>9. CASE s = i
  <2>1. \A j \in DOMAIN h : ~ On(j)
    BY <1>1, <1>6, <1>9
  <2>2. \A j \in DOMAIN h : b[j] = h[j]
    BY <1>8, <1>9, <2>1
  <2> QED
    BY <1>7, <1>9, <2>2
<1>10. CASE s # i
  <2>1. s < i /\ i # 0
    BY <1>1, <1>7, <1>10
  <2>2. On(i) /\ b[i] = h[Parent(i)]
    BY <1>6, <1>8, <2>1
  <2>3. \A m \in DOMAIN h \ {0} : /\ m \in Nat /\ Parent(m) \in Nat /\ Parent(m) < m
                                  /\ Parent(m) \in DOMAIN h
    <3>1. ASSUME NEW m \in DOMAIN h \ {0}
          PROVE  /\ m \in Nat /\ Parent(m) \in Nat /\ Parent(m) < m /\ Parent(m) \in DOMAIN h
      <4>1. m \in Nat \ {0} /\ m < n
        OBVIOUS
      <4>2. Parent(m) \in Nat /\ Parent(m) < m
        BY <4>1, ParentFacts
      <4> QED
        BY <4>1, <4>2
    <3> QED
      BY <3>1
  <2>4. \A m \in DOMAIN h : val[h[m]] \in Int
    BY DEF Numeric
  <2>5. \A m \in DOMAIN h \ {0} :
          /\ m # i /\ Parent(m) # i => val[h[Parent(m)]] <= val[h[m]]
          /\ Parent(m) = i => val[h[Parent(i)]] <= val[h[m]]
    BY <2>1 DEF OrderedBut
  <2>6. \A k \in DOMAIN h : On(k) => k # 0 /\ k <= i /\ val[h[i]] <= val[h[Parent(k)]]
    <3>1. ASSUME NEW k \in DOMAIN h, On(k)
          PROVE  k # 0 /\ k <= i /\ val[h[i]] <= val[h[Parent(k)]]
      <4>1. k # 0 /\ ~ (val[h[Parent(k)]] <= val[h[i]]) /\ k <= i
        BY <1>1, <1>6, <1>7, <3>1
      <4>2. Parent(k) \in DOMAIN h
        BY <2>3, <4>1
      <4> QED
        BY <2>4, <4>1, <4>2
    <3> QED
      BY <3>1
  <2>7. val[h[i]] <= val[h[s]]
    <3>1. PICK c \in Ancestors(i) : c # 0 /\ s < c /\ Parent(c) = s
      BY <1>1, <1>7, <2>1, ChainNext
    <3>2. On(c) /\ c \in DOMAIN h
      BY <1>1, <1>6, <3>1
    <3> QED
      BY <2>6, <3>1, <3>2
  <2>8. ASSUME NEW m \in DOMAIN h \ {0}
        PROVE  val[b[Parent(m)]] <= val[b[m]]
    <3>1. PICK p : p = Parent(m)
      OBVIOUS
    <3>2. m \in Nat /\ p \in Nat /\ p < m /\ p \in DOMAIN h
      BY <2>3, <3>1
    <3>3. CASE On(m)
      <4>1. b[m] = h[p] /\ p \in Ancestors(i) /\ s <= p /\ m <= i /\ val[h[i]] <= val[h[p]]
        BY <1>6, <1>7, <1>8, <2>6, <3>1, <3>3
      <4>2. CASE p = s
        BY <1>8, <3>1, <4>1, <4>2
      <4>3. CASE p # s
        <5>1. On(p) /\ p # i
          BY <1>1, <1>7, <3>2, <4>1, <4>3
        <5>2. b[p] = h[Parent(p)] /\ p # 0
          BY <1>8, <2>6, <3>2, <5>1
        <5>3. Parent(p) # i
          BY <1>1, <2>3, <3>2, <4>1, <5>2
        <5>4. val[h[Parent(p)]] <= val[h[p]]
          BY <2>5, <3>2, <5>1, <5>2, <5>3
        <5> QED
          BY <3>1, <4>1, <5>2, <5>4
      <4> QED
        BY <4>2, <4>3
    <3>4. CASE m = s
      <4>1. ~ On(p) /\ p # s
        BY <1>7, <3>2, <3>4
      <4>2. b[p] = h[p] /\ b[m] = h[i]
        BY <1>8, <3>2, <3>4, <4>1
      <4> QED
        BY <1>7, <3>1, <3>4, <4>2
    <3>5. CASE ~ On(m) /\ m # s
      <4>1. b[m] = h[m] /\ m # i
        BY <1>8, <2>2, <3>5
      <4>2. CASE On(p)
        <5>1. b[p] = h[Parent(p)] /\ p # 0
          BY <1>8, <2>6, <3>2, <4>2
        <5>2. CASE p = i
          BY <2>5, <3>1, <4>1, <5>1, <5>2
        <5>3. CASE p # i
          <6>1. p <= i /\ Parent(p) \in Nat /\ Parent(p) < p /\ Parent(p) \in DOMAIN h
            BY <2>3, <2>6, <3>2, <4>2, <5>1
          <6>2. Parent(p) # i
            BY <1>1, <3>2, <6>1
          <6>3. val[h[Parent(p)]] <= val[h[p]]
            BY <2>5, <3>2, <5>1, <5>3, <6>2
          <6>4. val[h[p]] <= val[h[m]]
            BY <2>5, <3>1, <4>1, <5>3
          <6>5. val[h[Parent(p)]] <= val[h[m]]
            BY <2>4, <3>2, <6>1, <6>3, <6>4
          <6> QED
            BY <3>1, <4>1, <5>1, <6>5
        <5> QED
          BY <5>2, <5>3
      <4>3. CASE p = s
        <5>1. val[h[s]] <= val[h[m]]
          BY <1>10, <2>5, <3>1, <4>1, <4>3
        <5>2. val[h[i]] <= val[h[m]]
          BY <1>7, <2>4, <2>7, <5>1
        <5> QED
          BY <1>8, <3>1, <4>1, <4>3, <5>2
      <4>4. CASE ~ On(p) /\ p # s
        <5>1. b[p] = h[p] /\ p # i
          BY <1>8, <2>2, <3>2, <4>4
        <5> QED
          BY <2>5, <3>1, <4>1, <5>1
      <4> QED
        BY <4>2, <4>3, <4>4
    <3> QED
      BY <3>3, <3>4, <3>5
  <2>9. Ordered(b, val)
    BY <1>8, <2>8 DEF Ordered
  <2> QED
    BY <2>1, <2>2, <2>9
<1> QED
  BY <1>9, <1>10

\* The smaller child is not larger than the other one.
LEMMA ChildLeast ==
  ASSUME NEW h, NEW val, NEW n \in Nat, DOMAIN h = 0 .. n - 1, Numeric(h, val),
         NEW m \in DOMAIN h \ {0}
  PROVE  2 * Parent(m) + 1 < n /\ val[h[Child(h, val, Parent(m))]] <= val[h[m]]
<1>1. m \in Nat \ {0} /\ m < n
  OBVIOUS
<1>2. PICK p \in Nat : p = Parent(m) /\ p < m /\ (m = 2 * p + 1 \/ m = 2 * p + 2)
  BY <1>1, ParentFacts
<1>3. Size(h) = n
  BY SizeOf
<1>4. 2 * p + 1 < n /\ 2 * p + 1 \in DOMAIN h
  BY <1>1, <1>2
<1>5. val[h[2 * p + 1]] \in Int /\ val[h[m]] \in Int
  BY <1>4 DEF Numeric
<1>6. CASE 2 * p + 2 < n
  <2>1. 2 * p + 2 \in DOMAIN h
    BY <1>2, <1>6
  <2>2. val[h[2 * p + 2]] \in Int
    BY <2>1 DEF Numeric
  <2>3. CASE val[h[2 * p + 1]] > val[h[2 * p + 2]]
    <3>1. Child(h, val, p) = 2 * p + 2
      BY <1>3, <1>6, <2>3 DEF Child
    <3> QED
      BY <1>2, <1>4, <1>5, <2>2, <2>3, <3>1
  <2>4. CASE ~ (val[h[2 * p + 1]] > val[h[2 * p + 2]])
    <3>1. Child(h, val, p) = 2 * p + 1
      BY <1>3, <1>6, <2>4 DEF Child
    <3> QED
      BY <1>2, <1>4, <1>5, <2>2, <2>4, <3>1
  <2> QED
    BY <2>3, <2>4
<1>7. CASE ~ (2 * p + 2 < n)
  <2>1. m = 2 * p + 1
    BY <1>1, <1>2, <1>7
  <2>2. Child(h, val, p) = 2 * p + 1
    BY <1>3, <1>7 DEF Child
  <2> QED
    BY <1>2, <1>4, <1>5, <2>1, <2>2
<1> QED
  BY <1>6, <1>7

\* Bubbling down puts the heap in order.
LEMMA DownOrders ==
  ASSUME NEW h, NEW val, NEW n \in Nat, DOMAIN h = 0 .. n - 1, NEW i \in DOMAIN h,
         Numeric(h, val), OrderedBut(h, val, i), i = 0 \/ val[h[Parent(i)]] <= val[h[i]],
         NEW b, b = BubbleDown(h, val, i)
  PROVE  Ordered(b, val)
<1>1. i \in Nat /\ i < n
  OBVIOUS
<1> DEFINE f == CHOOSE u : u = [j \in DOMAIN h |->
                  IF 2 * j + 1 >= Size(h) \/ val[h[i]] <= val[h[Child(h, val, j)]]
                  THEN j ELSE u[Child(h, val, j)]]
<1>2. StopsDown(f, h, val, i, n, n)
  <2>1. n \in 0 .. n /\ n - n .. n - 1 = DOMAIN h
    OBVIOUS
  <2>2. PICK u : StopsDown(u, h, val, i, n, n)
    BY <2>1, StopsDownExists
  <2> QED
    BY <2>1, <2>2 DEF StopsDown
<1>3. b = [j \in DOMAIN h |-> CASE j = f[i]                                    -> h[i]
                                [] j >= i /\ j # f[i] /\ j \in Ancestors(f[i]) -> h[Child(h, val, j)]
                                [] OTHER                                       -> h[j]]
  BY DEF BubbleDown
<1> HIDE DEF f
<1>4. PICK s : s = f[i]
  OBVIOUS
<1>5. DownTo(h, val, i, i, s)
  <2>1. DownTo(h, val, i, i, f[i])
    BY <1>2, StopsDownIn
  <2> QED
    BY <1>4, <2>1
<1>6. /\ s \in DOMAIN h /\ i <= s /\ i \in Ancestors(s) /\ Last(h, val, i, s)
      /\ \A k \in Ancestors(s) : i <= k /\ k < s =>
            /\ Child(h, val, k) \in Ancestors(s) \ {0} /\ Child(h, val, k) > k
            /\ Parent(Child(h, val, k)) = k /\ ~ Last(h, val, i, k)
  BY <1>5 DEF DownTo
<1>7. s \in Nat /\ s < n
  BY <1>6
<1>8. /\ Ancestors(s) \subseteq 0 .. s /\ s \in Ancestors(s)
      /\ \A a \in Ancestors(s) : a # 0 => Parent(a) \in Ancestors(s)
      /\ \A a, c \in Ancestors(s) : a < c => a <= Parent(c)
  BY <1>7, AncestorsChain DEF Chain
<1> DEFINE On(j) == j >= i /\ j # s /\ j \in Ancestors(s)
<1>9. /\ DOMAIN b = DOMAIN h
      /\ b[s] = h[i]
      /\ \A j \in DOMAIN h : On(j) => b[j] = h[Child(h, val, j)]
      /\ \A j \in DOMAIN h : ~ On(j) /\ j # s => b[j] = h[j]
  <2>1. b = [j \in DOMAIN h |-> CASE j = s                                 -> h[i]
                                  [] j >= i /\ j # s /\ j \in Ancestors(s) -> h[Child(h, val, j)]
                                  [] OTHER                                 -> h[j]]
    BY <1>3, <1>4
  <2> QED
    BY <1>6, <2>1
<1>10. \A m \in DOMAIN h \ {0} : /\ m \in Nat /\ Parent(m) \in Nat /\ Parent(m) < m
                                 /\ Parent(m) \in DOMAIN h
  <2>1. ASSUME NEW m \in DOMAIN h \ {0}
        PROVE  /\ m \in Nat /\ Parent(m) \in Nat /\ Parent(m) < m /\ Parent(m) \in DOMAIN h
    <3>1. m \in Nat \ {0} /\ m < n
      OBVIOUS
    <3>2. Parent(m) \in Nat /\ Parent(m) < m
      BY <3>1, ParentFacts
    <3> QED
      BY <3>1, <3>2
  <2> QED
    BY <2>1
<1>11. \A m \in DOMAIN h : val[h[m]] \in Int
  BY DEF Numeric
<1>12. \A m \in DOMAIN h \ {0} :
         /\ Parent(m) # i => val[h[Parent(m)]] <= val[h[m]]
         /\ Parent(m) = i /\ i # 0 => val[h[Parent(i)]] <= val[h[m]]
  <2>1. ASSUME NEW m \in DOMAIN h \ {0}, Parent(m) # i
        PROVE  val[h[Parent(m)]] <= val[h[m]]
    <3>1. CASE m = i
      BY <3>1
    <3>2. CASE m # i
      BY <2>1, <3>2 DEF OrderedBut
    <3> QED
      BY <3>1, <3>2
  <2>2. \A m \in DOMAIN h \ {0} : Parent(m) = i /\ i # 0 => val[h[Parent(i)]] <= val[h[m]]
    BY DEF OrderedBut
  <2> QED
    BY <2>1, <2>2
<1>13. \A m \in DOMAIN h \ {0} : val[h[Child(h, val, Parent(m))]] <= val[h[m]] /\ 2 * Parent(m) + 1 < n
  BY ChildLeast
<1>14. Size(h) = n
  BY SizeOf
<1>15. ASSUME NEW k \in DOMAIN h, On(k)
       PROVE  /\ Child(h, val, k) \in DOMAIN h \ {0} /\ Child(h, val, k) \in Ancestors(s)
              /\ Parent(Child(h, val, k)) = k /\ Child(h, val, k) > k
              /\ val[h[Child(h, val, k)]] <= val[h[i]]
  <2>1. k \in Nat /\ i <= k /\ k < s
    BY <1>1, <1>7, <1>8, <1>15
  <2>2. /\ Child(h, val, k) \in Ancestors(s) \ {0} /\ Child(h, val, k) > k
        /\ Parent(Child(h, val, k)) = k /\ ~ Last(h, val, i, k)
    BY <1>6, <1>15, <2>1
  <2>3. Child(h, val, k) \in DOMAIN h
    BY <1>7, <1>8, <2>2
  <2>4. ~ (val[h[i]] <= val[h[Child(h, val, k)]])
    BY <2>2 DEF Last
  <2>5. val[h[Child(h, val, k)]] <= val[h[i]]
    BY <1>11, <2>3, <2>4
  <2> QED
    BY <2>2, <2>3, <2>5
<1>16. ASSUME NEW m \in DOMAIN h \ {0}
       PROVE  val[b[Parent(m)]] <= val[b[m]]
  <2>1. PICK p : p = Parent(m)
    OBVIOUS
  <2>2. m \in Nat /\ p \in Nat /\ p < m /\ p \in DOMAIN h
    BY <1>10, <2>1
  <2>3. CASE p = s
    <3>1. ~ On(m) /\ m # s
      BY <1>7, <1>8, <2>2, <2>3
    <3>2. b[m] = h[m] /\ b[p] = h[i]
      BY <1>9, <2>3, <3>1
    <3>3. PICK c : c = Child(h, val, s)
      OBVIOUS
    <3>4. 2 * s + 1 < n /\ val[h[c]] <= val[h[m]]
      BY <1>13, <2>1, <2>3, <3>3
    <3>5. val[h[i]] <= val[h[c]]
      BY <1>6, <1>7, <1>14, <3>3, <3>4 DEF Last
    <3>6. c \in DOMAIN h
      BY <1>7, <3>3, <3>4, ChildIn
    <3>7. val[h[i]] <= val[h[m]]
      BY <1>11, <3>4, <3>5, <3>6
    <3> QED
      BY <2>1, <3>2, <3>7
  <2>4. CASE On(p)
    <3>1. PICK c : c = Child(h, val, p)
      OBVIOUS
    <3>2. /\ b[p] = h[c] /\ c \in DOMAIN h \ {0} /\ c \in Ancestors(s) /\ Parent(c) = p /\ c > p
          /\ val[h[c]] <= val[h[i]]
      BY <1>9, <1>15, <2>2, <2>4, <3>1
    <3>3. CASE m = c
      <4>1. CASE m = s
        BY <1>9, <2>1, <3>2, <3>3, <4>1
      <4>2. CASE m # s
        <5>1. On(m)
          BY <1>1, <2>2, <2>4, <3>2, <3>3, <4>2
        <5>2. PICK d : d = Child(h, val, m)
          OBVIOUS
        <5>3. b[m] = h[d] /\ d \in DOMAIN h \ {0} /\ Parent(d) = m
          BY <1>9, <1>15, <5>1, <5>2
        <5>4. m # i
          BY <1>1, <2>2, <2>4
        <5>5. val[h[m]] <= val[h[d]]
          BY <1>12, <5>3, <5>4
        <5> QED
          BY <2>1, <3>2, <3>3, <5>3, <5>5
      <4> QED
        BY <4>1, <4>2
    <3>4. CASE m # c
      <4>1. m \notin Ancestors(s)
        <5>1. ASSUME m \in Ancestors(s)
              PROVE  FALSE
          <6>1. ~ (m < c) /\ ~ (c < m)
            BY <1>8, <2>1, <2>2, <3>2, <5>1
          <6> QED
            BY <2>2, <3>2, <3>4, <6>1
        <5> QED
          BY <5>1
      <4>2. b[m] = h[m]
        BY <1>8, <1>9, <4>1
      <4>3. val[h[c]] <= val[h[m]]
        BY <1>13, <2>1, <3>1
      <4> QED
        BY <2>1, <3>2, <4>2, <4>3
    <3> QED
      BY <3>3, <3>4
  <2>5. CASE ~ On(p) /\ p # s
    <3>1. b[p] = h[p]
      BY <1>9, <2>2, <2>5
    <3>2. p # i
      BY <1>1, <1>6, <2>5
    <3>3. CASE m = i
      <4>1. CASE m = s
        BY <1>9, <1>12, <2>1, <3>1, <3>2, <3>3, <4>1
      <4>2. CASE m # s
        <5>1. On(m)
          BY <1>1, <1>6, <3>3, <4>2
        <5>2. PICK c : c = Child(h, val, m)
          OBVIOUS
        <5>3. b[m] = h[c] /\ c \in DOMAIN h \ {0} /\ Parent(c) = i
          BY <1>9, <1>15, <3>3, <5>1, <5>2
        <5>4. val[h[p]] <= val[h[c]]
          BY <1>12, <2>1, <3>3, <5>3
        <5> QED
          BY <2>1, <3>1, <5>3, <5>4
      <4> QED
        BY <4>1, <4>2
    <3>4. CASE m # i
      <4>1. ~ On(m) /\ m # s
        <5>1. ASSUME m \in Ancestors(s), m >= i
              PROVE  FALSE
          <6>1. i < m /\ m <= s
            BY <1>1, <1>7, <1>8, <2>2, <3>4, <5>1
          <6>2. i <= p /\ p \in Ancestors(s)
            BY <1>6, <1>8, <2>1, <5>1, <6>1
          <6> QED
            BY <2>5, <1>1, <2>2, <6>2
        <5> QED
          BY <1>1, <1>6, <1>8, <5>1
      <4>2. b[m] = h[m]
        BY <1>9, <4>1
      <4> QED
        BY <1>12, <2>1, <3>1, <3>2, <4>2
    <3> QED
      BY <3>3, <3>4
  <2> QED
    BY <2>3, <2>4, <2>5
<1> QED
  BY <1>9, <1>16 DEF Ordered

LEMMA KeyAt ==
  ASSUME NEW h, NEW m \in DOMAIN h
  PROVE  h[m] \in Members(h)
BY DEF Members

LEMMA ParentIn ==
  ASSUME NEW h, NEW n \in Nat, DOMAIN h = 0 .. n - 1, NEW m \in DOMAIN h \ {0}
  PROVE  m \in Nat /\ Parent(m) \in DOMAIN h /\ Parent(m) \in Nat /\ Parent(m) < m
<1>1. m \in Nat \ {0} /\ m < n
  OBVIOUS
<1>2. Parent(m) \in Nat /\ Parent(m) < m
  BY <1>1, ParentFacts
<1> QED
  BY <1>1, <1>2

\* Only the values of the elements matter.
LEMMA OrderedAlike ==
  ASSUME NEW h, IsHeap(h), NEW old, NEW val, \A x \in Members(h) : val[x] = old[x], Ordered(h, old)
  PROVE  Ordered(h, val)
<1>1. PICK n \in Nat : DOMAIN h = 0 .. n - 1
  BY DEF IsHeap
<1>2. ASSUME NEW m \in DOMAIN h \ {0}
      PROVE  val[h[Parent(m)]] <= val[h[m]]
  <2>1. Parent(m) \in DOMAIN h
    BY <1>1, ParentIn
  <2>2. h[m] \in Members(h) /\ h[Parent(m)] \in Members(h)
    BY <2>1, KeyAt
  <2> QED
    BY <2>2 DEF Ordered
<1> QED
  BY <1>2 DEF Ordered

LEMMA EmptyOrdered == ASSUME NEW val PROVE Ordered(HeapEmpty, val)
<1>1. DOMAIN HeapEmpty = {}
  BY DEF HeapEmpty
<1> QED
  BY <1>1 DEF Ordered

\* The first element of a heap in order is the least one.
LEMMA HeadLeast ==
  ASSUME NEW h, IsHeap(h), NEW val, \A x \in Members(h) : val[x] \in Int, Ordered(h, val),
         NEW m \in DOMAIN h
  PROVE  val[h[0]] <= val[h[m]]
<1>1. PICK n \in Nat : DOMAIN h = 0 .. n - 1
  BY DEF IsHeap
<1> DEFINE bad == {k \in Nat : k \in DOMAIN h /\ ~ (val[h[0]] <= val[h[k]])}
<1>2. SUFFICES ASSUME bad # {} PROVE FALSE
  <2>1. m \in Nat /\ m \notin bad
    BY <1>1, <1>2
  <2> QED
    BY <2>1
<1>3. PICK k \in bad : \A l \in bad : k <= l
  BY <1>2, Least
<1>4. k \in DOMAIN h /\ 0 \in DOMAIN h
  BY <1>1, <1>3
<1>5. val[h[0]] \in Int /\ val[h[k]] \in Int
  BY <1>4, KeyAt
<1>6. k \in DOMAIN h \ {0}
  BY <1>3, <1>5
<1>7. Parent(k) \in DOMAIN h /\ Parent(k) \in Nat /\ Parent(k) < k
  BY <1>1, <1>6, ParentIn
<1>8. val[h[0]] <= val[h[Parent(k)]]
  BY <1>3, <1>7
<1>9. val[h[Parent(k)]] <= val[h[k]]
  BY <1>6 DEF Ordered
<1>10. val[h[Parent(k)]] \in Int
  BY <1>7, KeyAt
<1> QED
  BY <1>3, <1>5, <1>8, <1>9, <1>10

\* HeapInsert keeps the order.
LEMMA InsertOrders ==
  ASSUME NEW h, IsHeap(h), NEW val, NEW key, key \notin Members(h),
         \A x \in Members(h) \cup {key} : val[x] \in Int, Ordered(h, val)
  PROVE  Ordered(HeapInsert(h, val, key), val)
<1>1. PICK n \in Nat : DOMAIN h = 0 .. n - 1
  BY DEF IsHeap
<1>2. Size(h) = n
  BY <1>1, SizeOf
<1> DEFINE k == [i \in 0 .. n |-> IF i = n THEN key ELSE h[i]]
<1>3. HeapInsert(h, val, key) = BubbleUp(k, val, n)
  BY <1>2 DEF HeapInsert
<1>4. n + 1 \in Nat /\ DOMAIN k = 0 .. (n + 1) - 1 /\ n \in DOMAIN k /\ k[n] = key
  OBVIOUS
<1>5. \A i \in DOMAIN k : i # n => i \in DOMAIN h /\ k[i] = h[i]
  BY <1>1
<1> HIDE DEF k
<1>6. Numeric(k, val)
  <2>1. ASSUME NEW i \in DOMAIN k PROVE val[k[i]] \in Int
    <3>1. CASE i = n
      BY <1>4, <3>1
    <3>2. CASE i # n
      BY <1>5, <3>2, KeyAt
    <3> QED
      BY <3>1, <3>2
  <2> QED
    BY <2>1 DEF Numeric
<1>7. \A m \in DOMAIN k \ {0} : /\ Parent(m) # n
                                /\ m # n => val[k[Parent(m)]] <= val[k[m]]
  <2>1. ASSUME NEW m \in DOMAIN k \ {0}
        PROVE  Parent(m) # n /\ (m # n => val[k[Parent(m)]] <= val[k[m]])
    <3>1. m \in Nat /\ Parent(m) \in DOMAIN k /\ Parent(m) \in Nat /\ Parent(m) < m
      BY <1>4, ParentIn
    <3>2. m <= n
      BY <1>4, <3>1
    <3>3. Parent(m) # n
      BY <3>1, <3>2
    <3>4. ASSUME m # n
          PROVE  val[k[Parent(m)]] <= val[k[m]]
      <4>1. k[m] = h[m] /\ k[Parent(m)] = h[Parent(m)] /\ m \in DOMAIN h \ {0}
        BY <1>5, <3>1, <3>3, <3>4
      <4>2. val[h[Parent(m)]] <= val[h[m]]
        BY <4>1 DEF Ordered
      <4> QED
        BY <4>1, <4>2
    <3> QED
      BY <3>3, <3>4
  <2> QED
    BY <2>1
<1>8. OrderedBut(k, val, n)
  BY <1>7 DEF OrderedBut
<1>9. PICK b : b = BubbleUp(k, val, n)
  OBVIOUS
<1>10. \/ /\ \A j \in DOMAIN k : b[j] = k[j]
          /\ n = 0 \/ val[k[Parent(n)]] <= val[k[n]]
       \/ n # 0 /\ b[n] = k[Parent(n)] /\ Ordered(b, val)
  <2>1. PICK l \in Nat : DOMAIN k = 0 .. l - 1
    BY <1>4
  <2> QED
    BY <1>4, <1>6, <1>8, <1>9, <2>1, UpOrders
<1>11. DOMAIN b = DOMAIN k
  BY <1>4, <1>9, BubbleUpKeeps
<1>12. CASE /\ \A j \in DOMAIN k : b[j] = k[j]
            /\ n = 0 \/ val[k[Parent(n)]] <= val[k[n]]
  <2>1. ASSUME NEW m \in DOMAIN k \ {0}
        PROVE  val[b[Parent(m)]] <= val[b[m]]
    <3>1. Parent(m) \in DOMAIN k
      BY <1>4, ParentIn
    <3>2. b[Parent(m)] = k[Parent(m)] /\ b[m] = k[m]
      BY <1>12, <3>1
    <3> QED
      BY <1>7, <1>12, <3>2
  <2>2. Ordered(b, val)
    BY <1>11, <2>1 DEF Ordered
  <2> QED
    BY <1>3, <1>9, <2>2
<1>13. CASE Ordered(b, val)
  BY <1>3, <1>9, <1>13
<1> QED
  BY <1>10, <1>12, <1>13

\* HeapUpdate restores the order around the element whose val has changed.
LEMMA UpdateOrders ==
  ASSUME NEW h, IsHeap(h), NEW old, NEW val, NEW key \in Members(h),
         \A x \in Members(h) : val[x] \in Int /\ old[x] \in Int /\ (x # key => val[x] = old[x]),
         Ordered(h, old)
  PROVE  Ordered(HeapUpdate(h, val, key), val)
<1>1. PICK n \in Nat : DOMAIN h = 0 .. n - 1
  BY DEF IsHeap
<1>2. PICK i : i = Position(h, key)
  OBVIOUS
<1>3. i \in DOMAIN h /\ h[i] = key
  BY <1>2, PositionIn
<1>4. \A m \in DOMAIN h : h[m] \in Members(h) /\ (m # i => h[m] # key)
  BY <1>3, KeyAt DEF IsHeap, Once
<1>5. Numeric(h, val)
  BY <1>4 DEF Numeric
<1>6. OrderedBut(h, val, i)
  <2>1. ASSUME NEW m \in DOMAIN h \ {0}, m # i, Parent(m) # i
        PROVE  val[h[Parent(m)]] <= val[h[m]]
    <3>1. Parent(m) \in DOMAIN h
      BY <1>1, ParentIn
    <3>2. val[h[m]] = old[h[m]] /\ val[h[Parent(m)]] = old[h[Parent(m)]]
      BY <1>4, <2>1, <3>1
    <3> QED
      BY <3>2 DEF Ordered
  <2>2. ASSUME NEW m \in DOMAIN h \ {0}, Parent(m) = i, i # 0
        PROVE  val[h[Parent(i)]] <= val[h[m]]
    <3>1. i \in DOMAIN h \ {0}
      BY <1>3, <2>2
    <3>2. /\ Parent(i) \in DOMAIN h /\ Parent(i) < i /\ i < m /\ i \in Nat /\ Parent(i) \in Nat
          /\ m \in Nat
      BY <1>1, <2>2, <3>1, ParentIn
    <3>3. val[h[m]] = old[h[m]] /\ val[h[Parent(i)]] = old[h[Parent(i)]]
      BY <1>4, <3>2
    <3>4. old[h[Parent(i)]] <= old[h[i]] /\ old[h[i]] <= old[h[m]]
      BY <2>2, <3>1 DEF Ordered
    <3>5. old[h[Parent(i)]] \in Int /\ old[h[i]] \in Int /\ old[h[m]] \in Int
      BY <1>3, <1>4, <3>2
    <3> QED
      BY <3>3, <3>4, <3>5
  <2> QED
    BY <2>1, <2>2 DEF OrderedBut
<1>7. PICK up : up = BubbleUp(h, val, i)
  OBVIOUS
<1>8. \/ /\ \A j \in DOMAIN h : up[j] = h[j]
         /\ i = 0 \/ val[h[Parent(i)]] <= val[h[i]]
      \/ i # 0 /\ up[i] = h[Parent(i)] /\ Ordered(up, val)
  BY <1>1, <1>3, <1>5, <1>6, <1>7, UpOrders
<1>9. DOMAIN up = DOMAIN h
  BY <1>1, <1>3, <1>7, BubbleUpKeeps
<1>10. HeapUpdate(h, val, key) = IF up[i] = key THEN BubbleDown(up, val, i) ELSE up
  BY <1>2, <1>7 DEF HeapUpdate
<1>11. CASE i # 0 /\ up[i] = h[Parent(i)] /\ Ordered(up, val)
  <2>1. Parent(i) \in DOMAIN h /\ Parent(i) < i /\ Parent(i) \in Nat
    BY <1>1, <1>3, <1>11, ParentIn
  <2>2. Parent(i) # i
    BY <1>1, <1>3, <2>1
  <2>3. up[i] # key
    BY <1>4, <1>11, <2>1, <2>2
  <2> QED
    BY <1>10, <1>11, <2>3
<1>12. CASE /\ \A j \in DOMAIN h : up[j] = h[j]
            /\ i = 0 \/ val[h[Parent(i)]] <= val[h[i]]
  <2>1. up[i] = key
    BY <1>3, <1>12
  <2>2. Numeric(up, val)
    BY <1>5, <1>9, <1>12 DEF Numeric
  <2>3. \A m \in DOMAIN h \ {0} : up[m] = h[m] /\ up[Parent(m)] = h[Parent(m)]
    BY <1>1, <1>12, ParentIn
  <2>4. OrderedBut(up, val, i)
    <3>1. ASSUME NEW m \in DOMAIN up \ {0}
          PROVE  /\ m # i /\ Parent(m) # i => val[up[Parent(m)]] <= val[up[m]]
                 /\ Parent(m) = i /\ i # 0 => val[up[Parent(i)]] <= val[up[m]]
      <4>1. m \in DOMAIN h \ {0}
        BY <1>9
      <4>2. /\ m # i /\ Parent(m) # i => val[h[Parent(m)]] <= val[h[m]]
            /\ Parent(m) = i /\ i # 0 => val[h[Parent(i)]] <= val[h[m]]
        BY <1>6, <4>1 DEF OrderedBut
      <4>3. i # 0 => up[Parent(i)] = h[Parent(i)]
        BY <1>3, <2>3
      <4> QED
        BY <2>3, <4>1, <4>2, <4>3
    <3> QED
      BY <3>1 DEF OrderedBut
  <2>5. i = 0 \/ val[up[Parent(i)]] <= val[up[i]]
    BY <1>3, <1>12, <2>3
  <2>6. i \in DOMAIN up /\ DOMAIN up = 0 .. n - 1
    BY <1>1, <1>3, <1>9
  <2>7. Ordered(BubbleDown(up, val, i), val)
    BY <2>2, <2>4, <2>5, <2>6, DownOrders
  <2> QED
    BY <1>10, <2>1, <2>7
<1> QED
  BY <1>8, <1>11, <1>12

\* HeapRemoveMin keeps the order: the last element sinks from the top.
LEMMA RemoveMinOrders ==
  ASSUME NEW h, IsHeap(h), NEW val, Size(h) > 0,
         \A x \in Members(h) : val[x] \in Int, Ordered(h, val)
  PROVE  Ordered(HeapRemoveMin(h, val), val)
<1>1. PICK n \in Nat : DOMAIN h = 0 .. n - 1
  BY DEF IsHeap
<1>2. Size(h) = n
  BY <1>1, SizeOf
<1>3. PICK last \in Nat : last = n - 1
  BY <1>2
<1> DEFINE cut == [j \in 0 .. last - 1 |-> IF j = 0 THEN h[last] ELSE h[j]]
<1>4. HeapRemoveMin(h, val) = IF 0 = last THEN cut ELSE BubbleDown(cut, val, 0)
  BY <1>2, <1>3 DEF HeapRemoveMin, HeapRemoveAt
<1>5. DOMAIN cut = 0 .. last - 1 /\ last \in DOMAIN h
  BY <1>1, <1>3
<1>6. \A j \in DOMAIN cut : j \in DOMAIN h /\ (j # 0 => cut[j] = h[j]) /\ (j = 0 => cut[j] = h[last])
  BY <1>1, <1>3
<1> HIDE DEF cut
<1>7. CASE last = 0
  <2>1. DOMAIN cut = {}
    BY <1>5, <1>7
  <2> QED
    BY <1>4, <1>7, <2>1 DEF Ordered
<1>8. CASE last # 0
  <2>1. Numeric(cut, val)
    <3>1. ASSUME NEW j \in DOMAIN cut PROVE val[cut[j]] \in Int
      BY <1>5, <1>6, KeyAt
    <3> QED
      BY <3>1 DEF Numeric
  <2>2. 0 \in DOMAIN cut
    BY <1>5, <1>8
  <2>3. OrderedBut(cut, val, 0)
    <3>1. ASSUME NEW m \in DOMAIN cut \ {0}, Parent(m) # 0
          PROVE  val[cut[Parent(m)]] <= val[cut[m]]
      <4>1. Parent(m) \in DOMAIN cut
        BY <1>5, ParentIn
      <4>2. cut[m] = h[m] /\ cut[Parent(m)] = h[Parent(m)] /\ m \in DOMAIN h
        BY <1>6, <3>1, <4>1
      <4> QED
        BY <4>2 DEF Ordered
    <3> QED
      BY <3>1 DEF OrderedBut
  <2>4. Ordered(BubbleDown(cut, val, 0), val)
    BY <1>5, <2>1, <2>2, <2>3, DownOrders
  <2> QED
    BY <1>4, <1>8, <2>4
<1> QED
  BY <1>7, <1>8

-----------------------------------------------------------------------------
(* One swap of a loop, and what is left to do *)

\* h with the element at i moved to s above or below it
MovedTo(h, i, s) ==
    [j \in DOMAIN h |-> CASE j = s                       -> h[i]
                          [] j > s /\ j \in Ancestors(i) -> h[Parent(j)]
                          [] OTHER                       -> h[j]]

SunkTo(h, val, i, s) ==
    [j \in DOMAIN h |-> CASE j = s                                 -> h[i]
                          [] j >= i /\ j # s /\ j \in Ancestors(s) -> h[Child(h, val, j)]
                          [] OTHER                                 -> h[j]]

Swapped(h, i, j) == [h EXCEPT ![i] = h[j], ![j] = h[i]]

\* BubbleUp and BubbleDown without their recursion.
LEMMA BubbleUpIs ==
  ASSUME NEW h, NEW val, NEW i \in Nat
  PROVE  \E f : StopsUp(f, h, val, i, i) /\ f[i] \in Ancestors(i) /\ BubbleUp(h, val, i) = MovedTo(h, i, f[i])
<1> DEFINE f == CHOOSE u : u = [j \in 0 .. i |-> IF j = 0 \/ val[h[Parent(j)]] <= val[h[i]] THEN j ELSE u[Parent(j)]]
<1>1. StopsUp(f, h, val, i, i)
  <2>1. PICK u : StopsUp(u, h, val, i, i)
    BY StopsUpExists
  <2> QED
    BY <2>1 DEF StopsUp
<1>2. BubbleUp(h, val, i) = MovedTo(h, i, f[i])
  BY DEF BubbleUp, MovedTo
<1> HIDE DEF f
<1>3. f[i] \in Ancestors(i)
  <2>1. i <= i
    OBVIOUS
  <2> QED
    BY <1>1, <2>1, StopsUpIn
<1> QED
  BY <1>1, <1>2, <1>3

LEMMA BubbleDownIs ==
  ASSUME NEW h, NEW val, NEW n \in Nat, DOMAIN h = 0 .. n - 1, NEW i \in DOMAIN h
  PROVE  \E f : /\ StopsDown(f, h, val, i, n, n) /\ DownTo(h, val, i, i, f[i])
                /\ BubbleDown(h, val, i) = SunkTo(h, val, i, f[i])
<1> DEFINE f == CHOOSE u : u = [j \in DOMAIN h |->
                  IF 2 * j + 1 >= Size(h) \/ val[h[i]] <= val[h[Child(h, val, j)]]
                  THEN j ELSE u[Child(h, val, j)]]
<1>1. n - n .. n - 1 = DOMAIN h
  OBVIOUS
<1>2. StopsDown(f, h, val, i, n, n)
  <2>1. n \in 0 .. n
    OBVIOUS
  <2>2. PICK u : StopsDown(u, h, val, i, n, n)
    BY <2>1, StopsDownExists
  <2> QED
    BY <1>1, <2>2 DEF StopsDown
<1>3. BubbleDown(h, val, i) = SunkTo(h, val, i, f[i])
  BY DEF BubbleDown, SunkTo
<1> HIDE DEF f
<1>4. DownTo(h, val, i, i, f[i])
  BY <1>2, StopsDownIn
<1> QED
  BY <1>2, <1>3, <1>4

\* Where the element stops does not depend on what it has already passed.
LEMMA StopsUpSame ==
  ASSUME NEW h, NEW k, NEW val, NEW i \in Nat, NEW p \in Nat, p <= i, k[p] = h[i],
         \A j \in 0 .. p - 1 : k[j] = h[j],
         NEW f, StopsUp(f, h, val, i, i), NEW g, StopsUp(g, k, val, p, p)
  PROVE  f[p] = g[p]
<1> DEFINE bad == {j \in Nat : j <= p /\ f[j] # g[j]}
<1> SUFFICES ASSUME bad # {} PROVE FALSE
  OBVIOUS
<1>1. PICK m \in bad : \A l \in bad : m <= l
  BY Least
<1>2. m \in 0 .. i /\ m \in 0 .. p
  BY <1>1
<1>3. f[m] = IF m = 0 \/ val[h[Parent(m)]] <= val[h[i]] THEN m ELSE f[Parent(m)]
  BY <1>2, StopsUpAt
<1>4. g[m] = IF m = 0 \/ val[k[Parent(m)]] <= val[k[p]] THEN m ELSE g[Parent(m)]
  BY <1>2, StopsUpAt
<1>5. m # 0
  BY <1>1, <1>3, <1>4
<1>6. Parent(m) \in Nat /\ Parent(m) < m
  BY <1>1, <1>5, ParentFacts
<1>7. k[Parent(m)] = h[Parent(m)]
  BY <1>2, <1>6
<1>8. Parent(m) \notin bad
  BY <1>1, <1>6
<1>9. f[Parent(m)] = g[Parent(m)]
  BY <1>1, <1>6, <1>8
<1> QED
  BY <1>1, <1>3, <1>4, <1>7, <1>9

\* An element that must rise: one swap, and the rest of the way.
LEMMA RiseOne ==
  ASSUME NEW h, NEW val, NEW n \in Nat, h = [j \in 0 .. n - 1 |-> h[j]], NEW i \in 1 .. n - 1,
         ~ (val[h[Parent(i)]] <= val[h[i]])
  PROVE  BubbleUp(Swapped(h, i, Parent(i)), val, Parent(i)) = BubbleUp(h, val, i)
<1>1. PICK p : p = Parent(i)
  OBVIOUS
<1>2. p \in Nat /\ p < i /\ i \in Nat
  BY <1>1, ParentFacts
<1>3. PICK k : k = Swapped(h, i, p)
  OBVIOUS
<1>4. /\ DOMAIN h = 0 .. n - 1 /\ DOMAIN k = 0 .. n - 1 /\ k[p] = h[i] /\ k[i] = h[p]
      /\ \A j \in 0 .. n - 1 : j # i /\ j # p => k[j] = h[j]
  <2>1. DOMAIN h = 0 .. n - 1
    OBVIOUS
  <2> QED
    BY <1>2, <1>3, <2>1 DEF Swapped
<1>5. PICK f : StopsUp(f, h, val, i, i) /\ BubbleUp(h, val, i) = MovedTo(h, i, f[i])
  BY <1>2, BubbleUpIs
<1>6. PICK g : StopsUp(g, k, val, p, p) /\ g[p] \in Ancestors(p) /\ BubbleUp(k, val, p) = MovedTo(k, p, g[p])
  BY <1>2, BubbleUpIs
<1>7. f[i] = f[p]
  <2>1. i \in 0 .. i
    BY <1>2
  <2>2. f[i] = IF i = 0 \/ val[h[Parent(i)]] <= val[h[i]] THEN i ELSE f[Parent(i)]
    BY <1>5, <2>1, StopsUpAt
  <2> QED
    BY <1>1, <2>2
<1>8. f[p] = g[p]
  <2>1. p <= i /\ \A j \in 0 .. p - 1 : k[j] = h[j]
    BY <1>2, <1>4
  <2> QED
    BY <1>2, <1>4, <1>5, <1>6, <2>1, StopsUpSame
<1>9. PICK s : s = g[p]
  OBVIOUS
<1>10. Ancestors(i) = {i} \cup Ancestors(p) /\ Ancestors(p) \subseteq 0 .. p
  BY <1>1, <1>2, AncestorsStep, AncestorsChain DEF Chain
<1>11. s \in 0 .. p
  BY <1>6, <1>9, <1>10
<1>12. ASSUME NEW j \in 0 .. n - 1
       PROVE  MovedTo(h, i, s)[j] = MovedTo(k, p, s)[j]
  <2>1. MovedTo(h, i, s)[j] = CASE j = s                       -> h[i]
                                [] j > s /\ j \in Ancestors(i) -> h[Parent(j)]
                                [] OTHER                       -> h[j]
    BY <1>4 DEF MovedTo
  <2>2. MovedTo(k, p, s)[j] = CASE j = s                       -> k[p]
                                [] j > s /\ j \in Ancestors(p) -> k[Parent(j)]
                                [] OTHER                       -> k[j]
    BY <1>4 DEF MovedTo
  <2>3. CASE j = s
    BY <1>4, <2>1, <2>2, <2>3
  <2>4. CASE j = i
    <3>1. j # s /\ j > s /\ j \in Ancestors(i) /\ j \notin Ancestors(p)
      BY <1>2, <1>10, <1>11, <2>4
    <3> QED
      BY <1>1, <1>4, <2>1, <2>2, <2>4, <3>1
  <2>5. CASE j # i /\ j # s /\ j > s /\ j \in Ancestors(p)
    <3>1. j \in Nat \ {0} /\ j <= p
      BY <1>10, <1>11, <2>5
    <3>2. Parent(j) \in Nat /\ Parent(j) < j
      BY <3>1, ParentFacts
    <3>3. k[Parent(j)] = h[Parent(j)]
      BY <1>2, <1>4, <3>1, <3>2
    <3> QED
      BY <1>10, <2>1, <2>2, <2>5, <3>3
  <2>6. CASE j # i /\ j # s /\ ~ (j > s /\ j \in Ancestors(p))
    <3>1. p \in Ancestors(p)
      BY <1>2, AncestorsChain DEF Chain
    <3>2. j # p
      BY <1>11, <2>6, <3>1
    <3>3. ~ (j > s /\ j \in Ancestors(i))
      BY <1>10, <2>6
    <3> QED
      BY <1>4, <2>1, <2>2, <2>6, <3>2, <3>3
  <2> QED
    BY <2>3, <2>4, <2>5, <2>6
<1>13. MovedTo(h, i, s) = MovedTo(k, p, s)
  <2>1. /\ MovedTo(h, i, s) = [j \in 0 .. n - 1 |-> MovedTo(h, i, s)[j]]
        /\ MovedTo(k, p, s) = [j \in 0 .. n - 1 |-> MovedTo(k, p, s)[j]]
    BY <1>4 DEF MovedTo
  <2> QED
    BY <1>12, <2>1
<1>14. BubbleUp(k, val, p) = BubbleUp(h, val, i)
  BY <1>5, <1>6, <1>7, <1>8, <1>9, <1>13
<1> QED
  BY <1>1, <1>3, <1>14

\* An element that need not rise stays.
LEMMA RiseNone ==
  ASSUME NEW h, NEW val, NEW n \in Nat, h = [j \in 0 .. n - 1 |-> h[j]], NEW i \in 0 .. n - 1,
         i = 0 \/ val[h[Parent(i)]] <= val[h[i]]
  PROVE  BubbleUp(h, val, i) = h
<1>1. i \in Nat /\ i \in 0 .. i /\ DOMAIN h = 0 .. n - 1
  OBVIOUS
<1>2. PICK f : StopsUp(f, h, val, i, i) /\ BubbleUp(h, val, i) = MovedTo(h, i, f[i])
  BY <1>1, BubbleUpIs
<1>3. f[i] = IF i = 0 \/ val[h[Parent(i)]] <= val[h[i]] THEN i ELSE f[Parent(i)]
  BY <1>1, <1>2, StopsUpAt
<1>4. f[i] = i
  BY <1>3
<1>5. Ancestors(i) \subseteq 0 .. i
  BY <1>1, AncestorsChain DEF Chain
<1>6. \A j \in 0 .. n - 1 : ~ (j > i /\ j \in Ancestors(i))
  BY <1>5
<1>7. MovedTo(h, i, i) = [j \in 0 .. n - 1 |-> h[j]]
  BY <1>1, <1>6 DEF MovedTo
<1> QED
  BY <1>2, <1>4, <1>7

\* Below the swapped elements nothing has changed.
SameBelow(h, k, c, n) ==
  DOMAIN h = 0 .. n - 1 /\ DOMAIN k = 0 .. n - 1 /\ \A j \in c + 1 .. n - 1 : k[j] = h[j]

LEMMA ChildSame ==
  ASSUME NEW h, NEW k, NEW val, NEW n \in Nat, NEW c \in Nat, SameBelow(h, k, c, n),
         NEW j \in Nat, c <= j
  PROVE  Child(k, val, j) = Child(h, val, j)
<1>1. Size(h) = n /\ Size(k) = n
  BY SizeOf DEF SameBelow
<1>2. 2 * j + 2 < n => k[2 * j + 1] = h[2 * j + 1] /\ k[2 * j + 2] = h[2 * j + 2]
  BY DEF SameBelow
<1> QED
  BY <1>1, <1>2 DEF Child

LEMMA StopsDownSame ==
  ASSUME NEW h, NEW k, NEW val, NEW n \in Nat, NEW i, NEW c \in Nat, c < n, k[c] = h[i],
         SameBelow(h, k, c, n),
         NEW f, StopsDown(f, h, val, i, n, n), NEW g, StopsDown(g, k, val, c, n, n)
  PROVE  f[c] = g[c]
<1> DEFINE bad == {l \in Nat : l <= n - 1 - c /\ f[n - 1 - l] # g[n - 1 - l]}
<1>0. DOMAIN h = 0 .. n - 1 /\ DOMAIN k = 0 .. n - 1
  BY DEF SameBelow
<1>1. SUFFICES ASSUME bad # {} PROVE FALSE
  <2>1. PICK l : l = n - 1 - c
    OBVIOUS
  <2>2. l \in Nat /\ l <= n - 1 - c /\ n - 1 - l = c
    BY <2>1
  <2>3. l \notin bad
    BY <1>1
  <2> QED
    BY <2>2, <2>3
<1>2. PICK l \in bad : \A m \in bad : l <= m
  BY <1>1, Least
<1>3. PICK p : p = n - 1 - l
  OBVIOUS
<1>4. p \in c .. n - 1 /\ p \in n - n .. n - 1 /\ p \in Nat /\ f[p] # g[p]
  BY <1>2, <1>3
<1>5. Size(h) = n /\ Size(k) = n
  BY <1>0, SizeOf
<1>6. f[p] = IF 2 * p + 1 >= Size(h) \/ val[h[i]] <= val[h[Child(h, val, p)]]
             THEN p ELSE f[Child(h, val, p)]
  BY <1>4, StopsDownAt
<1>7. g[p] = IF 2 * p + 1 >= Size(k) \/ val[k[c]] <= val[k[Child(k, val, p)]]
             THEN p ELSE g[Child(k, val, p)]
  BY <1>4, StopsDownAt
<1>8. Child(k, val, p) = Child(h, val, p)
  <2>1. c <= p
    BY <1>4
  <2> QED
    BY <1>4, <2>1, ChildSame
<1>9. PICK d : d = Child(h, val, p)
  OBVIOUS
<1>10. 2 * p + 1 < n
  BY <1>4, <1>5, <1>6, <1>7
<1>11. d \in DOMAIN h \ {0} /\ d > p
  BY <1>0, <1>4, <1>9, <1>10, ChildIn
<1>12. k[d] = h[d]
  BY <1>0, <1>4, <1>11 DEF SameBelow
<1>13. f[d] = g[d]
  <2>1. PICK m : m = n - 1 - d
    OBVIOUS
  <2>2. m \in Nat /\ m <= n - 1 - c /\ n - 1 - m = d /\ m < l
    BY <1>0, <1>2, <1>3, <1>4, <1>11, <2>1
  <2>3. m \notin bad
    BY <1>2, <2>2
  <2> QED
    BY <2>2, <2>3
<1> QED
  BY <1>4, <1>5, <1>6, <1>7, <1>8, <1>9, <1>12, <1>13

\* An element that must sink: one swap, and the rest of the way.
LEMMA SinkOne ==
  ASSUME NEW h, NEW val, NEW n \in Nat, h = [j \in 0 .. n - 1 |-> h[j]], NEW i \in 0 .. n - 1,
         2 * i + 1 < n, ~ (val[h[i]] <= val[h[Child(h, val, i)]])
  PROVE  BubbleDown(Swapped(h, i, Child(h, val, i)), val, Child(h, val, i)) = BubbleDown(h, val, i)
<1>1. PICK c : c = Child(h, val, i)
  OBVIOUS
<1>2. DOMAIN h = 0 .. n - 1
  OBVIOUS
<1>3. c \in 1 .. n - 1 /\ c > i /\ Parent(c) = i
  BY <1>1, <1>2, ChildIn
<1>4. PICK k : k = Swapped(h, i, c)
  OBVIOUS
<1>5. /\ DOMAIN k = 0 .. n - 1 /\ k[c] = h[i] /\ k[i] = h[c]
      /\ \A j \in 0 .. n - 1 : j # i /\ j # c => k[j] = h[j]
  BY <1>2, <1>3, <1>4 DEF Swapped
<1>6. PICK f : /\ StopsDown(f, h, val, i, n, n) /\ DownTo(h, val, i, i, f[i])
               /\ BubbleDown(h, val, i) = SunkTo(h, val, i, f[i])
  BY <1>2, BubbleDownIs
<1>7. PICK g : /\ StopsDown(g, k, val, c, n, n) /\ DownTo(k, val, c, c, g[c])
               /\ BubbleDown(k, val, c) = SunkTo(k, val, c, g[c])
  <2>1. c \in DOMAIN k
    BY <1>3, <1>5
  <2> QED
    BY <1>5, <2>1, BubbleDownIs
<1>8. f[i] = f[c]
  <2>1. i \in n - n .. n - 1
    OBVIOUS
  <2>2. f[i] = IF 2 * i + 1 >= Size(h) \/ val[h[i]] <= val[h[Child(h, val, i)]]
               THEN i ELSE f[Child(h, val, i)]
    BY <1>6, <2>1, StopsDownAt
  <2>3. Size(h) = n
    BY <1>2, SizeOf
  <2> QED
    BY <1>1, <2>2, <2>3
<1>9. f[c] = g[c]
  <2>1. \A m \in c + 1 .. n - 1 : m \in 0 .. n - 1 /\ m # i /\ m # c
    BY <1>3
  <2>2. SameBelow(h, k, c, n)
    BY <1>2, <1>5, <2>1 DEF SameBelow
  <2>3. c \in Nat /\ c < n /\ k[c] = h[i] /\ StopsDown(f, h, val, i, n, n) /\ StopsDown(g, k, val, c, n, n)
    BY <1>3, <1>5, <1>6, <1>7
  <2> HIDE <1>5, <1>6, <1>7
  <2> QED
    BY <2>2, <2>3, StopsDownSame
<1>10. PICK s : s = g[c]
  OBVIOUS
<1>11. s \in 0 .. n - 1 /\ c <= s /\ c \in Ancestors(s)
  BY <1>5, <1>7, <1>10 DEF DownTo
<1>12. i \in Ancestors(s) /\ i < s
  BY <1>3, <1>11, AncestorsChain DEF Chain
<1>13. \A j \in Ancestors(s) : j >= c \/ j <= i
  BY <1>3, <1>11, AncestorsChain DEF Chain
<1>14. ASSUME NEW j \in 0 .. n - 1
       PROVE  SunkTo(h, val, i, s)[j] = SunkTo(k, val, c, s)[j]
  <2>1. SunkTo(h, val, i, s)[j] = CASE j = s                                 -> h[i]
                                    [] j >= i /\ j # s /\ j \in Ancestors(s) -> h[Child(h, val, j)]
                                    [] OTHER                                 -> h[j]
    BY <1>2 DEF SunkTo
  <2>2. SunkTo(k, val, c, s)[j] = CASE j = s                                 -> k[c]
                                    [] j >= c /\ j # s /\ j \in Ancestors(s) -> k[Child(k, val, j)]
                                    [] OTHER                                 -> k[j]
    BY <1>5 DEF SunkTo
  <2>3. CASE j = s
    BY <1>5, <2>1, <2>2, <2>3
  <2>4. CASE j = i
    <3>1. j # s /\ j >= i /\ j \in Ancestors(s) /\ ~ (j >= c)
      BY <1>3, <1>12, <2>4
    <3> QED
      BY <1>1, <1>5, <2>1, <2>2, <2>4, <3>1
  <2>5. CASE j >= c /\ j # s /\ j \in Ancestors(s)
    <3>1. j >= i
      BY <1>3, <2>5
    <3>2. Child(k, val, j) = Child(h, val, j)
      <4>1. SameBelow(h, k, c, n)
        BY <1>2, <1>3, <1>5 DEF SameBelow
      <4>2. c \in Nat /\ j \in Nat /\ c <= j
        BY <1>3, <2>5
      <4> QED
        BY <4>1, <4>2, ChildSame
    <3>3. Child(h, val, j) \in 0 .. n - 1 /\ Child(h, val, j) > j
      <4>1. 2 * j + 1 < n
        <5>1. Child(k, val, j) \in Ancestors(s) /\ Child(k, val, j) > j
          BY <1>7, <1>10, <1>11, <2>5, AncestorsChain DEF DownTo, Chain
        <5>2. Child(k, val, j) <= s
          BY <1>11, <5>1, AncestorsChain DEF Chain
        <5>3. Child(k, val, j) \in {2 * j + 1, 2 * j + 2}
          BY DEF Child
        <5> QED
          BY <1>11, <5>2, <5>3
      <4> QED
        BY <1>2, <4>1, ChildIn
    <3>4. k[Child(h, val, j)] = h[Child(h, val, j)]
      BY <1>3, <1>5, <2>5, <3>3
    <3> QED
      BY <2>1, <2>2, <2>5, <3>1, <3>2, <3>4
  <2>6. CASE j # i /\ j # s /\ ~ (j >= c /\ j \in Ancestors(s))
    <3>1. j # c
      BY <1>11, <2>6
    <3>2. ~ (j >= i /\ j \in Ancestors(s))
      BY <1>13, <2>6
    <3> QED
      BY <1>5, <2>1, <2>2, <2>6, <3>1, <3>2
  <2> QED
    BY <2>3, <2>4, <2>5, <2>6
<1>15. SunkTo(h, val, i, s) = SunkTo(k, val, c, s)
  <2>1. /\ SunkTo(h, val, i, s) = [j \in 0 .. n - 1 |-> SunkTo(h, val, i, s)[j]]
        /\ SunkTo(k, val, c, s) = [j \in 0 .. n - 1 |-> SunkTo(k, val, c, s)[j]]
    BY <1>2, <1>5 DEF SunkTo
  <2> QED
    BY <1>14, <2>1
<1>16. BubbleDown(k, val, c) = BubbleDown(h, val, i)
  BY <1>6, <1>7, <1>8, <1>9, <1>10, <1>15
<1> QED
  BY <1>1, <1>4, <1>16

\* An element that need not sink stays.
LEMMA SinkNone ==
  ASSUME NEW h, NEW val, NEW n \in Nat, h = [j \in 0 .. n - 1 |-> h[j]], NEW i \in 0 .. n - 1,
         2 * i + 1 >= n \/ val[h[i]] <= val[h[Child(h, val, i)]]
  PROVE  BubbleDown(h, val, i) = h
<1>1. DOMAIN h = 0 .. n - 1
  OBVIOUS
<1>2. PICK f : StopsDown(f, h, val, i, n, n) /\ BubbleDown(h, val, i) = SunkTo(h, val, i, f[i])
  BY <1>1, BubbleDownIs
<1>3. f[i] = IF 2 * i + 1 >= Size(h) \/ val[h[i]] <= val[h[Child(h, val, i)]]
             THEN i ELSE f[Child(h, val, i)]
  <2>1. i \in n - n .. n - 1
    OBVIOUS
  <2> QED
    BY <1>2, <2>1, StopsDownAt
<1>4. f[i] = i
  <2>1. Size(h) = n
    BY <1>1, SizeOf
  <2> QED
    BY <1>3, <2>1
<1>5. Ancestors(i) \subseteq 0 .. i
  BY AncestorsChain DEF Chain
<1>6. \A j \in 0 .. n - 1 : ~ (j >= i /\ j # i /\ j \in Ancestors(i))
  BY <1>5
<1>7. SunkTo(h, val, i, i) = [j \in 0 .. n - 1 |-> h[j]]
  BY <1>1, <1>6 DEF SunkTo
<1> QED
  BY <1>2, <1>4, <1>7

-----------------------------------------------------------------------------
(* The loops compute the functions *)

\* What the loop under way has still to do leads to goal.
GoalInv ==
    /\ op = "idle" => elems = goal
    /\ op = "insert" => BubbleUp(elems, data, index) = goal
    /\ op = "remove" => BubbleDown(elems, data, index) = goal
    /\ op = "update" /\ pc = "down" => BubbleDown(elems, data, index) = goal
    /\ op = "update" /\ pc = "up" /\ index = start => HeapUpdate(elems, data, elems[index]) = goal
    /\ op = "update" /\ pc = "up" /\ index # start => BubbleUp(elems, data, index) = goal

\* elems is a function on its positions, whose values can be compared.
LEMMA ElemsForm ==
  ASSUME IndexInv
  PROVE  /\ num \in Nat /\ elems = [j \in 0 .. num - 1 |-> elems[j]] /\ Size(elems) = num
         /\ \A j \in 0 .. num - 1 : elems[j] \in Keys /\ data[elems[j]] \in Int
<1>1. num \in Nat /\ elems \in [0 .. num - 1 -> Keys] /\ data \in [Keys -> Data]
  BY MaxElemsAssumption DEF IndexInv, HeapTypeOK
<1>2. DOMAIN elems = 0 .. num - 1 /\ elems = [j \in 0 .. num - 1 |-> elems[j]]
  BY <1>1
<1>3. Size(elems) = num
  BY <1>1, <1>2, SizeOf
<1>4. \A j \in 0 .. num - 1 : elems[j] \in Keys
  BY <1>1
<1>5. \A k \in Keys : data[k] \in Int
  BY <1>1, DataAssumption
<1> QED
  BY <1>1, <1>2, <1>3, <1>4, <1>5

\* The position that HeapOps looks for is the one the map has.
LEMMA PositionIs ==
  ASSUME IndexInv, NEW i \in 0 .. num - 1
  PROVE  Position(elems, elems[i]) = i
<1>1. DOMAIN elems = 0 .. num - 1
  BY ElemsForm
<1>2. \A j \in 0 .. num - 1 : elems[j] = elems[i] => j = i
  BY DEF IndexInv, Positions
<1> QED
  BY <1>1, <1>2 DEF Position

\* The tests of the loops are those of the functions.
LEMMA RiseTest ==
  ASSUME IndexInv, op # "idle"
  PROVE  /\ index \in 0 .. num - 1
         /\ MustRise => index \in 1 .. num - 1 /\ ~ (data[elems[Parent(index)]] <= data[elems[index]])
         /\ ~ MustRise => index = 0 \/ data[elems[Parent(index)]] <= data[elems[index]]
         /\ ParentOf(index) = Parent(index)
<1>1. index \in 0 .. num - 1 /\ num \in Nat
  BY MaxElemsAssumption DEF IndexInv, HeapTypeOK
<1>2. ParentOf(index) = Parent(index)
  BY DEF ParentOf, Parent
<1>3. index # 0 => Parent(index) \in 0 .. num - 1
  <2>1. index # 0 => Parent(index) \in Nat /\ Parent(index) < index
    BY <1>1, ParentFacts
  <2> QED
    BY <1>1, <2>1
<1>4. \A j \in 0 .. num - 1 : data[elems[j]] \in Int
  BY ElemsForm
<1> QED
  BY <1>1, <1>2, <1>3, <1>4 DEF MustRise

LEMMA SinkTest ==
  ASSUME IndexInv, op # "idle"
  PROVE  /\ index \in 0 .. num - 1 /\ ChildOf(index) = Child(elems, data, index)
         /\ MustSink => 2 * index + 1 < num /\ ~ (data[elems[index]] <= data[elems[Child(elems, data, index)]])
         /\ ~ MustSink => 2 * index + 1 >= num \/ data[elems[index]] <= data[elems[Child(elems, data, index)]]
<1>1. index \in 0 .. num - 1 /\ num \in Nat /\ DOMAIN elems = 0 .. num - 1 /\ Size(elems) = num
  BY MaxElemsAssumption, ElemsForm DEF IndexInv, HeapTypeOK
<1>2. ChildOf(index) = Child(elems, data, index)
  BY <1>1 DEF ChildOf, Child
<1>3. 2 * index + 1 < num => Child(elems, data, index) \in 0 .. num - 1
  BY <1>1, ChildIn
<1>4. \A j \in 0 .. num - 1 : data[elems[j]] \in Int
  BY ElemsForm
<1> QED
  BY <1>1, <1>2, <1>3, <1>4 DEF MustSink

\* The operations up to their loop
LEMMA GoalInsert ==
  ASSUME IndexInv, NEW k \in Keys, NEW d \in Data, zbx_binary_heap_insert(k, d),
         goal' = HeapInsert(elems, data', k)
  PROVE  GoalInv'
<1>1. Size(elems) = num
  BY ElemsForm
<1>2. op' = "insert" /\ index' = num /\ elems' = [i \in 0 .. num |-> IF i = num THEN k ELSE elems[i]]
  BY DEF zbx_binary_heap_insert, Begin
<1>3. goal' = BubbleUp(elems', data', num)
  BY <1>1, <1>2 DEF HeapInsert
<1> QED
  BY <1>2, <1>3 DEF GoalInv

LEMMA GoalUpdate ==
  ASSUME IndexInv, NEW k \in Keys, NEW d \in Data, op = "idle", zbx_binary_heap_update_direct(k, d),
         goal' = HeapUpdate(elems, data', k)
  PROVE  GoalInv'
<1>1. op' = "update" /\ pc' = "up" /\ index' = key_index[k] /\ start' = key_index[k] /\ elems' = elems
  BY DEF zbx_binary_heap_update_direct, Begin
<1>2. elems[key_index[k]] = k
  BY DEF IndexInv, zbx_binary_heap_update_direct
<1> QED
  BY <1>1, <1>2 DEF GoalInv

LEMMA GoalRemove ==
  ASSUME IndexInv, NEW i \in 0 .. num - 1, op = "idle", RemoveAt(i), goal' = HeapRemoveAt(elems, data, i)
  PROVE  GoalInv'
<1>1. Size(elems) = num /\ num \in Nat
  BY ElemsForm
<1>2. PICK last : last = num - 1
  OBVIOUS
<1>3. PICK cut : cut = [j \in 0 .. last - 1 |-> IF j = i THEN elems[last] ELSE elems[j]]
  OBVIOUS
<1>4. HeapRemoveAt(elems, data, i) = IF i = last THEN cut ELSE BubbleDown(cut, data, i)
  BY <1>1, <1>2, <1>3 DEF HeapRemoveAt
<1>5. elems' = cut
  <2>1. last - 1 = num - 2
    BY <1>1, <1>2
  <2> QED
    BY <1>2, <1>3, <2>1 DEF RemoveAt
<1>6. data' = data
  BY DEF RemoveAt
<1>7. CASE i = last
  BY <1>2, <1>4, <1>5, <1>7 DEF RemoveAt, GoalInv
<1>8. CASE i # last
  <2>1. op' = "remove" /\ index' = i
    BY <1>2, <1>8 DEF RemoveAt, Begin
  <2> QED
    BY <1>4, <1>5, <1>6, <1>8, <2>1 DEF GoalInv
<1> QED
  BY <1>7, <1>8

\* The loops
LEMMA GoalRise ==
  ASSUME IndexInv, GoalInv, Rise, goal' = goal
  PROVE  GoalInv'
<1>1. op # "idle" /\ pc = "up" /\ MustRise /\ op' = op /\ pc' = pc /\ data' = data /\ start' = start
  BY DEF Rise
<1>2. PICK i, p : i = index /\ p = Parent(index)
  OBVIOUS
<1>3. i \in 1 .. num - 1 /\ ~ (data[elems[p]] <= data[elems[i]]) /\ ParentOf(index) = p
  BY <1>1, <1>2, RiseTest
<1>4. p \in Nat /\ p < i
  BY <1>2, <1>3, ParentFacts
<1>5. elems' = Swapped(elems, i, p) /\ index' = p
  BY <1>2, <1>3 DEF Rise, Swap, Swapped
<1>6. num \in Nat /\ elems = [j \in 0 .. num - 1 |-> elems[j]]
  BY ElemsForm
<1>7. BubbleUp(elems', data, p) = BubbleUp(elems, data, i)
  BY <1>2, <1>3, <1>5, <1>6, RiseOne
<1>8. op \in {"insert", "update"} /\ index <= start
  BY <1>1 DEF IndexInv, HeapTypeOK, Ops
<1>9. CASE op = "insert"
  BY <1>1, <1>2, <1>5, <1>7, <1>9 DEF GoalInv
<1>10. CASE op = "update"
  <2>1. start \in 0 .. num - 1 /\ p # start
    BY <1>1, <1>2, <1>3, <1>4, <1>8 DEF IndexInv, HeapTypeOK
  <2>2. CASE index = start
    <3>1. BubbleUp(elems, data, i)[i] # elems[i]
      <4>1. BubbleUp(elems', data, p)[i] = elems[p]
        <5>1. PICK f : f[p] \in Ancestors(p) /\ BubbleUp(elems', data, p) = MovedTo(elems', p, f[p])
          BY <1>4, BubbleUpIs
        <5>2. Ancestors(p) \subseteq 0 .. p
          BY <1>4, AncestorsChain DEF Chain
        <5>3. i # f[p] /\ i \notin Ancestors(p)
          BY <1>3, <1>4, <5>1, <5>2
        <5>4. DOMAIN elems' = 0 .. num - 1 /\ elems'[i] = elems[p]
          BY <1>3, <1>4, <1>5, <1>6 DEF Swapped
        <5>5. PICK s : s = f[p]
          OBVIOUS
        <5>6. i \in DOMAIN elems' /\ i # s /\ ~ (i > s /\ i \in Ancestors(p))
          BY <1>3, <5>3, <5>4, <5>5
        <5>7. MovedTo(elems', p, s)[i] = elems'[i]
          BY <5>6 DEF MovedTo
        <5> QED
          BY <5>1, <5>4, <5>5, <5>7
      <4>2. elems[p] # elems[i]
        <5>1. i \in Positions /\ p \in Positions /\ p # i
          BY <1>3, <1>4, <1>6 DEF Positions
        <5>2. \A a, b \in Positions : elems[a] = elems[b] => a = b
          BY DEF IndexInv
        <5> QED
          BY <5>1, <5>2
      <4> QED
        BY <1>7, <4>1, <4>2
    <3>2. Position(elems, elems[i]) = i
      BY <1>3, PositionIs
    <3>3. HeapUpdate(elems, data, elems[i]) = BubbleUp(elems, data, i)
      BY <3>1, <3>2 DEF HeapUpdate
    <3>4. HeapUpdate(elems, data, elems[i]) = goal
      BY <1>1, <1>2, <1>10, <2>2 DEF GoalInv
    <3> QED
      BY <1>1, <1>5, <1>7, <1>10, <2>1, <3>3, <3>4 DEF GoalInv
  <2>3. CASE index # start
    BY <1>1, <1>2, <1>5, <1>7, <1>10, <2>1, <2>3 DEF GoalInv
  <2> QED
    BY <2>2, <2>3
<1> QED
  BY <1>8, <1>9, <1>10

LEMMA GoalSink ==
  ASSUME IndexInv, GoalInv, Sink, goal' = goal
  PROVE  GoalInv'
<1>1. op # "idle" /\ pc = "down" /\ MustSink /\ op' = op /\ pc' = pc /\ data' = data
  BY DEF Sink
<1>2. PICK i, c : i = index /\ c = Child(elems, data, index)
  OBVIOUS
<1>3. /\ i \in 0 .. num - 1 /\ 2 * i + 1 < num /\ ~ (data[elems[i]] <= data[elems[c]])
      /\ ChildOf(index) = c
  BY <1>1, <1>2, SinkTest
<1>4. elems' = Swapped(elems, i, c) /\ index' = c
  BY <1>2, <1>3 DEF Sink, Swap, Swapped
<1>5. num \in Nat /\ elems = [j \in 0 .. num - 1 |-> elems[j]]
  BY ElemsForm
<1>6. BubbleDown(elems', data, c) = BubbleDown(elems, data, i)
  <2>1. c = Child(elems, data, i) /\ elems' = Swapped(elems, i, Child(elems, data, i))
    BY <1>2, <1>4
  <2>2. ~ (data[elems[i]] <= data[elems[Child(elems, data, i)]])
    BY <1>3, <2>1
  <2>3. BubbleDown(Swapped(elems, i, Child(elems, data, i)), data, Child(elems, data, i)) = BubbleDown(elems, data, i)
    BY <1>3, <1>5, <2>2, SinkOne
  <2> QED
    BY <2>1, <2>3
<1>7. op \in {"remove", "update"}
  BY <1>1 DEF IndexInv, HeapTypeOK, Ops
<1> QED
  BY <1>1, <1>2, <1>4, <1>6, <1>7 DEF GoalInv

LEMMA GoalDone ==
  ASSUME IndexInv, GoalInv, InsertDone \/ UpdateUp \/ UpdateDone \/ RemoveDone, goal' = goal
  PROVE  GoalInv'
<1>1. op # "idle" /\ elems' = elems /\ data' = data
  BY DEF InsertDone, UpdateUp, UpdateDone, RemoveDone
<1>2. num \in Nat /\ elems = [j \in 0 .. num - 1 |-> elems[j]] /\ index \in 0 .. num - 1
  BY <1>1, ElemsForm, RiseTest
<1>3. ASSUME ~ MustRise
      PROVE  BubbleUp(elems, data, index) = elems
  BY <1>1, <1>2, <1>3, RiseTest, RiseNone
<1>4. ASSUME ~ MustSink
      PROVE  BubbleDown(elems, data, index) = elems
  BY <1>1, <1>2, <1>4, SinkTest, SinkNone
<1>5. CASE InsertDone
  BY <1>1, <1>3, <1>5 DEF InsertDone, End, GoalInv
<1>6. CASE RemoveDone
  BY <1>1, <1>4, <1>6 DEF RemoveDone, End, GoalInv
<1>7. CASE UpdateDone
  BY <1>1, <1>4, <1>7 DEF UpdateDone, End, GoalInv
<1>8. CASE UpdateUp /\ index # start
  BY <1>1, <1>3, <1>8 DEF UpdateUp, UpdateTurns, End, GoalInv
<1>9. CASE UpdateUp /\ index = start
  <2>1. /\ op = "update" /\ pc = "up" /\ op' = "update" /\ pc' = "down" /\ index' = index
        /\ ~ MustRise
    BY <1>9 DEF UpdateUp, UpdateTurns
  <2>2. Position(elems, elems[index]) = index
    BY <1>2, PositionIs
  <2>3. BubbleUp(elems, data, index) = elems
    BY <1>3, <2>1
  <2>4. HeapUpdate(elems, data, elems[index]) = BubbleDown(elems, data, index)
    BY <2>2, <2>3 DEF HeapUpdate
  <2>5. HeapUpdate(elems, data, elems[index]) = goal
    BY <1>9, <2>1 DEF GoalInv
  <2> QED
    BY <1>1, <2>1, <2>4, <2>5 DEF GoalInv
<1> QED
  BY <1>5, <1>6, <1>7, <1>8, <1>9

LEMMA GoalStep ==
  ASSUME IndexInv, GoalInv, [GoalNext]_<<heapVars, goal>>
  PROVE  GoalInv'
<1>1. CASE UNCHANGED <<heapVars, goal>>
  BY <1>1 DEF heapVars, GoalInv
<1>2. ASSUME NEW k \in Keys, NEW d \in Data, zbx_binary_heap_insert(k, d),
             goal' = HeapInsert(elems, data', k)
      PROVE  GoalInv'
  BY <1>2, GoalInsert
<1>3. ASSUME NEW k \in Keys, NEW d \in Data, zbx_binary_heap_update_direct(k, d),
             goal' = HeapUpdate(elems, data', k)
      PROVE  GoalInv'
  <2>1. op = "idle"
    BY <1>3 DEF zbx_binary_heap_update_direct
  <2> QED
    BY <1>3, <2>1, GoalUpdate
<1>4. ASSUME zbx_binary_heap_remove_min, goal' = HeapRemoveMin(elems, data)
      PROVE  GoalInv'
  <2>1. op = "idle" /\ RemoveAt(0) /\ goal' = HeapRemoveAt(elems, data, 0)
    BY <1>4 DEF zbx_binary_heap_remove_min, HeapRemoveMin
  <2>2. 0 \in 0 .. num - 1
    <3>1. num \in Nat
      BY ElemsForm
    <3> QED
      BY <1>4, <3>1 DEF zbx_binary_heap_remove_min
  <2> QED
    BY <2>1, <2>2, GoalRemove
<1>5. ASSUME NEW k \in Keys, zbx_binary_heap_remove_direct(k), goal' = HeapRemove(elems, data, k)
      PROVE  GoalInv'
  <2>1. op = "idle" /\ RemoveAt(key_index[k]) /\ key_index[k] # FAIL
    BY <1>5 DEF zbx_binary_heap_remove_direct
  <2>2. key_index[k] \in 0 .. num - 1 /\ elems[key_index[k]] = k
    BY <2>1 DEF IndexInv, Positions
  <2>3. Position(elems, k) = key_index[k]
    BY <2>2, PositionIs
  <2>4. goal' = HeapRemoveAt(elems, data, key_index[k])
    BY <1>5, <2>3 DEF HeapRemove
  <2> QED
    BY <2>1, <2>2, <2>4, GoalRemove
<1>6. ASSUME Step, goal' = goal
      PROVE  GoalInv'
  BY <1>6, GoalRise, GoalSink, GoalDone DEF Step
<1> QED
  BY <1>1, <1>2, <1>3, <1>4, <1>5, <1>6 DEF GoalNext

\* Computes, for any number of elements: every operation of the heap, swap by swap, ends
\* with the array that HeapOps computes at once (__binary_heap_bubble_up and _down).  So
\* what is proved of HeapOps, and of the poller queues over it, holds for the loops.
THEOREM LoopsCompute == GoalSpec => []Computes
<1>1. GoalInit => IndexInv /\ GoalInv
  <2> SUFFICES ASSUME GoalInit
               PROVE  IndexInv /\ GoalInv
    OBVIOUS
  <2>1. IndexInv
    BY IndexInit DEF GoalInit
  <2>2. GoalInv
    BY DEF GoalInit, HeapInit, GoalInv
  <2> QED
    BY <2>1, <2>2
<1>2. IndexInv /\ GoalInv /\ [GoalNext]_<<heapVars, goal>> => IndexInv' /\ GoalInv'
  <2> SUFFICES ASSUME IndexInv, GoalInv, [GoalNext]_<<heapVars, goal>>
               PROVE  IndexInv' /\ GoalInv'
    OBVIOUS
  <2>1. [HeapNext]_heapVars
    BY DEF GoalNext, HeapNext
  <2> QED
    BY <2>1, IndexNext, GoalStep
<1>3. GoalInv => Computes
  BY DEF GoalInv, Computes
<1> QED
  BY <1>1, <1>2, <1>3, PTL DEF GoalSpec

=============================================================================
