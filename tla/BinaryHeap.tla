----------------------------- MODULE BinaryHeap -----------------------------
(***************************************************************************)
(* The binary heap of libs/zbxalgo/binaryheap.c with its direct option: the *)
(* array elems, the map key_index from a key to its position, and the two   *)
(* loops that restore the order, one swap a step.  The poller queues and    *)
(* the queue of passive proxies of the configuration cache are such heaps.  *)
(*                                                                          *)
(* The heap is called under the lock of the configuration cache, so that    *)
(* one operation runs at a time.  The data of an element (the item) is      *)
(* shared with the caller; here it changes only in the calls that tell the  *)
(* heap about it.  elems_alloc and the memory functions are left out.       *)
(***************************************************************************)
EXTENDS HeapOps

CONSTANTS
    Keys,           \* what may be in the heap
    Data,           \* the values the compare function orders elements by
    MaxElems        \* bound on the number of elements

ASSUME DataAssumption == Data \subseteq Int /\ Data # {}
ASSUME MaxElemsAssumption == MaxElems \in Nat

VARIABLES
    num,            \* elems_num
    elems,          \* the keys of the elements, positions 0 .. num - 1
    key_index,      \* the position of each key, FAIL when it is not in the heap
    data,           \* the data behind each key
    op,             \* the operation under way, "idle" between operations
    pc,             \* the loop it is in: "up" or "down"
    index,          \* the position of the element the loop moves
    start,          \* the position at which the loop started
    removed         \* ghost: zbx_binary_heap_remove_direct was called

heapVars == <<num, elems, key_index, data, op, pc, index, start, removed>>

FAIL == -1

Ops == {"insert", "update", "remove"}

HeapInit ==
    /\ num = 0
    /\ elems = [i \in 0 .. -1 |-> FAIL]
    /\ key_index = [k \in Keys |-> FAIL]
    /\ data = [k \in Keys |-> CHOOSE d \in Data : TRUE]
    /\ op = "idle"
    /\ pc = "up"
    /\ index = 0
    /\ start = 0
    /\ removed = FALSE

ParentOf(i) == (i - 1) \div 2

\* Mutant of ChildOf: always the left one
ChildOfLeft(i) == 2 * i + 1

\* the child to compare with: the smaller one, the left one when they are equal
ChildOf(i) ==
    IF 2 * i + 2 < num /\ data[elems[2 * i + 1]] > data[elems[2 * i + 2]]
    THEN 2 * i + 2
    ELSE 2 * i + 1

\* what swap does with the map: both elements get their new positions
SwapIndex(i, j) == [key_index EXCEPT ![elems[i]] = j, ![elems[j]] = i]

Swap(i, j) ==
    /\ elems' = [elems EXCEPT ![i] = elems[j], ![j] = elems[i]]
    /\ key_index' = SwapIndex(i, j)
    /\ index' = j

-----------------------------------------------------------------------------
(* The operations up to their loop.  A duplicate key, or a key that is not  *)
(* in the heap, ends the process: the callers' discipline, see PollerQueue. *)

Begin(o, where, i) == op' = o /\ pc' = where /\ index' = i /\ start' = i

zbx_binary_heap_insert(k, d) ==
    /\ op = "idle"
    /\ key_index[k] = FAIL
    /\ num < MaxElems
    /\ data' = [data EXCEPT ![k] = d]
    /\ elems' = [i \in 0 .. num |-> IF i = num THEN k ELSE elems[i]]
    /\ num' = num + 1
    /\ Begin("insert", "up", num)
    /\ UNCHANGED <<key_index, removed>>

zbx_binary_heap_update_direct(k, d) ==
    /\ op = "idle"
    /\ key_index[k] # FAIL
    /\ data' = [data EXCEPT ![k] = d]
    /\ Begin("update", "up", key_index[k])
    /\ UNCHANGED <<num, elems, key_index, removed>>

\* the removal of the element at position i: the last element takes its place
RemoveAt(i) ==
    /\ key_index' = [key_index EXCEPT ![elems[i]] = FAIL]
    /\ elems' = [j \in 0 .. num - 2 |-> IF j = i THEN elems[num - 1] ELSE elems[j]]
    /\ num' = num - 1
    /\ IF i # num - 1
       THEN Begin("remove", "down", i)
       ELSE UNCHANGED <<op, pc, index, start>>
    /\ UNCHANGED data

zbx_binary_heap_remove_min ==
    /\ op = "idle"
    /\ num > 0
    /\ RemoveAt(0)
    /\ UNCHANGED removed

zbx_binary_heap_remove_direct(k) ==
    /\ op = "idle"
    /\ key_index[k] # FAIL
    /\ RemoveAt(key_index[k])
    /\ removed' = TRUE

-----------------------------------------------------------------------------
(* The loops *)

MustRise == index # 0 /\ data[elems[ParentOf(index)]] > data[elems[index]]

MustSink == 2 * index + 1 < num /\ data[elems[index]] > data[elems[ChildOf(index)]]

Rise ==
    /\ op # "idle"
    /\ pc = "up"
    /\ MustRise
    /\ Swap(index, ParentOf(index))
    /\ UNCHANGED <<num, data, op, pc, start, removed>>

Sink ==
    /\ op # "idle"
    /\ pc = "down"
    /\ MustSink
    /\ Swap(index, ChildOf(index))
    /\ UNCHANGED <<num, data, op, pc, start, removed>>

\* Mutant of EnterIndex: the element that did not move is not entered
EnterIndexNever == key_index

\* after a loop without a swap the position is entered in the map, which swap
\* would have done
EnterIndex ==
    IF index = start THEN [key_index EXCEPT ![elems[index]] = index] ELSE key_index

End == op' = "idle" /\ pc' = "up" /\ index' = 0 /\ start' = 0

InsertDone ==
    /\ op = "insert"
    /\ ~ MustRise
    /\ key_index' = EnterIndex
    /\ End
    /\ UNCHANGED <<num, elems, data, removed>>

\* Mutant of UpdateTurns: the element only rises
UpdateTurnsNever == FALSE

\* an updated element that did not rise may have to sink
UpdateTurns == index = start

UpdateUp ==
    /\ op = "update"
    /\ pc = "up"
    /\ ~ MustRise
    /\ IF UpdateTurns
       THEN pc' = "down" /\ UNCHANGED <<op, index, start>>
       ELSE End
    /\ UNCHANGED <<num, elems, key_index, data, removed>>

UpdateDone ==
    /\ op = "update"
    /\ pc = "down"
    /\ ~ MustSink
    /\ End
    /\ UNCHANGED <<num, elems, key_index, data, removed>>

RemoveDone ==
    /\ op = "remove"
    /\ ~ MustSink
    /\ key_index' = EnterIndex
    /\ End
    /\ UNCHANGED <<num, elems, data, removed>>

Step == Rise \/ Sink \/ InsertDone \/ UpdateUp \/ UpdateDone \/ RemoveDone

HeapNext ==
    \/ \E k \in Keys, d \in Data : zbx_binary_heap_insert(k, d)
    \/ \E k \in Keys, d \in Data : zbx_binary_heap_update_direct(k, d)
    \/ zbx_binary_heap_remove_min
    \/ \E k \in Keys : zbx_binary_heap_remove_direct(k)
    \/ Step

HeapSpec == HeapInit /\ [][HeapNext]_heapVars

-----------------------------------------------------------------------------
(* The same with a record of what HeapOps says the operation computes *)

VARIABLE goal

GoalInit == HeapInit /\ goal = elems

GoalNext ==
    \/ \E k \in Keys, d \in Data : zbx_binary_heap_insert(k, d) /\ goal' = HeapInsert(elems, data', k)
    \/ \E k \in Keys, d \in Data :
          zbx_binary_heap_update_direct(k, d) /\ goal' = HeapUpdate(elems, data', k)
    \/ zbx_binary_heap_remove_min /\ goal' = HeapRemoveMin(elems, data)
    \/ \E k \in Keys : zbx_binary_heap_remove_direct(k) /\ goal' = HeapRemove(elems, data, k)
    \/ Step /\ UNCHANGED goal

GoalSpec == GoalInit /\ [][GoalNext]_<<heapVars, goal>>

-----------------------------------------------------------------------------
(* Properties *)

\* The variables have the types of the C structure, and every position used
\* is inside the array.
HeapTypeOK ==
    /\ num \in 0 .. MaxElems
    /\ elems \in [0 .. num - 1 -> Keys]
    /\ key_index \in [Keys -> {FAIL} \cup 0 .. MaxElems - 1]
    /\ data \in [Keys -> Data]
    /\ op \in Ops \cup {"idle"}
    /\ pc \in {"up", "down"}
    /\ op # "idle" => index \in 0 .. num - 1 /\ start \in 0 .. num - 1
    /\ op = "insert" => pc = "up"
    /\ op = "remove" => pc = "down"

\* Between operations the map and the array are inverse to each other: direct
\* operations find the element they look for, and every key is there once.
IndexExact ==
    op = "idle" =>
        /\ \A i \in 0 .. num - 1 : key_index[elems[i]] = i
        /\ \A k \in Keys : key_index[k] # FAIL => elems[key_index[k]] = k

\* `binary heap (min-heap)', include/zbxalgo.h:196: between operations no
\* element is larger than its children, as long as elements leave only as
\* minimum.  zbx_binary_heap_remove_direct does not keep the order: it lets the
\* element that takes the free place sink, where it might have to rise.
HeapOrder ==
    op = "idle" /\ ~ removed =>
        \A i \in 1 .. num - 1 : data[elems[ParentOf(i)]] <= data[elems[i]]

\* The loops of the code compute the functions of HeapOps, which the model of
\* the poller queues uses in their place.
Computes == op = "idle" => elems = goal

=============================================================================
