------------------------------- MODULE Queue -------------------------------
(***************************************************************************)
(* base/queue.h, the array queue behind custom_events and the write queue  *)
(* of a connection: elements ptr[offset], ..., ptr[offset + size - 1],     *)
(* moved to the start of the array when its end is reached and doubled     *)
(* when it is full.                                                        *)
(***************************************************************************)
EXTENDS Integers, Sequences

CONSTANTS
    Values,          \* elements
    Zero,            \* zeroed memory
    InitSizes,       \* the capacities given to init
    QUEUE_INIT_SIZE, \* the capacity resize uses instead of 0
    MaxSize          \* bound: elements in the queue

ASSUME QueueAssumption ==
    /\ Zero \notin Values
    /\ InitSizes \subseteq Nat
    /\ QUEUE_INIT_SIZE \in Nat \ {0}
    /\ MaxSize \in Nat

VARIABLES
    ptr,       \* the array, index -> element, from 0
    size,
    maxsize,   \* the capacity, the number of indices of ptr
    offset

vars == <<ptr, size, maxsize, offset>>

\* qtype##_init.
Init ==
    /\ maxsize \in InitSizes
    /\ ptr = [i \in 0..(maxsize - 1) |-> Zero]
    /\ size = 0
    /\ offset = 0

\* Mutant: a capacity of 0 is doubled like any other.
DoubledZero == 2 * maxsize

\* Mutant: the elements are not moved.
NotMoved == ptr

\* resize(maxsize * 2): safe_realloc keeps the elements and zeroes the rest.
Doubled == IF maxsize = 0 THEN QUEUE_INIT_SIZE ELSE 2 * maxsize

Realloc(n) == [i \in 0..(n - 1) |-> IF i < maxsize THEN ptr[i] ELSE Zero]

\* memmove(ptr, ptr + offset, size); the elements behind stay as they were.
Moved == [i \in 0..(maxsize - 1) |-> IF i < size THEN ptr[offset + i] ELSE ptr[i]]

PushFull(e) ==
    /\ size = maxsize
    /\ maxsize' = Doubled
    /\ offset' = offset
    /\ ptr' = [Realloc(Doubled) EXCEPT ![offset + size] = e]

PushMoved(e) ==
    /\ size # maxsize
    /\ offset + size = maxsize
    /\ offset' = 0
    /\ ptr' = [Moved EXCEPT ![size] = e]
    /\ UNCHANGED maxsize

PushInPlace(e) ==
    /\ size # maxsize
    /\ offset + size # maxsize
    /\ ptr' = [ptr EXCEPT ![offset + size] = e]
    /\ UNCHANGED <<maxsize, offset>>

push_back(e) ==
    /\ size < MaxSize
    /\ PushFull(e) \/ PushMoved(e) \/ PushInPlace(e)
    /\ size' = size + 1

pop_front ==
    /\ size > 0
    /\ size' = size - 1
    /\ offset' = IF offset + 1 = maxsize THEN 0 ELSE offset + 1
    /\ UNCHANGED <<ptr, maxsize>>

pop_back ==
    /\ size > 0
    /\ size' = size - 1
    /\ UNCHANGED <<ptr, maxsize, offset>>

clear ==
    /\ offset' = 0
    /\ size' = 0
    /\ ptr' = [i \in 0..(maxsize - 1) |-> Zero]
    /\ UNCHANGED maxsize

\* The array is freed; the next push_back allocates a new one.
cleanup ==
    /\ ptr' = [i \in 0..-1 |-> Zero]
    /\ offset' = 0
    /\ size' = 0
    /\ maxsize' = 0

Next ==
    \/ \E e \in Values : push_back(e)
    \/ pop_front
    \/ pop_back
    \/ clear
    \/ cleanup

Spec == Init /\ [][Next]_vars
-----------------------------------------------------------------------------
(***************************************************************************)
(* Properties                                                              *)
(***************************************************************************)
\* Type invariant of the struct.
TypeOK ==
    /\ maxsize \in Nat
    /\ ptr \in [0..(maxsize - 1) -> Values \cup {Zero}]
    /\ size \in Nat
    /\ offset \in Nat

\* No element lies beyond the array: push_back, which compacts or doubles only
\* when it is exactly at the end, always writes inside it, and a full queue
\* starts at the first cell, so that doubling needs no move.
InBounds == offset + size <= maxsize

\* The elements in queue order.
Window(p, o, n) == [i \in 1..n |-> p[o + i - 1]]

contents == Window(ptr, offset, size)

\* Moving and doubling are invisible: the array queue implements a FIFO queue.
Abstract == INSTANCE Fifo WITH q <- contents
Refines == Abstract!Spec
=============================================================================
