--------------------------- MODULE ContainerProofs ---------------------------
(***************************************************************************)
(* Proofs about the containers of base/: the array queue stays inside its  *)
(* array and implements a FIFO queue, for every capacity and every set of  *)
(* elements; the heap of timers keeps its shape and its order, for any     *)
(* number of timers and any time-outs.                                     *)
(***************************************************************************)
EXTENDS Queue, Heap, WellFoundedInduction, TLAPS

(***************************************************************************)
(* The queue. InBounds needs the types; that the queue holds elements and  *)
(* no zeroed cells needs both.                                             *)
(***************************************************************************)

\* The cells of the array that hold elements have been written.
Written == \A i \in offset..(offset + size - 1) : ptr[i] \in Values

\* The invariant that every step preserves.
IInv == TypeOK /\ InBounds /\ Written

LEMMA InitIInv == Init => IInv
BY QueueAssumption DEF Init, IInv, TypeOK, InBounds, Written

LEMMA NextIInv == IInv /\ [Next]_vars => IInv'
<1> SUFFICES ASSUME IInv, [Next]_vars PROVE IInv'
  OBVIOUS
<1> USE QueueAssumption
<1>1. ASSUME NEW e \in Values, push_back(e) PROVE IInv'
  <2>1. CASE PushFull(e)
    <3>1. /\ Doubled \in Nat
          /\ Doubled > maxsize
      BY DEF IInv, TypeOK, Doubled
    <3>2. Realloc(Doubled) \in [0..(Doubled - 1) -> Values \cup {Zero}]
      BY <3>1 DEF IInv, TypeOK, Realloc
    <3> QED
      BY <1>1, <2>1, <3>1, <3>2 DEF IInv, TypeOK, InBounds, Written, push_back, PushFull,
         Realloc
  <2>2. CASE PushMoved(e)
    <3>1. Moved \in [0..(maxsize - 1) -> Values \cup {Zero}]
      BY <2>2 DEF IInv, TypeOK, InBounds, Moved
    <3> QED
      BY <1>1, <2>2, <3>1 DEF IInv, TypeOK, InBounds, Written, push_back, PushMoved,
         Moved
  <2>3. CASE PushInPlace(e)
    BY <1>1, <2>3 DEF IInv, TypeOK, InBounds, Written, push_back, PushInPlace
  <2> QED
    BY <1>1, <2>1, <2>2, <2>3 DEF push_back
<1>2. CASE pop_front
  BY <1>2 DEF IInv, TypeOK, InBounds, Written, pop_front
<1>3. CASE pop_back
  BY <1>3 DEF IInv, TypeOK, InBounds, Written, pop_back
<1>4. CASE clear
  BY <1>4 DEF IInv, TypeOK, InBounds, Written, clear
<1>5. CASE cleanup
  BY <1>5 DEF IInv, TypeOK, InBounds, Written, cleanup
<1>6. CASE UNCHANGED vars
  BY <1>6 DEF IInv, TypeOK, InBounds, Written, vars
<1> QED
  BY <1>1, <1>2, <1>3, <1>4, <1>5, <1>6 DEF Next

LEMMA AlwaysIInv == Spec => []IInv
BY InitIInv, NextIInv, PTL DEF Spec

\* The fields of the struct keep their types in every operation of queue.h.
THEOREM TypeCorrect == Spec => []TypeOK
<1>1. IInv => TypeOK
  BY DEF IInv
<1> QED
  BY <1>1, AlwaysIInv, PTL

\* push_back never writes beyond the array and doubles only a queue that
\* starts at its first cell.
THEOREM StaysInBounds == Spec => []InBounds
<1>1. IInv => InBounds
  BY DEF IInv
<1> QED
  BY <1>1, AlwaysIInv, PTL

-----------------------------------------------------------------------------
(***************************************************************************)
(* The refinement: contents goes through the steps of a FIFO queue.        *)
(***************************************************************************)
LEMMA WindowType ==
  ASSUME NEW p, NEW o \in Nat, NEW n \in Nat,
         \A i \in o..(o + n - 1) : p[i] \in Values
  PROVE  /\ Window(p, o, n) \in Seq(Values)
         /\ Len(Window(p, o, n)) = n
         /\ \A i \in 1..n : Window(p, o, n)[i] = p[o + i - 1]
<1>1. \A i \in 1..n : p[o + i - 1] \in Values
  OBVIOUS
<1> QED
  BY <1>1 DEF Window

\* The n + 1 cells of p2 from o2 are the n cells of p from o and then e.
Grown(p, o, n, p2, o2, e) ==
  /\ o \in Nat /\ n \in Nat /\ o2 \in Nat /\ e \in Values
  /\ \A i \in o..(o + n - 1) : p[i] \in Values
  /\ \A i \in 0..(n - 1) : p2[o2 + i] = p[o + i]
  /\ p2[o2 + n] = e

LEMMA WindowAppend ==
  ASSUME NEW p, NEW o, NEW n, NEW p2, NEW o2, NEW e, Grown(p, o, n, p2, o2, e)
  PROVE  Window(p2, o2, n + 1) = Append(Window(p, o, n), e)
<1> USE DEF Grown
<1> DEFINE s == Window(p, o, n)
           t == Window(p2, o2, n + 1)
<1>1. \A i \in o2..(o2 + (n + 1) - 1) : p2[i] \in Values
  <2> SUFFICES ASSUME NEW i \in o2..(o2 + n) PROVE p2[i] \in Values
    OBVIOUS
  <2>1. CASE i = o2 + n
    BY <2>1
  <2>2. CASE i # o2 + n
    <3>1. i - o2 \in 0..(n - 1) /\ o2 + (i - o2) = i /\ o + (i - o2) \in o..(o + n - 1)
      BY <2>2
    <3>2. p2[o2 + (i - o2)] = p[o + (i - o2)]
      BY <3>1
    <3> QED
      BY <3>1, <3>2
  <2> QED
    BY <2>1, <2>2
<1>2. /\ s \in Seq(Values) /\ Len(s) = n
      /\ \A i \in 1..n : s[i] = p[o + i - 1]
  BY WindowType
<1>3. /\ t \in Seq(Values) /\ Len(t) = n + 1
      /\ \A i \in 1..(n + 1) : t[i] = p2[o2 + i - 1]
  BY <1>1, WindowType
<1>4. \A i \in 1..n : t[i] = s[i]
  <2> SUFFICES ASSUME NEW i \in 1..n PROVE t[i] = s[i]
    OBVIOUS
  <2>1. p2[o2 + (i - 1)] = p[o + (i - 1)]
    OBVIOUS
  <2>2. o2 + (i - 1) = o2 + i - 1 /\ o + (i - 1) = o + i - 1
    OBVIOUS
  <2> HIDE DEF s, t
  <2> QED
    BY <2>1, <2>2, <1>2, <1>3
<1>5. t[n + 1] = e
  <2> HIDE DEF s, t
  <2> QED
    BY <1>3
<1> HIDE DEF s, t
<1>6. t = Append(s, e)
  BY <1>2, <1>3, <1>4, <1>5
<1> QED
  BY <1>6 DEF s, t

LEMMA WindowTail ==
  ASSUME NEW p, NEW o \in Nat, NEW n \in Nat \ {0}, NEW o2 \in Nat,
         \A i \in o..(o + n - 1) : p[i] \in Values,
         o2 = o + 1 \/ n = 1
  PROVE  Window(p, o2, n - 1) = Tail(Window(p, o, n))
<1> DEFINE s == Window(p, o, n)
           t == Window(p, o2, n - 1)
<1>1. \A i \in o2..(o2 + (n - 1) - 1) : p[i] \in Values
  OBVIOUS
<1>2. /\ s \in Seq(Values) /\ Len(s) = n
      /\ \A i \in 1..n : s[i] = p[o + i - 1]
  BY WindowType
<1>3. /\ t \in Seq(Values) /\ Len(t) = n - 1
      /\ \A i \in 1..(n - 1) : t[i] = p[o2 + i - 1]
  <2>1. n - 1 \in Nat
    OBVIOUS
  <2> QED
    BY <1>1, <2>1, WindowType
<1> HIDE DEF s, t
<1>4. \A i \in 1..(n - 1) : t[i] = s[i + 1]
  <2> SUFFICES ASSUME NEW i \in 1..(n - 1) PROVE t[i] = s[i + 1]
    OBVIOUS
  <2>1. o2 + i - 1 = o + (i + 1) - 1 /\ i + 1 \in 1..n
    OBVIOUS
  <2> QED
    BY <2>1, <1>2, <1>3
<1>5. t = Tail(s)
  BY <1>2, <1>3, <1>4
<1> QED
  BY <1>5 DEF s, t

LEMMA EmptyWindow ==
  ASSUME NEW p, NEW o
  PROVE  Window(p, o, 0) = <<>>
BY DEF Window

LEMMA ContentsEmpty ==
  ASSUME IInv
  PROVE  contents = <<>> <=> size = 0
<1>1. Len(contents) = size /\ contents \in Seq(Values)
  BY WindowType DEF IInv, TypeOK, Written, contents
<1> QED
  BY <1>1 DEF IInv, TypeOK

\* Each of the three ways to make room for an element appends it.
LEMMA PushRefines ==
  ASSUME IInv, NEW e \in Values, push_back(e)
  PROVE  contents' = Append(contents, e)
<1>1. /\ offset \in Nat /\ size \in Nat /\ maxsize \in Nat
      /\ offset + size <= maxsize
      /\ \A i \in offset..(offset + size - 1) : ptr[i] \in Values
      /\ ptr \in [0..(maxsize - 1) -> Values \cup {Zero}]
  BY DEF IInv, TypeOK, InBounds, Written
<1>2. /\ offset' \in Nat
      /\ \A i \in 0..(size - 1) : ptr'[offset' + i] = ptr[offset + i]
      /\ ptr'[offset' + size] = e
  <2>1. CASE PushFull(e)
    <3>1. Doubled \in Nat /\ Doubled > maxsize
      BY <1>1, QueueAssumption DEF Doubled
    <3> QED
      BY <1>1, <2>1, <3>1 DEF PushFull, Realloc
  <2>2. CASE PushMoved(e)
    BY <1>1, <2>2 DEF PushMoved, Moved
  <2>3. CASE PushInPlace(e)
    BY <1>1, <2>3 DEF PushInPlace
  <2> QED
    BY <2>1, <2>2, <2>3 DEF push_back
<1>3. Grown(ptr, offset, size, ptr', offset', e)
  BY <1>1, <1>2 DEF Grown
<1>4. Window(ptr', offset', size + 1) = Append(Window(ptr, offset, size), e)
  BY <1>3, WindowAppend
<1> QED
  BY <1>4 DEF contents, push_back

LEMMA PopFrontRefines ==
  ASSUME IInv, pop_front
  PROVE  contents' = Tail(contents)
<1>1. /\ offset \in Nat /\ size \in Nat \ {0}
      /\ \A i \in offset..(offset + size - 1) : ptr[i] \in Values
  BY DEF IInv, TypeOK, Written, pop_front
<1>2. /\ offset' \in Nat
      /\ offset' = offset + 1 \/ size = 1
  BY DEF IInv, TypeOK, InBounds, pop_front
<1>3. Window(ptr, offset', size - 1) = Tail(Window(ptr, offset, size))
  BY <1>1, <1>2, WindowTail
<1> QED
  BY <1>3 DEF contents, pop_front

LEMMA PopBackRefines ==
  ASSUME IInv, pop_back
  PROVE  \E e \in Values : contents = Append(contents', e)
<1> DEFINE n == size - 1
           e == ptr[offset + n]
<1>1. /\ offset \in Nat /\ n \in Nat /\ n + 1 = size
      /\ \A i \in offset..(offset + n - 1) : ptr[i] \in Values
      /\ e \in Values
  BY DEF IInv, TypeOK, Written, pop_back
<1>2. Grown(ptr, offset, n, ptr, offset, e)
  BY <1>1 DEF Grown
<1> HIDE DEF n, e
<1>3. Window(ptr, offset, n + 1) = Append(Window(ptr, offset, n), e)
  BY <1>2, WindowAppend
<1>4. contents' = Window(ptr, offset, n) /\ contents = Window(ptr, offset, n + 1)
  BY <1>1 DEF contents, pop_back, n
<1> QED
  BY <1>1, <1>3, <1>4

\* The array queue of queue.h, with its moves and doublings, implements the
\* abstract FIFO queue.
THEOREM ImplementsFifo == Spec => Refines
<1>1. Init => Abstract!Init
  BY EmptyWindow DEF Init, Abstract!Init, contents
<1>2. IInv /\ [Next]_vars => [Abstract!Next]_contents
  <2> SUFFICES ASSUME IInv, [Next]_vars PROVE [Abstract!Next]_contents
    OBVIOUS
  <2>1. ASSUME NEW e \in Values, push_back(e) PROVE Abstract!Next
    BY <2>1, PushRefines DEF Abstract!Next, Abstract!Push
  <2>2. CASE pop_front
    <3>1. contents # <<>>
      BY <2>2, ContentsEmpty DEF pop_front, IInv, TypeOK
    <3> QED
      BY <2>2, <3>1, PopFrontRefines DEF Abstract!Next, Abstract!PopFront
  <2>3. CASE pop_back
    <3>1. contents # <<>>
      BY <2>3, ContentsEmpty DEF pop_back, IInv, TypeOK
    <3> QED
      BY <2>3, <3>1, PopBackRefines DEF Abstract!Next, Abstract!PopBack
  <2>4. CASE clear \/ cleanup
    BY <2>4, EmptyWindow DEF Abstract!Next, Abstract!Clear, clear, cleanup, contents
  <2>5. CASE UNCHANGED vars
    BY <2>5 DEF vars, contents
  <2> QED
    BY <2>1, <2>2, <2>3, <2>4, <2>5 DEF Next
<1> QED
  BY <1>1, <1>2, AlwaysIInv, PTL DEF Spec, Refines, Abstract!Spec
-----------------------------------------------------------------------------
(***************************************************************************)
(* The heap. CompleteTree is not inductive: the invariant follows a call   *)
(* through its loops. Call says what the path and the walk have reached,   *)
(* Ordered which pairs of neighbours a node that is being sifted may still *)
(* disturb.                                                                *)
(***************************************************************************)
HeapTypes ==
    /\ root \in Nodes \cup {NULL} /\ nelts \in Nat
    /\ parent \in [Nodes -> Nodes \cup {NULL}]
    /\ left \in [Nodes -> Nodes \cup {NULL}]
    /\ right \in [Nodes -> Nodes \cup {NULL}]
    /\ key \in [Nodes -> Nat]
    /\ place \in Seq(Nodes)

\* The place that is being linked or unlinked.
Goal == IF op = "insert" THEN Len(place) + 1 ELSE Len(place)

\* path holds the places on the way from Goal up, rest the next one.
PathInv ==
    /\ path \in Seq(Nat)
    /\ path # <<>> => path[1] = Goal
    /\ \A i \in 1..Len(path) : path[i] \in 2..Goal
    /\ \A i \in 1..(Len(path) - 1) : path[i + 1] = path[i] \div 2

Searching ==
    /\ op \in {"insert", "remove", "reset"} /\ node \in Nodes
    /\ op = "insert" => node \notin members /\ nelts = Len(place) + 1
    /\ op # "insert" => node \in members /\ nelts = Len(place) - 1
    /\ PathInv

Call ==
    /\ pc \in {"idle", "again", "path", "walk", "down", "up"}
    /\ pc \in {"path", "walk"} => Searching
    /\ pc = "path" => rest \in Nat \ {0}
                      /\ rest = IF path = <<>> THEN Goal ELSE path[Len(path)] \div 2
    /\ pc = "walk" /\ path = <<>> => Goal = 1 /\ cur = root
    /\ pc = "walk" /\ path # <<>> => cur = Node(path[Len(path)] \div 2)
    /\ pc \in {"down", "up"} =>
         /\ v \in Nodes
         /\ v \notin members => parent[v] = NULL /\ left[v] = NULL /\ right[v] = NULL
         /\ op = "reset" => node \in Nodes \ members
    /\ pc = "again" => node \in Nodes \ members

\* Neighbours are in order, except where v is being sifted; there the order
\* holds across v.
Ordered ==
    \A k \in 2..Len(place) :
      /\ \/ pc \in {"up", "down"} /\ place[k] = v
         \/ pc = "down" /\ place[k \div 2] = v
         \/ key[place[k \div 2]] <= key[place[k]]
      /\ pc \in {"up", "down"} /\ place[k \div 2] = v /\ k \div 2 >= 2 =>
           key[place[(k \div 2) \div 2]] <= key[place[k]]

HeapInv == HeapTypes /\ CompleteTree /\ Call /\ Ordered

\* The place above k is k \div 2, and the places below i are 2i and 2i + 1.
LEMMA Half ==
    /\ \A k \in Nat \ {0} : /\ k \div 2 \in Nat /\ k \div 2 < k
                            /\ k = 2 * (k \div 2) \/ k = 2 * (k \div 2) + 1
                            /\ k % 2 = 1 <=> k = 2 * (k \div 2) + 1
                            /\ k >= 2 => k \div 2 >= 1
    /\ \A i \in Nat : (2 * i) \div 2 = i /\ (2 * i + 1) \div 2 = i
  OBVIOUS

LEMMA LeqTransitive == \A a, b, c \in Nat : a <= b /\ b <= c => a <= c
  OBVIOUS

\* The node at a place is NULL beyond the last place and no other node's.
LEMMA NodeFacts ==
    ASSUME HeapTypes, CompleteTree
    PROVE  /\ Len(place) \in Nat
           /\ \A k \in 1..Len(place) : Node(k) = place[k] /\ place[k] \in Nodes /\ place[k] # NULL
           /\ \A k \in Nat : k \notin 1..Len(place) => Node(k) = NULL
           /\ \A i, j \in Nat : Node(i) = Node(j) /\ Node(i) # NULL => i = j
           /\ \A m \in Nodes : m \in members <=> \E k \in 1..Len(place) : place[k] = m
  <1>1. Len(place) \in Nat /\ \A k \in 1..Len(place) : place[k] \in Nodes
    BY DEF HeapTypes
  <1>2. \A k \in 1..Len(place) : Node(k) = place[k] /\ place[k] # NULL
    BY <1>1, HeapAssumption DEF Node
  <1>3. \A k \in Nat : k \notin 1..Len(place) => Node(k) = NULL
    BY DEF Node
  <1>4. \A i, j \in Nat : Node(i) = Node(j) /\ Node(i) # NULL => i = j
    <2> SUFFICES ASSUME NEW i \in Nat, NEW j \in Nat, Node(i) = Node(j), Node(i) # NULL
                 PROVE  i = j
      OBVIOUS
    <2>1. i \in 1..Len(place) /\ j \in 1..Len(place)
      BY <1>3
    <2>2. place[i] = place[j]
      BY <1>2, <2>1
    <2> QED
      BY <2>1, <2>2 DEF CompleteTree
  <1> QED
    BY <1>1, <1>2, <1>3, <1>4 DEF members

\* The pointers of a node at a place.
LEMMA LinkFacts ==
    ASSUME HeapTypes, CompleteTree, NEW k \in 1..Len(place)
    PROVE  /\ parent[place[k]] = Node(k \div 2)
           /\ left[place[k]] = Node(2 * k)
           /\ right[place[k]] = Node(2 * k + 1)
  BY DEF CompleteTree

\* heap_swap exchanges the nodes at two neighbouring places, and nothing else.
LEMMA SwapPlaces ==
    ASSUME HeapTypes, CompleteTree, NEW i \in 1..Len(place), NEW j \in 1..Len(place),
           j \div 2 = i, heap_swap(place[i], place[j])
    PROVE  /\ place' \in Seq(Nodes) /\ Len(place') = Len(place)
           /\ place'[i] = place[j] /\ place'[j] = place[i] /\ i # j
           /\ \A k \in 1..Len(place) : k # i /\ k # j => place'[k] = place[k]
           /\ members' = members
           /\ \A m \in Nat : Node(m)' = IF m = i THEN place[j]
                                        ELSE IF m = j THEN place[i] ELSE Node(m)
  <1> DEFINE p == place[i]
             c == place[j]
             n == Len(place)
  <1>1. /\ place' = [k \in 1..n |->
                       IF place[k] = p THEN c ELSE IF place[k] = c THEN p ELSE place[k]]
        /\ n \in Nat /\ place \in Seq(Nodes) /\ \A k \in 1..n : place[k] \in Nodes
    BY DEF heap_swap, HeapTypes
  <1>2. i # j /\ i \in Nat /\ j \in Nat
    BY <1>1, Half
  <1>3. place' \in Seq(Nodes) /\ Len(place') = n
    BY <1>1
  <1>4. /\ place'[i] = c /\ place'[j] = p
        /\ \A k \in 1..n : k # i /\ k # j => place'[k] = place[k]
    <2>1. \A k \in 1..n : (place[k] = p => k = i) /\ (place[k] = c => k = j)
      BY DEF CompleteTree
    <2> QED
      BY <1>1, <1>2, <2>1
  <1>5. members' = members
    <2>1. \A k \in 1..n : \E l \in 1..n : place'[k] = place[l]
      BY <1>4
    <2>2. \A k \in 1..n : \E l \in 1..n : place[k] = place'[l]
      BY <1>4
    <2>3. members' = {place'[k] : k \in 1..n}
      BY <1>3 DEF members
    <2>4. members = {place[k] : k \in 1..n}
      BY DEF members
    <2>5. ASSUME NEW x \in members' PROVE x \in members
      <3>1. PICK k \in 1..n : x = place'[k]
        BY <2>3, <2>5
      <3> QED
        BY <2>1, <2>4, <3>1
    <2>6. ASSUME NEW x \in members PROVE x \in members'
      <3>1. PICK k \in 1..n : x = place[k]
        BY <2>4, <2>6
      <3> QED
        BY <2>2, <2>3, <3>1
    <2> QED
      BY <2>5, <2>6
  <1>6. \A m \in Nat : Node(m)' = IF m = i THEN c ELSE IF m = j THEN p ELSE Node(m)
    <2>1. \A m : Node(m)' = IF m \in 1..n THEN place'[m] ELSE NULL
      BY <1>3 DEF Node
    <2>2. ASSUME NEW m \in Nat, m \in 1..n
          PROVE  Node(m)' = IF m = i THEN c ELSE IF m = j THEN p ELSE Node(m)
      <3>1. Node(m)' = place'[m] /\ Node(m) = place[m]
        BY <2>1, <2>2 DEF Node
      <3> QED
        BY <1>4, <2>2, <3>1
    <2>3. ASSUME NEW m \in Nat, m \notin 1..n
          PROVE  Node(m)' = IF m = i THEN c ELSE IF m = j THEN p ELSE Node(m)
      <3>1. Node(m)' = NULL /\ Node(m) = NULL /\ m # i /\ m # j
        BY <2>1, <2>3 DEF Node
      <3> QED
        BY <3>1
    <2> QED
      BY <2>2, <2>3
  <1> QED
    BY <1>2, <1>3, <1>4, <1>5, <1>6

\* heap_swap of two neighbours keeps the complete tree.
LEMMA SwapTree ==
    ASSUME HeapTypes, CompleteTree, NEW i \in 1..Len(place), NEW j \in 1..Len(place),
           j \div 2 = i, heap_swap(place[i], place[j]), UNCHANGED <<nelts, key, pc>>
    PROVE  HeapTypes' /\ CompleteTree'
  <1> DEFINE p == place[i]
             c == place[j]
             n == Len(place)
             pp == Node(i \div 2)
             isleft == left[p] = c
             sib == IF isleft THEN right[p] ELSE left[p]
             N2(m) == IF m = i THEN c ELSE IF m = j THEN p ELSE Node(m)
  <1>1. /\ place' \in Seq(Nodes) /\ Len(place') = n
        /\ place'[i] = c /\ place'[j] = p /\ i # j
        /\ \A k \in 1..n : k # i /\ k # j => place'[k] = place[k]
        /\ members' = members
        /\ \A m \in Nat : Node(m)' = N2(m)
    BY SwapPlaces
  <1>2. /\ n \in Nat /\ i \in Nat \ {0} /\ j \in Nat \ {0}
        /\ (j = 2 * i \/ j = 2 * i + 1)
        /\ i \div 2 \in Nat /\ i \div 2 < i
        /\ (i = 2 * (i \div 2) \/ i = 2 * (i \div 2) + 1)
        /\ p \in Nodes /\ c \in Nodes /\ p # NULL /\ c # NULL /\ p # c
    <2>1. n \in Nat /\ i \in Nat \ {0} /\ j \in Nat \ {0}
      BY NodeFacts
    <2> QED
      BY <1>1, <2>1, NodeFacts, Half DEF CompleteTree
  <1>3. /\ parent[p] = pp /\ left[p] = Node(2 * i) /\ right[p] = Node(2 * i + 1)
        /\ left[c] = Node(2 * j) /\ right[c] = Node(2 * j + 1)
    BY LinkFacts
  <1>4. isleft <=> j = 2 * i
    <2>1. Node(j) = c /\ Node(2 * i) = c => 2 * i = j
      BY <1>2, NodeFacts
    <2> QED
      BY <1>2, <1>3, <2>1, NodeFacts
  <1>5. sib = IF j = 2 * i THEN Node(2 * i + 1) ELSE Node(2 * i)
    BY <1>3, <1>4
  <1>6. pp = NULL \/ (i \div 2 \in 1..n /\ pp = place[i \div 2] /\ pp # p /\ pp # c /\ pp \in Nodes)
    <2>1. CASE i \div 2 \in 1..n
      <3>1. i \div 2 # i /\ i \div 2 # j
        BY <1>2
      <3>2. pp = place[i \div 2] /\ pp \in Nodes
        BY <2>1, NodeFacts
      <3> QED
        BY <2>1, <3>1, <3>2 DEF CompleteTree
    <2>2. CASE i \div 2 \notin 1..n
      BY <1>2, <2>2, NodeFacts
    <2> QED
      BY <2>1, <2>2
  <1>7. /\ root' = RootTo(pp, c)
        /\ parent' = [Put(Put(Put(parent, left[c], p), right[c], p), sib, c)
                        EXCEPT ![c] = pp, ![p] = c]
        /\ left' = [LeftTo(left, pp, p, c)
                      EXCEPT ![c] = IF isleft THEN p ELSE sib, ![p] = left[c]]
        /\ right' = [RightTo(left, right, pp, p, c)
                       EXCEPT ![c] = IF isleft THEN sib ELSE p, ![p] = right[c]]
    BY <1>3 DEF heap_swap, SwapParents
  <1>8. \A m \in Nat : Node(m) \in Nodes \cup {NULL}
    BY NodeFacts
  <1> HIDE DEF p, c, pp, isleft, sib, N2, n
  <1>9a. /\ left \in [Nodes -> Nodes \cup {NULL}]
         /\ right \in [Nodes -> Nodes \cup {NULL}]
         /\ sib \in Nodes \cup {NULL}
    BY <1>2, <1>5, <1>8 DEF HeapTypes
  <1>9. /\ left' \in [Nodes -> Nodes \cup {NULL}]
        /\ left'[c] = IF isleft THEN p ELSE sib
        /\ left'[p] = left[c]
        /\ \A x \in Nodes \ {p, c} : left'[x] = IF x = pp /\ left[x] = p THEN c ELSE left[x]
    BY <1>2, <1>5, <1>6, <1>7, <1>8, <1>9a, HeapAssumption DEF LeftTo
  <1>10. /\ right' \in [Nodes -> Nodes \cup {NULL}]
         /\ right'[c] = IF isleft THEN sib ELSE p
         /\ right'[p] = right[c]
         /\ \A x \in Nodes \ {p, c} :
               right'[x] = IF x = pp /\ left[x] # p /\ right[x] = p THEN c ELSE right[x]
    BY <1>2, <1>5, <1>6, <1>7, <1>8, <1>9a, HeapAssumption DEF RightTo
  <1>11. /\ parent' \in [Nodes -> Nodes \cup {NULL}]
         /\ parent'[c] = pp
         /\ parent'[p] = c
         /\ \A x \in Nodes \ {p, c} :
               parent'[x] = IF x = sib THEN c
                            ELSE IF x = left[c] \/ x = right[c] THEN p ELSE parent[x]
    BY <1>2, <1>3, <1>5, <1>6, <1>7, <1>8, HeapAssumption DEF Put, HeapTypes
  <1>12. /\ \A x, y \in 1..n : place[x] = place[y] => x = y
         /\ \A x \in 1..n : place[x] \in Nodes /\ Node(x) = place[x] /\ place[x] # NULL
         /\ place[i] = p /\ place[j] = c /\ i \in 1..n /\ j \in 1..n
         /\ \A x \in 1..n : /\ parent[place[x]] = Node(x \div 2)
                            /\ left[place[x]] = Node(2 * x)
                            /\ right[place[x]] = Node(2 * x + 1)
         /\ \A x, y \in Nat : Node(x) = Node(y) /\ Node(x) # NULL => x = y
    BY NodeFacts, LinkFacts DEF CompleteTree, n, p, c
  <1>12a. \A x \in Nat, y \in 1..n : place[y] = Node(x) <=> x = y
    <2> SUFFICES ASSUME NEW x \in Nat, NEW y \in 1..n, place[y] = Node(x) PROVE x = y
      BY <1>12
    <2>0. y \in Nat
      BY <1>2
    <2>1. Node(y) = place[y] /\ place[y] # NULL /\ y \in Nat
      BY <1>12, <2>0
    <2> QED
      BY <1>12, <2>1
  <1>12b. /\ \A k \in 1..n : k \in Nat \ {0}
          /\ \A k \in Nat : 2 * k \in Nat /\ 2 * k + 1 \in Nat
          /\ \A k \in Nat : k # i => 2 * k # j /\ 2 * k + 1 # j
          /\ \A k \in Nat : k # i \div 2 => 2 * k # i /\ 2 * k + 1 # i
    BY <1>2
  <1>12c. \A k \in 1..n : k # i /\ k # j => place[k] # p /\ place[k] # c
    BY <1>12
  <1>13. ASSUME NEW k \in 1..n
         PROVE  /\ left'[place'[k]] = N2(2 * k)
                /\ right'[place'[k]] = N2(2 * k + 1)
    <2>1. CASE k = i
      <3>1. place'[k] = c /\ 2 * i # i /\ 2 * i + 1 # i
        BY <1>1, <1>2, <2>1
      <3> QED
        BY <1>2, <1>4, <1>5, <1>9, <1>10, <2>1, <3>1 DEF N2
    <2>2. CASE k = j
      <3>1. place'[k] = p
        BY <1>1, <2>2
      <3>2. 2 * j # i /\ 2 * j + 1 # i /\ 2 * j # j /\ 2 * j + 1 # j
        BY <1>2
      <3> QED
        BY <1>2, <1>3, <1>9, <1>10, <2>2, <3>1, <3>2 DEF N2
    <2>3. CASE k # i /\ k # j
      <3>1. /\ place'[k] = place[k] /\ place[k] \in Nodes \ {p, c} /\ k \in Nat
            /\ left[place[k]] = Node(2 * k) /\ right[place[k]] = Node(2 * k + 1)
        BY <1>1, <1>12, <1>12b, <1>12c, <2>3
      <3>1a. 2 * k # j /\ 2 * k + 1 # j /\ 2 * k \in Nat /\ 2 * k + 1 \in Nat
        BY <1>12b, <2>3, <3>1
      <3>2. place[k] = pp <=> k = i \div 2
        BY <1>2, <1>12a DEF pp
      <3>3. /\ Node(2 * k) = p <=> 2 * k = i
            /\ Node(2 * k + 1) = p <=> 2 * k + 1 = i
        BY <1>12, <1>12a, <3>1a
      <3>4. CASE k = i \div 2
        <4>1. (2 * k = i \/ 2 * k + 1 = i) /\ 2 * k # 2 * k + 1
          BY <1>2, <3>4
        <4>2. CASE 2 * k = i
          <5>1. 2 * k + 1 # i
            BY <1>2, <3>1, <4>2
          <5> QED
            BY <1>9, <1>10, <3>1, <3>1a, <3>2, <3>3, <3>4, <4>2, <5>1 DEF N2
        <4>3. CASE 2 * k # i
          BY <1>9, <1>10, <3>1, <3>1a, <3>2, <3>3, <3>4, <4>1, <4>3 DEF N2
        <4> QED
          BY <4>2, <4>3
      <3>5. CASE k # i \div 2
        <4>1. 2 * k # i /\ 2 * k + 1 # i
          BY <1>12b, <3>1, <3>5
        <4> QED
          BY <1>9, <1>10, <3>1, <3>1a, <3>2, <3>5, <4>1 DEF N2
      <3> QED
        BY <3>4, <3>5
    <2> QED
      BY <2>1, <2>2, <2>3
  <1>14. ASSUME NEW k \in 1..n
         PROVE  parent'[place'[k]] = N2(k \div 2)
    <2>0. k \in Nat \ {0} /\ k \div 2 \in Nat /\ (k = 2 * (k \div 2) \/ k = 2 * (k \div 2) + 1)
      BY <1>2, Half
    <2>1. CASE k = i
      BY <1>1, <1>2, <1>11, <2>1, Half DEF N2, pp
    <2>2. CASE k = j
      BY <1>1, <1>2, <1>11, <2>2, Half DEF N2
    <2>3. CASE k # i /\ k # j
      <3>1. /\ place'[k] = place[k] /\ place[k] \in Nodes \ {p, c} /\ place[k] # NULL
            /\ parent[place[k]] = Node(k \div 2) /\ Node(k) = place[k]
        <4>1. place'[k] = place[k] /\ place[k] # p /\ place[k] # c
          BY <1>1, <1>12c, <2>3
        <4>2. /\ place[k] \in Nodes /\ place[k] # NULL
              /\ parent[place[k]] = Node(k \div 2) /\ Node(k) = place[k]
          BY <1>12
        <4> QED
          BY <4>1, <4>2
      <3>2. place[k] = sib <=> k \div 2 = i
        <4>1. place[k] = sib <=> k = IF j = 2 * i THEN 2 * i + 1 ELSE 2 * i
          <5>1. 2 * i + 1 \in Nat /\ 2 * i \in Nat
            BY <1>2
          <5>2. (place[k] = Node(2 * i) <=> k = 2 * i) /\ (place[k] = Node(2 * i + 1) <=> k = 2 * i + 1)
            BY <1>12a, <5>1
          <5> QED
            BY <1>5, <5>2
        <4> QED
          BY <1>2, <2>0, <2>3, <4>1
      <3>3. place[k] = left[c] \/ place[k] = right[c] <=> k \div 2 = j
        <4>0. 2 * j \in Nat /\ 2 * j + 1 \in Nat /\ k \in Nat
          BY <1>2, <2>0
        <4>1. place[k] = left[c] <=> k = 2 * j
          BY <1>3, <1>12a, <4>0
        <4>2. place[k] = right[c] <=> k = 2 * j + 1
          BY <1>3, <1>12a, <4>0
        <4> QED
          BY <1>2, <2>0, <4>1, <4>2
      <3> QED
        BY <1>1, <1>11, <3>1, <3>2, <3>3 DEF N2
    <2> QED
      BY <2>1, <2>2, <2>3
  <1>15. \A m \in Nodes \ members' : left'[m] = NULL /\ right'[m] = NULL
    <2> SUFFICES ASSUME NEW m \in Nodes \ members PROVE left'[m] = NULL /\ right'[m] = NULL
      BY <1>1
    <2>1. left[m] = NULL /\ right[m] = NULL
      BY DEF CompleteTree
    <2>2. m # p /\ m # c
      BY <1>12 DEF members, n
    <2> QED
      BY <1>2, <1>9, <1>10, <2>1, <2>2
  <1>16. root' = N2(1)
    <2>1. CASE i = 1
      <3>1. pp = NULL
        BY <2>1, NodeFacts DEF pp
      <3> QED
        BY <1>7, <2>1, <3>1 DEF RootTo, N2
    <2>2. CASE i # 1
      <3>0. i \div 2 \in 1..n /\ 1 # j
        BY <1>2, <1>12, <2>2
      <3>1. 1 # j /\ pp # NULL
        BY <1>12, <3>0 DEF pp
      <3>2. root = Node(1)
        BY DEF CompleteTree
      <3> QED
        BY <1>7, <2>2, <3>1, <3>2 DEF RootTo, N2
    <2> QED
      BY <2>1, <2>2
  <1>17. \A x, y \in 1..n : place'[x] = place'[y] => x = y
    <2> SUFFICES ASSUME NEW x \in 1..n, NEW y \in 1..n, place'[x] = place'[y] PROVE x = y
      OBVIOUS
    <2>1. CASE x = i
      BY <1>1, <1>2, <1>12c, <2>1
    <2>2. CASE x = j
      BY <1>1, <1>2, <1>12c, <2>2
    <2>3. CASE x # i /\ x # j
      <3>1. place'[x] = place[x] /\ place[x] # p /\ place[x] # c
        BY <1>1, <1>12c, <2>3
      <3>2. y # i /\ y # j
        BY <1>1, <3>1
      <3>3. place'[y] = place[y]
        BY <1>1, <3>2
      <3> QED
        <4>1. place[x] = place[y]
          BY <3>1, <3>3
        <4> QED
          BY <1>12, <4>1
    <2> QED
      BY <2>1, <2>2, <2>3
  <1>18. \A k \in 1..n : k \div 2 \in Nat /\ 2 * k \in Nat /\ 2 * k + 1 \in Nat
    BY <1>2, Half
  <1>19. CompleteTree'
    <2>1. pc \notin {"path", "walk"} => nelts = n
      BY DEF CompleteTree, n
    <2>2. \A k \in 1..n : /\ parent'[place'[k]] = Node(k \div 2)'
                          /\ left'[place'[k]] = Node(2 * k)'
                          /\ right'[place'[k]] = Node(2 * k + 1)'
      BY <1>1, <1>13, <1>14, <1>18
    <2>3. root' = Node(1)'
      BY <1>1, <1>16
    <2> QED
      BY <1>1, <1>15, <1>17, <2>1, <2>2, <2>3 DEF CompleteTree
  <1>20. HeapTypes'
    <2>1. root' \in Nodes \cup {NULL}
      BY <1>2, <1>7 DEF RootTo, HeapTypes
    <2> QED
      BY <1>1, <1>9, <1>10, <1>11, <2>1 DEF HeapTypes
  <1> QED
    BY <1>19, <1>20

\* Every place but the first has one above it.
LEMMA Upper ==
    ASSUME HeapTypes, CompleteTree
    PROVE  \A k \in 2..Len(place) :
             /\ k \in 1..Len(place) /\ k \div 2 \in 1..Len(place) /\ k \div 2 < k
             /\ k = 2 * (k \div 2) \/ k = 2 * (k \div 2) + 1
             /\ place[k] \in Nodes /\ place[k \div 2] \in Nodes
             /\ place[k] # place[k \div 2] /\ place[k \div 2] # NULL
             /\ parent[place[k]] = place[k \div 2]
  <1> SUFFICES ASSUME NEW k \in 2..Len(place)
               PROVE  /\ k \in 1..Len(place) /\ k \div 2 \in 1..Len(place) /\ k \div 2 < k
                      /\ k = 2 * (k \div 2) \/ k = 2 * (k \div 2) + 1
                      /\ place[k] \in Nodes /\ place[k \div 2] \in Nodes
                      /\ place[k] # place[k \div 2] /\ place[k \div 2] # NULL
                      /\ parent[place[k]] = place[k \div 2]
    OBVIOUS
  <1>1. /\ k \in 1..Len(place) /\ k \div 2 \in 1..Len(place) /\ k \div 2 < k /\ k \div 2 # k
        /\ k = 2 * (k \div 2) \/ k = 2 * (k \div 2) + 1
    BY NodeFacts, Half
  <1>2. parent[place[k]] = Node(k \div 2) /\ Node(k \div 2) = place[k \div 2]
    BY <1>1, LinkFacts, NodeFacts
  <1> QED
    BY <1>1, <1>2, NodeFacts DEF CompleteTree

\* A step that leaves the pointers and the places alone leaves the tree alone.
LEMMA SameTree ==
    ASSUME HeapTypes, CompleteTree, UNCHANGED <<root, parent, left, right, place>>,
           pc' \notin {"path", "walk"} => nelts' = Len(place)
    PROVE  /\ CompleteTree' /\ members' = members
           /\ \A k : Node(k)' = Node(k)
  <1>1. members' = members /\ \A k : Node(k)' = Node(k)
    BY DEF members, Node
  <1> QED
    BY <1>1 DEF CompleteTree

\* heap_insert begins; the new node is still outside, so only nelts is ahead.
LEMMA InsertStep ==
    ASSUME HeapInv, pc \in {"idle", "again"}, NEW m \in Nodes \ members, heap_insert(m)
    PROVE  HeapInv'
  <1> USE DEF HeapInv
  <1>1. /\ op' = "insert" /\ node' = m /\ nelts' = nelts + 1
        /\ rest' = nelts + 1 /\ path' = <<>> /\ pc' = "path"
        /\ UNCHANGED <<root, parent, left, right, place>>
    BY DEF heap_insert, Begin
  <1>2. PICK x \in Keys : key' = [key EXCEPT ![m] = x]
    BY DEF heap_insert
  <1>3. HeapTypes' /\ \A y \in Nodes \ {m} : key'[y] = key[y]
    BY <1>1, <1>2, HeapAssumption DEF HeapTypes
  <1>4. CompleteTree' /\ members' = members
    BY <1>1, SameTree
  <1>5. Call'
    <2>1. nelts = Len(place) /\ Len(place) \in Nat
      BY NodeFacts DEF CompleteTree
    <2>2. Goal' = Len(place) + 1
      BY <1>1 DEF Goal
    <2>3. Searching'
      BY <1>1, <1>4, <2>1, <2>2 DEF Searching, PathInv
    <2> QED
      BY <1>1, <2>1, <2>2, <2>3 DEF Call
  <1>6. Ordered'
    <2> SUFFICES ASSUME NEW k \in 2..Len(place)
                 PROVE  key'[place[k \div 2]] <= key'[place[k]]
      BY <1>1 DEF Ordered
    <2>1. key[place[k \div 2]] <= key[place[k]]
      BY DEF Ordered
    <2>2. place[k] # m /\ place[k \div 2] # m
      BY Upper DEF members
    <2> QED
      BY <1>3, <2>1, <2>2, Upper
  <1> QED
    BY <1>3, <1>4, <1>5, <1>6

\* heap_remove begins; its node is still inside.
LEMMA RemoveStep ==
    ASSUME HeapInv, pc = "idle", NEW m \in members, NEW o \in {"remove", "reset"},
           heap_remove(o, m)
    PROVE  HeapInv'
  <1> USE DEF HeapInv
  <1>1. /\ op' = o /\ node' = m /\ nelts' = nelts - 1 /\ key' = key
        /\ rest' = nelts /\ path' = <<>> /\ pc' = "path"
        /\ UNCHANGED <<root, parent, left, right, place>>
    BY DEF heap_remove, Begin
  <1>2. nelts = Len(place) /\ Len(place) \in Nat \ {0} /\ m \in Nodes
    <2>1. nelts = Len(place) /\ Len(place) \in Nat
      BY NodeFacts DEF CompleteTree
    <2>2. PICK k \in 1..Len(place) : m = place[k]
      BY DEF members
    <2>3. Len(place) # 0
      BY <2>1, <2>2
    <2> QED
      BY <2>1, <2>2, <2>3, NodeFacts
  <1>3. HeapTypes'
    BY <1>1, <1>2 DEF HeapTypes
  <1>4. CompleteTree' /\ members' = members
    BY <1>1, SameTree
  <1>5. Call'
    <2>2. Goal' = Len(place)
      BY <1>1 DEF Goal
    <2>3. Searching'
      BY <1>1, <1>2, <1>4, <2>2 DEF Searching, PathInv
    <2> QED
      BY <1>1, <1>2, <2>2, <2>3 DEF Call
  <1>6. Ordered'
    BY <1>1 DEF Ordered
  <1> QED
    BY <1>3, <1>4, <1>5, <1>6

\* A turn of the loop that takes the path.
LEMMA TakeBitStep ==
    ASSUME HeapInv, TakeBit
    PROVE  HeapInv'
  <1> USE DEF HeapInv
  <1>1. /\ pc = "path" /\ rest >= 2 /\ path' = Append(path, rest) /\ rest' = rest \div 2
        /\ UNCHANGED <<root, nelts, parent, left, right, key, pc, op, node, place, v, cur>>
    BY DEF TakeBit
  <1>2. HeapTypes' /\ CompleteTree' /\ members' = members /\ Ordered' /\ Goal' = Goal
    BY <1>1, SameTree DEF HeapTypes, Ordered, CompleteTree, Goal
  <1>3. /\ path \in Seq(Nat) /\ rest \in Nat /\ Goal \in Nat
        /\ rest = IF path = <<>> THEN Goal ELSE path[Len(path)] \div 2
        /\ \A i \in 1..Len(path) : path[i] \in 2..Goal
        /\ \A i \in 1..(Len(path) - 1) : path[i + 1] = path[i] \div 2
        /\ path # <<>> => path[1] = Goal
    <2>1. Searching /\ rest \in Nat
          /\ rest = IF path = <<>> THEN Goal ELSE path[Len(path)] \div 2
      BY <1>1 DEF Call
    <2>2. Goal \in Nat
      BY NodeFacts DEF Goal
    <2> QED
      BY <2>1, <2>2 DEF Searching, PathInv
  <1>4. /\ path' \in Seq(Nat) /\ Len(path') = Len(path) + 1 /\ Len(path) \in Nat
        /\ \A i \in 1..Len(path) : path'[i] = path[i]
        /\ path'[Len(path) + 1] = rest
    BY <1>1, <1>3
  <1>5. rest \in 2..Goal /\ rest' \in Nat \ {0}
    <2>1. CASE path = <<>>
      BY <1>1, <1>3, <2>1, Half
    <2>2. CASE path # <<>>
      <3>1. path[Len(path)] \in 2..Goal
        BY <1>3, <2>2
      <3> QED
        BY <1>1, <1>3, <2>2, <3>1, Half
    <2> QED
      BY <2>1, <2>2
  <1>6. path' # <<>> /\ path'[1] = Goal
    <2>1. CASE path = <<>>
      <3>1. Len(path) + 1 = 1 /\ rest = Goal
        BY <1>3, <2>1
      <3>2. path' # <<>>
        BY <1>1, <1>3
      <3> QED
        BY <1>4, <3>1, <3>2
    <2>2. CASE path # <<>>
      <3>1. 1 \in 1..Len(path)
        BY <1>3, <2>2
      <3> QED
        BY <1>3, <1>4, <2>2, <3>1
    <2> QED
      BY <2>1, <2>2
  <1>7. \A i \in 1..Len(path') : path'[i] \in 2..Goal
    <2> SUFFICES ASSUME NEW i \in 1..(Len(path) + 1) PROVE path'[i] \in 2..Goal
      BY <1>4
    <2>1. i \in 1..Len(path) \/ i = Len(path) + 1
      BY <1>4
    <2> QED
      BY <1>3, <1>4, <1>5, <2>1
  <1>8. \A i \in 1..(Len(path') - 1) : path'[i + 1] = path'[i] \div 2
    <2> SUFFICES ASSUME NEW i \in 1..Len(path) PROVE path'[i + 1] = path'[i] \div 2
      BY <1>4
    <2>1. CASE i = Len(path)
      BY <1>3, <1>4, <2>1
    <2>2. CASE i # Len(path)
      <3>1. i \in 1..(Len(path) - 1) /\ i + 1 \in 1..Len(path)
        BY <1>4, <2>2
      <3> QED
        BY <1>3, <1>4, <3>1
    <2> QED
      BY <2>1, <2>2
  <1>9. PathInv'
    BY <1>2, <1>4, <1>6, <1>7, <1>8 DEF PathInv
  <1>10. Searching'
    BY <1>1, <1>2, <1>9 DEF Searching, Call
  <1>11. Call'
    BY <1>1, <1>4, <1>5, <1>6, <1>10 DEF Call
  <1> QED
    BY <1>2, <1>11

\* The walk starts at the root, which is above the last place that was taken.
LEMMA PathTakenStep ==
    ASSUME HeapInv, PathTaken
    PROVE  HeapInv'
  <1> USE DEF HeapInv
  <1>1. /\ pc = "path" /\ rest < 2 /\ pc' = "walk" /\ cur' = root
        /\ UNCHANGED <<root, nelts, parent, left, right, key, op, node, place, v, path, rest>>
    BY DEF PathTaken
  <1>2. HeapTypes' /\ CompleteTree' /\ members' = members /\ Ordered' /\ Goal' = Goal
    BY <1>1, SameTree DEF HeapTypes, Ordered, Goal
  <1>3. rest = 1 /\ rest = (IF path = <<>> THEN Goal ELSE path[Len(path)] \div 2) /\ Searching
    BY <1>1 DEF Call
  <1>4. Searching'
    BY <1>1, <1>2, <1>3 DEF Searching, PathInv
  <1>5. root = Node(1)
    BY DEF CompleteTree
  <1>6. Node(1)' = Node(1)
    BY <1>1 DEF Node
  <1> QED
    BY <1>1, <1>2, <1>3, <1>4, <1>5, <1>6 DEF Call

\* Where the walk is: above a place that is not beyond Goal.
LEMMA WalkFacts ==
    ASSUME HeapInv, pc = "walk", path # <<>>
    PROVE  LET p == path[Len(path)]
               h == p \div 2
           IN /\ Len(path) \in Nat \ {0} /\ p \in 2..Goal /\ h \in 1..Len(place)
              /\ (p = 2 * h \/ p = 2 * h + 1) /\ (p % 2 = 1 <=> p = 2 * h + 1)
              /\ cur = place[h] /\ cur \in Nodes /\ cur # NULL
              /\ left[cur] = Node(2 * h) /\ right[cur] = Node(2 * h + 1)
  <1> DEFINE p == path[Len(path)]
             h == p \div 2
  <1>1. path \in Seq(Nat) /\ \A i \in 1..Len(path) : path[i] \in 2..Goal
    BY DEF HeapInv, Call, Searching, PathInv
  <1>2. Len(path) \in Nat \ {0} /\ p \in 2..Goal
    BY <1>1
  <1>3. Len(place) \in Nat /\ Goal \in Nat /\ Goal <= Len(place) + 1
    BY NodeFacts DEF HeapInv, Goal
  <1> HIDE DEF p
  <1>4. h \in 1..Len(place) /\ (p = 2 * h \/ p = 2 * h + 1) /\ (p % 2 = 1 <=> p = 2 * h + 1)
    BY <1>2, <1>3, Half
  <1>5. cur = Node(h)
    BY DEF HeapInv, Call, p
  <1> HIDE DEF h
  <1>6. cur = place[h] /\ cur \in Nodes /\ cur # NULL
    BY <1>4, <1>5, NodeFacts DEF HeapInv
  <1>7. left[cur] = Node(2 * h) /\ right[cur] = Node(2 * h + 1)
    BY <1>4, <1>6, LinkFacts DEF HeapInv
  <1> QED
    BY <1>2, <1>4, <1>6, <1>7 DEF h, p

\* A path without its last element.
LEMMA FrontFacts ==
    ASSUME NEW q \in Seq(Nat), Len(q) > 1
    PROVE  LET r == SubSeq(q, 1, Len(q) - 1) IN
             /\ r \in Seq(Nat) /\ Len(r) = Len(q) - 1 /\ r # <<>>
             /\ \A i \in 1..(Len(q) - 1) : r[i] = q[i]
  <1> DEFINE r == SubSeq(q, 1, Len(q) - 1)
  <1>1. Len(q) \in Nat /\ 1 \in 1..(Len(q) + 1) /\ Len(q) - 1 \in 0..Len(q)
    OBVIOUS
  <1>2. r \in Seq(Nat) /\ Len(r) = Len(q) - 1
    BY <1>1
  <1>3. \A i \in 1..(Len(q) - 1) : r[i] = q[i]
    BY <1>1
  <1>4. r # <<>>
    BY <1>1, <1>2
  <1> QED
    BY <1>2, <1>3, <1>4

\* A turn of the walk goes one place down on the way to Goal.
LEMMA WalkStep ==
    ASSUME HeapInv, Walk
    PROVE  HeapInv'
  <1> DEFINE n == Len(path)
             p == path[n]
             h == p \div 2
  <1>1. /\ pc = "walk" /\ n > 1 /\ path' = SubSeq(path, 1, n - 1)
        /\ cur' = IF p % 2 = 1 THEN right[cur] ELSE left[cur]
        /\ UNCHANGED <<root, nelts, parent, left, right, key, pc, op, node, place, v, rest>>
    BY DEF Walk
  <1>2. HeapTypes' /\ CompleteTree' /\ members' = members /\ Ordered' /\ Goal' = Goal
        /\ \A k : Node(k)' = Node(k)
    BY <1>1, SameTree DEF HeapInv, HeapTypes, Ordered, Goal
  <1>3. PathInv /\ Searching
    BY <1>1 DEF HeapInv, Call, Searching
  <1>4. path \in Seq(Nat) /\ n \in Nat /\ path # <<>>
    BY <1>1, <1>3 DEF PathInv
  <1>5. /\ path' \in Seq(Nat) /\ Len(path') = n - 1 /\ path' # <<>>
        /\ \A i \in 1..(n - 1) : path'[i] = path[i]
    BY <1>1, <1>4, FrontFacts
  <1>6. cur' = Node(p)
    <2>1. /\ (p = 2 * h \/ p = 2 * h + 1) /\ (p % 2 = 1 <=> p = 2 * h + 1)
          /\ left[cur] = Node(2 * h) /\ right[cur] = Node(2 * h + 1)
      BY <1>1, <1>4, WalkFacts
    <2> HIDE DEF p, h
    <2> QED
      BY <1>1, <2>1 DEF p
  <1>7. p = path[n - 1] \div 2
    <2>1. n - 1 \in 1..(n - 1) /\ (n - 1) + 1 = n
      BY <1>1, <1>4
    <2>2. path[(n - 1) + 1] = path[n - 1] \div 2
      BY <1>3, <2>1 DEF PathInv
    <2> QED
      BY <2>1, <2>2
  <1> HIDE DEF n, p, h
  <1>8. cur' = Node(path[Len(path)] \div 2)'
    <2>1. path'[n - 1] = path[n - 1]
      BY <1>1, <1>4, <1>5
    <2>2. path'[Len(path')] \div 2 = p
      BY <1>5, <1>7, <2>1
    <2> QED
      BY <1>1, <1>6, <2>2 DEF Node
  <1>9. PathInv'
    <2>1. path'[1] = Goal
      BY <1>1, <1>3, <1>4, <1>5 DEF PathInv
    <2>2. \A i \in 1..(n - 1) : path'[i] \in 2..Goal
      <3>1. \A i \in 1..(n - 1) : i \in 1..n
        BY <1>4
      <3>2. \A i \in 1..n : path[i] \in 2..Goal
        BY <1>3 DEF PathInv, n
      <3> QED
        BY <1>5, <3>1, <3>2
    <2>3. ASSUME NEW i \in 1..((n - 1) - 1)
          PROVE  path'[i + 1] = path'[i] \div 2
      <3>1. i \in 1..(n - 1) /\ i + 1 \in 1..(n - 1)
        BY <1>4
      <3>2. path[i + 1] = path[i] \div 2
        BY <1>3, <3>1 DEF PathInv, n
      <3> QED
        BY <1>5, <3>1, <3>2
    <2> QED
      BY <1>2, <1>5, <2>1, <2>2, <2>3 DEF PathInv
  <1>10. Searching'
    BY <1>1, <1>2, <1>3, <1>9 DEF Searching
  <1> QED
    BY <1>1, <1>2, <1>5, <1>8, <1>10 DEF HeapInv, Call

\* Where the walk ends: above Goal, or nowhere when Goal is the first place.
LEMMA WalkedFacts ==
    ASSUME HeapInv, Walked
    PROVE  /\ Len(place) \in Nat /\ Goal \in Nat \ {0} /\ Searching
           /\ Goal = 1 => path = <<>> /\ ~RightBit /\ cur = root
           /\ Goal # 1 => LET h == Goal \div 2 IN
                /\ h \in 1..Len(place) /\ (Goal = 2 * h \/ Goal = 2 * h + 1)
                /\ RightBit <=> Goal = 2 * h + 1
                /\ cur = place[h] /\ cur \in Nodes /\ cur # NULL
                /\ left[cur] = Node(2 * h) /\ right[cur] = Node(2 * h + 1)
  <1>1. pc = "walk" /\ Len(path) <= 1 /\ Searching /\ path \in Seq(Nat)
    BY DEF HeapInv, Call, Walked, Searching, PathInv
  <1>2. Len(place) \in Nat
    BY NodeFacts DEF HeapInv
  <1>3. CASE path = <<>>
    BY <1>1, <1>2, <1>3 DEF HeapInv, Call, RightBit
  <1>4. CASE path # <<>>
    <2>0. Len(path) = 1
      BY <1>1, <1>4
    <2>1. Len(path) = 1 /\ path[1] = Goal
      BY <1>1, <1>4, <2>0 DEF Searching, PathInv
    <2>2. LET h == Goal \div 2 IN
            /\ Goal \in 2..Goal /\ h \in 1..Len(place) /\ (Goal = 2 * h \/ Goal = 2 * h + 1)
            /\ (Goal % 2 = 1 <=> Goal = 2 * h + 1)
            /\ cur = place[h] /\ cur \in Nodes /\ cur # NULL
            /\ left[cur] = Node(2 * h) /\ right[cur] = Node(2 * h + 1)
      BY <1>1, <1>4, <2>1, WalkFacts
    <2>3. Goal \in Nat /\ Goal >= 2
      BY <1>2, <2>2 DEF Goal
    <2> QED
      BY <1>1, <1>2, <1>4, <2>1, <2>2, <2>3 DEF RightBit
  <1> QED
    BY <1>3, <1>4

\* The new node becomes the child at the first free place, a leaf.
LEMMA LinkStep ==
    ASSUME HeapInv, Link
    PROVE  HeapInv'
  <1> DEFINE n == Len(place)
             h == (n + 1) \div 2
             N2(m) == IF m = n + 1 THEN node ELSE Node(m)
  <1>0. HeapTypes /\ CompleteTree
    BY DEF HeapInv
  <1>1. /\ Walked /\ op = "insert" /\ parent' = [parent EXCEPT ![node] = cur]
        /\ place' = Append(place, node) /\ v' = node /\ pc' = "up"
        /\ UNCHANGED <<nelts, key, op, node>>
        /\ \/ cur = NULL /\ root' = node /\ UNCHANGED <<left, right>>
           \/ cur # NULL /\ RightBit /\ right' = [right EXCEPT ![cur] = node]
                /\ UNCHANGED <<root, left>>
           \/ cur # NULL /\ ~RightBit /\ left' = [left EXCEPT ![cur] = node]
                /\ UNCHANGED <<root, right>>
    BY DEF Link
  <1>2. /\ Goal = n + 1 /\ n \in Nat /\ node \in Nodes /\ node \notin members
        /\ nelts = n + 1 /\ node # NULL
    BY <1>1, WalkedFacts, HeapAssumption DEF Goal, Searching
  <1>3. /\ place' \in Seq(Nodes) /\ Len(place') = n + 1 /\ place'[n + 1] = node
        /\ \A k \in 1..n : place'[k] = place[k]
    BY <1>1, <1>2 DEF HeapInv, HeapTypes
  <1>4. \A k \in 1..n : place[k] \in Nodes /\ place[k] # node /\ place[k] # NULL
                        /\ Node(k) = place[k]
    BY <1>0, <1>2, NodeFacts DEF members
  <1>5. \A m \in Nat : Node(m)' = N2(m)
    <2> SUFFICES ASSUME NEW m \in Nat PROVE Node(m)' = N2(m)
      OBVIOUS
    <2>1. Node(m)' = IF m \in 1..(n + 1) THEN place'[m] ELSE NULL
      BY <1>3 DEF Node
    <2>2. CASE m \in 1..n
      BY <1>2, <1>3, <2>1, <2>2 DEF Node
    <2>3. CASE m = n + 1
      BY <1>2, <1>3, <2>1, <2>3
    <2>4. CASE m \notin 1..(n + 1)
      BY <1>2, <2>1, <2>4 DEF Node
    <2> QED
      BY <1>2, <2>2, <2>3, <2>4
  <1>6. members' = members \cup {node}
    <2>1. members' = {place'[k] : k \in 1..(n + 1)}
      BY <1>3 DEF members
    <2>2. \A k \in 1..(n + 1) : k \in 1..n \/ k = n + 1
      BY <1>2
    <2>3. \A k \in 1..n : k \in 1..(n + 1)
      BY <1>2
    <2>4. n + 1 \in 1..(n + 1)
      BY <1>2
    <2> QED
      BY <1>3, <2>1, <2>2, <2>3, <2>4 DEF members
  <1>7. /\ h \in Nat /\ h < n + 1 /\ (n + 1 = 2 * h \/ n + 1 = 2 * h + 1)
        /\ n + 1 # 1 => h \in 1..n
    BY <1>2, Half
  <1>8. /\ cur = Node(h)
        /\ n = 0 => cur = NULL
        /\ n # 0 => /\ cur = place[h] /\ cur # NULL /\ cur \in Nodes
                    /\ RightBit <=> n + 1 = 2 * h + 1
    <2>1. CASE n = 0
      <3>1. cur = root /\ root = Node(1) /\ h = 0
        BY <1>0, <1>1, <1>2, <1>7, <2>1, WalkedFacts DEF CompleteTree
      <3>2. Node(1) = NULL /\ Node(0) = NULL
        BY <1>0, <1>2, <2>1, NodeFacts
      <3> QED
        BY <2>1, <3>1, <3>2
    <2>2. CASE n # 0
      <3>1. /\ cur = place[h] /\ cur \in Nodes /\ cur # NULL
            /\ RightBit <=> n + 1 = 2 * h + 1
        BY <1>1, <1>2, <2>2, WalkedFacts
      <3> QED
        BY <1>2, <1>4, <1>7, <2>2, <3>1
    <2> QED
      BY <2>1, <2>2
  <1>9. /\ parent \in [Nodes -> Nodes \cup {NULL}] /\ left \in [Nodes -> Nodes \cup {NULL}]
        /\ right \in [Nodes -> Nodes \cup {NULL}] /\ key \in [Nodes -> Nat]
        /\ root \in Nodes \cup {NULL} /\ cur \in Nodes \cup {NULL}
    BY <1>8 DEF HeapInv, HeapTypes
  <1> HIDE DEF n, h, N2
  <1>10. HeapTypes'
    <2>1. parent' \in [Nodes -> Nodes \cup {NULL}]
      BY <1>1, <1>2, <1>9
    <2>2. /\ left' \in [Nodes -> Nodes \cup {NULL}] /\ right' \in [Nodes -> Nodes \cup {NULL}]
          /\ root' \in Nodes \cup {NULL}
      BY <1>1, <1>2, <1>9
    <2> QED
      BY <1>1, <1>2, <1>3, <1>9, <2>1, <2>2 DEF HeapTypes
  <1>11. /\ left[node] = NULL /\ right[node] = NULL
         /\ \A x, y \in 1..n : place[x] = place[y] => x = y
         /\ \A k \in 1..n : /\ parent[place[k]] = Node(k \div 2)
                            /\ left[place[k]] = Node(2 * k)
                            /\ right[place[k]] = Node(2 * k + 1)
    BY <1>0, <1>2, LinkFacts DEF CompleteTree, n
  <1>12. ASSUME NEW k \in 1..n
         PROVE  /\ left'[place[k]] = N2(2 * k)
                /\ right'[place[k]] = N2(2 * k + 1)
                /\ parent'[place[k]] = N2(k \div 2)
    <2>0. /\ k \in Nat \ {0} /\ n # 0 /\ place[k] \in Nodes /\ place[k] # node
          /\ k \div 2 # n + 1 /\ cur # NULL /\ place[h] \in Nodes
      BY <1>2, <1>4, <1>7, <1>8, Half
    <2>1. parent'[place[k]] = N2(k \div 2)
      BY <1>1, <1>9, <1>11, <2>0 DEF N2
    <2>2. place[k] = cur <=> k = h
      BY <1>2, <1>7, <1>8, <1>11, <2>0
    <2>3. CASE k = h
      <3>1. CASE RightBit
        <4>1. 2 * k + 1 = n + 1 /\ 2 * k # n + 1
          BY <1>2, <1>7, <1>8, <2>0, <2>3, <3>1
        <4> QED
          BY <1>1, <1>9, <1>11, <2>0, <2>1, <2>2, <2>3, <3>1, <4>1 DEF N2
      <3>2. CASE ~RightBit
        <4>1. 2 * k + 1 # n + 1 /\ 2 * k = n + 1
          BY <1>2, <1>7, <1>8, <2>0, <2>3, <3>2
        <4> QED
          BY <1>1, <1>9, <1>11, <2>0, <2>1, <2>2, <2>3, <3>2, <4>1 DEF N2
      <3> QED
        BY <3>1, <3>2
    <2>4. CASE k # h
      <3>1. 2 * k + 1 # n + 1 /\ 2 * k # n + 1
        BY <1>2, <1>7, <2>0, <2>4
      <3> QED
        BY <1>1, <1>9, <1>11, <2>0, <2>1, <2>2, <2>4, <3>1 DEF N2
    <2> QED
      BY <2>3, <2>4
  <1>13. /\ left'[node] = N2(2 * (n + 1))
         /\ right'[node] = N2(2 * (n + 1) + 1)
         /\ parent'[node] = N2((n + 1) \div 2)
    <2>1. 2 * (n + 1) \notin 1..n /\ 2 * (n + 1) + 1 \notin 1..n
          /\ 2 * (n + 1) # n + 1 /\ 2 * (n + 1) + 1 # n + 1
          /\ 2 * (n + 1) \in Nat /\ 2 * (n + 1) + 1 \in Nat
      BY <1>2
    <2>2. N2(2 * (n + 1)) = NULL /\ N2(2 * (n + 1) + 1) = NULL
      BY <1>0, <2>1, NodeFacts DEF N2, n
    <2>3. left'[node] = NULL /\ right'[node] = NULL
      BY <1>1, <1>2, <1>4, <1>7, <1>8, <1>9, <1>11
    <2>4. parent'[node] = Node(h) /\ N2(h) = Node(h)
      BY <1>1, <1>2, <1>7, <1>8, <1>9 DEF N2
    <2> QED
      BY <2>2, <2>3, <2>4 DEF h
  <1>14. root' = N2(1)
    <2>1. CASE n = 0
      BY <1>1, <1>8, <2>1 DEF N2
    <2>2. CASE n # 0
      <3>1. root = Node(1) /\ 1 # n + 1
        BY <1>0, <1>2, <2>2 DEF CompleteTree
      <3> QED
        BY <1>1, <1>8, <2>2, <3>1 DEF N2
    <2> QED
      BY <2>1, <2>2
  <1>15. \A m \in Nodes \ members' : left'[m] = NULL /\ right'[m] = NULL
    <2> SUFFICES ASSUME NEW m \in Nodes, m \notin members, m # node
                 PROVE  left'[m] = NULL /\ right'[m] = NULL
      BY <1>6
    <2>1. left[m] = NULL /\ right[m] = NULL
      BY <1>0 DEF CompleteTree
    <2>2. m # cur \/ cur = NULL
      BY <1>7, <1>8, <1>2 DEF members, n
    <2> QED
      BY <1>1, <1>9, <2>1, <2>2
  <1>16. \A x, y \in 1..(n + 1) : place'[x] = place'[y] => x = y
    <2>1. \A x \in 1..(n + 1) : x \in 1..n \/ x = n + 1
      BY <1>2
    <2> QED
      BY <1>3, <1>4, <1>11, <2>1
  <1>17. CompleteTree'
    <2>1. \A k \in 1..(n + 1) : k \div 2 \in Nat /\ 2 * k \in Nat /\ 2 * k + 1 \in Nat
      BY <1>2, Half
    <2>2. \A k \in 1..(n + 1) : /\ parent'[place'[k]] = N2(k \div 2)
                                /\ left'[place'[k]] = N2(2 * k)
                                /\ right'[place'[k]] = N2(2 * k + 1)
      <3>1. \A k \in 1..(n + 1) : k \in 1..n \/ k = n + 1
        BY <1>2
      <3> QED
        BY <1>3, <1>12, <1>13, <3>1
    <2>3. \A k \in 1..Len(place') : /\ parent'[place'[k]] = Node(k \div 2)'
                                    /\ left'[place'[k]] = Node(2 * k)'
                                    /\ right'[place'[k]] = Node(2 * k + 1)'
      BY <1>3, <1>5, <2>1, <2>2
    <2>4. root' = Node(1)'
      BY <1>5, <1>14
    <2>5. nelts' = Len(place')
      BY <1>1, <1>2, <1>3
    <2> QED
      BY <1>3, <1>15, <1>16, <2>3, <2>4, <2>5 DEF CompleteTree
  <1>18. Call'
    BY <1>1, <1>2, <1>6 DEF Call
  <1>19. Ordered'
    <2> SUFFICES ASSUME NEW k \in 2..(n + 1)
                 PROVE  /\ place'[k] = node \/ key[place'[k \div 2]] <= key[place'[k]]
                        /\ place'[k \div 2] # node
      BY <1>1, <1>3 DEF Ordered
    <2>1. k \div 2 \in 1..n
      BY <1>2, Half
    <2>2. CASE k = n + 1
      BY <1>3, <1>4, <2>1, <2>2
    <2>3. CASE k # n + 1
      <3>1. k \in 1..n /\ k \in 2..n
        BY <1>2, <2>3
      <3>2. key[place[k \div 2]] <= key[place[k]]
        BY <1>1, <3>1 DEF HeapInv, Ordered, Walked, n
      <3> QED
        BY <1>3, <1>4, <2>1, <3>1, <3>2
    <2> QED
      BY <2>2, <2>3
  <1> QED
    BY <1>10, <1>17, <1>18, <1>19 DEF HeapInv

\* The places once the node at place i is unlinked: the last node has filled the
\* gap, and the last place is gone.
LEMMA FilledFacts ==
    ASSUME HeapTypes, CompleteTree, place # <<>>,
           NEW i \in 1..Len(place), node = place[i], place' = Filled
    PROVE  LET n == Len(place) IN
           /\ n \in Nat \ {0}
           /\ place' \in Seq(Nodes) /\ Len(place') = n - 1
           /\ \A k \in 1..(n - 1) : place'[k] = IF k = i THEN place[n] ELSE place[k]
           /\ \A k \in Nat : Node(k)' = IF k \in 1..(n - 1)
                                          THEN IF k = i THEN place[n] ELSE place[k]
                                          ELSE NULL
           /\ members' = members \ {node}
  <1> DEFINE n == Len(place)
  <1>1. n \in Nat \ {0} /\ \A k \in 1..n : place[k] \in Nodes
    <2>1. place \in Seq(Nodes)
      BY DEF HeapTypes
    <2> QED
      BY <2>1
  <1>2. \A x, y \in 1..n : place[x] = place[y] => x = y
    BY DEF CompleteTree
  <1>3. n - 1 \in Nat /\ n \in 1..n /\ \A k \in 1..(n - 1) : k \in 1..n /\ k # n
    BY <1>1
  <1>4. place' = [k \in 1..(n - 1) |-> IF k = i THEN place[n] ELSE place[k]]
    <2>1. \A k \in 1..(n - 1) : place[k] = node <=> k = i
      BY <1>2, <1>3
    <2> QED
      BY <2>1 DEF Filled
  <1>5. /\ place' \in Seq(Nodes) /\ Len(place') = n - 1
        /\ \A k \in 1..(n - 1) : place'[k] = IF k = i THEN place[n] ELSE place[k]
    BY <1>1, <1>3, <1>4
  <1>6. \A k \in Nat : Node(k)' = IF k \in 1..(n - 1)
                                    THEN IF k = i THEN place[n] ELSE place[k]
                                    ELSE NULL
    BY <1>5 DEF Node
  <1>7. members' = members \ {node}
    <2>1. members' = {place'[k] : k \in 1..(n - 1)}
      BY <1>5 DEF members
    <2>2. members = {place[k] : k \in 1..n}
      BY DEF members
    <2>3. ASSUME NEW x \in members' PROVE x \in members \ {node}
      <3>1. PICK k \in 1..(n - 1) : x = place'[k]
        BY <2>1, <2>3
      <3>2. CASE k = i
        <4>1. x = place[n] /\ n # i
          BY <1>3, <1>5, <3>1, <3>2
        <4> QED
          BY <1>2, <1>3, <2>2, <4>1
      <3>3. CASE k # i
        <4>1. x = place[k] /\ k \in 1..n
          BY <1>3, <1>5, <3>1, <3>3
        <4> QED
          BY <1>2, <2>2, <3>3, <4>1
      <3> QED
        BY <3>2, <3>3
    <2>4. ASSUME NEW x \in members \ {node} PROVE x \in members'
      <3>1. PICK k \in 1..n : x = place[k]
        BY <2>2, <2>4
      <3>2. k # i
        BY <2>4, <3>1
      <3>3. CASE k = n
        <4>1. i \in 1..(n - 1)
          BY <1>1, <3>2, <3>3
        <4> QED
          BY <1>5, <2>1, <3>1, <3>3, <4>1
      <3>4. CASE k # n
        <4>1. k \in 1..(n - 1)
          BY <1>1, <3>4
        <4> QED
          BY <1>5, <2>1, <3>1, <3>2, <4>1
      <3> QED
        BY <3>3, <3>4
    <2> QED
      BY <2>3, <2>4
  <1> QED
    BY <1>1, <1>5, <1>6, <1>7

\* What the walk of heap_remove has found: the last node, or nothing when there
\* is only one.
LEMMA LastFacts ==
    ASSUME HeapInv, Walked, op # "insert"
    PROVE  /\ Goal = Len(place) /\ Len(place) \in Nat \ {0} /\ node \in members /\ place # <<>>
           /\ op \in {"remove", "reset"} /\ nelts = Len(place) - 1
           /\ Len(place) = 1 => last = NULL
           /\ Len(place) # 1 => last = place[Len(place)] /\ last # NULL
  <1>0. HeapTypes /\ CompleteTree
    BY DEF HeapInv
  <1>1. /\ Goal = Len(place) /\ node \in members /\ nelts = Len(place) - 1 /\ Len(place) \in Nat \ {0}
        /\ op \in {"remove", "reset"}
    BY WalkedFacts DEF Goal, Searching
  <1>2. place # <<>>
    BY <1>1
  <1>3. CASE Len(place) = 1
    <2>1. cur = root /\ ~RightBit /\ root = Node(1)
      BY <1>0, <1>1, <1>3, WalkedFacts DEF CompleteTree
    <2>2. Node(1) = place[1] /\ left[place[1]] = Node(2 * 1) /\ 2 * 1 \in Nat /\ 2 * 1 \notin 1..Len(place)
      BY <1>0, <1>3, NodeFacts, LinkFacts
    <2>3. Node(2 * 1) = NULL
      BY <1>0, <2>2, NodeFacts
    <2> QED
      BY <1>1, <1>2, <1>3, <2>1, <2>2, <2>3 DEF last
  <1>4. CASE Len(place) # 1
    <2>1. last = Node(Len(place))
      BY <1>1, <1>4, WalkedFacts DEF last
    <2>2. Len(place) \in 1..Len(place)
      BY <1>1
    <2> QED
      BY <1>0, <1>1, <1>2, <1>4, <2>1, <2>2, NodeFacts
  <1> QED
    BY <1>3, <1>4

\* The only node leaves an empty tree.
LEMMA RemoveOnlyStep ==
    ASSUME HeapInv, RemoveOnly
    PROVE  HeapInv'
  <1>0. HeapTypes /\ CompleteTree
    BY DEF HeapInv
  <1>1. /\ Walked /\ op # "insert" /\ last = NULL
        /\ root' = IF root = node THEN NULL ELSE root
        /\ place' = Filled /\ Return
        /\ UNCHANGED <<nelts, parent, left, right, key>>
    BY DEF RemoveOnly
  <1>2. /\ Len(place) = 1 /\ node \in members /\ place # <<>> /\ nelts = 0
        /\ op \in {"remove", "reset"}
    BY <1>1, LastFacts
  <1>3. 1 \in 1..Len(place) /\ node = place[1]
    BY <1>2 DEF members
  <1>4. /\ place' \in Seq(Nodes) /\ Len(place') = 0 /\ members' = members \ {node}
    BY <1>0, <1>1, <1>2, <1>3, FilledFacts
  <1>5. root = node /\ node \in Nodes
    BY <1>0, <1>2, <1>3, NodeFacts DEF CompleteTree
  <1>6. HeapTypes'
    BY <1>0, <1>1, <1>4, <1>5 DEF HeapTypes
  <1>7. left[node] = NULL /\ right[node] = NULL
    <2>1. left[node] = Node(2 * 1) /\ right[node] = Node(2 * 1 + 1)
      BY <1>0, <1>3, LinkFacts
    <2>2. Node(2 * 1) = NULL /\ Node(2 * 1 + 1) = NULL
      BY <1>2 DEF Node
    <2> QED
      BY <2>1, <2>2
  <1>8. CompleteTree'
    <2>1. Node(1)' = NULL
      BY <1>4 DEF Node
    <2>2. \A m \in Nodes \ members' : left[m] = NULL /\ right[m] = NULL
      BY <1>0, <1>4, <1>7 DEF CompleteTree
    <2>3. 1..Len(place') = {}
      BY <1>4
    <2> QED
      BY <1>1, <1>2, <1>4, <1>5, <2>1, <2>2, <2>3 DEF CompleteTree
  <1>9. Call'
    BY <1>1, <1>4, <1>5 DEF Call, Return
  <1>10. Ordered'
    BY <1>4 DEF Ordered
  <1> QED
    BY <1>6, <1>8, <1>9, <1>10 DEF HeapInv

\* The last node is cut off and takes over the pointers of the removed one, which
\* may be that node itself, its parent or its sibling; the order holds across it.
LEMMA ReplaceStep ==
    ASSUME HeapInv, Replace
    PROVE  HeapInv'
  <1> DEFINE n == Len(place)
             h == n \div 2
             z == place[n]
             C(m) == IF m = n THEN NULL ELSE Node(m)
  <1>0. HeapTypes /\ CompleteTree
    BY DEF HeapInv
  <1>1. /\ Walked /\ op # "insert" /\ last # NULL
        /\ place' = Filled /\ v' = last /\ pc' = "down"
        /\ UNCHANGED <<nelts, key, op, node>>
    BY DEF Replace
  <1>2. /\ Goal = n /\ n \in Nat \ {0} /\ n # 1 /\ node \in members /\ place # <<>>
        /\ op \in {"remove", "reset"} /\ nelts = n - 1 /\ last = z /\ z # NULL
    BY <1>1, LastFacts
  <1>3. PICK i \in 1..n : node = place[i]
    BY <1>2 DEF members
  <1> DEFINE s == place[i]
             p == Node(i \div 2)
             N2(m) == IF m \in 1..(n - 1) THEN IF m = i THEN z ELSE place[m] ELSE NULL
  <1>4. /\ place' \in Seq(Nodes) /\ Len(place') = n - 1
        /\ \A k \in 1..(n - 1) : place'[k] = IF k = i THEN z ELSE place[k]
        /\ \A k \in Nat : Node(k)' = N2(k)
        /\ members' = members \ {s}
    BY <1>0, <1>1, <1>2, <1>3, FilledFacts
  <1>5. /\ h \in 1..(n - 1) /\ h \in 1..n /\ (n = 2 * h \/ n = 2 * h + 1)
        /\ RightBit <=> n = 2 * h + 1
        /\ cur = place[h] /\ cur \in Nodes /\ cur # NULL
    BY <1>1, <1>2, WalkedFacts, Half
  <1>6. /\ \A k \in 1..n : /\ place[k] \in Nodes /\ place[k] # NULL /\ Node(k) = place[k]
                           /\ parent[place[k]] = Node(k \div 2)
                           /\ left[place[k]] = Node(2 * k)
                           /\ right[place[k]] = Node(2 * k + 1)
        /\ \A x, y \in 1..n : place[x] = place[y] => x = y
        /\ \A k \in Nat : k \notin 1..n => Node(k) = NULL
        /\ root = Node(1)
        /\ \A m \in Nodes \ members : left[m] = NULL /\ right[m] = NULL
    BY <1>0, NodeFacts, LinkFacts DEF CompleteTree
  <1>7. /\ parent \in [Nodes -> Nodes \cup {NULL}] /\ left \in [Nodes -> Nodes \cup {NULL}]
        /\ right \in [Nodes -> Nodes \cup {NULL}] /\ key \in [Nodes -> Nat]
        /\ root \in Nodes \cup {NULL}
    BY <1>0 DEF HeapTypes
  <1>8. /\ n \in 1..n /\ z \in Nodes /\ s \in Nodes /\ s # NULL /\ node = s
        /\ members = {place[k] : k \in 1..n}
    BY <1>2, <1>3, <1>6 DEF members
  <1>9. /\ root' = RootTo(p, z)
        /\ parent' = [Put(Put(parent, CutLeft[s], z), CutRight[s], z)
                        EXCEPT ![z] = p, ![s] = NULL]
        /\ left' = [LeftTo(CutLeft, p, s, z) EXCEPT ![z] = CutLeft[s], ![s] = NULL]
        /\ right' = [RightTo(CutLeft, CutRight, p, s, z)
                       EXCEPT ![z] = CutRight[s], ![s] = NULL]
    BY <1>2, <1>3, <1>6 DEF Replace
  <1> HIDE DEF n, h, z, C, s, p, N2
  <1>10. /\ \A k \in 1..n : k \in Nat \ {0} /\ k \div 2 \in Nat /\ 2 * k \in Nat /\ 2 * k + 1 \in Nat
         /\ \A k \in 1..(n - 1) : k \in 1..n /\ k # n
    BY <1>2, Half
  <1>11. /\ CutLeft \in [Nodes -> Nodes \cup {NULL}] /\ CutRight \in [Nodes -> Nodes \cup {NULL}]
         /\ \A k \in 1..n : CutLeft[place[k]] = C(2 * k) /\ CutRight[place[k]] = C(2 * k + 1)
         /\ \A m \in Nodes \ members : CutLeft[m] = NULL /\ CutRight[m] = NULL
    <2>1. CutLeft \in [Nodes -> Nodes \cup {NULL}] /\ CutRight \in [Nodes -> Nodes \cup {NULL}]
      BY <1>7 DEF CutLeft, CutRight
    <2>2. \A m \in Nodes \ members : CutLeft[m] = NULL /\ CutRight[m] = NULL
      BY <1>6, <1>7 DEF CutLeft, CutRight
    <2>3. ASSUME NEW k \in 1..n
          PROVE  CutLeft[place[k]] = C(2 * k) /\ CutRight[place[k]] = C(2 * k + 1)
      <3>1. place[k] = cur <=> k = h
        BY <1>5, <1>6
      <3>2. CASE k = h
        <4>1. CASE RightBit
          <5>1. 2 * k # n /\ 2 * k + 1 = n
            BY <1>2, <1>5, <3>2, <4>1
          <5> QED
            BY <1>5, <1>6, <1>7, <3>1, <3>2, <4>1, <5>1 DEF CutLeft, CutRight, C
        <4>2. CASE ~RightBit
          <5>1. 2 * k = n /\ 2 * k + 1 # n
            BY <1>2, <1>5, <3>2, <4>2
          <5> QED
            BY <1>5, <1>6, <1>7, <3>1, <3>2, <4>2, <5>1 DEF CutLeft, CutRight, C
        <4> QED
          BY <4>1, <4>2
      <3>3. CASE k # h
        <4>1. 2 * k # n /\ 2 * k + 1 # n
          BY <1>2, <1>5, <1>10, <3>3
        <4> QED
          BY <1>5, <1>6, <1>7, <3>1, <3>3, <4>1 DEF CutLeft, CutRight, C
      <3> QED
        BY <3>2, <3>3
    <2> QED
      BY <2>1, <2>2, <2>3
  <1>12. /\ i \in Nat \ {0} /\ i \div 2 \in Nat /\ i \div 2 < i
         /\ (i = 2 * (i \div 2) \/ i = 2 * (i \div 2) + 1)
         /\ i # 1 => i \div 2 \in 1..(n - 1)
    BY <1>2, <1>10, Half
  <1>13. /\ i = 1 => p = NULL
         /\ i # 1 => p = place[i \div 2] /\ p \in Nodes /\ p # NULL /\ p # z /\ p # s
    <2>1. CASE i = 1
      <3>1. i \div 2 = 0 /\ 0 \notin 1..n
        BY <2>1
      <3> QED
        BY <1>6, <2>1, <3>1 DEF p
    <2>2. CASE i # 1
      <3>1. i \div 2 \in 1..n /\ i \div 2 # n /\ i \div 2 # i
        BY <1>10, <1>12, <2>2
      <3> QED
        BY <1>6, <1>8, <2>2, <3>1 DEF p, z, s
    <2> QED
      BY <2>1, <2>2
  <1>14. /\ left' \in [Nodes -> Nodes \cup {NULL}] /\ left'[s] = NULL
         /\ z # s => left'[z] = CutLeft[s]
         /\ \A x \in Nodes \ {z, s} :
              left'[x] = IF x = p /\ CutLeft[x] = s THEN z ELSE CutLeft[x]
    BY <1>8, <1>9, <1>11, <1>13, HeapAssumption DEF LeftTo
  <1>15. /\ right' \in [Nodes -> Nodes \cup {NULL}] /\ right'[s] = NULL
         /\ z # s => right'[z] = CutRight[s]
         /\ \A x \in Nodes \ {z, s} :
              right'[x] = IF x = p /\ CutLeft[x] # s /\ CutRight[x] = s THEN z ELSE CutRight[x]
    BY <1>8, <1>9, <1>11, <1>13, HeapAssumption DEF RightTo
  <1>16. /\ parent' \in [Nodes -> Nodes \cup {NULL}] /\ parent'[s] = NULL
         /\ z # s => parent'[z] = p
         /\ \A x \in Nodes \ {z, s} :
              parent'[x] = IF x = CutLeft[s] \/ x = CutRight[s] THEN z ELSE parent[x]
    <2>1. p \in Nodes \cup {NULL} /\ CutLeft[s] \in Nodes \cup {NULL} /\ CutRight[s] \in Nodes \cup {NULL}
      BY <1>8, <1>11, <1>13
    <2> QED
      BY <1>7, <1>8, <1>9, <2>1, HeapAssumption DEF Put
  <1>17. z = s <=> i = n
    BY <1>6, <1>8 DEF z, s
  \* A node at a place before the last is the child at place m iff it is there.
  <1>18. \A k \in 1..(n - 1), m \in Nat : place[k] = C(m) <=> k = m
    <2> SUFFICES ASSUME NEW k \in 1..(n - 1), NEW m \in Nat
                 PROVE  place[k] = C(m) <=> k = m
      OBVIOUS
    <2>1. k \in 1..n /\ k # n /\ place[k] # NULL
      BY <1>6, <1>10
    <2>2. CASE m \in 1..n
      BY <1>6, <2>1, <2>2 DEF C
    <2>3. CASE m \notin 1..n
      BY <1>6, <2>1, <2>3 DEF C
    <2> QED
      BY <2>2, <2>3
  <1>19. \A m \in Nat : m # i => C(m) = N2(m)
    <2> SUFFICES ASSUME NEW m \in Nat, m # i PROVE C(m) = N2(m)
      OBVIOUS
    <2>1. CASE m \in 1..(n - 1)
      BY <1>6, <1>10, <2>1 DEF C, N2
    <2>2. CASE m = n
      <3>1. m \notin 1..(n - 1)
        BY <1>2, <2>2
      <3> QED
        BY <2>2, <3>1 DEF C, N2
    <2>3. CASE m \notin 1..n
      <3>1. m \notin 1..(n - 1)
        BY <1>2, <2>3
      <3> QED
        BY <1>6, <2>3, <3>1 DEF C, N2
    <2> QED
      BY <1>2, <2>1, <2>2, <2>3
  <1>20. i # n => i \in 1..(n - 1) /\ N2(i) = z
    BY <1>2 DEF N2
  <1>21. ASSUME NEW k \in 1..(n - 1), k # i
         PROVE  /\ left'[place[k]] = N2(2 * k)
                /\ right'[place[k]] = N2(2 * k + 1)
                /\ parent'[place[k]] = N2(k \div 2)
    <2>1. /\ k \in Nat \ {0} /\ k \in 1..n /\ k # n /\ place[k] \in Nodes \ {z, s}
          /\ 2 * k \in Nat /\ 2 * k + 1 \in Nat /\ k \div 2 \in Nat
          /\ (k = 2 * (k \div 2) \/ k = 2 * (k \div 2) + 1)
      <3>1. k \in Nat \ {0} /\ k \in 1..n /\ k # n
        BY <1>10
      <3>2. place[k] \in Nodes \ {z, s}
        BY <1>6, <1>8, <1>21, <3>1 DEF z, s
      <3> QED
        BY <1>10, <3>1, <3>2, Half
    <2>2. /\ CutLeft[place[k]] = C(2 * k) /\ CutRight[place[k]] = C(2 * k + 1)
          /\ parent[place[k]] = Node(k \div 2)
          /\ CutLeft[s] = C(2 * i) /\ CutRight[s] = C(2 * i + 1)
      BY <1>6, <1>11, <2>1 DEF s
    <2>3. place[k] = p <=> i # 1 /\ k = i \div 2
      <3>1. CASE i = 1
        BY <1>6, <1>13, <2>1, <3>1
      <3>2. CASE i # 1
        <4>1. i \div 2 \in 1..n /\ p = place[i \div 2]
          BY <1>10, <1>12, <1>13, <3>2
        <4> QED
          BY <1>6, <2>1, <3>2, <4>1
      <3> QED
        BY <3>1, <3>2
    <2>4. left'[place[k]] = N2(2 * k) /\ right'[place[k]] = N2(2 * k + 1)
      <3>1. CASE i = n
        <4>1. C(2 * k) # s /\ C(2 * k + 1) # s
          <5>1. s = place[n] /\ s # NULL
            BY <1>8, <3>1 DEF s
          <5>2. \A m \in Nat : m # n => Node(m) # s
            BY <1>6, <1>8, <5>1
          <5> QED
            BY <2>1, <5>1, <5>2 DEF C
        <4>2. left'[place[k]] = C(2 * k) /\ right'[place[k]] = C(2 * k + 1)
          BY <1>14, <1>15, <2>1, <2>2, <4>1
        <4>3. \A m \in Nat : C(m) = N2(m)
          <5>1. n \notin 1..(n - 1)
            BY <1>2
          <5> QED
            BY <1>19, <3>1, <5>1 DEF C, N2
        <4> QED
          BY <2>1, <4>2, <4>3
      <3>2. CASE i # n
        <4>1. i \in 1..(n - 1) /\ N2(i) = z
          BY <1>20, <3>2
        <4>2. (C(2 * k) = s <=> 2 * k = i) /\ (C(2 * k + 1) = s <=> 2 * k + 1 = i)
          BY <1>18, <2>1, <4>1 DEF s
        <4>3. CASE i # 1 /\ k = i \div 2
          <5>1. CASE i = 2 * k
            <6>1. 2 * k + 1 # i
              BY <2>1, <5>1
            <6> QED
              BY <1>14, <1>15, <1>19, <2>1, <2>2, <2>3, <4>1, <4>2, <4>3, <5>1, <6>1
          <5>2. CASE i # 2 * k
            <6>1. 2 * k + 1 = i
              BY <1>12, <2>1, <4>3, <5>2
            <6> QED
              BY <1>14, <1>15, <1>19, <2>1, <2>2, <2>3, <4>1, <4>2, <4>3, <5>2, <6>1
          <5> QED
            BY <5>1, <5>2
        <4>4. CASE ~(i # 1 /\ k = i \div 2)
          <5>1. 2 * k # i /\ 2 * k + 1 # i
            BY <1>12, <2>1, <4>4
          <5> QED
            BY <1>14, <1>15, <1>19, <2>1, <2>2, <2>3, <4>4, <5>1
        <4> QED
          BY <4>3, <4>4
      <3> QED
        BY <3>1, <3>2
    <2>5. parent'[place[k]] = N2(k \div 2)
      <3>1. 2 * i \in Nat /\ 2 * i + 1 \in Nat
        BY <1>12
      <3>2. /\ place[k] = CutLeft[s] <=> k = 2 * i
            /\ place[k] = CutRight[s] <=> k = 2 * i + 1
        BY <1>18, <2>2, <3>1
      <3>3. k = 2 * i \/ k = 2 * i + 1 <=> k \div 2 = i
        BY <1>12, <2>1
      <3>4. CASE k \div 2 = i
        <4>1. i # n
          BY <1>2, <1>12, <2>1, <3>4
        <4> QED
          BY <1>16, <1>20, <2>1, <3>2, <3>3, <3>4, <4>1
      <3>5. CASE k \div 2 # i
        <4>1. parent'[place[k]] = Node(k \div 2)
          BY <1>16, <2>1, <2>2, <3>2, <3>3, <3>5
        <4>2. k \div 2 # n
          BY <1>2, <2>1
        <4> QED
          BY <1>19, <2>1, <3>5, <4>1, <4>2 DEF C
      <3> QED
        BY <3>4, <3>5
    <2> QED
      BY <2>4, <2>5
  <1>22. ASSUME i # n
         PROVE  /\ left'[z] = N2(2 * i)
                /\ right'[z] = N2(2 * i + 1)
                /\ parent'[z] = N2(i \div 2)
    <2>1. 2 * i \in Nat /\ 2 * i + 1 \in Nat /\ 2 * i # i /\ 2 * i + 1 # i /\ i \div 2 # i
          /\ i \div 2 # n
      BY <1>2, <1>12
    <2>2. CutLeft[s] = C(2 * i) /\ CutRight[s] = C(2 * i + 1)
      BY <1>11 DEF s
    <2>3. p = C(i \div 2)
      BY <2>1 DEF p, C
    <2> QED
      BY <1>12, <1>14, <1>15, <1>16, <1>17, <1>19, <1>22, <2>1, <2>2, <2>3
  <1>23. root' = N2(1)
    <2>1. CASE i = 1
      BY <1>2, <1>9, <1>13, <1>20, <2>1 DEF RootTo
    <2>2. CASE i # 1
      <3>1. root' = Node(1)
        BY <1>6, <1>9, <1>13, <2>2 DEF RootTo
      <3> QED
        BY <1>2, <1>19, <2>2, <3>1 DEF C
    <2> QED
      BY <2>1, <2>2
  <1>24. \A m \in Nodes \ members' : left'[m] = NULL /\ right'[m] = NULL
    <2> SUFFICES ASSUME NEW m \in Nodes, m \notin members \/ m = s
                 PROVE  left'[m] = NULL /\ right'[m] = NULL
      BY <1>4
    <2>1. CASE m = s
      BY <1>14, <1>15, <2>1
    <2>2. CASE m \notin members
      <3>1. m # z /\ m # s
        BY <1>8, <2>2 DEF z, s
      <3> QED
        BY <1>8, <1>11, <1>14, <1>15, <2>2, <3>1
    <2> QED
      BY <2>1, <2>2
  <1>25. \A x, y \in 1..(n - 1) : place'[x] = place'[y] => x = y
    <2> SUFFICES ASSUME NEW x \in 1..(n - 1), NEW y \in 1..(n - 1), place'[x] = place'[y]
                 PROVE  x = y
      OBVIOUS
    <2>1. x \in 1..n /\ y \in 1..n /\ x # n /\ y # n
      BY <1>10
    <2>2. place[x] # z /\ place[y] # z
      BY <1>6, <1>8, <2>1 DEF z
    <2>3. /\ place'[x] = IF x = i THEN z ELSE place[x]
          /\ place'[y] = IF y = i THEN z ELSE place[y]
      BY <1>4
    <2>4. CASE x = i \/ y = i
      BY <2>2, <2>3, <2>4
    <2>5. CASE x # i /\ y # i
      <3>1. place[x] = place[y]
        BY <2>3, <2>5
      <3> QED
        BY <1>6, <2>1, <3>1
    <2> QED
      BY <2>4, <2>5
  <1>26. HeapTypes'
    <2>1. root' \in Nodes \cup {NULL}
      BY <1>7, <1>8, <1>9 DEF RootTo
    <2>2. nelts' \in Nat /\ key' \in [Nodes -> Nat]
      BY <1>1, <1>2, <1>7
    <2> QED
      BY <1>4, <1>14, <1>15, <1>16, <2>1, <2>2 DEF HeapTypes
  <1>27. CompleteTree'
    <2>1. \A k \in 1..(n - 1) : /\ parent'[place'[k]] = N2(k \div 2)
                                /\ left'[place'[k]] = N2(2 * k)
                                /\ right'[place'[k]] = N2(2 * k + 1)
      <3> SUFFICES ASSUME NEW k \in 1..(n - 1)
                   PROVE  /\ parent'[place'[k]] = N2(k \div 2)
                          /\ left'[place'[k]] = N2(2 * k)
                          /\ right'[place'[k]] = N2(2 * k + 1)
        OBVIOUS
      <3>1. CASE k = i
        BY <1>4, <1>10, <1>22, <3>1
      <3>2. CASE k # i
        BY <1>4, <1>21, <3>2
      <3> QED
        BY <3>1, <3>2
    <2>2. \A k \in 1..Len(place') : /\ parent'[place'[k]] = Node(k \div 2)'
                                    /\ left'[place'[k]] = Node(2 * k)'
                                    /\ right'[place'[k]] = Node(2 * k + 1)'
      BY <1>4, <1>10, <2>1
    <2>3. root' = Node(1)'
      BY <1>4, <1>23
    <2>4. nelts' = Len(place')
      BY <1>1, <1>2, <1>4
    <2> QED
      BY <1>4, <1>24, <1>25, <2>2, <2>3, <2>4 DEF CompleteTree
  <1>28. Call'
    <2>1. v' \in Nodes /\ node' \in Nodes \ members' /\ pc' = "down"
      BY <1>1, <1>2, <1>4, <1>8
    <2>2. v' \notin members' => parent'[v'] = NULL /\ left'[v'] = NULL /\ right'[v'] = NULL
      <3>1. z \in members
        BY <1>8 DEF z
      <3> QED
        BY <1>1, <1>2, <1>4, <1>14, <1>15, <1>16, <3>1
    <2> QED
      BY <2>1, <2>2 DEF Call
  <1>29. Ordered'
    <2>0. \A k \in 2..n : key[place[k \div 2]] <= key[place[k]]
      BY <1>1 DEF HeapInv, Ordered, Walked, n
    <2> SUFFICES ASSUME NEW k \in 2..(n - 1)
                 PROVE  /\ \/ place'[k] = z
                           \/ place'[k \div 2] = z
                           \/ key[place'[k \div 2]] <= key[place'[k]]
                        /\ place'[k \div 2] = z /\ k \div 2 >= 2 =>
                             key[place'[(k \div 2) \div 2]] <= key[place'[k]]
      BY <1>1, <1>2, <1>4 DEF Ordered
    <2>1. /\ k \in 1..(n - 1) /\ k \div 2 \in 1..(n - 1) /\ k \in 2..n /\ k # k \div 2
          /\ k \div 2 # n /\ k \div 2 \in 1..n /\ k \in 1..n
      BY <1>2, Half
    <2>2. \/ place'[k] = z
          \/ place'[k \div 2] = z
          \/ key[place'[k \div 2]] <= key[place'[k]]
      BY <1>4, <2>0, <2>1
    <2>3. ASSUME place'[k \div 2] = z, k \div 2 >= 2
          PROVE  key[place'[(k \div 2) \div 2]] <= key[place'[k]]
      <3>0. \A x \in 1..n : place[x] = z => x = n
        BY <1>6, <1>8 DEF z
      <3>1. k \div 2 = i
        BY <1>4, <2>1, <2>3, <3>0
      <3>2. i \div 2 \in 1..(n - 1) /\ i \div 2 # i /\ i \in 2..n
        BY <1>2, <1>12, <2>1, <2>3, <3>1
      <3>3. place'[k] = place[k] /\ place'[i \div 2] = place[i \div 2]
        BY <1>4, <2>1, <3>1, <3>2
      <3>4. key[place[i \div 2]] <= key[place[i]] /\ key[place[i]] <= key[place[k]]
        BY <2>0, <2>1, <3>1, <3>2
      <3>5. /\ key[place[i \div 2]] \in Nat /\ key[place[i]] \in Nat /\ key[place[k]] \in Nat
        BY <1>6, <1>7, <1>10, <2>1, <3>2
      <3>6. key[place[i \div 2]] <= key[place[k]]
        BY <3>4, <3>5, LeqTransitive
      <3> QED
        BY <3>1, <3>3, <3>6
    <2> QED
      BY <2>2, <2>3
  <1> QED
    BY <1>26, <1>27, <1>28, <1>29 DEF HeapInv

\* est is v or a child of v, and neither v nor a child comes before it.
LEMMA EstFacts ==
    ASSUME HeapTypes, CompleteTree, NEW i \in 1..Len(place), v = place[i]
    PROVE  /\ est = v \/ \E j \in 1..Len(place) : j \div 2 = i /\ est = place[j]
           /\ key[est] <= key[v]
           /\ \A k \in 2..Len(place) : k \div 2 = i => key[est] <= key[place[k]]
  <1> DEFINE n == Len(place)
             a == 2 * i
             b == 2 * i + 1
             e == IF left[v] = NULL \/ compare(v, left[v]) THEN v ELSE left[v]
  <1>1. n \in Nat /\ i \in Nat \ {0} /\ a \in Nat /\ b \in Nat /\ a \div 2 = i /\ b \div 2 = i
    BY NodeFacts, Half
  <1>2. left[v] = Node(a) /\ right[v] = Node(b)
    BY LinkFacts
  <1>3. /\ \A k \in 1..n : Node(k) = place[k] /\ place[k] # NULL /\ place[k] \in Nodes
        /\ \A k \in Nat : k \notin 1..n => Node(k) = NULL
        /\ key \in [Nodes -> Nat]
    BY NodeFacts DEF HeapTypes
  <1>4. est = IF right[v] = NULL \/ compare(e, right[v]) THEN e ELSE right[v]
    BY DEF est
  <1> HIDE DEF a, b, n, e
  <1>5. /\ e = v \/ (a \in 1..n /\ e = place[a])
        /\ e \in Nodes /\ key[e] \in Nat /\ key[e] <= key[v]
        /\ a \in 1..n => key[e] <= key[place[a]]
    <2>0. v \in Nodes /\ key[v] \in Nat
      BY <1>3 DEF n
    <2>1. CASE a \notin 1..n
      <3>1. e = v
        BY <1>1, <1>2, <1>3, <2>1 DEF e
      <3> QED
        BY <2>0, <2>1, <3>1
    <2>2. CASE a \in 1..n
      <3>0. left[v] = place[a] /\ place[a] # NULL /\ place[a] \in Nodes /\ key[place[a]] \in Nat
        BY <1>2, <1>3, <2>2
      <3>1. CASE key[v] < key[place[a]]
        <4>1. e = v
          BY <3>0, <3>1 DEF e, compare
        <4> QED
          BY <2>0, <3>0, <3>1, <4>1
      <3>2. CASE ~(key[v] < key[place[a]])
        <4>1. e = place[a]
          BY <3>0, <3>2 DEF e, compare
        <4> QED
          BY <2>0, <2>2, <3>0, <3>2, <4>1
      <3> QED
        BY <3>1, <3>2
    <2> QED
      BY <2>1, <2>2
  <1>6. /\ est = v \/ (a \in 1..n /\ est = place[a]) \/ (b \in 1..n /\ est = place[b])
        /\ key[est] <= key[v]
        /\ a \in 1..n => key[est] <= key[place[a]]
        /\ b \in 1..n => key[est] <= key[place[b]]
    <2>0. /\ key[v] \in Nat
          /\ \A k \in 1..n : key[place[k]] \in Nat
      BY <1>3 DEF n
    <2>1. CASE b \notin 1..n
      <3>1. est = e
        BY <1>1, <1>2, <1>3, <1>4, <2>1
      <3> QED
        BY <1>5, <2>1, <3>1
    <2>2. CASE b \in 1..n
      <3>0. right[v] = place[b] /\ place[b] # NULL
        BY <1>2, <1>3, <2>2
      <3>1. CASE key[e] < key[place[b]]
        <4>1. est = e
          BY <1>4, <3>0, <3>1 DEF compare
        <4>2. key[e] <= key[place[b]]
          BY <1>5, <2>0, <2>2, <3>1
        <4> QED
          BY <1>5, <4>1, <4>2
      <3>2. CASE ~(key[e] < key[place[b]])
        <4>1. est = place[b]
          BY <1>4, <3>0, <3>2 DEF compare
        <4>2. /\ key[place[b]] <= key[v]
              /\ a \in 1..n => key[place[b]] <= key[place[a]]
              /\ key[place[b]] <= key[place[b]]
          BY <1>5, <2>0, <2>2, <3>2
        <4> QED
          BY <2>2, <4>1, <4>2
      <3> QED
        BY <3>1, <3>2
    <2> QED
      BY <2>1, <2>2
  <1>7. \A k \in 2..n : k \in 1..n /\ (k \div 2 = i => k = a \/ k = b)
    BY <1>1, Half DEF a, b
  <1> QED
    BY <1>1, <1>6, <1>7 DEF n

\* v changes places with its first child, which then precedes its sibling and follows
\* the node that was above v.
LEMMA SiftDownStep ==
    ASSUME HeapInv, SiftDown
    PROVE  HeapInv'
  <1> DEFINE n == Len(place)
  <1>0. HeapTypes /\ CompleteTree /\ Call /\ Ordered
    BY DEF HeapInv
  <1>1. /\ pc = "down" /\ est # v /\ heap_swap(v, est)
        /\ UNCHANGED <<nelts, key, pc, op, node, rest, path, cur, v>>
    BY DEF SiftDown
  <1>2. v \in members
    <2>1. v \notin members => left[v] = NULL /\ right[v] = NULL
      BY <1>0, <1>1 DEF Call
    <2> QED
      BY <1>1, <2>1 DEF est
  <1>3. PICK i \in 1..n : v = place[i]
    BY <1>2 DEF members
  <1>4. PICK j \in 1..n : j \div 2 = i /\ est = place[j]
    BY <1>0, <1>1, <1>3, EstFacts
  <1>5. \A k \in 2..n : k \div 2 = i => key[place[j]] <= key[place[k]]
    BY <1>0, <1>3, <1>4, EstFacts
  <1>6. HeapTypes' /\ CompleteTree'
    BY <1>0, <1>1, <1>3, <1>4, SwapTree
  <1>7. /\ Len(place') = n /\ place'[i] = place[j] /\ place'[j] = v /\ i # j
        /\ \A k \in 1..n : k # i /\ k # j => place'[k] = place[k]
        /\ members' = members
    BY <1>0, <1>1, <1>3, <1>4, SwapPlaces
  <1>8. Call'
    BY <1>0, <1>1, <1>2, <1>7 DEF Call
  <1>9. \A x, y \in 1..n : place[x] = place[y] => x = y
    BY <1>0 DEF CompleteTree
  <1>10. \A k \in 2..n : k \in 1..n /\ k \div 2 \in 1..n /\ k \div 2 < k /\ k \div 2 # k
    BY <1>0, Upper, NodeFacts
  <1>11. n \in Nat /\ j \in 2..n /\ i < j
    <2>1. n \in Nat
      BY <1>0, NodeFacts
    <2> QED
      BY <1>4, <2>1, Half
  <1>12. \A k \in 2..n : k # i /\ k \div 2 # i => key[place[k \div 2]] <= key[place[k]]
    BY <1>0, <1>3, <1>9, <1>10 DEF Ordered
  <1>13. Ordered'
    <2> SUFFICES ASSUME NEW k \in 2..n
                 PROVE  /\ \/ place'[k] = v
                           \/ place'[k \div 2] = v
                           \/ key[place'[k \div 2]] <= key[place'[k]]
                        /\ place'[k \div 2] = v /\ k \div 2 >= 2 =>
                             key[place'[(k \div 2) \div 2]] <= key[place'[k]]
      BY <1>1, <1>7 DEF Ordered
    <2>1. \/ place'[k] = v
          \/ place'[k \div 2] = v
          \/ key[place'[k \div 2]] <= key[place'[k]]
      <3>1. CASE k = j \/ k \div 2 = j
        BY <1>7, <3>1
      <3>2. CASE k = i
        <4>1. i >= 2 /\ i \div 2 \in 1..n /\ i \div 2 # i /\ i \div 2 # j
          BY <1>10, <1>11, <3>2
        <4>2. key[place[i \div 2]] <= key[place[j]]
          BY <1>0, <1>1, <1>3, <1>4, <1>11, <4>1 DEF Ordered
        <4> QED
          BY <1>7, <3>2, <4>1, <4>2
      <3>3. CASE k # j /\ k \div 2 = i
        <4>1. k # i
          BY <1>10, <3>3
        <4> QED
          BY <1>5, <1>7, <1>10, <3>3, <4>1
      <3>4. CASE k # j /\ k # i /\ k \div 2 # i /\ k \div 2 # j
        BY <1>7, <1>10, <1>12, <3>4
      <3> QED
        BY <3>1, <3>2, <3>3, <3>4
    <2>2. ASSUME place'[k \div 2] = v
          PROVE  key[place'[(k \div 2) \div 2]] <= key[place'[k]]
      <3>1. k \div 2 = j
        <4>1. place[j] # v
          BY <1>3, <1>7, <1>9
        <4>2. \A x \in 1..n : place[x] = v => x = i
          BY <1>3, <1>9
        <4> QED
          BY <1>7, <1>10, <2>2, <4>1, <4>2
      <3>2. k # i /\ k # j /\ k \div 2 # i
        BY <1>7, <1>10, <1>11, <3>1
      <3> QED
        BY <1>4, <1>7, <1>10, <1>12, <3>1, <3>2
    <2> QED
      BY <2>1, <2>2
  <1> QED
    BY <1>6, <1>8, <1>13 DEF HeapInv

\* v precedes its children; only the node above it may still be out of order.
LEMMA SiftedDownStep ==
    ASSUME HeapInv, SiftedDown
    PROVE  HeapInv'
  <1>0. HeapTypes /\ CompleteTree /\ Call /\ Ordered
    BY DEF HeapInv
  <1>1. /\ pc = "down" /\ est = v /\ pc' = "up"
        /\ UNCHANGED <<root, nelts, parent, left, right, key, op, node, v, place>>
    BY DEF SiftedDown
  <1>2. HeapTypes' /\ CompleteTree' /\ members' = members
    BY <1>0, <1>1, SameTree DEF HeapTypes, CompleteTree
  <1>3. Call'
    BY <1>0, <1>1, <1>2 DEF Call
  <1>4. \A k \in 2..Len(place) : place[k \div 2] = v => key[place[k \div 2]] <= key[place[k]]
    <2> SUFFICES ASSUME NEW k \in 2..Len(place), place[k \div 2] = v
                 PROVE  key[v] <= key[place[k]]
      OBVIOUS
    <2>1. k \div 2 \in 1..Len(place)
      BY <1>0, Upper
    <2> QED
      BY <1>0, <1>1, <2>1, EstFacts
  <1>5. Ordered'
    BY <1>0, <1>1, <1>4 DEF Ordered
  <1> QED
    BY <1>2, <1>3, <1>5 DEF HeapInv

\* v changes places with the node above it, which precedes all that was below v.
LEMMA SiftUpStep ==
    ASSUME HeapInv, SiftUp
    PROVE  HeapInv'
  <1> DEFINE n == Len(place)
  <1>0. HeapTypes /\ CompleteTree /\ Call /\ Ordered
    BY DEF HeapInv
  <1>1. /\ pc = "up" /\ parent[v] # NULL /\ key[v] < key[parent[v]] /\ heap_swap(parent[v], v)
        /\ UNCHANGED <<nelts, key, pc, op, node, rest, path, cur, v>>
    BY DEF SiftUp, Above, compare
  <1>2. v \in members
    BY <1>0, <1>1 DEF Call
  <1>3. PICK j \in 1..n : v = place[j]
    BY <1>2 DEF members
  <1> DEFINE i == j \div 2
  <1>4. i \in 1..n /\ parent[v] = place[i] /\ i \in Nat /\ j \in Nat /\ n \in Nat /\ i < j
    <2>1. i \in Nat /\ i < j /\ n \in Nat /\ j \in Nat
      BY <1>0, <1>3, NodeFacts, Half
    <2>2. parent[v] = Node(i)
      BY <1>0, <1>3, LinkFacts
    <2>3. i \in 1..n
      BY <1>0, <1>1, <2>1, <2>2, NodeFacts
    <2> QED
      BY <1>0, <2>1, <2>2, <2>3, NodeFacts
  <1> HIDE DEF i
  <1>5. j \div 2 = i
    BY DEF i
  <1>6. HeapTypes' /\ CompleteTree'
    BY <1>0, <1>1, <1>3, <1>4, <1>5, SwapTree
  <1>7. /\ Len(place') = n /\ place'[i] = v /\ place'[j] = place[i] /\ i # j
        /\ \A k \in 1..n : k # i /\ k # j => place'[k] = place[k]
        /\ members' = members
    <2>1. heap_swap(place[i], place[j])
      BY <1>1, <1>3, <1>4
    <2> QED
      BY <1>0, <1>3, <1>4, <1>5, <2>1, SwapPlaces
  <1>8. Call'
    BY <1>0, <1>1, <1>2, <1>7 DEF Call
  <1>9. \A x, y \in 1..n : place[x] = place[y] => x = y
    BY <1>0 DEF CompleteTree
  <1>10. \A k \in 2..n : k \in 1..n /\ k \div 2 \in 1..n /\ k \div 2 < k /\ k \div 2 # k
    BY <1>0, Upper, NodeFacts
  <1>11. \A k \in 2..n : k # j => key[place[k \div 2]] <= key[place[k]]
    BY <1>0, <1>1, <1>3, <1>9, <1>10 DEF Ordered
  <1>12. \A k \in 1..n : key[place[k]] \in Nat
    BY <1>0, NodeFacts DEF HeapTypes
  <1>13. key[v] < key[place[i]] /\ key[v] \in Nat /\ j \in 2..n
    <2>1. key[v] < key[place[i]]
      BY <1>1, <1>4
    <2>2. key[v] \in Nat
      BY <1>3, <1>12
    <2>3. j \in 2..n
      BY <1>4
    <2> QED
      BY <2>1, <2>2, <2>3
  <1>14. Ordered'
    <2> SUFFICES ASSUME NEW k \in 2..n
                 PROVE  /\ place'[k] = v \/ key[place'[k \div 2]] <= key[place'[k]]
                        /\ place'[k \div 2] = v /\ k \div 2 >= 2 =>
                             key[place'[(k \div 2) \div 2]] <= key[place'[k]]
      BY <1>1, <1>7 DEF Ordered
    <2>1. place'[k] = v \/ key[place'[k \div 2]] <= key[place'[k]]
      <3>1. CASE k = i
        BY <1>7, <3>1
      <3>2. CASE k = j
        <4>1. key[v] <= key[place[i]]
          BY <1>4, <1>12, <1>13
        <4> QED
          BY <1>5, <1>7, <3>2, <4>1
      <3>3. CASE k # j /\ k \div 2 = i
        <4>1. k # i /\ key[place[i]] <= key[place[k]]
          BY <1>10, <1>11, <3>3
        <4>2. key[v] <= key[place[k]]
          BY <1>4, <1>10, <1>12, <1>13, <4>1
        <4> QED
          BY <1>7, <1>10, <3>3, <4>1, <4>2
      <3>4. CASE k \div 2 = j
        <4>1. j >= 2 /\ k # i /\ k # j
          BY <1>4, <1>10, <1>13, <3>4
        <4>2. key[place[i]] <= key[place[k]]
          BY <1>0, <1>1, <1>3, <1>5, <3>4, <4>1 DEF Ordered
        <4> QED
          BY <1>7, <1>10, <3>4, <4>1, <4>2
      <3>5. CASE k # i /\ k # j /\ k \div 2 # i /\ k \div 2 # j
        BY <1>7, <1>10, <1>11, <3>5
      <3> QED
        BY <3>1, <3>2, <3>3, <3>4, <3>5
    <2>2. ASSUME place'[k \div 2] = v, k \div 2 >= 2
          PROVE  key[place'[(k \div 2) \div 2]] <= key[place'[k]]
      <3>1. k \div 2 = i
        <4>1. \A x \in 1..n : place[x] = v => x = j
          BY <1>3, <1>9
        <4>2. place[i] # v
          BY <1>4, <1>7, <4>1
        <4> QED
          BY <1>7, <1>10, <2>2, <4>1, <4>2
      <3>2. i \in 2..n /\ i # j
        BY <1>4, <2>2, <3>1
      <3>3. i \div 2 \in 1..n /\ i \div 2 # i /\ i \div 2 # j
        BY <1>4, <1>10, <3>2
      <3>4. place'[i \div 2] = place[i \div 2] /\ key[place[i \div 2]] <= key[place[i]]
        BY <1>7, <1>11, <3>2, <3>3
      <3>5. CASE k = j
        BY <1>7, <3>1, <3>4, <3>5
      <3>6. CASE k # j
        <4>1. k # i /\ key[place[i]] <= key[place[k]]
          BY <1>10, <1>11, <3>1, <3>6
        <4>2. key[place[i \div 2]] <= key[place[k]]
          BY <1>4, <1>10, <1>12, <3>3, <3>4, <4>1
        <4> QED
          BY <1>7, <1>10, <3>1, <3>4, <3>6, <4>1, <4>2
      <3> QED
        BY <3>5, <3>6
    <2> QED
      BY <2>1, <2>2
  <1> QED
    BY <1>6, <1>8, <1>14 DEF HeapInv

\* No neighbours are out of order any more when the call returns.
LEMMA SiftedUpStep ==
    ASSUME HeapInv, SiftedUp
    PROVE  HeapInv'
  <1>0. HeapTypes /\ CompleteTree /\ Call /\ Ordered
    BY DEF HeapInv
  <1>1. /\ pc = "up" /\ ~Above /\ Return
        /\ UNCHANGED <<root, nelts, parent, left, right, key, place>>
    BY DEF SiftedUp
  <1>1a. pc' = (IF op = "reset" THEN "again" ELSE "idle") /\ (op = "reset" => node' = node)
    BY <1>1 DEF Return
  <1>2. HeapTypes' /\ CompleteTree' /\ members' = members
    BY <1>0, <1>1, <1>1a, SameTree DEF HeapTypes, CompleteTree
  <1>3. Call'
    BY <1>0, <1>1, <1>1a, <1>2 DEF Call
  <1>4. \A k \in 2..Len(place) : place[k] = v => key[place[k \div 2]] <= key[place[k]]
    <2> SUFFICES ASSUME NEW k \in 2..Len(place), place[k] = v
                 PROVE  key[place[k \div 2]] <= key[v]
      OBVIOUS
    <2>1. parent[v] = place[k \div 2] /\ parent[v] # NULL /\ v \in Nodes /\ parent[v] \in Nodes
      BY <1>0, Upper
    <2>2. ~(key[v] < key[parent[v]]) /\ key[v] \in Nat /\ key[parent[v]] \in Nat
      BY <1>0, <1>1, <2>1 DEF Above, compare, HeapTypes
    <2> QED
      BY <2>1, <2>2
  <1>5. Ordered'
    BY <1>0, <1>1, <1>1a, <1>4 DEF Ordered
  <1> QED
    BY <1>2, <1>3, <1>5 DEF HeapInv

\* The invariant holds at every step of every call.
THEOREM HeapInvariant == HeapSpec => []HeapInv
  <1>1. heap_init => HeapInv
    <2> SUFFICES ASSUME heap_init PROVE HeapInv
      OBVIOUS
    <2>1. /\ root = NULL /\ nelts = 0 /\ place = <<>> /\ Len(place) = 0 /\ pc = "idle"
          /\ 1..Len(place) = {} /\ 2..Len(place) = {}
      BY DEF heap_init
    <2>2. HeapTypes
      BY <2>1 DEF heap_init, HeapTypes
    <2>3. CompleteTree
      BY <2>1 DEF heap_init, CompleteTree, Node
    <2> QED
      BY <2>1, <2>2, <2>3 DEF HeapInv, Call, Ordered
  <1>2. HeapInv /\ [HeapNext]_heapVars => HeapInv'
    <2> SUFFICES ASSUME HeapInv, [HeapNext]_heapVars PROVE HeapInv'
      OBVIOUS
    <2>1. CASE UNCHANGED heapVars
      <3>1. UNCHANGED <<root, nelts, parent, left, right, key, pc, op, node, rest, path, cur, v, place>>
        BY <2>1 DEF heapVars
      <3>2. UNCHANGED <<members, Goal>> /\ \A k : Node(k)' = Node(k)
        BY <3>1 DEF members, Goal, Node
      <3>3. HeapTypes'
        BY <3>1 DEF HeapInv, HeapTypes
      <3>4. CompleteTree'
        BY <3>1, <3>2 DEF HeapInv, CompleteTree
      <3>5. Searching => Searching'
        BY <3>1, <3>2 DEF Searching, PathInv
      <3>6. Call'
        BY <3>1, <3>2, <3>5 DEF HeapInv, Call
      <3>7. Ordered'
        BY <3>1 DEF HeapInv, Ordered
      <3> QED
        BY <3>3, <3>4, <3>6, <3>7 DEF HeapInv
    <2>2. ASSUME NEW m \in Nodes, Insert(m) PROVE HeapInv'
      BY <2>2, InsertStep DEF Insert
    <2>3. ASSUME NEW m \in Nodes, Remove(m) PROVE HeapInv'
      BY <2>3, RemoveStep DEF Remove
    <2>4. ASSUME NEW m \in Nodes, Reset(m) PROVE HeapInv'
      BY <2>4, RemoveStep DEF Reset
    <2>5. CASE InsertAgain
      <3>1. node \in Nodes \ members
        BY <2>5 DEF InsertAgain, HeapInv, Call
      <3> QED
        BY <2>5, <3>1, InsertStep DEF InsertAgain
    <2> QED
      BY <2>1, <2>2, <2>3, <2>4, <2>5, TakeBitStep, PathTakenStep, WalkStep, LinkStep,
         RemoveOnlyStep, ReplaceStep, SiftDownStep, SiftedDownStep, SiftUpStep, SiftedUpStep
         DEF HeapNext
  <1> QED
    BY <1>1, <1>2, PTL DEF HeapSpec

\* At every step of heap_insert and heap_remove the pointers of any number of
\* timers form the complete tree that the path taken from nelts leads through.
THEOREM TimersFormCompleteTree == HeapSpec => []CompleteTree
  <1>1. HeapInv => CompleteTree
    BY DEF HeapInv
  <1> QED
    BY <1>1, HeapInvariant, PTL

LessThan == {p \in Nat \X Nat : p[1] < p[2]}

\* A set of places has a first one.
LEMMA Least ==
    ASSUME NEW T \in SUBSET Nat, T # {}
    PROVE  \E x \in T : \A y \in T : x <= y
  <1>0. IsWellFoundedOn(LessThan, Nat)
    BY NatLessThanWellFounded DEF OpToRel, LessThan
  <1>1. PICK x \in T : \A y \in T : ~(<<y, x>> \in LessThan)
    BY <1>0, WFMin
  <1>2. ASSUME NEW y \in T PROVE x <= y
    <2>1. x \in Nat /\ y \in Nat
      OBVIOUS
    <2>2. y < x => <<y, x>> \in LessThan
      BY <2>1 DEF LessThan
    <2> QED
      BY <1>1, <2>1, <2>2
  <1> QED
    BY <1>2

\* Neighbours in order make the root the first of all: the first place whose
\* node came before the root would come before the place above it.
LEMMA RootFirst ==
    ASSUME HeapInv, pc \notin {"up", "down"}
    PROVE  \A m \in members : key[root] <= key[m]
  <1> DEFINE n == Len(place)
             T == {k \in 1..n : key[place[k]] < key[root]}
  <1>0. HeapTypes /\ CompleteTree /\ Ordered
    BY DEF HeapInv
  <1>1. /\ n \in Nat /\ \A k \in 1..n : key[place[k]] \in Nat
        /\ n # 0 => root = place[1]
    <2>1. n \in Nat /\ \A k \in 1..n : key[place[k]] \in Nat
      BY <1>0, NodeFacts DEF HeapTypes
    <2>1a. n \in Nat
      BY <2>1
    <2>2. n # 0 => 1 \in 1..n
      BY <2>1a
    <2> QED
      BY <1>0, <2>1, <2>2, NodeFacts DEF CompleteTree
  <1>2. T = {}
    <2> SUFFICES ASSUME T # {} PROVE FALSE
      OBVIOUS
    <2>0. T \subseteq Nat
      BY <1>1
    <2>1. PICK x \in T : \A y \in T : x <= y
      BY <2>0, Least
    <2>2. x \in 1..n /\ key[place[x]] < key[root] /\ n # 0
      BY <1>1
    <2>3. x # 1 /\ key[root] \in Nat /\ 1 \in 1..n
      <3>1. n \in Nat
        BY <1>1
      <3>2. 1 \in 1..n
        BY <2>2, <3>1
      <3>3. root = place[1] /\ key[root] \in Nat
        BY <1>1, <2>2, <3>2
      <3>4. ~(key[root] < key[root])
        BY <3>3
      <3> QED
        BY <2>2, <3>2, <3>3, <3>4
    <2>4. x \in 2..n
      BY <1>1, <2>2, <2>3
    <2>5. key[place[x \div 2]] <= key[place[x]]
      BY <1>0, <2>4 DEF Ordered
    <2>6. x \div 2 \in 1..n /\ x \div 2 < x
      BY <1>0, <2>4, Upper
    <2>7. x \div 2 \in T
      <3>1. key[place[x \div 2]] \in Nat /\ key[place[x]] \in Nat
        BY <1>1, <2>2, <2>6
      <3>2. key[place[x \div 2]] < key[root]
        BY <2>2, <2>3, <2>5, <3>1
      <3> QED
        BY <2>6, <3>2
    <2>8. x <= x \div 2
      BY <2>1, <2>7
    <2> QED
      BY <1>1, <2>2, <2>6, <2>8
  <1>3. \A k \in 1..n : key[root] <= key[place[k]]
    <2> SUFFICES ASSUME NEW k \in 1..n PROVE key[root] <= key[place[k]]
      OBVIOUS
    <2>1. ~(key[place[k]] < key[root])
      BY <1>2
    <2>2. n # 0 /\ 1 \in 1..n
      BY <1>1
    <2>3. key[root] \in Nat /\ key[place[k]] \in Nat
      BY <1>1, <2>2
    <2> QED
      BY <2>1, <2>3
  <1> QED
    BY <1>3 DEF members

\* With any number of timers and any time-outs, after any insertions, removals
\* and resets, no timer has an earlier time-out than the root.
THEOREM EarliestTimerIsRoot == HeapSpec => []RootIsFirst
  <1>1. HeapInv => RootIsFirst
    BY RootFirst DEF RootIsFirst
  <1> QED
    BY <1>1, HeapInvariant, PTL
=============================================================================
