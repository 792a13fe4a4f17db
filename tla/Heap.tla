--------------------------------- MODULE Heap ---------------------------------
(***************************************************************************)
(* base/heap.h, the heap of pointers in which a loop keeps its timers. A   *)
(* call of heap_insert or heap_remove is a sequence of steps, one for each *)
(* turn of its loops. Calls come one after the other, as those of the loop *)
(* thread do. hio_write on another thread also gets here, without a lock,  *)
(* when the connection has a keep-alive time-out: __write_cb (nio.c:85)    *)
(* calls htimer_reset. What two calls at once do is not modelled.          *)
(***************************************************************************)
EXTENDS Naturals, Sequences

CONSTANTS
    Nodes,      \* heap_node's in timers
    Keys,       \* values of next_timeout
    NULL

ASSUME HeapAssumption == NULL \notin Nodes /\ Keys \subseteq Nat

VARIABLES
    root, nelts,                \* struct heap
    parent, left, right, key,   \* of each node
    \* the call under way
    pc,     \* where it is
    op,     \* "insert", "remove", or "reset", a removal before an insertion
    node,   \* the node that goes in or out
    rest,   \* n in the loop that takes the path
    path,   \* the values of rest, whose lowest bits the code keeps
    cur,    \* the walk down the path, parent in the code
    v,      \* the node that is sifted
    \* history
    place   \* the nodes of the tree, level by level

heapVars == <<root, nelts, parent, left, right, key, pc, op, node, rest, path, cur, v, place>>

members == {place[k] : k \in 1..Len(place)}

\* The nodes are zeroed by HV_ALLOC.
heap_init ==
    /\ root = NULL /\ nelts = 0
    /\ parent = [m \in Nodes |-> NULL]
    /\ left = [m \in Nodes |-> NULL]
    /\ right = [m \in Nodes |-> NULL]
    /\ key = [m \in Nodes |-> 0]
    /\ pc = "idle" /\ op = "none" /\ node = NULL
    /\ rest = 0 /\ path = <<>> /\ cur = NULL /\ v = NULL
    /\ place = <<>>

\* timers_compare
compare(a, b) == key[a] < key[b]

\* f with x mapped to y, unless x is NULL.
Put(f, x, y) == IF x = NULL THEN f ELSE [f EXCEPT ![x] = y]

\* The left and the right pointers l and r after what points down to s from its
\* parent p, if it has one, was made to point to t.
LeftTo(l, p, s, t) == IF p # NULL /\ l[p] = s THEN [l EXCEPT ![p] = t] ELSE l
RightTo(l, r, p, s, t) ==
    IF p # NULL /\ l[p] # s /\ r[p] = s THEN [r EXCEPT ![p] = t] ELSE r
RootTo(p, t) == IF p = NULL THEN t ELSE root
-----------------------------------------------------------------------------
(* heap_swap *)

\* Mutant: the sibling keeps its parent.
SwapParentsOnly(p, c, sibling) ==
    [Put(Put(parent, left[c], p), right[c], p) EXCEPT ![c] = parent[p], ![p] = c]

\* The parent pointers after p was swapped with its child c.
SwapParents(p, c, sibling) ==
    [Put(Put(Put(parent, left[c], p), right[c], p), sibling, c)
       EXCEPT ![c] = parent[p], ![p] = c]

heap_swap(p, c) ==
    LET isleft == left[p] = c
        sibling == IF isleft THEN right[p] ELSE left[p]
    IN /\ root' = RootTo(parent[p], c)
       /\ parent' = SwapParents(p, c, sibling)
       /\ left' = [LeftTo(left, parent[p], p, c)
                     EXCEPT ![c] = IF isleft THEN p ELSE sibling, ![p] = left[c]]
       /\ right' = [RightTo(left, right, parent[p], p, c)
                      EXCEPT ![c] = IF isleft THEN sibling ELSE p, ![p] = right[c]]
       /\ place' = [k \in 1..Len(place) |->
                      IF place[k] = p THEN c ELSE IF place[k] = c THEN p ELSE place[k]]
-----------------------------------------------------------------------------
(* The path to the last place, and the walk to the node above it *)

Begin(o, m, count, first) ==
    /\ op' = o /\ node' = m
    /\ nelts' = count
    /\ rest' = first /\ path' = <<>> /\ pc' = "path"
    /\ UNCHANGED <<root, parent, left, right, cur, v, place>>

\* heap_insert of m, whose time-out has just been set to some k.
heap_insert(m) ==
    /\ \E k \in Keys : key' = [key EXCEPT ![m] = k]
    /\ Begin("insert", m, nelts + 1, nelts + 1)

heap_remove(o, m) ==
    /\ Begin(o, m, nelts - 1, nelts)
    /\ UNCHANGED key

\* for (n = nelts; n >= 2; n >>= 1)
TakeBit ==
    /\ pc = "path" /\ rest >= 2
    /\ path' = Append(path, rest)
    /\ rest' = rest \div 2
    /\ UNCHANGED <<root, nelts, parent, left, right, key, pc, op, node, cur, v, place>>

PathTaken ==
    /\ pc = "path" /\ rest < 2
    /\ pc' = "walk" /\ cur' = root
    /\ UNCHANGED <<root, nelts, parent, left, right, key, op, node, rest, path, v, place>>

\* while (d > 1): the bit that was taken last is followed first.
Walk ==
    /\ pc = "walk" /\ Len(path) > 1
    /\ cur' = IF path[Len(path)] % 2 = 1 THEN right[cur] ELSE left[cur]
    /\ path' = SubSeq(path, 1, Len(path) - 1)
    /\ UNCHANGED <<root, nelts, parent, left, right, key, pc, op, node, rest, v, place>>

\* path & 1 after the walk; the path of the only node is 0.
RightBit == path # <<>> /\ path[1] % 2 = 1

Walked == pc = "walk" /\ Len(path) <= 1

\* The call returns; htimer_reset goes on with its insertion.
Return ==
    /\ pc' = IF op = "reset" THEN "again" ELSE "idle"
    /\ node' = IF op = "reset" THEN node ELSE NULL
    /\ op' = "none" /\ rest' = 0 /\ path' = <<>> /\ cur' = NULL /\ v' = NULL
-----------------------------------------------------------------------------
(* heap_insert, after the walk *)

Link ==
    /\ Walked /\ op = "insert"
    /\ parent' = [parent EXCEPT ![node] = cur]
    /\ \/ cur = NULL /\ root' = node /\ UNCHANGED <<left, right>>
       \/ cur # NULL /\ RightBit /\ right' = [right EXCEPT ![cur] = node]
            /\ UNCHANGED <<root, left>>
       \/ cur # NULL /\ ~RightBit /\ left' = [left EXCEPT ![cur] = node]
            /\ UNCHANGED <<root, right>>
    /\ place' = Append(place, node)
    /\ v' = node /\ pc' = "up"
    /\ UNCHANGED <<nelts, key, op, node, rest, path, cur>>
-----------------------------------------------------------------------------
(* heap_remove, after the walk *)

last == IF RightBit THEN right[cur] ELSE left[cur]

\* The node at the last place fills the gap.
Filled ==
    [k \in 1..(Len(place) - 1) |-> IF place[k] = node THEN place[Len(place)] ELSE place[k]]

\* The only node: its path leads to the left of itself, where nothing is.
RemoveOnly ==
    /\ Walked /\ op # "insert"
    /\ last = NULL
    /\ root' = IF root = node THEN NULL ELSE root
    /\ place' = Filled
    /\ Return
    /\ UNCHANGED <<nelts, parent, left, right, key>>

\* The pointers down once the last node is cut off.
CutLeft == IF RightBit THEN left ELSE [left EXCEPT ![cur] = NULL]
CutRight == IF RightBit THEN [right EXCEPT ![cur] = NULL] ELSE right

\* heap_replace(node, last), and node's pointers are cleared.
Replace ==
    /\ Walked /\ op # "insert"
    /\ last # NULL
    /\ root' = RootTo(parent[node], last)
    /\ parent' = [Put(Put(parent, CutLeft[node], last), CutRight[node], last)
                    EXCEPT ![last] = parent[node], ![node] = NULL]
    /\ left' = [LeftTo(CutLeft, parent[node], node, last)
                  EXCEPT ![last] = CutLeft[node], ![node] = NULL]
    /\ right' = [RightTo(CutLeft, CutRight, parent[node], node, last)
                   EXCEPT ![last] = CutRight[node], ![node] = NULL]
    /\ place' = Filled
    /\ v' = last /\ pc' = "down"
    /\ UNCHANGED <<nelts, key, op, node, rest, path, cur>>

\* The first of v and its children, a child before an equal v.
est ==
    LET e == IF left[v] = NULL \/ compare(v, left[v]) THEN v ELSE left[v]
    IN IF right[v] = NULL \/ compare(e, right[v]) THEN e ELSE right[v]

SiftDown ==
    /\ pc = "down" /\ est # v
    /\ heap_swap(v, est)
    /\ UNCHANGED <<nelts, key, pc, op, node, rest, path, cur, v>>

\* Mutant: the node that fills the gap is only sifted down.
SiftedDownReturns ==
    /\ pc = "down" /\ est = v
    /\ Return
    /\ UNCHANGED <<root, nelts, parent, left, right, key, place>>

SiftedDown ==
    /\ pc = "down" /\ est = v
    /\ pc' = "up"
    /\ UNCHANGED <<root, nelts, parent, left, right, key, op, node, rest, path, cur, v, place>>
-----------------------------------------------------------------------------
(* The end of both *)

Above == parent[v] # NULL /\ compare(v, parent[v])

SiftUp ==
    /\ pc = "up" /\ Above
    /\ heap_swap(parent[v], v)
    /\ UNCHANGED <<nelts, key, pc, op, node, rest, path, cur, v>>

SiftedUp ==
    /\ pc = "up" /\ ~Above
    /\ Return
    /\ UNCHANGED <<root, nelts, parent, left, right, key, place>>
-----------------------------------------------------------------------------
(* What the loop does with its timers *)

\* htimer_add: a timer with some time-out goes into the heap.
Insert(m) == pc = "idle" /\ m \notin members /\ heap_insert(m)

\* __htimer_del: any timer leaves the heap.
Remove(m) == pc = "idle" /\ m \in members /\ heap_remove("remove", m)

\* htimer_reset of any timer, and hloop_process_timers with the root: it leaves
\* the heap and comes back with another time-out.
Reset(m) == pc = "idle" /\ m \in members /\ heap_remove("reset", m)

InsertAgain == pc = "again" /\ heap_insert(node)

HeapNext ==
    \/ \E m \in Nodes : Insert(m) \/ Remove(m) \/ Reset(m)
    \/ InsertAgain
    \/ TakeBit \/ PathTaken \/ Walk
    \/ Link \/ RemoveOnly \/ Replace
    \/ SiftDown \/ SiftedDown \/ SiftUp \/ SiftedUp

HeapSpec == heap_init /\ [][HeapNext]_heapVars
-----------------------------------------------------------------------------
(* Properties *)

\* The node at place k, or NULL beyond the last.
Node(k) == IF k \in 1..Len(place) THEN place[k] ELSE NULL

\* At every step of a call the pointers form the complete binary tree that the
\* path taken from nelts relies on: the inserted nodes are at the places 1, 2,
\* ..., the pointers of place k lead to 2k, 2k + 1 and k / 2, a node outside has
\* no children, and nelts counts the nodes once a call has linked or unlinked one.
CompleteTree ==
    /\ \A i, j \in 1..Len(place) : place[i] = place[j] => i = j
    /\ root = Node(1)
    /\ \A k \in 1..Len(place) :
         /\ parent[place[k]] = Node(k \div 2)
         /\ left[place[k]] = Node(2 * k)
         /\ right[place[k]] = Node(2 * k + 1)
    /\ \A m \in Nodes \ members : left[m] = NULL /\ right[m] = NULL
    /\ pc \notin {"path", "walk"} => nelts = Len(place)

\* No timer has an earlier time-out than the root, which is the only one that
\* hloop_process_timers and the block time of hloop_process_events look at,
\* after insertions and removals anywhere in the tree, equal times included.
RootIsFirst ==
    pc \notin {"up", "down"} => \A m \in members : key[root] <= key[m]
=============================================================================
