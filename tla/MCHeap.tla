-------------------------------- MODULE MCHeap --------------------------------
(* Seven nodes, a tree of three full levels: removing a node on the left can  *)
(* bring up a last node from the right that has to be sifted up.              *)
EXTENDS Heap, TLC
Symmetric == Permutations(Nodes)
=============================================================================
