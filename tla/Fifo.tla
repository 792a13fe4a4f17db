-------------------------------- MODULE Fifo --------------------------------
(***************************************************************************)
(* What a queue promises: elements leave at the front in the order in      *)
(* which they entered, or at the back if it is used as a stack.            *)
(***************************************************************************)
EXTENDS Sequences

CONSTANT Values
VARIABLE q

Init == q = <<>>

Push(e) == q' = Append(q, e)
PopFront == q # <<>> /\ q' = Tail(q)
PopBack == q # <<>> /\ \E e \in Values : q = Append(q', e)
Clear == q' = <<>>

Next == (\E e \in Values : Push(e)) \/ PopFront \/ PopBack \/ Clear

Spec == Init /\ [][Next]_q
=============================================================================
