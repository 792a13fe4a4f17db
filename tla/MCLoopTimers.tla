----------------------------- MODULE MCLoopTimers -----------------------------
(* Two timers of one or two repeats or without end, and two idles. *)
EXTENDS LoopTimers, TLC
Symmetric == Permutations(Timers) \cup Permutations(Idles)
=============================================================================
