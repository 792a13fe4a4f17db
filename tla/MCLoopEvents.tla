---------------------------- MODULE MCLoopEvents ----------------------------
(* Two posting threads and the loop thread, which posts from its callbacks. *)
EXTENDS LoopEvents
=============================================================================
