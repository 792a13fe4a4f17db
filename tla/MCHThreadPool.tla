---------------------------- MODULE MCHThreadPool ----------------------------
(* Two threads per start, two tasks, and a restart after a stop. *)
EXTENDS HThreadPool
=============================================================================
