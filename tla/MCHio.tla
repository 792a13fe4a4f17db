-------------------------------- MODULE MCHio --------------------------------
(* Two other threads, two connections of the descriptor, two messages on each. *)
EXTENDS Hio
=============================================================================
