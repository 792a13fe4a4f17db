------------------------------ MODULE MCQueue ------------------------------
(* Capacities 0, 2 and 3, doubled up to 8 or 6 by at most 5 elements. *)
EXTENDS Queue
=============================================================================
