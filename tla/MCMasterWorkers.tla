-------------------------- MODULE MCMasterWorkers --------------------------
(* Two workers, and enough deaths for one slot to use up its respawns. *)
EXTENDS MasterWorkers
=============================================================================
