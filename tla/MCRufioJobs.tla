---------------------------- MODULE MCRufioJobs ----------------------------
(* RufioJobs with the two power actions around a boot. *)
EXTENDS RufioJobs

PowerCycle == <<"off", "on">>

=============================================================================
