---------------------------- MODULE MCMapReduce ----------------------------
(* MapReduce for TLC.  The workers are model values; a run that checks liveness
   uses no symmetry. *)
EXTENDS MapReduce
=============================================================================
