------------------------------- MODULE MCVpsJobs -------------------------------
(* VpsJobs with the symmetry of its request threads. *)
EXTENDS VpsJobs, TLC

Symmetry == Permutations(Handlers)
================================================================================
