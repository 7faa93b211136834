---------------------------- MODULE MCStreamQueue ----------------------------
(* StreamQueue on a small instance. *)
EXTENDS StreamQueue, TLC

Symmetry == Permutations(Rentals)
================================================================================
