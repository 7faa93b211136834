---------------------------- MODULE MCRemoteAccess ----------------------------
(* RemoteAccess with the symmetry of its request threads. *)
EXTENDS RemoteAccess, TLC

Symmetry == Permutations(Requests)
================================================================================
