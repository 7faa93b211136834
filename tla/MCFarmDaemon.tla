----------------------------- MODULE MCFarmDaemon -----------------------------
(* FarmDaemon with two jobs for one slot, or one of them for a foreign slot. *)
EXTENDS FarmDaemon, TLC

CONSTANTS j1, j2, s1

OneSlot == {j1 :> s1 @@ j2 :> s1, j1 :> s1 @@ j2 :> NoSlot}
================================================================================
