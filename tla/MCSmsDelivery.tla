---------------------------- MODULE MCSmsDelivery -----------------------------
(* SmsDelivery with the symmetry of its request threads. *)
EXTENDS SmsDelivery, TLC

Symmetry == Permutations(Requests)
================================================================================
