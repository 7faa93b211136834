----------------------------- MODULE MCBayOccupancy -----------------------------
(* BayOccupancy with the symmetry of its request threads and two customers. *)
EXTENDS BayOccupancy, TLC

Symmetry == Permutations(Handlers)

\* One customer per rental: the first rental's customer and everybody else
CONSTANTS FirstRental, FirstUser, SecondUser
TwoBuyers == [r \in Rentals |-> IF r = FirstRental THEN FirstUser ELSE SecondUser]
================================================================================
