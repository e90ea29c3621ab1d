------------------------------ MODULE MCRooms ------------------------------
(* Model-checking instance of Rooms: months of two and three days. *)
EXTENDS Rooms, TLC

CONSTANTS m1, m2, u1, u2, x1, q1, q2

MCDate ==
  [d \in 0 .. LastDay + 1 |->
     IF d < 2 THEN [day |-> d + 1, length |-> 2] ELSE [day |-> ((d - 2) % 3) + 1, length |-> 3]]

Symmetry == Permutations(Requests)
=============================================================================
