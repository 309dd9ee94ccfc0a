------------------------------ MODULE MCOrders ------------------------------
(* The instances of Orders that TLC checks. *)
EXTENDS Orders, TLC

CONSTANTS c1, c2, c3

\* Checkouts, phones and staff are interchangeable; plants are ordered.
CheckoutSymmetry == Permutations(Checkouts)
Symmetry == Permutations(Checkouts) \cup Permutations(Staff)
=============================================================================
