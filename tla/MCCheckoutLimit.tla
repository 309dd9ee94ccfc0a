--------------------------- MODULE MCCheckoutLimit ---------------------------
(* The instance in which the limit is exceeded: one shopper, who writes a *)
(* number in two ways, with more checkouts than the limit and the pool.     *)
EXTENDS CheckoutLimit

CONSTANTS local, abroad

MCCanonical == [s \in {local, abroad} |-> local]
=============================================================================
