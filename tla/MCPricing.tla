------------------------------ MODULE MCPricing ------------------------------
(* The instance of the runs on single carts: a threshold of 4 VND in half-VND *)
(* units, so that carts fall short of it, meet it and pass it.               *)
EXTENDS Pricing
=============================================================================
