------------------------------ MODULE Nothing -------------------------------
(* The value that stands for NULL, None and "not yet" in the components'     *)
(* modules, which can so be used together in one.                            *)
CONSTANT None
=============================================================================
