-------------------------- MODULE MCProductCatalog --------------------------
(* Calls on one product; with another, keys do not meet. *)
EXTENDS ProductCatalog

CONSTANTS c1, c2, c3, mug
=============================================================================
