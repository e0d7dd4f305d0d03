----------------------------- MODULE MCOrders ------------------------------
(* Instances of Orders for TLC. *)
EXTENDS Orders, TLC

CONSTANTS s1, s2, p1, p2

Interchangeable == Permutations(Procs) \union Permutations(SaleIds)
=============================================================================
