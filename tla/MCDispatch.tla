---------------------------- MODULE MCDispatch -----------------------------
(* Instances of Dispatch for TLC. *)
EXTENDS Dispatch, TLC

CONSTANTS s1, s2, d1, d2, w1, w2, c1, c2

Interchangeable == Permutations(SaleIds) \union Permutations(Drivers)
                     \union Permutations(Celery) \union Permutations(Web)
=============================================================================
