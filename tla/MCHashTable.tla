----------------------------- MODULE MCHashTable -----------------------------
(***************************************************************************)
(* A table from 2 slots to at most 8, with an iterator, and three keys     *)
(* chosen to collide: k1 and k2 hash to the same slot in every array, its  *)
(* last, so the second one wraps around; k3 joins them only below 8 slots, *)
(* where it comes to the slot they wrap into.                              *)
(***************************************************************************)
EXTENDS HashTableIter, TLC

CONSTANTS k1, k2, k3, v1, v2

MCValues == {v1, v2}
MCKeys == {k1, k2, k3}
MCHash == (k1 :> 7) @@ (k2 :> 7) @@ (k3 :> 3)
=============================================================================
