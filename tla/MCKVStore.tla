------------------------------ MODULE MCKVStore ------------------------------
(* Instances of KVStore for TLC. *)
EXTENDS KVStore, TLC

CONSTANTS k1, k2, k3, v1, v2

TwoVals == {v1, v2}

\* The two values are interchangeable: no action looks into a value.
ValSymmetry == Permutations(TwoVals)

\* Every key at home: no two keys collide.
HashSpread == k1 :> 0 @@ k2 :> 1

\* k1 and k2 start at the last slot, so a chain wraps around to slot 0.
HashClash == k1 :> 1 @@ k2 :> 1 @@ k3 :> 0
=============================================================================
