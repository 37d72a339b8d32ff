------------------------------ MODULE DurableMap ------------------------------
(***************************************************************************)
(* What src/storage.c promises the layers above it: a map from keys to     *)
(* values, updated one key at a time, that outlives the process.  The one  *)
(* concession is Forget: a death of the process in the middle of a         *)
(* snapshot may lose keys, but it never changes the value of a key that is *)
(* kept, so no key goes back to an older value.                            *)
(***************************************************************************)
CONSTANTS Key, Val, None

VARIABLE map

Init == map = [k \in Key |-> None]

Set(k, v) == map' = [map EXCEPT ![k] = v]

Clear(k) == map' = [map EXCEPT ![k] = None]

Forget(K) == map' = [k \in Key |-> IF k \in K THEN None ELSE map[k]]

Next ==
  \/ \E k \in Key, v \in Val : Set(k, v)
  \/ \E k \in Key : Clear(k)
  \/ \E K \in SUBSET Key : Forget(K)

Spec == Init /\ [][Next]_map
=============================================================================
