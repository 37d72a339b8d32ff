----------------------------- MODULE MCLockTable -----------------------------
(* Instances of LockTable for TLC: all resources share one bucket. *)
EXTENDS LockTable

OneBucket == [r \in Resource |-> CHOOSE b \in Bucket : TRUE]
SharedUpdate == {SHARED, UPDATE}
ThreeModes == {SHARED, EXCLUSIVE, UPDATE}
=============================================================================
