------------------------------- MODULE MCMvcc -------------------------------
(* Instances of Mvcc for TLC. *)
EXTENDS Mvcc

\* One level without a snapshot and one with.
TwoLevels == {READ_COMMITTED, REPEATABLE_READ}
=============================================================================
