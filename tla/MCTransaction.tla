---------------------------- MODULE MCTransaction ----------------------------
(* Instances of Transaction for TLC. *)
EXTENDS Transaction, TLC

CONSTANTS v1, v2

TwoVals == {v1, v2}

\* Row values are interchangeable: no statement looks into one.
ValSymmetry == Permutations(TwoVals)
=============================================================================
