----------------------------- MODULE MCCluster -----------------------------
(* Instance of Cluster for TLC: the nodes are interchangeable. *)
EXTENDS Cluster, TLC

NodeSymmetry == Permutations(Node)
=============================================================================
