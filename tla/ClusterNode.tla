---------------------------- MODULE ClusterNode ----------------------------
(***************************************************************************)
(* The tables one process of src/cluster.c keeps besides its Raft state:   *)
(* the node and partition tables, written by the heartbeat thread and by   *)
(* administration, and the pool of client connections, written by the      *)
(* threads that serve them.                                                *)
(***************************************************************************)
EXTENDS Partitions, ClientPool

nodevars == <<ptvars, cpvars>>

NodeInit == cluster_start /\ client_pool_init

NodeNext == \/ TableNext /\ UNCHANGED cpvars
            \/ ClientsNext /\ UNCHANGED ptvars

\* Until replicas are assigned, no sequence of joins, deaths and half-done
\* rebalances loses or doubles a partition: it is in its primary's list, once,
\* and in no other node's; and client_count stays within the limit and counts
\* the occupied slots, less the free ones client_cleanup_inactive disconnected.
TablesSound == NodeTableSound /\ ClientsCounted
=============================================================================
