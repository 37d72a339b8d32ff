----------------------------- MODULE Partitions -----------------------------
(***************************************************************************)
(* One node's table of nodes and partitions in src/cluster.c: heartbeat    *)
(* rounds and the health check of the heartbeat thread, partition          *)
(* assignment, rebalancing when a node joins or dies.  A rebalance is      *)
(* taken one turn of its while loop at a time, so a loop that finds no     *)
(* receiver is a state without a step.                                     *)
(* Calls are taken one at a time: nothing in cluster.c locks the tables.   *)
(***************************************************************************)
EXTENDS Integers, Sequences, FiniteSets, SequencesExt

CONSTANTS NodeId, Self,           \* node ids, and config.self_node_id
          num_partitions, replication_factor

ASSUME NodeTableAssumption ==
  0 \notin NodeId /\ Self \in NodeId /\ num_partitions \in Nat

VARIABLES nodes,      \* g_cluster->nodes: [id, status, silence, partitions]
          parts,      \* g_cluster->partitions: [primary, replicas]
          role,
          work,       \* what the heartbeat thread is doing
          replicated  \* ghost: a replica was assigned at some time

ptvars == <<nodes, parts, role, work, replicated>>

\* Time since the last acknowledged heartbeat, as health_check_nodes tells it
\* apart: 0 at most half the timeout, 1 at most the timeout (no branch takes
\* it), 2 at most twice the timeout, 3 more.
TimedOut == {2, 3}
HEALTHY == "healthy"
DEGRADED == "degraded"
DEAD == "dead"
NewNode(n) == [id |-> n, status |-> HEALTHY, silence |-> 0, partitions |-> <<>>]
NoWork == [pc |-> "idle", node |-> 0, source |-> 0, target |-> 0]

cluster_start ==
  /\ nodes = <<NewNode(Self)>> /\ role = "follower" /\ work = NoWork /\ replicated = FALSE
  /\ parts = [p \in 0 .. num_partitions - 1 |-> [primary |-> 0, replicas |-> <<>>]]

IsIdle == work.pc = "idle"
Live(i) == nodes[i].status # DEAD
LiveNodes == {i \in DOMAIN nodes : Live(i)}
Load(i) == Len(nodes[i].partitions)

(* Roles come from the election; see module Cluster. *)
ChangeRole(r) ==
  /\ IsIdle /\ role # r /\ role' = r
  /\ UNCHANGED <<nodes, parts, work, replicated>>

\* The turn of heartbeat_send_all for one live peer: it acknowledges or cannot
\* be reached.  (One that connects and says nothing changes nothing.)
heartbeat_send_all(i, answer) ==
  /\ IsIdle /\ role = "leader" /\ nodes[i].id # Self /\ Live(i)
  /\ LET n == nodes[i]
     IN  nodes' = [nodes EXCEPT ![i] =
           IF answer = "ack" THEN [n EXCEPT !.silence = 0, !.status = HEALTHY]
           ELSE IF n.status = HEALTHY THEN [n EXCEPT !.status = DEGRADED] ELSE n]
  /\ UNCHANGED <<parts, role, work, replicated>>

\* Time since a peer's last acknowledgement grows; for a dead one no more is read.
TimePasses(i, s) ==
  /\ IsIdle /\ nodes[i].id # Self /\ Live(i) /\ nodes[i].silence < s
  /\ nodes' = [nodes EXCEPT ![i] = [nodes[i] EXCEPT !.silence = s]]
  /\ UNCHANGED <<parts, role, work, replicated>>

(* Partitions. *)

AddPartition(ns, n, p) ==
  [i \in DOMAIN ns |-> IF ns[i].id = n THEN [ns[i] EXCEPT !.partitions = Append(ns[i].partitions, p)]
                       ELSE ns[i]]

partition_assign(p, n, is_primary) ==
  LET room == Len(parts[p].replicas) < replication_factor
  IN  /\ parts' = IF is_primary THEN [parts EXCEPT ![p] = [parts[p] EXCEPT !.primary = n]]
                  ELSE IF room THEN [parts EXCEPT ![p].replicas = Append(@, n)] ELSE parts
      /\ nodes' = AddPartition(nodes, n, p)

\* The owner of the cluster object assigns each partition once, in order, and
\* may add a replica elsewhere (the bound: to one partition).
Assign(p, n) ==
  /\ IsIdle /\ parts[p].primary = 0 /\ \A q \in 0 .. p - 1 : parts[q].primary # 0
  /\ partition_assign(p, n, TRUE)
  /\ UNCHANGED <<role, work, replicated>>
AssignReplica(p, n) ==
  /\ IsIdle /\ ~ replicated /\ parts[p].primary \notin {0, n}
  /\ partition_assign(p, n, FALSE) /\ replicated' = TRUE
  /\ UNCHANGED <<role, work>>

\* rebalance_partitions up to its loop: the share of a live node.
Target(ns) == LET live == {i \in DOMAIN ns : ns[i].status # DEAD}
              IN  num_partitions \div Cardinality(live)
StartRebalance(ns, node) == [pc |-> "move", node |-> node, source |-> 1, target |-> Target(ns)]

(* Mutant: the loop goes on until a node is at its share exactly. *)
TooManyByOne(i) == Live(i) /\ Load(i) > work.target

TooMany(i) == Live(i) /\ Load(i) > work.target + 1
Receivers == {j \in LiveNodes : Load(j) < work.target}

(* Mutant: the partition moves without its primary being changed. *)
MoveKeepingOwner ==
  LET s == work.source
      j == CHOOSE j \in Receivers : \A k \in Receivers : j <= k
      n == [nodes EXCEPT ![s].partitions = Front(@)]
  IN  /\ TooMany(s) /\ Receivers # {}
      /\ nodes' = AddPartition(n, nodes[j].id, Last(nodes[s].partitions))
      /\ UNCHANGED <<parts, work>>

\* One turn of the while loop: the last partition of an overloaded node goes
\* to the first node below its share.
MovePartition ==
  LET s == work.source
      p == Last(nodes[s].partitions)
      j == CHOOSE j \in Receivers : \A k \in Receivers : j <= k
      n == [nodes EXCEPT ![s] = [nodes[s] EXCEPT !.partitions = Front(nodes[s].partitions)]]
  IN  /\ TooMany(s) /\ Receivers # {}
      /\ parts' = [parts EXCEPT ![p] = [parts[p] EXCEPT !.primary = nodes[j].id]]
      /\ nodes' = AddPartition(n, nodes[j].id, p)
      /\ UNCHANGED work

\* The for loop goes on, and after the last node to the caller: the health
\* check's next node, or the end of cluster_add_node.
NextSource ==
  /\ ~ TooMany(work.source)
  /\ work' = IF work.source < Len(nodes) THEN [work EXCEPT !.source = @ + 1]
             ELSE IF work.node = 0 THEN NoWork
             ELSE [NoWork EXCEPT !.pc = "check", !.node = work.node + 1]
  /\ UNCHANGED <<nodes, parts>>

rebalance_partitions ==
  /\ work.pc = "move"
  /\ MovePartition \/ NextSource
  /\ UNCHANGED <<role, replicated>>

\* Ids are taken to differ: generate_node_id seeds rand() with the clock and
\* gives two calls of one millisecond the same id.
cluster_add_node(n) ==
  LET added == Append(nodes, NewNode(n))
  IN  /\ IsIdle /\ \A i \in DOMAIN nodes : nodes[i].id # n
      /\ \A p \in DOMAIN parts : n # parts[p].primary /\ n \notin ToSet(parts[p].replicas)
      /\ nodes' = added
      /\ work' = IF role = "leader" THEN StartRebalance(added, 0) ELSE work
      /\ UNCHANGED <<parts, role, replicated>>

\* Nothing is reassigned: the partitions of a removed node keep it as primary.
cluster_remove_node(i) ==
  /\ IsIdle /\ nodes[i].id # Self
  /\ nodes' = RemoveAt(nodes, i)
  /\ UNCHANGED <<parts, role, work, replicated>>

\* Every partition the node lists, as primary or as replica, gets its first
\* replica as primary.
rebalance_on_leave(i) ==
  [p \in DOMAIN parts |->
     IF p \in ToSet(nodes[i].partitions) /\ parts[p].replicas # <<>>
     THEN [primary |-> parts[p].replicas[1], replicas |-> Tail(parts[p].replicas)]
     ELSE parts[p]]

health_check_nodes ==
  /\ IsIdle /\ work' = [NoWork EXCEPT !.pc = "check", !.node = 1]
  /\ UNCHANGED <<nodes, parts, role, replicated>>

\* One turn of the loop of health_check_nodes.
CheckNode ==
  LET i == work.node
      n == nodes[i]
      dies == n.id # Self /\ n.silence = 3 /\ n.status # DEAD
      status == IF n.id = Self THEN n.status
                ELSE IF dies THEN DEAD
                ELSE IF n.silence >= 2 /\ n.status = HEALTHY THEN DEGRADED
                ELSE IF n.silence = 0 /\ n.status = DEGRADED THEN HEALTHY ELSE n.status
      checked == [nodes EXCEPT ![i] = [n EXCEPT !.status = status]]
  IN  /\ work.pc = "check" /\ i <= Len(nodes)
      /\ nodes' = checked
      /\ parts' = IF dies /\ role = "leader" THEN rebalance_on_leave(i) ELSE parts
      /\ work' = IF dies /\ role = "leader" THEN StartRebalance(checked, i)
                 ELSE [work EXCEPT !.node = i + 1]
      /\ UNCHANGED <<role, replicated>>
CheckDone ==
  /\ work.pc = "check" /\ work.node > Len(nodes) /\ work' = NoWork
  /\ UNCHANGED <<nodes, parts, role, replicated>>

TableNext ==
  \/ \E r \in {"leader", "follower"} : ChangeRole(r)
  \/ \E i \in DOMAIN nodes, a \in {"ack", "none"} : heartbeat_send_all(i, a)
  \/ \E i \in DOMAIN nodes, s \in TimedOut : TimePasses(i, s)
  \/ \E p \in DOMAIN parts, i \in DOMAIN nodes : Assign(p, nodes[i].id) \/ AssignReplica(p, nodes[i].id)
  \/ \E n \in NodeId : cluster_add_node(n)
  \/ \E i \in DOMAIN nodes : cluster_remove_node(i)
  \/ health_check_nodes \/ CheckNode \/ CheckDone \/ rebalance_partitions
\* Until a replica is assigned, every partition is in the list of its primary
\* (while that node is in the table), once and in no other list: no sequence of
\* joins, deaths and half-done rebalances loses or doubles a partition.
NodeTableSound ==
  ~ replicated =>
  \A p \in DOMAIN parts :
    LET owner == parts[p].primary
        Copies(i) == Cardinality({k \in DOMAIN nodes[i].partitions : nodes[i].partitions[k] = p})
    IN  \A i \in DOMAIN nodes : Copies(i) = IF nodes[i].id = owner THEN 1 ELSE 0

\* A rebalance ends if the live nodes list less than two partitions above their
\* shares; with more, the while loop of rebalance_partitions can find every
\* node at its share and one above it, and then never ends.
TotalLoad == SumFunctionOnSet([i \in DOMAIN nodes |-> Load(i)], LiveNodes)
Manageable == TotalLoad < work.target * Cardinality(LiveNodes) + 2
RebalanceEnds == work.pc = "move" /\ Manageable ~> work.pc # "move"
===============================================================================
