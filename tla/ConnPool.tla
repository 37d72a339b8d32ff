------------------------------ MODULE ConnPool ------------------------------
(***************************************************************************)
(* The connection pool of src/network.c as the master uses it to send      *)
(* queries to one worker (send_to_worker_binary of src/distributed.c):     *)
(* acquire, query, answer, release, from several client threads, with a    *)
(* health check.  The pool lock is not held while a connection is made, so *)
(* the count that was tested may have changed when the result is stored;   *)
(* it is held while the health check walks over the free list.             *)
(***************************************************************************)
EXTENDS Integers, Sequences, FiniteSets, SequencesExt

CONSTANTS Thread, ConnId, min_connections, max_connections, MaxQueries

VARIABLES connections,  \* pool->connections up to count
          free_list,    \* head first
          state,        \* state of a connection; "none": not allocated
          up,           \* the peer still answers on this connection
          wire,         \* answers on their way back, oldest first
          client,       \* a client thread's place in send_to_worker_binary
          health,       \* the health check's place; "walk": it holds the pool lock
          query_id      \* g_query_sequence

pvars == <<connections, free_list, state, up, wire, client, health, query_id>>
NoConn == 0
\* A finite number of threads, room for the minimum of connections, and an
\* address for each of them.
ASSUME PoolAssumption ==
  /\ IsFiniteSet(Thread)
  /\ ConnId \subseteq Nat \ {NoConn}
  /\ min_connections \in Nat /\ max_connections \in Nat
  /\ min_connections <= max_connections
  /\ 1 .. min_connections \subseteq ConnId

AtRest == [pc |-> "idle", conn |-> NoConn, query |-> 0, answer |-> 0]

\* conn_pool_create with min_connections connections made.
conn_pool_create ==
  /\ connections = [i \in 1 .. min_connections |-> i]
  /\ free_list = [i \in 1 .. min_connections |-> min_connections + 1 - i]
  /\ state = [c \in ConnId |-> IF c <= min_connections THEN "connected" ELSE "none"]
  /\ up = [c \in ConnId |-> TRUE] /\ wire = [c \in ConnId |-> <<>>]
  /\ client = [t \in Thread |-> AtRest] /\ health = "idle" /\ query_id = 0

At(t, pc) == client[t].pc = pc
Move(t, r) == client' = [client EXCEPT ![t] = r]
Unused == {c \in ConnId : state[c] = "none"}
NewConn(c) == /\ state' = [state EXCEPT ![c] = "connected"]
              /\ up' = [up EXCEPT ![c] = TRUE]
              /\ wire' = [wire EXCEPT ![c] = <<>>]
NoNetwork == UNCHANGED <<state, up, wire>>
PoolUnlocked == health # "walk"

\* The first locked part of conn_pool_acquire: the head of the free list, or
\* leave to connect when the count allows it, or no connection.
conn_pool_acquire(t) ==
  /\ At(t, "idle") /\ query_id < MaxQueries /\ PoolUnlocked
  /\ IF free_list # <<>>
     THEN /\ free_list' = Tail(free_list)
          /\ Move(t, [client[t] EXCEPT !.pc = "send", !.conn = Head(free_list)])
     ELSE /\ UNCHANGED free_list
          /\ Move(t, [client[t] EXCEPT !.pc = IF Len(connections) < max_connections
                                              THEN "create" ELSE "direct"])
  /\ NoNetwork /\ UNCHANGED <<connections, health, query_id>>

\* The second locked part: the new connection is stored without a second test.
create_pooled_connection(t) ==
  /\ At(t, "create")
  /\ \/ \E c \in Unused : /\ NewConn(c) /\ PoolUnlocked
                          /\ connections' = Append(connections, c)
                          /\ Move(t, [client[t] EXCEPT !.pc = "send", !.conn = c])
     \/ /\ Move(t, [client[t] EXCEPT !.pc = "direct"])
        /\ NoNetwork /\ UNCHANGED connections
  /\ UNCHANGED <<free_list, health, query_id>>

\* A pool miss: a connection of its own, which is released into the pool.
async_connect(t) ==
  /\ At(t, "direct")
  /\ \/ \E c \in Unused : NewConn(c) /\ Move(t, [client[t] EXCEPT !.pc = "send", !.conn = c])
     \/ Move(t, AtRest) /\ NoNetwork
  /\ UNCHANGED <<connections, free_list, health, query_id>>

Broken(t) == /\ state' = [state EXCEPT ![client[t].conn] = "error"]
             /\ Move(t, [client[t] EXCEPT !.pc = "release"])

net_send_query(t) ==
  /\ At(t, "send")
  /\ query_id' = query_id + 1
  /\ \/ /\ wire' = IF up[client[t].conn]
                    THEN [wire EXCEPT ![client[t].conn] = Append(@, query_id')] ELSE wire
        /\ Move(t, [client[t] EXCEPT !.pc = "recv", !.query = query_id'])
        /\ UNCHANGED state
     \/ Broken(t) /\ UNCHANGED wire
  /\ UNCHANGED <<connections, free_list, up, health>>

\* The answer, or a timeout or a closed connection.
RecvAnswer(t) ==
  /\ At(t, "recv")
  /\ \/ /\ wire[client[t].conn] # <<>>
        /\ wire' = [wire EXCEPT ![client[t].conn] = Tail(@)]
        /\ Move(t, [client[t] EXCEPT !.pc = "release", !.answer = Head(wire[client[t].conn])])
        /\ UNCHANGED state
     \/ Broken(t) /\ UNCHANGED wire
  /\ UNCHANGED <<connections, free_list, up, health, query_id>>

\* The array or list s without c: the rest is moved up, or linked around it.
Unlinked(s, c) ==
  IF c \in ToSet(s)
  THEN RemoveAt(s, CHOOSE i \in DOMAIN s : s[i] = c /\ \A j \in 1 .. i - 1 : s[j] # c)
  ELSE s

(* Mutant: the state of the connection is not looked at. *)
ReleaseAnyState(t) ==
  /\ At(t, "release") /\ PoolUnlocked
  /\ free_list' = <<client[t].conn>> \o free_list
  /\ Move(t, AtRest)
  /\ UNCHANGED <<connections, state, up, wire, health, query_id>>

conn_pool_release(t) ==
  LET c == client[t].conn
  IN  /\ At(t, "release") /\ PoolUnlocked
      /\ IF state[c] = "connected"
         THEN /\ free_list' = <<c>> \o free_list
              /\ UNCHANGED <<connections, state>>
         ELSE /\ connections' = Unlinked(connections, c)
              /\ state' = [state EXCEPT ![c] = "none"]
              /\ UNCHANGED free_list
      /\ Move(t, AtRest)
      /\ UNCHANGED <<up, wire, health, query_id>>

\* The walk over the free list under the lock: a stale connection whose ping
\* cannot be sent is removed from the list and from the array.  A ping that can
\* be sent is not answered: nothing in the program calls net_send_pong.
conn_pool_health_check ==
  /\ health = "idle" /\ health' = "walk"
  /\ UNCHANGED <<connections, free_list, client, query_id>> /\ NoNetwork

RemoveStale(c) ==
  /\ health = "walk" /\ ~ up[c]
  /\ free_list' = Unlinked(free_list, c)
  /\ connections' = Unlinked(connections, c)
  /\ state' = [state EXCEPT ![c] = "none"]
  /\ UNCHANGED <<up, wire, client, health, query_id>>

EndWalk ==
  /\ health = "walk"
  /\ health' = IF Len(connections) < min_connections THEN "create" ELSE "idle"
  /\ UNCHANGED <<connections, free_list, client, query_id>> /\ NoNetwork

\* Up to the minimum again, unlocked while connecting.
EnsureMinimum ==
  /\ health = "create"
  /\ \/ \E c \in Unused :
          /\ NewConn(c)
          /\ connections' = Append(connections, c) /\ free_list' = <<c>> \o free_list
          /\ health' = IF Len(connections') < min_connections THEN "create" ELSE "idle"
     \/ health' = "idle" /\ NoNetwork /\ UNCHANGED <<connections, free_list>>
  /\ UNCHANGED <<client, query_id>>

\* The worker or the network drops a connection.
PeerGone(c) == /\ state[c] = "connected" /\ up[c]
               /\ up' = [up EXCEPT ![c] = FALSE]
               /\ UNCHANGED <<connections, free_list, state, wire, client, health, query_id>>

PoolUseNext ==
  \/ \E t \in Thread : \/ conn_pool_acquire(t) \/ create_pooled_connection(t) \/ async_connect(t)
                       \/ net_send_query(t) \/ RecvAnswer(t) \/ conn_pool_release(t)
  \/ conn_pool_health_check \/ EndWalk \/ EnsureMinimum
  \/ \E c \in ToSet(free_list) : RemoveStale(c)
  \/ \E c \in ConnId : PeerGone(c)

-----------------------------------------------------------------------------

(* conn_pool_acquire and conn_pool_release: no connection is used by two
   threads or is free while it is used, none is destroyed while the pool or a
   thread refers to it, and a thread reads the answer to its own query, the
   query id of an answer never being compared.  The array is at most
   overfilled by the threads that connect at the same time. *)
ConnectionsExclusive ==
  LET used == {t \in Thread : client[t].conn # NoConn}
  IN  /\ \A t, u \in used : client[t].conn = client[u].conn => t = u
      /\ \A t \in used : /\ client[t].conn \notin ToSet(free_list)
                         /\ state[client[t].conn] # "none"
                         /\ client[t].answer # 0 => client[t].answer = client[t].query
      /\ \A i, j \in DOMAIN free_list : free_list[i] = free_list[j] => i = j
      /\ \A c \in ToSet(free_list) : state[c] = "connected" /\ wire[c] = <<>>
      /\ \A c \in ToSet(connections) : state[c] # "none"
      /\ Len(connections) <= max_connections + Cardinality(Thread)
=============================================================================
