----------------------------- MODULE ClientPool -----------------------------
(***************************************************************************)
(* The pool of client connections of src/cluster.c.  client_accept and     *)
(* client_disconnect hold the pool's lock from start to end; the loop of   *)
(* client_cleanup_inactive reads the slots without it and takes it only    *)
(* inside client_disconnect, which it calls with the id it read: a client  *)
(* that leaves in between has id 0 by then, and client_disconnect(0)       *)
(* "disconnects" a free slot.  An accept that grows the array moves it     *)
(* away from under the pointer the loop holds.                             *)
(***************************************************************************)
EXTENDS Integers, Sequences, FiniteSets

CONSTANTS Client,                     \* ids generate_node_id can give to a client
          max_clients, ClientCapacity, \* limit and first capacity
          MaxGrow, MaxStrays          \* bounds: doublings, sweeps end after that many strays

VARIABLES clients,      \* g_client_pool->clients: [id, idle]; id 0 in a free slot
          client_count,
          sweep,        \* client_cleanup_inactive: its place, slot and the id it read
          strays        \* ghost: disconnections of a free slot

cpvars == <<clients, client_count, sweep, strays>>

NoClient == 0
ASSUME ClientAssumption ==
  NoClient \notin Client /\ max_clients \in Nat /\ ClientCapacity \in Nat \ {0}

FreeSlot == [id |-> NoClient, idle |-> FALSE]
\* moved: the array was reallocated after the loop took its pointer.
NoSweep == [pc |-> "idle", slot |-> 0, id |-> NoClient, moved |-> FALSE]

client_pool_init ==
  /\ clients = [i \in 1 .. ClientCapacity |-> FreeSlot] /\ client_count = 0
  /\ sweep = NoSweep /\ strays = 0

Used == {i \in DOMAIN clients : clients[i].id # NoClient}
FirstIn(S) == CHOOSE i \in S : \A j \in S : i <= j

\* The first free slot, or the first one of a doubled array.
client_accept(c) ==
  LET free == DOMAIN clients \ Used
      entry == [id |-> c, idle |-> FALSE]
      n == Len(clients)
  IN  /\ client_count < max_clients
      /\ client_count' = client_count + 1
      /\ IF free # {}
         THEN /\ clients' = [clients EXCEPT ![FirstIn(free)] = entry]
              /\ UNCHANGED sweep
         ELSE /\ n < ClientCapacity * 2 ^ MaxGrow
              /\ clients' = [i \in 1 .. 2 * n |-> IF i <= n THEN clients[i]
                                                  ELSE IF i = n + 1 THEN entry ELSE FreeSlot]
              /\ sweep' = IF sweep.pc \in {"test", "read"} THEN [sweep EXCEPT !.moved = TRUE]
                          ELSE sweep
      /\ UNCHANGED strays

ClientIdles(i) ==
  /\ i \in Used /\ ~ clients[i].idle
  /\ clients' = [clients EXCEPT ![i] = [clients[i] EXCEPT !.idle = TRUE]]
  /\ UNCHANGED <<client_count, sweep, strays>>

\* The first slot with that id is cleared, if there is one; two clients may
\* share an id, and every free slot has id 0.
client_disconnect(c) ==
  LET at == {i \in DOMAIN clients : clients[i].id = c}
  IN  IF at = {} THEN UNCHANGED <<clients, client_count, strays>>
      ELSE /\ clients' = [clients EXCEPT ![FirstIn(at)] = FreeSlot]
           /\ client_count' = client_count - 1
           /\ strays' = IF c = NoClient THEN strays + 1 ELSE strays

\* A connection's own end.
ClientLeaves(i) ==
  /\ i \in Used /\ client_disconnect(clients[i].id)
  /\ UNCHANGED sweep

\* The loop's next slot, whose address it takes, or its end.
NextSlot(i) == IF i <= Len(clients) THEN [NoSweep EXCEPT !.pc = "test", !.slot = i] ELSE NoSweep

client_cleanup_inactive ==
  /\ sweep.pc = "idle" /\ strays < MaxStrays
  /\ sweep' = NextSlot(1)
  /\ UNCHANGED <<clients, client_count, strays>>

\* What the pointer shows: the slot, or whatever freed memory holds.
Shown == IF sweep.moved THEN [id : Client \cup {NoClient}, idle : BOOLEAN]
         ELSE {clients[sweep.slot]}

TestSlot(e) ==
  /\ sweep.pc = "test"
  /\ sweep' = IF e.id # NoClient /\ e.idle THEN [sweep EXCEPT !.pc = "read"]
              ELSE NextSlot(sweep.slot + 1)
  /\ UNCHANGED <<clients, client_count, strays>>
ReadId(e) ==
  /\ sweep.pc = "read"
  /\ sweep' = [sweep EXCEPT !.pc = "call", !.id = e.id, !.moved = FALSE]
  /\ UNCHANGED <<clients, client_count, strays>>
CallDisconnect ==
  /\ sweep.pc = "call" /\ client_disconnect(sweep.id)
  /\ sweep' = NextSlot(sweep.slot + 1)

ClientsNext ==
  \/ \E c \in Client : client_accept(c)
  \/ \E i \in DOMAIN clients : ClientIdles(i) \/ ClientLeaves(i)
  \/ client_cleanup_inactive \/ CallDisconnect
  \/ sweep.pc # "idle" /\ \E e \in Shown : TestSlot(e) \/ ReadId(e)

-----------------------------------------------------------------------------

(* client_accept, client_disconnect and client_cleanup_inactive: client_count
   stays within the limit and is the number of connected clients less one for
   every time the cleanup disconnected a client that had already left. *)
ClientsCounted ==
  /\ client_count <= max_clients
  /\ client_count = Cardinality(Used) - strays
=============================================================================
