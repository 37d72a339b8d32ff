-------------------------- MODULE SharedArrayProofs --------------------------
(***************************************************************************)
(* Proofs about the arrays that several threads fill, search and shrink:   *)
(* the connection pool of src/network.c and the index registry of          *)
(* src/index.c, which test under one hold of the lock and store under      *)
(* another, and the result cache of src/query_result.c, which keeps its    *)
(* lock.  An element leaves an array by moving up the rest.  Then proofs   *)
(* about bytes in arrays: the messages in a receiver's buffer and the      *)
(* records of a slotted page of src/storage_engine.c; and about the store  *)
(* of prepared statements and the statement cache of src/prepared.c.  And  *)
(* about lists: the skip lists of src/storage.c.                           *)
(***************************************************************************)
EXTENDS ConnPool, Framing, IndexManager, QueryCache, SkipIndex, SlottedPage,
        Statements, ArrayLemmas, FiniteSetTheorems

-----------------------------------------------------------------------------
(* The connection pool. *)

LEMMA UnlinkedElements ==
  ASSUME NEW S, NEW s \in Seq(S), IsInjective(s), NEW c
  PROVE  /\ Unlinked(s, c) \in Seq(S) /\ IsInjective(Unlinked(s, c))
         /\ ToSet(Unlinked(s, c)) = ToSet(s) \ {c}
         /\ Len(Unlinked(s, c)) <= Len(s)
<1>1. DOMAIN s = 1 .. Len(s) /\ Len(s) \in Nat
  BY LenProperties
<1>2. CASE c \in ToSet(s)
  <2> DEFINE P(i) == s[i] = c /\ \A j \in 1 .. i - 1 : s[j] # c
             i == CHOOSE k \in DOMAIN s : P(k)
  <2>1. PICK k \in DOMAIN s : s[k] = c
    BY <1>2 DEF ToSet
  <2>2. P(k)
    <3>1. \A j \in 1 .. k - 1 : j \in DOMAIN s /\ j # k
      BY <1>1, <2>1
    <3> QED
      BY <2>1, <3>1 DEF IsInjective
  <2>3. i \in DOMAIN s /\ s[i] = c
    BY <2>2
  <2>4. Unlinked(s, c) = RemoveAt(s, i)
    BY <1>2 DEF Unlinked
  <2> HIDE DEF i
  <2>5. i \in 1 .. Len(s)
    BY <1>1, <2>3
  <2>6. /\ RemoveAt(s, i) \in Seq(S) /\ IsInjective(RemoveAt(s, i))
        /\ ToSet(RemoveAt(s, i)) = ToSet(s) \ {s[i]}
        /\ Len(RemoveAt(s, i)) = Len(s) - 1
    BY <2>5, RemoveAtProperties, RemoveAtElements
  <2> QED
    BY <1>1, <2>3, <2>4, <2>6
<1>3. CASE c \notin ToSet(s)
  BY <1>1, <1>3 DEF Unlinked
<1> QED
  BY <1>2, <1>3

\* The places of send_to_worker_binary at which a thread has a connection.
Holding == {"send", "recv", "release"}

Client == [pc : {"idle", "create", "direct"} \cup Holding,
           conn : ConnId \cup {NoConn}, query : Nat, answer : Nat]

PoolTypeOK ==
  /\ connections \in Seq(ConnId) /\ free_list \in Seq(ConnId)
  /\ state \in [ConnId -> {"none", "connected", "error"}]
  /\ up \in [ConnId -> BOOLEAN] /\ wire \in [ConnId -> Seq(Nat)]
  /\ client \in [Thread -> Client]
  /\ health \in {"idle", "walk", "create"} /\ query_id \in Nat

\* List and array hold each connection once; a free one is connected and has
\* no answer on its way, a listed one is allocated.
ListsSound ==
  /\ IsInjective(free_list) /\ IsInjective(connections)
  /\ \A c \in ToSet(free_list) : state[c] = "connected" /\ wire[c] = <<>>
  /\ \A c \in ToSet(connections) : state[c] # "none"

\* A connection in a thread's hands carries that thread's answer or none.
HoldsConn(t) ==
  /\ client[t].conn \in ConnId
  /\ client[t].conn \notin ToSet(free_list)
  /\ state[client[t].conn] # "none"
  /\ client[t].pc # "release" => /\ state[client[t].conn] = "connected"
                                 /\ client[t].answer = 0
  /\ client[t].pc = "send" => wire[client[t].conn] = <<>>
  /\ client[t].pc = "recv" =>
       wire[client[t].conn] \in {<<>>, <<client[t].query>>}
  /\ client[t].pc = "release" /\ state[client[t].conn] = "connected" =>
       wire[client[t].conn] = <<>>
  /\ client[t].answer # 0 => client[t].answer = client[t].query

ClientSound(t) ==
  IF client[t].pc \in Holding THEN HoldsConn(t)
  ELSE client[t].conn = NoConn /\ client[t].answer = 0

OneHolder ==
  \A t, u \in Thread : /\ client[t].pc \in Holding /\ client[u].pc \in Holding
                       /\ client[t].conn = client[u].conn
                       => t = u

\* Threads that were told there is room, and the health check, may still add.
Creating == {t \in Thread : client[t].pc = "create"}
Room(n, C, h) ==
  n + Cardinality(C) + (IF h = "create" THEN 1 ELSE 0)
    <= max_connections + Cardinality(Thread)
RoomLeft == Room(Len(connections), Creating, health)

PoolInv ==
  /\ PoolTypeOK /\ ListsSound
  /\ \A t \in Thread : ClientSound(t)
  /\ OneHolder /\ RoomLeft

-----------------------------------------------------------------------------
(* Counting. *)

LEMMA CreatingFinite ==
  ASSUME NEW C, C \subseteq Thread
  PROVE  /\ IsFiniteSet(C) /\ Cardinality(C) \in Nat
         /\ Cardinality(Thread) \in Nat /\ Cardinality(C) <= Cardinality(Thread)
BY FS_Subset, FS_CardinalityType, PoolAssumption

LEMMA RoomShrinks ==
  ASSUME NEW C, C \subseteq Thread, NEW D, D \subseteq C,
         NEW m \in Nat, NEW n \in Nat, n <= m, NEW g, NEW h,
         h = "create" => g = "create", Room(m, C, g)
  PROVE  Room(n, D, h)
<1>1. Cardinality(C) \in Nat /\ Cardinality(Thread) \in Nat
  BY CreatingFinite
<1>2. Cardinality(D) \in Nat /\ Cardinality(D) <= Cardinality(C)
  BY FS_Subset, FS_CardinalityType, CreatingFinite
<1> QED
  BY <1>1, <1>2, PoolAssumption DEF Room

LEMMA RoomTested ==
  ASSUME NEW C, C \subseteq Thread, NEW n \in Nat,
         n < max_connections, NEW h
  PROVE  Room(n, C, h)
BY CreatingFinite, PoolAssumption DEF Room

LEMMA RoomTaken ==
  ASSUME NEW C, C \subseteq Thread, NEW n \in Nat, NEW h,
         NEW t \in C, Room(n, C, h)
  PROVE  Room(n + 1, C \ {t}, h)
<1>1. /\ IsFiniteSet(C) /\ Cardinality(C) \in Nat
      /\ Cardinality(Thread) \in Nat
  BY CreatingFinite
<1>2. Cardinality(C \ {t}) = Cardinality(C) - 1
  BY <1>1, FS_RemoveElement
<1> QED
  BY <1>1, <1>2, PoolAssumption DEF Room

LEMMA RoomEnsured ==
  ASSUME NEW C, C \subseteq Thread, NEW n \in Nat,
         Room(n, C, "create")
  PROVE  Room(n + 1, C, "idle")
BY CreatingFinite, PoolAssumption DEF Room

-----------------------------------------------------------------------------
(* The steps. *)

\* A thread is sound after a step that leaves it and its connection alone.
LEMMA OthersSound ==
  ASSUME NEW u \in Thread, ClientSound(u), client'[u] = client[u],
         client[u].pc \in Holding =>
           /\ client[u].conn \notin ToSet(free_list')
           /\ state'[client[u].conn] = state[client[u].conn]
           /\ wire'[client[u].conn] = wire[client[u].conn]
  PROVE  ClientSound(u)'
BY DEF ClientSound, HoldsConn

LEMMA InitPoolInv == conn_pool_create => PoolInv
<1> SUFFICES ASSUME conn_pool_create PROVE PoolInv
  OBVIOUS
<1> DEFINE m == min_connections
<1>1. m \in Nat /\ 1 .. m \subseteq ConnId
  BY PoolAssumption
<1>2. /\ connections \in Seq(ConnId) /\ Len(connections) = m
      /\ DOMAIN connections = 1 .. m
  <2>1. \A i \in 1 .. m : i \in ConnId
    BY <1>1
  <2>2. connections \in Seq(ConnId)
    BY <1>1, <2>1, IsASeq DEF conn_pool_create
  <2> QED
    BY <1>1, <2>2, LenProperties DEF conn_pool_create
<1>3. /\ free_list \in Seq(ConnId) /\ DOMAIN free_list = 1 .. m
  <2>1. \A i \in 1 .. m : m + 1 - i \in 1 .. m
    BY <1>1
  <2>2. free_list \in Seq(ConnId)
    BY <1>1, <2>1, IsASeq DEF conn_pool_create
  <2> QED
    BY <2>2 DEF conn_pool_create
<1>4. \A t \in Thread : client[t] = AtRest
  BY DEF conn_pool_create
<1>5. PoolTypeOK
  <2>1. up \in [ConnId -> BOOLEAN]
    BY Zenon DEF conn_pool_create
  <2>2. wire \in [ConnId -> Seq(Nat)]
    BY DEF conn_pool_create
  <2>3. state \in [ConnId -> {"none", "connected", "error"}]
    BY DEF conn_pool_create
  <2>4. client \in [Thread -> Client]
    BY DEF conn_pool_create, AtRest, Client
  <2> QED
    BY <1>2, <1>3, <2>1, <2>2, <2>3, <2>4 DEF conn_pool_create, PoolTypeOK
<1>6. ListsSound
  <2>1. \A i \in 1 .. m : connections[i] = i /\ free_list[i] = m + 1 - i
    BY DEF conn_pool_create
  <2>2. IsInjective(connections)
    BY <1>2, <2>1 DEF IsInjective
  <2>3. IsInjective(free_list)
    BY <1>1, <1>3, <2>1 DEF IsInjective
  <2>4. \A c \in ToSet(connections) : c \in 1 .. m
    BY <1>2, <2>1 DEF ToSet
  <2>5. \A c \in ToSet(free_list) : c \in 1 .. m
    BY <1>1, <1>3, <2>1 DEF ToSet
  <2>6. \A c \in 1 .. m : state[c] = "connected" /\ wire[c] = <<>>
    BY <1>1 DEF conn_pool_create
  <2> QED
    BY <2>2, <2>3, <2>4, <2>5, <2>6 DEF ListsSound
<1>7. (\A t \in Thread : ClientSound(t)) /\ OneHolder /\ Creating = {}
  BY <1>4 DEF ClientSound, OneHolder, Creating, AtRest, Holding
<1>8. RoomLeft
  <2>1. Cardinality({}) = 0 /\ Cardinality(Thread) \in Nat
    BY FS_EmptySet, FS_CardinalityType, PoolAssumption
  <2>2. health = "idle"
    BY DEF conn_pool_create
  <2> QED
    BY <1>2, <1>7, <2>1, <2>2, PoolAssumption DEF RoomLeft, Room
<1> QED
  BY <1>5, <1>6, <1>7, <1>8 DEF PoolInv

\* A connection a step of another thread, now at r, does not touch.
LeftAlone(d, r) ==
  /\ d \notin ToSet(free_list')
  /\ state'[d] = state[d] /\ wire'[d] = wire[d]
  /\ r.pc \in Holding => d # r.conn

\* One thread moves to r; the others keep their connections as they are.
LEMMA ThreadStep ==
  ASSUME PoolInv, NEW t \in Thread, NEW r \in Client,
         Move(t, r), connections' \in Seq(ConnId), free_list' \in Seq(ConnId),
         state' \in [ConnId -> {"none", "connected", "error"}],
         up' \in [ConnId -> BOOLEAN], wire' \in [ConnId -> Seq(Nat)],
         health' = health, query_id' \in Nat, ListsSound', RoomLeft',
         client'[t] = r => ClientSound(t)',
         \A u \in Thread : u # t /\ client[u].pc \in Holding =>
                            LeftAlone(client[u].conn, r)
  PROVE  PoolInv'
<1>1. client'[t] = r /\ \A u \in Thread : u # t => client'[u] = client[u]
  BY DEF PoolInv, PoolTypeOK, Move
<1>2. PoolTypeOK'
  BY DEF PoolInv, PoolTypeOK, Move
<1>3. ASSUME NEW u \in Thread PROVE ClientSound(u)'
  <2>1. CASE u = t
    BY <1>1, <2>1
  <2>2. CASE u # t
    <3>1. ClientSound(u) /\ client'[u] = client[u]
      BY <1>1, <2>2 DEF PoolInv
    <3> QED
      BY <2>2, <3>1, OthersSound DEF LeftAlone
  <2> QED
    BY <2>1, <2>2
<1>4. OneHolder'
  BY ZenonT(60), <1>1 DEF PoolInv, OneHolder, LeftAlone
<1> QED
  BY <1>2, <1>3, <1>4 DEF PoolInv

\* What the invariant says of a thread, of the others and of unused places.
LEMMA HolderFacts ==
  ASSUME PoolInv, NEW u \in Thread, client[u].pc \in Holding
  PROVE  /\ client[u].conn \in ConnId
         /\ client[u].conn \notin ToSet(free_list)
         /\ client[u].conn \notin Unused
         /\ \A t \in Thread : /\ t # u /\ client[t].pc \in Holding
                              => client[t].conn # client[u].conn
<1>1. HoldsConn(u)
  BY DEF PoolInv, ClientSound
<1> QED
  BY <1>1 DEF HoldsConn, Unused, PoolInv, OneHolder

LEMMA UnusedFacts ==
  ASSUME PoolInv, NEW c \in Unused
  PROVE  /\ c \in ConnId /\ c \notin ToSet(free_list)
         /\ c \notin ToSet(connections)
BY DEF PoolInv, ListsSound, Unused

LEMMA ElementsTyped ==
  ASSUME NEW S, NEW s \in Seq(S)
  PROVE  \A x \in ToSet(s) : x \in S
BY LenProperties DEF ToSet

LEMMA PoolSizes ==
  ASSUME PoolInv
  PROVE  Creating \subseteq Thread /\ Len(connections) \in Nat
BY LenProperties DEF Creating, PoolInv, PoolTypeOK

\* A thread that was not creating, and is not afterwards, leaves the count.
LEMMA RoomKept ==
  ASSUME PoolInv, NEW t \in Thread, NEW r \in Client,
         Move(t, r), r.pc # "create",
         Len(connections') \in Nat, Len(connections') <= Len(connections),
         health' = health
  PROVE  RoomLeft'
<1>1. client'[t] = r /\ \A u \in Thread : u # t => client'[u] = client[u]
  BY DEF PoolInv, PoolTypeOK, Move
<1>2. Creating' \subseteq Creating
  BY <1>1 DEF Creating
<1> QED
  BY <1>2, PoolSizes, RoomShrinks DEF RoomLeft, PoolInv

\* conn_pool_acquire: the head of the free list, or leave to connect.
LEMMA AcquireInv ==
  ASSUME PoolInv, NEW t \in Thread, conn_pool_acquire(t)
  PROVE  PoolInv'
<1>1. PoolTypeOK /\ ListsSound
  BY DEF PoolInv
<1>2. /\ client[t].pc = "idle" /\ ClientSound(t)
      /\ connections' = connections /\ health' = health /\ query_id' = query_id
      /\ state' = state /\ up' = up /\ wire' = wire
  BY DEF conn_pool_acquire, At, NoNetwork, PoolInv
<1>3. client[t].conn = NoConn /\ client[t].answer = 0
  BY <1>2 DEF ClientSound, Holding
<1>4. CASE free_list # <<>>
  <2> DEFINE c == Head(free_list)
             r == [client[t] EXCEPT !.pc = "send", !.conn = c]
  <2>1. free_list' = Tail(free_list) /\ Move(t, r)
    BY <1>4 DEF conn_pool_acquire
  <2>2. /\ free_list' \in Seq(ConnId) /\ c \in ToSet(free_list)
        /\ ToSet(free_list') = ToSet(free_list) \ {c}
        /\ IsInjective(free_list')
    BY <1>1, <1>4, <2>1, TailElements DEF PoolTypeOK, ListsSound
  <2>3. c \in ConnId
    BY <1>1, <2>2, ElementsTyped DEF PoolTypeOK
  <2>4. state[c] = "connected" /\ wire[c] = <<>>
    BY <1>1, <2>2 DEF ListsSound
  <2> HIDE DEF c
  <2>5. /\ r.pc = "send" /\ r.conn = c /\ r.answer = 0 /\ r \in Client
    BY <1>1, <1>3, <2>3 DEF PoolTypeOK, Client, Holding
  <2> HIDE DEF r
  <2>6. ListsSound'
    BY <1>1, <1>2, <2>2 DEF ListsSound
  <2>7. client'[t] = r => ClientSound(t)'
    BY <1>2, <2>2, <2>3, <2>4, <2>5 DEF ClientSound, HoldsConn, Holding
  <2>8. RoomLeft'
    BY <1>2, <2>1, <2>5, PoolSizes, RoomKept
  <2>9. ASSUME NEW u \in Thread, u # t, client[u].pc \in Holding
        PROVE  LeftAlone(client[u].conn, r)
    <3>1. client[u].conn \notin ToSet(free_list)
      BY <2>9, HolderFacts
    <3> QED
      BY <1>2, <2>2, <2>5, <3>1 DEF LeftAlone
  <2> QED
    BY <1>1, <1>2, <2>1, <2>2, <2>5, <2>6, <2>7, <2>8, <2>9, ThreadStep
       DEF PoolTypeOK
<1>5. CASE free_list = <<>>
  <2> DEFINE p == IF Len(connections) < max_connections THEN "create"
                                                        ELSE "direct"
             r == [client[t] EXCEPT !.pc = p]
  <2>1. free_list' = free_list /\ Move(t, r)
    BY <1>5 DEF conn_pool_acquire
  <2>2. /\ r.pc = p /\ r.conn = NoConn /\ r.answer = 0
        /\ p \in {"create", "direct"} /\ r \in Client
    BY <1>1, <1>3 DEF PoolTypeOK, Client
  <2> HIDE DEF r
  <2>3. r.pc \notin Holding
    BY <2>2 DEF Holding
  <2>4. ListsSound'
    BY <1>1, <1>2, <2>1 DEF ListsSound
  <2>5. client'[t] = r => ClientSound(t)'
    BY <2>2, <2>3 DEF ClientSound
  <2>6. RoomLeft'
    <3>1. CASE Len(connections) < max_connections
      <4>1. Creating' \subseteq Thread
        BY DEF Creating
      <4> QED
        BY <1>2, <3>1, <4>1, PoolSizes, RoomTested DEF RoomLeft
    <3>2. CASE ~ (Len(connections) < max_connections)
      BY <1>2, <2>1, <2>2, <3>2, PoolSizes, RoomKept
    <3> QED
      BY <3>1, <3>2
  <2>7. ASSUME NEW u \in Thread, u # t, client[u].pc \in Holding
        PROVE  LeftAlone(client[u].conn, r)
    BY <1>2, <2>1, <2>3, <2>7, HolderFacts DEF LeftAlone
  <2> QED
    BY <1>1, <1>2, <2>1, <2>2, <2>3, <2>4, <2>5, <2>6, <2>7, ThreadStep
       DEF PoolTypeOK
<1> QED
  BY <1>4, <1>5

\* create_pooled_connection and async_connect on success: a new connection,
\* known to nobody else, in the array or not.
LEMMA ConnectInv ==
  ASSUME PoolInv, NEW t \in Thread, NEW c \in Unused,
         client[t].pc \in {"create", "direct"}, NewConn(c),
         Move(t, [client[t] EXCEPT !.pc = "send", !.conn = c]),
         \/ connections' = connections
         \/ connections' = Append(connections, c) /\ client[t].pc = "create",
         UNCHANGED <<free_list, health, query_id>>
  PROVE  PoolInv'
<1> DEFINE r == [client[t] EXCEPT !.pc = "send", !.conn = c]
<1>1. PoolTypeOK /\ ListsSound /\ ClientSound(t)
  BY DEF PoolInv
<1>2. c \in ConnId /\ c \notin ToSet(free_list) /\ c \notin ToSet(connections)
  BY UnusedFacts
<1>3. client[t].conn = NoConn /\ client[t].answer = 0
  BY <1>1 DEF ClientSound, Holding
<1>4. /\ r.pc = "send" /\ r.conn = c /\ r.answer = 0 /\ r \in Client
      /\ Move(t, r)
  BY <1>1, <1>2, <1>3 DEF PoolTypeOK, Client, Holding
<1> HIDE DEF r
<1>5. /\ state'[c] = "connected" /\ wire'[c] = <<>>
      /\ \A d \in ConnId : d # c => state'[d] = state[d] /\ wire'[d] = wire[d]
      /\ state' \in [ConnId -> {"none", "connected", "error"}]
      /\ wire' \in [ConnId -> Seq(Nat)]
  BY <1>1, <1>2 DEF NewConn, PoolTypeOK
<1>6. up' \in [ConnId -> BOOLEAN]
  BY <1>1, <1>2 DEF NewConn, PoolTypeOK
<1>7. /\ connections' \in Seq(ConnId) /\ IsInjective(connections')
      /\ ToSet(connections') \subseteq ToSet(connections) \cup {c}
  <2>1. /\ connections \in Seq(ConnId) /\ IsInjective(connections)
    BY <1>1 DEF PoolTypeOK, ListsSound
  <2>2. /\ Append(connections, c) \in Seq(ConnId)
        /\ IsInjective(Append(connections, c))
        /\ ToSet(Append(connections, c)) = ToSet(connections) \cup {c}
    BY <1>2, <2>1, AppendElements
  <2> QED
    BY <2>1, <2>2
<1>8. ListsSound'
  <2>1. \A d \in ToSet(free_list) \cup ToSet(connections) : d \in ConnId
    BY <1>1, ElementsTyped DEF PoolTypeOK
  <2> QED
    BY <1>1, <1>2, <1>5, <1>7, <2>1 DEF ListsSound
<1>9. RoomLeft'
  <2>1. CASE connections' = connections
    BY <1>4, <2>1, PoolSizes, RoomKept
  <2>2. CASE connections' = Append(connections, c) /\ client[t].pc = "create"
    <3>1. client'[t] = r /\ \A u \in Thread : u # t => client'[u] = client[u]
      BY <1>1, <1>4 DEF PoolTypeOK, Move
    <3>2. t \in Creating /\ Creating' = Creating \ {t}
      BY <1>4, <2>2, <3>1 DEF Creating
    <3>3. Len(connections') = Len(connections) + 1
      BY <1>1, <1>2, <2>2, AppendElements DEF PoolTypeOK
    <3>4. Room(Len(connections), Creating, health)
      BY DEF PoolInv, RoomLeft
    <3>5. Room(Len(connections) + 1, Creating \ {t}, health)
      BY <3>2, <3>4, PoolSizes, RoomTaken
    <3> QED
      BY <3>2, <3>3, <3>5 DEF RoomLeft
  <2> QED
    BY <2>1, <2>2
<1>10. client'[t] = r => ClientSound(t)'
  BY <1>2, <1>4, <1>5 DEF ClientSound, HoldsConn, Holding
<1>11. ASSUME NEW u \in Thread, u # t, client[u].pc \in Holding
       PROVE  LeftAlone(client[u].conn, r)
  <2>1. /\ client[u].conn \in ConnId /\ client[u].conn # c
        /\ client[u].conn \notin ToSet(free_list)
    BY <1>11, HolderFacts
  <2> QED
    BY <1>4, <1>5, <2>1 DEF LeftAlone
<1> QED
  BY <1>1, <1>4, <1>5, <1>6, <1>7, <1>8, <1>9, <1>10, <1>11, ThreadStep
     DEF PoolTypeOK

\* No connection: the thread goes on without one.
LEMMA NoConnectInv ==
  ASSUME PoolInv, NEW t \in Thread,
         client[t].pc \in {"create", "direct"}, NEW r \in Client,
         r.pc \in {"idle", "direct"}, r.conn = NoConn, r.answer = 0,
         Move(t, r),
         UNCHANGED <<connections, free_list, state, up, wire, health, query_id>>
  PROVE  PoolInv'
<1>1. PoolTypeOK /\ ListsSound
  BY DEF PoolInv
<1>2. r.pc \notin Holding /\ r.pc # "create"
  BY DEF Holding
<1>3. ListsSound' /\ RoomLeft'
  BY <1>1, <1>2, PoolSizes, RoomKept DEF ListsSound
<1>4. client'[t] = r => ClientSound(t)'
  BY <1>2 DEF ClientSound
<1>5. ASSUME NEW u \in Thread, u # t, client[u].pc \in Holding
      PROVE  LeftAlone(client[u].conn, r)
  BY <1>2, <1>5, HolderFacts DEF LeftAlone
<1> QED
  BY <1>1, <1>2, <1>3, <1>4, <1>5, ThreadStep DEF PoolTypeOK

LEMMA CreateInv ==
  ASSUME PoolInv, NEW t \in Thread,
         create_pooled_connection(t) \/ async_connect(t)
  PROVE  PoolInv'
<1>1. PoolTypeOK /\ ClientSound(t)
  BY DEF PoolInv
<1>2. client[t].pc \in {"create", "direct"}
  BY DEF create_pooled_connection, async_connect, At
<1>3. client[t].conn = NoConn /\ client[t].answer = 0
  BY <1>1, <1>2 DEF ClientSound, Holding
<1>4. UNCHANGED <<free_list, health, query_id>>
  BY DEF create_pooled_connection, async_connect
<1>5. ASSUME NEW c \in Unused, NewConn(c),
             Move(t, [client[t] EXCEPT !.pc = "send", !.conn = c]),
             \/ connections' = connections
             \/ connections' = Append(connections, c) /\ client[t].pc = "create"
      PROVE  PoolInv'
  BY <1>2, <1>4, <1>5, ConnectInv
<1>6. ASSUME Move(t, [client[t] EXCEPT !.pc = "direct"]),
             NoNetwork, connections' = connections
      PROVE  PoolInv'
  <2> DEFINE r == [client[t] EXCEPT !.pc = "direct"]
  <2>1. r \in Client /\ r.pc = "direct" /\ r.conn = NoConn /\ r.answer = 0
    BY <1>1, <1>3 DEF PoolTypeOK, Client
  <2> QED
    BY <1>2, <1>4, <1>6, <2>1, NoConnectInv DEF NoNetwork
<1>7. ASSUME Move(t, AtRest),
             NoNetwork, connections' = connections
      PROVE  PoolInv'
  <2>1. /\ AtRest \in Client /\ AtRest.pc = "idle" /\ AtRest.conn = NoConn
        /\ AtRest.answer = 0
    BY DEF AtRest, Client
  <2> QED
    BY <1>2, <1>4, <1>7, <2>1, NoConnectInv DEF NoNetwork
<1>8. CASE create_pooled_connection(t)
  BY <1>5, <1>6, <1>8 DEF create_pooled_connection, At
<1>9. CASE async_connect(t)
  BY <1>5, <1>7, <1>9 DEF async_connect
<1> QED
  BY <1>8, <1>9

\* A thread with a connection goes on with it: it sends, receives or breaks.
LEMMA GoOnInv ==
  ASSUME PoolInv, NEW t \in Thread, client[t].pc \in Holding,
         NEW r \in Client, r.pc \in {"recv", "release"},
         r.conn = client[t].conn, Move(t, r),
         state' \in [ConnId -> {"connected", "error", "none"}],
         wire' \in [ConnId -> Seq(Nat)], state'[client[t].conn] # "none",
         \A d \in ConnId : d # client[t].conn =>
                             state'[d] = state[d] /\ wire'[d] = wire[d],
         client'[t] = r => ClientSound(t)',
         UNCHANGED <<connections, free_list, up, health>>, query_id' \in Nat
  PROVE  PoolInv'
<1>1. PoolTypeOK /\ ListsSound
  BY DEF PoolInv
<1>2. client[t].conn \in ConnId /\ client[t].conn \notin ToSet(free_list)
  BY HolderFacts
<1>3. ListsSound'
  <2>1. \A d \in ToSet(free_list) \cup ToSet(connections) : d \in ConnId
    BY <1>1, ElementsTyped DEF PoolTypeOK
  <2> QED
    BY <1>1, <1>2, <2>1 DEF ListsSound
<1>4. RoomLeft'
  BY PoolSizes, RoomKept
<1>5. ASSUME NEW u \in Thread, u # t, client[u].pc \in Holding
      PROVE  LeftAlone(client[u].conn, r)
  <2>1. /\ client[u].conn \in ConnId /\ client[u].conn # client[t].conn
        /\ client[u].conn \notin ToSet(free_list)
    BY <1>5, HolderFacts
  <2> QED
    BY <2>1 DEF LeftAlone
<1> QED
  BY <1>1, <1>3, <1>4, <1>5, ThreadStep DEF PoolTypeOK

\* A broken connection stays with its thread until it is released.
LEMMA BrokenInv ==
  ASSUME PoolInv, NEW t \in Thread,
         client[t].pc \in {"send", "recv"}, Broken(t),
         UNCHANGED <<connections, free_list, up, wire, health>>, query_id' \in Nat
  PROVE  PoolInv'
<1> DEFINE c == client[t].conn
           r == [client[t] EXCEPT !.pc = "release"]
<1>1. PoolTypeOK /\ ClientSound(t) /\ client[t].pc \in Holding
  BY DEF PoolInv, Holding
<1>2. HoldsConn(t)
  BY <1>1 DEF ClientSound
<1>3. c \in ConnId /\ c \notin ToSet(free_list) /\ client[t].answer = 0
  BY <1>2 DEF HoldsConn
<1>4. /\ r \in Client /\ r.pc = "release" /\ r.conn = c /\ r.answer = 0
      /\ Move(t, r)
  BY <1>1, <1>3 DEF PoolTypeOK, Client, Holding, Broken
<1>5. /\ state' \in [ConnId -> {"connected", "error", "none"}]
      /\ state'[c] = "error"
      /\ \A d \in ConnId : d # c => state'[d] = state[d]
  BY <1>1, <1>3 DEF Broken, PoolTypeOK
<1> HIDE DEF r
<1>6. client'[t] = r => ClientSound(t)'
  BY <1>3, <1>4, <1>5 DEF ClientSound, HoldsConn, Holding
<1> QED
  BY <1>1, <1>4, <1>5, <1>6, GoOnInv DEF PoolTypeOK

LEMMA SendInv ==
  ASSUME PoolInv, NEW t \in Thread, net_send_query(t)
  PROVE  PoolInv'
<1> DEFINE c == client[t].conn
           r == [client[t] EXCEPT !.pc = "recv", !.query = query_id']
<1>1. /\ PoolTypeOK /\ ClientSound(t) /\ client[t].pc = "send"
      /\ query_id' = query_id + 1
      /\ UNCHANGED <<connections, free_list, up, health>>
  BY DEF PoolInv, net_send_query, At
<1>2. HoldsConn(t) /\ client[t].pc \in Holding
  BY <1>1 DEF ClientSound, Holding
<1>3. /\ c \in ConnId /\ c \notin ToSet(free_list) /\ client[t].answer = 0
      /\ state[c] = "connected" /\ wire[c] = <<>>
  BY <1>1, <1>2 DEF HoldsConn
<1>4. query_id' \in Nat
  BY <1>1 DEF PoolTypeOK
<1>5. CASE Broken(t) /\ UNCHANGED wire
  BY <1>1, <1>4, <1>5, BrokenInv
<1>6. CASE ~ (Broken(t) /\ UNCHANGED wire)
  <2>1. /\ Move(t, r) /\ state' = state
        /\ wire' = IF up[c] THEN [wire EXCEPT ![c] = Append(@, query_id')]
                            ELSE wire
    BY <1>6 DEF net_send_query
  <2>2. /\ r \in Client /\ r.pc = "recv" /\ r.conn = c /\ r.answer = 0
        /\ r.query = query_id'
    BY <1>1, <1>3, <1>4 DEF PoolTypeOK, Client, Holding
  <2>3. Append(<<>>, query_id') = <<query_id'>> /\ <<query_id'>> \in Seq(Nat)
    BY <1>4
  <2>4. /\ wire' \in [ConnId -> Seq(Nat)] /\ wire'[c] \in {<<>>, <<query_id'>>}
        /\ \A d \in ConnId : d # c => wire'[d] = wire[d]
    BY <1>1, <1>3, <2>1, <2>3 DEF PoolTypeOK
  <2> HIDE DEF r
  <2>5. client'[t] = r => ClientSound(t)'
    BY <1>1, <1>3, <2>1, <2>2, <2>4 DEF ClientSound, HoldsConn, Holding
  <2> QED
    BY ZenonT(60), <1>1, <1>2, <1>3, <1>4, <2>1, <2>2, <2>4, <2>5, GoOnInv DEF PoolTypeOK
<1> QED
  BY <1>5, <1>6

LEMMA RecvInv ==
  ASSUME PoolInv, NEW t \in Thread, RecvAnswer(t)
  PROVE  PoolInv'
<1> DEFINE c == client[t].conn
           r == [client[t] EXCEPT !.pc = "release", !.answer = Head(wire[c])]
<1>1. /\ PoolTypeOK /\ ClientSound(t) /\ client[t].pc = "recv"
      /\ UNCHANGED <<connections, free_list, up, health, query_id>>
  BY DEF PoolInv, RecvAnswer, At
<1>2. HoldsConn(t) /\ client[t].pc \in Holding
  BY <1>1 DEF ClientSound, Holding
<1>3. /\ c \in ConnId /\ c \notin ToSet(free_list)
      /\ state[c] = "connected" /\ wire[c] \in {<<>>, <<client[t].query>>}
      /\ client[t].query \in Nat
  BY <1>1, <1>2 DEF HoldsConn, PoolTypeOK, Client
<1>4. CASE Broken(t) /\ UNCHANGED wire
  BY <1>1, <1>4, BrokenInv DEF PoolTypeOK
<1>5. CASE ~ (Broken(t) /\ UNCHANGED wire)
  <2>1. /\ Move(t, r) /\ state' = state /\ wire[c] # <<>>
        /\ wire' = [wire EXCEPT ![c] = Tail(@)]
    BY <1>5 DEF RecvAnswer
  <2>2. wire[c] = <<client[t].query>>
    BY <1>3, <2>1
  <2>3. Head(wire[c]) = client[t].query /\ Tail(wire[c]) = <<>>
    BY <2>2
  <2>4. /\ r \in Client /\ r.pc = "release" /\ r.conn = c
        /\ r.answer = r.query
    BY <1>1, <1>3, <2>3 DEF PoolTypeOK, Client, Holding
  <2>5. /\ wire' \in [ConnId -> Seq(Nat)] /\ wire'[c] = <<>>
        /\ \A d \in ConnId : d # c => wire'[d] = wire[d]
    BY <1>1, <1>3, <2>1, <2>3 DEF PoolTypeOK
  <2> HIDE DEF r
  <2>6. client'[t] = r => ClientSound(t)'
    BY <1>1, <1>3, <2>1, <2>4, <2>5 DEF ClientSound, HoldsConn, Holding
  <2> QED
    BY <1>1, <1>2, <1>3, <2>1, <2>4, <2>5, <2>6, GoOnInv DEF PoolTypeOK
<1> QED
  BY <1>4, <1>5

\* conn_pool_release: back to the free list, or out of the array and freed.
LEMMA ReleaseInv ==
  ASSUME PoolInv, NEW t \in Thread, conn_pool_release(t)
  PROVE  PoolInv'
<1> DEFINE c == client[t].conn
<1>1. /\ PoolTypeOK /\ ListsSound /\ ClientSound(t) /\ client[t].pc = "release"
      /\ Move(t, AtRest) /\ UNCHANGED <<up, wire, health, query_id>>
  BY DEF PoolInv, conn_pool_release, At
<1>2. HoldsConn(t) /\ client[t].pc \in Holding
  BY <1>1 DEF ClientSound, Holding
<1>3. /\ c \in ConnId /\ c \notin ToSet(free_list)
      /\ state[c] = "connected" => wire[c] = <<>>
      /\ state[c] # "none"
  BY <1>1, <1>2 DEF HoldsConn
<1>4. /\ AtRest \in Client /\ AtRest.pc = "idle" /\ AtRest.pc \notin Holding
      /\ AtRest.conn = NoConn /\ AtRest.answer = 0
  BY DEF AtRest, Client, Holding
<1>5. client'[t] = AtRest => ClientSound(t)'
  BY <1>4 DEF ClientSound
<1>6. \A d \in ToSet(free_list) \cup ToSet(connections) : d \in ConnId
  BY <1>1, ElementsTyped DEF PoolTypeOK
<1>7. CASE state[c] = "connected"
  <2>1. /\ free_list' = <<c>> \o free_list
        /\ connections' = connections /\ state' = state
    BY <1>7 DEF conn_pool_release
  <2>2. /\ <<c>> \o free_list \in Seq(ConnId) /\ IsInjective(<<c>> \o free_list)
        /\ ToSet(<<c>> \o free_list) = ToSet(free_list) \cup {c}
    BY <1>1, <1>3, PushElements DEF PoolTypeOK, ListsSound
  <2>3. ListsSound'
    BY <1>1, <1>3, <1>7, <2>1, <2>2 DEF ListsSound
  <2>4. RoomLeft'
    BY <1>1, <1>4, <2>1, PoolSizes, RoomKept
  <2>5. ASSUME NEW u \in Thread, u # t, client[u].pc \in Holding
        PROVE  LeftAlone(client[u].conn, AtRest)
    <3>1. client[u].conn # c /\ client[u].conn \notin ToSet(free_list)
      BY <1>2, <2>5, HolderFacts
    <3> QED
      BY <1>1, <1>4, <2>1, <2>2, <3>1 DEF LeftAlone
  <2> QED
    BY <1>1, <1>4, <1>5, <2>1, <2>2, <2>3, <2>4, <2>5, ThreadStep
       DEF PoolTypeOK
<1>8. CASE state[c] # "connected"
  <2>1. /\ connections' = Unlinked(connections, c) /\ free_list' = free_list
        /\ state' = [state EXCEPT ![c] = "none"]
    BY <1>8 DEF conn_pool_release
  <2>2. /\ Unlinked(connections, c) \in Seq(ConnId)
        /\ IsInjective(Unlinked(connections, c))
        /\ ToSet(Unlinked(connections, c)) = ToSet(connections) \ {c}
        /\ Len(Unlinked(connections, c)) <= Len(connections)
    BY <1>1, UnlinkedElements DEF PoolTypeOK, ListsSound
  <2>3. /\ state' \in [ConnId -> {"none", "connected", "error"}]
        /\ \A d \in ConnId : d # c => state'[d] = state[d]
    BY <1>1, <2>1 DEF PoolTypeOK
  <2>4. ListsSound'
    BY <1>1, <1>3, <1>6, <2>1, <2>2, <2>3 DEF ListsSound
  <2>5. RoomLeft'
    <3>1. Len(connections') \in Nat
      BY <2>1, <2>2, LenProperties
    <3> QED
      BY <1>1, <1>4, <2>1, <2>2, <3>1, RoomKept
  <2>6. ASSUME NEW u \in Thread, u # t, client[u].pc \in Holding
        PROVE  LeftAlone(client[u].conn, AtRest)
    <3>1. /\ client[u].conn # c /\ client[u].conn \notin ToSet(free_list)
          /\ client[u].conn \in ConnId
      BY <1>2, <2>6, HolderFacts
    <3> QED
      BY <1>1, <1>4, <2>1, <2>3, <3>1 DEF LeftAlone
  <2> QED
    BY <1>1, <1>4, <1>5, <2>1, <2>2, <2>3, <2>4, <2>5, <2>6, ThreadStep
       DEF PoolTypeOK
<1> QED
  BY <1>7, <1>8

\* A connection a step of the health check or of the network does not touch.
Untouched(d) ==
  /\ d \notin ToSet(free_list')
  /\ state'[d] = state[d] /\ wire'[d] = wire[d]

\* No thread moves, and the connections in use are left as they are.
LEMMA PoolStep ==
  ASSUME PoolInv, client' = client, query_id' = query_id,
         connections' \in Seq(ConnId), free_list' \in Seq(ConnId),
         state' \in [ConnId -> {"none", "connected", "error"}],
         up' \in [ConnId -> BOOLEAN], wire' \in [ConnId -> Seq(Nat)],
         health' \in {"idle", "walk", "create"}, ListsSound',
         Room(Len(connections'), Creating, health'),
         \A u \in Thread : client[u].pc \in Holding => Untouched(client[u].conn)
  PROVE  PoolInv'
<1>1. PoolTypeOK'
  BY DEF PoolInv, PoolTypeOK
<1>2. ASSUME NEW u \in Thread PROVE ClientSound(u)'
  <2>1. ClientSound(u)
    BY DEF PoolInv
  <2> QED
    BY <2>1, OthersSound DEF Untouched
<1>3. OneHolder'
  BY DEF PoolInv, OneHolder
<1>4. RoomLeft'
  BY DEF RoomLeft, Creating
<1> QED
  BY <1>1, <1>2, <1>3, <1>4 DEF PoolInv

\* conn_pool_health_check takes the lock, and leaves it to connect or not.
LEMMA WalkInv ==
  ASSUME PoolInv, conn_pool_health_check \/ EndWalk
  PROVE  PoolInv'
<1>1. PoolTypeOK /\ ListsSound /\ RoomLeft
  BY DEF PoolInv
<1>2. /\ UNCHANGED <<connections, free_list, client, query_id>>
      /\ UNCHANGED <<state, up, wire>>
  BY DEF conn_pool_health_check, EndWalk, NoNetwork
<1>3. \/ health' \in {"idle", "walk"}
      \/ health' = "create" /\ Len(connections) < min_connections
  BY DEF conn_pool_health_check, EndWalk
<1>4. ListsSound'
  BY <1>1, <1>2 DEF ListsSound
<1>5. Room(Len(connections'), Creating, health')
  <2>1. CASE health' \in {"idle", "walk"}
    <3>1. health' # "create"
      BY <2>1
    <3> QED
      BY <1>1, <1>2, <3>1, PoolSizes, RoomShrinks DEF RoomLeft
  <2>2. CASE health' = "create" /\ Len(connections) < min_connections
    <3>1. Len(connections) < max_connections
      BY <2>2, PoolSizes, PoolAssumption
    <3> QED
      BY <1>2, <3>1, PoolSizes, RoomTested
  <2> QED
    BY <1>3, <2>1, <2>2
<1>6. ASSUME NEW u \in Thread, client[u].pc \in Holding
      PROVE  Untouched(client[u].conn)
  BY <1>2, <1>6, HolderFacts DEF Untouched
<1> QED
  BY <1>1, <1>2, <1>3, <1>4, <1>5, <1>6, PoolStep DEF PoolTypeOK

\* A stale connection of the free list: nobody uses it.
LEMMA RemoveStaleInv ==
  ASSUME PoolInv, NEW c \in ToSet(free_list), RemoveStale(c)
  PROVE  PoolInv'
<1>1. PoolTypeOK /\ ListsSound /\ RoomLeft
  BY DEF PoolInv
<1>2. /\ free_list' = Unlinked(free_list, c)
      /\ connections' = Unlinked(connections, c)
      /\ state' = [state EXCEPT ![c] = "none"]
      /\ UNCHANGED <<up, wire, client, health, query_id>>
  BY DEF RemoveStale
<1>3. /\ free_list' \in Seq(ConnId) /\ IsInjective(free_list')
      /\ ToSet(free_list') = ToSet(free_list) \ {c}
  BY <1>1, <1>2, UnlinkedElements DEF PoolTypeOK, ListsSound
<1>4. /\ connections' \in Seq(ConnId) /\ IsInjective(connections')
      /\ ToSet(connections') = ToSet(connections) \ {c}
      /\ Len(connections') <= Len(connections)
  BY <1>1, <1>2, UnlinkedElements DEF PoolTypeOK, ListsSound
<1>5. /\ state' \in [ConnId -> {"none", "connected", "error"}]
      /\ \A d \in ConnId : d # c => state'[d] = state[d]
  BY <1>1, <1>2 DEF PoolTypeOK
<1>6. \A d \in ToSet(free_list) \cup ToSet(connections) : d \in ConnId
  BY <1>1, ElementsTyped DEF PoolTypeOK
<1>7. ListsSound'
  BY <1>1, <1>2, <1>3, <1>4, <1>5, <1>6 DEF ListsSound
<1>8. Room(Len(connections'), Creating, health')
  <2>1. Len(connections') \in Nat
    BY <1>4, LenProperties
  <2> QED
    BY <1>1, <1>2, <1>4, <2>1, PoolSizes, RoomShrinks DEF RoomLeft
<1>9. ASSUME NEW u \in Thread, client[u].pc \in Holding
      PROVE  Untouched(client[u].conn)
  <2>1. /\ client[u].conn \in ConnId /\ client[u].conn # c
        /\ client[u].conn \notin ToSet(free_list)
    BY <1>9, HolderFacts
  <2> QED
    BY <1>2, <1>3, <1>5, <2>1 DEF Untouched
<1> QED
  BY <1>1, <1>2, <1>3, <1>4, <1>5, <1>7, <1>8, <1>9, PoolStep DEF PoolTypeOK

\* Up to the minimum: a new connection in the array and in the free list.
LEMMA EnsureInv ==
  ASSUME PoolInv, EnsureMinimum
  PROVE  PoolInv'
<1>1. PoolTypeOK /\ ListsSound /\ RoomLeft
  BY DEF PoolInv
<1>2. health = "create" /\ UNCHANGED <<client, query_id>>
  BY DEF EnsureMinimum
<1>3. ASSUME NEW c \in Unused, NewConn(c),
             connections' = Append(connections, c),
             free_list' = <<c>> \o free_list,
             health' = IF Len(connections') < min_connections
                       THEN "create" ELSE "idle"
      PROVE  PoolInv'
  <2>1. c \in ConnId /\ c \notin ToSet(free_list) /\ c \notin ToSet(connections)
    BY <1>3, UnusedFacts
  <2>2. /\ state'[c] = "connected" /\ wire'[c] = <<>>
        /\ \A d \in ConnId : d # c => state'[d] = state[d] /\ wire'[d] = wire[d]
        /\ state' \in [ConnId -> {"none", "connected", "error"}]
        /\ wire' \in [ConnId -> Seq(Nat)]
    BY <1>1, <1>3, <2>1 DEF NewConn, PoolTypeOK
  <2>3. up' \in [ConnId -> BOOLEAN]
    BY <1>1, <1>3, <2>1 DEF NewConn, PoolTypeOK
  <2>4. /\ connections' \in Seq(ConnId) /\ IsInjective(connections')
        /\ ToSet(connections') = ToSet(connections) \cup {c}
        /\ Len(connections') = Len(connections) + 1
    BY <1>1, <1>3, <2>1, AppendElements DEF PoolTypeOK, ListsSound
  <2>5. /\ free_list' \in Seq(ConnId) /\ IsInjective(free_list')
        /\ ToSet(free_list') = ToSet(free_list) \cup {c}
    BY <1>1, <1>3, <2>1, PushElements DEF PoolTypeOK, ListsSound
  <2>6. \A d \in ToSet(free_list) \cup ToSet(connections) : d \in ConnId
    BY <1>1, ElementsTyped DEF PoolTypeOK
  <2>7. ListsSound'
    BY <1>1, <2>1, <2>2, <2>4, <2>5, <2>6 DEF ListsSound
  <2>8. Room(Len(connections'), Creating, health')
    <3>1. CASE Len(connections') < min_connections
      <4>1. Len(connections') \in Nat /\ Len(connections') < max_connections
        BY <2>4, <3>1, PoolSizes, PoolAssumption
      <4> QED
        BY <4>1, PoolSizes, RoomTested
    <3>2. CASE ~ (Len(connections') < min_connections)
      <4>1. Room(Len(connections), Creating, "create") /\ health' = "idle"
        BY <1>1, <1>2, <1>3, <3>2 DEF RoomLeft
      <4> QED
        BY <2>4, <4>1, PoolSizes, RoomEnsured
    <3> QED
      BY <3>1, <3>2
  <2>9. ASSUME NEW u \in Thread, client[u].pc \in Holding
        PROVE  Untouched(client[u].conn)
    <3>1. /\ client[u].conn \in ConnId /\ client[u].conn # c
          /\ client[u].conn \notin ToSet(free_list)
      BY <1>3, <2>9, HolderFacts
    <3> QED
      BY <2>2, <2>5, <3>1 DEF Untouched
  <2>10. health' \in {"idle", "walk", "create"}
    BY <1>3
  <2> QED
    BY <1>2, <2>2, <2>3, <2>4, <2>5, <2>7, <2>8, <2>9, <2>10, PoolStep
<1>4. ASSUME health' = "idle", NoNetwork, UNCHANGED <<connections, free_list>>
      PROVE  PoolInv'
  <2>1. ListsSound'
    BY <1>1, <1>4 DEF ListsSound, NoNetwork
  <2>2. Room(Len(connections'), Creating, health')
    BY <1>1, <1>4, PoolSizes, RoomShrinks DEF RoomLeft
  <2>3. ASSUME NEW u \in Thread, client[u].pc \in Holding
        PROVE  Untouched(client[u].conn)
    BY <1>4, <2>3, HolderFacts DEF Untouched, NoNetwork
  <2> QED
    BY <1>1, <1>2, <1>4, <2>1, <2>2, <2>3, PoolStep DEF PoolTypeOK, NoNetwork
<1> QED
  BY <1>3, <1>4 DEF EnsureMinimum

LEMMA PeerGoneInv ==
  ASSUME PoolInv, NEW c \in ConnId, PeerGone(c)
  PROVE  PoolInv'
<1>1. PoolTypeOK /\ ListsSound /\ RoomLeft
  BY DEF PoolInv
<1>2. UNCHANGED <<connections, free_list, state, wire, client, health, query_id>>
  BY DEF PeerGone
<1>3. up' \in [ConnId -> BOOLEAN]
  BY <1>1 DEF PeerGone, PoolTypeOK
<1>4. ListsSound' /\ Room(Len(connections'), Creating, health')
  BY <1>1, <1>2 DEF ListsSound, RoomLeft
<1>5. ASSUME NEW u \in Thread, client[u].pc \in Holding
      PROVE  Untouched(client[u].conn)
  BY <1>2, <1>5, HolderFacts DEF Untouched
<1> QED
  BY <1>1, <1>2, <1>3, <1>4, <1>5, PoolStep DEF PoolTypeOK

LEMMA NextPoolInv ==
  ASSUME PoolInv, [PoolUseNext]_pvars
  PROVE  PoolInv'
<1>1. CASE UNCHANGED pvars
  BY <1>1 DEF pvars, PoolInv, PoolTypeOK, ListsSound, ClientSound, HoldsConn,
              OneHolder, RoomLeft, Creating
<1>2. ASSUME NEW t \in Thread,
             \/ conn_pool_acquire(t) \/ create_pooled_connection(t)
             \/ async_connect(t) \/ net_send_query(t)
             \/ RecvAnswer(t) \/ conn_pool_release(t)
      PROVE  PoolInv'
  BY <1>2, AcquireInv, CreateInv, SendInv, RecvInv, ReleaseInv
<1>3. CASE conn_pool_health_check \/ EndWalk
  BY <1>3, WalkInv
<1>4. CASE EnsureMinimum
  BY <1>4, EnsureInv
<1>5. ASSUME NEW c \in ToSet(free_list), RemoveStale(c) PROVE PoolInv'
  BY <1>5, RemoveStaleInv
<1>6. ASSUME NEW c \in ConnId, PeerGone(c) PROVE PoolInv'
  BY <1>6, PeerGoneInv
<1> QED
  BY <1>1, <1>2, <1>3, <1>4, <1>5, <1>6 DEF PoolUseNext

LEMMA PoolInvExclusive ==
  ASSUME PoolInv
  PROVE  ConnectionsExclusive
<1> DEFINE used == {t \in Thread : client[t].conn # NoConn}
<1>1. PoolTypeOK /\ ListsSound /\ RoomLeft /\ OneHolder
  BY DEF PoolInv
<1>2. ASSUME NEW t \in used PROVE t \in Thread /\ client[t].pc \in Holding /\ HoldsConn(t)
  BY <1>2 DEF PoolInv, ClientSound
<1>3. \A t, u \in used : client[t].conn = client[u].conn => t = u
  BY <1>1, <1>2 DEF OneHolder
<1>4. \A t \in used : /\ client[t].conn \notin ToSet(free_list)
                      /\ state[client[t].conn] # "none"
                      /\ client[t].answer # 0 => client[t].answer = client[t].query
  BY <1>2 DEF HoldsConn
<1>5. \A i, j \in DOMAIN free_list : free_list[i] = free_list[j] => i = j
  BY <1>1 DEF ListsSound, IsInjective
<1>6. Len(connections) <= max_connections + Cardinality(Thread)
  <2>1. /\ Cardinality(Creating) \in Nat /\ Cardinality(Thread) \in Nat
        /\ Len(connections) \in Nat
    BY PoolSizes, CreatingFinite
  <2> QED
    BY <1>1, <2>1, PoolAssumption DEF RoomLeft, Room
<1> QED
  BY <1>1, <1>3, <1>4, <1>5, <1>6 DEF ListsSound, ConnectionsExclusive

(* conn_pool_acquire, conn_pool_release and conn_pool_health_check: whatever
   the number of threads and the size of the pool, no connection is used by
   two threads, or is free or freed while it is used; an answer is read by
   the thread that asked; and the array is overfilled by no more than the
   threads that connect at the same time. *)
THEOREM ConnectionsCorrect ==
  conn_pool_create /\ [][PoolUseNext]_pvars => []ConnectionsExclusive
<1>1. conn_pool_create => PoolInv
  BY InitPoolInv
<1>2. PoolInv /\ [PoolUseNext]_pvars => PoolInv'
  BY NextPoolInv
<1>3. PoolInv => ConnectionsExclusive
  BY PoolInvExclusive
<1> QED
  BY <1>1, <1>2, <1>3, PTL

-----------------------------------------------------------------------------
(* The index registry. *)

CreateRec ==
  [op : {"create"}, table : IxTable, name : IxName, saw : SUBSET IxAddr]

IndexTypeOK ==
  /\ indexes \in Seq(IxAddr)
  /\ def \in [IxAddr -> IndexDef \cup {NoIx}]
  /\ DOMAIN ixpc = IxThread
  /\ \A t \in IxThread : ixpc[t].op = "create" => ixpc[t] \in CreateRec
  /\ ptr \in [IxThread -> IxAddr \cup {NoIx}]
  /\ seen \in [IxAddr -> SUBSET IxAddr]

Listed ==
  IsInjective(indexes) /\ ToSet(indexes) = {a \in IxAddr : def[a] # NoIx}

\* What a creator saw is still in the array, and none of it has the name the
\* creator chose: before the index is stored and after.
Apart(a, tb, n) == ~ (def[a].table = tb /\ def[a].name = n)
SawSound(S, tb, n) == \A a \in S : a \in ToSet(indexes) /\ Apart(a, tb, n)
SeenSound ==
  \A b \in IxAddr : IF b \in ToSet(indexes)
                    THEN SawSound(seen[b], def[b].table, def[b].name)
                    ELSE seen[b] = {}
CreatorsSound ==
  \A t \in IxThread :
    ixpc[t].op = "create" => SawSound(ixpc[t].saw, ixpc[t].table, ixpc[t].name)

IndexInv == IndexTypeOK /\ Listed /\ SeenSound /\ CreatorsSound

LEMMA ListedFacts ==
  ASSUME IndexInv, NEW a \in ToSet(indexes)
  PROVE  a \in IxAddr /\ def[a] \in IndexDef /\ a \notin seen[a]
BY DEF IndexInv, IndexTypeOK, Listed, SeenSound, SawSound, Apart

\* A search finds a position of the array that holds what it looks for.
LEMMA FirstFacts ==
  ASSUME IndexInv, NEW S, S # {}, S \subseteq ToSet(indexes)
  PROVE  FirstAt(S) \in 1 .. Len(indexes) /\ First(S) \in S
<1> DEFINE T == {i \in 1 .. Len(indexes) : indexes[i] \in S}
<1>1. DOMAIN indexes = 1 .. Len(indexes) /\ Len(indexes) \in Nat
  BY LenProperties DEF IndexInv, IndexTypeOK
<1>2. T # {} /\ T \subseteq Nat
  BY <1>1 DEF ToSet
<1>3. PICK i \in T : \A j \in T : ~ (<<j, i>> \in OpToRel(<, Nat))
  BY <1>2, WFMin, NatLessThanWellFounded
<1>4. \A j \in T : ~ (j < i)
  BY <1>2, <1>3 DEF OpToRel
<1>5. \A j \in 1 .. i - 1 : indexes[j] \notin S
  <2> SUFFICES ASSUME NEW j \in 1 .. i - 1, indexes[j] \in S PROVE FALSE
    OBVIOUS
  <2>1. j \in 1 .. Len(indexes) /\ j < i
    BY <1>1
  <2> QED
    BY <1>4, <2>1
<1>6. \E k \in DOMAIN indexes :
        indexes[k] \in S /\ \A j \in 1 .. k - 1 : indexes[j] \notin S
  BY <1>1, <1>5
<1>7. FirstAt(S) \in DOMAIN indexes /\ indexes[FirstAt(S)] \in S
  BY <1>6 DEF FirstAt
<1> QED
  BY <1>1, <1>7 DEF First

LEMMA InitIndexInv == index_manager_init => IndexInv
<1> SUFFICES ASSUME index_manager_init PROVE IndexInv
  OBVIOUS
<1>1. indexes = <<>> /\ ToSet(indexes) = {} /\ IsInjective(indexes)
  BY DEF index_manager_init, ToSet, IsInjective
<1>2. \A t \in IxThread : ixpc[t].op # "create"
  BY DEF index_manager_init, Idle
<1>3. indexes \in Seq(IxAddr) /\ DOMAIN ixpc = IxThread
  BY <1>1 DEF index_manager_init
<1>4. /\ def \in [IxAddr -> IndexDef \cup {NoIx}]
      /\ ptr \in [IxThread -> IxAddr \cup {NoIx}]
      /\ seen \in [IxAddr -> SUBSET IxAddr]
  BY DEF index_manager_init
<1>5. Listed
  BY <1>1 DEF Listed, index_manager_init
<1>6. SeenSound
  BY <1>1 DEF SeenSound, index_manager_init
<1> QED
  BY <1>2, <1>3, <1>4, <1>5, <1>6 DEF IndexInv, IndexTypeOK, CreatorsSound

\* A step that leaves the registry alone, and makes no creator.
LEMMA NoWriteInv ==
  ASSUME IndexInv, UNCHANGED <<indexes, def, seen>>,
         ptr' \in [IxThread -> IxAddr \cup {NoIx}], DOMAIN ixpc' = IxThread,
         \A t \in IxThread : ixpc'[t].op = "create" => ixpc'[t] = ixpc[t]
  PROVE  IndexInv'
<1>1. IndexTypeOK' /\ Listed' /\ SeenSound'
  BY DEF IndexInv, IndexTypeOK, Listed, SeenSound, SawSound, Apart
<1>2. CreatorsSound'
  BY DEF IndexInv, CreatorsSound, SawSound, Apart
<1> QED
  BY <1>1, <1>2 DEF IndexInv

LEMMA CheckInv ==
  ASSUME IndexInv, NEW t \in IxThread, NEW tb \in IxTable, NEW n \in IxName,
         index_create_check(t, tb, n)
  PROVE  IndexInv'
<1> DEFINE r == [op |-> "create", table |-> tb, name |-> n,
                 saw |-> ToSet(indexes)]
<1>1. /\ Named(tb, n) = {} /\ ixpc' = [ixpc EXCEPT ![t] = r]
      /\ UNCHANGED <<indexes, def, ptr, seen>>
  BY DEF index_create_check
<1>2. IndexTypeOK /\ ToSet(indexes) \subseteq IxAddr
  BY DEF IndexInv, Listed
<1>3. r \in CreateRec
  BY <1>2 DEF CreateRec
<1>4. SawSound(ToSet(indexes), tb, n)
  BY <1>1 DEF SawSound, Apart, Named, InTable
<1>5. /\ r.op = "create" /\ r.table = tb /\ r.name = n /\ r.saw = ToSet(indexes)
  OBVIOUS
<1> HIDE DEF r
<1>6. /\ DOMAIN ixpc' = IxThread /\ ixpc'[t] = r
      /\ \A u \in IxThread : u # t => ixpc'[u] = ixpc[u]
  BY <1>1, <1>2 DEF IndexTypeOK
<1>7. IndexTypeOK'
  BY <1>1, <1>2, <1>3, <1>6 DEF IndexTypeOK
<1>8. Listed' /\ SeenSound'
  BY <1>1 DEF IndexInv, Listed, SeenSound, SawSound, Apart
<1>9. CreatorsSound'
  BY <1>1, <1>4, <1>5, <1>6 DEF IndexInv, CreatorsSound, SawSound, Apart
<1> QED
  BY <1>7, <1>8, <1>9 DEF IndexInv

\* index_create stores its index at an address that nobody has seen.
LEMMA CreateIndexInv ==
  ASSUME IndexInv, NEW t \in IxThread, index_create(t)
  PROVE  IndexInv'
<1> DEFINE r == ixpc[t]
           d == [table |-> r.table, name |-> r.name, entries |-> 0]
<1>1. PICK a \in IxAddr :
        /\ def[a] = NoIx /\ def' = [def EXCEPT ![a] = d]
        /\ indexes' = Append(indexes, a)
        /\ seen' = [seen EXCEPT ![a] = r.saw]
  BY DEF index_create
<1>2. /\ IndexTypeOK /\ Listed /\ SeenSound /\ CreatorsSound
      /\ r.op = "create" /\ ptr' = ptr /\ ixpc' = [ixpc EXCEPT ![t] = Idle]
  BY DEF index_create, IndexInv
<1>3. r \in CreateRec
  BY <1>2 DEF IndexTypeOK
<1>4. d \in IndexDef /\ d.table = r.table /\ d.name = r.name
  BY <1>3, IndexAssumption DEF CreateRec, IndexDef, Entries
<1>5. d # NoIx /\ r.saw \subseteq IxAddr
  BY <1>3, <1>4, IndexAssumption DEF CreateRec
<1>6. SawSound(r.saw, r.table, r.name)
  BY <1>2 DEF CreatorsSound
<1> HIDE DEF d
<1>7. a \notin ToSet(indexes)
  BY <1>1, <1>2 DEF Listed
<1>8. /\ indexes' \in Seq(IxAddr) /\ IsInjective(indexes')
      /\ ToSet(indexes') = ToSet(indexes) \cup {a}
  BY <1>1, <1>2, <1>7, AppendElements DEF IndexTypeOK, Listed
<1>9. /\ def' \in [IxAddr -> IndexDef \cup {NoIx}] /\ def'[a] = d
      /\ \A b \in IxAddr : b # a => def'[b] = def[b]
  BY <1>1, <1>2, <1>4 DEF IndexTypeOK
<1>10. /\ seen' \in [IxAddr -> SUBSET IxAddr] /\ seen'[a] = r.saw
       /\ \A b \in IxAddr : b # a => seen'[b] = seen[b]
  BY <1>1, <1>2, <1>5 DEF IndexTypeOK
<1>11. /\ DOMAIN ixpc' = IxThread /\ ixpc'[t].op # "create"
       /\ \A u \in IxThread : u # t => ixpc'[u] = ixpc[u]
  BY <1>2 DEF IndexTypeOK, Idle
<1>12. IndexTypeOK'
  BY <1>2, <1>8, <1>9, <1>10, <1>11 DEF IndexTypeOK
<1>13. ToSet(indexes) \subseteq IxAddr
  BY <1>2 DEF Listed
<1>14. Listed'
  BY <1>2, <1>5, <1>8, <1>9 DEF Listed
<1>15. ASSUME NEW S, NEW tb, NEW n, SawSound(S, tb, n)
       PROVE  \A b \in S : b \in ToSet(indexes') /\ ~ (def'[b].table = tb /\ def'[b].name = n)
  BY <1>7, <1>8, <1>9, <1>13, <1>15 DEF SawSound, Apart
<1>16. SeenSound'
  <2> SUFFICES ASSUME NEW b \in IxAddr
               PROVE  IF b \in ToSet(indexes')
                      THEN \A c \in seen'[b] :
                             /\ c \in ToSet(indexes')
                             /\ ~ (def'[c].table = def'[b].table /\ def'[c].name = def'[b].name)
                      ELSE seen'[b] = {}
    BY DEF SeenSound, SawSound, Apart
  <2>1. CASE b = a
    BY <1>4, <1>6, <1>8, <1>9, <1>10, <1>15, <2>1
  <2>2. CASE b # a /\ b \in ToSet(indexes)
    <3>1. SawSound(seen[b], def[b].table, def[b].name)
      BY <1>2, <2>2 DEF SeenSound
    <3> QED
      BY <1>8, <1>9, <1>10, <1>15, <2>2, <3>1
  <2>3. CASE b # a /\ b \notin ToSet(indexes)
    BY <1>2, <1>8, <1>10, <2>3 DEF SeenSound
  <2> QED
    BY <2>1, <2>2, <2>3
<1>17. CreatorsSound'
  <2> SUFFICES ASSUME NEW u \in IxThread, ixpc'[u].op = "create"
               PROVE  \A c \in ixpc'[u].saw :
                        /\ c \in ToSet(indexes')
                        /\ ~ (def'[c].table = ixpc'[u].table /\ def'[c].name = ixpc'[u].name)
    BY DEF CreatorsSound, SawSound, Apart
  <2>1. ixpc'[u] = ixpc[u]
    BY <1>11
  <2>2. SawSound(ixpc[u].saw, ixpc[u].table, ixpc[u].name)
    BY <1>2, <2>1 DEF CreatorsSound
  <2> QED
    BY <1>15, <2>1, <2>2
<1> QED
  BY <1>12, <1>14, <1>16, <1>17 DEF IndexInv

\* After an index was dropped, no creator counts its address as seen.
Forgotten(a) ==
  \A u \in IxThread : ixpc'[u].op = "create" =>
    ixpc[u].op = "create" /\ ixpc'[u] = [ixpc[u] EXCEPT !.saw = @ \ {a}]

LEMMA DropInv ==
  ASSUME IndexInv, NEW i \in 1 .. Len(indexes), Drop(i),
         ptr' = ptr, DOMAIN ixpc' = IxThread, Forgotten(indexes[i])
  PROVE  IndexInv'
<1> DEFINE a == indexes[i]
<1>1. /\ IndexTypeOK /\ Listed /\ SeenSound /\ CreatorsSound
  BY DEF IndexInv
<1>2. /\ indexes' = RemoveAt(indexes, i)
      /\ def' = [def EXCEPT ![a] = NoIx]
      /\ seen' = [b \in IxAddr |-> IF b = a THEN {} ELSE seen[b] \ {a}]
  BY DEF Drop
<1>3. a \in ToSet(indexes) /\ a \in IxAddr
  BY <1>1, LenProperties DEF ToSet, IndexTypeOK
<1>4. /\ indexes' \in Seq(IxAddr) /\ IsInjective(indexes')
      /\ ToSet(indexes') = ToSet(indexes) \ {a}
  BY <1>1, <1>2, RemoveAtProperties, RemoveAtElements DEF IndexTypeOK, Listed
<1>5. \A u \in IxThread : ixpc'[u].op = "create" =>
        ixpc[u].op = "create" /\ ixpc'[u] = [ixpc[u] EXCEPT !.saw = @ \ {a}]
  BY DEF Forgotten
<1> HIDE DEF a
<1>6. /\ def' \in [IxAddr -> IndexDef \cup {NoIx}] /\ def'[a] = NoIx
      /\ \A b \in IxAddr : b # a => def'[b] = def[b]
  BY <1>1, <1>2, <1>3 DEF IndexTypeOK
<1>7. seen' \in [IxAddr -> SUBSET IxAddr]
  BY <1>1, <1>2 DEF IndexTypeOK
<1>8. ASSUME NEW u \in IxThread, ixpc'[u].op = "create"
      PROVE  /\ ixpc[u].op = "create" /\ ixpc'[u] \in CreateRec
             /\ ixpc'[u].table = ixpc[u].table /\ ixpc'[u].name = ixpc[u].name
             /\ ixpc'[u].saw = ixpc[u].saw \ {a}
  <2>1. ixpc[u] \in CreateRec
    BY <1>1, <1>5, <1>8 DEF IndexTypeOK
  <2> QED
    BY <1>5, <1>8, <2>1 DEF CreateRec
<1>9. IndexTypeOK'
  BY <1>1, <1>4, <1>6, <1>7, <1>8 DEF IndexTypeOK
<1>10. Listed'
  BY <1>1, <1>3, <1>4, <1>6 DEF Listed
<1>11. ToSet(indexes) \subseteq IxAddr
  BY <1>1 DEF Listed
<1>12. ASSUME NEW S, NEW tb, NEW n, SawSound(S, tb, n)
       PROVE  \A c \in S \ {a} :
                /\ c \in ToSet(indexes')
                /\ ~ (def'[c].table = tb /\ def'[c].name = n)
  BY <1>4, <1>6, <1>11, <1>12 DEF SawSound, Apart
<1>13. SeenSound'
  <2> SUFFICES ASSUME NEW b \in IxAddr
               PROVE  IF b \in ToSet(indexes')
                      THEN \A c \in seen'[b] :
                             /\ c \in ToSet(indexes')
                             /\ ~ (/\ def'[c].table = def'[b].table
                                   /\ def'[c].name = def'[b].name)
                      ELSE seen'[b] = {}
    BY DEF SeenSound, SawSound, Apart
  <2>1. CASE b = a
    BY <1>2, <1>4, <2>1
  <2>2. CASE b # a /\ b \in ToSet(indexes)
    <3>1. SawSound(seen[b], def[b].table, def[b].name)
      BY <1>1, <2>2 DEF SeenSound
    <3>2. seen'[b] = seen[b] \ {a} /\ def'[b] = def[b] /\ b \in ToSet(indexes')
      BY <1>2, <1>4, <1>6, <2>2
    <3> QED
      BY <1>12, <3>1, <3>2
  <2>3. CASE b # a /\ b \notin ToSet(indexes)
    <3>1. seen[b] = {} /\ seen'[b] = seen[b] \ {a} /\ b \notin ToSet(indexes')
      BY <1>1, <1>2, <1>4, <2>3 DEF SeenSound
    <3> QED
      BY <3>1
  <2> QED
    BY <2>1, <2>2, <2>3
<1>14. CreatorsSound'
  <2> SUFFICES ASSUME NEW u \in IxThread, ixpc'[u].op = "create"
               PROVE  \A c \in ixpc'[u].saw :
                        /\ c \in ToSet(indexes')
                        /\ ~ (/\ def'[c].table = ixpc'[u].table
                              /\ def'[c].name = ixpc'[u].name)
    BY DEF CreatorsSound, SawSound, Apart
  <2>1. SawSound(ixpc[u].saw, ixpc[u].table, ixpc[u].name)
    BY <1>1, <1>8 DEF CreatorsSound
  <2> QED
    BY <1>8, <1>12, <2>1
<1> QED
  BY <1>9, <1>10, <1>13, <1>14 DEF IndexInv

LEMMA NamedListed ==
  ASSUME NEW tb, NEW n
  PROVE  Named(tb, n) \subseteq ToSet(indexes)
BY DEF Named, InTable

LEMMA IndexDropInv ==
  ASSUME IndexInv, NEW t \in IxThread, NEW tb, NEW n,
         index_drop(t, tb, n)
  PROVE  IndexInv'
<1> DEFINE S == Named(tb, n)
           i == FirstAt(S)
<1>1. /\ S # {} /\ Drop(i) /\ ptr' = ptr
      /\ ixpc' = [u \in IxThread |-> IF ixpc[u].op = "create"
                    THEN [ixpc[u] EXCEPT !.saw = @ \ {First(S)}] ELSE ixpc[u]]
  BY DEF index_drop
<1>2. i \in 1 .. Len(indexes) /\ First(S) = indexes[i]
  BY <1>1, NamedListed, FirstFacts DEF First
<1>3. DOMAIN ixpc' = IxThread /\ Forgotten(indexes[i])
  BY <1>1, <1>2 DEF Forgotten
<1> QED
  BY <1>1, <1>2, <1>3, DropInv

LEMMA DropAllInv ==
  ASSUME IndexInv, NEW t \in IxThread, DropAllDrop(t)
  PROVE  IndexInv'
<1> DEFINE S == Named(ixpc[t].table, ixpc[t].name)
           i == FirstAt(S)
           next(u) == IF u = t THEN [op |-> "all", table |-> ixpc[t].table]
                               ELSE ixpc[u]
<1>1. ptr' = ptr /\ ptr' \in [IxThread -> IxAddr \cup {NoIx}]
  BY DEF DropAllDrop, IndexInv, IndexTypeOK
<1>2. \A u \in IxThread : next(u).op = "create" =>
        ixpc[u].op = "create" /\ next(u) = ixpc[u]
  OBVIOUS
<1>3. CASE S = {}
  <2>1. /\ UNCHANGED <<indexes, def, seen>>
        /\ ixpc' = [u \in IxThread |-> next(u)]
    BY <1>3 DEF DropAllDrop
  <2> QED
    BY <1>1, <1>2, <2>1, NoWriteInv
<1>4. CASE S # {}
  <2>1. /\ Drop(i)
        /\ ixpc' = [u \in IxThread |-> IF next(u).op = "create"
                      THEN [ixpc[u] EXCEPT !.saw = @ \ {First(S)}] ELSE next(u)]
    BY <1>4 DEF DropAllDrop
  <2>2. i \in 1 .. Len(indexes) /\ First(S) = indexes[i]
    BY <1>4, NamedListed, FirstFacts DEF First
  <2> HIDE DEF S, i, next
  <2>3. DOMAIN ixpc' = IxThread /\ Forgotten(indexes[i])
    BY <1>2, <2>1, <2>2 DEF Forgotten
  <2> QED
    BY <1>1, <2>1, <2>2, <2>3, DropInv
<1> QED
  BY <1>3, <1>4

LEMMA FindInv ==
  ASSUME IndexInv, NEW t \in IxThread, NEW tb, DropAllFind(t, tb)
  PROVE  IndexInv'
<1>1. UNCHANGED <<indexes, def, ptr, seen>> /\ IndexTypeOK
  BY DEF DropAllFind, IndexInv
<1>2. PICK r : ixpc' = [ixpc EXCEPT ![t] = r] /\ r.op # "create"
  BY DEF DropAllFind, Idle
<1> QED
  BY <1>1, <1>2, NoWriteInv DEF IndexTypeOK

LEMMA GetInv ==
  ASSUME IndexInv, NEW t \in IxThread, NEW tb, NEW n,
         index_get(t, tb, n)
  PROVE  IndexInv'
<1>1. IndexTypeOK /\ UNCHANGED <<indexes, def, ixpc, seen>>
  BY DEF index_get, IndexInv
<1>2. First(Named(tb, n)) \in ToSet(indexes)
  BY NamedListed, FirstFacts DEF index_get
<1>3. First(Named(tb, n)) \in IxAddr
  BY <1>2, ListedFacts
<1>4. ptr' \in [IxThread -> IxAddr \cup {NoIx}]
  BY <1>1, <1>3 DEF index_get, IndexTypeOK
<1> QED
  BY <1>1, <1>4, NoWriteInv DEF IndexTypeOK

\* A write through a kept pointer changes no name, whichever definition is at
\* the address by then.
LEMMA TouchInv ==
  ASSUME IndexInv, NEW t \in IxThread,
         NEW f \in [Entries -> Entries], Touch(t, f)
  PROVE  IndexInv'
<1> DEFINE p == ptr[t]
<1>1. /\ IndexTypeOK /\ Listed /\ SeenSound /\ CreatorsSound
      /\ UNCHANGED <<indexes, ixpc, ptr, seen>> /\ p \in IxAddr
  BY DEF Touch, IndexInv, IndexTypeOK
<1>2. CASE def[p] = NoIx
  <2>1. def' = def
    BY <1>2 DEF Touch
  <2> QED
    BY <1>1, <2>1, NoWriteInv DEF IndexTypeOK
<1>3. CASE def[p] # NoIx
  <2>1. def' = [def EXCEPT ![p].entries = f[@]]
    BY <1>3 DEF Touch
  <2>2. def[p] \in IndexDef
    BY <1>1, <1>3 DEF IndexTypeOK
  <2>3. f[def[p].entries] \in Entries
    BY <2>2 DEF IndexDef
  <2>4. /\ def'[p] = [def[p] EXCEPT !.entries = f[def[p].entries]]
        /\ \A b \in IxAddr : b # p => def'[b] = def[b]
        /\ DOMAIN def' = IxAddr
    BY <1>1, <2>1 DEF IndexTypeOK
  <2>5. /\ def'[p] \in IndexDef /\ def'[p].table = def[p].table
        /\ def'[p].name = def[p].name
    BY <2>2, <2>3, <2>4 DEF IndexDef
  <2>6. def' \in [IxAddr -> IndexDef \cup {NoIx}]
    BY <1>1, <2>1, <2>4, <2>5 DEF IndexTypeOK
  <2>7. \A b \in IxAddr : /\ def'[b].table = def[b].table
                          /\ def'[b].name = def[b].name
                          /\ def'[b] = NoIx <=> def[b] = NoIx
    BY <1>3, <2>4, <2>5, IndexAssumption
  <2>8. \A b \in IxAddr : seen[b] \subseteq IxAddr
    BY <1>1 DEF IndexTypeOK
  <2>9. ToSet(indexes) \subseteq IxAddr
    BY <1>1 DEF Listed
  <2>10. IndexTypeOK' /\ Listed'
    BY <1>1, <2>6, <2>7 DEF IndexTypeOK, Listed
  <2>11. SeenSound'
    BY <1>1, <2>7, <2>9 DEF SeenSound, SawSound, Apart
  <2>12. CreatorsSound'
    BY <1>1, <2>7, <2>9 DEF CreatorsSound, SawSound, Apart
  <2> QED
    BY <2>10, <2>11, <2>12 DEF IndexInv
<1> QED
  BY <1>2, <1>3

LEMMA NextIndexInv ==
  ASSUME IndexInv, [IndexNext]_ivars
  PROVE  IndexInv'
<1>1. CASE UNCHANGED ivars
  BY <1>1 DEF ivars, IndexInv, IndexTypeOK, Listed, SeenSound, CreatorsSound,
              SawSound, Apart
<1>2. ASSUME NEW t \in IxThread, NEW tb \in IxTable, NEW n \in IxName,
             \/ index_create_check(t, tb, n) \/ index_drop(t, tb, n)
             \/ index_get(t, tb, n)
      PROVE  IndexInv'
  BY <1>2, CheckInv, IndexDropInv, GetInv
<1>3. ASSUME NEW t \in IxThread,
             index_create(t) \/ DropAllDrop(t) \/ \E tb \in IxTable : DropAllFind(t, tb)
      PROVE  IndexInv'
  BY <1>3, CreateIndexInv, DropAllInv, FindInv
<1>4. ASSUME NEW t \in IxThread,
             index_btree_insert(t) \/ index_btree_delete(t) \/ index_rebuild(t)
      PROVE  IndexInv'
  <2>1. [e \in Entries |-> IF e < MaxEntries THEN e + 1 ELSE e] \in [Entries -> Entries]
    BY IndexAssumption DEF Entries
  <2>2. [e \in Entries |-> IF e > 0 THEN e - 1 ELSE e] \in [Entries -> Entries]
    BY IndexAssumption DEF Entries
  <2>3. [e \in Entries |-> 0] \in [Entries -> Entries]
    BY IndexAssumption DEF Entries
  <2> QED
    BY <1>4, <2>1, <2>2, <2>3, TouchInv
       DEF index_btree_insert, index_btree_delete, index_rebuild
<1> QED
  BY <1>1, <1>2, <1>3, <1>4 DEF IndexNext

(* index_create, index_drop and index_drop_all: for any number of threads,
   tables, names and addresses, the array lists each allocated definition
   once and no freed one, and two indexes of one table share a name only
   when neither creator could see the other's index. *)
THEOREM IndexTableCorrect ==
  index_manager_init /\ [][IndexNext]_ivars => []IndexTableSound
<1>1. index_manager_init => IndexInv
  BY InitIndexInv
<1>2. IndexInv /\ [IndexNext]_ivars => IndexInv'
  BY NextIndexInv
<1>3. IndexInv => IndexTableSound
  BY DEF IndexInv, Listed, SeenSound, SawSound, Apart, IndexTypeOK, IndexTableSound
<1> QED
  BY <1>1, <1>2, <1>3, PTL

-----------------------------------------------------------------------------
(* The result cache. *)

CacheEntry == [hash : Range(HashOf), text : Query, result : Result,
               created_at : Nat, valid : BOOLEAN]

\* An entry holds the last result of its hash; an invalidation of a table that
\* the queries of its hash name has made it invalid.
EntrySound(e, lat, old) ==
  /\ e.hash = HashOf[e.text]
  /\ e.result = lat[e.hash]
  /\ e.valid /\ SameTables(e.hash) => e.hash \notin old

EntriesSound(es, lat, old) ==
  /\ es \in Seq(CacheEntry)
  /\ \A i \in 1 .. Len(es) : EntrySound(es[i], lat, old)
  /\ \A i, j \in 1 .. Len(es) : es[i].hash = es[j].hash => i = j

\* The put that holds the lock found no entry of its hash.
AddingSound ==
  adding # Nothing =>
    /\ adding.query \in Query /\ adding.result \in Result
    /\ \A i \in 1 .. Len(entries) : entries[i].hash # HashOf[adding.query]

\* total_memory, up to the size changes of replaced results.
Counted(es, total, d) == total = (SumFunction(MemoryUsed(es)) - d) % Width

CacheInv ==
  /\ EntriesSound(entries, latest, stale)
  /\ AddingSound
  /\ Len(entries) <= RESULT_CACHE_SIZE
  /\ time \in Nat
  /\ latest = [h \in Range(HashOf) |-> latest[h]]
  /\ drift \in Int /\ Counted(entries, total_memory, drift)

LEMMA EntriesFacts ==
  ASSUME NEW lat, NEW old, NEW es, EntriesSound(es, lat, old)
  PROVE  /\ DOMAIN es = 1 .. Len(es) /\ Len(es) \in Nat
         /\ \A i \in 1 .. Len(es) : es[i] \in CacheEntry
BY LenProperties, ElementOfSeq DEF EntriesSound

LEMMA HashInRange ==
  ASSUME NEW q \in Query
  PROVE  HashOf[q] \in Range(HashOf)
BY CacheAssumption DEF Range

LEMMA MemoryUsedFacts ==
  ASSUME NEW es \in Seq(CacheEntry)
  PROVE  /\ DOMAIN MemoryUsed(es) = 1 .. Len(es) /\ Len(es) \in Nat
         /\ \A i \in 1 .. Len(es) :
              MemoryUsed(es)[i] = es[i].result.memory_used /\ MemoryUsed(es)[i] \in Int
         /\ SumFunction(MemoryUsed(es)) \in Int
<1>1. DOMAIN es = 1 .. Len(es) /\ Len(es) \in Nat
  BY LenProperties
<1>2. ASSUME NEW i \in 1 .. Len(es)
      PROVE  MemoryUsed(es)[i] = es[i].result.memory_used /\ MemoryUsed(es)[i] \in Int
  <2>1. es[i] \in CacheEntry
    BY <1>1, ElementOfSeq
  <2> QED
    BY <1>1, <2>1, CacheAssumption DEF MemoryUsed, CacheEntry, Result
<1>3. DOMAIN MemoryUsed(es) = 1 .. Len(es)
  BY <1>1 DEF MemoryUsed
<1> QED
  BY <1>1, <1>2, <1>3, TotalIsSum

\* The entries and the count stay, or the entries change in other fields.
LEMMA CountKept ==
  ASSUME CacheInv, NEW es \in Seq(CacheEntry), Len(es) = Len(entries),
         \A i \in 1 .. Len(entries) : es[i].result = entries[i].result
  PROVE  Counted(es, total_memory, drift)
<1>1. entries \in Seq(CacheEntry)
  BY DEF CacheInv, EntriesSound
<1> DEFINE n == Len(entries)
           a == MemoryUsed(entries)
           b == MemoryUsed(es)
<1>2. n \in Nat /\ DOMAIN a = 1 .. n /\ DOMAIN b = 1 .. n
      /\ \A i \in 1 .. n : a[i] \in Int /\ a[i] = b[i]
  BY <1>1, MemoryUsedFacts
<1> HIDE DEF a, b, n
<1>3. SumFunction(a) = SumFunction(b)
  BY <1>2, TotalSame
<1> QED
  BY <1>3 DEF Counted, CacheInv, a, b

\* A replaced result changes the count by what drift records.
LEMMA CountReplaced ==
  ASSUME CacheInv, NEW es \in Seq(CacheEntry), Len(es) = Len(entries),
         NEW k \in 1 .. Len(entries), NEW r \in Result, es[k].result = r,
         \A i \in 1 .. Len(entries) : i # k => es[i] = entries[i],
         NEW d, d = (drift + r.memory_used - entries[k].result.memory_used) % Width
  PROVE  Counted(es, total_memory, d) /\ d \in Int
<1>1. entries \in Seq(CacheEntry) /\ drift \in Int
  BY DEF CacheInv, EntriesSound
<1> DEFINE n == Len(entries)
           a == MemoryUsed(entries)
           b == MemoryUsed(es)
           x == SumFunction(a)
           y == SumFunction(b)
<1>2. /\ n \in Nat /\ DOMAIN a = 1 .. n /\ DOMAIN b = 1 .. n /\ k \in 1 .. n
      /\ \A i \in 1 .. n : a[i] \in Int /\ b[i] \in Int
      /\ \A i \in 1 .. n : i # k => a[i] = b[i]
      /\ a[k] = entries[k].result.memory_used /\ b[k] = r.memory_used
  BY <1>1, MemoryUsedFacts
<1>3. x \in Int /\ y \in Int
  BY <1>1, MemoryUsedFacts
<1>4. total_memory = (x - drift) % Width
  BY DEF CacheInv, Counted
<1> HIDE DEF a, b, n
<1>5. y = x - a[k] + b[k]
  BY ZenonT(60), <1>2, TotalChanged
<1> HIDE DEF x, y
<1> DEFINE e == drift + b[k] - a[k]
<1>6. e \in Int /\ y - e = x - drift
  <2> DEFINE u == a[k]
             v == b[k]
  <2>1. u \in Int /\ v \in Int
    BY <1>2
  <2>2. y = x - u + v /\ e = drift + v - u
    BY <1>5
  <2> HIDE DEF u, v, e
  <2> QED
    BY <1>1, <1>3, <2>1, <2>2
<1>7. d = e % Width /\ d \in Int
  <2>1. d = e % Width
    BY <1>2
  <2> HIDE DEF e
  <2> QED
    BY <1>6, <2>1, CacheAssumption, ModRange
<1> HIDE DEF e
<1>8. (y - (e % Width)) % Width = (y - e) % Width
  BY <1>3, <1>6, CacheAssumption, ModSubtracts
<1> QED
  BY <1>4, <1>6, <1>7, <1>8 DEF Counted, y, b

\* The hash lookup of a get and a put.
LEMMA FindFacts ==
  ASSUME CacheInv, NEW h
  PROVE  /\ Find(h) = 0 => \A i \in 1 .. Len(entries) : entries[i].hash # h
         /\ Find(h) # 0 => /\ Find(h) \in 1 .. Len(entries)
                          /\ entries[Find(h)].hash = h
<1> DEFINE m == {i \in DOMAIN entries : entries[i].hash = h}
<1>1. DOMAIN entries = 1 .. Len(entries) /\ Len(entries) \in Nat
  BY EntriesFacts DEF CacheInv
<1>2. CASE m = {}
  BY <1>1, <1>2 DEF Find
<1>3. CASE m # {}
  <2>1. PICK k : k \in m
    BY <1>3
  <2>2. \A j \in m : j = k
    BY <1>1, <2>1 DEF CacheInv, EntriesSound
  <2>3. \E i \in m : \A j \in m : i <= j
    BY <1>1, <2>1, <2>2
  <2>4. Find(h) \in m
    BY <1>3, <2>3 DEF Find
  <2> QED
    BY <1>1, <2>4
<1> QED
  BY <1>2, <1>3

\* The entry evict_oldest_entry takes out is one of the array.
LEMMA OldestFacts ==
  ASSUME CacheInv, entries # <<>>
  PROVE  Oldest \in 1 .. Len(entries)
<1> DEFINE D == 1 .. Len(entries)
           T == {n \in Nat : \E i \in D : entries[i].created_at = n}
<1>1. /\ DOMAIN entries = D /\ Len(entries) \in Nat
      /\ \A i \in D : entries[i] \in CacheEntry
  BY EntriesFacts DEF CacheInv
<1>2. \A i \in D : entries[i].created_at \in Nat
  BY <1>1 DEF CacheEntry
<1>3. 1 \in D
  BY <1>1, EmptySeq DEF CacheInv, EntriesSound
<1>4. PICK n \in T : \A m \in T : n <= m
  <2>1. T # {}
    BY <1>2, <1>3
  <2> QED
    BY <2>1, LeastNumber
<1> DEFINE U == {i \in Nat : i \in D /\ entries[i].created_at = n}
<1>5. PICK k \in U : \A j \in U : k <= j
  <2>1. U # {}
    BY <1>1, <1>4
  <2> QED
    BY <2>1, LeastNumber
<1>6. \A j \in D : \/ entries[k].created_at < entries[j].created_at
                   \/ entries[k].created_at = entries[j].created_at /\ k <= j
  <2> SUFFICES ASSUME NEW j \in D
               PROVE  \/ entries[k].created_at < entries[j].created_at
                      \/ entries[k].created_at = entries[j].created_at /\ k <= j
    OBVIOUS
  <2>1. entries[k].created_at = n /\ n <= entries[j].created_at /\ n \in Nat
    BY <1>2, <1>4, <1>5
  <2>2. entries[j].created_at = n => k <= j
    BY <1>1, <1>5
  <2> QED
    BY <1>2, <2>1, <2>2
<1>7. k \in D
  BY <1>5
<1> QED
  BY <1>1, <1>6, <1>7 DEF Oldest

LEMMA NothingCounted == Counted(<<>>, 0, 0)
<1>1. <<>> \in Seq(CacheEntry) /\ Len(<<>>) = 0
  BY EmptySeq
<1>2. DOMAIN MemoryUsed(<<>>) = {}
  <2>1. DOMAIN MemoryUsed(<<>>) = 1 .. 0
    BY <1>1, MemoryUsedFacts
  <2> QED
    BY <2>1
<1>3. SumFunction(MemoryUsed(<<>>)) = 0
  BY <1>2, SumOfNone DEF SumFunction
<1> QED
  BY <1>3, CacheAssumption DEF Counted

LEMMA InitCacheInv == query_cache_init => CacheInv
<1> SUFFICES ASSUME query_cache_init PROVE CacheInv
  OBVIOUS
<1>1. <<>> \in Seq(CacheEntry) /\ Len(<<>>) = 0
  BY EmptySeq
<1>2. EntriesSound(entries, latest, stale)
  BY <1>1 DEF query_cache_init, EntriesSound
<1> QED
  BY <1>1, <1>2, NothingCounted, CacheAssumption
    DEF query_cache_init, CacheInv, AddingSound

LEMMA PutExistingInv ==
  ASSUME CacheInv, NEW q \in Query, NEW r \in Result, PutExisting(q, r)
  PROVE  CacheInv'
<1> DEFINE h == HashOf[q]
           i == Find(h)
           e == [entries[i] EXCEPT !.result = r, !.created_at = time]
<1>1. /\ i \in 1 .. Len(entries) /\ entries[i].hash = h
      /\ entries' = [entries EXCEPT ![i] = e]
      /\ latest' = [latest EXCEPT ![h] = r]
      /\ UNCHANGED <<time, adding, stale, total_memory>> /\ adding = Nothing
      /\ drift' = (drift + r.memory_used - entries[i].result.memory_used) % Width
  BY FindFacts DEF PutExisting, Unlocked
<1>2. /\ DOMAIN entries = 1 .. Len(entries) /\ Len(entries) \in Nat
      /\ \A j \in 1 .. Len(entries) : entries[j] \in CacheEntry
      /\ entries \in Seq(CacheEntry)
  BY EntriesFacts DEF CacheInv, EntriesSound
<1>3. h \in Range(HashOf)
  BY HashInRange
<1>4. e \in CacheEntry /\ e.hash = h /\ e.result = r
      /\ e.text = entries[i].text /\ e.valid = entries[i].valid
  BY <1>1, <1>2 DEF CacheEntry, CacheInv
<1> HIDE DEF e, i
<1>5. /\ entries' \in Seq(CacheEntry) /\ Len(entries') = Len(entries)
      /\ \A j \in 1 .. Len(entries) : entries'[j] = IF j = i THEN e ELSE entries[j]
  BY <1>1, <1>2, <1>4, ExceptSeq
<1>6. latest' = [g \in Range(HashOf) |-> IF g = h THEN r ELSE latest[g]]
  BY <1>1, <1>3 DEF CacheInv
<1>7. \A j \in 1 .. Len(entries) : entries'[j].hash = entries[j].hash
  BY <1>1, <1>4, <1>5
<1>8. ASSUME NEW j \in 1 .. Len(entries)
      PROVE  EntrySound(entries'[j], latest', stale')
  <2>1. EntrySound(entries[j], latest, stale) /\ entries[j].hash \in Range(HashOf)
    BY <1>2 DEF CacheInv, EntriesSound, CacheEntry
  <2>2. CASE j = i
    BY <1>1, <1>3, <1>4, <1>5, <1>6, <2>1, <2>2 DEF EntrySound
  <2>3. CASE j # i
    <3>1. entries[j].hash # h
      BY <1>1, <2>3 DEF CacheInv, EntriesSound
    <3> QED
      BY <1>1, <1>5, <1>6, <2>1, <2>3, <3>1 DEF EntrySound
  <2> QED
    BY <2>2, <2>3
<1>9. \A j, k \in 1 .. Len(entries) : entries'[j].hash = entries'[k].hash => j = k
  BY <1>7 DEF CacheInv, EntriesSound
<1>10. EntriesSound(entries', latest', stale')
  BY <1>5, <1>8, <1>9 DEF EntriesSound
<1>11. Counted(entries', total_memory, drift') /\ drift' \in Int
  BY <1>1, <1>4, <1>5, CountReplaced
<1> QED
  BY <1>1, <1>5, <1>6, <1>10, <1>11 DEF CacheInv, AddingSound

LEMMA PutNewInv ==
  ASSUME CacheInv, NEW q \in Query, NEW r \in Result, PutNew(q, r)
  PROVE  CacheInv'
<1>1. \A i \in 1 .. Len(entries) : entries[i].hash # HashOf[q]
  BY FindFacts DEF PutNew
<1>2. /\ adding' = [query |-> q, result |-> r]
      /\ UNCHANGED <<entries, time, latest, stale, total_memory, drift>>
  BY DEF PutNew
<1>3. AddingSound'
  BY <1>1, <1>2 DEF AddingSound
<1> QED
  BY <1>2, <1>3 DEF CacheInv

LEMMA EvictInv ==
  ASSUME CacheInv, evict_oldest_entry
  PROVE  CacheInv'
<1> DEFINE o == Oldest
           h == entries[o].hash
<1>1. /\ o \in 1 .. Len(entries)
      /\ entries' = RemoveAt(entries, o) /\ stale' = stale \ {h}
      /\ total_memory' = (total_memory - entries[o].result.memory_used) % Width
      /\ UNCHANGED <<time, adding, latest, drift>>
  BY OldestFacts DEF evict_oldest_entry
<1>2. /\ Len(entries) \in Nat /\ entries \in Seq(CacheEntry)
  BY EntriesFacts DEF CacheInv, EntriesSound
<1> HIDE DEF o
<1>3. /\ entries' \in Seq(CacheEntry) /\ Len(entries') = Len(entries) - 1
      /\ \A j \in 1 .. Len(entries) - 1 :
           entries'[j] = entries[IF j < o THEN j ELSE j + 1]
  BY <1>1, <1>2, RemoveAtProperties
<1> DEFINE from(j) == IF j < o THEN j ELSE j + 1
<1>4. \A j \in 1 .. Len(entries') :
        /\ from(j) \in 1 .. Len(entries) /\ from(j) # o
        /\ entries'[j] = entries[from(j)]
  BY <1>1, <1>2, <1>3
<1>5. \A j, k \in 1 .. Len(entries') : from(j) = from(k) => j = k
  BY <1>1, <1>2, <1>3
<1> HIDE DEF from
<1>6. ASSUME NEW j \in 1 .. Len(entries')
      PROVE  EntrySound(entries'[j], latest', stale')
  BY <1>1, <1>4 DEF CacheInv, EntriesSound, EntrySound
<1>7. \A j, k \in 1 .. Len(entries') : entries'[j].hash = entries'[k].hash => j = k
  BY <1>4, <1>5 DEF CacheInv, EntriesSound
<1>8. EntriesSound(entries', latest', stale')
  BY <1>3, <1>6, <1>7 DEF EntriesSound
<1>9. AddingSound'
  BY <1>1, <1>4 DEF CacheInv, AddingSound
<1>10. Len(entries') <= RESULT_CACHE_SIZE
  <2>1. Len(entries) <= RESULT_CACHE_SIZE
    BY DEF CacheInv
  <2> QED
    BY <1>2, <1>3, <2>1, CacheAssumption
<1>11. Counted(entries', total_memory', drift)
  <2> DEFINE a == MemoryUsed(entries)
             b == MemoryUsed(entries')
             x == SumFunction(a)
             y == SumFunction(b)
             n == Len(entries)
  <2>1. /\ n \in Nat /\ DOMAIN a = 1 .. n /\ DOMAIN b = 1 .. n - 1 /\ o \in 1 .. n
        /\ \A i \in 1 .. n : a[i] \in Int
        /\ Shifted(b, a, n, o)
        /\ a[o] = entries[o].result.memory_used
    <3>1. /\ n \in Nat /\ DOMAIN a = 1 .. n /\ DOMAIN b = 1 .. n - 1 /\ o \in 1 .. n
          /\ \A i \in 1 .. n : a[i] \in Int /\ a[i] = entries[i].result.memory_used
          /\ \A i \in 1 .. n - 1 : b[i] = entries'[i].result.memory_used
      BY <1>1, <1>2, <1>3, MemoryUsedFacts
    <3> HIDE DEF a, b
    <3>2. ASSUME NEW i \in 1 .. n - 1
          PROVE  b[i] = IF i < o THEN a[i] ELSE a[i + 1]
      <4>1. i \in 1 .. n /\ i + 1 \in 1 .. n
        BY <3>1
      <4>2. /\ i < o => entries'[i] = entries[i]
            /\ ~ (i < o) => entries'[i] = entries[i + 1]
        BY <1>3
      <4> QED
        BY <3>1, <4>1, <4>2
    <3> QED
      BY <3>1, <3>2 DEF Shifted
  <2>2. x \in Int /\ drift \in Int /\ total_memory = (x - drift) % Width
    BY <1>2, MemoryUsedFacts DEF CacheInv, Counted
  <2> HIDE DEF a, b, n
  <2>3. y = x - a[o]
    BY <2>1, TotalRemoved
  <2> HIDE DEF x, y
  <2>4. total_memory' = (((x - drift) % Width) + (- a[o])) % Width
        /\ x - drift \in Int /\ - a[o] \in Int /\ a[o] \in Int
    <3>1. a[o] \in Int
      BY <2>1
    <3>2. ((x - drift) % Width) \in Int
      <4>1. x - drift \in Int
        BY <2>2
      <4> QED
        BY <4>1, CacheAssumption, ModRange
    <3> QED
      BY <1>1, <2>1, <2>2, <3>1, <3>2
  <2>5. total_memory' = ((x - drift) + (- a[o])) % Width
    BY <2>4, CacheAssumption, ModAdds
  <2>6. (x - drift) + (- a[o]) = y - drift
    BY <2>2, <2>3, <2>4
  <2> QED
    BY <2>5, <2>6 DEF Counted, y, b
<1> QED
  BY <1>1, <1>8, <1>9, <1>10, <1>11 DEF CacheInv

LEMMA PutInv ==
  ASSUME CacheInv, query_cache_put
  PROVE  CacheInv'
<1> DEFINE e == Entry(adding.query, adding.result)
           h == HashOf[adding.query]
           n == Len(entries)
<1>1. /\ entries' = Append(entries, e) /\ adding' = Nothing
      /\ latest' = [latest EXCEPT ![h] = adding.result]
      /\ stale' = stale \ {h} /\ time' = time /\ drift' = drift
      /\ total_memory' = (total_memory + adding.result.memory_used) % Width
  BY DEF query_cache_put
<1>2. /\ adding.query \in Query /\ adding.result \in Result
      /\ \A i \in 1 .. n : entries[i].hash # h
  BY DEF query_cache_put, Unlocked, CacheInv, AddingSound
<1>3. /\ n \in Nat /\ n <= RESULT_CACHE_SIZE /\ n # RESULT_CACHE_SIZE
      /\ ~ (n >= RESULT_CACHE_SIZE)
      /\ entries \in Seq(CacheEntry) /\ \A i \in 1 .. n : entries[i] \in CacheEntry
  BY EntriesFacts, CacheAssumption
    DEF CacheInv, EntriesSound, query_cache_put, NoRoom
<1>4. h \in Range(HashOf)
  BY <1>2, HashInRange
<1>5. e \in CacheEntry /\ e.hash = h /\ e.text = adding.query
      /\ e.result = adding.result
  BY <1>2, <1>4 DEF Entry, CacheEntry, CacheInv
<1> HIDE DEF e
<1>6. /\ entries' \in Seq(CacheEntry) /\ Len(entries') = n + 1
      /\ \A i \in 1 .. n : entries'[i] = entries[i]
      /\ entries'[n + 1] = e
  BY <1>1, <1>3, <1>5, AppendProperties
<1>7. latest' = [g \in Range(HashOf) |-> IF g = h THEN adding.result ELSE latest[g]]
  BY <1>1, <1>4 DEF CacheInv
<1>8. ASSUME NEW j \in 1 .. Len(entries')
      PROVE  EntrySound(entries'[j], latest', stale')
  <2>1. CASE j = n + 1
    BY <1>1, <1>4, <1>5, <1>6, <1>7, <2>1 DEF EntrySound
  <2>2. CASE j # n + 1
    <3>1. j \in 1 .. n
      BY <1>3, <1>6, <2>2
    <3>2. EntrySound(entries[j], latest, stale) /\ entries[j].hash \in Range(HashOf)
      BY <1>3, <3>1 DEF CacheInv, EntriesSound, CacheEntry
    <3> QED
      BY <1>1, <1>2, <1>6, <1>7, <3>1, <3>2 DEF EntrySound
  <2> QED
    BY <2>1, <2>2
<1>9. ASSUME NEW j \in 1 .. n + 1, NEW k \in 1 .. n + 1,
             entries'[j].hash = entries'[k].hash
      PROVE  j = k
  <2>1. \A i \in 1 .. n + 1 : i = n + 1 \/ i \in 1 .. n
    BY <1>3
  <2>2. \A i, l \in 1 .. n : entries[i].hash = entries[l].hash => i = l
    BY DEF CacheInv, EntriesSound
  <2> QED
    BY <1>2, <1>5, <1>6, <1>9, <2>1, <2>2
<1>10. EntriesSound(entries', latest', stale')
  BY <1>6, <1>8, <1>9 DEF EntriesSound
<1>11. n + 1 <= RESULT_CACHE_SIZE
  BY <1>3, CacheAssumption
<1>12. Counted(entries', total_memory', drift)
  <2> DEFINE a == MemoryUsed(entries)
             b == MemoryUsed(entries')
             x == SumFunction(a)
             y == SumFunction(b)
  <2> HIDE DEF n
  <2>1. /\ n \in Nat /\ DOMAIN a = 1 .. n /\ DOMAIN b = 1 .. n + 1
        /\ \A i \in 1 .. n : a[i] = b[i]
        /\ \A i \in 1 .. n + 1 : b[i] \in Int
        /\ b[n + 1] = adding.result.memory_used
    <3>1. n = Len(entries)
      BY DEF n
    <3>2. /\ DOMAIN a = 1 .. n
          /\ \A i \in 1 .. n : a[i] = entries[i].result.memory_used
      BY <1>3, <3>1, MemoryUsedFacts
    <3>3. /\ DOMAIN b = 1 .. n + 1
          /\ \A i \in 1 .. n + 1 : /\ b[i] = entries'[i].result.memory_used
                                  /\ b[i] \in Int
      BY <1>6, MemoryUsedFacts
    <3> HIDE DEF a, b
    <3>4. 1 .. n \subseteq 1 .. n + 1 /\ n + 1 \in 1 .. n + 1
      BY <1>3
    <3>5. ASSUME NEW i \in 1 .. n PROVE a[i] = b[i]
      <4>1. i \in 1 .. n + 1 /\ entries'[i] = entries[i]
        BY <1>6, <3>4
      <4> QED
        BY <3>2, <3>3, <4>1
    <3>6. b[n + 1] = adding.result.memory_used
      BY <1>5, <1>6, <3>3, <3>4
    <3> QED
      BY <1>3, <3>2, <3>3, <3>5, <3>6
  <2>2. x \in Int /\ drift \in Int /\ total_memory = (x - drift) % Width
    BY <1>3, MemoryUsedFacts DEF CacheInv, Counted
  <2> HIDE DEF a, b
  <2>3. y = x + b[n + 1] /\ b[n + 1] \in Int
    <3>1. n + 1 \in 1 .. n + 1
      BY <2>1
    <3> QED
      BY <2>1, <3>1, TotalAppended
  <2> HIDE DEF x, y
  <2>4. x - drift \in Int
        /\ total_memory' = (((x - drift) % Width) + b[n + 1]) % Width
    BY <1>1, <2>1, <2>2
  <2>5. total_memory' = ((x - drift) + b[n + 1]) % Width
    BY <2>3, <2>4, CacheAssumption, ModAdds
  <2>6. (x - drift) + b[n + 1] = y - drift
    BY <2>2, <2>3
  <2> QED
    BY <2>5, <2>6 DEF Counted, y, b
<1> QED
  BY <1>1, <1>6, <1>7, <1>10, <1>11, <1>12 DEF CacheInv, AddingSound

LEMMA InvalidEntry ==
  ASSUME NEW e \in CacheEntry, NEW v \in BOOLEAN
  PROVE  [e EXCEPT !.valid = v] \in CacheEntry
BY DEF CacheEntry

\* A step that makes entries invalid, among them all that name a changed table.
LEMMA LessValidInv ==
  ASSUME CacheInv, NEW es, NEW old, NEW I,
         es = [i \in DOMAIN entries |->
                 IF i \in I THEN [entries[i] EXCEPT !.valid = FALSE] ELSE entries[i]],
         \A i \in 1 .. Len(entries) :
            i \notin I /\ SameTables(entries[i].hash) /\ entries[i].hash \in old
              => entries[i].hash \in stale,
         entries' = es, stale' = old,
         UNCHANGED <<time, adding, latest, total_memory, drift>>
  PROVE  CacheInv'
<1>1. /\ DOMAIN entries = 1 .. Len(entries) /\ Len(entries) \in Nat
      /\ \A i \in 1 .. Len(entries) : entries[i] \in CacheEntry
  BY EntriesFacts DEF CacheInv
<1>2. ASSUME NEW i \in 1 .. Len(entries)
      PROVE  /\ es[i] \in CacheEntry /\ es[i].hash = entries[i].hash
             /\ es[i].result = entries[i].result /\ EntrySound(es[i], latest, old)
  <2>1. EntrySound(entries[i], latest, stale)
    BY DEF CacheInv, EntriesSound
  <2>2. CASE i \in I
    <3>1. es[i] = [entries[i] EXCEPT !.valid = FALSE] /\ entries[i] \in CacheEntry
      BY <1>1, <2>2
    <3>2. /\ es[i].hash = entries[i].hash /\ es[i].text = entries[i].text
          /\ es[i].result = entries[i].result /\ es[i].valid = FALSE
      BY <3>1 DEF CacheEntry
    <3>3. es[i] \in CacheEntry
      BY <3>1, InvalidEntry
    <3> QED
      BY <2>1, <3>2, <3>3 DEF EntrySound
  <2>3. CASE i \notin I
    BY <1>1, <2>1, <2>3 DEF EntrySound
  <2> QED
    BY <2>2, <2>3
<1>3. es \in Seq(CacheEntry) /\ Len(es) = Len(entries)
  <2>1. es = [i \in 1 .. Len(entries) |-> es[i]]
    BY <1>1
  <2> QED
    BY <1>1, <1>2, <2>1, IsASeq
<1>4. EntriesSound(es, latest, old)
  <2>1. \A i, j \in 1 .. Len(entries) : entries[i].hash = entries[j].hash => i = j
    BY DEF CacheInv, EntriesSound
  <2>2. \A i, j \in 1 .. Len(entries) : es[i].hash = es[j].hash => i = j
    BY <1>2, <2>1
  <2> QED
    BY <1>2, <1>3, <2>2 DEF EntriesSound
<1>5. AddingSound'
  BY <1>2, <1>3 DEF CacheInv, AddingSound
<1>6. \A i \in 1 .. Len(entries) : es[i].result = entries[i].result
  BY <1>2
<1>7. Counted(es, total_memory, drift)
  <2> HIDE DEF CacheInv
  <2> QED
    BY <1>3, <1>6, CountKept
<1> QED
  BY <1>3, <1>4, <1>5, <1>7 DEF CacheInv

LEMMA CacheGetInv ==
  ASSUME CacheInv, NEW q \in Query, query_cache_get(q)
  PROVE  CacheInv'
<1> DEFINE k == Find(HashOf[q])
           I == {k}
           old == stale
           es == [i \in DOMAIN entries |->
                    IF i \in I THEN [entries[i] EXCEPT !.valid = FALSE] ELSE entries[i]]
<1>1. entries' = [entries EXCEPT ![k] = [entries[k] EXCEPT !.valid = FALSE]]
      /\ UNCHANGED <<time, adding, latest, stale, total_memory, drift>>
  BY DEF query_cache_get
<1> HIDE DEF k
<1>2. entries' = es
  BY <1>1
<1>3. stale' = old
  BY <1>1
<1>4. \A i \in 1 .. Len(entries) :
        i \notin I /\ SameTables(entries[i].hash) /\ entries[i].hash \in old
          => entries[i].hash \in stale
  OBVIOUS
<1>5. UNCHANGED <<time, adding, latest, total_memory, drift>>
  BY <1>1
<1> HIDE DEF old, I
<1> QED
  BY <1>2, <1>3, <1>4, <1>5, LessValidInv

LEMMA InvalidateInv ==
  ASSUME CacheInv, NEW t \in Table, query_cache_invalidate(t)
  PROVE  CacheInv'
<1> DEFINE I == {i \in DOMAIN entries : t \in TablesOf[entries[i].text]}
           old == stale \cup {HashOf[q] : q \in {p \in Query : t \in TablesOf[p]}}
           es == [i \in DOMAIN entries |->
                    IF i \in I THEN [entries[i] EXCEPT !.valid = FALSE] ELSE entries[i]]
<1>1. entries' = es /\ stale' = old
      /\ UNCHANGED <<time, adding, latest, total_memory, drift>>
  BY DEF query_cache_invalidate
<1>2. ASSUME NEW i \in 1 .. Len(entries), i \notin I,
             SameTables(entries[i].hash), entries[i].hash \in old
      PROVE  entries[i].hash \in stale
  <2>1. /\ i \in DOMAIN entries /\ entries[i].text \in Query
        /\ entries[i].hash = HashOf[entries[i].text]
    <3>1. i \in DOMAIN entries /\ entries[i] \in CacheEntry
      BY EntriesFacts DEF CacheInv
    <3>2. EntrySound(entries[i], latest, stale)
      BY DEF CacheInv, EntriesSound
    <3> QED
      BY <3>1, <3>2 DEF CacheEntry, EntrySound
  <2>2. t \notin TablesOf[entries[i].text]
    BY <1>2, <2>1
  <2> SUFFICES ASSUME NEW q \in Query, t \in TablesOf[q], entries[i].hash = HashOf[q]
               PROVE  FALSE
    BY <1>2
  <2> QED
    BY <1>2, <2>1, <2>2 DEF SameTables
<1> QED
  BY <1>1, <1>2, LessValidInv

LEMMA NextCacheInv ==
  ASSUME CacheInv, [QueryCacheNext]_qcvars
  PROVE  CacheInv'
<1>1. CASE UNCHANGED qcvars
  BY <1>1 DEF qcvars, CacheInv, AddingSound
<1>2. CASE query_cache_clear
  <2>1. <<>> \in Seq(CacheEntry) /\ Len(<<>>) = 0
    BY EmptySeq
  <2>2. EntriesSound(entries', latest', stale')
    BY <1>2, <2>1 DEF query_cache_clear, EntriesSound
  <2> QED
    BY <1>2, <2>1, <2>2, NothingCounted, CacheAssumption
    DEF query_cache_clear, Unlocked, CacheInv, AddingSound
<1>3. CASE time < MaxTime /\ time' = time + 1
           /\ UNCHANGED <<entries, total_memory, adding, latest, stale, drift>>
  BY <1>3 DEF CacheInv, AddingSound
<1> QED
  BY <1>1, <1>2, <1>3, PutExistingInv, PutNewInv, EvictInv, PutInv, CacheGetInv,
     InvalidateInv DEF QueryCacheNext

(* query_cache_get, query_cache_put, evict_oldest_entry and
   query_cache_invalidate: for every set of queries, results and tables, any
   capacity, memory limit and TTL, the entries fit the array, a hash has one
   of them, a get answers the last result put under its hash, never one from
   before an invalidation of a table that all its queries name, and
   total_memory differs from what the entries hold by the size changes of
   replaced results alone. *)
THEOREM CacheCorrect ==
  query_cache_init /\ [][QueryCacheNext]_qcvars => []CacheServesLastPut
<1>1. query_cache_init => CacheInv
  BY InitCacheInv
<1>2. CacheInv /\ [QueryCacheNext]_qcvars => CacheInv'
  BY NextCacheInv
<1>3. CacheInv => CacheServesLastPut
  <2> SUFFICES ASSUME CacheInv PROVE CacheServesLastPut
    OBVIOUS
  <2>1. DOMAIN entries = 1 .. Len(entries)
    BY EntriesFacts DEF CacheInv
  <2>2. ASSUME NEW q \in Query, Answer(q) # NoResult
        PROVE  /\ Answer(q) = latest[HashOf[q]]
               /\ SameTables(HashOf[q]) => HashOf[q] \notin stale
    <3>1. Find(HashOf[q]) # 0
      BY <2>2 DEF Answer
    <3>2. /\ Find(HashOf[q]) \in 1 .. Len(entries)
          /\ entries[Find(HashOf[q])].hash = HashOf[q]
      BY <3>1, FindFacts
    <3>3. entries[Find(HashOf[q])].valid /\ Answer(q) = entries[Find(HashOf[q])].result
      BY <2>2, <3>1 DEF Answer
    <3> QED
      BY <3>2, <3>3 DEF CacheInv, EntriesSound, EntrySound
  <2> QED
    BY <2>1, <2>2
    DEF CacheServesLastPut, CacheInv, EntriesSound, Counted, CacheMemoryCounted
<1> QED
  BY <1>1, <1>2, <1>3, PTL
-----------------------------------------------------------------------------
(* The framing of messages. *)

Byte == [pos : Nat, len : Nat]

\* The bytes r are those of the messages after the first d of q; message j
\* starts after place e[j - 1] and ends with place e[j].
EndsAt(e, r, q, d) ==
  /\ \A j \in d .. Len(q) : e[j] \in Nat
  /\ e[d] = 0 /\ e[Len(q)] = Len(r)
  /\ \A j \in d + 1 .. Len(q) :
       /\ e[j] = e[j - 1] + NET_HEADER_SIZE + q[j] /\ e[j] <= Len(r)
       /\ \A p \in 1 .. NET_HEADER_SIZE + q[j] : r[e[j - 1] + p] = [pos |-> p, len |-> q[j]]
Wire(r, q, d) ==
  /\ r \in Seq(Byte) /\ q \in Seq(Nat) /\ d \in 0 .. Len(q)
  /\ \E e : EndsAt(e, r, q, d)

LEMMA EqualSeqs ==
  ASSUME NEW S, NEW s \in Seq(S), NEW t \in Seq(S), Len(s) = Len(t),
         \A i \in 1 .. Len(s) : s[i] = t[i]
  PROVE  s = t
<1>1. DOMAIN s = 1 .. Len(s) /\ DOMAIN t = 1 .. Len(s)
  BY LenProperties
<1>2. s = [i \in DOMAIN s |-> s[i]] /\ t = [i \in DOMAIN t |-> t[i]]
  BY LenProperties
<1> QED
  BY <1>1, <1>2

LEMMA BytesAre ==
  ASSUME NEW n \in Nat
  PROVE  /\ Bytes(n) \in Seq(Byte) /\ Len(Bytes(n)) = NET_HEADER_SIZE + n
         /\ \A p \in 1 .. NET_HEADER_SIZE + n : Bytes(n)[p] = [pos |-> p, len |-> n]
<1> DEFINE m == NET_HEADER_SIZE + n
           f == [i \in 1 .. m |-> [pos |-> i, len |-> n]]
<1>1. m \in Nat /\ \A i \in 1 .. m : [pos |-> i, len |-> n] \in Byte
  BY FramingAssumption DEF Byte
<1>2. Bytes(n) = f
  BY DEF Bytes
<1>3. f \in Seq(Byte)
  <2> HIDE DEF m
  <2> QED
    BY <1>1, IsASeq
<1>4. DOMAIN f = 1 .. m
  OBVIOUS
<1>5. Len(f) = m
  BY <1>1, <1>3, <1>4, LenProperties
<1>6. \A p \in 1 .. m : f[p] = [pos |-> p, len |-> n]
  OBVIOUS
<1> QED
  BY <1>2, <1>3, <1>5, <1>6

\* Places inside a message are places inside the bytes.
LEMMA PlaceInside ==
  ASSUME NEW x \in Nat, NEW y \in Nat, NEW z \in Nat, NEW l \in Nat,
         y = x + NET_HEADER_SIZE + z, y <= l, NEW p \in 1 .. NET_HEADER_SIZE + z
  PROVE  x + p \in 1 .. l
BY FramingAssumption

LEMMA WireEmpty ==
  ASSUME NEW q \in Seq(Nat)
  PROVE  Wire(<<>>, q, Len(q))
<1> DEFINE e == [j \in {Len(q)} |-> 0]
<1>1. Len(q) \in Nat /\ <<>> \in Seq(Byte) /\ Len(<<>>) = 0
  BY LenProperties
<1>2. Len(q) .. Len(q) = {Len(q)} /\ Len(q) + 1 .. Len(q) = {}
  BY <1>1
<1>3. EndsAt(e, <<>>, q, Len(q))
  BY <1>1, <1>2 DEF EndsAt
<1> QED
  BY <1>1, <1>3 DEF Wire

\* net_send_message.
LEMMA WireAppend ==
  ASSUME NEW r, NEW q, NEW d, Wire(r, q, d), NEW n \in Nat
  PROVE  Wire(r \o Bytes(n), Append(q, n), d)
<1> DEFINE m == Len(q)
           l == Len(r)
           h == NET_HEADER_SIZE + n
           t == r \o Bytes(n)
           v == Append(q, n)
<1>1. /\ r \in Seq(Byte) /\ q \in Seq(Nat) /\ d \in 0 .. m /\ m \in Nat /\ l \in Nat
      /\ h \in Nat /\ h > 0
  BY LenProperties, FramingAssumption DEF Wire
<1>2. PICK e : EndsAt(e, r, q, d)
  BY DEF Wire
<1>3. /\ t \in Seq(Byte) /\ Len(t) = l + h
      /\ \A i \in 1 .. l + h : t[i] = IF i <= l THEN r[i] ELSE Bytes(n)[i - l]
  <2> DEFINE b == Bytes(n)
  <2>1. b \in Seq(Byte) /\ Len(b) = h
    BY BytesAre
  <2> HIDE DEF b, h
  <2>2. /\ r \o b \in Seq(Byte) /\ Len(r \o b) = l + h
        /\ \A i \in 1 .. l + h : (r \o b)[i] = IF i <= l THEN r[i] ELSE b[i - l]
    BY <1>1, <2>1, ConcatProperties
  <2> QED
    BY <2>2 DEF b
<1>4. v \in Seq(Nat) /\ Len(v) = m + 1 /\ (\A j \in 1 .. m : v[j] = q[j]) /\ v[m + 1] = n
  BY <1>1, AppendProperties
<1> DEFINE g == [j \in d .. m + 1 |-> IF j = m + 1 THEN l + h ELSE e[j]]
<1>5. \A j \in d .. m : g[j] = e[j] /\ e[j] \in Nat
  BY <1>1, <1>2 DEF EndsAt
<1>6. g[m + 1] = l + h /\ g[d] = 0 /\ g[m] = l
  BY <1>1, <1>2 DEF EndsAt
<1> HIDE DEF g, t, v
<1>7. \A j \in d .. m + 1 : g[j] \in Nat
  <2>1. l + h \in Nat /\ \A j \in d .. m + 1 : j = m + 1 \/ j \in d .. m
    BY <1>1
  <2> QED
    BY <1>5, <1>6, <2>1
<1>8. ASSUME NEW j \in d + 1 .. m + 1
      PROVE  /\ g[j] = g[j - 1] + NET_HEADER_SIZE + v[j] /\ g[j] <= Len(t)
             /\ \A p \in 1 .. NET_HEADER_SIZE + v[j] : t[g[j - 1] + p] = [pos |-> p, len |-> v[j]]
  <2>1. CASE j = m + 1
    <3>1. g[j - 1] = l /\ v[j] = n /\ g[j] = l + h /\ l + h = l + NET_HEADER_SIZE + n
      BY <1>1, <1>4, <1>6, <2>1, FramingAssumption
    <3>2. ASSUME NEW p \in 1 .. h
          PROVE  t[l + p] = [pos |-> p, len |-> n]
      <4>1. l + p \in 1 .. l + h /\ ~ (l + p <= l) /\ l + p - l = p
        BY <1>1
      <4>2. t[l + p] = Bytes(n)[p]
        BY <1>3, <4>1
      <4> QED
        BY <4>2, BytesAre
    <3> QED
      BY <1>3, <3>1, <3>2
  <2>2. CASE j # m + 1
    <3>1. j \in d + 1 .. m /\ j \in 1 .. m /\ j - 1 \in d .. m /\ j \in d .. m
      BY <1>1, <2>2
    <3>2. v[j] = q[j] /\ g[j] = e[j] /\ g[j - 1] = e[j - 1] /\ e[j] \in Nat /\ e[j - 1] \in Nat
      BY <1>4, <1>5, <3>1
    <3>3. /\ e[j] = e[j - 1] + NET_HEADER_SIZE + q[j] /\ e[j] <= l
          /\ \A p \in 1 .. NET_HEADER_SIZE + q[j] : r[e[j - 1] + p] = [pos |-> p, len |-> q[j]]
      BY <1>2, <3>1 DEF EndsAt
    <3>4. q[j] \in Nat
      BY <1>1, <3>1, ElementOfSeq
    <3>5. ASSUME NEW p \in 1 .. NET_HEADER_SIZE + q[j]
          PROVE  t[e[j - 1] + p] = [pos |-> p, len |-> q[j]]
      <4>1. e[j - 1] + p \in 1 .. l + h /\ e[j - 1] + p <= l
        <5>1. e[j - 1] + p \in 1 .. l
          BY <1>1, <3>2, <3>3, <3>4, PlaceInside
        <5> QED
          BY <1>1, <5>1
      <4> QED
        BY <1>3, <3>3, <4>1
    <3>6. e[j] <= Len(t)
      BY <1>1, <1>3, <3>2, <3>3
    <3> QED
      BY <3>2, <3>3, <3>5, <3>6
  <2> QED
    BY <2>1, <2>2
<1>9. d \in 0 .. m + 1
  BY <1>1
<1>10. EndsAt(g, t, v, d)
  BY <1>3, <1>4, <1>6, <1>7, <1>8 DEF EndsAt
<1> QED
  BY <1>3, <1>4, <1>9, <1>10 DEF Wire, t, v

\* Where bytes are left, a message is, and the bytes after it are those of
\* the rest.
LEMMA WireFirst ==
  ASSUME NEW r, NEW q, NEW d, Wire(r, q, d), Len(r) > 0
  PROVE  /\ d + 1 \in 1 .. Len(q) /\ q[d + 1] \in Nat /\ NET_HEADER_SIZE + q[d + 1] <= Len(r)
         /\ r[1] = [pos |-> 1, len |-> q[d + 1]]
         /\ Wire(SubSeq(r, NET_HEADER_SIZE + q[d + 1] + 1, Len(r)), q, d + 1)
<1> DEFINE m == Len(q)
           l == Len(r)
           h == NET_HEADER_SIZE + q[d + 1]
           t == SubSeq(r, h + 1, l)
<1>1. /\ r \in Seq(Byte) /\ q \in Seq(Nat) /\ d \in 0 .. m /\ m \in Nat /\ l \in Nat /\ l > 0
  BY LenProperties DEF Wire
<1>2. PICK e : EndsAt(e, r, q, d)
  BY DEF Wire
<1>3. d # m
  BY <1>1, <1>2 DEF EndsAt
<1>4. d + 1 \in 1 .. m /\ d + 1 \in d + 1 .. m /\ d + 1 - 1 = d /\ d \in d .. m /\ d + 1 \in d .. m
  BY <1>1, <1>3
<1>5. q[d + 1] \in Nat
  BY <1>1, <1>4, ElementOfSeq
<1>6. h \in Nat /\ h > 0 /\ 1 \in 1 .. h
  BY <1>5, FramingAssumption
<1>7. e[d + 1] = h /\ h <= l /\ r[1] = [pos |-> 1, len |-> q[d + 1]]
  <2>1. /\ e[d] = 0 /\ e[d + 1] = e[d] + NET_HEADER_SIZE + q[d + 1] /\ e[d + 1] <= l
        /\ \A p \in 1 .. h : r[e[d] + p] = [pos |-> p, len |-> q[d + 1]]
    BY <1>2, <1>4 DEF EndsAt
  <2>2. e[d + 1] = h
    BY <1>5, <2>1, FramingAssumption
  <2>3. 0 + 1 = 1
    OBVIOUS
  <2> QED
    BY <1>6, <2>1, <2>2, <2>3
<1> DEFINE g == [j \in d + 1 .. m |-> e[j] - h]
<1> HIDE DEF h
<1>8. \A i \in h + 1 .. l : r[i] \in Byte
  BY <1>1, <1>6, ElementOfSeq
<1>9. t \in Seq(Byte) /\ Len(t) = l - h /\ \A i \in 1 .. l - h : t[i] = r[h + i]
  <2> DEFINE a == h + 1
  <2>0. a \in Int /\ l \in Int /\ \A i \in a .. l : r[i] \in Byte
    BY <1>1, <1>6, <1>8
  <2> HIDE DEF a
  <2>1. /\ SubSeq(r, a, l) \in Seq(Byte)
        /\ Len(SubSeq(r, a, l)) = IF a <= l THEN l - a + 1 ELSE 0
        /\ \A i \in 1 .. l - a + 1 : SubSeq(r, a, l)[i] = r[a + i - 1]
    BY <2>0, SubSeqProperties
  <2>2. a = h + 1 /\ t = SubSeq(r, a, l)
    BY DEF a
  <2>3. l - a + 1 = l - h /\ (IF a <= l THEN l - a + 1 ELSE 0) = l - h
    BY <1>1, <1>6, <1>7, <2>2
  <2>4. \A i \in 1 .. l - h : a + i - 1 = h + i
    BY <1>1, <1>6, <2>2
  <2> QED
    BY <2>1, <2>2, <2>3, <2>4
<1> HIDE DEF t
<1>10. \A j \in d + 1 .. m : g[j] = e[j] - h /\ j \in d .. m /\ e[j] \in Nat
  BY <1>1, <1>2 DEF EndsAt
<1> HIDE DEF g
<1>11. g[d + 1] = 0 /\ g[m] = l - h
  <2>1. d + 1 \in d + 1 .. m /\ m \in d + 1 .. m
    BY <1>1, <1>3
  <2>2. e[m] = l /\ g[m] = e[m] - h /\ g[d + 1] = e[d + 1] - h
    BY <1>2, <1>10, <2>1 DEF EndsAt
  <2> QED
    BY <1>6, <1>7, <2>2
<1>12. ASSUME NEW j \in d + 1 .. m PROVE e[j] >= h
  <2> DEFINE bad == {k \in d + 1 .. m : ~ (e[k] >= h)}
  <2> SUFFICES ASSUME bad # {} PROVE FALSE
    BY <1>12
  <2>0. bad \subseteq Nat
    BY <1>1
  <2>1. PICK k \in bad : \A i \in bad : k <= i
    <3> HIDE DEF bad
    <3> QED
      BY <2>0, LeastNumber
  <2>2. k # d + 1
    BY <1>6, <1>7
  <2>3. k - 1 \in d + 1 .. m /\ k - 1 \in d .. m /\ k \in d + 1 .. m /\ k \in 1 .. m
    BY <1>1, <2>2
  <2>4. e[k - 1] >= h
    BY <2>1, <2>3
  <2>5. e[k] = e[k - 1] + NET_HEADER_SIZE + q[k] /\ e[k - 1] \in Nat
    BY <1>2, <2>3 DEF EndsAt
  <2>6. q[k] \in Nat
    BY <1>1, <2>3, ElementOfSeq
  <2>7. e[k] >= h
    BY <1>6, <2>4, <2>5, <2>6, FramingAssumption
  <2> QED
    BY <2>7
<1>13. ASSUME NEW j \in d + 1 + 1 .. m
       PROVE  /\ g[j] = g[j - 1] + NET_HEADER_SIZE + q[j] /\ g[j] <= l - h
              /\ \A p \in 1 .. NET_HEADER_SIZE + q[j] : t[g[j - 1] + p] = [pos |-> p, len |-> q[j]]
  <2>1. j \in d + 1 .. m /\ j - 1 \in d + 1 .. m /\ j \in 1 .. m
    BY <1>1
  <2>2. /\ e[j] = e[j - 1] + NET_HEADER_SIZE + q[j] /\ e[j] <= l
        /\ \A p \in 1 .. NET_HEADER_SIZE + q[j] : r[e[j - 1] + p] = [pos |-> p, len |-> q[j]]
    BY <1>2, <2>1 DEF EndsAt
  <2>3. /\ g[j] = e[j] - h /\ g[j - 1] = e[j - 1] - h /\ e[j] \in Nat /\ e[j - 1] \in Nat
        /\ e[j] >= h /\ e[j - 1] >= h
    BY <1>10, <1>12, <2>1
  <2>4. q[j] \in Nat
    BY <1>1, <2>1, ElementOfSeq
  <2>7. /\ e[j] - h = (e[j - 1] - h) + NET_HEADER_SIZE + q[j] /\ e[j] - h <= l - h
        /\ \A p \in 1 .. NET_HEADER_SIZE + q[j] :
             (e[j - 1] - h) + p \in 1 .. l - h /\ h + ((e[j - 1] - h) + p) = e[j - 1] + p
    <3> DEFINE x == e[j - 1]
               y == e[j]
               z == q[j]
    <3>1. /\ x \in Nat /\ y \in Nat /\ z \in Nat /\ l \in Nat /\ h \in Nat
          /\ y = x + NET_HEADER_SIZE + z /\ y <= l /\ x >= h /\ y >= h
      BY <1>1, <1>6, <2>2, <2>3, <2>4
    <3> HIDE DEF x, y, z, l
    <3>2. /\ y - h = (x - h) + NET_HEADER_SIZE + z /\ y - h <= l - h
          /\ \A p \in 1 .. NET_HEADER_SIZE + z :
               (x - h) + p \in 1 .. l - h /\ h + ((x - h) + p) = x + p
      BY <3>1, FramingAssumption
    <3> QED
      BY <3>2 DEF x, y, z
  <2>5. ASSUME NEW p \in 1 .. NET_HEADER_SIZE + q[j]
        PROVE  t[g[j - 1] + p] = [pos |-> p, len |-> q[j]]
    <3>1. g[j - 1] + p \in 1 .. l - h /\ h + (g[j - 1] + p) = e[j - 1] + p
      BY <2>3, <2>7
    <3>2. t[g[j - 1] + p] = r[h + (g[j - 1] + p)]
      BY <1>9, <3>1
    <3> QED
      BY <2>2, <3>1, <3>2
  <2>6. g[j] = g[j - 1] + NET_HEADER_SIZE + q[j] /\ g[j] <= l - h
    BY <2>3, <2>7
  <2> QED
    BY <2>5, <2>6
<1>14. \A j \in d + 1 .. m : g[j] \in Nat
  BY <1>6, <1>10, <1>12
<1>15. EndsAt(g, t, q, d + 1)
  BY <1>9, <1>11, <1>13, <1>14 DEF EndsAt
<1>16. d + 1 \in 0 .. m
  BY <1>4
<1>17. Wire(t, q, d + 1)
  BY <1>1, <1>9, <1>15, <1>16 DEF Wire
<1> QED
  BY <1>4, <1>5, <1>7, <1>17 DEF h, t

LEMMA SubSeqIs ==
  ASSUME NEW S, NEW s \in Seq(S), NEW a \in Nat, NEW n \in Nat, a <= n, n <= Len(s)
  PROVE  /\ SubSeq(s, a + 1, n) \in Seq(S) /\ Len(SubSeq(s, a + 1, n)) = n - a
         /\ \A i \in 1 .. n - a : SubSeq(s, a + 1, n)[i] = s[a + i]
<1> DEFINE c == a + 1
<1>1. c \in Int /\ n \in Int /\ \A i \in c .. n : s[i] \in S
  <2>1. \A i \in a + 1 .. n : i \in 1 .. Len(s)
    BY LenProperties
  <2> QED
    BY <2>1, ElementOfSeq
<1> HIDE DEF c
<1>2. /\ SubSeq(s, c, n) \in Seq(S)
      /\ Len(SubSeq(s, c, n)) = IF c <= n THEN n - c + 1 ELSE 0
      /\ \A i \in 1 .. n - c + 1 : SubSeq(s, c, n)[i] = s[c + i - 1]
  BY <1>1, SubSeqProperties
<1>3. n - c + 1 = n - a /\ (IF c <= n THEN n - c + 1 ELSE 0) = n - a
  BY DEF c
<1>4. \A i \in 1 .. n - a : c + i - 1 = a + i
  BY DEF c
<1> QED
  BY <1>2, <1>3, <1>4 DEF c

\* A piece of the stream that moves into the buffer.
LEMMA PieceMoves ==
  ASSUME NEW b \in Seq(Byte), NEW s \in Seq(Byte), NEW k \in 0 .. Len(s)
  PROVE  /\ SubSeq(s, 1, k) \in Seq(Byte) /\ SubSeq(s, k + 1, Len(s)) \in Seq(Byte)
         /\ (b \o SubSeq(s, 1, k)) \o SubSeq(s, k + 1, Len(s)) = b \o s
         /\ Len(SubSeq(s, 1, k)) = k /\ b \o SubSeq(s, 1, k) \in Seq(Byte)
<1> DEFINE n == Len(s)
           m == Len(b)
           p == SubSeq(s, 1, k)
           t == SubSeq(s, k + 1, n)
           bp == b \o p
<1>1. n \in Nat /\ m \in Nat /\ k \in Nat /\ k <= n
  BY LenProperties
<1>2. p \in Seq(Byte) /\ Len(p) = k /\ \A i \in 1 .. k : p[i] = s[i]
  <2> DEFINE z == 0
  <2>0. z \in Nat /\ z = 0 /\ z <= k
    BY <1>1
  <2> HIDE DEF z
  <2>1. /\ SubSeq(s, z + 1, k) \in Seq(Byte) /\ Len(SubSeq(s, z + 1, k)) = k - z
        /\ \A i \in 1 .. k - z : SubSeq(s, z + 1, k)[i] = s[z + i]
    BY <1>1, <2>0, SubSeqIs
  <2>2. z + 1 = 1 /\ k - z = k /\ \A i \in 1 .. k : z + i = i
    BY <1>1, <2>0
  <2> QED
    BY <2>1, <2>2
<1>3. t \in Seq(Byte) /\ Len(t) = n - k /\ \A i \in 1 .. n - k : t[i] = s[k + i]
  BY <1>1, SubSeqIs
<1> HIDE DEF p, t
<1>4. bp \in Seq(Byte) /\ Len(bp) = m + k /\ \A i \in 1 .. m + k : bp[i] = IF i <= m THEN b[i] ELSE p[i - m]
  BY <1>2, ConcatProperties
<1> HIDE DEF bp
<1>5. /\ bp \o t \in Seq(Byte) /\ Len(bp \o t) = (m + k) + (n - k)
      /\ \A i \in 1 .. (m + k) + (n - k) : (bp \o t)[i] = IF i <= m + k THEN bp[i] ELSE t[i - (m + k)]
  <2> DEFINE x == m + k
             y == n - k
  <2>1. bp \in Seq(Byte) /\ t \in Seq(Byte) /\ Len(bp) = x /\ Len(t) = y
    BY <1>3, <1>4
  <2> HIDE DEF x, y
  <2>2. /\ bp \o t \in Seq(Byte) /\ Len(bp \o t) = x + y
        /\ \A i \in 1 .. x + y : (bp \o t)[i] = IF i <= x THEN bp[i] ELSE t[i - x]
    BY <2>1, ConcatProperties
  <2> QED
    BY <2>2 DEF x, y
<1>6. /\ b \o s \in Seq(Byte) /\ Len(b \o s) = m + n
      /\ \A i \in 1 .. m + n : (b \o s)[i] = IF i <= m THEN b[i] ELSE s[i - m]
  BY ConcatProperties
<1>7. (m + k) + (n - k) = m + n
  BY <1>1
<1>8. ASSUME NEW i \in 1 .. m + n PROVE (bp \o t)[i] = (b \o s)[i]
  <2>1. CASE i <= m
    <3>1. i \in 1 .. m + k /\ i <= m + k
      BY <1>1, <2>1
    <3> QED
      BY <1>4, <1>5, <1>6, <1>7, <2>1, <3>1
  <2>2. CASE ~ (i <= m) /\ i <= m + k
    <3>1. i \in 1 .. m + k /\ i - m \in 1 .. k
      BY <1>1, <2>2
    <3> QED
      BY <1>2, <1>4, <1>5, <1>6, <1>7, <2>2, <3>1
  <2>3. CASE ~ (i <= m + k)
    <3>1. /\ i - (m + k) \in 1 .. n - k /\ k + (i - (m + k)) = i - m /\ ~ (i <= m)
      BY <1>1, <2>3
    <3>2. t[i - (m + k)] = s[k + (i - (m + k))]
      BY <1>3, <3>1
    <3> QED
      BY <1>5, <1>6, <1>7, <2>3, <3>1, <3>2
  <2> QED
    BY <2>1, <2>2, <2>3
<1> DEFINE u == bp \o t
           v == b \o s
<1> HIDE DEF u, v
<1>9. u \in Seq(Byte) /\ v \in Seq(Byte) /\ Len(u) = m + n /\ Len(v) = m + n /\ \A i \in 1 .. m + n : u[i] = v[i]
  BY <1>5, <1>6, <1>7, <1>8 DEF u, v
<1>10. u = v
  BY <1>9, EqualSeqs
<1> QED
  BY <1>2, <1>3, <1>4, <1>10 DEF u, v, bp, p, t

\* The first m bytes of the buffer are cut away.
LEMMA BufferCut ==
  ASSUME NEW b \in Seq(Byte), NEW s \in Seq(Byte), NEW m \in Nat, m <= Len(b)
  PROVE  /\ SubSeq(b, m + 1, Len(b)) \in Seq(Byte) /\ Len(SubSeq(b, m + 1, Len(b))) = Len(b) - m
         /\ SubSeq(b \o s, m + 1, Len(b \o s)) = SubSeq(b, m + 1, Len(b)) \o s
<1> DEFINE n == Len(b)
           l == Len(s)
           bs == b \o s
           t == SubSeq(b, m + 1, n)
           u == SubSeq(bs, m + 1, n + l)
           v == t \o s
<1>1. n \in Nat /\ l \in Nat /\ m <= n
  BY LenProperties
<1>2. bs \in Seq(Byte) /\ Len(bs) = n + l /\ \A i \in 1 .. n + l : bs[i] = IF i <= n THEN b[i] ELSE s[i - n]
  BY ConcatProperties
<1>3. t \in Seq(Byte) /\ Len(t) = n - m /\ \A i \in 1 .. n - m : t[i] = b[m + i]
  BY <1>1, SubSeqIs
<1> HIDE DEF bs, t
<1>4. u \in Seq(Byte) /\ Len(u) = n + l - m /\ \A i \in 1 .. n + l - m : u[i] = bs[m + i]
  <2> DEFINE x == n + l
  <2>1. x \in Nat /\ m <= x /\ x <= Len(bs)
    BY <1>1, <1>2
  <2> HIDE DEF x
  <2>2. /\ SubSeq(bs, m + 1, x) \in Seq(Byte) /\ Len(SubSeq(bs, m + 1, x)) = x - m
        /\ \A i \in 1 .. x - m : SubSeq(bs, m + 1, x)[i] = bs[m + i]
    BY <1>2, <2>1, SubSeqIs
  <2> QED
    BY <2>2 DEF x
<1>5. /\ v \in Seq(Byte) /\ Len(v) = (n - m) + l
      /\ \A i \in 1 .. (n - m) + l : v[i] = IF i <= n - m THEN t[i] ELSE s[i - (n - m)]
  <2> DEFINE x == n - m
  <2>1. t \in Seq(Byte) /\ Len(t) = x
    BY <1>3
  <2> HIDE DEF x
  <2>2. /\ t \o s \in Seq(Byte) /\ Len(t \o s) = x + l
        /\ \A i \in 1 .. x + l : (t \o s)[i] = IF i <= x THEN t[i] ELSE s[i - x]
    BY <2>1, ConcatProperties
  <2> QED
    BY <2>2 DEF x
<1> HIDE DEF u, v
<1>6. (n - m) + l = n + l - m
  BY <1>1
<1>7. ASSUME NEW i \in 1 .. n + l - m PROVE u[i] = v[i]
  <2>0. m + i \in 1 .. n + l
    BY <1>1
  <2>1. CASE i <= n - m
    <3>1. i \in 1 .. n - m /\ m + i <= n
      BY <1>1, <2>1
    <3> QED
      BY <1>2, <1>3, <1>4, <1>5, <1>6, <2>0, <2>1, <3>1
  <2>2. CASE ~ (i <= n - m)
    <3>1. ~ (m + i <= n) /\ (m + i) - n = i - (n - m)
      BY <1>1, <2>2
    <3>2. u[i] = s[(m + i) - n]
      BY <1>2, <1>4, <2>0, <3>1
    <3> QED
      BY <1>5, <1>6, <2>2, <3>1, <3>2
  <2> QED
    BY <2>1, <2>2
<1>8. u = v
  BY <1>4, <1>5, <1>6, <1>7, EqualSeqs
<1> QED
  BY <1>2, <1>3, <1>8 DEF bs, t, u, v

\* The buffer holds no complete message.
NoMessage(b) == Len(b) < NET_HEADER_SIZE \/ Len(b) < NET_HEADER_SIZE + b[1].len

\* The loop of handle_read_completion, message by message.
OneConsumed(s) ==
  IF s.bad \/ Len(s.rest) < NET_HEADER_SIZE THEN s
  ELSE IF ~ Parses(s.rest) THEN [s EXCEPT !.bad = TRUE]
  ELSE IF Len(s.rest) < NET_HEADER_SIZE + s.rest[1].len THEN s
  ELSE [s EXCEPT !.rest = SubSeq(s.rest, NET_HEADER_SIZE + s.rest[1].len + 1, Len(s.rest)),
                 !.out = Append(s.out, s.rest[1].len)]
ConsumedTo(b, f, m) ==
  f = [k \in 0 .. m |-> IF k = 0 THEN [rest |-> b, out |-> <<>>, bad |-> FALSE]
                        ELSE OneConsumed(f[k - 1])]

LEMMA ConsumedExists ==
  ASSUME NEW b, NEW n \in Nat
  PROVE  \E f : ConsumedTo(b, f, n)
<1> DEFINE bad == {m \in 0 .. n : ~ \E f : ConsumedTo(b, f, m)}
<1> SUFFICES ASSUME bad # {} PROVE FALSE
  OBVIOUS
<1>0. bad \subseteq Nat
  OBVIOUS
<1>1. PICK m \in bad : \A j \in bad : m <= j
  <2> HIDE DEF bad
  <2> QED
    BY <1>0, LeastNumber
<1>2. m \in 0 .. n
  OBVIOUS
<1>3. CASE m = 0
  <2> DEFINE g == [k \in 0 .. 0 |-> [rest |-> b, out |-> <<>>, bad |-> FALSE]]
  <2>1. ConsumedTo(b, g, 0)
    BY DEF ConsumedTo
  <2> QED
    BY <1>3, <2>1
<1>4. CASE m # 0
  <2>1. m - 1 \in 0 .. n /\ m - 1 \notin bad
    BY <1>1, <1>2, <1>4
  <2>2. PICK f : ConsumedTo(b, f, m - 1)
    BY <2>1
  <2> DEFINE g == [k \in 0 .. m |-> IF k = m THEN OneConsumed(f[m - 1]) ELSE f[k]]
  <2>3. ASSUME NEW k \in 0 .. m
        PROVE  g[k] = IF k = 0 THEN [rest |-> b, out |-> <<>>, bad |-> FALSE]
                      ELSE OneConsumed(g[k - 1])
    <3>1. CASE k = m
      <4>1. g[k - 1] = f[m - 1] /\ g[k] = OneConsumed(f[m - 1])
        BY <1>2, <1>4, <3>1
      <4> HIDE DEF g
      <4> QED
        BY <1>4, <3>1, <4>1
    <3>2. CASE k # m
      <4>1. k \in 0 .. m - 1 /\ g[k] = f[k] /\ (k # 0 => g[k - 1] = f[k - 1])
        BY <1>2, <1>4, <3>2
      <4> HIDE DEF g
      <4> QED
        BY <2>2, <4>1 DEF ConsumedTo
    <3> QED
      BY <3>1, <3>2
  <2>4. g = [k \in 0 .. m |-> g[k]]
    OBVIOUS
  <2> HIDE DEF g
  <2>5. ConsumedTo(b, g, m)
    BY <2>3, <2>4 DEF ConsumedTo
  <2> QED
    BY <2>5
<1> QED
  BY <1>3, <1>4

LEMMA ConsumeUnfolds ==
  ASSUME NEW b, Len(b) \in Nat
  PROVE  \E f : ConsumedTo(b, f, Len(b)) /\ Consume(b) = f[Len(b)]
<1> DEFINE g == CHOOSE f : ConsumedTo(b, f, Len(b))
<1>1. ConsumedTo(b, g, Len(b))
  BY ConsumedExists
<1>2. Consume(b) = g[Len(b)]
  BY DEF Consume, ConsumedTo, OneConsumed
<1> QED
  BY <1>1, <1>2

\* What a round of the loop keeps: the messages taken are the next of q, and
\* what is left, with the bytes still in the stream, is the rest.
Consumed(s, t, q, d) ==
  /\ s = [rest |-> s.rest, out |-> s.out, bad |-> FALSE]
  /\ s.rest \in Seq(Byte) /\ s.out \in Seq(Nat)
  /\ d + Len(s.out) <= Len(q) /\ \A i \in 1 .. Len(s.out) : s.out[i] = q[d + i]
  /\ Wire(s.rest \o t, q, d + Len(s.out))

\* A header in the buffer is that of the next message.
LEMMA FirstHeader ==
  ASSUME NEW b \in Seq(Byte), NEW t \in Seq(Byte), NEW q, NEW d, Wire(b \o t, q, d), Len(b) > 0
  PROVE  /\ b[1] = [pos |-> 1, len |-> q[d + 1]] /\ (b \o t)[1] = b[1] /\ Len(b \o t) > 0
         /\ d + 1 \in 1 .. Len(q) /\ q[d + 1] \in Nat
<1>1. Len(b) \in Nat /\ Len(t) \in Nat
  BY LenProperties
<1>2. (b \o t)[1] = b[1] /\ Len(b \o t) = Len(b) + Len(t)
  BY <1>1, ConcatProperties
<1>3. Len(b \o t) > 0
  BY <1>1, <1>2
<1> QED
  BY <1>2, <1>3, WireFirst

LEMMA OneConsumedKeeps ==
  ASSUME NEW s, NEW t \in Seq(Byte), NEW q, NEW d \in Nat, Consumed(s, t, q, d)
  PROVE  /\ Consumed(OneConsumed(s), t, q, d)
         /\ \/ OneConsumed(s) = s /\ NoMessage(s.rest)
            \/ Len(OneConsumed(s).rest) < Len(s.rest)
<1> DEFINE b == s.rest
           o == s.out
           n == Len(o)
           z == b[1].len
           h == NET_HEADER_SIZE + z
<1>1. /\ s = [rest |-> b, out |-> o, bad |-> FALSE] /\ b \in Seq(Byte) /\ o \in Seq(Nat)
      /\ n \in Nat /\ Len(b) \in Nat /\ d + n <= Len(q) /\ \A i \in 1 .. n : o[i] = q[d + i]
      /\ Wire(b \o t, q, d + n)
  BY LenProperties DEF Consumed
<1>2. ~ s.bad
  BY <1>1
<1>3. CASE Len(b) < NET_HEADER_SIZE
  BY <1>3 DEF OneConsumed, NoMessage
<1>4. CASE ~ (Len(b) < NET_HEADER_SIZE)
  <2>1. Len(b) > 0
    BY <1>1, <1>4, FramingAssumption
  <2> DEFINE e == d + n
  <2> HIDE DEF e
  <2>2. /\ b[1] = [pos |-> 1, len |-> q[e + 1]] /\ e + 1 \in 1 .. Len(q)
        /\ q[e + 1] \in Nat
    <3>1. Wire(b \o t, q, e)
      BY <1>1 DEF e
    <3> QED
      BY <1>1, <2>1, <3>1, FirstHeader
  <2>3. Parses(b) /\ z = q[e + 1] /\ z \in Nat
    BY <2>2 DEF Parses
  <2>4. CASE Len(b) < h
    <3>1. OneConsumed(s) = s
      BY <1>2, <1>4, <2>3, <2>4 DEF OneConsumed
    <3> QED
      BY <2>4, <3>1 DEF NoMessage
  <2>5. CASE ~ (Len(b) < h)
    <3> DEFINE c == SubSeq(b, h + 1, Len(b))
               a == Append(o, z)
    <3>1. OneConsumed(s) = [s EXCEPT !.rest = c, !.out = a]
      BY <1>2, <1>4, <2>3, <2>5 DEF OneConsumed
    <3>2. OneConsumed(s) = [rest |-> c, out |-> a, bad |-> FALSE]
      <4> HIDE DEF a, b, c, o
      <4> QED
        BY <1>1, <3>1
    <3>3. h \in Nat /\ h > 0 /\ h <= Len(b)
      <4>1. z \in Nat /\ Len(b) \in Nat /\ ~ (Len(b) < h)
        BY <1>1, <2>3, <2>5
      <4> HIDE DEF z, b
      <4> QED
        BY <4>1, FramingAssumption
    <3>4. a \in Seq(Nat) /\ Len(a) = n + 1 /\ (\A i \in 1 .. n : a[i] = o[i]) /\ a[n + 1] = z
      BY <1>1, <2>3, AppendProperties
    <3> HIDE DEF a, h, o
    <3>5. c \in Seq(Byte) /\ Len(c) = Len(b) - h /\ SubSeq(b \o t, h + 1, Len(b \o t)) = c \o t
      BY <1>1, <3>3, BufferCut
    <3> HIDE DEF c
    <3>6. Wire(c \o t, q, e + 1)
      <4>1. Wire(b \o t, q, e) /\ Len(b \o t) > 0
        BY <1>1, <2>1, FirstHeader DEF e
      <4>2. Wire(SubSeq(b \o t, NET_HEADER_SIZE + q[e + 1] + 1, Len(b \o t)), q, e + 1)
        BY <4>1, WireFirst
      <4> QED
        BY <2>3, <3>5, <4>2 DEF h
    <3>7. e + 1 = d + (n + 1) /\ e \in Nat /\ e + 1 <= Len(q)
      BY <1>1, <2>2 DEF e
    <3>8. ASSUME NEW i \in 1 .. n + 1 PROVE a[i] = q[d + i]
      <4>1. CASE i = n + 1
        BY <1>1, <2>3, <3>4, <4>1, <3>7
      <4>2. CASE i # n + 1
        <5>1. i \in 1 .. n
          BY <1>1, <4>2
        <5> QED
          BY <1>1, <3>4, <5>1
      <4> QED
        BY <4>1, <4>2
    <3> DEFINE r == [rest |-> c, out |-> a, bad |-> FALSE]
    <3>9. Consumed(r, t, q, d)
      BY <3>4, <3>5, <3>6, <3>7, <3>8 DEF Consumed
    <3>10. Len(r.rest) < Len(b)
      BY <1>1, <3>3, <3>5
    <3> QED
      BY <3>2, <3>9, <3>10
  <2> QED
    BY <2>4, <2>5
<1> QED
  BY <1>3, <1>4

LEMMA ConsumeSound ==
  ASSUME NEW b \in Seq(Byte), NEW t \in Seq(Byte), NEW q, NEW d \in Nat, Wire(b \o t, q, d)
  PROVE  Consumed(Consume(b), t, q, d) /\ NoMessage(Consume(b).rest)
<1> DEFINE n == Len(b)
<1>1. n \in Nat
  BY LenProperties
<1>2. PICK f : ConsumedTo(b, f, n) /\ Consume(b) = f[n]
  BY <1>1, ConsumeUnfolds
<1> DEFINE good(k) == /\ Consumed(f[k], t, q, d)
                      /\ Len(f[k].rest) + k <= n \/ NoMessage(f[k].rest)
<1>3. f[0] = [rest |-> b, out |-> <<>>, bad |-> FALSE]
  BY <1>1, <1>2 DEF ConsumedTo
<1>4. good(0)
  <2> DEFINE s == [rest |-> b, out |-> <<>>, bad |-> FALSE]
  <2>1. /\ s.rest = b /\ s.out = <<>> /\ Len(<<>>) = 0 /\ <<>> \in Seq(Nat) /\ d + 0 = d
        /\ 1 .. 0 = {}
    OBVIOUS
  <2>2. d <= Len(q)
    BY LenProperties DEF Wire
  <2>3. Consumed(s, t, q, d)
    BY <2>1, <2>2 DEF Consumed
  <2>4. Len(s.rest) + 0 <= n
    BY <1>1
  <2> QED
    BY <1>3, <2>3, <2>4
<1>5. ASSUME NEW k \in 1 .. n, good(k - 1) PROVE good(k)
  <2> DEFINE s == f[k - 1]
  <2>0. k \in 0 .. n /\ k # 0
    BY <1>1
  <2>1. f[k] = OneConsumed(s)
    BY <1>2, <2>0 DEF ConsumedTo
  <2>2. Consumed(s, t, q, d) /\ (Len(s.rest) + (k - 1) <= n \/ NoMessage(s.rest))
    BY <1>5
  <2> HIDE DEF s
  <2>3. /\ Consumed(f[k], t, q, d)
        /\ \/ f[k] = s /\ NoMessage(s.rest)
           \/ Len(f[k].rest) < Len(s.rest)
    BY <2>1, <2>2, OneConsumedKeeps
  <2>4. Len(f[k].rest) \in Nat /\ Len(s.rest) \in Nat
    BY <2>2, <2>3, LenProperties DEF Consumed
  <2>5. CASE NoMessage(s.rest)
    <3>1. OneConsumed(s) = s
      <4>1. s.rest \in Seq(Byte) /\ Wire(s.rest \o t, q, d + Len(s.out))
        BY <2>2 DEF Consumed
      <4>2. CASE Len(s.rest) < NET_HEADER_SIZE
        BY <4>2 DEF OneConsumed
      <4>3. CASE ~ (Len(s.rest) < NET_HEADER_SIZE)
        <5>1. Len(s.rest) > 0
          BY <2>4, <4>3, FramingAssumption
        <5> DEFINE x == d + Len(s.out)
                   c == s.rest
        <5> HIDE DEF x
        <5>0. Wire(c \o t, q, x) /\ c \in Seq(Byte) /\ Len(c) > 0
          BY <4>1, <5>1 DEF x
        <5> HIDE DEF c
        <5>2. c[1] = [pos |-> 1, len |-> q[x + 1]]
          BY <5>0, FirstHeader
        <5>3. Parses(s.rest)
          BY <5>2 DEF Parses, c
        <5> QED
          BY <2>5, <4>3, <5>3 DEF OneConsumed, NoMessage
      <4> QED
        BY <4>2, <4>3
    <3> QED
      BY <2>1, <2>2, <2>5, <3>1
  <2>6. CASE ~ NoMessage(s.rest)
    <3>1. Len(f[k].rest) < Len(s.rest) /\ Len(s.rest) + (k - 1) <= n
      BY <2>2, <2>3, <2>6
    <3>2. Len(f[k].rest) + k <= n
      BY <1>1, <2>4, <3>1
    <3> QED
      BY <2>3, <3>2
  <2> QED
    BY <2>5, <2>6
<1> DEFINE bad == {k \in 0 .. n : ~ good(k)}
<1> HIDE DEF good
<1>6. bad = {}
  <2> SUFFICES ASSUME bad # {} PROVE FALSE
    OBVIOUS
  <2>0. bad \subseteq Nat
    BY <1>1
  <2>1. PICK k \in bad : \A j \in bad : k <= j
    <3> HIDE DEF bad
    <3> QED
      BY <2>0, LeastNumber
  <2>2. k # 0 /\ k \in 1 .. n /\ k - 1 \in 0 .. n
    BY <1>1, <1>4
  <2>3. k - 1 \notin bad
    BY <2>1, <2>2
  <2>4. good(k - 1)
    BY <2>2, <2>3
  <2> QED
    BY <1>5, <2>2, <2>4
<1>7. good(n)
  BY <1>1, <1>6
<1>8. Consumed(f[n], t, q, d) /\ (Len(f[n].rest) + n <= n \/ NoMessage(f[n].rest))
  BY <1>7 DEF good
<1>9. Len(f[n].rest) \in Nat
  BY <1>8, LenProperties DEF Consumed
<1>10. NoMessage(f[n].rest)
  <2>1. CASE Len(f[n].rest) + n <= n
    <3>1. Len(f[n].rest) < NET_HEADER_SIZE
      BY <1>1, <1>9, <2>1, FramingAssumption
    <3> QED
      BY <3>1 DEF NoMessage
  <2> QED
    BY <1>8, <2>1
<1> QED
  BY <1>2, <1>8, <1>10

FramingInv ==
  /\ sent \in Seq(Nat) /\ \A i \in 1 .. Len(sent) : NET_HEADER_SIZE + sent[i] <= NET_MAX_MESSAGE_SIZE
  /\ stream \in Seq(Byte) /\ buffer \in Seq(Byte) /\ delivered \in Seq(Nat)
  /\ \A i \in 1 .. Len(delivered) : delivered[i] = sent[i]
  /\ Wire(buffer \o stream, sent, Len(delivered))
  /\ mode = "async" => NoMessage(buffer)
  /\ status # "error"
  /\ status = "disconnected" => /\ Len(delivered) < Len(sent)
                                /\ NET_HEADER_SIZE + sent[Len(delivered) + 1] > RecvBuffer

LEMMA InitFraming == framing_init => FramingInv
<1> SUFFICES ASSUME framing_init PROVE FramingInv
  OBVIOUS
<1>1. /\ sent = <<>> /\ stream = <<>> /\ buffer = <<>> /\ delivered = <<>> /\ status = "open"
      /\ Len(<<>>) = 0 /\ 1 .. 0 = {} /\ <<>> \o <<>> = <<>>
      /\ <<>> \in Seq(Nat) /\ <<>> \in Seq(Byte)
  BY DEF framing_init
<1>2. Wire(<<>>, sent, Len(sent))
  BY <1>1, WireEmpty
<1>3. Wire(buffer \o stream, sent, Len(delivered))
  BY <1>1, <1>2
<1>4. NoMessage(buffer)
  BY <1>1, FramingAssumption DEF NoMessage
<1> QED
  BY <1>1, <1>3, <1>4 DEF FramingInv

LEMMA BuilderRefuses ==
  ASSUME NEW n \in Nat, net_msg_builder_append(n)
  PROVE  NET_HEADER_SIZE + n <= NET_MAX_MESSAGE_SIZE
BY FramingAssumption DEF net_msg_builder_append, Capacities

LEMMA SendStep ==
  ASSUME FramingInv, NEW n \in Sizes, net_send_message(n)
  PROVE  FramingInv'
<1> DEFINE m == Len(sent)
           d == Len(delivered)
<1>1. /\ n \in Nat /\ NET_HEADER_SIZE + n <= NET_MAX_MESSAGE_SIZE
      /\ sent' = Append(sent, n) /\ stream' = stream \o Bytes(n)
      /\ UNCHANGED <<mode, buffer, delivered, status>>
  BY FramingAssumption, BuilderRefuses DEF net_send_message
<1>2. /\ sent \in Seq(Nat) /\ stream \in Seq(Byte) /\ buffer \in Seq(Byte) /\ delivered \in Seq(Nat)
      /\ m \in Nat /\ d \in Nat
      /\ Wire(buffer \o stream, sent, d)
  BY LenProperties DEF FramingInv
<1>3. d <= m
  BY <1>2 DEF Wire
<1>4. sent' \in Seq(Nat) /\ Len(sent') = m + 1 /\ (\A i \in 1 .. m : sent'[i] = sent[i]) /\ sent'[m + 1] = n
  BY <1>1, <1>2, AppendProperties
<1>5. Bytes(n) \in Seq(Byte)
  BY <1>1, BytesAre
<1>6. stream' \in Seq(Byte) /\ buffer' \o stream' = (buffer \o stream) \o Bytes(n)
  <2> DEFINE y == Bytes(n)
  <2>1. y \in Seq(Byte)
    BY <1>5
  <2>2. stream' = stream \o y /\ buffer' = buffer
    BY <1>1
  <2> HIDE DEF y
  <2>3. stream \o y \in Seq(Byte)
    BY <1>2, <2>1, ConcatProperties
  <2>4. buffer \o (stream \o y) = (buffer \o stream) \o y
    BY SMTT(30), <1>2, <2>1, ConcatAssociative
  <2> QED
    BY <2>2, <2>3, <2>4 DEF y
<1>7. Wire(buffer' \o stream', sent', d)
  BY <1>1, <1>2, <1>6, WireAppend
<1>8. ASSUME NEW i \in 1 .. m + 1 PROVE NET_HEADER_SIZE + sent'[i] <= NET_MAX_MESSAGE_SIZE
  <2>1. i = m + 1 \/ i \in 1 .. m
    BY <1>2
  <2> QED
    BY <1>1, <1>4, <2>1 DEF FramingInv
<1>9. \A i \in 1 .. d : i \in 1 .. m
  BY <1>2, <1>3
<1>10. \A i \in 1 .. d : delivered[i] = sent'[i]
  BY <1>4, <1>9 DEF FramingInv
<1>11. status = "disconnected" => d < m + 1 /\ NET_HEADER_SIZE + sent'[d + 1] > RecvBuffer
  <2> SUFFICES ASSUME status = "disconnected"
               PROVE  d < m + 1 /\ NET_HEADER_SIZE + sent'[d + 1] > RecvBuffer
    OBVIOUS
  <2>1. d < m /\ NET_HEADER_SIZE + sent[d + 1] > RecvBuffer
    BY DEF FramingInv
  <2>2. d + 1 \in 1 .. m /\ d < m + 1
    BY <1>2, <2>1
  <2> QED
    BY <1>4, <2>1, <2>2
<1> QED
  BY <1>1, <1>2, <1>4, <1>6, <1>7, <1>8, <1>10, <1>11 DEF FramingInv

\* The messages a read completes, after those delivered before.
LEMMA DeliveredOn ==
  ASSUME NEW q \in Seq(Nat), NEW a \in Seq(Nat), \A i \in 1 .. Len(a) : a[i] = q[i],
         NEW o \in Seq(Nat), \A i \in 1 .. Len(o) : o[i] = q[Len(a) + i]
  PROVE  /\ a \o o \in Seq(Nat) /\ Len(a \o o) = Len(a) + Len(o)
         /\ \A i \in 1 .. Len(a) + Len(o) : (a \o o)[i] = q[i]
<1>1. Len(a) \in Nat /\ Len(o) \in Nat
  BY LenProperties
<1>2. /\ a \o o \in Seq(Nat) /\ Len(a \o o) = Len(a) + Len(o)
      /\ \A i \in 1 .. Len(a) + Len(o) : (a \o o)[i] = IF i <= Len(a) THEN a[i] ELSE o[i - Len(a)]
  BY ConcatProperties
<1>3. ASSUME NEW i \in 1 .. Len(a) + Len(o) PROVE (a \o o)[i] = q[i]
  <2>1. CASE i <= Len(a)
    <3>1. i \in 1 .. Len(a)
      BY <1>1, <2>1
    <3>2. a[i] = q[i]
      BY <3>1
    <3>3. (a \o o)[i] = a[i]
      BY <1>2, <2>1
    <3> QED
      BY <3>2, <3>3
  <2>2. CASE ~ (i <= Len(a))
    <3>1. i - Len(a) \in 1 .. Len(o) /\ Len(a) + (i - Len(a)) = i
      BY <1>1, <2>2
    <3>2. o[i - Len(a)] = q[Len(a) + (i - Len(a))]
      BY <3>1
    <3>3. (a \o o)[i] = o[i - Len(a)]
      BY <1>2, <2>2
    <3> QED
      BY <3>1, <3>2, <3>3
  <2> QED
    BY <2>1, <2>2
<1> QED
  BY <1>2, <1>3

LEMMA ReadStep ==
  ASSUME FramingInv, NEW k \in 0 .. Len(stream), handle_read_completion(k)
  PROVE  FramingInv'
<1> DEFINE d == Len(delivered)
           p == Piece(k)
           t == Later(k)
           c == Consume(buffer \o p)
<1>1. /\ sent \in Seq(Nat) /\ stream \in Seq(Byte) /\ buffer \in Seq(Byte) /\ delivered \in Seq(Nat)
      /\ d \in Nat /\ Len(buffer) \in Nat
      /\ Wire(buffer \o stream, sent, d) /\ NoMessage(buffer)
      /\ \A i \in 1 .. d : delivered[i] = sent[i]
  BY LenProperties DEF FramingInv, handle_read_completion
<1>2. mode = "async" /\ status = "open" /\ UNCHANGED <<mode, sent>> /\ stream' = t
  BY DEF handle_read_completion
<1>3. /\ p \in Seq(Byte) /\ t \in Seq(Byte) /\ (buffer \o p) \o t = buffer \o stream
      /\ Len(p) = k /\ buffer \o p \in Seq(Byte)
  BY <1>1, PieceMoves DEF Piece, Later
<1>4. CASE k = 0
  <2>1. /\ Len(buffer) = RecvBuffer /\ status' = "disconnected"
        /\ buffer' = buffer /\ delivered' = delivered
    BY <1>4 DEF handle_read_completion
  <2>2. t = stream
    <3>1. t \in Seq(Byte) /\ Len(t) = Len(stream) /\ \A i \in 1 .. Len(stream) : t[i] = stream[i]
      <4> DEFINE n == Len(stream)
      <4>1. n \in Nat /\ 0 <= n /\ 0 \in Nat
        BY <1>1, LenProperties
      <4>2. t = SubSeq(stream, 0 + 1, n)
        BY <1>4 DEF Later
      <4>3. /\ SubSeq(stream, 0 + 1, n) \in Seq(Byte) /\ Len(SubSeq(stream, 0 + 1, n)) = n - 0
            /\ \A i \in 1 .. n - 0 : SubSeq(stream, 0 + 1, n)[i] = stream[0 + i]
        <5> DEFINE z == 0
        <5>1. z \in Nat /\ z <= n /\ n <= Len(stream)
          BY <4>1
        <5> HIDE DEF z, n
        <5>2. /\ SubSeq(stream, z + 1, n) \in Seq(Byte) /\ Len(SubSeq(stream, z + 1, n)) = n - z
              /\ \A i \in 1 .. n - z : SubSeq(stream, z + 1, n)[i] = stream[z + i]
          BY <1>1, <4>1, <5>1, SubSeqIs
        <5> QED
          BY <5>2 DEF z
      <4> HIDE DEF t
      <4>4. n - 0 = n /\ \A i \in 1 .. n : 0 + i = i
        BY <4>1
      <4> QED
        BY <4>2, <4>3, <4>4
    <3> HIDE DEF t
    <3> QED
      BY <1>1, <3>1, EqualSeqs
  <2>3. Len(buffer) >= NET_HEADER_SIZE /\ Len(buffer) > 0
    BY <1>1, <2>1, FramingAssumption
  <2>4. /\ buffer[1] = [pos |-> 1, len |-> sent[d + 1]]
        /\ d + 1 \in 1 .. Len(sent) /\ sent[d + 1] \in Nat
    <3>1. buffer \in Seq(Byte) /\ stream \in Seq(Byte) /\ Len(buffer) > 0
      BY <1>1, <2>3
    <3>2. Wire(buffer \o stream, sent, d)
      BY <1>1
    <3> HIDE DEF d
    <3>3. buffer[1] = [pos |-> 1, len |-> sent[d + 1]]
      BY <3>1, <3>2, FirstHeader
    <3>4. d + 1 \in 1 .. Len(sent) /\ sent[d + 1] \in Nat
      BY <3>1, <3>2, FirstHeader
    <3> QED
      BY <3>3, <3>4
  <2>5. Len(buffer) < NET_HEADER_SIZE + sent[d + 1]
    BY <1>1, <2>3, <2>4, FramingAssumption DEF NoMessage
  <2>6. d < Len(sent) /\ NET_HEADER_SIZE + sent[d + 1] > RecvBuffer
    BY <1>1, <2>1, <2>4, <2>5, FramingAssumption
  <2> HIDE DEF t
  <2> QED
    BY <1>1, <1>2, <2>1, <2>2, <2>6 DEF FramingInv
<1>5. CASE k # 0
  <2>1. /\ buffer' = c.rest /\ delivered' = delivered \o c.out
        /\ status' = IF c.bad THEN "error" ELSE "open"
    BY <1>5 DEF handle_read_completion
  <2> DEFINE b == buffer \o p
  <2>2. b \in Seq(Byte) /\ Wire(b \o t, sent, d)
    BY <1>1, <1>3
  <2>3. c = Consume(b)
    OBVIOUS
  <2> HIDE DEF b, t, c
  <2>4. Consumed(c, t, sent, d) /\ NoMessage(c.rest)
    BY <1>1, <1>3, <2>2, <2>3, ConsumeSound
  <2>5. /\ ~ c.bad /\ c.rest \in Seq(Byte) /\ c.out \in Seq(Nat)
        /\ \A i \in 1 .. Len(c.out) : c.out[i] = sent[d + i]
        /\ Wire(c.rest \o t, sent, d + Len(c.out))
    BY <2>4 DEF Consumed
  <2>6. /\ delivered' \in Seq(Nat) /\ Len(delivered') = d + Len(c.out)
        /\ \A i \in 1 .. d + Len(c.out) : delivered'[i] = sent[i]
    BY SMTT(30), <1>1, <2>1, <2>5, DeliveredOn
  <2>7. status' = "open"
    BY <2>1, <2>5
  <2> HIDE DEF d
  <2> QED
    BY <1>1, <1>2, <1>3, <2>1, <2>4, <2>5, <2>6, <2>7 DEF FramingInv
<1> QED
  BY <1>4, <1>5

LEMMA ExactStep ==
  ASSUME FramingInv, NEW k \in 0 .. Len(stream), recv_exact(k)
  PROVE  FramingInv'
<1>1. /\ mode = "sync" /\ status = "open" /\ buffer' = buffer \o Piece(k) /\ stream' = Later(k)
      /\ UNCHANGED <<mode, sent, delivered, status>>
  BY DEF recv_exact
<1>2. stream \in Seq(Byte) /\ buffer \in Seq(Byte)
  BY DEF FramingInv
<1>3. buffer' \in Seq(Byte) /\ stream' \in Seq(Byte) /\ buffer' \o stream' = buffer \o stream
  BY <1>1, <1>2, PieceMoves DEF Piece, Later
<1> QED
  BY <1>1, <1>3 DEF FramingInv

LEMMA RecvStep ==
  ASSUME FramingInv, net_recv_message
  PROVE  FramingInv'
<1> DEFINE d == Len(delivered)
           n == Len(buffer)
<1>1. /\ sent \in Seq(Nat) /\ stream \in Seq(Byte) /\ buffer \in Seq(Byte) /\ delivered \in Seq(Nat)
      /\ d \in Nat /\ n \in Nat
      /\ Wire(buffer \o stream, sent, d) /\ \A i \in 1 .. d : delivered[i] = sent[i]
  BY LenProperties DEF FramingInv
<1>2. mode = "sync" /\ status = "open" /\ n >= NET_HEADER_SIZE /\ UNCHANGED <<mode, sent, stream>>
  BY DEF net_recv_message
<1>3. n > 0
  BY <1>1, <1>2, FramingAssumption
<1> DEFINE z == sent[d + 1]
           h == NET_HEADER_SIZE + z
<1>4. /\ buffer[1] = [pos |-> 1, len |-> z] /\ d + 1 \in 1 .. Len(sent) /\ z \in Nat
      /\ Len(buffer \o stream) > 0
  <2>1. buffer \in Seq(Byte) /\ stream \in Seq(Byte) /\ Len(buffer) > 0
    BY <1>1, <1>3
  <2>2. Wire(buffer \o stream, sent, d)
    BY <1>1
  <2> HIDE DEF d
  <2>3. buffer[1] = [pos |-> 1, len |-> z]
    BY <2>1, <2>2, FirstHeader
  <2>4. d + 1 \in 1 .. Len(sent) /\ z \in Nat
    BY <2>1, <2>2, FirstHeader
  <2>5. Len(buffer \o stream) > 0
    BY <2>1, <2>2, FirstHeader
  <2> QED
    BY <2>3, <2>4, <2>5
<1>5. Parses(buffer) /\ net_msg_validate_header
  <2>1. NET_HEADER_SIZE + z <= NET_MAX_MESSAGE_SIZE
    BY <1>4 DEF FramingInv
  <2>2. z <= NET_MAX_MESSAGE_SIZE - NET_HEADER_SIZE
    <3> HIDE DEF z
    <3> QED
      BY <1>4, <2>1, FramingAssumption
  <2> QED
    BY <1>4, <2>2 DEF Parses, net_msg_validate_header
<1>6. n = h /\ delivered' = Append(delivered, z) /\ buffer' = <<>> /\ status' = status
  BY <1>4, <1>5 DEF net_recv_message
<1>7. Wire(SubSeq(buffer \o stream, h + 1, Len(buffer \o stream)), sent, d + 1)
  BY <1>1, <1>4, WireFirst
<1>8. h \in Nat /\ h <= n
  BY <1>1, <1>6
<1> HIDE DEF h
<1>9. SubSeq(buffer \o stream, h + 1, Len(buffer \o stream)) = buffer' \o stream
  <2> DEFINE r == SubSeq(buffer, h + 1, n)
  <2>1. /\ r \in Seq(Byte) /\ Len(r) = n - h
        /\ SubSeq(buffer \o stream, h + 1, Len(buffer \o stream)) = r \o stream
    BY <1>1, <1>8, BufferCut
  <2>2. n - h = 0
    BY <1>1, <1>6
  <2> HIDE DEF r, n
  <2>3. r = <<>>
    BY <2>1, <2>2, EmptySeq
  <2> QED
    BY <1>6, <2>1, <2>3
<1>10. /\ delivered' \in Seq(Nat) /\ Len(delivered') = d + 1
       /\ \A i \in 1 .. d : delivered'[i] = delivered[i]
       /\ delivered'[d + 1] = z
  BY <1>1, <1>4, <1>6, AppendProperties
<1>11. \A i \in 1 .. d + 1 : i = d + 1 \/ i \in 1 .. d
  BY <1>1
<1>12. \A i \in 1 .. d + 1 : delivered'[i] = sent[i]
  BY <1>1, <1>10, <1>11
<1>13. buffer' \in Seq(Byte)
  BY <1>6
<1>14. Wire(buffer' \o stream', sent', d + 1)
  BY <1>2, <1>7, <1>9
<1> HIDE DEF d, z, n
<1> QED
  BY <1>1, <1>2, <1>6, <1>10, <1>12, <1>13, <1>14 DEF FramingInv

LEMMA NextFraming ==
  ASSUME FramingInv, [FramingNext]_fvars
  PROVE  FramingInv'
<1>1. CASE UNCHANGED fvars
  BY <1>1 DEF fvars, FramingInv
<1>2. CASE RecvTimeout
  BY <1>2 DEF RecvTimeout, FramingInv
<1> QED
  BY <1>1, <1>2, SendStep, ReadStep, ExactStep, RecvStep DEF FramingNext, Receive

LEMMA FramingFollows ==
  ASSUME FramingInv
  PROVE  MessagesInOrder
<1> DEFINE d == Len(delivered)
           m == Len(sent)
<1>1. /\ sent \in Seq(Nat) /\ delivered \in Seq(Nat) /\ d \in Nat /\ m \in Nat
      /\ Wire(buffer \o stream, sent, d) /\ \A i \in 1 .. d : delivered[i] = sent[i]
  BY LenProperties DEF FramingInv
<1>2. d <= m
  BY <1>1 DEF Wire
<1>3. IsPrefix(delivered, sent)
  <2> DEFINE z == 0
  <2>1. z \in Nat /\ z <= d /\ d <= Len(delivered) /\ d <= m
    BY <1>1, <1>2
  <2> HIDE DEF d, z
  <2>2. /\ SubSeq(delivered, z + 1, d) \in Seq(Nat) /\ Len(SubSeq(delivered, z + 1, d)) = d - z
        /\ \A i \in 1 .. d - z : SubSeq(delivered, z + 1, d)[i] = delivered[z + i]
    BY <1>1, <2>1, SubSeqIs
  <2>3. /\ SubSeq(sent, z + 1, d) \in Seq(Nat) /\ Len(SubSeq(sent, z + 1, d)) = d - z
        /\ \A i \in 1 .. d - z : SubSeq(sent, z + 1, d)[i] = sent[z + i]
    BY <1>1, <2>1, SubSeqIs
  <2>4. \A i \in 1 .. d - z : z + i \in 1 .. d
    BY <1>1 DEF z
  <2>5. SubSeq(delivered, z + 1, d) = SubSeq(sent, z + 1, d)
    <3> DEFINE u == SubSeq(delivered, z + 1, d)
               v == SubSeq(sent, z + 1, d)
    <3>1. \A i \in 1 .. d - z : u[i] = v[i]
      BY <1>1, <2>2, <2>3, <2>4
    <3>2. u \in Seq(Nat) /\ v \in Seq(Nat) /\ Len(u) = d - z /\ Len(v) = d - z
      BY <2>2, <2>3
    <3> HIDE DEF u, v
    <3>3. u = v
      BY <3>1, <3>2, EqualSeqs
    <3> QED
      BY <3>3 DEF u, v
  <2>6. z + 1 = 1 /\ d = Len(delivered)
    BY DEF z, d
  <2> QED
    BY <1>1, <1>2, <2>5, <2>6 DEF IsPrefix
<1>4. status # "error" /\ (status = "disconnected" => NET_HEADER_SIZE + sent[d + 1] > RecvBuffer)
  BY DEF FramingInv
<1>5. ASSUME stream = <<>>, buffer = <<>> PROVE delivered = sent
  <2>1. Wire(<<>>, sent, d) /\ Len(<<>>) = 0
    <3>1. <<>> \o <<>> = <<>>
      OBVIOUS
    <3> QED
      BY <1>1, <1>5, <3>1
  <2>2. ~ (d < m)
    <3> SUFFICES ASSUME d < m PROVE FALSE
      OBVIOUS
    <3>1. PICK e : EndsAt(e, <<>>, sent, d)
      BY <2>1 DEF Wire
    <3>2. m \in d + 1 .. m /\ m \in 1 .. m /\ m - 1 \in d .. m
      BY <1>1
    <3>3. e[m] = e[m - 1] + NET_HEADER_SIZE + sent[m] /\ e[m] = 0 /\ e[m - 1] \in Nat
      BY <2>1, <3>1, <3>2 DEF EndsAt
    <3>4. sent[m] \in Nat
      BY <1>1, <3>2, ElementOfSeq
    <3> QED
      BY <3>3, <3>4, FramingAssumption
  <2>3. d = m
    BY <1>1, <1>2, <2>2
  <2> QED
    BY <1>1, <2>3, EqualSeqs
<1> QED
  BY <1>3, <1>4, <1>5 DEF MessagesInOrder

\* handle_read_completion and net_recv_message deliver what was sent, whole,
\* in order and once, however the stream is cut into pieces.
THEOREM FramingCorrect == framing_init /\ [][FramingNext]_fvars => []MessagesInOrder
<1>1. FramingInv /\ [FramingNext]_fvars => FramingInv'
  BY NextFraming
<1>2. FramingInv => MessagesInOrder
  BY FramingFollows
<1> QED
  BY <1>1, <1>2, InitFraming, PTL
-----------------------------------------------------------------------------
(* Slotted pages. *)

Ent == [offset : Int, length : Nat]
Stored == Records \cup {<<>>}

\* The bytes b hold the record w where the slot x says.
Holds(b, x, w) == /\ w \in Stored /\ Len(w) = x.length
                  /\ \A k \in 1 .. x.length : b[x.offset + k - 1] = w[k]
Inside(x, e) == x.length > 0 => x.offset >= e /\ x.offset + x.length <= PAGE_SIZE_SE
NoOverlap(x, y) == x.length > 0 /\ y.length > 0
               => x.offset + x.length <= y.offset \/ y.offset + y.length <= x.offset

DirectoryFits(n, e) == HeaderSize + (n + 1) * SlotSize <= e
PageOk(s, e, b, w) ==
  /\ s \in Seq(Ent) /\ w \in Seq(Stored) /\ Len(w) = Len(s)
  /\ e \in Nat /\ e <= PAGE_SIZE_SE /\ DirectoryFits(Len(s), e)
  /\ \A i \in 1 .. Len(s) : Inside(s[i], e) /\ Holds(b, s[i], w[i])
  /\ \A i, j \in 1 .. Len(s) : i # j => NoOverlap(s[i], s[j])

LEMMA RecordIs ==
  ASSUME NEW w \in Stored
  PROVE  /\ Len(w) \in Nat /\ w = [k \in 1 .. Len(w) |-> w[k]]
         /\ w \in Records <=> w # <<>> /\ Len(w) > 0
         /\ w \in Records => Len(w) > 0
         /\ Len(w) = 0 => w = <<>>
<1>1. CASE w = <<>>
  <2>1. ASSUME <<>> \in Records PROVE FALSE
    <3>1. PICK v \in RecVal, n \in 1 .. MaxLen : <<>> = Rec(v, n)
      BY <2>1 DEF Records
    <3>2. n \in Nat /\ n > 0 /\ DOMAIN Rec(v, n) = 1 .. n /\ 1 \in 1 .. n
      BY PageAssumption DEF Rec
    <3>3. DOMAIN <<>> = {}
      OBVIOUS
    <3> QED
      BY <3>1, <3>2, <3>3
  <2> QED
    BY <1>1, <2>1
<1>2. CASE w \in Records
  <2>1. PICK v \in RecVal, n \in 1 .. MaxLen : w = Rec(v, n)
    BY <1>2 DEF Records
  <2>2. n \in Nat /\ n > 0 /\ w = [k \in 1 .. n |-> <<v, k>>]
    BY <2>1, PageAssumption DEF Rec
  <2> DEFINE S == {<<v, k>> : k \in 1 .. n}
  <2>3. w \in Seq(S)
    BY <2>2, IsASeq
  <2>4. DOMAIN w = 1 .. n
    BY <2>2
  <2>5. Len(w) = n
    BY <2>2, <2>3, <2>4, LenProperties
  <2>6. w # <<>>
    <3>1. Len(<<>>) = 0
      OBVIOUS
    <3> QED
      BY <2>2, <2>5, <3>1
  <2>7. w = [k \in 1 .. n |-> w[k]]
    BY <2>2
  <2> QED
    BY <1>2, <2>2, <2>5, <2>6, <2>7
<1> QED
  BY <1>1, <1>2 DEF Stored

LEMMA SlotsAre ==
  ASSUME NEW s \in Seq(Ent)
  PROVE  \A i \in 1 .. Len(s) : s[i].offset \in Int /\ s[i].length \in Nat
<1>1. \A i \in 1 .. Len(s) : s[i] \in Ent
  BY ElementOfSeq
<1> QED
  BY <1>1 DEF Ent

LEMMA ReadIs ==
  ASSUME NEW s, NEW e, NEW b, NEW w, PageOk(s, e, b, w), NEW i \in 1 .. Len(s)
  PROVE  Read(b, s[i].offset, s[i].length) = w[i]
<1> DEFINE x == s[i]
           v == w[i]
<1>1. /\ x \in Ent /\ v \in Stored /\ Inside(x, e) /\ Holds(b, x, v)
      /\ e \in Nat
  BY ElementOfSeq DEF PageOk
<1> HIDE DEF x, v
<1>2. Len(v) = x.length /\ x.length \in Nat /\ x.offset \in Int
      /\ v = [k \in 1 .. x.length |-> v[k]]
  BY <1>1, RecordIs DEF Holds, Ent
<1>3. ASSUME NEW k \in 1 .. x.length
      PROVE  x.offset + k - 1 \in Pos /\ b[x.offset + k - 1] = v[k]
  <2>1. x.offset >= e /\ x.offset + x.length <= PAGE_SIZE_SE
    BY <1>1, <1>2 DEF Inside
  <2>2. x.offset + k - 1 \in 0 .. PAGE_SIZE_SE - 1
    BY SMTT(30), <1>1, <1>2, <2>1, PageAssumption
  <2> QED
    BY <1>1, <2>2 DEF Pos, Holds
<1>4. Read(b, x.offset, x.length) = [k \in 1 .. x.length |-> v[k]]
  BY <1>3 DEF Read
<1> QED
  BY <1>2, <1>4 DEF x, v

LEMMA InitPage == slotted_page_init => PageOk(slots, end, bytes, wrote)
<1> SUFFICES ASSUME slotted_page_init PROVE PageOk(slots, end, bytes, wrote)
  OBVIOUS
<1>1. slots = <<>> /\ wrote = <<>> /\ end = PAGE_SIZE_SE /\ Len(<<>>) = 0 /\ 1 .. 0 = {}
      /\ <<>> \in Seq(Ent) /\ <<>> \in Seq(Stored)
  BY DEF slotted_page_init
<1>2. (0 + 1) * SlotSize = SlotSize
  BY PageAssumption
<1>3. DirectoryFits(0, PAGE_SIZE_SE)
  BY <1>2, PageAssumption DEF DirectoryFits
<1> QED
  BY <1>1, <1>3, PageAssumption DEF PageOk

\* A slot that is emptied.
LEMMA EmptiedOk ==
  ASSUME NEW s, NEW e, NEW b, NEW w, PageOk(s, e, b, w), NEW i \in 1 .. Len(s)
  PROVE  PageOk([s EXCEPT ![i].length = 0], e, b, [w EXCEPT ![i] = <<>>])
<1> DEFINE n == Len(s)
           x == [s[i] EXCEPT !.length = 0]
           t == [s EXCEPT ![i] = x]
           u == [w EXCEPT ![i] = <<>>]
<1>1. s \in Seq(Ent) /\ w \in Seq(Stored) /\ Len(w) = n /\ n \in Nat
  BY LenProperties DEF PageOk
<1>2. s[i] \in Ent /\ <<>> \in Stored
  BY <1>1, ElementOfSeq DEF Stored
<1>3. x \in Ent /\ x.length = 0
  BY <1>2 DEF Ent
<1> HIDE DEF x
<1>4. /\ t \in Seq(Ent) /\ Len(t) = n /\ t[i] = x /\ \A j \in 1 .. n : j # i => t[j] = s[j]
      /\ u \in Seq(Stored) /\ Len(u) = n /\ u[i] = <<>> /\ \A j \in 1 .. n : j # i => u[j] = w[j]
  BY <1>1, <1>2, <1>3, ExceptSeq
<1> HIDE DEF t, u
<1>5. Inside(x, e) /\ Holds(b, x, <<>>) /\ \A y : NoOverlap(x, y) /\ NoOverlap(y, x)
  <2>1. Len(<<>>) = 0 /\ 1 .. 0 = {}
    OBVIOUS
  <2> QED
    BY <1>2, <1>3, <2>1 DEF Inside, Holds, NoOverlap
<1>6. ASSUME NEW j \in 1 .. n PROVE Inside(t[j], e) /\ Holds(b, t[j], u[j])
  BY <1>4, <1>5 DEF PageOk
<1>7. ASSUME NEW j \in 1 .. n, NEW k \in 1 .. n, j # k PROVE NoOverlap(t[j], t[k])
  BY <1>4, <1>5, <1>7 DEF PageOk
<1>8. PageOk(t, e, b, u)
  BY <1>1, <1>4, <1>6, <1>7 DEF PageOk
<1> QED
  BY <1>8 DEF t, u, x

\* A record that is written where no other record lies: below all of them, or
\* over the one that was in its slot.
Stores(s, w, t, u, i, x, rec) ==
  /\ t \in Seq(Ent) /\ u \in Seq(Stored) /\ Len(u) = Len(t)
  /\ i \in 1 .. Len(t) /\ t[i] = x /\ u[i] = rec
  /\ x \in Ent /\ x.length = Len(rec) /\ x.offset + x.length <= PAGE_SIZE_SE
  /\ \A j \in 1 .. Len(t) : j # i => j \in 1 .. Len(s) /\ t[j] = s[j] /\ u[j] = w[j]
                                     /\ NoOverlap(x, s[j])

LEMMA WrittenOk ==
  ASSUME NEW s, NEW e, NEW b, NEW w, PageOk(s, e, b, w), NEW rec \in Records,
         NEW t, NEW f, NEW u, NEW i, NEW x, Stores(s, w, t, u, i, x, rec),
         f \in Nat, f <= e, DirectoryFits(Len(t), f), x.offset >= f
  PROVE  PageOk(t, f, Write(b, x.offset, rec), u)
<1> DEFINE m == Len(t)
           c == Write(b, x.offset, rec)
<1>0. /\ t \in Seq(Ent) /\ u \in Seq(Stored) /\ Len(u) = m /\ i \in 1 .. m
      /\ t[i] = x /\ u[i] = rec /\ x \in Ent /\ x.length = Len(rec)
      /\ x.offset + x.length <= PAGE_SIZE_SE
      /\ \A j \in 1 .. m : j # i => j \in 1 .. Len(s) /\ t[j] = s[j] /\ u[j] = w[j]
                                    /\ NoOverlap(x, s[j])
  BY DEF Stores
<1>1. /\ Len(rec) \in Nat /\ Len(rec) > 0 /\ rec \in Stored /\ x.offset \in Int /\ x.length \in Nat
      /\ e \in Nat /\ e <= PAGE_SIZE_SE /\ f <= PAGE_SIZE_SE
  <2>1. rec \in Stored
    BY DEF Stored
  <2>2. Len(rec) \in Nat /\ Len(rec) > 0
    BY <2>1, RecordIs
  <2> QED
    BY <1>0, <2>1, <2>2, PageAssumption DEF PageOk, Ent
<1>2. ASSUME NEW p \in Pos
      PROVE  /\ p \in x.offset .. x.offset + x.length - 1 => c[p] = rec[p - x.offset + 1]
             /\ p \notin x.offset .. x.offset + x.length - 1 => c[p] = b[p]
  BY <1>0 DEF Write
<1>3. Holds(c, x, rec)
  <2>1. ASSUME NEW k \in 1 .. x.length PROVE c[x.offset + k - 1] = rec[k]
    <3> DEFINE p == x.offset + k - 1
    <3>1. p \in Pos /\ p \in x.offset .. x.offset + x.length - 1 /\ p - x.offset + 1 = k
      <4>1. k \in Nat /\ k >= 1 /\ k <= x.length
        BY <1>1
      <4>2. x.offset \in Nat /\ x.length \in Nat /\ x.offset + x.length <= PAGE_SIZE_SE
        BY <1>0, <1>1
      <4> QED
        BY <4>1, <4>2, PageAssumption DEF Pos
    <3> HIDE DEF p, c
    <3>2. c[p] = rec[k]
      BY <1>2, <3>1
    <3> QED
      BY <3>2 DEF p
  <2> QED
    BY <1>0, <1>1, <2>1 DEF Holds
<1>4. ASSUME NEW j \in 1 .. m, j # i
      PROVE  Inside(t[j], f) /\ Holds(c, t[j], u[j])
  <2> DEFINE y == s[j]
             v == w[j]
  <2>1. /\ j \in 1 .. Len(s) /\ t[j] = y /\ u[j] = v /\ NoOverlap(x, y)
        /\ Inside(y, e) /\ Holds(b, y, v)
    BY <1>0, <1>4 DEF PageOk
  <2>2. y \in Ent
    BY <2>1, ElementOfSeq DEF PageOk
  <2> HIDE DEF y, v
  <2>3. y.offset \in Int /\ y.length \in Nat
    BY <2>2 DEF Ent
  <2>4. Inside(y, f)
    BY <1>1, <2>1, <2>3 DEF Inside
  <2>5. ASSUME NEW k \in 1 .. y.length PROVE c[y.offset + k - 1] = v[k]
    <3> DEFINE p == y.offset + k - 1
    <3>1. p \in Pos /\ p \notin x.offset .. x.offset + x.length - 1
      <4>1. y.length > 0
        BY <2>3
      <4>2. y.offset >= e /\ y.offset + y.length <= PAGE_SIZE_SE
        BY <2>1, <4>1 DEF Inside
      <4>3. x.offset + x.length <= y.offset \/ y.offset + y.length <= x.offset
        BY <1>0, <1>1, <2>1, <4>1 DEF NoOverlap
      <4>4. p \in 0 .. PAGE_SIZE_SE - 1
        BY SMTT(30), <1>1, <2>3, <4>2, PageAssumption
      <4>5. ~ (p >= x.offset /\ p <= x.offset + x.length - 1)
        <5>1. x.offset \in Int /\ x.length \in Nat /\ k \in Nat /\ k >= 1 /\ k <= y.length
          BY <1>1, <2>3
        <5>2. CASE x.offset + x.length <= y.offset
          BY <2>3, <5>1, <5>2
        <5>3. CASE y.offset + y.length <= x.offset
          BY SMTT(30), <2>3, <5>1, <5>3
        <5> QED
          BY <4>3, <5>2, <5>3
      <4> QED
        BY <4>4, <4>5 DEF Pos
    <3> HIDE DEF p, c
    <3>2. c[p] = b[p]
      BY <1>2, <3>1
    <3>3. b[p] = v[k]
      BY <2>1 DEF Holds, p
    <3> QED
      BY <3>2, <3>3 DEF p
  <2>6. Holds(c, y, v)
    BY <2>1, <2>5 DEF Holds
  <2> QED
    BY <2>1, <2>4, <2>6
<1>5. Inside(x, f)
  BY <1>0, <1>1 DEF Inside
<1>6. ASSUME NEW j \in 1 .. m PROVE Inside(t[j], f) /\ Holds(c, t[j], u[j])
  <2>1. CASE j = i
    BY <1>0, <1>3, <1>5, <2>1
  <2>2. CASE j # i
    BY <1>4, <2>2
  <2> QED
    BY <2>1, <2>2
<1>7. ASSUME NEW j \in 1 .. m, NEW k \in 1 .. m, j # k PROVE NoOverlap(t[j], t[k])
  <2>1. CASE j = i
    BY <1>0, <1>7, <2>1
  <2>2. CASE k = i
    <3>1. NoOverlap(x, s[j]) /\ t[j] = s[j]
      BY <1>0, <1>7, <2>2
    <3> QED
      BY <1>0, <2>2, <3>1 DEF NoOverlap
  <2>3. CASE j # i /\ k # i
    BY <1>0, <1>7, <2>3 DEF PageOk
  <2> QED
    BY <2>1, <2>2, <2>3
<1> HIDE DEF c
<1> QED
  BY <1>0, <1>1, <1>6, <1>7 DEF PageOk, c

\* Disjoint sets have as many elements together as their numbers add up to.
LEMMA DisjointAddUp ==
  ASSUME NEW S, IsFiniteSet(S), NEW f, NEW X,
         \A i \in S : IsFiniteSet(X[i]) /\ Cardinality(X[i]) = f[i],
         \A i, j \in S : i # j => X[i] \cap X[j] = {}
  PROVE  /\ IsFiniteSet(UNION {X[i] : i \in S})
         /\ SumFunctionOnSet(f, S) = Cardinality(UNION {X[i] : i \in S})
<1> DEFINE All(T) == UNION {X[i] : i \in T}
           Good == {T \in SUBSET S : /\ IsFiniteSet(All(T))
                                     /\ SumFunctionOnSet(f, T) = Cardinality(All(T))}
<1>0. \A i \in S : f[i] \in Int
  BY FS_CardinalityType
<1>1. ASSUME NEW T \in SUBSET S, \A x \in T : T \ {x} \in Good
      PROVE  T \in Good
  <2>1. CASE T = {}
    <3>1. All(T) = {}
      BY <2>1
    <3> QED
      BY <2>1, <3>1, SumOfNone, FS_EmptySet
  <2>2. CASE T # {}
    <3>1. PICK x \in T : TRUE
      BY <2>2
    <3> DEFINE R == T \ {x}
               A == All(R)
               B == X[x]
    <3>2. IsFiniteSet(A) /\ SumFunctionOnSet(f, R) = Cardinality(A)
      BY <1>1, <3>1
    <3>3. IsFiniteSet(B) /\ Cardinality(B) = f[x]
      BY <3>1
    <3>4. All(T) = A \cup B
      BY <3>1
    <3>5. A \cap B = {}
      BY <3>1
    <3>6. SumFunctionOnSet(f, T) = f[x] + SumFunctionOnSet(f, R)
      <4>1. IsFiniteSet(T) /\ \A y \in T : f[y] \in Int
        BY <1>0, FS_Subset
      <4> QED
        BY <3>1, <4>1, SumTakesOut
    <3> HIDE DEF A, B, R, All
    <3>7. IsFiniteSet(A \cup B) /\ Cardinality(A \cup B) = Cardinality(A) + Cardinality(B)
      <4>1. Cardinality({}) = 0 /\ Cardinality(A) \in Nat /\ Cardinality(B) \in Nat
        BY <3>2, <3>3, FS_EmptySet, FS_CardinalityType
      <4>2. /\ IsFiniteSet(A \cup B)
            /\ Cardinality(A \cup B) = Cardinality(A) + Cardinality(B) - Cardinality(A \cap B)
        BY <3>2, <3>3, FS_Union
      <4>3. Cardinality(A \cap B) = 0
        BY <3>5, <4>1
      <4> QED
        BY <4>1, <4>2, <4>3
    <3>8. Cardinality(A) \in Nat /\ Cardinality(B) \in Nat
      BY <3>2, <3>3, FS_CardinalityType
    <3>9. SumFunctionOnSet(f, T) = Cardinality(A \cup B)
      BY <3>2, <3>3, <3>6, <3>7, <3>8
    <3> QED
      BY <3>4, <3>7, <3>9
  <2> QED
    BY <2>1, <2>2
<1> HIDE DEF Good
<1>2. S \in Good
  BY <1>1, SubsetInduction
<1> QED
  BY <1>2 DEF Good

Lengths(s) == [j \in 1 .. Len(s) |-> s[j].length]

\* The records from a slot to the last are as long as the slot's and those
\* after it.
LEMMA SumsFrom ==
  ASSUME NEW s \in Seq(Ent)
  PROVE  /\ SumLen(s, Len(s) + 1) = 0
         /\ \A i \in 1 .. Len(s) : SumLen(s, i) = s[i].length + SumLen(s, i + 1)
         /\ \A i \in 1 .. Len(s) + 1 : SumLen(s, i) \in Int
<1> DEFINE n == Len(s)
           f == Lengths(s)
<1>1. n \in Nat
  BY LenProperties
<1>2. \A i \in 1 .. n : f[i] = s[i].length /\ f[i] \in Nat
  BY SlotsAre DEF Lengths
<1>3. \A i : SumLen(s, i) = SumFunctionOnSet(f, i .. n)
  BY DEF SumLen, Lengths
<1> HIDE DEF f
<1>4. SumLen(s, n + 1) = 0
  <2>1. n + 1 .. n = {}
    BY <1>1
  <2> QED
    BY <1>3, <2>1, SumOfNone
<1>5. ASSUME NEW i \in 1 .. n
      PROVE  SumLen(s, i) = s[i].length + SumLen(s, i + 1)
  <2> DEFINE T == i .. n
  <2>1. IsFiniteSet(T)
    BY <1>1, FS_Interval
  <2>2. T \ {i} = i + 1 .. n /\ i \in T /\ \A y \in T : f[y] \in Int
    BY <1>1, <1>2
  <2> HIDE DEF T
  <2>3. SumFunctionOnSet(f, T) = f[i] + SumFunctionOnSet(f, T \ {i})
    BY <2>1, <2>2, SumTakesOut
  <2> QED
    BY <1>2, <1>3, <2>2, <2>3 DEF T
<1>6. ASSUME NEW i \in 1 .. n + 1 PROVE SumLen(s, i) \in Int
  <2> DEFINE T == i .. n
  <2>1. IsFiniteSet(T)
    BY <1>1, FS_Interval
  <2>2. \A y \in T : f[y] \in Int
    BY <1>1, <1>2
  <2> HIDE DEF T
  <2>3. SumFunctionOnSet(f, T) \in Int
    BY <2>1, <2>2, SumIsInt
  <2> QED
    BY <1>3, <2>3 DEF T
<1> QED
  BY <1>4, <1>5, <1>6

LEMMA SumsFall ==
  ASSUME NEW s \in Seq(Ent), NEW i \in 1 .. Len(s) + 1, NEW j \in i .. Len(s) + 1
  PROVE  SumLen(s, j) <= SumLen(s, i)
<1> DEFINE n == Len(s)
           bad == {k \in i .. n + 1 : ~ (SumLen(s, k) <= SumLen(s, i))}
<1>1. n \in Nat
  BY LenProperties
<1> SUFFICES ASSUME bad # {} PROVE FALSE
  OBVIOUS
<1>2. bad \subseteq Nat
  BY <1>1
<1>3. PICK k \in bad : \A l \in bad : k <= l
  <2> HIDE DEF bad
  <2> QED
    BY <1>2, LeastNumber
<1>4. SumLen(s, i) \in Int /\ SumLen(s, k) \in Int
  BY <1>1, SumsFrom
<1>5. k # i
  BY <1>3, <1>4
<1>6. k - 1 \in i .. n + 1 /\ k - 1 \in 1 .. n /\ k - 1 + 1 = k /\ ~ (k <= k - 1)
  BY <1>1, <1>3, <1>5
<1>7. SumLen(s, k - 1) <= SumLen(s, i)
  BY <1>3, <1>6
<1>8. SumLen(s, k - 1) = s[k - 1].length + SumLen(s, k)
  BY <1>6, SumsFrom
<1>9. s[k - 1].length \in Nat
  BY <1>6, SlotsAre
<1> QED
  BY <1>3, <1>4, <1>7, <1>8, <1>9

\* Records that do not overlap fit above the lowest of them.
LEMMA RecordsFit ==
  ASSUME NEW s, NEW e, NEW b, NEW w, PageOk(s, e, b, w)
  PROVE  SumLen(s, 1) <= PAGE_SIZE_SE - e
<1> DEFINE n == Len(s)
           f == Lengths(s)
           X == [i \in 1 .. n |-> s[i].offset .. s[i].offset + s[i].length - 1]
           S == 1 .. n
           A == UNION {X[i] : i \in S}
           T == e .. PAGE_SIZE_SE - 1
<1>1. /\ s \in Seq(Ent) /\ n \in Nat /\ e \in Nat /\ e <= PAGE_SIZE_SE
      /\ \A i \in S : s[i].offset \in Int /\ s[i].length \in Nat
  <2>1. s \in Seq(Ent) /\ n \in Nat /\ e \in Nat /\ e <= PAGE_SIZE_SE
    BY LenProperties DEF PageOk
  <2> QED
    BY <2>1, SlotsAre
<1>2. IsFiniteSet(S)
  <2>1. 1 \in Int /\ n \in Int
    BY <1>1
  <2> HIDE DEF n
  <2>2. IsFiniteSet(1 .. n)
    BY <2>1, FS_Interval
  <2> QED
    BY <2>2
<1>3. ASSUME NEW i \in S
      PROVE  /\ IsFiniteSet(X[i]) /\ Cardinality(X[i]) = f[i] /\ X[i] \subseteq T
  <2> DEFINE a == s[i].offset
             l == s[i].length
             c == a + l - 1
  <2>1. a \in Int /\ l \in Nat /\ c \in Int /\ X[i] = a .. c /\ f[i] = l
    BY <1>1 DEF Lengths
  <2>2. l > 0 => a >= e /\ a + l <= PAGE_SIZE_SE
    BY DEF PageOk, Inside
  <2> HIDE DEF a, l, X, f
  <2>3. c = a + l - 1
    OBVIOUS
  <2> HIDE DEF c
  <2>4. IsFiniteSet(a .. c) /\ Cardinality(a .. c) = IF a > c THEN 0 ELSE c - a + 1
    BY <2>1, FS_Interval
  <2>5. (IF a > c THEN 0 ELSE c - a + 1) = l
    BY <2>1, <2>3
  <2>6. a .. c \subseteq T
    BY <1>1, <2>1, <2>2, <2>3, PageAssumption
  <2> QED
    BY <2>1, <2>4, <2>5, <2>6
<1>4. ASSUME NEW i \in S, NEW j \in S, i # j PROVE X[i] \cap X[j] = {}
  <2> DEFINE x == s[i]
             y == s[j]
  <2>1. NoOverlap(x, y) /\ x.offset \in Int /\ x.length \in Nat /\ y.offset \in Int /\ y.length \in Nat
    BY <1>1, <1>4 DEF PageOk
  <2>2. /\ X[i] = x.offset .. x.offset + x.length - 1
        /\ X[j] = y.offset .. y.offset + y.length - 1
    OBVIOUS
  <2> HIDE DEF x, y, X
  <2> SUFFICES ASSUME NEW p \in X[i], p \in X[j] PROVE FALSE
    OBVIOUS
  <2>3. p >= x.offset /\ p <= x.offset + x.length - 1 /\ p >= y.offset /\ p <= y.offset + y.length - 1
        /\ p \in Int
    BY <2>1, <2>2
  <2>4. x.offset \in Int /\ x.length \in Nat /\ y.offset \in Int /\ y.length \in Nat
    BY <2>1
  <2>5. x.length > 0 /\ y.length > 0
    <3>1. x.offset <= x.offset + x.length - 1 /\ y.offset <= y.offset + y.length - 1
      BY SMTT(30), <2>4, <2>3
    <3> QED
      BY SMTT(30), <2>4, <3>1
  <2>6. x.offset + x.length <= y.offset \/ y.offset + y.length <= x.offset
    BY <2>1, <2>5 DEF NoOverlap
  <2>7. CASE x.offset + x.length <= y.offset
    BY <2>4, <2>3, <2>7
  <2>8. CASE y.offset + y.length <= x.offset
    BY <2>4, <2>3, <2>8
  <2> QED
    BY <2>6, <2>7, <2>8
<1> HIDE DEF X, f
<1>5. IsFiniteSet(A) /\ SumFunctionOnSet(f, S) = Cardinality(A)
  <2>1. \A i \in S : IsFiniteSet(X[i]) /\ Cardinality(X[i]) = f[i]
    BY <1>3
  <2>2. \A i, j \in S : i # j => X[i] \cap X[j] = {}
    BY <1>4
  <2> HIDE DEF S
  <2> QED
    BY SMTT(30), <1>2, <2>1, <2>2, DisjointAddUp
<1>6. IsFiniteSet(T) /\ Cardinality(T) = PAGE_SIZE_SE - e
  <2> DEFINE c == PAGE_SIZE_SE - 1
  <2>1. c \in Int /\ e \in Int
    BY <1>1, PageAssumption
  <2>2. c = PAGE_SIZE_SE - 1
    OBVIOUS
  <2> HIDE DEF c
  <2>3. IsFiniteSet(e .. c) /\ Cardinality(e .. c) = IF e > c THEN 0 ELSE c - e + 1
    BY <2>1, FS_Interval
  <2>4. (IF e > c THEN 0 ELSE c - e + 1) = PAGE_SIZE_SE - e
    BY <1>1, <2>2, PageAssumption
  <2> QED
    BY <2>3, <2>4 DEF c
<1>7. A \subseteq T
  BY <1>3
<1> HIDE DEF A, T
<1>8. Cardinality(A) <= Cardinality(T)
  BY <1>6, <1>7, FS_Subset
<1>9. SumLen(s, 1) = SumFunctionOnSet(f, S)
  BY DEF SumLen, Lengths, f
<1> QED
  BY <1>5, <1>6, <1>8, <1>9

LEMMA FreeSpaceIs ==
  ASSUME NEW n \in Nat, NEW e \in Nat, e <= PAGE_SIZE_SE, DirectoryFits(n, e)
  PROVE  slotted_page_free_space(n, e) = e - HeaderSize - (n + 1) * SlotSize
<1> DEFINE q == n * SlotSize
           a == e - (HeaderSize + q) - SlotSize
<1>1. q \in Nat /\ (n + 1) * SlotSize = q + SlotSize
  BY PageAssumption
<1> HIDE DEF q
<1>2. a \in Nat /\ a < SizeModulus /\ e > HeaderSize + q
  BY <1>1, PageAssumption DEF DirectoryFits
<1>3. a = e - HeaderSize - (n + 1) * SlotSize
  BY <1>1, PageAssumption
<1>4. slotted_page_free_space(n, e) = a % SizeModulus
  BY <1>1, <1>2, PageAssumption DEF slotted_page_free_space, q
<1> HIDE DEF a
<1>5. a % SizeModulus = a
  <2>1. SizeModulus \in Nat \ {0} /\ a \in 0 .. SizeModulus - 1 /\ SizeModulus * 0 + a = a
    BY <1>2, PageAssumption
  <2>2. (SizeModulus * 0 + a) % SizeModulus = a
    BY <2>1, ModUnique
  <2> QED
    BY <2>1, <2>2
<1> QED
  BY <1>3, <1>4, <1>5

\* Where compaction puts a slot's record, and which bytes it moves to a place.
NewPlace(s, i) == PAGE_SIZE_SE - SumLen(s, i)
Moved(s, p) == {i \in 1 .. Len(s) : s[i].length > 0 /\ p \in NewPlace(s, i) .. NewPlace(s, i) + s[i].length - 1}
Origins(s, p) == {s[i].offset + p - NewPlace(s, i) : i \in Moved(s, p)} \cap Pos
MovedSlot(s, i) == IF s[i].length > 0 THEN [s[i] EXCEPT !.offset = NewPlace(s, i)] ELSE s[i]

LEMMA CompactIs ==
  ASSUME NEW s \in Seq(Ent), s # <<>>, NEW e, NEW b
  PROVE  /\ slotted_page_compact(s, e, b).slots = [i \in 1 .. Len(s) |-> MovedSlot(s, i)]
         /\ slotted_page_compact(s, e, b).end = NewPlace(s, 1)
         /\ \A p \in Pos : \A q : Origins(s, p) = {q} => slotted_page_compact(s, e, b).bytes[p] = b[q]
<1> DEFINE n == Len(s)
           off == [i \in 1 .. n |-> PAGE_SIZE_SE - SumLen(s, i)]
           moved == {i \in 1 .. n : s[i].length > 0}
           From(p) == {s[i].offset + p - off[i] :
                         i \in {j \in moved : p \in off[j] .. off[j] + s[j].length - 1}} \cap Pos
<1>1. n \in Nat /\ 1 \in 1 .. n
  BY LenProperties, EmptySeq
<1>2. \A i \in 1 .. n : off[i] = NewPlace(s, i)
  BY DEF NewPlace
<1>3. slotted_page_compact(s, e, b) =
        [slots |-> [i \in 1 .. n |-> IF i \in moved THEN [s[i] EXCEPT !.offset = off[i]] ELSE s[i]],
         end   |-> off[1],
         bytes |-> [p \in Pos |-> IF From(p) = {} THEN b[p] ELSE b[Pick(From(p))]]]
  BY DEF slotted_page_compact, Pick
<1> HIDE DEF off
<1>4. [i \in 1 .. n |-> IF i \in moved THEN [s[i] EXCEPT !.offset = off[i]] ELSE s[i]]
        = [i \in 1 .. n |-> MovedSlot(s, i)]
  BY <1>2 DEF MovedSlot
<1>5. \A p : From(p) = Origins(s, p)
  <2> SUFFICES ASSUME NEW p PROVE From(p) = Origins(s, p)
    OBVIOUS
  <2>1. {j \in moved : p \in off[j] .. off[j] + s[j].length - 1} = Moved(s, p)
    BY <1>2 DEF Moved
  <2>2. \A i \in Moved(s, p) : off[i] = NewPlace(s, i)
    BY <1>2 DEF Moved
  <2>3. {s[i].offset + p - off[i] : i \in Moved(s, p)} = {s[i].offset + p - NewPlace(s, i) : i \in Moved(s, p)}
    BY <2>2
  <2> QED
    BY <2>1, <2>3 DEF Origins
<1> HIDE DEF From, moved
<1>6. off[1] = NewPlace(s, 1)
  BY <1>1, <1>2
<1>7. ASSUME NEW p \in Pos, NEW q, Origins(s, p) = {q}
      PROVE  slotted_page_compact(s, e, b).bytes[p] = b[q]
  <2>1. From(p) = {q} /\ From(p) # {}
    BY <1>5, <1>7
  <2>2. Pick(From(p)) = q
    BY <2>1, PickIn
  <2>3. slotted_page_compact(s, e, b).bytes[p] = b[Pick(From(p))]
    <3> DEFINE A == [i \in 1 .. n |-> IF i \in moved THEN [s[i] EXCEPT !.offset = off[i]] ELSE s[i]]
               C == [x \in Pos |-> IF From(x) = {} THEN b[x] ELSE b[Pick(From(x))]]
    <3>1. slotted_page_compact(s, e, b) = [slots |-> A, end |-> off[1], bytes |-> C]
      BY <1>3
    <3>2. C[p] = b[Pick(From(p))]
      BY <2>1
    <3> HIDE DEF A, C
    <3>3. slotted_page_compact(s, e, b).bytes = C
      BY <3>1
    <3> QED
      BY <3>2, <3>3
  <2> QED
    BY <2>2, <2>3
<1>8. /\ slotted_page_compact(s, e, b).slots = [i \in 1 .. n |-> MovedSlot(s, i)]
      /\ slotted_page_compact(s, e, b).end = NewPlace(s, 1)
  BY <1>3, <1>4, <1>6
<1> QED
  BY <1>7, <1>8

\* Compaction places the records one after the other up to the end of the page.
LEMMA PlacesApart ==
  ASSUME NEW s \in Seq(Ent), NEW i \in 1 .. Len(s), NEW j \in 1 .. Len(s), i < j
  PROVE  NewPlace(s, i) + s[i].length <= NewPlace(s, j)
<1>1. Len(s) \in Nat
  BY LenProperties
<1>2. i + 1 \in 1 .. Len(s) + 1 /\ j \in i + 1 .. Len(s) + 1 /\ i \in 1 .. Len(s) + 1 /\ j \in 1 .. Len(s) + 1
  BY <1>1
<1>3. SumLen(s, j) <= SumLen(s, i + 1)
  BY <1>2, SumsFall
<1>4. /\ SumLen(s, i) = s[i].length + SumLen(s, i + 1) /\ s[i].length \in Nat
      /\ SumLen(s, i) \in Int /\ SumLen(s, i + 1) \in Int /\ SumLen(s, j) \in Int
  BY <1>2, SumsFrom, SlotsAre
<1> QED
  BY <1>3, <1>4, PageAssumption DEF NewPlace

LEMMA PlacesInside ==
  ASSUME NEW s \in Seq(Ent), NEW i \in 1 .. Len(s)
  PROVE  /\ NewPlace(s, i) \in Int /\ NewPlace(s, 1) \in Int
         /\ NewPlace(s, 1) <= NewPlace(s, i)
         /\ NewPlace(s, i) + s[i].length <= PAGE_SIZE_SE
<1>1. Len(s) \in Nat
  BY LenProperties
<1>2. /\ i + 1 \in 1 .. Len(s) + 1 /\ i \in 1 .. Len(s) + 1 /\ 1 \in 1 .. Len(s) + 1
      /\ Len(s) + 1 \in i + 1 .. Len(s) + 1
  BY <1>1
<1>3. SumLen(s, i) <= SumLen(s, 1) /\ SumLen(s, Len(s) + 1) <= SumLen(s, i + 1)
  BY <1>2, SumsFall
<1>4. /\ SumLen(s, i) = s[i].length + SumLen(s, i + 1) /\ s[i].length \in Nat
      /\ SumLen(s, i) \in Int /\ SumLen(s, i + 1) \in Int /\ SumLen(s, 1) \in Int
      /\ SumLen(s, Len(s) + 1) = 0
  BY <1>2, SumsFrom, SlotsAre
<1> QED
  BY <1>3, <1>4, PageAssumption DEF NewPlace

LEMMA OneOrigin ==
  ASSUME NEW s \in Seq(Ent), NEW i \in 1 .. Len(s), NEW k \in 1 .. s[i].length, NEW p,
         p = NewPlace(s, i) + k - 1, s[i].offset + k - 1 \in Pos
  PROVE  Origins(s, p) = {s[i].offset + k - 1}
<1>1. \A j \in 1 .. Len(s) : NewPlace(s, j) \in Int /\ s[j].length \in Nat /\ s[j].offset \in Int
  BY PlacesInside, SlotsAre
<1>2. p \in NewPlace(s, i) .. NewPlace(s, i) + s[i].length - 1 /\ s[i].length > 0 /\ p \in Int
  BY <1>1
<1>3. i \in Moved(s, p)
  BY <1>2 DEF Moved
<1>4. ASSUME NEW j \in Moved(s, p), j # i PROVE FALSE
  <2>1. /\ j \in 1 .. Len(s) /\ p >= NewPlace(s, j) /\ p <= NewPlace(s, j) + s[j].length - 1
    BY <1>1 DEF Moved
  <2>2. p >= NewPlace(s, i) /\ p <= NewPlace(s, i) + s[i].length - 1
    BY <1>1, <1>2
  <2>3. CASE i < j
    <3>1. NewPlace(s, i) + s[i].length <= NewPlace(s, j)
      BY <2>1, <2>3, PlacesApart
    <3> QED
      BY <1>1, <1>2, <2>1, <2>2, <3>1
  <2>4. CASE j < i
    <3>1. NewPlace(s, j) + s[j].length <= NewPlace(s, i)
      BY <2>1, <2>4, PlacesApart
    <3> QED
      BY <1>1, <1>2, <2>1, <2>2, <3>1
  <2>5. i < j \/ j < i
    <3>1. Len(s) \in Nat
      BY LenProperties
    <3> QED
      BY <1>4, <2>1, <3>1
  <2> QED
    BY <2>3, <2>4, <2>5
<1>5. Moved(s, p) = {i}
  BY <1>3, <1>4
<1>6. s[i].offset + p - NewPlace(s, i) = s[i].offset + k - 1
  BY <1>1
<1> QED
  BY <1>5, <1>6 DEF Origins

LEMMA CompactOk ==
  ASSUME NEW s, NEW e, NEW b, NEW w, PageOk(s, e, b, w)
  PROVE  /\ PageOk(slotted_page_compact(s, e, b).slots, slotted_page_compact(s, e, b).end,
                   slotted_page_compact(s, e, b).bytes, w)
         /\ Len(slotted_page_compact(s, e, b).slots) = Len(s)
<1> DEFINE n == Len(s)
           r == slotted_page_compact(s, e, b)
           t == r.slots
           f == r.end
           c == r.bytes
<1>1. /\ s \in Seq(Ent) /\ n \in Nat /\ w \in Seq(Stored) /\ Len(w) = n
      /\ e \in Nat /\ e <= PAGE_SIZE_SE /\ DirectoryFits(n, e)
  BY LenProperties DEF PageOk
<1>2. CASE s = <<>>
  <2>1. r = [slots |-> s, end |-> e, bytes |-> b]
    BY <1>2 DEF slotted_page_compact
  <2> QED
    BY <2>1
<1>3. CASE s # <<>>
  <2>1. /\ t = [i \in 1 .. n |-> MovedSlot(s, i)] /\ f = NewPlace(s, 1)
        /\ \A p \in Pos : \A q : Origins(s, p) = {q} => c[p] = b[q]
    BY <1>1, <1>3, CompactIs
  <2> HIDE DEF r, t, f, c
  <2>2. \A i \in 1 .. n : /\ s[i] \in Ent /\ s[i].offset \in Int /\ s[i].length \in Nat
                          /\ NewPlace(s, i) \in Int /\ NewPlace(s, 1) <= NewPlace(s, i)
                          /\ NewPlace(s, i) + s[i].length <= PAGE_SIZE_SE
    BY <1>1, ElementOfSeq, SlotsAre, PlacesInside
  <2>3. n > 0 /\ 1 \in 1 .. n
    BY <1>1, <1>3, EmptySeq
  <2>4. ASSUME NEW i \in 1 .. n
        PROVE  /\ t[i] = MovedSlot(s, i) /\ t[i] \in Ent /\ t[i].length = s[i].length
               /\ s[i].length > 0 => t[i].offset = NewPlace(s, i)
    <3> DEFINE x == s[i]
    <3>1. x \in Ent /\ NewPlace(s, i) \in Int
      BY <2>2
    <3>2. t[i] = IF x.length > 0 THEN [x EXCEPT !.offset = NewPlace(s, i)] ELSE x
      BY <2>1 DEF MovedSlot
    <3> HIDE DEF x
    <3>3. t[i] \in Ent /\ t[i].length = x.length /\ (x.length > 0 => t[i].offset = NewPlace(s, i))
      BY <3>1, <3>2 DEF Ent
    <3> QED
      BY <2>1, <3>3 DEF x
  <2>5. t \in Seq(Ent) /\ Len(t) = n
    <3>1. t \in Seq(Ent)
      BY <1>1, <2>1, <2>4, IsASeq
    <3>2. DOMAIN t = 1 .. n
      BY <2>1
    <3> QED
      BY <1>1, <3>1, <3>2, LenProperties
  <2>6. f \in Nat /\ f <= PAGE_SIZE_SE /\ e <= f
    <3>1. SumLen(s, 1) <= PAGE_SIZE_SE - e
      BY RecordsFit
    <3>2. SumLen(s, 1) \in Int
      BY <1>1, <2>3, SumsFrom
    <3>3. NewPlace(s, 1) + s[1].length <= PAGE_SIZE_SE /\ s[1].length \in Nat
      BY <2>2, <2>3
    <3> QED
      BY <1>1, <2>1, <3>1, <3>2, <3>3, PageAssumption DEF NewPlace
  <2>7. DirectoryFits(n, f)
    <3> DEFINE q == (n + 1) * SlotSize
    <3>1. q \in Nat
      BY <1>1, PageAssumption
    <3>2. HeaderSize + q <= e
      BY <1>1 DEF DirectoryFits
    <3> HIDE DEF q
    <3>3. HeaderSize + q <= f
      BY <1>1, <2>6, <3>1, <3>2, PageAssumption
    <3> QED
      BY <3>3 DEF DirectoryFits, q
  <2>8. ASSUME NEW i \in 1 .. n PROVE Inside(t[i], f)
    <3>1. s[i].length > 0 => NewPlace(s, i) >= f /\ NewPlace(s, i) + s[i].length <= PAGE_SIZE_SE
      BY <2>1, <2>2
    <3> QED
      BY <2>4, <3>1 DEF Inside
  <2>9. ASSUME NEW i \in 1 .. n PROVE Holds(c, t[i], w[i])
    <3>1. Holds(b, s[i], w[i]) /\ Inside(s[i], e)
      BY DEF PageOk
    <3>2. ASSUME NEW k \in 1 .. s[i].length PROVE c[NewPlace(s, i) + k - 1] = w[i][k]
      <4> DEFINE p == NewPlace(s, i) + k - 1
                 q == s[i].offset + k - 1
      <4>1. p \in Pos
        <5>1. f <= NewPlace(s, i) /\ NewPlace(s, i) + s[i].length <= PAGE_SIZE_SE
          BY <2>1, <2>2
        <5> QED
          BY <2>2, <2>6, <5>1, PageAssumption DEF Pos
      <4>2. q \in Pos
        <5>1. s[i].length > 0
          BY <2>2
        <5>2. s[i].offset >= e /\ s[i].offset + s[i].length <= PAGE_SIZE_SE
          BY <3>1, <5>1 DEF Inside
        <5> QED
          BY SMTT(30), <1>1, <2>2, <5>2, PageAssumption DEF Pos
      <4>3. Origins(s, p) = {q}
        BY <1>1, <4>2, OneOrigin
      <4>4. b[q] = w[i][k]
        BY <3>1 DEF Holds
      <4> HIDE DEF p, q
      <4>5. c[p] = w[i][k]
        BY <2>1, <4>1, <4>3, <4>4
      <4> QED
        BY <4>5 DEF p
    <3>3. CASE s[i].length > 0
      BY <2>4, <3>1, <3>2, <3>3 DEF Holds
    <3>4. CASE ~ (s[i].length > 0)
      <4>1. 1 .. s[i].length = {}
        BY <2>2, <3>4
      <4> QED
        BY <2>4, <3>1, <4>1 DEF Holds
    <3> QED
      BY <3>3, <3>4
  <2>10. ASSUME NEW i \in 1 .. n, NEW j \in 1 .. n, i # j PROVE NoOverlap(t[i], t[j])
    <3> SUFFICES ASSUME t[i].length > 0, t[j].length > 0
                 PROVE  \/ t[i].offset + t[i].length <= t[j].offset
                        \/ t[j].offset + t[j].length <= t[i].offset
      BY DEF NoOverlap
    <3>1. /\ t[i].offset = NewPlace(s, i) /\ t[i].length = s[i].length
          /\ t[j].offset = NewPlace(s, j) /\ t[j].length = s[j].length
      BY <2>4
    <3>2. i < j \/ j < i
      BY <1>1, <2>10
    <3>3. CASE i < j
      BY <1>1, <3>1, <3>3, PlacesApart
    <3>4. CASE j < i
      BY <1>1, <3>1, <3>4, PlacesApart
    <3> QED
      BY <3>2, <3>3, <3>4
  <2>11. PageOk(t, f, c, w)
    BY <1>1, <2>5, <2>6, <2>7, <2>8, <2>9, <2>10 DEF PageOk
  <2> QED
    BY <2>5, <2>11 DEF t, f, c, r
<1> QED
  BY <1>2, <1>3

\* The page an insert or an update works on.
LEMMA RoomyOk ==
  ASSUME NEW s, NEW w, PageOk(s, end, bytes, w), NEW n
  PROVE  /\ PageOk(Roomy(s, n).slots, Roomy(s, n).end, Roomy(s, n).bytes, w)
         /\ Len(Roomy(s, n).slots) = Len(s)
<1>1. CASE slotted_page_free_space(Len(s), end) < n
  <2>1. Roomy(s, n) = slotted_page_compact(s, end, bytes)
    BY <1>1 DEF Roomy
  <2> QED
    BY <2>1, CompactOk
<1>2. CASE ~ (slotted_page_free_space(Len(s), end) < n)
  <2>1. Roomy(s, n) = [slots |-> s, end |-> end, bytes |-> bytes]
    BY <1>2 DEF Roomy
  <2> QED
    BY <2>1
<1> QED
  BY <1>1, <1>2

\* A record that is placed below the others, in a new slot or in its own.
LEMMA PlacedOk ==
  ASSUME NEW s, NEW e, NEW b, NEW w, PageOk(s, e, b, w), NEW rec \in Records,
         NEW i, NEW t, NEW u, i \in 1 .. Len(t), t \in Seq(Ent), u \in Seq(Stored), Len(u) = Len(t),
         t[i] = [offset |-> e - Len(rec), length |-> Len(rec)], u[i] = rec,
         DirectoryFits(Len(t), e - Len(rec)),
         \A j \in 1 .. Len(t) : j # i => j \in 1 .. Len(s) /\ t[j] = s[j] /\ u[j] = w[j]
  PROVE  PageOk(t, e - Len(rec), Write(b, e - Len(rec), rec), u)
<1> DEFINE x == [offset |-> e - Len(rec), length |-> Len(rec)]
           f == e - Len(rec)
<1>1. rec \in Stored /\ Len(rec) \in Nat /\ Len(rec) > 0
  <2>1. rec \in Stored
    BY DEF Stored
  <2> QED
    BY <2>1, RecordIs
<1>2. e \in Nat /\ e <= PAGE_SIZE_SE /\ Len(t) \in Nat
  BY LenProperties DEF PageOk
<1>3. f \in Nat /\ f <= e
  <2> DEFINE q == (Len(t) + 1) * SlotSize
  <2>1. q \in Nat
    BY <1>2, PageAssumption
  <2>2. HeaderSize + q <= f
    BY DEF DirectoryFits
  <2> HIDE DEF q
  <2> QED
    BY <1>1, <1>2, <2>1, <2>2, PageAssumption
<1>4. x \in Ent /\ x.length = Len(rec) /\ x.offset = f
  BY <1>1, <1>2 DEF Ent
<1>5. x.offset >= f /\ x.offset + x.length <= PAGE_SIZE_SE
  BY <1>1, <1>2, <1>4
<1>6. ASSUME NEW j \in 1 .. Len(t), j # i
      PROVE  j \in 1 .. Len(s) /\ t[j] = s[j] /\ u[j] = w[j] /\ NoOverlap(x, s[j])
  <2>1. j \in 1 .. Len(s) /\ t[j] = s[j] /\ u[j] = w[j]
    BY <1>6
  <2>2. Inside(s[j], e)
    BY <2>1 DEF PageOk
  <2>3. x.offset + x.length = e
    BY <1>1, <1>2, <1>4
  <2>4. NoOverlap(x, s[j])
    BY <2>2, <2>3, <1>2 DEF NoOverlap, Inside
  <2> QED
    BY <2>1, <2>4
<1>7. t[i] = x /\ DirectoryFits(Len(t), f)
  OBVIOUS
<1> HIDE DEF x, f
<1>8. PageOk(t, f, Write(b, x.offset, rec), u)
  <2>1. \A j \in 1 .. Len(t) : j # i => j \in 1 .. Len(s) /\ t[j] = s[j] /\ u[j] = w[j]
                                         /\ NoOverlap(x, s[j])
    BY <1>6
  <2>2. Stores(s, w, t, u, i, x, rec)
    BY <1>4, <1>5, <1>7, <2>1 DEF Stores
  <2>3. f \in Nat /\ f <= e /\ DirectoryFits(Len(t), f) /\ x.offset >= f
    BY <1>3, <1>5, <1>7
  <2> QED
    BY <2>2, <2>3, WrittenOk
<1> QED
  BY <1>4, <1>8 DEF f

LEMMA FirstFreeIs ==
  ASSUME NEW s, Len(s) \in Nat
  PROVE  FirstFree(s) \in 1 .. Len(s) \/ FirstFree(s) = Len(s) + 1
<1>1. CASE Deleted(s) = {}
  BY <1>1 DEF FirstFree
<1>2. CASE Deleted(s) # {}
  <2>1. Deleted(s) \subseteq Nat /\ Deleted(s) \subseteq 1 .. Len(s)
    BY DEF Deleted
  <2>2. \E i \in Deleted(s) : \A j \in Deleted(s) : i <= j
    BY <1>2, <2>1, LeastNumber
  <2>3. FirstFree(s) \in Deleted(s)
    BY <1>2, <2>2 DEF FirstFree
  <2> QED
    BY <2>1, <2>3
<1> QED
  BY <1>1, <1>2

LEMMA InsertOk ==
  ASSUME PageOk(slots, end, bytes, wrote), NEW rec \in Records, slotted_page_insert(rec)
  PROVE  PageOk(slots, end, bytes, wrote)'
<1> DEFINE pg == Roomy(slots, InsertNeeds(Len(rec)))
           s == pg.slots
           e == pg.end
           b == pg.bytes
           n == Len(s)
           i == FirstFree(s)
           l == Len(rec)
<1>1. PageOk(s, e, b, wrote) /\ n = Len(slots) /\ n \in Nat
  <2>1. PageOk(s, e, b, wrote) /\ n = Len(slots)
    BY RoomyOk
  <2> QED
    BY <2>1, LenProperties DEF PageOk
<1>2. l \in Nat /\ l > 0 /\ rec \in Stored
  <2>1. rec \in Stored
    BY DEF Stored
  <2> QED
    BY <2>1, RecordIs
<1>3. CASE slotted_page_free_space(n, e) < InsertNeeds(l) \/ i > MAX_SLOT_COUNT
  <2>1. slots' = s /\ end' = e /\ bytes' = b /\ wrote' = wrote
    BY <1>3 DEF slotted_page_insert
  <2> HIDE DEF s, e, b
  <2> QED
    BY <1>1, <2>1
<1>4. CASE ~ (slotted_page_free_space(n, e) < InsertNeeds(l) \/ i > MAX_SLOT_COUNT)
  <2>1. Place(pg, i, rec) /\ wrote' = IF i > Len(wrote) THEN Append(wrote, rec) ELSE [wrote EXCEPT ![i] = rec]
    BY <1>4 DEF slotted_page_insert
  <2> DEFINE x == [offset |-> e - l, length |-> l]
             t == IF i > n THEN Append(s, x) ELSE [s EXCEPT ![i] = x]
             u == IF i > n THEN Append(wrote, rec) ELSE [wrote EXCEPT ![i] = rec]
  <2>2. slots' = t /\ bytes' = Write(b, e - l, rec) /\ end' = e - l
    BY <2>1 DEF Place
  <2>3. s \in Seq(Ent) /\ wrote \in Seq(Stored) /\ Len(wrote) = n /\ e \in Nat /\ e <= PAGE_SIZE_SE
        /\ DirectoryFits(n, e)
    BY <1>1 DEF PageOk
  <2>4. wrote' = u
    BY <2>1, <2>3
  <2>5. i \in 1 .. n \/ i = n + 1
    BY <1>1, FirstFreeIs
  <2>6. i \in Nat /\ x \in Ent
    BY <1>1, <1>2, <2>3, <2>5 DEF Ent
  <2>7. slotted_page_free_space(n, e) = e - HeaderSize - (n + 1) * SlotSize
    BY <1>1, <2>3, FreeSpaceIs
  <2> HIDE DEF i, x, s, e, b, l
  <2>8. HeaderSize + (n + 2) * SlotSize <= e - l /\ HeaderSize + (n + 1) * SlotSize <= e - l
    <3> DEFINE q == (n + 1) * SlotSize
    <3>1. q \in Nat /\ (n + 2) * SlotSize = q + SlotSize
      BY <1>1, PageAssumption
    <3>2. e - HeaderSize - q >= l + SlotSize
      <4>1. ~ (e - HeaderSize - q < l + SlotSize)
        BY <1>4, <2>7 DEF InsertNeeds
      <4> HIDE DEF q
      <4> QED
        BY <1>2, <2>3, <3>1, <4>1, PageAssumption
    <3> HIDE DEF q
    <3>3. HeaderSize + (q + SlotSize) <= e - l /\ HeaderSize + q <= e - l
      BY <1>2, <2>3, <3>1, <3>2, PageAssumption
    <3> QED
      BY <3>1, <3>3 DEF q
  <2>9. CASE i = n + 1
    <3>1. t = Append(s, x) /\ u = Append(wrote, rec)
      BY <1>1, <2>9
    <3> HIDE DEF t, u
    <3>2. /\ t \in Seq(Ent) /\ Len(t) = n + 1 /\ t[n + 1] = x /\ \A j \in 1 .. n : t[j] = s[j]
          /\ u \in Seq(Stored) /\ Len(u) = n + 1 /\ u[n + 1] = rec /\ \A j \in 1 .. n : u[j] = wrote[j]
      BY <1>2, <2>3, <2>6, <3>1, AppendProperties
    <3>3. i \in 1 .. Len(t) /\ t[i] = x /\ u[i] = rec
          /\ \A j \in 1 .. Len(t) : j # i => j \in 1 .. Len(s) /\ t[j] = s[j] /\ u[j] = wrote[j]
      BY <1>1, <2>9, <3>2
    <3>4. DirectoryFits(Len(t), e - l)
      <4>1. n + 1 + 1 = n + 2
        BY <1>1
      <4> QED
        BY <2>8, <3>2, <4>1 DEF DirectoryFits
    <3>5. PageOk(t, e - l, Write(b, e - l, rec), u)
      BY <1>1, <3>2, <3>3, <3>4, PlacedOk DEF x, l
    <3> QED
      BY <2>2, <2>4, <3>5
  <2>10. CASE i \in 1 .. n
    <3>1. t = [s EXCEPT ![i] = x] /\ u = [wrote EXCEPT ![i] = rec]
      BY <1>1, <2>10
    <3> HIDE DEF t, u
    <3>2. /\ t \in Seq(Ent) /\ Len(t) = n /\ t[i] = x /\ \A j \in 1 .. n : j # i => t[j] = s[j]
          /\ u \in Seq(Stored) /\ Len(u) = n /\ u[i] = rec /\ \A j \in 1 .. n : j # i => u[j] = wrote[j]
      BY <1>2, <2>3, <2>6, <2>10, <3>1, ExceptSeq
    <3>3. DirectoryFits(Len(t), e - l)
      BY <2>8, <3>2 DEF DirectoryFits
    <3>4. PageOk(t, e - l, Write(b, e - l, rec), u)
      BY SMTT(30), <1>1, <2>10, <3>2, <3>3, PlacedOk DEF x, l
    <3> QED
      BY <2>2, <2>4, <3>4
  <2> QED
    BY <2>5, <2>9, <2>10
<1> QED
  BY <1>3, <1>4

LEMMA DeleteOk ==
  ASSUME PageOk(slots, end, bytes, wrote), NEW i \in 1 .. Len(slots), slotted_page_delete(i)
  PROVE  PageOk(slots, end, bytes, wrote)'
<1> DEFINE s == [slots EXCEPT ![i].length = 0]
           w == [wrote EXCEPT ![i] = <<>>]
<1>1. slots' = s /\ wrote' = w /\ end' = end /\ bytes' = bytes
  BY DEF slotted_page_delete
<1>2. PageOk(s, end, bytes, w)
  BY EmptiedOk
<1> HIDE DEF s, w
<1> QED
  BY <1>1, <1>2

\* A record that is no longer than the one it replaces.
LEMMA ShorterOk ==
  ASSUME NEW s, NEW e, NEW b, NEW w, PageOk(s, e, b, w), NEW rec \in Records,
         NEW i \in 1 .. Len(s), s[i].length # 0, Len(rec) <= s[i].length
  PROVE  PageOk([s EXCEPT ![i].length = Len(rec)], e, Write(b, s[i].offset, rec), [w EXCEPT ![i] = rec])
<1> DEFINE n == Len(s)
           o == s[i]
           l == Len(rec)
           x == [o EXCEPT !.length = l]
           t == [s EXCEPT ![i] = x]
           u == [w EXCEPT ![i] = rec]
<1>1. /\ s \in Seq(Ent) /\ w \in Seq(Stored) /\ Len(w) = n /\ n \in Nat
      /\ e \in Nat /\ e <= PAGE_SIZE_SE /\ DirectoryFits(n, e)
  BY LenProperties DEF PageOk
<1>2. rec \in Stored /\ l \in Nat /\ l > 0
  <2>1. rec \in Stored
    BY DEF Stored
  <2> QED
    BY <2>1, RecordIs
<1>3. o \in Ent /\ Inside(o, e) /\ l <= o.length /\ \A j \in 1 .. n : j # i => NoOverlap(o, s[j])
  BY <1>1, ElementOfSeq DEF PageOk
<1> HIDE DEF o
<1>4. o.offset \in Int /\ o.length \in Nat
  BY <1>3 DEF Ent
<1>5. x \in Ent /\ x.length = l /\ x.offset = o.offset
  BY <1>2, <1>3 DEF Ent
<1> HIDE DEF x
<1>6. /\ t \in Seq(Ent) /\ Len(t) = n /\ t[i] = x /\ \A j \in 1 .. n : j # i => t[j] = s[j]
      /\ u \in Seq(Stored) /\ Len(u) = n /\ u[i] = rec /\ \A j \in 1 .. n : j # i => u[j] = w[j]
  BY <1>1, <1>2, <1>5, ExceptSeq
<1>7. x.offset >= e /\ x.offset + x.length <= PAGE_SIZE_SE
  <2>1. o.length > 0
    BY <1>2, <1>3, <1>4
  <2>2. o.offset >= e /\ o.offset + o.length <= PAGE_SIZE_SE
    BY <1>3, <2>1 DEF Inside
  <2> QED
    BY <1>1, <1>2, <1>3, <1>4, <1>5, <2>2, PageAssumption
<1>8. ASSUME NEW j \in 1 .. n, j # i PROVE NoOverlap(x, s[j])
  <2> DEFINE y == s[j]
  <2>1. y.offset \in Int /\ y.length \in Nat /\ NoOverlap(o, y)
    BY <1>1, <1>3, <1>8, SlotsAre
  <2> HIDE DEF y
  <2> SUFFICES ASSUME x.length > 0, y.length > 0
               PROVE  x.offset + x.length <= y.offset \/ y.offset + y.length <= x.offset
    BY DEF NoOverlap, y
  <2>2. o.length > 0
    BY <1>2, <1>3, <1>4
  <2>3. o.offset + o.length <= y.offset \/ y.offset + y.length <= o.offset
    BY <2>1, <2>2 DEF NoOverlap
  <2> QED
    BY <1>2, <1>3, <1>4, <1>5, <2>1, <2>3
<1> HIDE DEF t, u
<1>9. \A j \in 1 .. Len(t) : j # i => j \in 1 .. Len(s) /\ t[j] = s[j] /\ u[j] = w[j] /\ NoOverlap(x, s[j])
  BY <1>6, <1>8
<1>10. /\ i \in 1 .. Len(t) /\ Len(u) = Len(t) /\ e <= e /\ DirectoryFits(Len(t), e) /\ x.length = Len(rec)
  BY <1>1, <1>5, <1>6
<1>11. PageOk(t, e, Write(b, x.offset, rec), u)
  <2>1. /\ t \in Seq(Ent) /\ u \in Seq(Stored) /\ t[i] = x /\ u[i] = rec /\ x \in Ent
        /\ x.offset >= e /\ x.offset + x.length <= PAGE_SIZE_SE
    BY <1>1, <1>5, <1>6, <1>7
  <2>2. Stores(s, w, t, u, i, x, rec)
    BY <1>9, <1>10, <2>1 DEF Stores
  <2> QED
    BY <1>1, <1>10, <2>1, <2>2, WrittenOk
<1> QED
  BY <1>5, <1>11 DEF t, u, x, o

LEMMA UpdateOk ==
  ASSUME PageOk(slots, end, bytes, wrote), NEW i \in 1 .. Len(slots), NEW rec \in Records,
         slotted_page_update(i, rec)
  PROVE  PageOk(slots, end, bytes, wrote)'
<1> DEFINE l == Len(rec)
<1>1. l \in Nat /\ l > 0 /\ rec \in Stored
  <2>1. rec \in Stored
    BY DEF Stored
  <2> QED
    BY <2>1, RecordIs
<1>2. CASE l <= slots[i].length
  <2> DEFINE s == [slots EXCEPT ![i].length = l]
             w == [wrote EXCEPT ![i] = rec]
             b == Write(bytes, slots[i].offset, rec)
  <2>1. slots' = s /\ wrote' = w /\ end' = end /\ bytes' = b /\ slots[i].length # 0
    BY <1>2 DEF slotted_page_update
  <2>2. PageOk(s, end, b, w)
    BY <1>2, <2>1, ShorterOk
  <2> HIDE DEF s, w, b
  <2> QED
    BY <2>1, <2>2
<1>3. CASE ~ (l <= slots[i].length)
  <2> DEFINE a == [slots EXCEPT ![i].length = 0]
             v == [wrote EXCEPT ![i] = <<>>]
             pg == Roomy(a, UpdateNeeds(l))
             s == pg.slots
             e == pg.end
             b == pg.bytes
             n == Len(s)
  <2>1. PageOk(a, end, bytes, v)
    BY EmptiedOk
  <2>2. Len(a) = Len(slots) /\ Len(slots) \in Nat
    <3>1. slots \in Seq(Ent) /\ a \in Seq(Ent)
      BY <2>1 DEF PageOk
    <3>2. DOMAIN a = DOMAIN slots
      OBVIOUS
    <3> HIDE DEF a
    <3> QED
      BY <3>1, <3>2, LenProperties
  <2>3. PageOk(s, e, b, v) /\ n = Len(slots)
    <3> HIDE DEF a, v
    <3> QED
      BY <2>1, <2>2, RoomyOk
  <2>4. CASE slotted_page_free_space(n, e) < UpdateNeeds(l)
    <3>1. slots' = s /\ end' = e /\ bytes' = b /\ wrote' = v
      BY <1>3, <2>4 DEF slotted_page_update
    <3> HIDE DEF s, e, b, v
    <3> QED
      BY <2>3, <3>1
  <2>5. CASE ~ (slotted_page_free_space(n, e) < UpdateNeeds(l))
    <3> DEFINE x == [offset |-> e - l, length |-> l]
               t == [s EXCEPT ![i] = x]
               u == [wrote EXCEPT ![i] = rec]
    <3>1. Place(pg, i, rec) /\ wrote' = u
      BY <1>3, <2>5 DEF slotted_page_update
    <3>2. slots' = t /\ bytes' = Write(b, e - l, rec) /\ end' = e - l
      <4>1. ~ (i > n)
        BY <2>2, <2>3
      <4> QED
        BY <3>1, <4>1 DEF Place
    <3>3. /\ s \in Seq(Ent) /\ wrote \in Seq(Stored) /\ Len(wrote) = n /\ e \in Nat /\ e <= PAGE_SIZE_SE
          /\ DirectoryFits(n, e) /\ i \in 1 .. n /\ n \in Nat
      BY <2>2, <2>3 DEF PageOk
    <3>4. \A j \in 1 .. n : j # i => v[j] = wrote[j]
      BY <3>3, ExceptSeq
    <3>5. x \in Ent
      BY <1>1, <3>3 DEF Ent
    <3>6. slotted_page_free_space(n, e) = e - HeaderSize - (n + 1) * SlotSize
      BY <3>3, FreeSpaceIs
    <3> HIDE DEF x, s, e, b, l, v
    <3>7. DirectoryFits(n, e - l)
      <4> DEFINE q == (n + 1) * SlotSize
      <4>1. q \in Nat
        BY <3>3, PageAssumption
      <4>2. ~ (e - HeaderSize - q < l)
        BY <2>5, <3>6 DEF UpdateNeeds
      <4> HIDE DEF q
      <4>3. HeaderSize + q <= e - l
        BY <1>1, <3>3, <4>1, <4>2, PageAssumption
      <4> QED
        BY <4>3 DEF DirectoryFits, q
    <3>8. /\ t \in Seq(Ent) /\ Len(t) = n /\ t[i] = x /\ \A j \in 1 .. n : j # i => t[j] = s[j]
          /\ u \in Seq(Stored) /\ Len(u) = n /\ u[i] = rec /\ \A j \in 1 .. n : j # i => u[j] = wrote[j]
      BY <1>1, <3>3, <3>5, ExceptSeq
    <3> HIDE DEF t, u
    <3>9. \A j \in 1 .. Len(t) : j # i => j \in 1 .. Len(s) /\ t[j] = s[j] /\ u[j] = v[j]
      BY <3>4, <3>8
    <3>10. i \in 1 .. Len(t) /\ Len(u) = Len(t) /\ DirectoryFits(Len(t), e - l)
      BY <3>3, <3>7, <3>8
    <3>11. PageOk(t, e - l, Write(b, e - l, rec), u)
      BY SMTT(30), <2>3, <3>8, <3>9, <3>10, PlacedOk DEF x, l
    <3> QED
      BY <3>1, <3>2, <3>11
  <2> QED
    BY <2>4, <2>5
<1> QED
  BY <1>2, <1>3

LEMMA NextPage ==
  ASSUME PageOk(slots, end, bytes, wrote), [PageNext]_pagevars
  PROVE  PageOk(slots, end, bytes, wrote)'
<1>1. CASE UNCHANGED pagevars
  BY <1>1 DEF pagevars
<1> QED
  BY <1>1, InsertOk, DeleteOk, UpdateOk DEF PageNext

LEMMA PageFollows ==
  ASSUME PageOk(slots, end, bytes, wrote)
  PROVE  RecordsReadBack
<1>1. \A i \in 1 .. Len(slots) : slotted_page_get(i) = wrote[i]
  BY ReadIs DEF slotted_page_get
<1> QED
  BY <1>1 DEF RecordsReadBack, PageOk, DirectoryFits

\* slotted_page_insert, _update, _delete and _compact keep every record that
\* is stored, and the directory below the records.
THEOREM RecordsCorrect == slotted_page_init /\ [][PageNext]_pagevars => []RecordsReadBack
<1> DEFINE PageInv == PageOk(slots, end, bytes, wrote)
<1>1. PageInv /\ [PageNext]_pagevars => PageInv'
  BY NextPage
<1>2. PageInv => RecordsReadBack
  BY PageFollows
<1>3. slotted_page_init => PageInv
  BY InitPage
<1> HIDE DEF PageInv
<1> QED
  BY <1>1, <1>2, <1>3, PTL

-----------------------------------------------------------------------------
(* Prepared statements: the placeholders of a template. *)

LEMMA PlaceholdersFinite ==
  ASSUME NEW t \in Seq(STRING), NEW i
  PROVE  /\ \A j \in Placeholders(t) : j \in 1 .. Len(t) /\ j \in Int /\ j > 0
         /\ IsFiniteSet({j \in Placeholders(t) : j <= i})
         /\ Rank(t, i) \in Nat
<1>1. Len(t) \in Nat /\ DOMAIN t = 1 .. Len(t)
  BY LenProperties
<1>2. Placeholders(t) \subseteq 1 .. Len(t)
  BY <1>1 DEF Placeholders
<1>3. IsFiniteSet(1 .. Len(t)) /\ \A j \in 1 .. Len(t) : j \in Int /\ j > 0
  BY <1>1, FS_Interval
<1>4. IsFiniteSet({j \in Placeholders(t) : j <= i})
  BY <1>2, <1>3, FS_Subset
<1> QED
  BY <1>2, <1>3, <1>4, FS_CardinalityType DEF Rank

LEMMA RankSteps ==
  ASSUME NEW t \in Seq(STRING)
  PROVE  /\ Rank(t, 0) = 0
         /\ \A k \in 1 .. Len(t) :
              Rank(t, k) = IF k \in Placeholders(t) THEN Rank(t, k - 1) + 1 ELSE Rank(t, k - 1)
<1> DEFINE P == Placeholders(t)
           upto(i) == {j \in P : j <= i}
<1>1. (\A j \in P : j \in Int /\ j > 0) /\ Len(t) \in Nat
  BY PlaceholdersFinite, LenProperties
<1>2. \A i : IsFiniteSet(upto(i)) /\ Rank(t, i) = Cardinality(upto(i))
  BY PlaceholdersFinite DEF Rank
<1> HIDE DEF P
<1>3. upto(0) = {}
  BY <1>1
<1>4. ASSUME NEW k \in 1 .. Len(t), k \in P PROVE Rank(t, k) = Rank(t, k - 1) + 1
  <2>0. k \in Int
    BY <1>1
  <2>1. upto(k) = upto(k - 1) \cup {k} /\ k \notin upto(k - 1)
    <3>1. \A j \in P : j <= k <=> j <= k - 1 \/ j = k
      BY <1>1, <2>0
    <3>2. ~ (k <= k - 1)
      BY <2>0
    <3> QED
      BY <1>4, <2>0, <3>1, <3>2
  <2> HIDE DEF upto
  <2> QED
    BY <1>2, <2>1, FS_AddElement
<1>5. ASSUME NEW k \in 1 .. Len(t), k \notin P PROVE Rank(t, k) = Rank(t, k - 1)
  <2>1. upto(k) = upto(k - 1)
    BY <1>1, <1>5
  <2> QED
    BY <1>2, <2>1
<1> QED
  BY <1>2, <1>3, <1>4, <1>5, FS_EmptySet DEF P

\* Placeholders are ranked in the order of the text.
LEMMA RankGrows ==
  ASSUME NEW t \in Seq(STRING), NEW j \in Placeholders(t), NEW i \in Int
  PROVE  /\ i < j => Rank(t, i) < Rank(t, j)
         /\ j <= i => Rank(t, j) <= Rank(t, i)
<1> DEFINE upto(k) == {l \in Placeholders(t) : l <= k}
<1>1. \A k : IsFiniteSet(upto(k)) /\ Rank(t, k) = Cardinality(upto(k)) /\ Rank(t, k) \in Nat
  BY PlaceholdersFinite DEF Rank
<1>2. \A l \in Placeholders(t) : l \in Int
  BY PlaceholdersFinite
<1>3. ASSUME i < j PROVE Rank(t, i) < Rank(t, j)
  <2>1. upto(i) \subseteq upto(j) /\ j \in upto(j) /\ j \notin upto(i)
    BY <1>2, <1>3
  <2> HIDE DEF upto
  <2>2. upto(i) # upto(j)
    BY <2>1
  <2>3. Cardinality(upto(i)) < Cardinality(upto(j))
    BY <1>1, <2>1, <2>2, FS_Subset
  <2> QED
    BY <1>1, <2>3
<1>4. ASSUME j <= i PROVE Rank(t, j) <= Rank(t, i)
  <2>1. upto(j) \subseteq upto(i)
    BY <1>2, <1>4
  <2> HIDE DEF upto
  <2> QED
    BY <1>1, <2>1, FS_Subset
<1> QED
  BY <1>3, <1>4

LEMMA RankIsOne ==
  ASSUME NEW t \in Seq(STRING), NEW i \in Placeholders(t), NEW j \in Placeholders(t),
         Rank(t, i) = Rank(t, j)
  PROVE  i = j
<1>1. i \in Int /\ j \in Int /\ Rank(t, i) \in Nat
  BY PlaceholdersFinite
<1>2. ~ (i < j) /\ ~ (j < i)
  BY <1>1, RankGrows
<1> QED
  BY <1>1, <1>2

\* The rounds of the loop of find_parameters.
FindStep(t, k, found) ==
  IF t[k] = "?" /\ OpenQuote(t)[k] = "" /\ Len(found) < MAX_PARAMETERS THEN Append(found, k) ELSE found
FindRun(t, f) ==
  f = [i \in 0 .. Len(t) |-> IF i = 0 THEN <<>> ELSE FindStep(t, i, f[i - 1])]

LEMMA FindUnfolds ==
  ASSUME NEW t \in Seq(STRING)
  PROVE  \E f : FindRun(t, f) /\ find_parameters(t) = f[Len(t)]
<1> DEFINE n == Len(t)
           body == [x \in (1 .. n) \X Seq(Nat) |-> FindStep(t, x[1], x[2])]
<1>1. n \in Nat
  BY LenProperties
<1>2. body \in [(1 .. n) \X Seq(Nat) -> Seq(Nat)]
  <2>1. ASSUME NEW x \in (1 .. n) \X Seq(Nat) PROVE FindStep(t, x[1], x[2]) \in Seq(Nat)
    <3>1. x[1] \in Nat /\ x[2] \in Seq(Nat)
      BY <1>1
    <3>2. Append(x[2], x[1]) \in Seq(Nat)
      BY <3>1, AppendProperties
    <3> QED
      BY <3>1, <3>2 DEF FindStep
  <2> QED
    BY <2>1
<1>3. <<>> \in Seq(Nat)
  OBVIOUS
<1> HIDE DEF n
<1>4. PICK f : Rounds(f, n, Seq(Nat), <<>>, body)
  <2> HIDE DEF body
  <2> QED
    BY <1>1, <1>2, <1>3, RoundsExist
<1>5. FindRun(t, f)
  <2>1. f = [i \in 0 .. n |-> f[i]] /\ f[0] = <<>> /\ \A i \in 0 .. n : f[i] \in Seq(Nat)
    BY <1>4 DEF Rounds
  <2>2. ASSUME NEW i \in 0 .. n, i # 0 PROVE f[i] = FindStep(t, i, f[i - 1])
    <3>1. i \in 1 .. n /\ i - 1 \in 0 .. n
      BY <1>1, <2>2
    <3>2. f[i] = body[<<i, f[i - 1]>>]
      BY <1>4, <3>1 DEF Rounds
    <3>3. <<i, f[i - 1]>> \in (1 .. n) \X Seq(Nat)
      BY <2>1, <3>1
    <3> QED
      BY <3>2, <3>3
  <2> HIDE DEF body
  <2> QED
    BY <2>1, <2>2 DEF FindRun, n
<1> DEFINE g == CHOOSE h : FindRun(t, h)
<1>6. FindRun(t, g)
  BY <1>5
<1>7. find_parameters(t) = g[Len(t)]
  BY DEF find_parameters, FindRun, FindStep
<1> QED
  BY <1>6, <1>7

\* find_parameters lists the first MAX_PARAMETERS placeholders, in order.
LEMMA MarksFound ==
  ASSUME NEW t \in Seq(STRING)
  PROVE  /\ find_parameters(t) \in Seq(Nat)
         /\ \A k \in 1 .. Len(find_parameters(t)) :
              /\ find_parameters(t)[k] \in Placeholders(t) /\ Rank(t, find_parameters(t)[k]) = k
         /\ Len(find_parameters(t)) <= MAX_PARAMETERS
         /\ \A i \in Placeholders(t) :
              Rank(t, i) <= MAX_PARAMETERS => Rank(t, i) <= Len(find_parameters(t))
<1> DEFINE n == Len(t)
<1>1. n \in Nat /\ DOMAIN t = 1 .. n /\ MAX_PARAMETERS \in Nat
  BY LenProperties, StatementsAssumption
<1>2. PICK f : FindRun(t, f) /\ find_parameters(t) = f[n]
  BY FindUnfolds
<1>3. \A k \in 0 .. n : Rank(t, k) \in Nat
  BY PlaceholdersFinite
<1>4. /\ Rank(t, 0) = 0
      /\ \A k \in 1 .. n :
           Rank(t, k) = IF k \in Placeholders(t) THEN Rank(t, k - 1) + 1 ELSE Rank(t, k - 1)
  BY RankSteps
<1>5. \A k \in 1 .. n : k \in Placeholders(t) <=> t[k] = "?" /\ OpenQuote(t)[k] = ""
  BY <1>1 DEF Placeholders
<1> DEFINE least(k) == IF Rank(t, k) <= MAX_PARAMETERS THEN Rank(t, k) ELSE MAX_PARAMETERS
           good(k) == /\ f[k] \in Seq(Nat) /\ Len(f[k]) = least(k)
                      /\ \A j \in 1 .. Len(f[k]) : f[k][j] \in Placeholders(t) /\ Rank(t, f[k][j]) = j
           Good == {k \in 0 .. n : good(k)}
<1>6. f[0] = <<>> /\ \A k \in 1 .. n : f[k] = FindStep(t, k, f[k - 1])
  BY <1>1, <1>2 DEF FindRun
<1> HIDE DEF n
<1>7. 0 \in Good
  <2>1. <<>> \in Seq(Nat) /\ Len(<<>>) = 0
    OBVIOUS
  <2>2. good(0)
    BY <1>1, <1>4, <1>6, <2>1
  <2> QED
    BY <1>1, <2>2
<1>8. ASSUME NEW k \in 1 .. n, k - 1 \in Good PROVE k \in Good
  <2> DEFINE e == f[k - 1]
  <2>0. k \in 0 .. n /\ k - 1 \in 0 .. n /\ k \in Nat
    BY <1>1
  <2>1. /\ e \in Seq(Nat) /\ Len(e) = least(k - 1)
        /\ \A j \in 1 .. Len(e) : e[j] \in Placeholders(t) /\ Rank(t, e[j]) = j
    BY <1>8
  <2>2. f[k] = FindStep(t, k, e)
    BY <1>6
  <2>3. Rank(t, k - 1) \in Nat /\ Rank(t, k) \in Nat
    BY <1>3, <2>0
  <2> HIDE DEF e
  <2>4. CASE k \in Placeholders(t) /\ Len(e) < MAX_PARAMETERS
    <3>1. f[k] = Append(e, k)
      BY <1>5, <2>2, <2>4 DEF FindStep
    <3>2. Rank(t, k) = Rank(t, k - 1) + 1
      BY <1>4, <2>4
    <3>3. Len(e) = Rank(t, k - 1) /\ Rank(t, k) <= MAX_PARAMETERS
      BY <1>1, <2>1, <2>3, <2>4, <3>2
    <3>4. /\ Append(e, k) \in Seq(Nat) /\ Len(Append(e, k)) = Len(e) + 1
          /\ Append(e, k)[Len(e) + 1] = k /\ \A j \in 1 .. Len(e) : Append(e, k)[j] = e[j]
      BY <2>0, <2>1, AppendProperties
    <3>5. \A j \in 1 .. Len(e) + 1 : j \in 1 .. Len(e) \/ j = Len(e) + 1
      BY <2>3, <3>3
    <3>6. good(k)
      BY <2>1, <2>4, <3>1, <3>2, <3>3, <3>4, <3>5
    <3> QED
      BY <2>0, <3>6
  <2>5. CASE ~ (k \in Placeholders(t) /\ Len(e) < MAX_PARAMETERS)
    <3>1. f[k] = e
      BY <1>5, <2>2, <2>5 DEF FindStep
    <3>2. least(k) = least(k - 1)
      <4>1. CASE k \in Placeholders(t)
        BY <1>1, <1>4, <2>1, <2>3, <2>5, <4>1
      <4>2. CASE k \notin Placeholders(t)
        BY <1>4, <4>2
      <4> QED
        BY <4>1, <4>2
    <3>3. good(k)
      BY <2>1, <3>1, <3>2
    <3> QED
      BY <2>0, <3>3
  <2> QED
    BY <2>4, <2>5
<1> HIDE DEF Good
<1>9. n \in Good
  BY <1>1, <1>7, <1>8, RoundsKeep
<1>10. good(n)
  BY <1>9 DEF Good
<1>11. n \in 0 .. n
  BY <1>1
<1>12. ASSUME NEW i \in Placeholders(t), Rank(t, i) <= MAX_PARAMETERS PROVE Rank(t, i) <= least(n)
  <2>1. i \in 1 .. n /\ Rank(t, i) \in Nat
    BY PlaceholdersFinite DEF n
  <2>2. i <= n /\ n \in Int
    BY <1>1, <2>1
  <2>3. Rank(t, i) <= Rank(t, n)
    BY <2>2, RankGrows
  <2> QED
    BY <1>12, <2>3
<1>13. least(n) <= MAX_PARAMETERS
  BY <1>1, <1>3, <1>11
<1> HIDE DEF least
<1> QED
  BY <1>2, <1>10, <1>12, <1>13

\* The rounds of the loop of substitute_parameters.
Sub == [text : Seq(STRING), idx : Nat \ {0}]
SubStep(t, pos, params, k, o) ==
  IF o.idx <= Len(pos) /\ pos[o.idx] = k
  THEN [text |-> o.text \o params[o.idx], idx |-> o.idx + 1]
  ELSE [text |-> Append(o.text, t[k]), idx |-> o.idx]
SubRun(t, pos, params, f) ==
  f = [i \in 0 .. Len(t) |->
         IF i = 0 THEN [text |-> <<>>, idx |-> 1] ELSE SubStep(t, pos, params, i, f[i - 1])]

LEMMA SubUnfolds ==
  ASSUME NEW t \in Seq(STRING), NEW pos \in Seq(Nat), NEW params \in [1 .. Len(pos) -> Seq(STRING)]
  PROVE  \E f : SubRun(t, pos, params, f) /\ substitute_parameters(t, pos, params) = f[Len(t)].text
<1> DEFINE n == Len(t)
           first == [text |-> <<>>, idx |-> 1]
           \* Outside the range of the parameters anything will do.
           Step(x) == IF SubStep(t, pos, params, x[1], x[2]) \in Sub
                      THEN SubStep(t, pos, params, x[1], x[2]) ELSE first
           body == [x \in (1 .. n) \X Sub |-> Step(x)]
<1>1. n \in Nat /\ Len(pos) \in Nat
  BY LenProperties
<1>2. first \in Sub
  BY DEF Sub
<1>3. body \in [(1 .. n) \X Sub -> Sub]
  BY <1>2
<1> HIDE DEF n, body, first
<1>4. PICK f : Rounds(f, n, Sub, first, body)
  BY <1>1, <1>2, <1>3, RoundsExist
<1>5. f[0] = first /\ f \in [0 .. n -> Sub] /\ \A i \in 1 .. n : f[i] = body[<<i, f[i - 1]>>]
  BY <1>4 DEF Rounds
<1>6. ASSUME NEW i \in 1 .. n PROVE f[i] = SubStep(t, pos, params, i, f[i - 1])
  <2>1. i - 1 \in 0 .. n /\ i \in Nat
    BY <1>1
  <2>2. f[i - 1] \in Sub
    BY <1>5, <2>1
  <2> DEFINE o == f[i - 1]
             x == <<i, o>>
  <2>3. o.text \in Seq(STRING) /\ o.idx \in Nat \ {0}
    BY <2>2 DEF Sub
  <2>4. t[i] \in STRING
    BY <1>1, ElementOfSeq DEF n
  <2>5. x \in (1 .. n) \X Sub /\ x[1] = i /\ x[2] = o
    BY <2>2
  <2> HIDE DEF o
  <2>6. SubStep(t, pos, params, i, o) \in Sub
    <3>1. CASE o.idx <= Len(pos) /\ pos[o.idx] = i
      <4>1. o.idx \in 1 .. Len(pos)
        BY <1>1, <2>3, <3>1
      <4>2. params[o.idx] \in Seq(STRING)
        BY <4>1
      <4>3. o.text \o params[o.idx] \in Seq(STRING)
        BY <2>3, <4>2, ConcatProperties
      <4> QED
        BY <2>3, <3>1, <4>3 DEF SubStep, Sub
    <3>2. CASE ~ (o.idx <= Len(pos) /\ pos[o.idx] = i)
      <4>1. Append(o.text, t[i]) \in Seq(STRING)
        BY <2>3, <2>4, AppendProperties
      <4> QED
        BY <2>3, <3>2, <4>1 DEF SubStep, Sub
    <3> QED
      BY <3>1, <3>2
  <2> QED
    BY <1>5, <2>5, <2>6 DEF body, o
<1>7. SubRun(t, pos, params, f)
  <2>1. f = [i \in 0 .. n |-> f[i]]
    BY <1>5
  <2>2. \A i \in 0 .. n : i # 0 => i \in 1 .. n
    BY <1>1
  <2> QED
    BY <1>5, <1>6, <2>1, <2>2 DEF SubRun, n, first
<1> DEFINE g == CHOOSE h : SubRun(t, pos, params, h)
<1>8. SubRun(t, pos, params, g)
  BY <1>7
<1>9. substitute_parameters(t, pos, params) = g[Len(t)].text
  BY DEF substitute_parameters, SubRun, SubStep
<1> QED
  BY <1>8, <1>9

\* FlattenSeq by its recursion.
FlatRun(s, f) ==
  f = [i \in 1 .. Len(s) |-> IF i = 1 THEN s[i] ELSE f[i - 1] \o s[i]]

LEMMA FlattenUnfolds ==
  ASSUME NEW s, Len(s) \in Nat \ {0}, \A i \in 1 .. Len(s) : s[i] \in Seq(STRING)
  PROVE  \E f : FlatRun(s, f) /\ FlattenSeq(s) = f[Len(s)]
<1> DEFINE n == Len(s)
           S == Seq(STRING)
           body == [x \in (1 .. n) \X S |-> IF x[1] = 1 THEN s[1] ELSE x[2] \o s[x[1]]]
<1>0. \A i \in 1 .. n : s[i] \in S
  OBVIOUS
<1>1. n \in Nat /\ 1 \in 1 .. n
  OBVIOUS
<1>2. body \in [(1 .. n) \X S -> S]
  <2>1. ASSUME NEW x \in (1 .. n) \X S PROVE x[2] \o s[x[1]] \in S
    <3>1. x[1] \in 1 .. n /\ x[2] \in S
      OBVIOUS
    <3> HIDE DEF n
    <3>2. s[x[1]] \in S
      BY <1>0, <3>1
    <3> QED
      BY <3>1, <3>2, ConcatProperties
  <2> HIDE DEF S, n
  <2> QED
    BY <1>0, <1>1, <2>1
<1>3. <<>> \in S
  OBVIOUS
<1> HIDE DEF n, S
<1>4. PICK f : Rounds(f, n, S, <<>>, body)
  <2> HIDE DEF body
  <2> QED
    BY <1>1, <1>2, <1>3, RoundsExist
<1> DEFINE h == [i \in 1 .. n |-> f[i]]
<1>5. ASSUME NEW i \in 1 .. n PROVE h[i] = IF i = 1 THEN s[i] ELSE h[i - 1] \o s[i]
  <2>1. f[i] = body[<<i, f[i - 1]>>] /\ i - 1 \in 0 .. n /\ f \in [0 .. n -> S]
    <3> HIDE DEF body
    <3>1. i - 1 \in 0 .. n
      BY <1>1
    <3> QED
      BY <1>4, <3>1 DEF Rounds
  <2>2. <<i, f[i - 1]>> \in (1 .. n) \X S
    BY <2>1
  <2>3. f[i] = IF i = 1 THEN s[1] ELSE f[i - 1] \o s[i]
    BY <2>1, <2>2
  <2>4. i # 1 => i - 1 \in 1 .. n
    BY <1>1
  <2> HIDE DEF body
  <2> QED
    BY <2>3, <2>4
<1>6. FlatRun(s, h)
  <2>1. h = [i \in 1 .. n |-> h[i]]
    OBVIOUS
  <2> HIDE DEF h
  <2> QED
    BY <1>5, <2>1 DEF FlatRun, n
<1> DEFINE g == CHOOSE u : FlatRun(s, u)
<1>7. FlatRun(s, g)
  BY <1>6
<1>8. FlattenSeq(s) = g[Len(s)]
  BY DEF FlattenSeq, FlatRun
<1> QED
  BY <1>7, <1>8

\* substitute_parameters replaces the placeholders and nothing else.
LEMMA BindsAll ==
  ASSUME NEW t \in Seq(STRING), NEW params \in [1 .. Len(find_parameters(t)) -> Seq(STRING)]
  PROVE  substitute_parameters(t, find_parameters(t), params) = Bound(t, params)
<1> DEFINE n == Len(t)
           pos == find_parameters(t)
           m == Len(pos)
           s == [i \in 1 .. n |-> Replacement(t, params, i)]
<1>1. n \in Nat /\ DOMAIN t = 1 .. n
  BY LenProperties
<1>2. /\ pos \in Seq(Nat) /\ m \in Nat
      /\ \A k \in 1 .. m : pos[k] \in Placeholders(t) /\ Rank(t, pos[k]) = k
      /\ m <= MAX_PARAMETERS /\ MAX_PARAMETERS \in Nat
      /\ \A i \in Placeholders(t) : Rank(t, i) <= MAX_PARAMETERS => Rank(t, i) <= m
  BY MarksFound, LenProperties, StatementsAssumption
<1>3. /\ Rank(t, 0) = 0
      /\ \A k \in 1 .. n :
           Rank(t, k) = IF k \in Placeholders(t) THEN Rank(t, k - 1) + 1 ELSE Rank(t, k - 1)
  BY RankSteps
<1>4. \A k : Rank(t, k) \in Nat
  BY PlaceholdersFinite
<1>5. Bound(t, params) = FlattenSeq(s)
  BY <1>1 DEF Bound
<1>6. PICK f : SubRun(t, pos, params, f) /\ substitute_parameters(t, pos, params) = f[n].text
  BY <1>2, SubUnfolds
<1> HIDE DEF n, pos, m, s
<1>7. params \in [1 .. m -> Seq(STRING)]
  BY DEF m, pos
<1>8. /\ f[0] = [text |-> <<>>, idx |-> 1]
      /\ \A k \in 1 .. n : f[k] = SubStep(t, pos, params, k, f[k - 1])
  <2>1. f = [i \in 0 .. n |->
              IF i = 0 THEN [text |-> <<>>, idx |-> 1] ELSE SubStep(t, pos, params, i, f[i - 1])]
    BY <1>6 DEF SubRun, n
  <2>2. 0 \in 0 .. n /\ \A k \in 1 .. n : k \in 0 .. n /\ k # 0
    BY <1>1
  <2> QED
    BY <2>1, <2>2
<1>9. \A k \in 1 .. n : t[k] \in STRING
  BY ElementOfSeq DEF n
<1> DEFINE before(k) == IF Rank(t, k) <= m THEN Rank(t, k) ELSE m
\* One round appends one replacement.
<1>10. ASSUME NEW k \in 1 .. n, NEW x \in Seq(STRING),
              f[k - 1] = [text |-> x, idx |-> before(k - 1) + 1]
       PROVE  f[k] = [text |-> x \o Replacement(t, params, k), idx |-> before(k) + 1]
              /\ Replacement(t, params, k) \in Seq(STRING)
  <2> DEFINE o == f[k - 1]
  <2>1. o.text = x /\ o.idx = before(k - 1) + 1 /\ Rank(t, k) \in Nat /\ Rank(t, k - 1) \in Nat
    BY <1>4, <1>10
  <2>2. f[k] = SubStep(t, pos, params, k, o)
    BY <1>8
  <2>3. Append(x, t[k]) = x \o <<t[k]>> /\ <<t[k]>> \in Seq(STRING)
    BY <1>9, AppendIsConcat
  <2> HIDE DEF o
  <2>4. CASE k \in Placeholders(t) /\ Rank(t, k) <= m
    <3>1. Rank(t, k) = Rank(t, k - 1) + 1
      BY <1>3, <2>4
    <3>2. o.idx = Rank(t, k) /\ o.idx \in 1 .. m /\ before(k) = o.idx
      BY <1>2, <2>1, <2>4, <3>1
    <3>3. pos[o.idx] \in Placeholders(t) /\ Rank(t, pos[o.idx]) = Rank(t, k)
      BY <1>2, <3>2
    <3>4. pos[o.idx] = k
      BY <2>4, <3>3, RankIsOne
    <3>5. Replacement(t, params, k) = params[o.idx]
      BY <1>2, <2>1, <2>4, <3>2 DEF Replacement
    <3>6. params[o.idx] \in Seq(STRING)
      BY <1>7, <3>2
    <3>7. o.idx <= Len(pos)
      BY <3>2, <1>2 DEF m
    <3>8. f[k] = [text |-> x \o params[o.idx], idx |-> o.idx + 1]
      BY <2>1, <2>2, <3>4, <3>7 DEF SubStep
    <3> QED
      BY <3>2, <3>5, <3>6, <3>8
  <2>5. CASE ~ (k \in Placeholders(t) /\ Rank(t, k) <= m)
    <3>1. ~ (o.idx <= Len(pos) /\ pos[o.idx] = k)
      <4> SUFFICES ASSUME o.idx <= Len(pos), pos[o.idx] = k PROVE FALSE
        OBVIOUS
      <4>1. o.idx \in 1 .. m
        BY <1>2, <2>1 DEF m
      <4>2. k \in Placeholders(t) /\ Rank(t, k) = o.idx
        BY <1>2, <4>1
      <4> QED
        BY <1>2, <2>5, <4>1, <4>2
    <3>2. Replacement(t, params, k) = <<t[k]>>
      BY <1>2, <2>5 DEF Replacement
    <3>3. before(k) = before(k - 1)
      <4>1. CASE k \in Placeholders(t)
        <5>1. Rank(t, k) = Rank(t, k - 1) + 1 /\ ~ (Rank(t, k) <= m)
          BY <1>3, <2>5, <4>1
        <5> QED
          BY <1>2, <2>1, <5>1
      <4>2. CASE k \notin Placeholders(t)
        BY <1>3, <4>2
      <4> QED
        BY <4>1, <4>2
    <3>4. f[k] = [text |-> Append(x, t[k]), idx |-> o.idx]
      BY <2>1, <2>2, <3>1 DEF SubStep
    <3> QED
      BY <2>1, <2>3, <3>2, <3>3, <3>4
  <2> QED
    BY <2>4, <2>5
<1>11. CASE n = 0
  <2>1. f[n].text = <<>>
    BY <1>8, <1>11
  <2>2. s = <<>> /\ Len(s) = 0
    BY <1>11 DEF s
  <2> QED
    BY <1>5, <1>6, <2>1, <2>2 DEF FlattenSeq, pos
<1>12. CASE n # 0
  <2>1. 1 \in 1 .. n /\ n \in 1 .. n
    BY <1>1, <1>12
  <2> DEFINE typed(k) == f[k].text \in Seq(STRING) /\ f[k] = [text |-> f[k].text, idx |-> before(k) + 1]
             Typed == {k \in 0 .. n : typed(k)}
  <2>2. 0 \in Typed
    <3>1. before(0) = 0
      BY <1>2, <1>3
    <3>2. f[0].text = <<>> /\ <<>> \in Seq(STRING)
      BY <1>8
    <3>3. typed(0)
      BY <1>8, <3>1, <3>2
    <3> QED
      BY <1>1, <3>3
  <2>3. ASSUME NEW k \in 1 .. n, k - 1 \in Typed PROVE k \in Typed
    <3> DEFINE x == f[k - 1].text
               y == Replacement(t, params, k)
    <3>1. x \in Seq(STRING) /\ f[k - 1] = [text |-> x, idx |-> before(k - 1) + 1]
      BY <2>3
    <3> HIDE DEF x, y, before
    <3>2. f[k] = [text |-> x \o y, idx |-> before(k) + 1] /\ y \in Seq(STRING)
      BY <1>10, <3>1 DEF y, before
    <3>3. x \o y \in Seq(STRING)
      BY <3>1, <3>2, ConcatProperties
    <3>4. typed(k) /\ k \in 0 .. n
      BY <1>1, <3>2, <3>3
    <3> QED
      BY <3>4
  <2>4. \A k \in 0 .. n : typed(k)
    <3>1. \A k \in 0 .. n : k \in Typed
      <4> HIDE DEF Typed
      <4> QED
        BY <1>1, <2>2, <2>3, RoundsKeep
    <3> QED
      BY <3>1
  <2>5. \A k \in 1 .. n : /\ f[k].text = f[k - 1].text \o Replacement(t, params, k)
                          /\ Replacement(t, params, k) \in Seq(STRING)
    <3> SUFFICES ASSUME NEW k \in 1 .. n
                 PROVE  /\ f[k].text = f[k - 1].text \o Replacement(t, params, k)
                        /\ Replacement(t, params, k) \in Seq(STRING)
      OBVIOUS
    <3>1. k - 1 \in 0 .. n
      BY <1>1
    <3> DEFINE x == f[k - 1].text
               y == Replacement(t, params, k)
    <3>2. x \in Seq(STRING) /\ f[k - 1] = [text |-> x, idx |-> before(k - 1) + 1]
      BY <2>4, <3>1
    <3> HIDE DEF x, y, before
    <3>3. f[k] = [text |-> x \o y, idx |-> before(k) + 1] /\ y \in Seq(STRING)
      BY <1>10, <3>2 DEF y, before
    <3> QED
      BY <3>3 DEF x, y
  <2>6. Len(s) = n /\ \A k \in 1 .. n : s[k] = Replacement(t, params, k) /\ s[k] \in Seq(STRING)
    BY <1>1, <2>5 DEF s
  <2>7. PICK h : FlatRun(s, h) /\ FlattenSeq(s) = h[n]
    BY <1>1, <1>12, <2>6, FlattenUnfolds
  <2>8. \A k \in 1 .. n : h[k] = IF k = 1 THEN s[1] ELSE h[k - 1] \o s[k]
    BY <2>6, <2>7 DEF FlatRun
  <2> DEFINE Same == {k \in 0 .. n : k = 0 \/ h[k] = f[k].text}
  <2>9. 0 \in Same
    BY <1>1
  <2>10. ASSUME NEW k \in 1 .. n, k - 1 \in Same PROVE k \in Same
    <3>1. k \in 0 .. n
      BY <1>1
    <3>2. CASE k = 1
      <4>0. f[0].text = <<>>
        BY <1>8
      <4>1. f[0].text = <<>> /\ f[1].text = f[0].text \o s[1] /\ s[1] \in Seq(STRING)
        <5>1. f[1].text = f[1 - 1].text \o Replacement(t, params, 1)
          BY <2>1, <2>5
        <5>2. 1 - 1 = 0
          OBVIOUS
        <5> QED
          BY <2>1, <2>6, <4>0, <5>1, <5>2
      <4>2. <<>> \o s[1] = s[1]
        BY <4>1, ConcatEmptySeq
      <4>3. h[1] = s[1]
        BY <2>1, <2>8
      <4> QED
        BY <3>1, <3>2, <4>1, <4>2, <4>3
    <3>3. CASE k # 1
      <4>1. h[k - 1] = f[k - 1].text
        BY <2>10, <3>3
      <4>2. h[k] = h[k - 1] \o s[k]
        BY <2>8, <3>3
      <4>3. f[k].text = f[k - 1].text \o s[k]
        BY <2>5, <2>6
      <4> QED
        BY <3>1, <4>1, <4>2, <4>3
    <3> QED
      BY <3>2, <3>3
  <2>11. n \in Same
    <3>1. n \in 0 .. n
      BY <1>1
    <3> HIDE DEF Same
    <3> QED
      BY <1>1, <2>9, <2>10, <3>1, RoundsKeep
  <2> QED
    BY <1>5, <1>6, <1>12, <2>7, <2>11 DEF pos
<1> QED
  BY <1>11, <1>12

-----------------------------------------------------------------------------
(* The statements of a connection. *)

Stmt == [name : StmtName, template : Template, positions : Seq(Nat)]

\* What a connection's array holds is what was prepared on it.
StoreListed(s, pr) ==
  /\ s \in Seq(Stmt) /\ Len(s) <= MAX_PREPARED_STMTS
  /\ \A i \in 1 .. Len(s) : /\ s[i].template = pr[s[i].name]
                            /\ s[i].positions = find_parameters(s[i].template)
  /\ \A i, j \in 1 .. Len(s) : s[i].name = s[j].name => i = j
  /\ pr \in [StmtName -> Template \cup {NotPrepared}]
  /\ \A n \in StmtName : pr[n] # NotPrepared => \E i \in 1 .. Len(s) : s[i].name = n
StoreInv ==
  /\ store \in [StmtConn -> Seq(Stmt)] /\ DOMAIN prepared = StmtConn
  /\ prepared = [c \in StmtConn |-> prepared[c]]
  /\ \A c \in StmtConn : StoreListed(store[c], prepared[c])

LEMMA StoreListedFacts ==
  ASSUME NEW s, NEW pr, StoreListed(s, pr)
  PROVE  /\ Len(s) \in Nat /\ DOMAIN s = 1 .. Len(s)
         /\ \A i \in 1 .. Len(s) : /\ s[i] \in Stmt /\ s[i].name \in StmtName
                                   /\ s[i].template \in Template /\ s[i].template \in Seq(STRING)
                                   /\ pr[s[i].name] = s[i].template
                                   /\ pr[s[i].name] # NotPrepared
<1>1. Len(s) \in Nat /\ DOMAIN s = 1 .. Len(s)
  BY LenProperties DEF StoreListed
<1> SUFFICES ASSUME NEW i \in 1 .. Len(s)
             PROVE  /\ s[i] \in Stmt /\ s[i].name \in StmtName
                    /\ s[i].template \in Template /\ s[i].template \in Seq(STRING)
                    /\ pr[s[i].name] = s[i].template
                    /\ pr[s[i].name] # NotPrepared
  BY <1>1
<1>2. s[i] \in Stmt
  BY ElementOfSeq DEF StoreListed
<1>3. s[i].name \in StmtName /\ s[i].template \in Template
  BY <1>2 DEF Stmt
<1>4. s[i].template \in Seq(STRING) /\ s[i].template # NotPrepared
  BY <1>3, StatementsAssumption DEF NotPrepared
<1> QED
  BY <1>2, <1>3, <1>4 DEF StoreListed

\* stmt_find finds the statement of that name, if one is listed.
LEMMA StmtFound ==
  ASSUME NEW c \in StmtConn, NEW n \in StmtName, StoreListed(store[c], prepared[c])
  PROVE  /\ stmt_find(c, n) = 0 => prepared[c][n] = NotPrepared
                                   /\ \A i \in 1 .. Len(store[c]) : store[c][i].name # n
         /\ stmt_find(c, n) # 0 => stmt_find(c, n) \in 1 .. Len(store[c])
                                   /\ store[c][stmt_find(c, n)].name = n
                                   /\ prepared[c][n] # NotPrepared
<1> DEFINE s == store[c]
           m == {i \in DOMAIN s : s[i].name = n}
           k == CHOOSE i \in m : \A j \in m : i <= j
<1>1. Len(s) \in Nat /\ DOMAIN s = 1 .. Len(s)
  BY StoreListedFacts
<1>2. m \subseteq Nat /\ m \subseteq 1 .. Len(s)
  BY <1>1
<1>3. stmt_find(c, n) = IF m = {} THEN 0 ELSE k
  BY DEF stmt_find
<1>4. CASE m = {}
  <2>1. \A i \in 1 .. Len(s) : s[i].name # n
    BY <1>1, <1>4
  <2>2. prepared[c][n] = NotPrepared
    BY <2>1 DEF StoreListed
  <2> QED
    BY <1>3, <1>4, <2>1, <2>2
<1>5. CASE m # {}
  <2>1. k \in m
    <3> HIDE DEF m
    <3>1. \E i \in m : \A j \in m : i <= j
      BY <1>2, <1>5, LeastNumber
    <3> QED
      BY <3>1
  <2> HIDE DEF k
  <2>2. k \in 1 .. Len(s) /\ s[k].name = n /\ k # 0
    BY <1>1, <2>1
  <2>3. prepared[c][n] # NotPrepared
    BY <2>2, StoreListedFacts
  <2> QED
    BY <1>3, <1>5, <2>2, <2>3
<1> QED
  BY <1>4, <1>5

LEMMA PreparedListed ==
  ASSUME NEW s, NEW pr, StoreListed(s, pr), NEW n \in StmtName, NEW t \in Template,
         \A i \in 1 .. Len(s) : s[i].name # n, Len(s) < MAX_PREPARED_STMTS
  PROVE  StoreListed(Append(s, [name |-> n, template |-> t, positions |-> find_parameters(t)]),
                [pr EXCEPT ![n] = t])
<1> DEFINE e == [name |-> n, template |-> t, positions |-> find_parameters(t)]
           q == Append(s, e)
           pn == [pr EXCEPT ![n] = t]
<1>0. t \in Seq(STRING) /\ MAX_PREPARED_STMTS \in Nat
  BY StatementsAssumption
<1>1. e \in Stmt /\ e.name = n /\ e.template = t /\ e.positions = find_parameters(t)
  BY <1>0, MarksFound DEF Stmt
<1>2. /\ Len(s) \in Nat /\ s \in Seq(Stmt) /\ pr \in [StmtName -> Template \cup {NotPrepared}]
      /\ \A i \in 1 .. Len(s) : s[i].name \in StmtName
  BY StoreListedFacts DEF StoreListed
<1> HIDE DEF e
<1>3. /\ q \in Seq(Stmt) /\ Len(q) = Len(s) + 1 /\ q[Len(s) + 1] = e
      /\ \A i \in 1 .. Len(s) : q[i] = s[i]
  BY <1>1, <1>2, AppendProperties
<1>4. \A i \in 1 .. Len(q) : i \in 1 .. Len(s) \/ i = Len(s) + 1
  BY <1>2, <1>3
<1> HIDE DEF q
<1>5. /\ pn \in [StmtName -> Template \cup {NotPrepared}] /\ pn[n] = t
      /\ \A x \in StmtName : x # n => pn[x] = pr[x]
  BY <1>2
<1> HIDE DEF pn
<1>6. \A i \in 1 .. Len(q) : /\ q[i].template = pn[q[i].name]
                            /\ q[i].positions = find_parameters(q[i].template)
  BY <1>1, <1>2, <1>3, <1>4, <1>5 DEF StoreListed
<1>7. \A i, j \in 1 .. Len(q) : q[i].name = q[j].name => i = j
  <2> SUFFICES ASSUME NEW i \in 1 .. Len(q), NEW j \in 1 .. Len(q), q[i].name = q[j].name
               PROVE  i = j
    OBVIOUS
  <2>1. \A x, y \in 1 .. Len(s) : s[x].name = s[y].name => x = y
    BY DEF StoreListed
  <2> QED
    BY <1>1, <1>3, <1>4, <2>1
<1>8. ASSUME NEW x \in StmtName, pn[x] # NotPrepared PROVE \E i \in 1 .. Len(q) : q[i].name = x
  <2>1. CASE x = n
    <3>1. Len(s) + 1 \in 1 .. Len(q)
      BY <1>2, <1>3
    <3> QED
      BY <1>1, <1>3, <2>1, <3>1
  <2>2. CASE x # n
    <3>1. PICK i \in 1 .. Len(s) : s[i].name = x
      BY <1>5, <1>8, <2>2 DEF StoreListed
    <3>2. i \in 1 .. Len(q)
      BY <1>2, <1>3, <3>1
    <3> QED
      BY <1>3, <3>1, <3>2
  <2> QED
    BY <2>1, <2>2
<1>9. Len(q) <= MAX_PREPARED_STMTS
  BY <1>0, <1>2, <1>3
<1>10. StoreListed(q, pn)
  BY <1>3, <1>5, <1>6, <1>7, <1>8, <1>9 DEF StoreListed
<1> QED
  BY <1>10 DEF q, pn, e

LEMMA DeallocatedListed ==
  ASSUME NEW s, NEW pr, StoreListed(s, pr), NEW k \in 1 .. Len(s)
  PROVE  StoreListed(RemoveAt(s, k), [pr EXCEPT ![s[k].name] = NotPrepared])
<1> DEFINE q == RemoveAt(s, k)
           n == s[k].name
           pn == [pr EXCEPT ![n] = NotPrepared]
           at(i) == IF i < k THEN i ELSE i + 1
<1>1. /\ Len(s) \in Nat /\ s \in Seq(Stmt) /\ pr \in [StmtName -> Template \cup {NotPrepared}]
      /\ \A i \in 1 .. Len(s) : s[i].name \in StmtName
      /\ Len(s) <= MAX_PREPARED_STMTS /\ MAX_PREPARED_STMTS \in Nat
  <2>1. Len(s) \in Nat /\ \A i \in 1 .. Len(s) : s[i].name \in StmtName
    BY StoreListedFacts
  <2> QED
    BY <2>1, StatementsAssumption DEF StoreListed
<1>2. /\ q \in Seq(Stmt) /\ Len(q) = Len(s) - 1
      /\ \A i \in 1 .. Len(s) - 1 : q[i] = s[at(i)]
  BY <1>1, RemoveAtProperties
<1>3. \A i \in 1 .. Len(q) : at(i) \in 1 .. Len(s) /\ at(i) # k /\ q[i] = s[at(i)]
  BY <1>1, <1>2
<1>4. \A x, y \in 1 .. Len(s) : s[x].name = s[y].name => x = y
  BY DEF StoreListed
<1> HIDE DEF q, n
<1>5. n \in StmtName
  BY <1>1 DEF n
<1>6. /\ pn \in [StmtName -> Template \cup {NotPrepared}] /\ pn[n] = NotPrepared
      /\ \A x \in StmtName : x # n => pn[x] = pr[x]
  BY <1>1, <1>5
<1> HIDE DEF pn
<1>7. \A i \in 1 .. Len(q) : q[i].name # n /\ q[i].name \in StmtName
  BY <1>1, <1>3, <1>4 DEF n
<1>8. \A i \in 1 .. Len(q) : /\ q[i].template = pn[q[i].name]
                            /\ q[i].positions = find_parameters(q[i].template)
  BY <1>3, <1>6, <1>7 DEF StoreListed
<1>9. ASSUME NEW i \in 1 .. Len(q), NEW j \in 1 .. Len(q), q[i].name = q[j].name PROVE i = j
  <2>1. at(i) = at(j)
    BY <1>3, <1>4, <1>9
  <2>2. i \in Int /\ j \in Int /\ k \in Int
    BY <1>1, <1>2
  <2> QED
    BY <2>1, <2>2
<1>10. ASSUME NEW x \in StmtName, pn[x] # NotPrepared PROVE \E i \in 1 .. Len(q) : q[i].name = x
  <2>1. x # n
    BY <1>6, <1>10
  <2>2. PICK j \in 1 .. Len(s) : s[j].name = x
    BY <1>6, <1>10, <2>1 DEF StoreListed
  <2> DEFINE i == IF j < k THEN j ELSE j - 1
  <2>3. j # k
    BY <2>1, <2>2 DEF n
  <2>4. i \in 1 .. Len(q) /\ at(i) = j
    BY <1>1, <1>2, <2>3
  <2> QED
    BY <1>3, <2>2, <2>4
<1>11. Len(q) <= MAX_PREPARED_STMTS
  BY <1>1, <1>2
<1>12. StoreListed(q, pn)
  BY <1>2, <1>6, <1>8, <1>9, <1>10, <1>11 DEF StoreListed
<1> QED
  BY <1>12 DEF q, pn, n

LEMMA NothingListed == StoreListed(<<>>, [n \in StmtName |-> NotPrepared])
<1>1. <<>> \in Seq(Stmt) /\ Len(<<>>) = 0 /\ 1 .. 0 = {} /\ 0 <= MAX_PREPARED_STMTS
  BY StatementsAssumption
<1> QED
  BY <1>1 DEF StoreListed

\* The other connections are not touched.
LEMMA StoreChanged ==
  ASSUME StoreInv, NEW c \in StmtConn, NEW s, NEW pr, StoreListed(s, pr),
         store' = [store EXCEPT ![c] = s], prepared' = [prepared EXCEPT ![c] = pr]
  PROVE  StoreInv'
<1>1. s \in Seq(Stmt)
  BY DEF StoreListed
<1>2. store' \in [StmtConn -> Seq(Stmt)] /\ DOMAIN prepared' = StmtConn
      /\ prepared' = [d \in StmtConn |-> prepared'[d]]
  BY <1>1 DEF StoreInv
<1>3. ASSUME NEW d \in StmtConn PROVE StoreListed(store'[d], prepared'[d])
  <2>1. CASE d = c
    BY <2>1 DEF StoreInv
  <2>2. CASE d # c
    BY <2>2 DEF StoreInv
  <2> QED
    BY <2>1, <2>2
<1> QED
  BY <1>2, <1>3 DEF StoreInv

-----------------------------------------------------------------------------
(* The statement cache. *)

Places == 0 .. STMT_CACHE_SIZE - 1
Occupied(ca) == {i \in Places : ca[i] # NoKey}
HeldSizes(ca) == [i \in Places |-> Held(ca[i])]
StmtCacheInv ==
  /\ cache \in [Places -> CacheKey \cup {NoKey}]
  /\ \A i \in Places : cache[i] # NoKey => IndexOf[cache[i]] = i
  /\ cache_count = Cardinality(Occupied(cache))
  /\ cache_memory = SumFunctionOnSet(HeldSizes(cache), Places)

LEMMA PlacesFinite ==
  /\ IsFiniteSet(Places) /\ \A ca : IsFiniteSet(Occupied(ca)) /\ Cardinality(Occupied(ca)) \in Nat
  /\ \A k \in CacheKey : IndexOf[k] \in Places /\ k # NoKey
<1>1. IsFiniteSet(Places)
  BY StatementsAssumption, FS_Interval DEF Places
<1>2. \A ca : Occupied(ca) \subseteq Places
  BY DEF Occupied
<1>3. \A ca : IsFiniteSet(Occupied(ca)) /\ Cardinality(Occupied(ca)) \in Nat
  BY <1>1, <1>2, FS_Subset, FS_CardinalityType
<1>4. \A k \in CacheKey : IndexOf[k] \in Places /\ k # NoKey
  BY StatementsAssumption DEF Places, NoKey
<1> QED
  BY <1>1, <1>3, <1>4

LEMMA HeldIsNat ==
  /\ Held(NoKey) = 0 /\ \A k \in CacheKey \cup {NoKey} : Held(k) \in Nat
BY StatementsAssumption DEF Held

LEMMA PutKeeps ==
  ASSUME StmtCacheInv, NEW k \in CacheKey, cache_put(k)
  PROVE  StmtCacheInv'
<1> DEFINE p == IndexOf[k]
           old == cache[p]
           f == HeldSizes(cache)
           g == HeldSizes(cache')
<1>1. p \in Places /\ k # NoKey /\ IsFiniteSet(Places)
  BY PlacesFinite
<1>2. /\ cache \in [Places -> CacheKey \cup {NoKey}] /\ cache' = [cache EXCEPT ![p] = k]
      /\ cache_count' = cache_count + 1 - (IF old = NoKey THEN 0 ELSE 1)
      /\ cache_memory' = cache_memory + Held(k) - Held(old)
  BY DEF StmtCacheInv, cache_put
<1>3. /\ cache' \in [Places -> CacheKey \cup {NoKey}] /\ cache'[p] = k
      /\ \A i \in Places : i # p => cache'[i] = cache[i]
  BY <1>1, <1>2
<1>4. \A i \in Places : cache'[i] # NoKey => IndexOf[cache'[i]] = i
  BY <1>3 DEF StmtCacheInv
<1> HIDE DEF p, old
<1>5. cache_count' = Cardinality(Occupied(cache'))
  <2>1. cache_count = Cardinality(Occupied(cache)) /\ cache_count \in Nat
    BY PlacesFinite DEF StmtCacheInv
  <2>2. CASE old = NoKey
    <3>1. Occupied(cache') = Occupied(cache) \cup {p} /\ p \notin Occupied(cache)
      BY <1>1, <1>3, <2>2 DEF Occupied, old
    <3>2. Cardinality(Occupied(cache')) = Cardinality(Occupied(cache)) + 1
      BY <3>1, PlacesFinite, FS_AddElement
    <3> QED
      BY <1>2, <2>1, <2>2, <3>2
  <2>3. CASE old # NoKey
    <3>1. Occupied(cache') = Occupied(cache)
      BY <1>1, <1>3, <2>3 DEF Occupied, old
    <3> QED
      BY <1>2, <2>1, <2>3, <3>1
  <2> QED
    BY <2>2, <2>3
<1>6. cache_memory' = SumFunctionOnSet(g, Places)
  <2>1. /\ f[p] = Held(old) /\ g[p] = Held(k) /\ \A i \in Places : i # p => f[i] = g[i]
        /\ \A i \in Places : f[i] \in Int /\ g[i] \in Int
    <3>1. \A i \in Places : f[i] = Held(cache[i]) /\ g[i] = Held(cache'[i])
      BY DEF HeldSizes
    <3>2. \A i \in Places : f[i] \in Int /\ g[i] \in Int
      <4>1. ASSUME NEW i \in Places PROVE Held(cache[i]) \in Int /\ Held(cache'[i]) \in Int
        <5>1. cache[i] \in CacheKey \cup {NoKey} /\ cache'[i] \in CacheKey \cup {NoKey}
          BY <1>2, <1>3
        <5>2. Held(cache[i]) \in Nat /\ Held(cache'[i]) \in Nat
          BY <5>1, HeldIsNat
        <5> QED
          BY <5>2
      <4> QED
        BY <3>1, <4>1
    <3> HIDE DEF f, g
    <3> QED
      BY <1>1, <1>3, <3>1, <3>2 DEF old
  <2>2. cache_memory = SumFunctionOnSet(f, Places)
    BY DEF StmtCacheInv
  <2> HIDE DEF f, g
  <2>3. SumFunctionOnSet(g, Places) = SumFunctionOnSet(f, Places) - f[p] + g[p]
    BY <1>1, <2>1, SumChanges
  <2>4. SumFunctionOnSet(f, Places) \in Int
    BY <1>1, <2>1, SumIsInt
  <2>5. f[p] \in Int /\ g[p] \in Int
    BY <1>1, <2>1
  <2> QED
    BY <1>2, <2>1, <2>2, <2>3, <2>4, <2>5
<1> QED
  BY <1>3, <1>4, <1>5, <1>6 DEF StmtCacheInv

LEMMA InvalidateKeeps ==
  ASSUME StmtCacheInv, NEW K \in SUBSET CacheKey, cache_invalidate(K)
  PROVE  StmtCacheInv'
<1> DEFINE hit == {i \in Places : cache[i] \in K}
           rest == Places \ hit
           f == HeldSizes(cache)
           g == HeldSizes(cache')
<1>1. cache \in [Places -> CacheKey \cup {NoKey}] /\ DOMAIN cache = Places
  BY DEF StmtCacheInv
<1>2. /\ cache' = [i \in Places |-> IF i \in hit THEN NoKey ELSE cache[i]]
      /\ cache_count' = cache_count - Cardinality(hit)
      /\ cache_memory' = cache_memory - SumFunctionOnSet(f, hit)
  BY <1>1 DEF cache_invalidate, HeldSizes
<1>3. /\ IsFiniteSet(Places) /\ IsFiniteSet(hit) /\ IsFiniteSet(rest)
      /\ Places = hit \cup rest /\ hit \cap rest = {}
      /\ NoKey \notin K
  <2>1. IsFiniteSet(Places)
    BY PlacesFinite
  <2>2. hit \subseteq Places /\ rest \subseteq Places
    OBVIOUS
  <2>3. IsFiniteSet(hit) /\ IsFiniteSet(rest)
    BY <2>1, <2>2, FS_Subset
  <2> QED
    BY <2>1, <2>3, PlacesFinite
<1>4. /\ cache' \in [Places -> CacheKey \cup {NoKey}]
      /\ \A i \in hit : i \in Places /\ cache'[i] = NoKey /\ cache[i] # NoKey
      /\ \A i \in rest : i \in Places /\ cache'[i] = cache[i]
  BY <1>1, <1>2, <1>3
<1> HIDE DEF hit, rest
<1>5. \A i \in Places : cache'[i] # NoKey => IndexOf[cache'[i]] = i
  BY <1>3, <1>4 DEF StmtCacheInv
<1>6. cache_count' = Cardinality(Occupied(cache'))
  <2>1. Occupied(cache) = Occupied(cache') \cup hit /\ Occupied(cache') \cap hit = {}
    BY <1>3, <1>4 DEF Occupied
  <2>2. cache_count = Cardinality(Occupied(cache'))
                        + Cardinality(hit) - Cardinality(Occupied(cache') \cap hit)
    BY <1>3, <2>1, PlacesFinite, FS_Union DEF StmtCacheInv
  <2>3. Cardinality({}) = 0
    BY FS_EmptySet
  <2>4. Cardinality(hit) \in Nat
    BY <1>3, FS_CardinalityType
  <2>5. Cardinality(Occupied(cache')) \in Nat
    BY PlacesFinite, FS_CardinalityType
  <2> QED
    BY <1>2, <2>1, <2>2, <2>3, <2>4, <2>5
<1>7. cache_memory' = SumFunctionOnSet(g, Places)
  <2>1. \A i \in Places : f[i] = Held(cache[i]) /\ g[i] = Held(cache'[i])
    BY DEF HeldSizes
  <2>2. \A i \in Places : f[i] \in Int
    <3>1. ASSUME NEW i \in Places PROVE Held(cache[i]) \in Int
      <4>1. cache[i] \in CacheKey \cup {NoKey}
        BY <1>1
      <4>2. Held(cache[i]) \in Nat
        BY <4>1, HeldIsNat
      <4> QED
        BY <4>2
    <3> HIDE DEF f
    <3> QED
      BY <2>1, <3>1
  <2>3. cache_memory = SumFunctionOnSet(f, Places)
    BY DEF StmtCacheInv
  <2> HIDE DEF f, g
  <2>4. (\A i \in hit : g[i] = 0) /\ \A i \in rest : g[i] = f[i] /\ g[i] \in Int
    BY <1>4, <2>1, <2>2, HeldIsNat
  <2>5. SumFunctionOnSet(f, Places) = SumFunctionOnSet(f, hit) + SumFunctionOnSet(f, rest)
    BY <1>3, <2>2, SumJoins
  <2>6. SumFunctionOnSet(g, Places) = SumFunctionOnSet(g, hit) + SumFunctionOnSet(g, rest)
    <3>1. \A i \in hit \cup rest : g[i] \in Int
      BY <2>4
    <3> QED
      BY <1>3, <3>1, SumJoins
  <2>7. SumFunctionOnSet(g, hit) = 0 /\ SumFunctionOnSet(g, rest) = SumFunctionOnSet(f, rest)
    BY <1>3, <2>4, SumIsZero, SumOfSame
  <2>8. SumFunctionOnSet(f, hit) \in Int /\ SumFunctionOnSet(f, rest) \in Int
    <3>1. (\A i \in hit : f[i] \in Int) /\ \A i \in rest : f[i] \in Int
      BY <1>3, <2>2
    <3> QED
      BY <1>3, <3>1, SumIsInt
  <2> QED
    BY <1>2, <2>3, <2>5, <2>6, <2>7, <2>8
<1> QED
  BY <1>4, <1>5, <1>6, <1>7 DEF StmtCacheInv

-----------------------------------------------------------------------------

LEMMA InitStatements == prepared_init => StoreInv /\ StmtCacheInv
<1> SUFFICES ASSUME prepared_init PROVE StoreInv /\ StmtCacheInv
  OBVIOUS
<1>1. StoreInv
  <2>1. store = [c \in StmtConn |-> <<>>] /\ prepared = [c \in StmtConn |-> [n \in StmtName |-> NotPrepared]]
    BY DEF prepared_init
  <2>2. <<>> \in Seq(Stmt)
    OBVIOUS
  <2> QED
    BY <2>1, <2>2, NothingListed DEF StoreInv
<1>2. StmtCacheInv
  <2>1. cache = [i \in Places |-> NoKey] /\ cache_count = 0 /\ cache_memory = 0
    BY DEF prepared_init, Places
  <2>2. Occupied(cache) = {} /\ \A i \in Places : HeldSizes(cache)[i] = 0
    BY <2>1, HeldIsNat DEF Occupied, HeldSizes
  <2>3. Cardinality({}) = 0 /\ SumFunctionOnSet(HeldSizes(cache), Places) = 0
    BY <2>2, FS_EmptySet, PlacesFinite, SumIsZero
  <2> QED
    BY <2>1, <2>2, <2>3 DEF StmtCacheInv
<1> QED
  BY <1>1, <1>2

LEMMA NextStatements ==
  StoreInv /\ StmtCacheInv /\ [StatementsNext]_stvars => (StoreInv /\ StmtCacheInv)'
<1> SUFFICES ASSUME StoreInv, StmtCacheInv, [StatementsNext]_stvars PROVE (StoreInv /\ StmtCacheInv)'
  OBVIOUS
<1> USE DEF CacheSame
<1>0. ASSUME UNCHANGED <<cache, cache_count, cache_memory>> PROVE StmtCacheInv'
  BY <1>0 DEF StmtCacheInv
<1>00. ASSUME UNCHANGED <<store, prepared>> PROVE StoreInv'
  BY <1>00 DEF StoreInv
<1>1. \A c \in StmtConn : /\ StoreListed(store[c], prepared[c])
                          /\ \A pr : [prepared EXCEPT ![c] = pr][c] = pr
  BY DEF StoreInv
<1>2. ASSUME NEW c \in StmtConn, NEW n \in StmtName, NEW t \in Template, stmt_prepare(c, n, t)
      PROVE  (StoreInv /\ StmtCacheInv)'
  <2> DEFINE e == [name |-> n, template |-> t, positions |-> find_parameters(t)]
  <2>1. /\ stmt_find(c, n) = 0 /\ Len(store[c]) < MAX_PREPARED_STMTS
        /\ store' = [store EXCEPT ![c] = Append(store[c], e)]
        /\ prepared' = [prepared EXCEPT ![c] = [prepared[c] EXCEPT ![n] = t]]
        /\ UNCHANGED <<cache, cache_count, cache_memory>>
    BY <1>2 DEF stmt_prepare
  <2>2. \A i \in 1 .. Len(store[c]) : store[c][i].name # n
    BY <1>1, <2>1, StmtFound
  <2>3. StoreListed(Append(store[c], e), [prepared[c] EXCEPT ![n] = t])
    BY <1>1, <2>1, <2>2, PreparedListed
  <2> HIDE DEF e
  <2> QED
    BY <1>0, <2>1, <2>3, StoreChanged
<1>3. ASSUME NEW c \in StmtConn, NEW n \in StmtName, NEW p \in Params, stmt_execute(c, n, p)
      PROVE  (StoreInv /\ StmtCacheInv)'
  BY <1>0, <1>00, <1>3 DEF stmt_execute
<1>4. ASSUME NEW c \in StmtConn, NEW n \in StmtName, stmt_deallocate(c, n)
      PROVE  (StoreInv /\ StmtCacheInv)'
  <2> DEFINE k == stmt_find(c, n)
  <2>1. /\ k # 0 /\ store' = [store EXCEPT ![c] = RemoveAt(store[c], k)]
        /\ prepared' = [prepared EXCEPT ![c] = [prepared[c] EXCEPT ![n] = NotPrepared]]
        /\ UNCHANGED <<cache, cache_count, cache_memory>>
    BY <1>4 DEF stmt_deallocate
  <2>2. k \in 1 .. Len(store[c]) /\ store[c][k].name = n
    BY <1>1, <2>1, StmtFound
  <2> HIDE DEF k
  <2>3. StoreListed(RemoveAt(store[c], k), [prepared[c] EXCEPT ![n] = NotPrepared])
    BY <1>1, <2>2, DeallocatedListed
  <2> QED
    BY <1>0, <2>1, <2>3, StoreChanged
<1>5. ASSUME NEW c \in StmtConn, stmt_deallocate_all(c) PROVE (StoreInv /\ StmtCacheInv)'
  <2>1. /\ store' = [store EXCEPT ![c] = <<>>]
        /\ prepared' = [prepared EXCEPT ![c] = [n \in StmtName |-> NotPrepared]]
        /\ UNCHANGED <<cache, cache_count, cache_memory>>
    BY <1>5 DEF stmt_deallocate_all
  <2> QED
    BY <1>0, <2>1, NothingListed, StoreChanged
<1>6. ASSUME NEW k \in CacheKey, cache_put(k) PROVE (StoreInv /\ StmtCacheInv)'
  <2>1. UNCHANGED <<store, prepared>>
    BY <1>6 DEF cache_put
  <2> QED
    BY <1>00, <1>6, <2>1, PutKeeps
<1>7. ASSUME NEW K \in SUBSET CacheKey, cache_invalidate(K) PROVE (StoreInv /\ StmtCacheInv)'
  <2>1. UNCHANGED <<store, prepared>>
    BY <1>7 DEF cache_invalidate
  <2> QED
    BY <1>00, <1>7, <2>1, InvalidateKeeps
<1>8. CASE UNCHANGED stvars
  BY <1>0, <1>00, <1>8 DEF stvars
<1> QED
  BY <1>2, <1>3, <1>4, <1>5, <1>6, <1>7, <1>8 DEF StatementsNext

LEMMA StatementsFollow == StoreInv /\ StmtCacheInv => StatementsFaithful
<1> SUFFICES ASSUME StoreInv, StmtCacheInv PROVE StatementsFaithful
  OBVIOUS
<1>1. ASSUME NEW c \in StmtConn PROVE StoreListed(store[c], prepared[c]) /\ Len(store[c]) <= MAX_PREPARED_STMTS
  BY DEF StoreInv, StoreListed
<1>2. ASSUME NEW c \in StmtConn, NEW n \in StmtName, stmt_find(c, n) # 0
      PROVE  LET i == stmt_find(c, n)
             IN  /\ store[c][i].template = prepared[c][n]
                 /\ \A p \in [1 .. Len(store[c][i].positions) -> ParamValue] :
                      substitute_parameters(store[c][i].template, store[c][i].positions, p)
                        = Bound(prepared[c][n], p)
  <2> DEFINE i == stmt_find(c, n)
             t == store[c][i].template
             pos == store[c][i].positions
  <2>1. i \in 1 .. Len(store[c]) /\ store[c][i].name = n
    BY <1>1, <1>2, StmtFound
  <2> HIDE DEF i
  <2>2. t = prepared[c][n] /\ pos = find_parameters(t) /\ t \in Seq(STRING)
    <3>1. t \in Seq(STRING)
      BY <1>1, <2>1, StoreListedFacts
    <3>2. t = prepared[c][n] /\ pos = find_parameters(t)
      BY <1>1, <2>1 DEF StoreListed
    <3> QED
      BY <3>1, <3>2
  <2> HIDE DEF t, pos
  <2>3. ASSUME NEW p \in [1 .. Len(pos) -> ParamValue]
        PROVE  substitute_parameters(t, pos, p) = Bound(t, p)
    <3>1. p \in [1 .. Len(find_parameters(t)) -> Seq(STRING)]
      BY <2>2, StatementsAssumption
    <3> QED
      BY <2>2, <3>1, BindsAll
  <2> QED
    BY <2>2, <2>3 DEF t, pos, i
<1>3. \A c \in StmtConn, n \in StmtName : (stmt_find(c, n) = 0) = (prepared[c][n] = NotPrepared)
  <2> SUFFICES ASSUME NEW c \in StmtConn, NEW n \in StmtName
               PROVE  (stmt_find(c, n) = 0) = (prepared[c][n] = NotPrepared)
    OBVIOUS
  <2>1. stmt_find(c, n) = 0 <=> prepared[c][n] = NotPrepared
    BY <1>1, StmtFound
  <2> QED
    BY <2>1
<1>4. /\ DOMAIN cache = Places /\ cache_count = Cardinality({i \in DOMAIN cache : cache[i] # NoKey})
      /\ cache_memory = SumFunction([i \in DOMAIN cache |-> Held(cache[i])])
  BY DEF StmtCacheInv, Occupied, HeldSizes, SumFunction
<1>5. \A k \in CacheKey, i \in DOMAIN cache : cache[i] = k => i = IndexOf[k]
  BY <1>4, PlacesFinite DEF StmtCacheInv
<1> QED
  BY <1>1, <1>2, <1>3, <1>4, <1>5 DEF StatementsFaithful

\* Prepared statements: a name executes the template last prepared under it on
\* that connection, with its placeholders and nothing else replaced in order,
\* whatever is deallocated in between; the statement cache's counters describe it.
THEOREM StatementsCorrect ==
  prepared_init /\ [][StatementsNext]_stvars => []StatementsFaithful
<1> QED
  BY InitStatements, NextStatements, StatementsFollow, PTL

-----------------------------------------------------------------------------
(* The skip lists of the column indexes. *)

\* A tower of links, and a node.
Forward == UNION {[0 .. h -> Nat] : h \in 0 .. MAX_LEVEL}
SkipNode == [value : Nat, pk : Nat, forward : Forward]
Levels(nodes, x) == DOMAIN nodes[x].forward

\* The order of a level's list: the header, then by value, the newest of equal
\* values first.
Before(nodes, x, y) ==
  y # 1 /\ (x = 1 \/ nodes[x].value < nodes[y].value \/ (nodes[x].value = nodes[y].value /\ x > y))

\* n is the next node after x among those that reach level i; 0, there is none.
Follows(nodes, i, x, n) ==
  /\ n # 0 => n \in DOMAIN nodes /\ i \in Levels(nodes, n) /\ Before(nodes, x, n)
  /\ \A y \in DOMAIN nodes :
       i \in Levels(nodes, y) /\ Before(nodes, x, y) => n # 0 /\ (y = n \/ Before(nodes, n, y))

Linked(nodes) ==
  /\ nodes \in Seq(SkipNode) /\ Len(nodes) >= 1 /\ Levels(nodes, 1) = 0 .. MAX_LEVEL
  /\ \A x \in DOMAIN nodes : \A i \in Levels(nodes, x) : Follows(nodes, i, x, nodes[x].forward[i])

LEMMA LinkedShape ==
  ASSUME NEW nodes, Linked(nodes)
  PROVE  /\ nodes \in Seq(SkipNode) /\ Len(nodes) \in Nat /\ Len(nodes) >= 1
         /\ DOMAIN nodes = 1 .. Len(nodes) /\ 1 \in DOMAIN nodes
         /\ \A x \in DOMAIN nodes :
              /\ nodes[x] \in SkipNode /\ nodes[x].value \in Nat /\ nodes[x].pk \in Nat
              /\ x \in Int /\ x > 0
         /\ Levels(nodes, 1) = 0 .. MAX_LEVEL
<1>1. nodes \in Seq(SkipNode) /\ Len(nodes) >= 1 /\ Levels(nodes, 1) = 0 .. MAX_LEVEL
  BY DEF Linked
<1>2. Len(nodes) \in Nat /\ DOMAIN nodes = 1 .. Len(nodes)
  BY <1>1, LenProperties
<1>3. \A x \in DOMAIN nodes : nodes[x] \in SkipNode
  BY <1>1, ElementOfSeq, <1>2
<1>4. \A e \in SkipNode : e.value \in Nat /\ e.pk \in Nat
  BY DEF SkipNode
<1> QED
  BY <1>1, <1>2, <1>3, <1>4

\* Every level of a tower is one of 0 .. MAX_LEVEL, and those below it are there.
LEMMA LevelsDown ==
  ASSUME NEW nodes, Linked(nodes), NEW x \in DOMAIN nodes
  PROVE  \E h \in 0 .. MAX_LEVEL : Levels(nodes, x) = 0 .. h
<1>1. nodes[x] \in SkipNode
  BY LinkedShape
<1>2. nodes[x].forward \in Forward
  BY <1>1 DEF SkipNode
<1>3. PICK h \in 0 .. MAX_LEVEL : nodes[x].forward \in [0 .. h -> Nat]
  BY <1>2 DEF Forward
<1>4. Levels(nodes, x) = 0 .. h
  BY <1>3 DEF Levels
<1> QED
  BY <1>4

LEMMA BeforeOrders ==
  ASSUME NEW nodes, Linked(nodes), NEW x \in DOMAIN nodes, NEW y \in DOMAIN nodes
  PROVE  /\ ~ Before(nodes, x, x)
         /\ x = y \/ Before(nodes, x, y) \/ Before(nodes, y, x)
         /\ \A z \in DOMAIN nodes :
              Before(nodes, x, y) /\ Before(nodes, y, z) => Before(nodes, x, z)
<1>1. \A z \in DOMAIN nodes : nodes[z].value \in Int /\ z \in Int
  BY LinkedShape
<1>2. ~ Before(nodes, x, x)
  BY <1>1 DEF Before
<1>3. x = y \/ Before(nodes, x, y) \/ Before(nodes, y, x)
  <2>1. nodes[x].value < nodes[y].value \/ nodes[y].value < nodes[x].value
          \/ nodes[x].value = nodes[y].value
    BY <1>1
  <2>2. x < y \/ y < x \/ x = y
    BY <1>1
  <2> QED
    BY <1>1, <2>1, <2>2 DEF Before
<1>4. ASSUME NEW z \in DOMAIN nodes, Before(nodes, x, y), Before(nodes, y, z)
      PROVE  Before(nodes, x, z)
  <2>1. nodes[x].value \in Int /\ nodes[y].value \in Int /\ nodes[z].value \in Int
        /\ x \in Int /\ y \in Int /\ z \in Int
    BY <1>1
  <2> QED
    BY <1>4, <2>1 DEF Before
<1> QED
  BY <1>2, <1>3, <1>4

\* What a walk has in front of it.
Ahead(nodes, x) == {y \in DOMAIN nodes : Before(nodes, x, y)}

LEMMA AheadShrinks ==
  ASSUME NEW nodes, Linked(nodes), NEW x \in DOMAIN nodes
  PROVE  /\ Cardinality(Ahead(nodes, x)) \in Nat /\ Cardinality(Ahead(nodes, x)) <= Len(nodes) - 1
         /\ \A y \in DOMAIN nodes : Before(nodes, x, y) =>
              Cardinality(Ahead(nodes, y)) <= Cardinality(Ahead(nodes, x)) - 1
<1>1. Len(nodes) \in Nat /\ DOMAIN nodes = 1 .. Len(nodes)
  BY LinkedShape
<1>2. IsFiniteSet(1 .. Len(nodes)) /\ Cardinality(1 .. Len(nodes)) = Len(nodes)
  <2> DEFINE n == Len(nodes)
  <2>1. n \in Int /\ 1 \in Int /\ ~ (1 > n) /\ n - 1 + 1 = n
    BY LinkedShape
  <2> HIDE DEF n
  <2>2. IsFiniteSet(1 .. n) /\ Cardinality(1 .. n) = n - 1 + 1
    BY <2>1, FS_Interval
  <2> QED
    BY <2>1, <2>2 DEF n
<1>3. \A y \in DOMAIN nodes : /\ Ahead(nodes, y) \subseteq (1 .. Len(nodes)) \ {y}
                              /\ IsFiniteSet(Ahead(nodes, y))
  <2>1. ASSUME NEW y \in DOMAIN nodes
        PROVE  Ahead(nodes, y) \subseteq (1 .. Len(nodes)) \ {y}
    BY <1>1, BeforeOrders DEF Ahead
  <2>2. \A y \in DOMAIN nodes : Ahead(nodes, y) \subseteq 1 .. Len(nodes)
    BY <2>1
  <2> QED
    BY <1>2, <2>1, <2>2, FS_Subset
<1>4. Cardinality(Ahead(nodes, x)) \in Nat
  BY <1>3, FS_CardinalityType
<1>5. Cardinality(Ahead(nodes, x)) <= Len(nodes) - 1
  <2> DEFINE R == (1 .. Len(nodes)) \ {x}
  <2>1. IsFiniteSet(R) /\ Cardinality(R) = Len(nodes) - 1
    BY <1>1, <1>2, SmallerByOne
  <2> HIDE DEF R
  <2>2. Ahead(nodes, x) \subseteq R
    BY <1>3 DEF R
  <2> QED
    BY <2>1, <2>2, FS_Subset
<1>6. ASSUME NEW y \in DOMAIN nodes, Before(nodes, x, y)
      PROVE  Cardinality(Ahead(nodes, y)) <= Cardinality(Ahead(nodes, x)) - 1
  <2> DEFINE R == Ahead(nodes, x) \ {y}
  <2>1. y \in Ahead(nodes, x)
    BY <1>6 DEF Ahead
  <2>2. IsFiniteSet(R) /\ Cardinality(R) = Cardinality(Ahead(nodes, x)) - 1
    BY <1>3, <2>1, SmallerByOne
  <2>3. Ahead(nodes, y) \subseteq R
    BY <1>3, <1>6, BeforeOrders DEF Ahead
  <2> HIDE DEF R
  <2> QED
    BY <2>2, <2>3, FS_Subset
<1> QED
  BY <1>4, <1>5, <1>6

\* The nodes of a level a search for val may stand on, and where it leaves the level.
Low(nodes, i, val) ==
  {x \in DOMAIN nodes : i \in Levels(nodes, x) /\ (x = 1 \/ nodes[x].value < val)}
Stops(nodes, i, val, x) ==
  nodes[x].forward[i] # 0 => ~ (nodes[nodes[x].forward[i]].value < val)

LEMMA AdvancesOne ==
  ASSUME NEW nodes, Linked(nodes), NEW i, NEW val \in Nat, NEW x \in Low(nodes, i, val)
  PROVE  LET y == AdvanceOne(nodes, x, i, val)
         IN  /\ y \in Low(nodes, i, val)
             /\ IF Stops(nodes, i, val, x) THEN y = x ELSE Before(nodes, x, y)
<1> DEFINE n == nodes[x].forward[i]
<1>1. x \in DOMAIN nodes /\ i \in Levels(nodes, x)
  BY DEF Low
<1>2. Follows(nodes, i, x, n)
  BY <1>1 DEF Linked
<1> HIDE DEF n
<1>3. CASE Stops(nodes, i, val, x)
  BY <1>3 DEF AdvanceOne, Stops
<1>4. CASE ~ Stops(nodes, i, val, x)
  <2>1. AdvanceOne(nodes, x, i, val) = n /\ n # 0 /\ nodes[n].value < val
    BY <1>4 DEF AdvanceOne, Stops, n
  <2>2. n \in DOMAIN nodes /\ i \in Levels(nodes, n) /\ Before(nodes, x, n)
    BY <1>2, <2>1 DEF Follows
  <2> QED
    BY <1>4, <2>1, <2>2 DEF Low
<1> QED
  BY <1>3, <1>4

AdvanceRun(nodes, i, val, x, f) ==
  f = [k \in 0 .. Len(nodes) |-> IF k = 0 THEN x ELSE AdvanceOne(nodes, f[k - 1], i, val)]

LEMMA AdvanceUnfolds ==
  ASSUME NEW nodes, Linked(nodes), NEW i, NEW val \in Nat, NEW x \in Low(nodes, i, val)
  PROVE  \E f : AdvanceRun(nodes, i, val, x, f) /\ Advance(nodes, x, i, val) = f[Len(nodes)]
<1> DEFINE n == Len(nodes)
           S == Low(nodes, i, val)
           body == [z \in (1 .. n) \X S |-> AdvanceOne(nodes, z[2], i, val)]
<1>1. n \in Nat
  BY LinkedShape
<1>2. body \in [(1 .. n) \X S -> S]
  <2>1. \A y \in S : AdvanceOne(nodes, y, i, val) \in S
    BY AdvancesOne
  <2> HIDE DEF S
  <2> QED
    BY <2>1
<1> HIDE DEF n
<1>3. PICK f : Rounds(f, n, S, x, body)
  <2> HIDE DEF body, S
  <2>1. x \in S
    BY DEF S
  <2> QED
    BY <1>1, <1>2, <2>1, RoundsExist
<1> HIDE DEF S
<1>4. AdvanceRun(nodes, i, val, x, f)
  <2>1. f = [k \in 0 .. n |-> f[k]] /\ f[0] = x /\ \A k \in 0 .. n : f[k] \in S
    BY <1>3 DEF Rounds
  <2>2. ASSUME NEW k \in 0 .. n, k # 0 PROVE f[k] = AdvanceOne(nodes, f[k - 1], i, val)
    <3>1. k \in 1 .. n /\ k - 1 \in 0 .. n
      BY <1>1, <2>2
    <3>2. f[k] = body[<<k, f[k - 1]>>]
      BY <1>3, <3>1 DEF Rounds
    <3>3. <<k, f[k - 1]>> \in (1 .. n) \X S
      BY <2>1, <3>1
    <3> QED
      BY <3>2, <3>3
  <2> HIDE DEF body
  <2> QED
    BY <2>1, <2>2 DEF AdvanceRun, n
<1> DEFINE g == CHOOSE h : AdvanceRun(nodes, i, val, x, h)
<1>5. AdvanceRun(nodes, i, val, x, g)
  BY <1>4
<1>6. Advance(nodes, x, i, val) = g[Len(nodes)]
  BY DEF Advance, AdvanceRun
<1> QED
  BY <1>5, <1>6

\* The while loop ends on the last node of the level with a smaller value.
LEMMA AdvanceEnds ==
  ASSUME NEW nodes, Linked(nodes), NEW i, NEW val \in Nat, NEW x \in Low(nodes, i, val)
  PROVE  /\ Advance(nodes, x, i, val) \in Low(nodes, i, val)
         /\ Stops(nodes, i, val, Advance(nodes, x, i, val))
<1> DEFINE n == Len(nodes)
<1>1. n \in Nat
  BY LinkedShape
<1>2. PICK f : AdvanceRun(nodes, i, val, x, f) /\ Advance(nodes, x, i, val) = f[n]
  BY AdvanceUnfolds
<1> HIDE DEF n
<1>3. f[0] = x /\ \A k \in 1 .. n : f[k] = AdvanceOne(nodes, f[k - 1], i, val)
  <2>1. \A k \in 0 .. n : f[k] = IF k = 0 THEN x ELSE AdvanceOne(nodes, f[k - 1], i, val)
    BY <1>2 DEF AdvanceRun, n
  <2> QED
    BY <1>1, <2>1
<1> DEFINE left(k) == Cardinality(Ahead(nodes, f[k]))
           good(k) == /\ f[k] \in Low(nodes, i, val)
                      /\ Stops(nodes, i, val, f[k]) \/ left(k) <= n - 1 - k
           Good == {k \in 0 .. n : good(k)}
<1>4. 0 \in Good
  <2>1. x \in DOMAIN nodes
    BY DEF Low
  <2>2. left(0) <= n - 1 - 0
    BY <1>1, <1>3, <2>1, AheadShrinks DEF n
  <2> QED
    BY <1>1, <1>3, <2>2
<1>5. ASSUME NEW k \in 1 .. n, k - 1 \in Good PROVE k \in Good
  <2>1. good(k - 1) /\ f[k] = AdvanceOne(nodes, f[k - 1], i, val) /\ k \in 0 .. n
    BY <1>1, <1>3, <1>5
  <2>2. /\ f[k] \in Low(nodes, i, val)
        /\ IF Stops(nodes, i, val, f[k - 1]) THEN f[k] = f[k - 1] ELSE Before(nodes, f[k - 1], f[k])
    BY <2>1, AdvancesOne
  <2>3. CASE Stops(nodes, i, val, f[k - 1])
    BY <2>1, <2>2, <2>3
  <2>4. CASE ~ Stops(nodes, i, val, f[k - 1])
    <3>1. f[k] \in DOMAIN nodes /\ f[k - 1] \in DOMAIN nodes
      BY <2>1, <2>2 DEF Low
    <3>2. left(k) <= left(k - 1) - 1 /\ left(k) \in Nat /\ left(k - 1) \in Nat
      BY <2>2, <2>4, <3>1, AheadShrinks
    <3>3. left(k - 1) <= n - 1 - (k - 1)
      BY <2>1, <2>4
    <3> HIDE DEF left
    <3>4. left(k) <= n - 1 - k
      BY <1>1, <3>2, <3>3
    <3> QED
      BY <2>1, <2>2, <3>4
  <2> QED
    BY <2>3, <2>4
<1>6. n \in Good
  <2>1. n \in 0 .. n
    BY <1>1
  <2> HIDE DEF Good
  <2> QED
    BY <1>1, <1>4, <1>5, <2>1, RoundsKeep
<1>7. good(n)
  BY <1>6
<1>8. f[n] \in DOMAIN nodes
  BY <1>7 DEF Low
<1>9. left(n) \in Nat
  BY <1>8, AheadShrinks
<1> HIDE DEF left
<1>10. ~ (left(n) <= n - 1 - n)
  BY <1>1, <1>9
<1> QED
  BY <1>2, <1>7, <1>10

LEMMA LowDown ==
  ASSUME NEW nodes, Linked(nodes), NEW i \in Nat, NEW j \in 0 .. i, NEW val,
         NEW x \in Low(nodes, i, val)
  PROVE  x \in Low(nodes, j, val)
<1>1. x \in DOMAIN nodes
  BY DEF Low
<1>2. PICK h \in 0 .. MAX_LEVEL : Levels(nodes, x) = 0 .. h
  BY <1>1, LevelsDown
<1>3. i \in 0 .. h
  BY <1>2 DEF Low
<1>4. j \in 0 .. h
  BY <1>2, <1>3, SkipAssumption
<1> QED
  BY <1>2, <1>4 DEF Low

DownStep(idx, val, k, x) == Advance(idx.nodes, x, idx.level + 1 - k, val)
DownRun(idx, val, f) ==
  f = [k \in 0 .. idx.level + 1 |-> IF k = 0 THEN 1 ELSE DownStep(idx, val, k, f[k - 1])]

\* What the search knows when it has left k levels.
Came(idx, val, k, x) ==
  IF k = 0 THEN x = 1
  ELSE /\ x \in Low(idx.nodes, idx.level + 1 - k, val)
       /\ Stops(idx.nodes, idx.level + 1 - k, val, x)

LEMMA ComesDown ==
  ASSUME NEW idx, Linked(idx.nodes), idx.level \in 0 .. MAX_LEVEL, NEW val \in Nat,
         NEW k \in 1 .. idx.level + 1, NEW x, Came(idx, val, k - 1, x)
  PROVE  Came(idx, val, k, DownStep(idx, val, k, x))
<1> DEFINE nodes == idx.nodes
           i == idx.level + 1 - k
<1>1. idx.level \in Nat /\ k \in Nat /\ k # 0 /\ i \in Nat /\ i \in 0 .. MAX_LEVEL
  BY SkipAssumption
<1>2. x \in Low(nodes, i, val)
  <2>1. CASE k - 1 = 0
    <3>1. x = 1 /\ i \in Levels(nodes, 1) /\ 1 \in DOMAIN nodes
      BY <1>1, <2>1, LinkedShape DEF Came
    <3> QED
      BY <3>1 DEF Low
  <2>2. CASE k - 1 # 0
    <3>1. idx.level + 1 - (k - 1) = i + 1 /\ i + 1 \in Nat /\ i \in 0 .. i + 1
      BY <1>1
    <3>2. x \in Low(nodes, i + 1, val)
      BY <2>2, <3>1 DEF Came
    <3> HIDE DEF i, nodes
    <3>3. Linked(nodes)
      BY DEF nodes
    <3> QED
      BY <3>1, <3>2, <3>3, LowDown
  <2> QED
    BY <2>1, <2>2
<1>3. Linked(nodes)
  OBVIOUS
<1>4. DownStep(idx, val, k, x) = Advance(nodes, x, i, val)
  BY DEF DownStep
<1> HIDE DEF nodes, i
<1>5. Advance(nodes, x, i, val) \in Low(nodes, i, val) /\ Stops(nodes, i, val, Advance(nodes, x, i, val))
  BY <1>2, <1>3, AdvanceEnds
<1> QED
  BY <1>1, <1>4, <1>5 DEF Came, nodes, i

LEMMA DownUnfolds ==
  ASSUME NEW idx, Linked(idx.nodes), idx.level \in 0 .. MAX_LEVEL, NEW val \in Nat
  PROVE  \E f : /\ DownRun(idx, val, f)
                /\ \A i \in 0 .. idx.level : Predecessor(idx, i, val) = f[idx.level + 1 - i]
<1> DEFINE n == idx.level + 1
           S == DOMAIN idx.nodes
           Step(z) == IF DownStep(idx, val, z[1], z[2]) \in S THEN DownStep(idx, val, z[1], z[2]) ELSE 1
           body == [z \in (1 .. n) \X S |-> Step(z)]
<1>1. n \in Nat
  BY SkipAssumption
<1>2. body \in [(1 .. n) \X S -> S] /\ 1 \in S
  <2>1. 1 \in S
    BY LinkedShape
  <2> QED
    BY <2>1
<1> HIDE DEF n
<1>3. PICK f : Rounds(f, n, S, 1, body)
  <2> HIDE DEF body, S
  <2> QED
    BY <1>1, <1>2, RoundsExist
<1> HIDE DEF S
<1>4. f = [k \in 0 .. n |-> f[k]] /\ f[0] = 1 /\ \A k \in 0 .. n : f[k] \in S
  BY <1>3 DEF Rounds
<1> DEFINE Good == {k \in 0 .. n : Came(idx, val, k, f[k])
                                   /\ (k # 0 => f[k] = DownStep(idx, val, k, f[k - 1]))}
<1>5. 0 \in Good
  BY <1>1, <1>4 DEF Came
<1>6. ASSUME NEW k \in 1 .. n, k - 1 \in Good PROVE k \in Good
  <2>1. k - 1 \in 0 .. n /\ k \in 0 .. n /\ Came(idx, val, k - 1, f[k - 1]) /\ k # 0
    BY <1>1, <1>6
  <2>2. Came(idx, val, k, DownStep(idx, val, k, f[k - 1]))
    BY <2>1, ComesDown DEF n
  <2>3. DownStep(idx, val, k, f[k - 1]) \in S
    BY <2>1, <2>2 DEF Came, Low, S
  <2>4. f[k] = body[<<k, f[k - 1]>>] /\ <<k, f[k - 1]>> \in (1 .. n) \X S
    BY <1>3, <1>4, <2>1 DEF Rounds
  <2>5. f[k] = DownStep(idx, val, k, f[k - 1])
    BY <2>3, <2>4
  <2> HIDE DEF body
  <2> QED
    BY <2>1, <2>2, <2>5
<1> HIDE DEF body
<1>7. \A k \in 0 .. n : k \in Good
  <2> HIDE DEF Good
  <2> QED
    BY <1>1, <1>5, <1>6, RoundsKeep
<1>8. DownRun(idx, val, f)
  <2>1. \A k \in 0 .. n : f[k] = IF k = 0 THEN 1 ELSE DownStep(idx, val, k, f[k - 1])
    BY <1>4, <1>7
  <2> QED
    BY <1>4, <2>1 DEF DownRun, n
<1> DEFINE g == CHOOSE h : DownRun(idx, val, h)
<1>9. DownRun(idx, val, g)
  BY <1>8
<1>10. \A i \in 0 .. idx.level : Predecessor(idx, i, val) = g[idx.level + 1 - i]
  BY DEF Predecessor, DownRun, DownStep
<1> QED
  BY <1>9, <1>10

\* update[i] is the last node of level i with a smaller value.
LEMMA PredecessorFound ==
  ASSUME NEW idx, Linked(idx.nodes), idx.level \in 0 .. MAX_LEVEL, NEW val \in Nat,
         NEW i \in 0 .. idx.level
  PROVE  /\ Predecessor(idx, i, val) \in Low(idx.nodes, i, val)
         /\ Stops(idx.nodes, i, val, Predecessor(idx, i, val))
<1> DEFINE n == idx.level + 1
<1>1. n \in Nat /\ idx.level \in Nat /\ i \in Nat
  BY SkipAssumption
<1>2. PICK f : /\ DownRun(idx, val, f)
               /\ \A j \in 0 .. idx.level : Predecessor(idx, j, val) = f[idx.level + 1 - j]
  BY DownUnfolds
<1> HIDE DEF n
<1>3. f[0] = 1 /\ \A k \in 1 .. n : f[k] = DownStep(idx, val, k, f[k - 1])
  <2>1. \A k \in 0 .. n : f[k] = IF k = 0 THEN 1 ELSE DownStep(idx, val, k, f[k - 1])
    BY <1>2 DEF DownRun, n
  <2> QED
    BY <1>1, <2>1
<1> DEFINE Good == {k \in 0 .. n : Came(idx, val, k, f[k])}
<1>4. 0 \in Good
  BY <1>1, <1>3 DEF Came
<1>5. ASSUME NEW k \in 1 .. n, k - 1 \in Good PROVE k \in Good
  <2>1. Came(idx, val, k - 1, f[k - 1]) /\ f[k] = DownStep(idx, val, k, f[k - 1]) /\ k \in 0 .. n
    BY <1>1, <1>3, <1>5
  <2>2. Came(idx, val, k, f[k])
    BY <2>1, ComesDown DEF n
  <2> QED
    BY <2>1, <2>2
<1>6. \A k \in 0 .. n : k \in Good
  <2> HIDE DEF Good
  <2> QED
    BY <1>1, <1>4, <1>5, RoundsKeep
<1>7. /\ idx.level + 1 - i \in 0 .. n /\ idx.level + 1 - i # 0
      /\ idx.level + 1 - (idx.level + 1 - i) = i
  BY <1>1 DEF n
<1>8. Came(idx, val, idx.level + 1 - i, f[idx.level + 1 - i])
  BY <1>6, <1>7
<1> QED
  BY <1>2, <1>7, <1>8 DEF Came

-----------------------------------------------------------------------------
(* A new node between update[i] and what followed it. *)

\* m is nodes with one more node, linked behind update[i] on levels 0 .. lvl.
Inserts(nodes, m, update, lvl, val) ==
  LET new == Len(nodes) + 1
  IN  /\ m \in Seq(SkipNode) /\ Len(m) = new
      /\ \A i \in 0 .. lvl : update[i] \in Low(nodes, i, val) /\ Stops(nodes, i, val, update[i])
      /\ m[new].value = val /\ Levels(m, new) = 0 .. lvl
      /\ \A i \in 0 .. lvl : m[new].forward[i] = nodes[update[i]].forward[i]
      /\ \A x \in DOMAIN nodes :
           /\ m[x].value = nodes[x].value /\ Levels(m, x) = Levels(nodes, x)
           /\ \A i \in Levels(nodes, x) :
                m[x].forward[i] = IF i \in 0 .. lvl /\ update[i] = x THEN new ELSE nodes[x].forward[i]

\* The order of the nodes with the new one among them.
InsertOrder(nodes, m, new, val) ==
  /\ DOMAIN m = DOMAIN nodes \cup {new} /\ new \notin DOMAIN nodes
  /\ ~ Before(m, new, new)
  /\ \A x, y \in DOMAIN nodes : Before(m, x, y) <=> Before(nodes, x, y)
  /\ \A x \in DOMAIN nodes : /\ Before(m, x, new) <=> (x = 1 \/ nodes[x].value < val)
                             /\ Before(m, new, x) <=> ~ (x = 1 \/ nodes[x].value < val)

LEMMA InsertOrders ==
  ASSUME NEW nodes, Linked(nodes), NEW m, NEW update, NEW lvl, NEW val \in Nat,
         Inserts(nodes, m, update, lvl, val), NEW new, new = Len(nodes) + 1
  PROVE  InsertOrder(nodes, m, new, val)
<1>1. /\ Len(nodes) \in Nat /\ Len(nodes) >= 1 /\ DOMAIN nodes = 1 .. Len(nodes)
      /\ \A x \in DOMAIN nodes : nodes[x].value \in Nat /\ x \in Int
  BY LinkedShape
<1>2. /\ m \in Seq(SkipNode) /\ Len(m) = new /\ m[new].value = val
      /\ \A x \in DOMAIN nodes : m[x].value = nodes[x].value
  BY DEF Inserts
<1>3. DOMAIN m = 1 .. new
  BY <1>2, LenProperties
<1>4. DOMAIN m = DOMAIN nodes \cup {new} /\ new \notin DOMAIN nodes /\ new \in Nat /\ new # 1
      /\ \A x \in DOMAIN nodes : x < new
  BY <1>1, <1>3
<1>5. \A x, y \in DOMAIN nodes : Before(m, x, y) <=> Before(nodes, x, y)
  BY <1>2 DEF Before
<1>6. ASSUME NEW x \in DOMAIN nodes
      PROVE  /\ Before(m, x, new) <=> (x = 1 \/ nodes[x].value < val)
             /\ Before(m, new, x) <=> ~ (x = 1 \/ nodes[x].value < val)
  <2>1. /\ nodes[x].value \in Int /\ val \in Int /\ m[x].value = nodes[x].value /\ m[new].value = val
        /\ x \in Int /\ new \in Int /\ x < new /\ new # 1
    BY <1>1, <1>2, <1>4
  <2> QED
    BY <2>1 DEF Before
<1>7. ~ Before(m, new, new)
  BY <1>2, <1>4 DEF Before
<1> QED
  BY <1>4, <1>5, <1>6, <1>7 DEF InsertOrder

LEMMA InsertLinks ==
  ASSUME NEW nodes, Linked(nodes), NEW m, NEW update, NEW lvl \in 0 .. MAX_LEVEL, NEW val \in Nat,
         Inserts(nodes, m, update, lvl, val)
  PROVE  Linked(m)
<1>0. PICK new : new = Len(nodes) + 1 /\ InsertOrder(nodes, m, new, val)
  BY InsertOrders
<1>1. /\ DOMAIN m = DOMAIN nodes \cup {new} /\ new \notin DOMAIN nodes
      /\ ~ Before(m, new, new)
      /\ \A x, y \in DOMAIN nodes : Before(m, x, y) <=> Before(nodes, x, y)
      /\ \A x \in DOMAIN nodes : /\ Before(m, x, new) <=> (x = 1 \/ nodes[x].value < val)
                                 /\ Before(m, new, x) <=> ~ (x = 1 \/ nodes[x].value < val)
  BY <1>0 DEF InsertOrder
<1>2. /\ 1 \in DOMAIN nodes /\ Levels(nodes, 1) = 0 .. MAX_LEVEL
      /\ Len(nodes) \in Nat /\ new # 0 /\ new >= 1
      /\ \A x \in DOMAIN nodes : nodes[x].value \in Nat
  BY <1>0, LinkedShape
<1>3. /\ m \in Seq(SkipNode) /\ Len(m) = new
      /\ \A i \in 0 .. lvl : update[i] \in Low(nodes, i, val) /\ Stops(nodes, i, val, update[i])
      /\ Levels(m, new) = 0 .. lvl
      /\ \A i \in 0 .. lvl : m[new].forward[i] = nodes[update[i]].forward[i]
      /\ \A x \in DOMAIN nodes :
           /\ Levels(m, x) = Levels(nodes, x)
           /\ \A i \in Levels(nodes, x) :
                m[x].forward[i] = IF i \in 0 .. lvl /\ update[i] = x THEN new ELSE nodes[x].forward[i]
  BY <1>0 DEF Inserts
<1>4. \A i : \A x \in DOMAIN nodes : i \in Levels(nodes, x) => Follows(nodes, i, x, nodes[x].forward[i])
  BY DEF Linked
\* What followed update[i] follows the new node.
<1>5. ASSUME NEW i \in 0 .. lvl
      PROVE  LET u == update[i]
                 n == nodes[u].forward[i]
             IN  /\ u \in DOMAIN nodes /\ i \in Levels(nodes, u) /\ Before(m, u, new)
                 /\ n # 0 => Before(m, new, n)
                 /\ Follows(nodes, i, u, n)
  <2> DEFINE u == update[i]
             n == nodes[u].forward[i]
  <2>1. /\ u \in DOMAIN nodes /\ i \in Levels(nodes, u) /\ (u = 1 \/ nodes[u].value < val)
        /\ n # 0 => ~ (nodes[n].value < val)
    BY <1>3 DEF Low, Stops
  <2>2. Follows(nodes, i, u, n)
    BY <1>4, <2>1
  <2> HIDE DEF u, n
  <2>3. Before(m, u, new)
    BY <1>1, <2>1
  <2>4. n # 0 => n \in DOMAIN nodes /\ n # 1
    BY <2>2 DEF Follows, Before
  <2>5. n # 0 => Before(m, new, n)
    BY <1>1, <2>1, <2>4
  <2> QED
    BY <2>1, <2>2, <2>3, <2>5 DEF u, n
<1>6. ASSUME NEW i \in Levels(m, new)
      PROVE  Follows(m, i, new, m[new].forward[i])
  <2> DEFINE u == update[i]
             n == nodes[u].forward[i]
  <2>1. i \in 0 .. lvl /\ m[new].forward[i] = n
    BY <1>3, <1>6
  <2>2. /\ u \in DOMAIN nodes /\ Before(m, u, new) /\ (n # 0 => Before(m, new, n))
        /\ Follows(nodes, i, u, n)
    BY <1>5, <2>1
  <2> HIDE DEF u, n
  <2>3. n # 0 => n \in DOMAIN m /\ i \in Levels(m, n)
    BY <1>1, <1>3, <2>2 DEF Follows
  <2>4. ASSUME NEW y \in DOMAIN m, i \in Levels(m, y), Before(m, new, y)
        PROVE  n # 0 /\ (y = n \/ Before(m, n, y))
    <3>1. y \in DOMAIN nodes /\ i \in Levels(nodes, y)
      BY <1>1, <1>3, <2>4
    <3>2. Before(nodes, u, y)
      <4>1. ~ (y = 1 \/ nodes[y].value < val) /\ (u = 1 \/ nodes[u].value < val)
        BY <1>1, <2>2, <2>4, <3>1
      <4>2. nodes[y].value \in Int /\ nodes[u].value \in Int
        BY <1>2, <2>2, <3>1
      <4> QED
        BY <4>1, <4>2 DEF Before
    <3>3. n # 0 /\ (y = n \/ Before(nodes, n, y)) /\ n \in DOMAIN nodes
      BY <2>2, <3>1, <3>2 DEF Follows
    <3> QED
      BY <1>1, <3>1, <3>3
  <2>5. Follows(m, i, new, n)
    BY <2>2, <2>3, <2>4 DEF Follows
  <2> QED
    BY <2>1, <2>5
<1>7. ASSUME NEW x \in DOMAIN nodes, NEW i \in Levels(nodes, x)
      PROVE  Follows(m, i, x, m[x].forward[i])
  <2> DEFINE n == nodes[x].forward[i]
  <2>1. Follows(nodes, i, x, n)
    BY <1>4, <1>7
  <2> HIDE DEF n
  \* Among the old nodes nothing changes.
  <2>2. /\ n # 0 => n \in DOMAIN m /\ n \in DOMAIN nodes /\ i \in Levels(m, n) /\ Before(m, x, n)
        /\ \A y \in DOMAIN nodes : i \in Levels(m, y) /\ Before(m, x, y)
                                     => n # 0 /\ (y = n \/ Before(m, n, y))
    BY <1>1, <1>3, <1>7, <2>1 DEF Follows
  <2>3. CASE i \in 0 .. lvl /\ update[i] = x
    <3>1. m[x].forward[i] = new /\ Before(m, x, new) /\ (n # 0 => Before(m, new, n))
      BY <1>3, <1>5, <1>7, <2>3 DEF n
    <3>2. ASSUME NEW y \in DOMAIN m, i \in Levels(m, y), Before(m, x, y)
          PROVE  y = new \/ Before(m, new, y)
      <4>1. CASE y \in DOMAIN nodes
        <5>1. n # 0 /\ (y = n \/ Before(m, n, y))
          BY <2>2, <3>2, <4>1
        <5>2. n \in DOMAIN nodes /\ Before(m, new, n) /\ n # 1
          <6>1. n \in DOMAIN nodes /\ Before(m, new, n)
            BY <2>2, <3>1, <5>1
          <6> QED
            BY <6>1 DEF Before
        <5>3. CASE y = n
          BY <5>2, <5>3
        <5>4. CASE Before(m, n, y)
          <6>1. ~ (nodes[n].value < val) /\ Before(nodes, n, y) /\ n # 1
            BY <1>1, <4>1, <5>2, <5>4
          <6>2. ~ (y = 1 \/ nodes[y].value < val)
            <7>1. nodes[n].value \in Int /\ nodes[y].value \in Int /\ val \in Int
              BY <1>2, <4>1, <5>2
            <7> QED
              BY <6>1, <7>1 DEF Before
          <6> QED
            BY <1>1, <4>1, <6>2
        <5> QED
          BY <5>1, <5>3, <5>4
      <4>2. CASE y = new
        BY <4>2
      <4> QED
        BY <1>1, <4>1, <4>2
    <3>3. new \in DOMAIN m /\ i \in Levels(m, new)
      BY <1>1, <1>3, <2>3
    <3>4. Follows(m, i, x, new)
      BY <1>2, <3>1, <3>2, <3>3 DEF Follows
    <3> QED
      BY <3>1, <3>4
  <2>4. CASE ~ (i \in 0 .. lvl /\ update[i] = x)
    <3>1. m[x].forward[i] = n
      BY <1>3, <1>7, <2>4 DEF n
    <3>2. ASSUME i \in Levels(m, new), Before(m, x, new)
          PROVE  n # 0 /\ Before(m, n, new)
      <4> DEFINE u == update[i]
                 q == nodes[u].forward[i]
      <4>1. i \in 0 .. lvl /\ u # x
        BY <1>3, <2>4, <3>2
      <4>2. /\ u \in DOMAIN nodes /\ i \in Levels(nodes, u) /\ Before(m, u, new)
            /\ (q # 0 => Before(m, new, q)) /\ Follows(nodes, i, u, q)
        BY <1>5, <4>1
      <4> HIDE DEF u, q
      <4>3. ~ Before(nodes, u, x)
        <5> SUFFICES ASSUME Before(nodes, u, x) PROVE FALSE
          OBVIOUS
        <5>1. q # 0 /\ (x = q \/ Before(nodes, q, x)) /\ q \in DOMAIN nodes
          BY <1>7, <4>2 DEF Follows
        <5>2. ~ (q = 1 \/ nodes[q].value < val) /\ (x = 1 \/ nodes[x].value < val)
          BY <1>1, <3>2, <4>2, <5>1
        <5>3. nodes[q].value \in Int /\ nodes[x].value \in Int
          BY <1>2, <5>1
        <5> QED
          BY <5>1, <5>2, <5>3 DEF Before
      <4>4. Before(nodes, x, u)
        BY <4>1, <4>2, <4>3, BeforeOrders
      <4>5. n # 0 /\ (u = n \/ Before(nodes, n, u)) /\ n \in DOMAIN nodes
        BY <2>1, <4>2, <4>4 DEF Follows
      <4>6. n = 1 \/ nodes[n].value < val
        <5>1. u = 1 \/ nodes[u].value < val
          BY <1>1, <4>2
        <5>2. nodes[n].value \in Int /\ nodes[u].value \in Int /\ val \in Int
          BY <1>2, <4>2, <4>5
        <5> QED
          BY <4>5, <5>1, <5>2 DEF Before
      <4> QED
        BY <1>1, <4>5, <4>6
    <3>3. \A y \in DOMAIN m : i \in Levels(m, y) /\ Before(m, x, y)
                                => n # 0 /\ (y = n \/ Before(m, n, y))
      BY <1>1, <2>2, <3>2
    <3>4. Follows(m, i, x, n)
      BY <2>2, <3>3 DEF Follows
    <3> QED
      BY <3>1, <3>4
  <2> QED
    BY <2>3, <2>4
<1>8. \A x \in DOMAIN m : \A i \in Levels(m, x) : Follows(m, i, x, m[x].forward[i])
  BY SMTT(30), <1>1, <1>3, <1>6, <1>7
<1>9. Levels(m, 1) = 0 .. MAX_LEVEL
  BY <1>2, <1>3
<1> QED
  BY <1>2, <1>3, <1>8, <1>9 DEF Linked

SkipRecord == [column : IxColumn, level : 0 .. MAX_LEVEL, since : Nat, nodes : Seq(SkipNode)]
SkipRow == [IxColumn -> IxValue]

\* An index holds, linked in order, the rows inserted since it was created.
IndexHolds(idx, rows) ==
  /\ idx \in SkipRecord /\ Linked(idx.nodes)
  /\ Len(idx.nodes) = 1 + Len(rows) - idx.since
  /\ \A x \in DOMAIN idx.nodes : x # 1 =>
       /\ \A i \in Levels(idx.nodes, x) : i <= idx.level
       /\ idx.nodes[x].pk = idx.since + x - 1
       /\ idx.nodes[x].value = rows[idx.since + x - 1][idx.column]

SkipInv ==
  /\ inserted \in Seq(SkipRow) /\ ilist \in Seq(SkipRecord)
  /\ \A k \in DOMAIN ilist : IndexHolds(ilist[k], inserted)

LEMMA RecordParts ==
  ASSUME NEW idx \in SkipRecord
  PROVE  /\ idx.column \in IxColumn /\ idx.level \in 0 .. MAX_LEVEL /\ idx.since \in Nat
         /\ idx.nodes \in Seq(SkipNode)
BY DEF SkipRecord

\* A tower whose links are relinked, or built anew.
LEMMA TowerBuilt ==
  ASSUME NEW h \in 0 .. MAX_LEVEL, NEW f, DOMAIN f = 0 .. h, f = [i \in 0 .. h |-> f[i]],
         \A i \in 0 .. h : f[i] \in Nat
  PROVE  f \in Forward
<1>1. f \in [0 .. h -> Nat]
  OBVIOUS
<1> QED
  BY <1>1 DEF Forward

LEMMA LinkIsNat ==
  ASSUME NEW nodes, Linked(nodes), NEW x \in DOMAIN nodes, NEW i \in Levels(nodes, x)
  PROVE  nodes[x].forward[i] \in Nat
<1>1. nodes[x].forward \in Forward
  <2>1. nodes[x] \in SkipNode
    BY LinkedShape
  <2> QED
    BY <2>1 DEF SkipNode
<1>2. PICK h \in 0 .. MAX_LEVEL : nodes[x].forward \in [0 .. h -> Nat]
  BY <1>1 DEF Forward
<1> QED
  BY <1>2 DEF Levels

\* kv_add_to_index puts the row in its place of every list it joins.
LEMMA AddHolds ==
  ASSUME NEW rows \in Seq(SkipRow), NEW idx, IndexHolds(idx, rows), NEW row \in SkipRow,
         NEW lvl \in 0 .. MAX_LEVEL
  PROVE  IndexHolds(kv_add_to_index(idx, row[idx.column], Len(rows) + 1, lvl), Append(rows, row))
<1> DEFINE nodes == idx.nodes
           val == row[idx.column]
           pk == Len(rows) + 1
           update == [i \in 0 .. lvl |-> IF i > idx.level THEN 1 ELSE Predecessor(idx, i, val)]
           new == Len(nodes) + 1
           tower == [i \in 0 .. lvl |-> nodes[update[i]].forward[i]]
           node == [create_skip_node(lvl, val, pk) EXCEPT !.forward = tower]
           Relink(x) == [nodes[x] EXCEPT !.forward =
                           [i \in DOMAIN @ |-> IF i <= lvl /\ update[i] = x THEN new ELSE @[i]]]
           old == [x \in DOMAIN nodes |-> Relink(x)]
           m == Append(old, node)
           ix == kv_add_to_index(idx, val, pk, lvl)
<1>1. /\ idx \in SkipRecord /\ Linked(nodes) /\ Len(nodes) = 1 + Len(rows) - idx.since
      /\ \A x \in DOMAIN nodes : x # 1 =>
           /\ \A i \in Levels(nodes, x) : i <= idx.level
           /\ nodes[x].pk = idx.since + x - 1
           /\ nodes[x].value = rows[idx.since + x - 1][idx.column]
  BY DEF IndexHolds
<1>2. /\ idx.column \in IxColumn /\ idx.level \in 0 .. MAX_LEVEL /\ idx.since \in Nat
      /\ MAX_LEVEL \in Nat
  BY <1>1, RecordParts, SkipAssumption
<1>3. Len(rows) \in Nat /\ DOMAIN rows = 1 .. Len(rows)
  BY LenProperties
<1>4. val \in Nat /\ pk \in Nat
  <2>1. row[idx.column] \in IxValue
    BY <1>2 DEF SkipRow
  <2>2. pk \in Nat
    BY <1>3
  <2> QED
    BY <2>1, <2>2, SkipAssumption
<1>5. /\ Len(nodes) \in Nat /\ Len(nodes) >= 1 /\ DOMAIN nodes = 1 .. Len(nodes)
      /\ 1 \in DOMAIN nodes /\ Levels(nodes, 1) = 0 .. MAX_LEVEL
      /\ \A x \in DOMAIN nodes : /\ nodes[x] \in SkipNode /\ nodes[x].value \in Nat
                                 /\ nodes[x].pk \in Nat /\ x \in Int
  BY <1>1, LinkedShape
<1>6. ix = [idx EXCEPT !.level = IF lvl > @ THEN lvl ELSE @, !.nodes = m]
  BY DEF kv_add_to_index
<1>7. ix = [idx EXCEPT !.level = IF lvl > idx.level THEN lvl ELSE idx.level, !.nodes = m]
  BY <1>6
<1>8. \A i \in 0 .. lvl : update[i] \in Low(nodes, i, val) /\ Stops(nodes, i, val, update[i])
  <2> SUFFICES ASSUME NEW i \in 0 .. lvl
               PROVE  update[i] \in Low(nodes, i, val) /\ Stops(nodes, i, val, update[i])
    OBVIOUS
  <2>1. CASE i > idx.level
    <3>1. update[i] = 1 /\ i \in Levels(nodes, 1)
      BY <1>2, <1>5, <2>1
    <3>2. Follows(nodes, i, 1, nodes[1].forward[i])
      BY <1>1, <1>5, <3>1 DEF Linked
    <3> DEFINE n == nodes[1].forward[i]
    <3> HIDE DEF n, update, nodes, val
    <3>3. n = 0
      <4> SUFFICES ASSUME n # 0 PROVE FALSE
        OBVIOUS
      <4>1. n \in DOMAIN nodes /\ i \in Levels(nodes, n) /\ n # 1
        BY <3>2 DEF Follows, Before, n
      <4>2. i <= idx.level
        BY <1>1, <4>1
      <4> QED
        BY <1>2, <2>1, <4>2
    <3> QED
      BY <1>5, <3>1, <3>3 DEF Low, Stops, n
  <2>2. CASE ~ (i > idx.level)
    <3>1. i \in 0 .. idx.level /\ update[i] = Predecessor(idx, i, val)
      BY <1>2, <2>2
    <3> HIDE DEF update, val
    <3>2. Linked(idx.nodes)
      BY <1>1
    <3> QED
      BY <1>2, <1>4, <3>1, <3>2, PredecessorFound
  <2> QED
    BY <2>1, <2>2
<1> HIDE DEF update, val, pk
<1>9. \A i \in 0 .. lvl : update[i] \in DOMAIN nodes /\ tower[i] \in Nat
  <2>1. \A i \in 0 .. lvl : update[i] \in DOMAIN nodes /\ i \in Levels(nodes, update[i])
    BY <1>8 DEF Low
  <2> QED
    BY <1>1, <2>1, LinkIsNat
<1>10. node = [value |-> val, pk |-> pk, forward |-> tower] /\ node \in SkipNode
  <2>1. node = [value |-> val, pk |-> pk, forward |-> tower]
    <3> HIDE DEF tower
    <3> QED
      BY DEF create_skip_node
  <2>2. DOMAIN tower = 0 .. lvl /\ tower = [i \in 0 .. lvl |-> tower[i]]
    OBVIOUS
  <2> HIDE DEF tower
  <2>3. tower \in Forward
    BY <1>9, <2>2, TowerBuilt
  <2> HIDE DEF node
  <2> QED
    BY <1>4, <2>1, <2>3 DEF SkipNode
<1>11. ASSUME NEW x \in DOMAIN nodes
       PROVE  /\ old[x] \in SkipNode /\ old[x].value = nodes[x].value /\ old[x].pk = nodes[x].pk
              /\ DOMAIN old[x].forward = Levels(nodes, x)
              /\ \A i \in Levels(nodes, x) : old[x].forward[i]
                   = IF i \in 0 .. lvl /\ update[i] = x THEN new ELSE nodes[x].forward[i]
  <2> DEFINE fw == [i \in Levels(nodes, x) |->
                      IF i <= lvl /\ update[i] = x THEN new ELSE nodes[x].forward[i]]
  <2>1. old[x] = [nodes[x] EXCEPT !.forward = fw]
    BY DEF Levels
  <2>2. nodes[x] \in SkipNode /\ new \in Nat
    BY <1>5
  <2>3. PICK h \in 0 .. MAX_LEVEL : Levels(nodes, x) = 0 .. h
    BY <1>1, LevelsDown
  <2>4. \A i \in 0 .. h : i \in Nat /\ (i <= lvl <=> i \in 0 .. lvl)
    BY <1>2, <2>3
  <2>5. fw \in Forward
    <3>1. \A i \in 0 .. h : fw[i] \in Nat
      BY <1>1, <2>2, <2>3, LinkIsNat
    <3>2. DOMAIN fw = 0 .. h /\ fw = [i \in 0 .. h |-> fw[i]]
      BY <2>3
    <3> HIDE DEF fw
    <3> QED
      BY <3>1, <3>2, TowerBuilt
  <2>6. \A i \in Levels(nodes, x) :
          fw[i] = IF i \in 0 .. lvl /\ update[i] = x THEN new ELSE nodes[x].forward[i]
    BY <2>3, <2>4
  <2>7. DOMAIN fw = Levels(nodes, x)
    OBVIOUS
  <2> HIDE DEF old, fw, nodes
  <2>8. /\ old[x] \in SkipNode /\ old[x].value = nodes[x].value /\ old[x].pk = nodes[x].pk
        /\ old[x].forward = fw
    BY <2>1, <2>2, <2>5 DEF SkipNode
  <2> QED
    BY <2>6, <2>7, <2>8
<1>12. old \in Seq(SkipNode) /\ Len(old) = Len(nodes)
  <2>1. old = [x \in 1 .. Len(nodes) |-> old[x]]
    BY <1>5
  <2>2. \A x \in 1 .. Len(nodes) : old[x] \in SkipNode
    BY <1>5, <1>11
  <2> DEFINE q == Len(nodes)
  <2> HIDE DEF old
  <2>3. q \in Nat /\ old \in [1 .. q -> SkipNode]
    BY <1>5, <2>1, <2>2
  <2> HIDE DEF q
  <2>4. old \in Seq(SkipNode) /\ Len(old) = q
    BY <2>3
  <2> QED
    BY <2>4 DEF q
<1>13. /\ m \in Seq(SkipNode) /\ Len(m) = new /\ m[new] = node
       /\ \A x \in 1 .. Len(nodes) : m[x] = old[x]
  <2> HIDE DEF old, node, nodes
  <2> QED
    BY <1>10, <1>12, AppendProperties
<1>14. \A x \in DOMAIN nodes : m[x] = old[x]
  BY <1>5, <1>13
<1>15. /\ m[new].value = val /\ m[new].pk = pk /\ m[new].forward = tower
  <2> HIDE DEF m, node, tower
  <2> QED
    BY <1>10, <1>13
<1>16. Levels(m, new) = 0 .. lvl
  <2> HIDE DEF m
  <2> QED
    BY <1>15 DEF Levels
<1>17. Inserts(nodes, m, update, lvl, val)
  <2>1. \A i \in 0 .. lvl : m[new].forward[i] = nodes[update[i]].forward[i]
    <3> HIDE DEF m
    <3> QED
      BY <1>15
  <2>2. \A x \in DOMAIN nodes :
           /\ m[x].value = nodes[x].value /\ Levels(m, x) = Levels(nodes, x)
           /\ \A i \in Levels(nodes, x) :
                m[x].forward[i] = IF i \in 0 .. lvl /\ update[i] = x THEN new ELSE nodes[x].forward[i]
    <3> HIDE DEF m, old
    <3> QED
      BY <1>11, <1>14 DEF Levels
  <2> HIDE DEF m
  <2> QED
    BY <1>8, <1>13, <1>15, <1>16, <2>1, <2>2 DEF Inserts
<1>18. Linked(m)
  <2> HIDE DEF m, nodes
  <2> QED
    BY <1>1, <1>4, <1>17, InsertLinks
<1>19. /\ ix \in SkipRecord /\ ix.nodes = m /\ ix.since = idx.since /\ ix.column = idx.column
       /\ ix.level = IF lvl > idx.level THEN lvl ELSE idx.level
  <2> DEFINE l == IF lvl > idx.level THEN lvl ELSE idx.level
  <2>1. l \in 0 .. MAX_LEVEL
    BY <1>2
  <2>2. ix = [idx EXCEPT !.level = l, !.nodes = m]
    BY <1>7
  <2> HIDE DEF ix, l, m
  <2>3. /\ ix \in SkipRecord /\ ix.nodes = m /\ ix.since = idx.since /\ ix.column = idx.column
        /\ ix.level = l
    BY <1>1, <1>13, <2>1, <2>2 DEF SkipRecord
  <2> QED
    BY <2>3 DEF l
<1> HIDE DEF ix, m, old, node, tower, nodes
<1> DEFINE more == Append(rows, row)
<1>20. /\ Len(more) = Len(rows) + 1 /\ more[Len(rows) + 1] = row
       /\ \A k \in 1 .. Len(rows) : more[k] = rows[k]
  BY AppendProperties
<1> HIDE DEF more
<1>21. Len(m) = 1 + Len(more) - ix.since
  BY SMTT(30), <1>1, <1>2, <1>3, <1>5, <1>13, <1>19, <1>20
<1>22. ASSUME NEW x \in DOMAIN m, x # 1
       PROVE  /\ \A i \in Levels(m, x) : i <= ix.level
              /\ m[x].pk = ix.since + x - 1
              /\ m[x].value = more[ix.since + x - 1][ix.column]
  <2>1. DOMAIN m = 1 .. new
    BY <1>13, LenProperties
  <2>2. CASE x \in DOMAIN nodes
    <3>1. /\ Levels(m, x) = Levels(nodes, x) /\ m[x].pk = nodes[x].pk /\ m[x].value = nodes[x].value
      BY <1>11, <1>14, <2>2 DEF Levels
    <3>2. PICK h \in 0 .. MAX_LEVEL : Levels(nodes, x) = 0 .. h
      BY <1>1, <2>2, LevelsDown
    <3>3. \A i \in Levels(nodes, x) : i <= ix.level
      <4>1. \A i \in 0 .. h : i \in Int /\ i <= idx.level
        BY <1>1, <1>22, <2>2, <3>2
      <4> QED
        BY <1>2, <1>19, <3>2, <4>1
    <3>4. x \in 2 .. Len(nodes) /\ Len(nodes) \in Int
      BY <1>5, <1>22, <2>2
    <3>5. idx.since + x - 1 \in 1 .. Len(rows)
      BY <1>1, <1>2, <1>3, <3>4
    <3>6. more[idx.since + x - 1] = rows[idx.since + x - 1]
      BY <1>20, <3>5
    <3> QED
      BY <1>1, <1>19, <1>22, <2>2, <3>1, <3>3, <3>6
  <2>3. CASE x = new
    <3>1. \A i \in 0 .. lvl : i <= ix.level
      BY <1>2, <1>19
    <3>2. idx.since + x - 1 = Len(rows) + 1
      BY <1>1, <1>2, <1>3, <1>5, <2>3
    <3>3. m[x].pk = pk /\ m[x].value = val /\ Levels(m, x) = 0 .. lvl
      BY <1>15, <1>16, <2>3
    <3> QED
      BY <1>19, <1>20, <3>1, <3>2, <3>3 DEF pk, val
  <2> QED
    BY <1>5, <2>1, <2>2, <2>3
<1>23. IndexHolds(ix, more)
  BY <1>18, <1>19, <1>21, <1>22 DEF IndexHolds
<1> QED
  BY <1>23 DEF ix, more, val, pk

LEMMA SkipStarts == skip_init => SkipInv
<1> SUFFICES ASSUME skip_init PROVE SkipInv
  OBVIOUS
<1>1. ilist = <<>> /\ inserted = <<>>
  BY DEF skip_init
<1> QED
  BY <1>1 DEF SkipInv

LEMMA SkipKeeps == SkipInv /\ [SkipNext]_ixlvars => SkipInv'
<1> SUFFICES ASSUME SkipInv, [SkipNext]_ixlvars PROVE SkipInv'
  OBVIOUS
<1>1. /\ inserted \in Seq(SkipRow) /\ ilist \in Seq(SkipRecord) /\ Len(inserted) \in Nat
      /\ Len(ilist) \in Nat /\ DOMAIN ilist = 1 .. Len(ilist)
      /\ \A k \in DOMAIN ilist : IndexHolds(ilist[k], inserted)
  BY LenProperties DEF SkipInv
<1>2. ASSUME NEW c \in IxColumn, kv_create_index(c) PROVE SkipInv'
  <2> DEFINE head == create_skip_node(MAX_LEVEL, 0, 0)
             new == [column |-> c, level |-> 0, since |-> Len(inserted), nodes |-> <<head>>]
  <2>1. ilist' = <<new>> \o ilist /\ inserted' = inserted
    BY <1>2 DEF kv_create_index
  <2>2. MAX_LEVEL \in Nat /\ 0 \in 0 .. MAX_LEVEL
    BY SkipAssumption
  <2>3. /\ head \in SkipNode /\ DOMAIN head.forward = 0 .. MAX_LEVEL
        /\ \A i \in 0 .. MAX_LEVEL : head.forward[i] = 0
    <3> DEFINE fw == [l \in 0 .. MAX_LEVEL |-> 0]
    <3>1. fw = [i \in 0 .. MAX_LEVEL |-> fw[i]] /\ MAX_LEVEL \in 0 .. MAX_LEVEL
      BY <2>2
    <3>2. DOMAIN fw = 0 .. MAX_LEVEL /\ \A i \in 0 .. MAX_LEVEL : fw[i] = 0 /\ fw[i] \in Nat
      OBVIOUS
    <3> HIDE DEF fw
    <3>3. fw \in Forward
      BY <3>1, <3>2, TowerBuilt
    <3>4. head = [value |-> 0, pk |-> 0, forward |-> fw]
      BY DEF create_skip_node, fw
    <3> HIDE DEF head
    <3> QED
      BY <3>2, <3>3, <3>4 DEF SkipNode
  <2> HIDE DEF head
  <2> DEFINE s == <<head>>
  <2>4. s \in Seq(SkipNode) /\ Len(s) = 1 /\ s[1] = head /\ DOMAIN s = {1}
    BY <2>3
  <2>5. new = [column |-> c, level |-> 0, since |-> Len(inserted), nodes |-> s]
    OBVIOUS
  <2> HIDE DEF s
  <2>6. Linked(s)
    <3>1. \A i \in 0 .. MAX_LEVEL : Follows(s, i, 1, s[1].forward[i])
      BY <2>3, <2>4 DEF Follows, Before
    <3>2. Levels(s, 1) = 0 .. MAX_LEVEL
      BY <2>3, <2>4 DEF Levels
    <3>3. Len(s) >= 1
      BY <2>4
    <3>4. \A x \in DOMAIN s : \A i \in Levels(s, x) : Follows(s, i, x, s[x].forward[i])
      BY <2>4, <3>1, <3>2
    <3> QED
      BY <2>4, <3>2, <3>3, <3>4 DEF Linked
  <2>7. new \in SkipRecord /\ new.nodes = s /\ new.since = Len(inserted)
    BY <1>1, <2>2, <2>4, <2>5 DEF SkipRecord
  <2> HIDE DEF new
  <2>8. IndexHolds(new, inserted)
    BY <1>1, <2>4, <2>6, <2>7 DEF IndexHolds
  <2>9. /\ ilist' \in Seq(SkipRecord) /\ Len(ilist') = 1 + Len(ilist)
        /\ \A k \in 1 .. 1 + Len(ilist) : ilist'[k] = IF k <= 1 THEN new ELSE ilist[k - 1]
    <3> DEFINE one == <<new>>
    <3>1. one \in Seq(SkipRecord) /\ Len(one) = 1 /\ one[1] = new
      BY <2>7
    <3>2. ilist' = one \o ilist
      BY <2>1
    <3> HIDE DEF one
    <3>3. /\ ilist' \in Seq(SkipRecord) /\ Len(ilist') = Len(one) + Len(ilist)
          /\ \A k \in 1 .. Len(one) + Len(ilist) :
               ilist'[k] = IF k <= Len(one) THEN one[k] ELSE ilist[k - Len(one)]
      BY <1>1, <3>1, <3>2, ConcatProperties
    <3>4. \A k \in 1 .. 1 + Len(ilist) : ilist'[k] = IF k <= 1 THEN one[k] ELSE ilist[k - 1]
      BY <3>1, <3>3
    <3>5. \A k \in 1 .. 1 + Len(ilist) : k <= 1 => k = 1
      BY <1>1
    <3> QED
      BY <3>1, <3>3, <3>4, <3>5
  <2>10. ASSUME NEW k \in DOMAIN ilist' PROVE IndexHolds(ilist'[k], inserted)
    <3>1. k \in 1 .. 1 + Len(ilist)
      BY <2>9, LenProperties
    <3>2. CASE k <= 1
      BY <2>8, <2>9, <3>1, <3>2
    <3>3. CASE ~ (k <= 1)
      <4>1. k - 1 \in DOMAIN ilist
        BY <1>1, <3>1, <3>3
      <4> QED
        BY <1>1, <2>9, <3>1, <3>3, <4>1
    <3> QED
      BY <3>2, <3>3
  <2> QED
    BY <1>1, <2>1, <2>9, <2>10 DEF SkipInv
<1>3. ASSUME NEW row \in [IxColumn -> IxValue], NEW lvl \in [DOMAIN ilist -> 0 .. MAX_LEVEL],
             kv_update_indexes(row, lvl)
      PROVE  SkipInv'
  <2> DEFINE New(k) == kv_add_to_index(ilist[k], row[ilist[k].column], Len(inserted'), lvl[k])
  <2>1. inserted' = Append(inserted, row) /\ row \in SkipRow /\ ilist' = [k \in DOMAIN ilist |-> New(k)]
    BY <1>3 DEF kv_update_indexes, SkipRow
  <2>2. inserted' \in Seq(SkipRow) /\ Len(inserted') = Len(inserted) + 1
    BY <1>1, <2>1, AppendProperties
  <2>3. ASSUME NEW k \in DOMAIN ilist PROVE IndexHolds(New(k), inserted')
    <3>1. /\ IndexHolds(ilist[k], inserted) /\ lvl[k] \in 0 .. MAX_LEVEL
      BY <1>1
    <3>2. IndexHolds(kv_add_to_index(ilist[k], row[ilist[k].column], Len(inserted) + 1, lvl[k]),
                     Append(inserted, row))
      BY <1>1, <2>1, <3>1, AddHolds
    <3> QED
      BY <2>1, <2>2, <3>2
  <2> HIDE DEF New
  <2>4. \A k \in DOMAIN ilist : New(k) \in SkipRecord
    BY <2>3 DEF IndexHolds
  <2>5. ilist' \in Seq(SkipRecord) /\ DOMAIN ilist' = DOMAIN ilist
    <3> DEFINE q == Len(ilist)
    <3>1. q \in Nat /\ ilist' \in [1 .. q -> SkipRecord]
      BY <1>1, <2>1, <2>4
    <3> HIDE DEF q
    <3>2. ilist' \in Seq(SkipRecord)
      BY <3>1
    <3> QED
      BY <2>1, <3>2
  <2> QED
    BY <2>1, <2>2, <2>3, <2>5 DEF SkipInv
<1>4. CASE UNCHANGED ixlvars
  BY <1>4 DEF SkipInv, ixlvars
<1> QED
  BY <1>2, <1>3, <1>4 DEF SkipNext

-----------------------------------------------------------------------------
(* What a scan returns. *)

\* The search ends in front of the first node that is not smaller.
LEMMA StartFound ==
  ASSUME NEW idx, Linked(idx.nodes), idx.level \in 0 .. MAX_LEVEL, NEW val \in Nat,
         NEW n, n = kv_search_index_range(idx, val)
  PROVE  /\ n \in Nat
         /\ n # 0 => n \in DOMAIN idx.nodes /\ n # 1 /\ ~ (idx.nodes[n].value < val)
         /\ \A y \in DOMAIN idx.nodes : y # 1 /\ ~ (idx.nodes[y].value < val)
              => n # 0 /\ (y = n \/ Before(idx.nodes, n, y))
<1> DEFINE nodes == idx.nodes
           x == Predecessor(idx, 0, val)
<1>1. 0 \in 0 .. idx.level
  BY SkipAssumption
<1>2. x \in Low(nodes, 0, val) /\ Stops(nodes, 0, val, x)
  BY <1>1, PredecessorFound
<1>3. n = nodes[x].forward[0]
  BY DEF kv_search_index_range
<1> HIDE DEF x
<1>4. x \in DOMAIN nodes /\ 0 \in Levels(nodes, x) /\ (x = 1 \/ nodes[x].value < val)
  BY <1>2 DEF Low
<1>5. Follows(nodes, 0, x, n) /\ n \in Nat
  BY <1>3, <1>4, LinkIsNat DEF Linked
<1>6. n # 0 => n \in DOMAIN nodes /\ n # 1 /\ ~ (nodes[n].value < val)
  BY <1>2, <1>3, <1>5 DEF Follows, Before, Stops
<1>7. ASSUME NEW y \in DOMAIN nodes, y # 1, ~ (nodes[y].value < val)
      PROVE  n # 0 /\ (y = n \/ Before(nodes, n, y))
  <2>1. 0 \in Levels(nodes, y)
    <3>1. PICK h \in 0 .. MAX_LEVEL : Levels(nodes, y) = 0 .. h
      BY LevelsDown
    <3> QED
      BY <3>1, SkipAssumption
  <2>2. nodes[x].value \in Int /\ nodes[y].value \in Int /\ val \in Int
    BY <1>4, LinkedShape
  <2>3. Before(nodes, x, y)
    BY <1>4, <1>7, <2>2 DEF Before
  <2> QED
    BY <1>5, <2>1, <2>3 DEF Follows
<1> QED
  BY <1>5, <1>6, <1>7

InRange(nodes, val, equal, y) ==
  y # 1 /\ IF equal THEN nodes[y].value = val ELSE nodes[y].value > val
Passed(nodes, n, y) == n = 0 \/ Before(nodes, y, n)

\* The keys collected are those of the nodes passed that are in the range.
ScanHolds(idx, rows, val, equal, s) ==
  /\ s \in [node : Nat, keys : Seq(Nat)]
  /\ s.node # 0 => s.node \in DOMAIN idx.nodes /\ s.node # 1 /\ ~ (idx.nodes[s.node].value < val)
  /\ \A p : p \in ToSet(s.keys) <=>
       \E y \in DOMAIN idx.nodes : /\ InRange(idx.nodes, val, equal, y)
                                   /\ Passed(idx.nodes, s.node, y) /\ p = idx.nodes[y].pk
  /\ IsInjective(s.keys)
  /\ \A i \in 1 .. Len(s.keys) - 1 : rows[s.keys[i]][idx.column] <= rows[s.keys[i + 1]][idx.column]

\* What the keys and values of an index's nodes are.
LEMMA NodeCells ==
  ASSUME NEW idx, NEW rows \in Seq(SkipRow), IndexHolds(idx, rows)
  PROVE  /\ Linked(idx.nodes) /\ idx.level \in 0 .. MAX_LEVEL /\ idx.column \in IxColumn
         /\ idx.since \in Nat
         /\ \A y \in DOMAIN idx.nodes : y # 1 =>
              /\ idx.nodes[y].pk = idx.since + y - 1 /\ idx.nodes[y].pk \in idx.since + 1 .. Len(rows)
              /\ idx.nodes[y].value = rows[idx.nodes[y].pk][idx.column]
         /\ \A p \in idx.since + 1 .. Len(rows) :
              \E y \in DOMAIN idx.nodes : y # 1 /\ idx.nodes[y].pk = p
         /\ \A x, y \in DOMAIN idx.nodes :
              x # 1 /\ y # 1 /\ idx.nodes[x].pk = idx.nodes[y].pk => x = y
<1>1. /\ idx \in SkipRecord /\ Linked(idx.nodes) /\ Len(idx.nodes) = 1 + Len(rows) - idx.since
      /\ \A x \in DOMAIN idx.nodes : x # 1 =>
           /\ idx.nodes[x].pk = idx.since + x - 1
           /\ idx.nodes[x].value = rows[idx.since + x - 1][idx.column]
  BY DEF IndexHolds
<1>2. idx.column \in IxColumn /\ idx.level \in 0 .. MAX_LEVEL /\ idx.since \in Nat
  BY <1>1, RecordParts
<1>3. Len(rows) \in Nat /\ Len(idx.nodes) \in Nat /\ DOMAIN idx.nodes = 1 .. Len(idx.nodes)
  BY <1>1, LinkedShape, LenProperties
<1>4. ASSUME NEW y \in DOMAIN idx.nodes, y # 1
      PROVE  y \in Int /\ idx.since + y - 1 \in idx.since + 1 .. Len(rows)
  <2>1. y \in Int /\ y > 1 /\ y <= 1 + Len(rows) - idx.since
    BY <1>1, <1>3, <1>4
  <2> QED
    BY <1>2, <1>3, <2>1
<1>5. ASSUME NEW p \in idx.since + 1 .. Len(rows)
      PROVE  \E y \in DOMAIN idx.nodes : y # 1 /\ idx.nodes[y].pk = p
  <2>1. p - idx.since + 1 \in DOMAIN idx.nodes /\ p - idx.since + 1 # 1
        /\ idx.since + (p - idx.since + 1) - 1 = p
    BY SMTT(30), <1>1, <1>2, <1>3
  <2> QED
    BY <1>1, <2>1
<1>6. ASSUME NEW x \in DOMAIN idx.nodes, NEW y \in DOMAIN idx.nodes,
             x # 1, y # 1, idx.nodes[x].pk = idx.nodes[y].pk
      PROVE  x = y
  <2>1. idx.since + x - 1 = idx.since + y - 1 /\ x \in Int /\ y \in Int
    BY <1>1, <1>4, <1>6
  <2> QED
    BY <1>2, <2>1
<1>7. ASSUME NEW y \in DOMAIN idx.nodes, y # 1
      PROVE  /\ idx.nodes[y].pk = idx.since + y - 1
             /\ idx.nodes[y].pk \in idx.since + 1 .. Len(rows)
             /\ idx.nodes[y].value = rows[idx.nodes[y].pk][idx.column]
  BY <1>1, <1>4, <1>7
<1>8. Linked(idx.nodes)
  BY <1>1
<1> QED
  BY <1>2, <1>5, <1>6, <1>7, <1>8

\* One round of the scan.
LEMMA ScanSteps ==
  ASSUME NEW idx, NEW rows \in Seq(SkipRow), IndexHolds(idx, rows), NEW val \in Nat,
         NEW equal \in BOOLEAN, NEW s, ScanHolds(idx, rows, val, equal, s)
  PROVE  LET t == ScanOne(idx.nodes, s, val, equal)
         IN  /\ ScanHolds(idx, rows, val, equal, t)
             /\ IF s.node = 0 THEN t = s ELSE t.node = 0 \/ Before(idx.nodes, s.node, t.node)
<1> DEFINE nodes == idx.nodes
           x == s.node
           t == ScanOne(nodes, s, val, equal)
           n == nodes[x].forward[0]
           pk == nodes[x].pk
           cell(p) == rows[p][idx.column]
<1>1. /\ Linked(nodes)
      /\ \A y \in DOMAIN nodes : y # 1 =>
           nodes[y].pk \in idx.since + 1 .. Len(rows) /\ nodes[y].value = cell(nodes[y].pk)
      /\ \A y, z \in DOMAIN nodes : y # 1 /\ z # 1 /\ nodes[y].pk = nodes[z].pk => y = z
  BY NodeCells
<1>2. /\ s \in [node : Nat, keys : Seq(Nat)]
      /\ x # 0 => x \in DOMAIN nodes /\ x # 1 /\ ~ (nodes[x].value < val)
      /\ \A p : p \in ToSet(s.keys) <=>
           \E y \in DOMAIN nodes : InRange(nodes, val, equal, y) /\ Passed(nodes, x, y) /\ p = nodes[y].pk
      /\ IsInjective(s.keys)
      /\ \A i \in 1 .. Len(s.keys) - 1 : cell(s.keys[i]) <= cell(s.keys[i + 1])
  BY DEF ScanHolds
<1>3. \A y \in DOMAIN nodes : nodes[y].value \in Int /\ nodes[y].pk \in Nat
  BY <1>1, LinkedShape
<1>4. CASE x = 0
  <2>1. t = s
    BY <1>4 DEF ScanOne
  <2> HIDE DEF t
  <2> QED
    BY <1>4, <2>1 DEF t
<1>5. CASE x # 0
  <2>1. x \in DOMAIN nodes /\ x # 1 /\ ~ (nodes[x].value < val)
    BY <1>2, <1>5
  <2>2. PICK h \in 0 .. MAX_LEVEL : Levels(nodes, x) = 0 .. h
    BY <1>1, <2>1, LevelsDown
  <2>3. 0 \in Levels(nodes, x) /\ \A y \in DOMAIN nodes : 0 \in Levels(nodes, y)
    <3>1. ASSUME NEW y \in DOMAIN nodes PROVE 0 \in Levels(nodes, y)
      <4>1. PICK g \in 0 .. MAX_LEVEL : Levels(nodes, y) = 0 .. g
        BY <1>1, LevelsDown
      <4> QED
        BY <4>1, SkipAssumption
    <3> QED
      BY <2>1, <3>1
  <2>4. Follows(nodes, 0, x, n) /\ n \in Nat
    BY <1>1, <2>1, <2>3, LinkIsNat DEF Linked
  <2> HIDE DEF n, nodes, x
  <2>5. n # 0 => n \in DOMAIN nodes /\ n # 1 /\ Before(nodes, x, n) /\ ~ (nodes[n].value < val)
    <3>1. n # 0 => n \in DOMAIN nodes /\ n # 1 /\ Before(nodes, x, n)
      BY <2>4 DEF Follows, Before
    <3>2. n # 0 => nodes[n].value \in Int /\ nodes[x].value \in Int
      BY <1>3, <2>1, <3>1
    <3> QED
      BY <2>1, <3>1, <3>2 DEF Before
  \* The nodes passed are those before x, and x itself.
  <2>6. ASSUME NEW y \in DOMAIN nodes PROVE Passed(nodes, n, y) <=> Passed(nodes, x, y) \/ y = x
    <3>1. Before(nodes, x, y) => n # 0 /\ (y = n \/ Before(nodes, n, y))
      BY <2>3, <2>4 DEF Follows
    <3>2. y = x \/ Before(nodes, x, y) \/ Before(nodes, y, x)
      BY <1>1, <2>1, BeforeOrders
    <3>3. n # 0 => /\ ~ (Before(nodes, y, n) /\ Before(nodes, n, y)) /\ ~ Before(nodes, n, n)
                   /\ Before(nodes, y, x) => Before(nodes, y, n)
      BY <1>1, <2>1, <2>5, BeforeOrders
    <3> QED
      BY <1>5, <2>5, <3>1, <3>2, <3>3 DEF Passed, x
  <2>7. CASE equal = (nodes[x].value = val)
    <3>1. t = [node |-> n, keys |-> Append(s.keys, pk)]
      BY <1>5, <2>7 DEF ScanOne, n, pk, nodes, x
    <3>2. InRange(nodes, val, equal, x)
      <4>1. nodes[x].value \in Int /\ val \in Int
        BY <1>3, <2>1 DEF nodes
      <4>2. IF equal THEN nodes[x].value = val ELSE nodes[x].value # val
        BY <2>7
      <4>3. nodes[x].value # val => nodes[x].value > val
        BY <2>1, <4>1
      <4> QED
        BY <2>1, <4>2, <4>3 DEF InRange
    <3> HIDE DEF t
    <3>3. pk \in Nat /\ pk = nodes[x].pk
      BY <1>3, <2>1 DEF pk, nodes, x
    <3> HIDE DEF pk
    <3> DEFINE keys == s.keys
               more == Append(keys, pk)
    <3>4. keys \in Seq(Nat) /\ t.node = n /\ t.keys = more
      BY <1>2, <3>1
    <3>5. /\ more \in Seq(Nat) /\ Len(more) = Len(keys) + 1 /\ ToSet(more) = ToSet(keys) \cup {pk}
          /\ IsInjective(keys) /\ pk \notin ToSet(keys) => IsInjective(more)
      <4> HIDE DEF keys
      <4> QED
        BY <3>3, <3>4, AppendElements
    <3>6. /\ Len(keys) \in Nat /\ more[Len(keys) + 1] = pk
          /\ \A i \in 1 .. Len(keys) : more[i] = keys[i]
      <4> HIDE DEF keys
      <4> QED
        BY <3>3, <3>4, AppendProperties, LenProperties
    <3> HIDE DEF more
    <3>7. \A p : p \in ToSet(keys) <=>
            \E y \in DOMAIN nodes : InRange(nodes, val, equal, y) /\ Passed(nodes, x, y) /\ p = nodes[y].pk
      BY <1>2 DEF nodes, x
    <3> HIDE DEF keys
    <3>8. \A p : p \in ToSet(more) <=>
            \E y \in DOMAIN nodes : InRange(nodes, val, equal, y) /\ Passed(nodes, n, y) /\ p = nodes[y].pk
      BY <2>1, <2>6, <3>2, <3>3, <3>5, <3>7
    <3>9. pk \notin ToSet(keys)
      <4> SUFFICES ASSUME pk \in ToSet(keys) PROVE FALSE
        OBVIOUS
      <4>1. PICK y \in DOMAIN nodes : InRange(nodes, val, equal, y) /\ Passed(nodes, x, y) /\ pk = nodes[y].pk
        BY <3>7
      <4>2. y = x
        BY <1>1, <2>1, <3>3, <4>1 DEF InRange, nodes
      <4>3. ~ Passed(nodes, x, x)
        BY <1>1, <1>5, <2>1, BeforeOrders DEF Passed, x
      <4> QED
        BY <4>1, <4>2, <4>3
    <3>10. IsInjective(more)
      <4>1. IsInjective(keys)
        BY <1>2 DEF keys
      <4> QED
        BY <3>5, <3>9, <4>1
    <3>11. ASSUME NEW i \in 1 .. Len(more) - 1 PROVE cell(more[i]) <= cell(more[i + 1])
      <4>1. CASE i \in 1 .. Len(keys) - 1
        <5>1. i \in 1 .. Len(keys) /\ i + 1 \in 1 .. Len(keys)
          BY <3>6, <4>1
        <5>2. cell(keys[i]) <= cell(keys[i + 1])
          BY <1>2, <4>1 DEF keys
        <5> QED
          BY <3>6, <5>1, <5>2
      <4>2. CASE i = Len(keys)
        <5>1. more[i] = keys[i] /\ more[i + 1] = pk /\ i \in DOMAIN keys
          <6>1. i \in 1 .. Len(keys)
            BY <3>5, <3>6, <3>11, <4>2
          <6>2. DOMAIN keys = 1 .. Len(keys)
            BY <3>4, LenProperties
          <6> QED
            BY <3>6, <4>2, <6>1, <6>2
        <5>2. keys[i] \in ToSet(keys)
          BY <5>1 DEF ToSet
        <5>3. PICK y \in DOMAIN nodes :
                InRange(nodes, val, equal, y) /\ Passed(nodes, x, y) /\ keys[i] = nodes[y].pk
          BY <3>7, <5>2
        <5>4. Before(nodes, y, x) /\ y # 1
          BY <1>5, <5>3 DEF Passed, InRange, x
        <5>5. cell(keys[i]) = nodes[y].value /\ cell(pk) = nodes[x].value
          BY <1>1, <2>1, <3>3, <5>3, <5>4 DEF nodes
        <5>6. nodes[y].value <= nodes[x].value
          <6>1. nodes[y].value \in Int /\ nodes[x].value \in Int
            BY <1>3, <2>1 DEF nodes
          <6> QED
            BY <5>4, <6>1 DEF Before
        <5> HIDE DEF cell
        <5> QED
          BY <5>1, <5>5, <5>6
      <4>3. i \in 1 .. Len(keys) - 1 \/ i = Len(keys)
        BY <3>5, <3>6, <3>11
      <4> QED
        BY <4>1, <4>2, <4>3
    <3>12. t \in [node : Nat, keys : Seq(Nat)]
      BY <2>4, <3>1, <3>4, <3>5
    <3>13. n # 0 => n \in DOMAIN nodes /\ n # 1 /\ ~ (nodes[n].value < val)
      BY <2>5
    <3>14. ScanHolds(idx, rows, val, equal, t)
      BY <3>4, <3>8, <3>10, <3>11, <3>12, <3>13 DEF ScanHolds, nodes
    <3> QED
      BY <1>5, <2>5, <3>4, <3>14 DEF t, nodes, x
  <2>8. CASE ~ (equal = (nodes[x].value = val))
    <3>1. t = [s EXCEPT !.node = IF equal THEN 0 ELSE n]
      BY <1>5, <2>8 DEF ScanOne, n, nodes, x
    <3> DEFINE q == IF equal THEN 0 ELSE n
    <3>2. t = [s EXCEPT !.node = q]
      BY <3>1
    <3>3. q \in Nat /\ (q # 0 => n # 0 /\ q = n)
      BY <2>4
    <3> HIDE DEF q, t
    <3>4. t \in [node : Nat, keys : Seq(Nat)] /\ t.node = q /\ t.keys = s.keys
      BY <1>2, <3>2, <3>3
    <3>5. ASSUME NEW y \in DOMAIN nodes, InRange(nodes, val, equal, y)
          PROVE  Passed(nodes, q, y) <=> Passed(nodes, x, y)
      <4>1. nodes[x].value \in Int /\ nodes[y].value \in Int /\ val \in Int
        BY <1>3, <2>1, <3>5 DEF nodes
      <4>2. CASE equal
        <5>0. nodes[y].value = val /\ nodes[x].value # val
          BY <2>8, <3>5, <4>2 DEF InRange
        <5>1. nodes[y].value = val /\ val < nodes[x].value
          BY <2>1, <4>1, <5>0
        <5>2. Before(nodes, y, x)
          BY <2>1, <5>1, <4>1 DEF Before
        <5> QED
          BY <4>2, <5>2 DEF Passed, q
      <4>3. CASE ~ equal
        <5>1. nodes[y].value > val /\ nodes[x].value = val
          BY <2>8, <3>5, <4>3 DEF InRange
        <5>2. y # x
          BY <4>1, <5>1
        <5> QED
          BY <2>6, <4>3, <5>2 DEF q
      <4> QED
        BY <4>2, <4>3
    <3>6. \A p : p \in ToSet(t.keys) <=>
            \E y \in DOMAIN nodes : InRange(nodes, val, equal, y) /\ Passed(nodes, q, y) /\ p = nodes[y].pk
      <4>1. \A p : p \in ToSet(t.keys) <=>
              \E y \in DOMAIN nodes : InRange(nodes, val, equal, y) /\ Passed(nodes, x, y) /\ p = nodes[y].pk
        BY <1>2, <3>4 DEF nodes, x
      <4> QED
        BY <3>5, <4>1
    <3>7. q # 0 => q \in DOMAIN nodes /\ q # 1 /\ ~ (nodes[q].value < val) /\ Before(nodes, x, q)
      BY <2>5, <3>3
    <3>8. IsInjective(t.keys)
          /\ \A i \in 1 .. Len(t.keys) - 1 : cell(t.keys[i]) <= cell(t.keys[i + 1])
      BY <1>2, <3>4
    <3>9. ScanHolds(idx, rows, val, equal, t)
      BY <3>4, <3>6, <3>7, <3>8 DEF ScanHolds, nodes
    <3> QED
      BY <1>5, <3>4, <3>7, <3>9 DEF t, nodes, x
  <2> QED
    BY <2>7, <2>8
<1> QED
  BY <1>4, <1>5

ScanState == [node : Nat, keys : Seq(Nat)]
ScanStart(idx, val) == [node |-> kv_search_index_range(idx, val), keys |-> <<>>]
ScanRun(idx, val, equal, f) ==
  f = [k \in 0 .. Len(idx.nodes) |-> IF k = 0 THEN ScanStart(idx, val)
                                     ELSE ScanOne(idx.nodes, f[k - 1], val, equal)]

LEMMA ScanBegins ==
  ASSUME NEW idx, NEW rows \in Seq(SkipRow), IndexHolds(idx, rows), NEW val \in Nat,
         NEW equal \in BOOLEAN
  PROVE  ScanHolds(idx, rows, val, equal, ScanStart(idx, val))
<1> DEFINE n == kv_search_index_range(idx, val)
           keys == <<>>
           nodes == idx.nodes
<1>1. Linked(nodes) /\ idx.level \in 0 .. MAX_LEVEL
  BY NodeCells
<1> HIDE DEF n
<1>2. /\ n \in Nat
      /\ n # 0 => n \in DOMAIN nodes /\ n # 1 /\ ~ (nodes[n].value < val)
      /\ \A y \in DOMAIN nodes : y # 1 /\ ~ (nodes[y].value < val)
              => n # 0 /\ (y = n \/ Before(nodes, n, y))
  BY <1>1, StartFound DEF n
<1>3. keys \in Seq(Nat) /\ ToSet(keys) = {} /\ IsInjective(keys) /\ Len(keys) = 0
  BY DEF ToSet, IsInjective
<1>4. ASSUME NEW y \in DOMAIN nodes, InRange(nodes, val, equal, y), Passed(nodes, n, y) PROVE FALSE
  <2>1. nodes[y].value \in Int /\ val \in Int
    BY <1>1, <1>4, LinkedShape
  <2>2. y # 1 /\ ~ (nodes[y].value < val)
    BY <1>4, <2>1 DEF InRange
  <2>3. n # 0 /\ n \in DOMAIN nodes /\ (y = n \/ Before(nodes, n, y)) /\ Before(nodes, y, n)
    BY <1>2, <1>4, <2>2 DEF Passed
  <2> QED
    BY <1>1, <1>4, <2>3, BeforeOrders
<1>5. ScanStart(idx, val) = [node |-> n, keys |-> keys]
  BY DEF ScanStart, n
<1> DEFINE s == ScanStart(idx, val)
<1> HIDE DEF s, keys, nodes
<1>6. s \in [node : Nat, keys : Seq(Nat)] /\ s.node = n /\ s.keys = keys
  BY <1>2, <1>3, <1>5 DEF s
<1>7. ScanHolds(idx, rows, val, equal, s)
  BY <1>2, <1>3, <1>4, <1>6 DEF ScanHolds, nodes
<1> QED
  BY <1>7 DEF s

\* The keys of a scan are those of all rows in the range.
ScanExact(idx, rows, val, equal, keys) ==
  /\ keys \in Seq(Nat) /\ IsInjective(keys)
  /\ ToSet(keys) = {p \in idx.since + 1 .. Len(rows) :
                      IF equal THEN rows[p][idx.column] = val ELSE rows[p][idx.column] > val}
  /\ \A i \in 1 .. Len(keys) - 1 : rows[keys[i]][idx.column] <= rows[keys[i + 1]][idx.column]

LEMMA ScanEnds ==
  ASSUME NEW idx, NEW rows \in Seq(SkipRow), IndexHolds(idx, rows), NEW val \in Nat,
         NEW equal \in BOOLEAN, NEW f, ScanRun(idx, val, equal, f)
  PROVE  ScanExact(idx, rows, val, equal, f[Len(idx.nodes)].keys)
<1> DEFINE n == Len(idx.nodes)
           nodes == idx.nodes
<1>1. Linked(nodes) /\ n \in Nat
  BY NodeCells, LinkedShape
<1> HIDE DEF n
<1>2. /\ f[0] = ScanStart(idx, val)
      /\ \A k \in 1 .. n : f[k] = ScanOne(nodes, f[k - 1], val, equal)
  <2>1. \A k \in 0 .. n : f[k] = IF k = 0 THEN ScanStart(idx, val)
                                 ELSE ScanOne(nodes, f[k - 1], val, equal)
    BY DEF ScanRun, n
  <2> QED
    BY <1>1, <2>1
<1> DEFINE left(k) == Cardinality(Ahead(nodes, f[k].node))
           good(k) == /\ ScanHolds(idx, rows, val, equal, f[k])
                      /\ f[k].node = 0 \/ left(k) <= n - 1 - k
           Good == {k \in 0 .. n : good(k)}
<1> HIDE DEF nodes
<1>3. 0 \in Good
  <2>1. ScanHolds(idx, rows, val, equal, f[0])
    BY <1>2, ScanBegins
  <2>2. CASE f[0].node # 0
    <3>1. f[0].node \in DOMAIN nodes
      BY <2>1, <2>2 DEF ScanHolds, nodes
    <3>2. left(0) <= n - 1 /\ n - 1 = n - 1 - 0
      BY <1>1, <3>1, AheadShrinks DEF n, nodes
    <3> QED
      BY <1>1, <2>1, <3>2
  <2> QED
    BY <1>1, <2>1, <2>2
<1>4. ASSUME NEW k \in 1 .. n, k - 1 \in Good PROVE k \in Good
  <2>1. good(k - 1) /\ f[k] = ScanOne(nodes, f[k - 1], val, equal) /\ k \in 0 .. n
    BY <1>1, <1>2, <1>4
  <2>2. /\ ScanHolds(idx, rows, val, equal, f[k])
        /\ IF f[k - 1].node = 0 THEN f[k] = f[k - 1]
           ELSE f[k].node = 0 \/ Before(nodes, f[k - 1].node, f[k].node)
    BY <2>1, ScanSteps DEF nodes
  <2>3. CASE f[k].node = 0
    BY <2>1, <2>2, <2>3
  <2>4. CASE f[k].node # 0
    <3>1. f[k - 1].node # 0 /\ Before(nodes, f[k - 1].node, f[k].node)
      BY <2>2, <2>4
    <3>2. f[k].node \in DOMAIN nodes /\ f[k - 1].node \in DOMAIN nodes
      BY <2>1, <2>2, <2>4, <3>1 DEF ScanHolds, nodes
    <3>3. left(k) <= left(k - 1) - 1 /\ left(k) \in Nat /\ left(k - 1) \in Nat
      BY <1>1, <3>1, <3>2, AheadShrinks
    <3>4. left(k - 1) <= n - 1 - (k - 1)
      BY <2>1, <3>1
    <3> HIDE DEF left
    <3>5. left(k) <= n - 1 - k
      BY <1>1, <3>3, <3>4
    <3> QED
      BY <2>1, <2>2, <3>5
  <2> QED
    BY <2>3, <2>4
<1>5. n \in Good
  <2>1. n \in 0 .. n
    BY <1>1
  <2> HIDE DEF Good
  <2> QED
    BY <1>1, <1>3, <1>4, <2>1, RoundsKeep
<1> DEFINE s == f[n]
<1>6. ScanHolds(idx, rows, val, equal, s) /\ (s.node = 0 \/ left(n) <= n - 1 - n)
  BY <1>5
<1>7. s.node = 0
  <2> SUFFICES ASSUME s.node # 0 PROVE FALSE
    OBVIOUS
  <2>1. s.node \in DOMAIN nodes
    BY <1>6 DEF ScanHolds, nodes
  <2>2. left(n) \in Nat
    BY <1>1, <2>1, AheadShrinks
  <2> HIDE DEF left
  <2> QED
    BY <1>1, <1>6, <2>2
<1> HIDE DEF s
<1>8. /\ s.keys \in Seq(Nat) /\ IsInjective(s.keys)
      /\ \A i \in 1 .. Len(s.keys) - 1 :
           rows[s.keys[i]][idx.column] <= rows[s.keys[i + 1]][idx.column]
      /\ \A p : p \in ToSet(s.keys) <=>
           \E y \in DOMAIN nodes : InRange(nodes, val, equal, y) /\ p = nodes[y].pk
  BY <1>6, <1>7 DEF ScanHolds, nodes, Passed
<1> DEFINE In(p) == IF equal THEN rows[p][idx.column] = val ELSE rows[p][idx.column] > val
<1>9. ASSUME NEW p PROVE p \in ToSet(s.keys) <=> p \in idx.since + 1 .. Len(rows) /\ In(p)
  <2>1. /\ \A y \in DOMAIN nodes : y # 1 =>
             /\ nodes[y].pk \in idx.since + 1 .. Len(rows)
             /\ nodes[y].value = rows[nodes[y].pk][idx.column]
        /\ \A q \in idx.since + 1 .. Len(rows) : \E y \in DOMAIN nodes : y # 1 /\ nodes[y].pk = q
    BY NodeCells DEF nodes
  <2>2. \A y \in DOMAIN nodes : y # 1 => (InRange(nodes, val, equal, y) <=> In(nodes[y].pk))
    BY <2>1 DEF InRange
  <2>3. \A y \in DOMAIN nodes : InRange(nodes, val, equal, y) => y # 1
    BY DEF InRange
  <2> HIDE DEF In
  <2> QED
    BY <1>8, <2>1, <2>2, <2>3
<1>10. ToSet(s.keys) = {p \in idx.since + 1 .. Len(rows) : In(p)}
  <2> HIDE DEF In
  <2> QED
    BY <1>9
<1> QED
  BY <1>8, <1>10 DEF ScanExact, s, n

LEMMA ScanUnfolds ==
  ASSUME NEW col, NEW idx, idx = ilist[FindIndex(col)], NEW rows \in Seq(SkipRow),
         IndexHolds(idx, rows), NEW val \in Nat, NEW equal \in BOOLEAN
  PROVE  \E f : /\ ScanRun(idx, val, equal, f)
                /\ kv_scan_index_range(col, val, equal) = f[Len(idx.nodes)].keys
<1> DEFINE n == Len(idx.nodes)
           S == {s \in ScanState : ScanHolds(idx, rows, val, equal, s)}
           first == ScanStart(idx, val)
           body == [z \in (1 .. n) \X S |-> ScanOne(idx.nodes, z[2], val, equal)]
<1>1. n \in Nat
  BY NodeCells, LinkedShape
<1>2. \A s : ScanHolds(idx, rows, val, equal, s) => s \in S
  BY DEF ScanHolds, ScanState
<1>3. body \in [(1 .. n) \X S -> S]
  <2>1. \A s \in S : ScanOne(idx.nodes, s, val, equal) \in S
    <3>1. ASSUME NEW s \in S PROVE ScanOne(idx.nodes, s, val, equal) \in S
      <4>1. ScanHolds(idx, rows, val, equal, ScanOne(idx.nodes, s, val, equal))
        BY ScanSteps
      <4> HIDE DEF S
      <4> QED
        BY <1>2, <4>1
    <3> QED
      BY <3>1
  <2> HIDE DEF S
  <2> QED
    BY <2>1
<1>4. first \in S
  <2> HIDE DEF S, first
  <2> QED
    BY <1>2, ScanBegins DEF first
<1> HIDE DEF n, first
<1>5. PICK f : Rounds(f, n, S, first, body)
  <2> HIDE DEF body, S
  <2> QED
    BY <1>1, <1>3, <1>4, RoundsExist
<1> HIDE DEF S
<1>6. ScanRun(idx, val, equal, f)
  <2>1. f = [k \in 0 .. n |-> f[k]] /\ f[0] = first /\ \A k \in 0 .. n : f[k] \in S
    BY <1>5 DEF Rounds
  <2>2. ASSUME NEW k \in 0 .. n, k # 0 PROVE f[k] = ScanOne(idx.nodes, f[k - 1], val, equal)
    <3>1. k \in 1 .. n /\ k - 1 \in 0 .. n
      BY <1>1, <2>2
    <3>2. f[k] = body[<<k, f[k - 1]>>]
      BY <1>5, <3>1 DEF Rounds
    <3>3. <<k, f[k - 1]>> \in (1 .. n) \X S
      BY <2>1, <3>1
    <3> QED
      BY <3>2, <3>3
  <2> HIDE DEF body
  <2> QED
    BY <2>1, <2>2 DEF ScanRun, n, first
<1> DEFINE g == CHOOSE h : ScanRun(idx, val, equal, h)
<1>7. ScanRun(idx, val, equal, g)
  BY <1>6
<1>8. kv_scan_index_range(col, val, equal) = g[Len(idx.nodes)].keys
  BY DEF kv_scan_index_range, ScanRun, ScanStart
<1> QED
  BY <1>7, <1>8

\* A search returns the key of a row with the value, if there is one.
LEMMA SearchFinds ==
  ASSUME NEW col, NEW idx, idx = ilist[FindIndex(col)], NEW rows \in Seq(SkipRow),
         IndexHolds(idx, rows), NEW val \in Nat,
         NEW R, R = {p \in idx.since + 1 .. Len(rows) : rows[p][idx.column] = val}
  PROVE  IF R = {} THEN kv_search_index(col, val) = NoPk ELSE kv_search_index(col, val) \in R
<1> DEFINE n == kv_search_index_range(idx, val)
           nodes == idx.nodes
<1>1. /\ Linked(nodes) /\ idx.level \in 0 .. MAX_LEVEL
      /\ \A y \in DOMAIN nodes : y # 1 =>
           nodes[y].pk \in idx.since + 1 .. Len(rows) /\ nodes[y].value = rows[nodes[y].pk][idx.column]
      /\ \A p \in idx.since + 1 .. Len(rows) : \E y \in DOMAIN nodes : y # 1 /\ nodes[y].pk = p
  BY SMTT(30), NodeCells
<1>2. /\ n # 0 => n \in DOMAIN nodes /\ n # 1 /\ ~ (nodes[n].value < val)
      /\ \A y \in DOMAIN nodes : y # 1 /\ ~ (nodes[y].value < val)
           => n # 0 /\ (y = n \/ Before(nodes, n, y))
  <2>1. Linked(idx.nodes) /\ idx.level \in 0 .. MAX_LEVEL
    BY <1>1
  <2>2. PICK q : q = kv_search_index_range(idx, val)
    OBVIOUS
  <2>3. /\ q # 0 => q \in DOMAIN idx.nodes /\ q # 1 /\ ~ (idx.nodes[q].value < val)
        /\ \A y \in DOMAIN idx.nodes : y # 1 /\ ~ (idx.nodes[y].value < val)
             => q # 0 /\ (y = q \/ Before(idx.nodes, q, y))
    BY <2>1, <2>2, StartFound
  <2> QED
    BY <2>2, <2>3
<1>3. kv_search_index(col, val) = IF n # 0 /\ nodes[n].value = val THEN nodes[n].pk ELSE NoPk
  BY DEF kv_search_index
<1> HIDE DEF n, nodes
<1>4. CASE n # 0 /\ nodes[n].value = val
  <2>1. nodes[n].pk \in R
    BY <1>1, <1>2, <1>4
  <2> QED
    BY <1>3, <1>4, <2>1
<1>5. CASE ~ (n # 0 /\ nodes[n].value = val)
  <2>1. ASSUME NEW p \in R PROVE FALSE
    <3>1. PICK y \in DOMAIN nodes : y # 1 /\ nodes[y].pk = p
      BY <1>1
    <3>2. nodes[y].value = val
      BY <1>1, <3>1
    <3>3. n # 0 /\ (y = n \/ Before(nodes, n, y)) /\ n \in DOMAIN nodes /\ n # 1
      BY <1>2, <3>1, <3>2
    <3>4. nodes[n].value \in Int /\ val \in Int
      BY <1>1, <3>3, LinkedShape
    <3>5. val < nodes[n].value
      BY <1>2, <1>5, <3>3, <3>4
    <3> QED
      BY <1>5, <3>2, <3>3, <3>4, <3>5 DEF Before
  <2> QED
    BY <1>3, <1>5, <2>1
<1> QED
  BY <1>4, <1>5

LEMMA ScansAnswer == SkipInv => IndexScansAll
<1> SUFFICES ASSUME SkipInv, NEW c \in IxColumn, NEW v \in IxValue, kv_has_index(c)
             PROVE  LET since == ilist[FindIndex(c)].since
                        Rows(equal) == {p \in since + 1 .. Len(inserted) :
                                          IF equal THEN inserted[p][c] = v ELSE inserted[p][c] > v}
                        Exact(equal) == LET s == kv_scan_index_range(c, v, equal)
                                        IN  /\ ToSet(s) = Rows(equal)
                                            /\ IsInjective(s)
                                            /\ \A i \in 1 .. Len(s) - 1 :
                                                 inserted[s[i]][c] <= inserted[s[i + 1]][c]
                        found == kv_search_index(c, v)
                    IN  /\ Exact(TRUE) /\ Exact(FALSE)
                        /\ IF Rows(TRUE) = {} THEN found = NoPk ELSE found \in Rows(TRUE)
  BY DEF IndexScansAll
<1> DEFINE idx == ilist[FindIndex(c)]
<1>1. /\ inserted \in Seq(SkipRow) /\ ilist \in Seq(SkipRecord) /\ v \in Nat
      /\ \A k \in DOMAIN ilist : IndexHolds(ilist[k], inserted)
  BY SkipAssumption DEF SkipInv
<1>2. FindIndex(c) \in DOMAIN ilist /\ ilist[FindIndex(c)].column = c
  <2>1. Matching(c) # {} /\ Matching(c) \subseteq DOMAIN ilist /\ DOMAIN ilist = 1 .. Len(ilist)
    BY <1>1, LenProperties DEF kv_has_index, Matching
  <2>2. Matching(c) \subseteq Nat
    BY <2>1
  <2>3. \E k \in Matching(c) : \A j \in Matching(c) : k <= j
    BY <2>1, <2>2, LeastNumber
  <2>4. FindIndex(c) \in Matching(c)
    BY <2>3 DEF FindIndex
  <2> QED
    BY <2>4 DEF Matching
<1>3. IndexHolds(idx, inserted) /\ idx.column = c
  BY <1>1, <1>2
<1> HIDE DEF idx
<1>4. ASSUME NEW equal \in BOOLEAN
      PROVE  ScanExact(idx, inserted, v, equal, kv_scan_index_range(c, v, equal))
  <2>1. idx = ilist[FindIndex(c)]
    BY DEF idx
  <2>2. PICK f : /\ ScanRun(idx, v, equal, f)
                 /\ kv_scan_index_range(c, v, equal) = f[Len(idx.nodes)].keys
    BY <1>1, <1>3, <2>1, ScanUnfolds
  <2>3. ScanExact(idx, inserted, v, equal, f[Len(idx.nodes)].keys)
    BY <1>1, <1>3, <2>2, ScanEnds
  <2> QED
    BY <2>2, <2>3
<1> DEFINE Rows(equal) == {p \in idx.since + 1 .. Len(inserted) :
                             IF equal THEN inserted[p][c] = v ELSE inserted[p][c] > v}
<1>5. ASSUME NEW equal \in BOOLEAN
      PROVE  LET s == kv_scan_index_range(c, v, equal)
             IN  /\ ToSet(s) = Rows(equal) /\ IsInjective(s)
                 /\ \A i \in 1 .. Len(s) - 1 : inserted[s[i]][c] <= inserted[s[i + 1]][c]
  BY <1>3, <1>4 DEF ScanExact
<1>6. IF Rows(TRUE) = {} THEN kv_search_index(c, v) = NoPk ELSE kv_search_index(c, v) \in Rows(TRUE)
  <2>1. PICK R : R = {p \in idx.since + 1 .. Len(inserted) : inserted[p][idx.column] = v}
    OBVIOUS
  <2>2. idx = ilist[FindIndex(c)] /\ R = Rows(TRUE)
    BY <1>3, <2>1 DEF idx
  <2> HIDE DEF Rows
  <2>3. IF R = {} THEN kv_search_index(c, v) = NoPk ELSE kv_search_index(c, v) \in R
    <3>1. inserted \in Seq(SkipRow) /\ v \in Nat /\ IndexHolds(idx, inserted)
      BY <1>1, <1>3
    <3>2. idx = ilist[FindIndex(c)]
      BY <2>2
    <3> QED
      BY <2>1, <3>1, <3>2, SearchFinds
  <2> QED
    BY <2>2, <2>3
<1> QED
  BY <1>5, <1>6 DEF idx

(* kv_create_index, kv_update_indexes, kv_scan_index_range, kv_search_index:
   whatever levels rand() drew, a scan of an index returns exactly the rows of
   the range inserted since the newest index of the column was created, each
   once and in value order, and a search finds one of them: every level's list
   leads from each node to the next one of that height, so the search comes
   down on the last smaller node and the walk from there misses nothing. *)
THEOREM IndexScansCorrect == skip_init /\ [][SkipNext]_ixlvars => []IndexScansAll
<1> QED
  BY SkipStarts, SkipKeeps, ScansAnswer, PTL
=============================================================================
