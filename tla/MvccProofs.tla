----------------------------- MODULE MvccProofs -----------------------------
(***************************************************************************)
(* Proofs about Mvcc for any number of transactions, places and versions.  *)
(*                                                                         *)
(* A snapshot and its ghost are written together and never changed, so     *)
(* SnapshotExact only has to be shown for the step that takes a snapshot.  *)
(* There it rests on two facts about everyone else: the ids from           *)
(* next_txn_id on are the unborn ones (Numbered), and the ACTIVE           *)
(* transactions in the table are the open ones (TableCounted).             *)
(* RepeatableRead needs in addition that what had ended when the snapshot  *)
(* was taken has not come back (EndedForGood).                             *)
(***************************************************************************)
EXTENDS Mvcc, TLAPS, FiniteSetTheorems, WellFoundedInduction

Listed == {"open", "prepared", "committing", "aborting"}
Ended == {"prepared", "committing", "aborting", "gone"}

Numbered == \A t \in Txn : phase[t] = "unborn" <=> nextId <= t

EndedForGood ==
  \A t, c \in Txn :
    snapshot[t] # None /\ c # t /\ at[t][c] = "ended" => phase[c] \in Ended

GhostKept ==
  \A t \in Txn : snapshot[t] # None =>
    at[t] \in [Txn -> {"live", "unlisted", "ended"}]

Inv ==
  /\ TypeOK /\ TableCounted /\ Numbered
  /\ SnapshotExact /\ GhostKept /\ EndedForGood

-----------------------------------------------------------------------------

\* A non-empty set of numbers has a least one, so both CHOOSE of the model
\* are determined.
LEMMA LeastExists ==
  ASSUME NEW S \in SUBSET Nat, S # {}
  PROVE  \E m \in S : \A n \in S : m <= n
<1> DEFINE less == OpToRel(<, Nat)
<1>1. \A m, n \in Nat : m < n => <<m, n>> \in less
  BY DEF OpToRel
<1>2. IsWellFoundedOn(less, Nat)
  BY NatLessThanWellFounded
<1> HIDE DEF less
<1>3. PICK m \in S : \A n \in S : <<n, m>> \notin less
  BY <1>2, WFMin
<1>4. ASSUME NEW n \in S PROVE m <= n
  <2>1. m \in Nat /\ n \in Nat
    OBVIOUS
  <2>2. ~ (n < m)
    BY <1>1, <1>3, <2>1, Zenon
  <2> QED
    BY <2>1, <2>2
<1> QED
  BY <1>4

LEMMA GreatestExists ==
  ASSUME NEW L \in Nat, NEW S \in SUBSET (1 .. L), S # {}
  PROVE  \E m \in S : \A n \in S : n <= m
<1> DEFINE T == {k \in Nat : \E n \in S : k = L - n}
<1>1. T \in SUBSET Nat /\ T # {}
  <2>1. PICK n \in S : TRUE
    OBVIOUS
  <2>2. L - n \in Nat
    OBVIOUS
  <2>3. L - n \in T
    BY <2>2
  <2> QED
    BY <2>3
<1>2. \A n \in S : L - n \in T
  OBVIOUS
<1>3. \A k \in T : \E n \in S : k = L - n
  OBVIOUS
<1> HIDE DEF T
<1>4. PICK k \in T : \A l \in T : k <= l
  BY <1>1, LeastExists
<1>5. PICK m \in S : k = L - m
  BY <1>3
<1>6. ASSUME NEW n \in S PROVE n <= m
  <2>1. k <= L - n
    BY <1>2, <1>4
  <2> QED
    BY <1>5, <2>1
<1> QED
  BY <1>6

LEMMA InitInv == Init => Inv
<1> SUFFICES ASSUME Init PROVE Inv
  OBVIOUS
<1>1. TypeOK
  BY MvccAssumption DEF Init, TypeOK, Txn, Place, Phase, READ_UNCOMMITTED,
                        SERIALIZABLE
<1>2. TableCounted
  <2>1. {p \in Place : active[p] # 0} = {}
    BY DEF Init
  <2>2. activeCount = Cardinality({p \in Place : active[p] # 0})
    BY <2>1, FS_EmptySet DEF Init
  <2>3. \A t \in Txn : ~ Registered(t) /\ phase[t] = "unborn"
    BY DEF Init, Registered, Txn
  <2> QED
    BY <2>2, <2>3 DEF TableCounted, Init
<1>3. Numbered
  BY DEF Init, Numbered, Txn
<1>4. SnapshotExact /\ GhostKept /\ EndedForGood
  BY DEF Init, SnapshotExact, GhostKept, EndedForGood
<1> QED
  BY <1>1, <1>2, <1>3, <1>4 DEF Inv

\* The active transactions in the table are the open ones.
LEMMA OthersAre ==
  ASSUME TypeOK, TableCounted, NEW t \in Txn, NEW c \in Txn, c # t
  PROVE  c \in Others(t) <=> phase[c] = "open"
BY DEF Others, TableCounted, IsActive

\* A new snapshot hides the unborn and the open transactions and no others.
LEMMA NewSnapshot ==
  ASSUME TypeOK, TableCounted, Numbered, NEW t \in Txn, phase[t] = "numbered"
  PROVE  /\ TakeSnapshot(t) \in Snapshot
         /\ \A c \in Txn \ {t} :
              IsVisible(c, TakeSnapshot(t)) <=> Standing(c) # "live"
<1> DEFINE S == Others(t)
           x == IF S = {} THEN nextId ELSE CHOOSE c \in S : \A d \in S : c <= d
<1>1. S \subseteq Txn /\ S \subseteq Nat /\ nextId \in Nat /\ Txn \subseteq Nat
  BY DEF Others, Txn, TypeOK
<1>2. x \in Nat /\ \A c \in S : x <= c
  <2>1. CASE S = {}
    BY <1>1, <2>1
  <2>2. CASE S # {}
    <3>1. \E c \in S : \A d \in S : c <= d
      BY <1>1, <2>2, LeastExists
    <3>2. x \in S /\ \A d \in S : x <= d
      BY <2>2, <3>1
    <3> QED
      BY <1>1, <3>2
  <2> QED
    BY <2>1, <2>2
<1>3. TakeSnapshot(t) = [xmin |-> x, xmax |-> nextId, active |-> S]
  BY DEF TakeSnapshot
<1>4. TakeSnapshot(t) \in Snapshot
  <2> HIDE DEF S, x
  <2> QED
    BY <1>1, <1>2, <1>3 DEF Snapshot
<1>5. TakeSnapshot(t) # None
  BY <1>4, MvccAssumption
<1>6. \A c \in Txn \ {t} : c \in S <=> phase[c] = "open"
  BY OthersAre
<1>7. ASSUME NEW c \in Txn \ {t}
      PROVE  IsVisible(c, TakeSnapshot(t)) <=> Standing(c) # "live"
  <2>1. x <= nextId
    <3>1. \A d \in S : d < nextId
      <4> SUFFICES ASSUME NEW d \in S PROVE d < nextId
        OBVIOUS
      <4>1. d \in Txn /\ phase[d] = "open"
        BY <1>1, <1>6 DEF Others
      <4> QED
        BY <1>1, <4>1 DEF Numbered
    <3>2. CASE S = {}
      BY <1>1, <3>2
    <3>3. CASE S # {}
      <4> HIDE DEF S, x
      <4>1. PICK d \in S : TRUE
        BY <3>3
      <4>2. x <= d /\ d < nextId /\ d \in Nat
        BY <1>1, <1>2, <3>1
      <4> QED
        BY <1>1, <1>2, <4>2
    <3> QED
      BY <3>2, <3>3
  <2>2. nextId <= c <=> phase[c] = "unborn"
    BY DEF Numbered
  <2>3. Standing(c) = "live" <=> phase[c] \in {"unborn", "open"}
    BY DEF Standing
  <2>4. c \in Nat /\ c \in Txn /\ c # t
    BY <1>1
  <2> HIDE DEF S, x
  <2>5. IsVisible(c, TakeSnapshot(t)) <=> c < x \/ (c < nextId /\ c \notin S)
    BY <1>3, <1>5 DEF IsVisible
  <2>6. c \in S <=> phase[c] = "open"
    BY <1>6
  <2>7. CASE phase[c] = "unborn"
    BY <1>1, <1>2, <2>1, <2>2, <2>3, <2>4, <2>5, <2>7
  <2>8. CASE phase[c] = "open"
    <3>1. c \in S /\ x <= c
      BY <1>2, <2>6, <2>8
    <3> QED
      BY <1>1, <1>2, <2>3, <2>4, <2>5, <2>8, <3>1
  <2>9. CASE phase[c] \notin {"unborn", "open"}
    <3>1. c \notin S /\ c < nextId
      BY <1>1, <2>2, <2>4, <2>6, <2>9
    <3> QED
      BY <2>3, <2>5, <2>9, <3>1
  <2> QED
    BY <2>7, <2>8, <2>9
<1> QED
  BY <1>4, <1>7

-----------------------------------------------------------------------------
(* Each step keeps the invariant. *)

LEMMA KeepNumber ==
  ASSUME Inv, NEW level \in Level, BeginNumber(level)
  PROVE  Inv'
<1> DEFINE t == nextId
<1>0. t \in Txn /\ t \in Nat /\ Txn \subseteq Nat /\ phase[t] = "unborn"
  BY DEF BeginNumber, Inv, Numbered, TypeOK, Txn
<1>1. /\ phase' = [phase EXCEPT ![t] = "numbered"] /\ nextId' = t + 1
      /\ UNCHANGED <<active, activeCount, snapshot, commitLog, versions, at>>
  BY DEF BeginNumber, Move
<1>2. TypeOK'
  <2>1. nextId' \in 1 .. MaxTxn + 1
    BY <1>0, <1>1, MvccAssumption DEF Txn
  <2>2. phase' \in [Txn -> Phase]
    BY <1>0, <1>1 DEF Inv, TypeOK, Phase
  <2>3. isolation' \in [Txn -> READ_UNCOMMITTED .. SERIALIZABLE]
    BY <1>0, MvccAssumption DEF Inv, TypeOK, BeginNumber
  <2> QED
    BY <1>1, <2>1, <2>2, <2>3 DEF Inv, TypeOK
<1>3. TableCounted'
  <2>1. \A u \in Txn : phase'[u] \in Listed <=> phase[u] \in Listed
    BY <1>0, <1>1 DEF Inv, TypeOK, Listed
  <2>2. \A u \in Txn : Registered(u)' <=> Registered(u)
    BY <1>1 DEF Registered
  <2> QED
    BY <1>1, <2>1, <2>2 DEF Inv, TableCounted, Listed
<1>4. Numbered'
  <2> SUFFICES ASSUME NEW u \in Txn
               PROVE  phase'[u] = "unborn" <=> t + 1 <= u
    BY <1>1 DEF Numbered
  <2>1. u \in Nat /\ (phase[u] = "unborn" <=> t <= u)
    BY <1>0 DEF Inv, Numbered
  <2>2. CASE u = t
    BY <1>0, <1>1, <2>2 DEF Inv, TypeOK
  <2>3. CASE u # t
    BY <1>0, <1>1, <2>1, <2>3 DEF Inv, TypeOK
  <2> QED
    BY <2>2, <2>3
<1>5. SnapshotExact' /\ GhostKept'
  BY <1>1 DEF Inv, SnapshotExact, IsVisible, GhostKept
<1>6. EndedForGood'
  <2>1. \A u \in Txn : phase[u] \in Ended => phase'[u] = phase[u]
    BY <1>0, <1>1 DEF Inv, TypeOK, Ended
  <2> QED
    BY <1>1, <2>1 DEF Inv, EndedForGood
<1> QED
  BY <1>2, <1>3, <1>4, <1>5, <1>6 DEF Inv

LEMMA KeepSnapshot ==
  ASSUME Inv, NEW t \in Txn, BeginSnapshot(t)
  PROVE  Inv'
<1>1. /\ phase[t] = "numbered"
      /\ phase' = [phase EXCEPT ![t] = "snapped"]
      /\ UNCHANGED <<nextId, isolation, active, activeCount, commitLog, versions>>
  BY DEF BeginSnapshot, Move
<1>2. \A u \in Txn : u # t => phase'[u] = phase[u]
  BY <1>1 DEF Inv, TypeOK
<1>3. phase'[t] = "snapped" /\ phase' \in [Txn -> Phase]
  BY <1>1 DEF Inv, TypeOK, Phase
<1>4. TableCounted'
  <2>1. \A u \in Txn : phase'[u] \in Listed <=> phase[u] \in Listed
    BY <1>1, <1>2, <1>3 DEF Listed
  <2>2. \A u \in Txn : Registered(u)' <=> Registered(u)
    BY <1>1 DEF Registered
  <2> QED
    BY <1>1, <2>1, <2>2 DEF Inv, TableCounted, Listed
<1>5. Numbered'
  BY <1>1, <1>2, <1>3 DEF Inv, Numbered
<1>6. \A c \in Txn : Standing(c) \in {"live", "unlisted", "ended"}
  BY DEF Standing
<1>7. \A c \in Txn : Standing(c) = "ended" => phase[c] \in Ended
  BY DEF Standing, Ended, Inv, TypeOK, Phase
<1>8. CASE isolation[t] >= REPEATABLE_READ
  <2>1. /\ snapshot' = [snapshot EXCEPT ![t] = TakeSnapshot(t)]
        /\ at' = [at EXCEPT ![t] = [c \in Txn |-> Standing(c)]]
    BY <1>8 DEF BeginSnapshot
  <2>2. /\ TakeSnapshot(t) \in Snapshot
        /\ \A c \in Txn \ {t} :
             IsVisible(c, TakeSnapshot(t)) <=> Standing(c) # "live"
    BY <1>1, NewSnapshot DEF Inv
  <2>3. /\ snapshot' \in [Txn -> Snapshot \cup {None}]
        /\ snapshot'[t] = TakeSnapshot(t)
        /\ \A u \in Txn : u # t => snapshot'[u] = snapshot[u]
    BY <2>1, <2>2 DEF Inv, TypeOK
  <2>4. /\ at'[t] = [c \in Txn |-> Standing(c)]
        /\ \A u \in Txn : u # t => at'[u] = at[u]
    BY <2>1 DEF Inv, TypeOK
  <2>5. at' \in [Txn -> [Txn -> {"live", "unlisted", "ended"}] \cup {None}]
    BY <1>6, <2>1 DEF Inv, TypeOK
  <2>6. TypeOK'
    BY <1>1, <1>3, <2>3, <2>5 DEF Inv, TypeOK
  <2>7. SnapshotExact'
    <3> SUFFICES ASSUME NEW u \in Txn, NEW c \in Txn, snapshot'[u] # None,
                        c # u
                 PROVE  IsVisible(c, snapshot'[u]) <=> at'[u][c] # "live"
      BY DEF SnapshotExact, IsVisible
    <3>1. CASE u = t
      BY <2>2, <2>3, <2>4, <3>1
    <3>2. CASE u # t
      BY <2>3, <2>4, <3>2 DEF Inv, SnapshotExact
    <3> QED
      BY <3>1, <3>2
  <2>8. GhostKept'
    <3>1. [c \in Txn |-> Standing(c)] \in [Txn -> {"live", "unlisted", "ended"}]
      BY <1>6
    <3>2. ASSUME NEW u \in Txn, snapshot'[u] # None
          PROVE  at'[u] \in [Txn -> {"live", "unlisted", "ended"}]
      <4>1. CASE u = t
        BY <2>4, <3>1, <4>1
      <4>2. CASE u # t
        BY <2>3, <2>4, <3>2, <4>2 DEF Inv, GhostKept
      <4> QED
        BY <4>1, <4>2
    <3> QED
      BY <3>2 DEF GhostKept
  <2>9. EndedForGood'
    <3> SUFFICES ASSUME NEW u \in Txn, NEW c \in Txn, snapshot'[u] # None,
                        c # u, at'[u][c] = "ended"
                 PROVE  phase'[c] \in Ended
      BY DEF EndedForGood
    <3>1. CASE u = t
      BY <1>2, <1>7, <2>4, <3>1
    <3>2. CASE u # t
      <4>1. phase[c] \in Ended
        BY <2>3, <2>4, <3>2 DEF Inv, EndedForGood
      <4>2. phase[c] \in Ended => phase'[c] = phase[c]
        BY <1>1, <1>2 DEF Ended
      <4> QED
        BY <4>1, <4>2
    <3> QED
      BY <3>1, <3>2
  <2> QED
    BY <1>4, <1>5, <2>6, <2>7, <2>8, <2>9 DEF Inv
<1>9. CASE ~ (isolation[t] >= REPEATABLE_READ)
  <2>1. UNCHANGED <<snapshot, at>>
    BY <1>9 DEF BeginSnapshot
  <2>2. TypeOK'
    BY <1>1, <1>3, <2>1 DEF Inv, TypeOK
  <2>3. SnapshotExact' /\ GhostKept'
    BY <2>1 DEF Inv, SnapshotExact, IsVisible, GhostKept
  <2>4. EndedForGood'
    <3>1. \A c \in Txn : phase[c] \in Ended => phase'[c] = phase[c]
      BY <1>1, <1>2 DEF Ended
    <3> QED
      BY <2>1, <3>1 DEF Inv, EndedForGood
  <2> QED
    BY <1>4, <1>5, <2>2, <2>3, <2>4 DEF Inv
<1> QED
  BY <1>8, <1>9

LEMMA PlacesFinite ==
  /\ Place \subseteq Nat \ {0}
  /\ IsFiniteSet({p \in Place : active[p] # 0})
<1>1. IsFiniteSet(Place)
  BY FS_Interval, MvccAssumption DEF Place
<1>2. {p \in Place : active[p] # 0} \in SUBSET Place
  OBVIOUS
<1>3. IsFiniteSet({p \in Place : active[p] # 0})
  BY <1>1, <1>2, FS_Subset
<1> QED
  BY <1>3, MvccAssumption DEF Place

LEMMA KeepRegister ==
  ASSUME Inv, NEW t \in Txn, BeginRegister(t)
  PROVE  Inv'
<1> DEFINE free == {p \in Place : active[p] = 0}
           p0 == CHOOSE p \in free : \A q \in free : p <= q
           used == {p \in Place : active[p] # 0}
<1>1. /\ phase[t] = "snapped" /\ t # 0
      /\ UNCHANGED <<nextId, isolation, snapshot, commitLog, versions, at>>
  BY DEF BeginRegister, Txn
<1>2. PICK ph \in {"lost", "open"} :
        /\ phase' = [phase EXCEPT ![t] = ph]
        /\ \/ ph = "lost" /\ UNCHANGED <<active, activeCount>>
           \/ /\ ph = "open" /\ free # {}
              /\ active' = [active EXCEPT ![p0] = t]
              /\ activeCount' = activeCount + 1
  <2>1. CASE free = {}
    <3>1. /\ phase' = [phase EXCEPT ![t] = "lost"]
          /\ UNCHANGED <<active, activeCount>>
      BY <2>1 DEF BeginRegister, Move
    <3> QED
      BY <3>1
  <2>2. CASE free # {}
    <3>1. /\ phase' = [phase EXCEPT ![t] = "open"]
          /\ active' = [active EXCEPT ![p0] = t]
          /\ activeCount' = activeCount + 1
      BY <2>2 DEF BeginRegister, Move
    <3> HIDE DEF p0, free
    <3> QED
      BY <2>2, <3>1
  <2> QED
    BY <2>1, <2>2
<1>3. /\ phase'[t] = ph /\ phase' \in [Txn -> Phase]
      /\ \A u \in Txn : u # t => phase'[u] = phase[u]
  BY <1>2 DEF Inv, TypeOK, Phase
<1>4. Numbered'
  BY <1>1, <1>2, <1>3 DEF Inv, Numbered
<1>5. SnapshotExact' /\ GhostKept'
  BY <1>1 DEF Inv, SnapshotExact, IsVisible, GhostKept
<1>6. EndedForGood'
  <2>1. \A c \in Txn : phase[c] \in Ended => phase'[c] = phase[c]
    BY <1>1, <1>3 DEF Ended
  <2> QED
    BY <1>1, <2>1 DEF Inv, EndedForGood
<1>7. CASE ph = "lost"
  <2>1. UNCHANGED <<active, activeCount>>
    BY <1>2, <1>7
  <2>2. TypeOK'
    BY <1>1, <1>3, <2>1 DEF Inv, TypeOK
  <2>3. TableCounted'
    <3>1. \A u \in Txn : phase'[u] \in Listed <=> phase[u] \in Listed
      BY <1>1, <1>3, <1>7 DEF Listed
    <3>2. \A u \in Txn : Registered(u)' <=> Registered(u)
      BY <2>1 DEF Registered
    <3> QED
      BY <2>1, <3>1, <3>2 DEF Inv, TableCounted, Listed
  <2> QED
    BY <1>4, <1>5, <1>6, <2>2, <2>3 DEF Inv
<1>8. CASE ph = "open"
  <2>1. /\ free # {}
        /\ active' = [active EXCEPT ![p0] = t]
        /\ activeCount' = activeCount + 1
    BY <1>2, <1>8
  <2>2. p0 \in Place /\ active[p0] = 0
    <3>1. free \in SUBSET Nat
      BY PlacesFinite
    <3>2. \E p \in free : \A q \in free : p <= q
      BY <2>1, <3>1, LeastExists
    <3> QED
      BY <3>2
  <2> HIDE DEF p0, free
  <2>3. /\ active' \in [Place -> Txn \cup {0}] /\ active'[p0] = t
        /\ \A p \in Place : p # p0 => active'[p] = active[p]
    BY <2>1, <2>2 DEF Inv, TypeOK
  <2>4. TypeOK'
    BY <1>1, <1>3, <2>1, <2>3 DEF Inv, TypeOK
  <2>5. \A p \in Place : active[p] # t
    BY <1>1 DEF Inv, TableCounted, Registered
  <2>6. \A p, q \in Place : active'[p] = active'[q] /\ active'[p] # 0 => p = q
    BY <2>3, <2>5 DEF Inv, TableCounted
  <2>7. {p \in Place : active'[p] # 0} = used \cup {p0} /\ p0 \notin used
    BY <1>1, <2>2, <2>3
  <2>8. activeCount' = Cardinality({p \in Place : active'[p] # 0})
    <3>1. activeCount = Cardinality(used) /\ IsFiniteSet(used)
      BY PlacesFinite DEF Inv, TableCounted
    <3> HIDE DEF used
    <3>2. Cardinality(used \cup {p0}) = Cardinality(used) + 1
      BY <2>7, <3>1, FS_AddElement
    <3> QED
      BY <2>1, <2>7, <3>1, <3>2
  <2>9. \A u \in Txn : Registered(u)' <=> phase'[u] \in Listed
    <3> SUFFICES ASSUME NEW u \in Txn
                 PROVE  Registered(u)' <=> phase'[u] \in Listed
      OBVIOUS
    <3>1. CASE u = t
      BY <1>3, <1>8, <2>2, <2>3, <3>1 DEF Registered, Listed
    <3>2. CASE u # t
      <4>1. Registered(u) <=> phase[u] \in Listed
        BY DEF Inv, TableCounted, Listed
      <4>2. u # 0
        BY DEF Txn
      <4>3. Registered(u)' <=> Registered(u)
        BY <2>2, <2>3, <3>2, <4>2 DEF Registered
      <4> QED
        BY <1>3, <3>2, <4>1, <4>3
    <3> QED
      BY <3>1, <3>2
  <2>10. TableCounted'
    BY <2>6, <2>8, <2>9 DEF TableCounted, Listed
  <2> QED
    BY <1>4, <1>5, <1>6, <2>4, <2>10 DEF Inv
<1> QED
  BY <1>2, <1>7, <1>8

\* Prepare, commit and abort move a transaction from one phase in the table
\* to another.
LEMMA KeepMove ==
  ASSUME Inv, NEW t \in Txn, NEW ph \in Listed \cap Ended,
         phase[t] \in Listed, Move(t, ph), commitLog' \subseteq Txn,
         UNCHANGED <<nextId, isolation, active, activeCount, snapshot,
                     versions, at>>
  PROVE  Inv'
<1>1. /\ phase'[t] = ph /\ phase' \in [Txn -> Phase]
      /\ \A u \in Txn : u # t => phase'[u] = phase[u]
  BY DEF Move, Inv, TypeOK, Phase, Listed
<1>2. TypeOK'
  BY <1>1 DEF Inv, TypeOK
<1>3. TableCounted'
  <2>1. \A u \in Txn : phase'[u] \in Listed <=> phase[u] \in Listed
    BY <1>1
  <2>2. \A u \in Txn : Registered(u)' <=> Registered(u)
    BY DEF Registered
  <2> QED
    BY <2>1, <2>2 DEF Inv, TableCounted, Listed
<1>4. Numbered'
  BY <1>1 DEF Inv, Numbered, Listed
<1>5. SnapshotExact' /\ GhostKept'
  BY DEF Inv, SnapshotExact, IsVisible, GhostKept
<1>6. EndedForGood'
  <2>1. \A c \in Txn : phase[c] \in Ended => phase'[c] \in Ended
    BY <1>1
  <2> QED
    BY <2>1 DEF Inv, EndedForGood
<1> QED
  BY <1>2, <1>3, <1>4, <1>5, <1>6 DEF Inv

\* Creating a version and marking one deleted only change the versions.
LEMMA KeepVersions ==
  ASSUME Inv, versions' \in [Row -> Seq(RowVersion)],
         UNCHANGED <<nextId, phase, isolation, active, activeCount, snapshot,
                     commitLog, at>>
  PROVE  Inv'
<1>1. TypeOK'
  BY DEF Inv, TypeOK
<1>2. TableCounted'
  BY DEF Inv, TableCounted, Registered
<1>3. Numbered' /\ SnapshotExact' /\ GhostKept' /\ EndedForGood'
  BY DEF Inv, Numbered, SnapshotExact, GhostKept, EndedForGood, IsVisible
<1> QED
  BY <1>1, <1>2, <1>3 DEF Inv

LEMMA KeepCreate ==
  ASSUME Inv, NEW t \in Txn, NEW r \in Row, CreateVersion(t, r)
  PROVE  Inv'
<1>1. versions' \in [Row -> Seq(RowVersion)]
  <2>1. [created_by |-> t, deleted_by |-> 0] \in RowVersion
    BY DEF RowVersion
  <2>2. versions[r] \in Seq(RowVersion)
    BY DEF Inv, TypeOK
  <2>3. Append(versions[r], [created_by |-> t, deleted_by |-> 0])
          \in Seq(RowVersion)
    BY <2>1, <2>2
  <2> QED
    BY <2>3 DEF CreateVersion, Inv, TypeOK
<1> QED
  BY <1>1, KeepVersions DEF CreateVersion

\* What mvcc_mark_deleted changes: one version, seen and not deleted yet.
LEMMA MarkChanges ==
  ASSUME Inv, NEW t \in Txn, NEW r \in Row, MarkDeleted(t, r)
  PROVE  \E i \in 1 .. Len(versions[r]) :
           /\ versions[r][i].deleted_by = 0
           /\ versions' = [versions EXCEPT ![r] =
                [versions[r] EXCEPT ![i] =
                   [versions[r][i] EXCEPT !.deleted_by = t]]]
<1> DEFINE i == VisibleVersion(r, t)
<1>1. /\ i # 0 /\ versions[r][i].deleted_by = 0
      /\ versions' = [versions EXCEPT ![r] =
                [versions[r] EXCEPT ![i] =
                   [versions[r][i] EXCEPT !.deleted_by = t]]]
  BY DEF MarkDeleted
<1>2. i \in Seen(r, t)
  <2>1. Seen(r, t) \subseteq Nat /\ Seen(r, t) # {}
    BY <1>1 DEF VisibleVersion, Newest, Seen
  <2>2. \E m \in Seen(r, t) : \A j \in Seen(r, t) : j <= m
    <3>1. Len(versions[r]) \in Nat
      BY DEF Inv, TypeOK
    <3>2. Seen(r, t) \in SUBSET (1 .. Len(versions[r]))
      BY DEF Seen
    <3> QED
      BY <2>1, <3>1, <3>2, GreatestExists
  <2> QED
    BY <2>1, <2>2 DEF VisibleVersion, Newest
<1>3. i \in 1 .. Len(versions[r])
  BY <1>2 DEF Seen
<1> QED
  BY <1>1, <1>3

LEMMA KeepMark ==
  ASSUME Inv, NEW t \in Txn, NEW r \in Row, MarkDeleted(t, r)
  PROVE  Inv'
<1>1. PICK i \in 1 .. Len(versions[r]) :
        versions' = [versions EXCEPT ![r] =
          [versions[r] EXCEPT ![i] = [versions[r][i] EXCEPT !.deleted_by = t]]]
  BY MarkChanges
<1>2. versions[r] \in Seq(RowVersion) /\ versions[r][i] \in RowVersion
  BY DEF Inv, TypeOK
<1>3. [versions[r][i] EXCEPT !.deleted_by = t] \in RowVersion
  BY <1>2 DEF RowVersion
<1>4. [versions[r] EXCEPT ![i] = [versions[r][i] EXCEPT !.deleted_by = t]]
        \in Seq(RowVersion)
  BY <1>2, <1>3
<1>5. versions' \in [Row -> Seq(RowVersion)]
  BY <1>1, <1>4 DEF Inv, TypeOK
<1> QED
  BY <1>5, KeepVersions DEF MarkDeleted

LEMMA KeepUnregister ==
  ASSUME Inv, NEW t \in Txn, Unregister(t)
  PROVE  Inv'
<1> DEFINE used == {p \in Place : active[p] # 0}
<1>1. /\ phase[t] \in {"committing", "aborting"} /\ t # 0
      /\ phase' = [phase EXCEPT ![t] = "gone"]
      /\ active' = [p \in Place |-> IF active[p] = t THEN 0 ELSE active[p]]
      /\ activeCount' = activeCount - 1
      /\ snapshot' = [snapshot EXCEPT ![t] = None]
      /\ at' = [at EXCEPT ![t] = None]
      /\ isolation' = [isolation EXCEPT ![t] = READ_UNCOMMITTED]
      /\ UNCHANGED <<nextId, commitLog, versions>>
  BY DEF Unregister, Move, Txn
<1>2. /\ phase'[t] = "gone" /\ phase' \in [Txn -> Phase]
      /\ \A u \in Txn : u # t => phase'[u] = phase[u]
  BY <1>1 DEF Inv, TypeOK, Phase
<1>3. PICK p0 \in Place : active[p0] = t
  BY <1>1 DEF Inv, TableCounted, Registered
<1>4. \A p \in Place : p # p0 => active[p] # t
  BY <1>1, <1>3 DEF Inv, TableCounted
<1>5. /\ active' \in [Place -> Txn \cup {0}] /\ active'[p0] = 0
      /\ \A p \in Place : p # p0 => active'[p] = active[p]
  BY <1>1, <1>3, <1>4 DEF Inv, TypeOK
<1>6. {p \in Place : active'[p] # 0} = used \ {p0} /\ p0 \in used
  BY <1>1, <1>3, <1>5
<1>7. activeCount' = Cardinality({p \in Place : active'[p] # 0})
      /\ activeCount' \in Nat
  <2>1. activeCount = Cardinality(used) /\ IsFiniteSet(used)
    BY PlacesFinite DEF Inv, TableCounted
  <2> HIDE DEF used
  <2>2. Cardinality(used \ {p0}) = Cardinality(used) - 1
    BY <1>6, <2>1, FS_RemoveElement
  <2>3. IsFiniteSet(used \ {p0}) /\ Cardinality(used \ {p0}) \in Nat
    BY <2>1, FS_RemoveElement, FS_CardinalityType
  <2> QED
    BY <1>1, <1>6, <2>1, <2>2, <2>3
<1>8. TypeOK'
  <2>1. /\ snapshot' \in [Txn -> Snapshot \cup {None}]
        /\ at' \in [Txn -> [Txn -> {"live", "unlisted", "ended"}] \cup {None}]
    BY <1>1 DEF Inv, TypeOK
  <2>2. isolation' \in [Txn -> READ_UNCOMMITTED .. SERIALIZABLE]
    BY <1>1 DEF Inv, TypeOK, READ_UNCOMMITTED, SERIALIZABLE
  <2> QED
    BY <1>1, <1>2, <1>5, <1>7, <2>1, <2>2 DEF Inv, TypeOK
<1>9. TableCounted'
  <2>1. \A p, q \in Place : active'[p] = active'[q] /\ active'[p] # 0 => p = q
    BY <1>5 DEF Inv, TableCounted
  <2>2. ASSUME NEW u \in Txn
        PROVE  Registered(u)' <=> phase'[u] \in Listed
    <3>1. CASE u = t
      BY <1>2, <1>4, <1>5, <1>1, <3>1 DEF Registered, Listed
    <3>2. CASE u # t
      <4>1. Registered(u) <=> phase[u] \in Listed
        BY DEF Inv, TableCounted, Listed
      <4>2. u # 0
        BY DEF Txn
      <4>3. Registered(u)' <=> Registered(u)
        BY <1>3, <1>5, <3>2, <4>2 DEF Registered
      <4> QED
        BY <1>2, <3>2, <4>1, <4>3
    <3> QED
      BY <3>1, <3>2
  <2> QED
    BY <1>7, <2>1, <2>2 DEF TableCounted, Listed
<1>10. Numbered'
  BY <1>1, <1>2 DEF Inv, Numbered
<1>11. \A u \in Txn : snapshot'[u] # None =>
         u # t /\ snapshot'[u] = snapshot[u] /\ at'[u] = at[u]
  BY <1>1 DEF Inv, TypeOK
<1>12. SnapshotExact'
  <2> SUFFICES ASSUME NEW u \in Txn, NEW c \in Txn, snapshot'[u] # None, c # u
               PROVE  IsVisible(c, snapshot'[u]) <=> at'[u][c] # "live"
    BY DEF SnapshotExact, IsVisible
  <2> QED
    BY <1>11 DEF Inv, SnapshotExact
<1>13. GhostKept'
  BY <1>11 DEF Inv, GhostKept
<1>14. EndedForGood'
  <2>1. \A c \in Txn : phase[c] \in Ended => phase'[c] \in Ended
    BY <1>2 DEF Ended
  <2> QED
    BY <1>11, <2>1 DEF Inv, EndedForGood
<1> QED
  BY <1>8, <1>9, <1>10, <1>12, <1>13, <1>14 DEF Inv

LEMMA NextInv == Inv /\ [Next]_vars => Inv'
<1> SUFFICES ASSUME Inv, [Next]_vars PROVE Inv'
  OBVIOUS
<1>1. CASE UNCHANGED vars
  <2>1. versions' \in [Row -> Seq(RowVersion)]
    BY <1>1 DEF Inv, TypeOK, vars
  <2> QED
    BY <1>1, <2>1, KeepVersions DEF vars
<1>2. ASSUME NEW level \in Level, BeginNumber(level) PROVE Inv'
  BY <1>2, KeepNumber
<1>3. ASSUME NEW t \in Txn, Step(t) PROVE Inv'
  <2>1. CASE BeginSnapshot(t)
    BY <2>1, KeepSnapshot
  <2>2. CASE BeginRegister(t)
    BY <2>2, KeepRegister
  <2>3. CASE \E r \in Row : CreateVersion(t, r)
    BY <2>3, KeepCreate
  <2>4. CASE \E r \in Row : MarkDeleted(t, r)
    BY <2>4, KeepMark
  <2>5. CASE Prepare(t)
    BY <2>5, KeepMove DEF Prepare, Listed, Ended, Inv, TypeOK
  <2>6. CASE CommitStart(t)
    BY <2>6, KeepMove DEF CommitStart, Listed, Ended, Inv, TypeOK
  <2>7. CASE AbortStart(t)
    BY <2>7, KeepMove DEF AbortStart, Listed, Ended, Inv, TypeOK
  <2>8. CASE Unregister(t)
    BY <2>8, KeepUnregister
  <2> QED
    BY <1>3, <2>1, <2>2, <2>3, <2>4, <2>5, <2>6, <2>7, <2>8 DEF Step
<1> QED
  BY <1>1, <1>2, <1>3 DEF Next

LEMMA Invariance == Spec => []Inv
BY InitInv, NextInv, PTL DEF Spec

-----------------------------------------------------------------------------

\* active_count counts the occupied places of active_txns and the table
\* holds exactly the transactions between begin and end, for every size of
\* the table and every interleaving of begins, commits and aborts.
THEOREM TableCorrect == Spec => []TableCounted
<1>1. Inv => TableCounted
  BY DEF Inv
<1> QED
  BY <1>1, Invariance, PTL

\* A snapshot hides exactly the transactions that were unborn, or in the
\* table and ACTIVE, when mvcc_take_snapshot ran.
THEOREM SnapshotCorrect == Spec => []SnapshotExact
<1>1. Inv => SnapshotExact
  BY DEF Inv
<1> QED
  BY <1>1, Invariance, PTL

\* A transaction that still writes is hidden from a clean snapshot.
LEMMA WriterHidden ==
  ASSUME Inv, NEW t \in Txn, NEW c \in Txn, c # t, snapshot[t] # None,
         CleanSnapshot(t), phase[c] \in {"open", "lost"}
  PROVE  ~ IsVisible(c, snapshot[t])
<1>1. at[t][c] # "ended"
  BY DEF Inv, EndedForGood, Ended
<1>2. at[t][c] # "unlisted"
  BY DEF CleanSnapshot
<1>3. at[t] \in [Txn -> {"live", "unlisted", "ended"}]
  BY DEF Inv, GhostKept
<1>4. at[t][c] = "live"
  BY <1>1, <1>2, <1>3
<1> QED
  BY <1>4 DEF Inv, SnapshotExact

\* Equal records seen through equal snapshots are seen alike.
LEMMA SameSeen ==
  ASSUME NEW t \in Txn, NEW r \in Row, snapshot'[t] = snapshot[t],
         versions'[r] = versions[r]
  PROVE  VisibleVersion(r, t) = VisibleVersion(r, t)'
<1>1. Seen(r, t)' = Seen(r, t)
  BY DEF Seen, VersionVisible, IsVisible
<1> QED
  BY <1>1 DEF VisibleVersion

LEMMA CreateRepeats ==
  ASSUME Inv, NEW c \in Txn, NEW q \in Row, CreateVersion(c, q)
  PROVE  ReadsRepeat
<1> SUFFICES ASSUME NEW t \in Txn, NEW r \in Row, snapshot[t] # None,
                    CleanSnapshot(t), Own(t, r) = Own(t, r)'
             PROVE  VisibleVersion(r, t) = VisibleVersion(r, t)'
  BY DEF ReadsRepeat
<1> DEFINE n == Len(versions[r]) + 1
           new == [created_by |-> c, deleted_by |-> 0]
<1>1. snapshot' = snapshot /\ phase[c] \in {"open", "lost"}
  BY DEF CreateVersion
<1>2. versions[r] \in Seq(RowVersion)
  BY DEF Inv, TypeOK
<1>3. CASE q # r
  <2>1. versions'[r] = versions[r]
    BY <1>3 DEF CreateVersion, Inv, TypeOK
  <2> QED
    BY <1>1, <2>1, SameSeen
<1>4. CASE q = r
  <2>1. versions'[r] = Append(versions[r], new)
    BY <1>4 DEF CreateVersion, Inv, TypeOK
  <2>2. /\ Len(versions'[r]) = n /\ versions'[r][n] = new
        /\ \A i \in 1 .. Len(versions[r]) : versions'[r][i] = versions[r][i]
        /\ Len(versions[r]) \in Nat
    BY <1>2, <2>1
  <2>3. CASE c = t
    <3>1. n \in {i \in 1 .. Len(versions'[r]) : versions'[r][i].created_by = t}
      BY <2>2, <2>3
    <3>2. n \notin {i \in 1 .. Len(versions[r]) : versions[r][i].created_by = t}
      BY <2>2
    <3> QED
      BY <3>1, <3>2 DEF Own
  <2>4. CASE c # t
    <3>1. ~ IsVisible(c, snapshot[t])
      BY <1>1, <2>4, WriterHidden
    <3>2. ~ VersionVisible(new, t)
      BY <2>4, <3>1 DEF VersionVisible
    <3>3. Seen(r, t)' = {i \in 1 .. Len(versions'[r]) :
                          VersionVisible(versions'[r][i], t)}
      BY <1>1 DEF Seen, VersionVisible, IsVisible
    <3>4. Seen(r, t)' = Seen(r, t)
      BY <2>2, <3>2, <3>3 DEF Seen
    <3> QED
      BY <3>4 DEF VisibleVersion
  <2> QED
    BY <2>3, <2>4
<1> QED
  BY <1>3, <1>4

LEMMA MarkRepeats ==
  ASSUME Inv, NEW c \in Txn, NEW q \in Row, MarkDeleted(c, q)
  PROVE  ReadsRepeat
<1> SUFFICES ASSUME NEW t \in Txn, NEW r \in Row, snapshot[t] # None,
                    CleanSnapshot(t), Own(t, r) = Own(t, r)'
             PROVE  VisibleVersion(r, t) = VisibleVersion(r, t)'
  BY DEF ReadsRepeat
<1>1. snapshot' = snapshot /\ phase[c] \in {"open", "lost"}
  BY DEF MarkDeleted
<1>2. PICK m \in 1 .. Len(versions[q]) :
        /\ versions[q][m].deleted_by = 0
        /\ versions' = [versions EXCEPT ![q] =
             [versions[q] EXCEPT ![m] =
                [versions[q][m] EXCEPT !.deleted_by = c]]]
  BY MarkChanges
<1>3. versions[r] \in Seq(RowVersion)
  BY DEF Inv, TypeOK
<1>4. CASE q # r
  <2>1. versions'[r] = versions[r]
    BY <1>2, <1>4 DEF Inv, TypeOK
  <2> QED
    BY <1>1, <2>1, SameSeen
<1>5. CASE q = r
  <2> DEFINE old == versions[r][m]
             new == versions'[r][m]
  <2>1. versions'[r] =
          [versions[r] EXCEPT ![m] = [versions[r][m] EXCEPT !.deleted_by = c]]
    BY <1>2, <1>5 DEF Inv, TypeOK
  <2>2. old \in RowVersion /\ m \in 1 .. Len(versions[r])
    BY <1>2, <1>3, <1>5
  <2>3. /\ Len(versions'[r]) = Len(versions[r])
        /\ \A i \in 1 .. Len(versions[r]) :
             i # m => versions'[r][i] = versions[r][i]
        /\ new = [old EXCEPT !.deleted_by = c]
    BY <1>3, <2>1, <2>2
  <2>4. /\ new.created_by = old.created_by /\ new.deleted_by = c
        /\ old.deleted_by = 0 /\ c # 0 /\ t # 0
    BY <1>2, <1>5, <2>2, <2>3 DEF RowVersion, Txn
  <2>5. CASE c = t
    <3>1. m \in {i \in 1 .. Len(versions'[r]) : versions'[r][i].deleted_by = t}
      BY <2>2, <2>3, <2>4, <2>5
    <3>2. m \notin {i \in 1 .. Len(versions[r]) : versions[r][i].deleted_by = t}
      BY <2>4
    <3> QED
      BY <3>1, <3>2 DEF Own
  <2>6. CASE c # t
    <3>1. ~ IsVisible(c, snapshot[t])
      BY <1>1, <2>6, WriterHidden
    <3> HIDE DEF old, new
    <3>2. VersionVisible(new, t) <=> VersionVisible(old, t)
      BY <2>4, <2>6, <3>1 DEF VersionVisible
    <3> USE DEF old, new
    <3>3. Seen(r, t)' = {i \in 1 .. Len(versions'[r]) :
                          VersionVisible(versions'[r][i], t)}
      BY <1>1 DEF Seen, VersionVisible, IsVisible
    <3>4. Seen(r, t)' = Seen(r, t)
      <4>1. ASSUME NEW i \in 1 .. Len(versions[r])
            PROVE  VersionVisible(versions'[r][i], t)
                     <=> VersionVisible(versions[r][i], t)
        <5>1. CASE i = m
          BY <3>2, <5>1
        <5>2. CASE i # m
          BY <2>3, <5>2
        <5> QED
          BY <5>1, <5>2
      <4> QED
        BY <2>3, <3>3, <4>1 DEF Seen
    <3> QED
      BY <3>4 DEF VisibleVersion
  <2> QED
    BY <2>5, <2>6
<1> QED
  BY <1>4, <1>5

\* Every other step leaves the versions alone, and a snapshot that is there
\* before and after it.
LEMMA OthersRepeat ==
  ASSUME versions' = versions,
         \A t \in Txn : snapshot[t] # None /\ snapshot'[t] # None
                         /\ phase[t] = "open" => snapshot'[t] = snapshot[t]
  PROVE  ReadsRepeat
BY SameSeen DEF ReadsRepeat

LEMMA StepRepeats == Inv /\ [Next]_vars => [ReadsRepeat]_vars
<1> SUFFICES ASSUME Inv, Next PROVE ReadsRepeat
  BY DEF vars
<1>1. ASSUME NEW level \in Level, BeginNumber(level) PROVE ReadsRepeat
  BY <1>1, OthersRepeat DEF BeginNumber
<1>2. ASSUME NEW t \in Txn, Step(t) PROVE ReadsRepeat
  <2>1. CASE BeginSnapshot(t)
    <3>1. versions' = versions /\ phase[t] = "numbered"
      BY <2>1 DEF BeginSnapshot
    <3>2. \A u \in Txn : u # t => snapshot'[u] = snapshot[u]
      BY <2>1 DEF BeginSnapshot, Inv, TypeOK
    <3> QED
      BY <3>1, <3>2, OthersRepeat
  <2>2. CASE BeginRegister(t)
    BY <2>2, OthersRepeat DEF BeginRegister
  <2>3. CASE \E r \in Row : CreateVersion(t, r)
    BY <2>3, CreateRepeats
  <2>4. CASE \E r \in Row : MarkDeleted(t, r)
    BY <2>4, MarkRepeats
  <2>5. CASE Prepare(t) \/ CommitStart(t) \/ AbortStart(t)
    BY <2>5, OthersRepeat DEF Prepare, CommitStart, AbortStart
  <2>6. CASE Unregister(t)
    <3>1. versions' = versions /\ snapshot'[t] = None
      BY <2>6 DEF Unregister, Inv, TypeOK
    <3>2. \A u \in Txn : u # t => snapshot'[u] = snapshot[u]
      BY <2>6 DEF Unregister, Inv, TypeOK
    <3> QED
      BY <3>1, <3>2, OthersRepeat
  <2> QED
    BY <1>2, <2>1, <2>2, <2>3, <2>4, <2>5, <2>6 DEF Step
<1> QED
  BY <1>1, <1>2 DEF Next

\* Under a clean snapshot the version a transaction sees of a row changes by
\* its own writes only, for any number of concurrent transactions.
THEOREM RepeatableReadCorrect == Spec => RepeatableRead
BY Invariance, StepRepeats, PTL DEF Spec, RepeatableRead
=============================================================================
