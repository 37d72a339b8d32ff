---------------------------- MODULE KVStoreProofs ----------------------------
(***************************************************************************)
(* Proofs about KVStore for every table size, hash function, key set and   *)
(* bound: type correctness; scans agree with lookups; the last put is      *)
(* visible; log and snapshot together hold the updates, and recovery       *)
(* rebuilds them; and the refinement of DurableMap.  About the other       *)
(* key-value engine, LsmTree: a lookup answers the last write.  Last about *)
(* Encodings: what src/storage_engine.c compresses it decompresses, and    *)
(* what src/backup.c escapes src/lexer.c reads back.                       *)
(***************************************************************************)
EXTENDS Encodings, KVStore, LsmTree, ArrayLemmas, WellFoundedInduction, TLAPS

-----------------------------------------------------------------------------
(* The probe loop. *)

\* The slots probed are slots of the table.
LEMMA ProbeSlotType ==
  ASSUME NEW k \in Key, NEW i \in Nat
  PROVE  ProbeSlot(k, i) \in Slot
<1>1. Hash[k] \in Nat /\ Capacity \in Nat /\ Capacity > 0
  BY HashAssumption, CapacityAssumption DEF Slot
<1>2. (Hash[k] + i) % Capacity \in 0 .. Capacity - 1
  BY <1>1
<1> QED
  BY <1>2 DEF ProbeSlot, Slot

\* A non-empty set of slot numbers has a least element.
LEMMA LeastSlot ==
  ASSUME NEW T, T \subseteq Slot, T # {}
  PROVE  \E i \in T : \A j \in T : i <= j
<1>1. T \subseteq Nat
  BY CapacityAssumption DEF Slot
<1>2. PICK i \in T : \A j \in T : ~ (<<j, i>> \in OpToRel(<, Nat))
  BY <1>1, WFMin, NatLessThanWellFounded
<1>3. \A j \in T : ~ (j < i)
  BY <1>1, <1>2 DEF OpToRel
<1> QED
  BY <1>1, <1>3

\* StopSlot is where the probe loop stops first.
LEMMA StopSlotFirst ==
  ASSUME NEW t, NEW k \in Key, ~ Full(t, k)
  PROVE  \E i \in Slot : /\ StopSlot(t, k) = ProbeSlot(k, i)
                         /\ Stops(t, k, i)
                         /\ \A j \in 0 .. i - 1 : ~ Stops(t, k, j)
<1> DEFINE T == {i \in Slot : Stops(t, k, i)}
<1>1. T # {}
  BY DEF Full
<1>2. PICK m \in T : \A j \in T : m <= j
  BY <1>1, LeastSlot
<1>3. \A j \in 0 .. m - 1 : ~ Stops(t, k, j)
  BY <1>2, CapacityAssumption DEF Slot
<1>4. \E i \in Slot : Stops(t, k, i) /\ \A j \in 0 .. i - 1 : ~ Stops(t, k, j)
  BY <1>2, <1>3
<1> DEFINE c == CHOOSE i \in Slot :
                  Stops(t, k, i) /\ \A j \in 0 .. i - 1 : ~ Stops(t, k, j)
<1>5. c \in Slot /\ Stops(t, k, c) /\ \A j \in 0 .. c - 1 : ~ Stops(t, k, j)
  BY <1>4
<1> QED
  BY <1>5 DEF StopSlot

LEMMA StopSlotType ==
  ASSUME NEW t, NEW k \in Key, ~ Full(t, k)
  PROVE  StopSlot(t, k) \in Slot
<1>1. PICK i \in Slot : StopSlot(t, k) = ProbeSlot(k, i)
  BY StopSlotFirst
<1> QED
  BY <1>1, ProbeSlotType, CapacityAssumption DEF Slot

\* kv_put_internal and the marking of a deleted slot yield tables.
LEMMA TableOps ==
  ASSUME NEW t \in Table, NEW k \in Key, NEW v \in Val
  PROVE  PutInternal(t, k, v) \in Table /\ Vacate(t, k) \in Table
BY StopSlotType DEF PutInternal, Vacate, Found, Table, Entry

LEMMA LoadEntryType ==
  ASSUME NEW t \in Table, NEW image \in Table, NEW s \in Slot
  PROVE  LoadEntry(t, image, s) \in Table
<1>1. image[s] # None => image[s].key \in Key /\ image[s].val \in Val
  BY DEF Table, Entry
<1> QED
  BY <1>1, TableOps DEF LoadEntry

LEMMA ApplyRecordType ==
  ASSUME NEW t \in Table, NEW r \in PutRec \cup DelRec
  PROVE  ApplyRecord(t, r) \in Table
<1>1. CASE r \in PutRec
  BY <1>1, TableOps DEF ApplyRecord, PutRec
<1>2. CASE r \in DelRec
  <2>1. r.op # "put" /\ r.key \in Key
    BY <1>2 DEF DelRec
  <2>2. Vacate(t, r.key) \in Table
    BY <2>1, StopSlotType DEF Vacate, Found, Table
  <2> QED
    BY <2>1, <2>2 DEF ApplyRecord
<1> QED
  BY <1>1, <1>2

-----------------------------------------------------------------------------
(* Type correctness. The loop over the snapshot needs to know that there   *)
(* is one.                                                                 *)

TypeInv == TypeOK /\ (phase = "loading" => snapFile # NoFile)

LEMMA InitTypeInv == Init => TypeInv
<1> SUFFICES ASSUME Init PROVE TypeInv
  OBVIOUS
<1>1. logOpen \in BOOLEAN /\ dropped \in BOOLEAN /\ deletedEver \in BOOLEAN
  BY Zenon DEF Init
<1>2. entries \in Table
  BY DEF Init, EmptyTable, Table
<1>3. logFile \in Seq(PutRec \cup DelRec)
  BY DEF Init
<1> QED
  BY <1>1, <1>2, <1>3 DEF Init, TypeOK, TypeInv

LEMMA AppendLogType ==
  ASSUME TypeOK, NEW rec \in PutRec \cup DelRec, AppendLog(rec)
  PROVE  /\ logFile' \in Seq(PutRec \cup DelRec)
         /\ logOpen' \in BOOLEAN /\ logSize' \in Nat
         /\ phase' \in {"ready", "closed"} \cup {phase}
         /\ dropped' \in BOOLEAN
<1>1. CASE ~ logOpen
  <2>1. dropped' \in BOOLEAN
    BY <1>1, Zenon DEF AppendLog
  <2> QED
    BY <1>1, <2>1 DEF TypeOK, AppendLog
<1>2. CASE logOpen
  <2>1. /\ logFile' = Append(logFile, rec)
        /\ logSize' = logSize + 1
        /\ dropped' = dropped
        /\ EnterSnapshot \/ (logOpen' = logOpen /\ phase' = phase)
    BY <1>2 DEF AppendLog
  <2>2. logOpen' \in BOOLEAN
    BY <1>2, <2>1, Zenon DEF EnterSnapshot
  <2>3. phase' \in {"ready", "closed"} \cup {phase}
    BY <2>1 DEF EnterSnapshot
  <2> QED
    BY <2>1, <2>2, <2>3 DEF TypeOK
<1> QED
  BY <1>1, <1>2

LEMMA NextTypeInv == TypeInv /\ [Next]_vars => TypeInv'
<1> SUFFICES ASSUME TypeInv, [Next]_vars PROVE TypeInv'
  OBVIOUS
<1>1. ASSUME NEW k \in Key, NEW v \in Val, Put(k, v) PROVE TypeInv'
  <2> DEFINE rec == [op |-> "put", key |-> k, val |-> v]
  <2>1. rec \in PutRec
    BY DEF PutRec
  <2>2. entries' \in Table
    BY <1>1, TableOps DEF Put, TypeOK, TypeInv
  <2> QED
    BY <1>1, <2>1, <2>2, AppendLogType DEF Put, TypeOK, TypeInv
<1>2. ASSUME NEW k \in Key, Delete(k) PROVE TypeInv'
  <2> DEFINE rec == [op |-> "delete", key |-> k]
  <2>1. rec \in DelRec
    BY DEF DelRec
  <2>2. entries' \in Table
    BY <1>2, StopSlotType DEF Delete, TypeOK, TypeInv, Vacate, Found, Table
  <2> QED
    BY <1>2, <2>1, <2>2, AppendLogType DEF Delete, TypeOK, TypeInv
<1>3. CASE Checkpoint
  BY <1>3 DEF Checkpoint, EnterSnapshot, TypeOK, TypeInv, files
<1>4. CASE SnapshotOpenFails
  BY <1>4 DEF SnapshotOpenFails, TypeOK, TypeInv, files
<1>5. CASE SnapshotWriteTmp
  BY <1>5 DEF SnapshotWriteTmp, TypeOK, TypeInv
<1>6. CASE SnapshotRemoveOld
  BY <1>6 DEF SnapshotRemoveOld, TypeOK, TypeInv
<1>7. CASE SnapshotRename
  BY <1>7 DEF SnapshotRename, TypeOK, TypeInv
<1>8. CASE SnapshotResetLog
  <2>1. logOpen' \in BOOLEAN /\ dropped' \in BOOLEAN
    BY <1>8, Zenon DEF SnapshotResetLog
  <2> QED
    BY <1>8, <2>1 DEF SnapshotResetLog, TypeOK, TypeInv
<1>9. CASE Restart
  BY <1>9 DEF Restart, TypeOK, TypeInv, files
<1>10. CASE RecoverLoad
  <2>1. CASE cursor \in Slot
    <3>1. entries' \in Table
      BY <1>10, <2>1, LoadEntryType DEF RecoverLoad, TypeOK, TypeInv
    <3> QED
      BY <1>10, <2>1, <3>1 DEF RecoverLoad, TypeOK, TypeInv, files
  <2>2. CASE cursor \notin Slot
    BY <1>10, <2>2 DEF RecoverLoad, TypeOK, TypeInv, files
  <2> QED
    BY <2>1, <2>2
<1>11. CASE RecoverReplay
  <2>1. CASE cursor + 1 \in 1 .. Len(logFile)
    <3>1. logFile[cursor + 1] \in PutRec \cup DelRec
      BY <2>1 DEF TypeOK, TypeInv
    <3>2. entries' \in Table
      BY <1>11, <2>1, <3>1, ApplyRecordType DEF RecoverReplay, TypeOK, TypeInv
    <3> QED
      BY <1>11, <2>1, <3>2 DEF RecoverReplay, TypeOK, TypeInv, files
  <2>2. CASE ~ (cursor + 1 \in 1 .. Len(logFile))
    BY <1>11, <2>2 DEF RecoverReplay, TypeOK, TypeInv, files
  <2> QED
    BY <2>1, <2>2
<1>12. CASE Crash
  <2>1. logOpen' \in BOOLEAN /\ dropped' \in BOOLEAN
    BY <1>12, Zenon DEF Crash
  <2>2. entries' \in Table
    BY <1>12 DEF Crash, EmptyTable, Table
  <2> QED
    BY <1>12, <2>1, <2>2 DEF Crash, TypeOK, TypeInv, files
<1>13. CASE UNCHANGED vars
  BY <1>13 DEF vars, TypeOK, TypeInv
<1> QED
  BY <1>1, <1>2, <1>3, <1>4, <1>5, <1>6, <1>7, <1>8, <1>9, <1>10, <1>11,
     <1>12, <1>13 DEF Next, SnapshotStep, RecoverStep

\* The state of the store and of its files keeps its types.
THEOREM TypeCorrect == Spec => []TypeOK
<1>1. TypeInv => TypeOK
  BY DEF TypeInv
<1> QED
  BY <1>1, InitTypeInv, NextTypeInv, PTL DEF Spec

-----------------------------------------------------------------------------
(* Scans and lookups. Two shapes of table keep every entry reachable: one  *)
(* without a gap before any entry, and one with every entry at home.       *)

\* The probe for the entry's key reaches it over entries of other keys.
Reaches(t, s, i) ==
  /\ ProbeSlot(t[s].key, i) = s
  /\ \A j \in 0 .. i - 1 : ~ Stops(t, t[s].key, j)

NoGap(t) == \A s \in Slot : t[s] # None => \E i \in Slot : Reaches(t, s, i)

AtHome(t) == \A s \in Slot : t[s] # None => Hash[t[s].key] = s

\* An entry the probe reaches is the one the lookup returns.
LEMMA ReachedIsFound ==
  ASSUME NEW t \in Table, NEW s \in Slot, t[s] # None,
         NEW i \in Slot, Reaches(t, s, i)
  PROVE  Lookup(t, t[s].key) = t[s].val
<1> DEFINE k == t[s].key
<1>1. k \in Key
  BY DEF Table, Entry
<1>2. Stops(t, k, i)
  BY DEF Stops, Reaches
<1>3. ~ Full(t, k)
  BY <1>2 DEF Full
<1>4. PICK m \in Slot : /\ StopSlot(t, k) = ProbeSlot(k, m)
                        /\ Stops(t, k, m)
                        /\ \A j \in 0 .. m - 1 : ~ Stops(t, k, j)
  BY <1>1, <1>3, StopSlotFirst
<1>5. m = i
  <2>1. ~ (m < i)
    BY <1>4, CapacityAssumption DEF Reaches, Slot
  <2>2. ~ (i < m)
    BY <1>2, <1>4, CapacityAssumption DEF Slot
  <2> QED
    BY <2>1, <2>2, CapacityAssumption DEF Slot
<1>6. StopSlot(t, k) = s
  BY <1>4, <1>5 DEF Reaches
<1> QED
  BY <1>3, <1>6 DEF Lookup, Found

\* The first probe of a key looks at its home slot.
LEMMA HomeIsFirst ==
  ASSUME NEW k \in Key
  PROVE  ProbeSlot(k, 0) = Hash[k] /\ 0 \in Slot
<1>1. Hash[k] \in 0 .. Capacity - 1 /\ Capacity \in Nat /\ Capacity > 0
  BY HashAssumption, CapacityAssumption DEF Slot
<1>2. (Hash[k] + 0) % Capacity = Hash[k]
  BY <1>1
<1> QED
  BY <1>1, <1>2 DEF ProbeSlot, Slot

LEMMA HomeIsGapless ==
  ASSUME NEW t \in Table, AtHome(t)
  PROVE  NoGap(t)
<1> SUFFICES ASSUME NEW s \in Slot, t[s] # None
             PROVE  \E i \in Slot : Reaches(t, s, i)
  BY DEF NoGap
<1>1. t[s].key \in Key
  BY DEF Table, Entry
<1>2. ProbeSlot(t[s].key, 0) = s /\ 0 \in Slot
  BY <1>1, HomeIsFirst DEF AtHome
<1>3. Reaches(t, s, 0)
  BY <1>2 DEF Reaches
<1> QED
  BY <1>2, <1>3

\* kv_put_internal leaves no gap.
LEMMA PutNoGap ==
  ASSUME NEW t \in Table, NoGap(t), NEW k \in Key, NEW v \in Val
  PROVE  NoGap(PutInternal(t, k, v))
<1>1. CASE Full(t, k)
  BY <1>1 DEF PutInternal
<1>2. CASE ~ Full(t, k)
  <2> DEFINE p == StopSlot(t, k)
             u == PutInternal(t, k, v)
  <2>1. p \in Slot /\ u = [t EXCEPT ![p] = [key |-> k, val |-> v]]
    BY <1>2, StopSlotType DEF PutInternal
  <2>2. PICK m \in Slot : /\ p = ProbeSlot(k, m)
                          /\ Stops(t, k, m)
                          /\ \A j \in 0 .. m - 1 : ~ Stops(t, k, j)
    BY <1>2, StopSlotFirst
  <2>3. u \in Table
    BY TableOps
  <2>4. u[p] = [key |-> k, val |-> v] /\ u[p] # None
    BY <2>1, MarkerAssumption DEF Table, Entry
  <2>5. \A q \in Slot : q # p => u[q] = t[q]
    BY <2>1 DEF Table
  \* What blocks a probe in t still blocks it in u, but at p for key k.
  <2>6. ASSUME NEW l \in Key, NEW j \in Nat, ~ Stops(t, l, j),
               l # k \/ ProbeSlot(l, j) # p
        PROVE  ~ Stops(u, l, j)
    <3>1. ProbeSlot(l, j) \in Slot
      BY ProbeSlotType
    <3>2. CASE ProbeSlot(l, j) # p
      BY <2>5, <2>6, <3>1, <3>2 DEF Stops
    <3>3. CASE ProbeSlot(l, j) = p
      BY <2>4, <2>6, <3>3 DEF Stops
    <3> QED
      BY <3>2, <3>3
  <2>7. ASSUME NEW s \in Slot, u[s] # None
        PROVE  \E i \in Slot : Reaches(u, s, i)
    <3>1. CASE s = p
      <4>1. ASSUME NEW j \in 0 .. m - 1 PROVE ~ Stops(u, k, j)
        <5>1. ~ Stops(t, k, j) /\ j \in Nat
          BY <2>2, CapacityAssumption DEF Slot
        <5>2. ProbeSlot(k, j) # p
          BY <2>2, <5>1 DEF Stops
        <5> QED
          BY <2>6, <5>1, <5>2
      <4>2. Reaches(u, s, m)
        BY <2>2, <2>4, <3>1, <4>1 DEF Reaches
      <4> QED
        BY <4>2
    <3>2. CASE s # p
      <4>1. u[s] = t[s] /\ t[s] # None /\ t[s].key \in Key
        BY <2>5, <2>7, <3>2 DEF Table, Entry
      <4>2. PICK i \in Slot : Reaches(t, s, i)
        BY <4>1 DEF NoGap
      <4>3. ASSUME NEW j \in 0 .. i - 1 PROVE ~ Stops(u, t[s].key, j)
        <5>1. ~ Stops(t, t[s].key, j) /\ j \in Nat
          BY <4>2, CapacityAssumption DEF Slot, Reaches
        <5>2. t[s].key = k => ProbeSlot(k, j) # p
          <6>1. CASE t[s].key = k
            \* p is k's first stop, and so is s.
            <7>1. ~ Stops(t, k, j)
              BY <5>1, <6>1
            <7>2. Stops(t, k, m) /\ p = ProbeSlot(k, m)
              BY <2>2
            <7> QED
              BY <7>1, <7>2 DEF Stops
          <6> QED
            BY <6>1
        <5> QED
          BY <2>6, <4>1, <5>1, <5>2
      <4>4. Reaches(u, s, i)
        BY <4>1, <4>2, <4>3 DEF Reaches
      <4> QED
        BY <4>4
    <3> QED
      BY <3>1, <3>2
  <2> QED
    BY <2>7 DEF NoGap
<1> QED
  BY <1>1, <1>2

\* Without collisions an entry is always put at home.
LEMMA PutAtHome ==
  ASSUME NoCollision, NEW t \in Table, AtHome(t), NEW k \in Key, NEW v \in Val
  PROVE  AtHome(PutInternal(t, k, v))
<1>1. CASE Full(t, k)
  BY <1>1 DEF PutInternal
<1>2. CASE ~ Full(t, k)
  <2>1. Hash[k] \in Slot
    BY HashAssumption
  <2>2. t[Hash[k]] # None => t[Hash[k]].key = k
    <3> SUFFICES ASSUME t[Hash[k]] # None PROVE t[Hash[k]].key = k
      OBVIOUS
    <3>1. t[Hash[k]].key \in Key
      BY <2>1 DEF Table, Entry
    <3> QED
      BY <2>1, <3>1 DEF AtHome, NoCollision
  <2>3. Stops(t, k, 0)
    BY <2>2, HomeIsFirst DEF Stops
  <2>4. PICK m \in Slot : /\ StopSlot(t, k) = ProbeSlot(k, m)
                          /\ \A j \in 0 .. m - 1 : ~ Stops(t, k, j)
    BY <1>2, StopSlotFirst
  <2>5. m = 0
    BY <2>3, <2>4, CapacityAssumption DEF Slot
  <2>6. StopSlot(t, k) = Hash[k]
    BY <2>4, <2>5, HomeIsFirst
  <2> QED
    BY <1>2, <2>1, <2>6 DEF PutInternal, AtHome, Table
<1> QED
  BY <1>1, <1>2

LEMMA VacateAtHome ==
  ASSUME NEW t \in Table, AtHome(t), NEW k \in Key
  PROVE  AtHome(Vacate(t, k))
BY StopSlotType DEF Vacate, Found, AtHome, Table

-----------------------------------------------------------------------------
(* The inductive invariant: until the first deletion the table has no gap  *)
(* and the log no delete record; without collisions every entry is home.   *)

ScanInv ==
  /\ ~ deletedEver => /\ NoGap(entries)
                      /\ \A i \in 1 .. Len(logFile) : logFile[i].op = "put"
  /\ NoCollision => AtHome(entries)

LEMMA EmptyTableShape == NoGap(EmptyTable) /\ AtHome(EmptyTable)
BY DEF NoGap, AtHome, EmptyTable

LEMMA InitScanInv == Init => ScanInv
BY EmptyTableShape DEF Init, ScanInv

\* A record appended to a log of puts, and to the table, keeps the invariant.
LEMMA PutScanInv ==
  ASSUME TypeInv, ScanInv, NEW k \in Key, NEW v \in Val, Put(k, v)
  PROVE  ScanInv'
<1>1. entries \in Table /\ entries' = PutInternal(entries, k, v)
  BY DEF TypeInv, TypeOK, Put
<1>2. deletedEver' = deletedEver
  BY DEF Put
<1>3. ~ deletedEver =>
        \A i \in 1 .. Len(logFile') : logFile'[i].op = "put"
  <2> DEFINE rec == [op |-> "put", key |-> k, val |-> v]
  <2>1. logFile' = logFile \/ logFile' = Append(logFile, rec)
    BY DEF Put, AppendLog
  <2>2. logFile \in Seq(PutRec \cup DelRec)
    BY DEF TypeInv, TypeOK
  <2> QED
    BY <2>1, <2>2 DEF ScanInv
<1>4. ~ deletedEver => NoGap(entries')
  BY <1>1, PutNoGap DEF ScanInv
<1>5. NoCollision => AtHome(entries')
  BY <1>1, PutAtHome DEF ScanInv
<1> QED
  BY <1>2, <1>3, <1>4, <1>5 DEF ScanInv

LEMMA NextScanInv == TypeInv /\ ScanInv /\ [Next]_vars => ScanInv'
<1> SUFFICES ASSUME TypeInv, ScanInv, [Next]_vars PROVE ScanInv'
  OBVIOUS
<1>1. entries \in Table /\ logFile \in Seq(PutRec \cup DelRec)
  BY DEF TypeInv, TypeOK
<1>2. ASSUME NEW k \in Key, NEW v \in Val, Put(k, v) PROVE ScanInv'
  BY <1>2, PutScanInv
<1>3. ASSUME NEW k \in Key, Delete(k) PROVE ScanInv'
  <2>1. deletedEver' /\ entries' = Vacate(entries, k)
    BY <1>3 DEF Delete
  <2> QED
    BY <1>1, <2>1, VacateAtHome DEF ScanInv
\* Steps that leave table and log alone.
<1>4. ASSUME entries' = entries, deletedEver' = deletedEver,
             logFile' = logFile \/ logFile' = <<>>
      PROVE  ScanInv'
  BY <1>4 DEF ScanInv
<1>5. CASE Checkpoint \/ SnapshotStep \/ Restart
  BY <1>4, <1>5 DEF Checkpoint, SnapshotStep, SnapshotOpenFails,
     SnapshotWriteTmp, SnapshotRemoveOld, SnapshotRename, SnapshotResetLog,
     Restart, files
<1>6. CASE RecoverLoad
  <2>1. deletedEver' = deletedEver /\ logFile' = logFile
    BY <1>6 DEF RecoverLoad, files
  <2>2. CASE cursor \in Slot /\ snapFile[cursor] # None
    <3> DEFINE e == snapFile[cursor]
    <3>1. e.key \in Key /\ e.val \in Val
      BY <1>6, <2>2 DEF RecoverLoad, TypeInv, TypeOK, Table, Entry
    <3>2. entries' = PutInternal(entries, e.key, e.val)
      BY <1>6, <2>2 DEF RecoverLoad, LoadEntry
    <3> QED
      BY <1>1, <2>1, <3>1, <3>2, PutNoGap, PutAtHome DEF ScanInv
  <2>3. CASE ~ (cursor \in Slot /\ snapFile[cursor] # None)
    <3>1. entries' = entries
      BY <1>6, <2>3 DEF RecoverLoad, LoadEntry
    <3> QED
      BY <1>4, <2>1, <3>1
  <2> QED
    BY <2>2, <2>3
<1>7. CASE RecoverReplay
  <2>1. deletedEver' = deletedEver /\ logFile' = logFile
    BY <1>7 DEF RecoverReplay, files
  <2>2. CASE cursor + 1 \in 1 .. Len(logFile)
    <3> DEFINE r == logFile[cursor + 1]
    <3>1. r \in PutRec \cup DelRec
      BY <1>1, <2>2
    <3>2. entries' = ApplyRecord(entries, r)
      BY <1>7, <2>2 DEF RecoverReplay
    <3>3. CASE r.op = "put"
      <4>1. r.key \in Key /\ r.val \in Val
        BY <3>1, <3>3 DEF PutRec, DelRec
      <4>2. entries' = PutInternal(entries, r.key, r.val)
        BY <3>2, <3>3 DEF ApplyRecord
      <4> QED
        BY <1>1, <2>1, <4>1, <4>2, PutNoGap, PutAtHome DEF ScanInv
    <3>4. CASE r.op # "put"
      <4>1. r.key \in Key
        BY <3>1 DEF PutRec, DelRec
      <4>2. entries' = Vacate(entries, r.key)
        BY <3>2, <3>4 DEF ApplyRecord
      <4>3. deletedEver
        BY <2>2, <3>4 DEF ScanInv
      <4> QED
        BY <1>1, <2>1, <4>1, <4>2, <4>3, VacateAtHome DEF ScanInv
    <3> QED
      BY <3>3, <3>4
  <2>3. CASE ~ (cursor + 1 \in 1 .. Len(logFile))
    <3>1. entries' = entries
      BY <1>7, <2>3 DEF RecoverReplay
    <3> QED
      BY <1>4, <2>1, <3>1
  <2> QED
    BY <2>2, <2>3
<1>8. CASE Crash
  BY <1>8, EmptyTableShape DEF Crash, files, ScanInv
<1>9. CASE UNCHANGED vars
  BY <1>4, <1>9 DEF vars
<1> QED
  BY <1>2, <1>3, <1>5, <1>6, <1>7, <1>8, <1>9 DEF Next, RecoverStep

LEMMA ScanInvImplies == TypeInv /\ ScanInv => ScanAgreesUnlessDeleted
<1> SUFFICES ASSUME TypeInv, ScanInv, deletedEver => NoCollision,
                    NEW s \in Slot, entries[s] # None
             PROVE  Lookup(entries, entries[s].key) = entries[s].val
  BY DEF ScanAgreesUnlessDeleted, ScanAgreesWithGet
<1>1. entries \in Table
  BY DEF TypeInv, TypeOK
<1>2. NoGap(entries)
  BY <1>1, HomeIsGapless DEF ScanInv
<1>3. PICK i \in Slot : Reaches(entries, s, i)
  BY <1>2 DEF NoGap
<1> QED
  BY <1>1, <1>3, ReachedIsFound

\* For every capacity and every hash function: whatever puts, checkpoints,
\* crashes and recoveries happen, kv_get finds each entry kv_iterate shows,
\* with its value, as long as nothing was deleted or no two keys collide.
THEOREM ScanCorrect == Spec => []ScanAgreesUnlessDeleted
<1>1. Init => TypeInv /\ ScanInv
  BY InitTypeInv, InitScanInv
<1>2. TypeInv /\ ScanInv /\ [Next]_vars => TypeInv' /\ ScanInv'
  BY NextTypeInv, NextScanInv
<1> QED
  BY <1>1, <1>2, ScanInvImplies, PTL DEF Spec

-----------------------------------------------------------------------------
(* The last put. Its entry is reached by the probe that placed it, whatever *)
(* holes and stale copies the rest of the table has.                       *)

\* Lookups of k return v, or find neither k nor a free slot.
Agrees(t, k, v) == Lookup(t, k) = v \/ Full(t, k)

\* kv_put_internal writes one slot, where the probe for its key stops.
LEMMA PutReaches ==
  ASSUME NEW t \in Table, NEW k \in Key, NEW v \in Val, ~ Full(t, k)
  PROVE  \E s \in Slot, m \in Slot :
           LET u == PutInternal(t, k, v)
           IN  /\ u[s] = [key |-> k, val |-> v] /\ u[s] # None
               /\ t[s] = None \/ t[s].key = k
               /\ \A q \in Slot : q # s => u[q] = t[q]
               /\ Reaches(u, s, m)
<1> DEFINE p == StopSlot(t, k)
           u == PutInternal(t, k, v)
<1>1. p \in Slot /\ u = [t EXCEPT ![p] = [key |-> k, val |-> v]]
  BY StopSlotType DEF PutInternal
<1>2. PICK m \in Slot : /\ p = ProbeSlot(k, m)
                        /\ Stops(t, k, m)
                        /\ \A j \in 0 .. m - 1 : ~ Stops(t, k, j)
  BY StopSlotFirst
<1>3. u[p] = [key |-> k, val |-> v] /\ u[p] # None
  BY <1>1, MarkerAssumption DEF Table, Entry
<1>4. \A q \in Slot : q # p => u[q] = t[q]
  BY <1>1 DEF Table
<1>5. t[p] = None \/ t[p].key = k
  BY <1>2 DEF Stops
<1>6. ASSUME NEW j \in 0 .. m - 1 PROVE ~ Stops(u, k, j)
  <2>1. ~ Stops(t, k, j) /\ j \in Nat
    BY <1>2, CapacityAssumption DEF Slot
  <2>2. ProbeSlot(k, j) # p /\ ProbeSlot(k, j) \in Slot
    BY <1>5, <2>1, ProbeSlotType DEF Stops
  <2> QED
    BY <1>4, <2>1, <2>2 DEF Stops
<1>7. Reaches(u, p, m)
  BY <1>2, <1>3, <1>6 DEF Reaches
<1> QED
  BY <1>1, <1>3, <1>4, <1>5, <1>7

LEMMA PutVisible ==
  ASSUME NEW t \in Table, NEW k \in Key, NEW v \in Val
  PROVE  Agrees(PutInternal(t, k, v), k, v)
<1>1. CASE Full(t, k)
  BY <1>1 DEF PutInternal, Agrees
<1>2. CASE ~ Full(t, k)
  <2> DEFINE u == PutInternal(t, k, v)
  <2>1. u \in Table
    BY TableOps
  <2>2. PICK s \in Slot, m \in Slot :
          /\ u[s] = [key |-> k, val |-> v] /\ u[s] # None
          /\ Reaches(u, s, m)
    BY <1>2, PutReaches
  <2>3. Lookup(u, u[s].key) = u[s].val
    BY <2>1, <2>2, ReachedIsFound
  <2> QED
    BY <2>2, <2>3 DEF Agrees
<1> QED
  BY <1>1, <1>2

\* The put recorded at position n of the log shows in the table.
Shown(n) ==
  n \in 1 .. Len(logFile) /\ logFile[n].op = "put"
    => Agrees(entries, logFile[n].key, logFile[n].val)

\* Serving, and through a snapshot, the last record; in a recovery, the
\* record replayed last.
LastInv ==
  /\ phase \in {"ready", "closed", "written", "removed", "renamed"}
       /\ ~ dropped => Shown(Len(logFile))
  /\ phase = "replaying" => cursor <= Len(logFile) /\ Shown(cursor)
  /\ phase = "down" => cursor = 0

LEMMA InitLastInv == Init => LastInv
BY DEF Init, LastInv, Shown

LEMMA AppendLogCases ==
  ASSUME NEW rec, AppendLog(rec), phase = "ready"
  PROVE  /\ \/ dropped' = TRUE /\ logFile' = logFile
            \/ dropped' = dropped /\ logFile' = Append(logFile, rec)
         /\ phase' \in {"ready", "closed"}
BY DEF AppendLog, EnterSnapshot

LEMMA NextLastInv == TypeInv /\ LastInv /\ [Next]_vars => LastInv'
<1> SUFFICES ASSUME TypeInv, LastInv, [Next]_vars PROVE LastInv'
  OBVIOUS
<1>1. /\ entries \in Table
      /\ logFile \in Seq(PutRec \cup DelRec)
      /\ cursor \in Nat
      /\ snapFile \in Table \cup {NoFile}
  BY DEF TypeInv, TypeOK
<1>2. ASSUME NEW k \in Key, NEW v \in Val, Put(k, v) PROVE LastInv'
  <2> DEFINE rec == [op |-> "put", key |-> k, val |-> v]
  <2>1. /\ phase = "ready" /\ AppendLog(rec)
        /\ entries' = PutInternal(entries, k, v)
    BY <1>2 DEF Put
  <2>2. phase' \in {"ready", "closed"}
    BY <2>1, AppendLogCases
  <2>3. CASE dropped' = TRUE
    BY <2>2, <2>3 DEF LastInv
  <2>4. CASE logFile' = Append(logFile, rec)
    <3>1. Agrees(entries', k, v)
      BY <1>1, <2>1, PutVisible
    <3>2. logFile'[Len(logFile')] = rec
      BY <1>1, <2>4
    <3> HIDE DEF rec
    <3>3. rec.key = k /\ rec.val = v
      BY DEF rec
    <3>4. Shown(Len(logFile))'
      BY <3>1, <3>2, <3>3 DEF Shown
    <3> QED
      BY <2>2, <3>4 DEF LastInv
  <2> QED
    BY <2>1, <2>3, <2>4, AppendLogCases
<1>3. ASSUME NEW k \in Key, Delete(k) PROVE LastInv'
  <2> DEFINE rec == [op |-> "delete", key |-> k]
  <2>1. phase = "ready" /\ AppendLog(rec)
    BY <1>3 DEF Delete
  <2>2. phase' \in {"ready", "closed"}
    BY <2>1, AppendLogCases
  <2>3. CASE dropped' = TRUE
    BY <2>2, <2>3 DEF LastInv
  <2>4. CASE logFile' = Append(logFile, rec)
    <3>1. logFile'[Len(logFile')].op = "delete"
      BY <1>1, <2>4
    <3>2. Shown(Len(logFile))'
      BY <3>1 DEF Shown
    <3> QED
      BY <2>2, <3>2 DEF LastInv
  <2> QED
    BY <2>1, <2>3, <2>4, AppendLogCases
\* Steps of a snapshot: neither table nor log changes, or the log is emptied.
<1>4. CASE Checkpoint
  BY <1>4 DEF Checkpoint, EnterSnapshot, LastInv, Shown, files
<1>5. CASE SnapshotOpenFails
  BY <1>5 DEF SnapshotOpenFails, LastInv, Shown, files
<1>6. CASE SnapshotWriteTmp
  BY <1>6 DEF SnapshotWriteTmp, LastInv, Shown
<1>7. CASE SnapshotRemoveOld
  BY <1>7 DEF SnapshotRemoveOld, LastInv, Shown
<1>8. CASE SnapshotRename
  BY <1>8 DEF SnapshotRename, LastInv, Shown
<1>9. CASE SnapshotResetLog
  BY <1>9 DEF SnapshotResetLog, LastInv, Shown
<1>10. CASE Restart
  BY <1>1, <1>10 DEF Restart, LastInv, Shown, files
<1>11. CASE RecoverLoad
  BY <1>1, <1>11 DEF RecoverLoad, LastInv, Shown, files
<1>12. CASE RecoverReplay
  <2>1. CASE cursor + 1 \in 1 .. Len(logFile)
    <3> DEFINE r == logFile[cursor + 1]
    <3>1. /\ logFile' = logFile /\ phase' = "replaying"
          /\ cursor' = cursor + 1 /\ entries' = ApplyRecord(entries, r)
      BY <1>12, <2>1 DEF RecoverReplay, files
    <3>2. r \in PutRec \cup DelRec
      BY <1>1, <2>1
    <3>3. r.op = "put" => Agrees(entries', r.key, r.val)
      <4> SUFFICES ASSUME r.op = "put" PROVE Agrees(entries', r.key, r.val)
        OBVIOUS
      <4>1. r.key \in Key /\ r.val \in Val
        BY <3>2 DEF PutRec, DelRec
      <4> QED
        BY <1>1, <3>1, <4>1, PutVisible DEF ApplyRecord
    <3>4. Shown(cursor)'
      BY <3>1, <3>3 DEF Shown
    <3> QED
      BY <2>1, <3>1, <3>4 DEF LastInv
  <2>2. CASE ~ (cursor + 1 \in 1 .. Len(logFile))
    <3>1. /\ phase = "replaying" /\ phase' = "ready"
          /\ logFile' = logFile /\ entries' = entries
      BY <1>12, <2>2 DEF RecoverReplay, files
    <3>2. cursor = Len(logFile) /\ Shown(cursor)
      BY <1>1, <2>2, <3>1 DEF LastInv
    <3> QED
      BY <3>1, <3>2 DEF LastInv, Shown
  <2> QED
    BY <2>1, <2>2
<1>13. CASE Crash
  BY <1>13 DEF Crash, LastInv
<1>14. CASE UNCHANGED vars
  BY <1>14 DEF vars, LastInv, Shown
<1> QED
  BY <1>2, <1>3, <1>4, <1>5, <1>6, <1>7, <1>8, <1>9, <1>10, <1>11, <1>12,
     <1>13, <1>14 DEF Next, SnapshotStep, RecoverStep

\* For every capacity and hash function, with deletions and collisions: the
\* put kv_append_log recorded last is what kv_get returns, unless the table
\* had no slot for it, also after a recovery.
THEOREM LastPutCorrect == Spec => []LastPutVisible
<1>1. TypeInv /\ LastInv => LastPutVisible
  BY DEF TypeInv, TypeOK, LastInv, LastPutVisible, Shown, Agrees
<1> QED
  BY <1>1, InitTypeInv, NextTypeInv, InitLastInv, NextLastInv, PTL DEF Spec

-----------------------------------------------------------------------------
(* What a lookup returns in a table without gaps: the entry of the key,    *)
(* and nothing where there is none.                                        *)

LEMMA FoundIsEntry ==
  ASSUME NEW t \in Table, NEW k \in Key, Found(t, k)
  PROVE  \E s \in Slot : /\ t[s] # None /\ t[s].key = k
                         /\ Lookup(t, k) = t[s].val
<1>1. PICK i \in Slot : StopSlot(t, k) = ProbeSlot(k, i) /\ Stops(t, k, i)
  BY StopSlotFirst DEF Found
<1>2. StopSlot(t, k) \in Slot
  BY StopSlotType DEF Found
<1> QED
  BY <1>1, <1>2 DEF Stops, Found, Lookup

LEMMA AbsentIsNone ==
  ASSUME NEW t \in Table, NEW k \in Key,
         \A s \in Slot : t[s] = None \/ t[s].key # k
  PROVE  Lookup(t, k) = None
<1>1. ~ Found(t, k)
  BY FoundIsEntry
<1> QED
  BY <1>1 DEF Lookup

LEMMA PresentIsFound ==
  ASSUME NEW t \in Table, NoGap(t),
         NEW s \in Slot, t[s] # None
  PROVE  Lookup(t, t[s].key) = t[s].val
<1>1. PICK i \in Slot : Reaches(t, s, i)
  BY DEF NoGap
<1> QED
  BY <1>1, ReachedIsFound

\* Two gapless tables with the same entries for k look alike to kv_get.
LEMMA SameEntries ==
  ASSUME NEW t \in Table, NEW u \in Table, NoGap(t), NoGap(u), NEW k \in Key,
         \A s \in Slot : t[s] # None /\ t[s].key = k => u[s] = t[s],
         \A s \in Slot : u[s] # None /\ u[s].key = k => u[s] = t[s]
  PROVE  Lookup(u, k) = Lookup(t, k)
<1>1. CASE \E s \in Slot : t[s] # None /\ t[s].key = k
  <2>1. PICK s \in Slot : t[s] # None /\ t[s].key = k
    BY <1>1
  <2>2. u[s] = t[s]
    BY <2>1
  <2>3. Lookup(t, t[s].key) = t[s].val
    BY <2>1, PresentIsFound
  <2>4. Lookup(u, u[s].key) = u[s].val
    BY <2>1, <2>2, PresentIsFound
  <2> QED
    BY <2>1, <2>2, <2>3, <2>4
<1>2. CASE ~ \E s \in Slot : t[s] # None /\ t[s].key = k
  <2>1. Lookup(t, k) = None
    BY <1>2, AbsentIsNone
  <2>2. Lookup(u, k) = None
    BY <1>2, AbsentIsNone
  <2> QED
    BY <2>1, <2>2
<1> QED
  BY <1>1, <1>2

\* A put leaves what other keys look up alone; a key without room stays so.
LEMMA PutOthers ==
  ASSUME NEW t \in Table, NoGap(t), NEW k \in Key, NEW v \in Val,
         NEW l \in Key, l # k, NEW w, Agrees(t, l, w)
  PROVE  Agrees(PutInternal(t, k, v), l, w)
<1>1. CASE Full(t, k)
  BY <1>1 DEF PutInternal
<1>2. CASE ~ Full(t, k)
  <2> DEFINE u == PutInternal(t, k, v)
  <2>1. u \in Table /\ NoGap(u)
    BY TableOps, PutNoGap
  <2>2. PICK s \in Slot :
          /\ u[s] = [key |-> k, val |-> v] /\ u[s] # None
          /\ t[s] = None \/ t[s].key = k
          /\ \A q \in Slot : q # s => u[q] = t[q]
    BY <1>2, PutReaches
  <2> HIDE DEF u
  <2>3. Lookup(u, l) = Lookup(t, l)
    <3>1. \A q \in Slot : t[q] # None /\ t[q].key = l => u[q] = t[q]
      BY <2>2
    <3>2. \A q \in Slot : u[q] # None /\ u[q].key = l => u[q] = t[q]
      BY <2>2
    <3> QED
      BY <2>1, <3>1, <3>2, SameEntries
  <2>4. Full(t, l) => Full(u, l)
    <3> SUFFICES ASSUME Full(t, l), NEW i \in Slot PROVE ~ Stops(u, l, i)
      BY DEF Full
    <3>1. ~ Stops(t, l, i)
      BY DEF Full
    <3>2. ProbeSlot(l, i) \in Slot
      BY ProbeSlotType, CapacityAssumption DEF Slot
    <3> QED
      BY <2>2, <3>1, <3>2 DEF Stops
  <2> QED
    BY <2>3, <2>4 DEF Agrees, u
<1> QED
  BY <1>1, <1>2

\* With every key at home a probe stops at its first slot.
LEMMA HomeNotFull ==
  ASSUME NoCollision, NEW t \in Table, AtHome(t), NEW k \in Key
  PROVE  ~ Full(t, k)
<1>1. Hash[k] \in Slot
  BY HashAssumption
<1>2. t[Hash[k]] # None => t[Hash[k]].key = k
  <2> SUFFICES ASSUME t[Hash[k]] # None PROVE t[Hash[k]].key = k
    OBVIOUS
  <2>1. t[Hash[k]].key \in Key
    BY <1>1 DEF Table, Entry
  <2> QED
    BY <1>1, <2>1 DEF AtHome, NoCollision
<1>3. Stops(t, k, 0) /\ 0 \in Slot
  BY <1>2, HomeIsFirst DEF Stops
<1> QED
  BY <1>3 DEF Full

\* Vacating a slot removes its key and nothing else, with all keys at home.
LEMMA VacateSelf ==
  ASSUME NoCollision, NEW t \in Table, AtHome(t), NEW k \in Key
  PROVE  Agrees(Vacate(t, k), k, None)
<1> DEFINE u == Vacate(t, k)
           p == StopSlot(t, k)
<1>1. CASE ~ Found(t, k)
  BY <1>1 DEF Vacate, Agrees, Lookup
<1>2. CASE Found(t, k)
  <2>1. p \in Slot /\ u = [t EXCEPT ![p] = None]
    BY <1>2, StopSlotType DEF Vacate, Found
  <2>2. u \in Table
    BY <2>1 DEF Table
  <2>3. t[p] # None /\ t[p].key = k
    <3>1. PICK i \in Slot : p = ProbeSlot(k, i) /\ Stops(t, k, i)
      BY <1>2, StopSlotFirst DEF Found
    <3> QED
      BY <1>2, <3>1 DEF Stops, Found
  <2>4. p = Hash[k]
    BY <2>1, <2>3 DEF AtHome
  <2>5. \A s \in Slot : u[s] = None \/ u[s].key # k
    BY <2>1, <2>4 DEF AtHome, Table
  <2> QED
    BY <2>2, <2>5, AbsentIsNone DEF Agrees
<1> QED
  BY <1>1, <1>2

LEMMA VacateOthers ==
  ASSUME NoCollision, NEW t \in Table, AtHome(t), NEW k \in Key,
         NEW l \in Key, l # k, NEW w, Agrees(t, l, w)
  PROVE  Agrees(Vacate(t, k), l, w)
<1> DEFINE u == Vacate(t, k)
           p == StopSlot(t, k)
<1>1. CASE ~ Found(t, k)
  BY <1>1 DEF Vacate
<1>2. CASE Found(t, k)
  <2>1. p \in Slot /\ u = [t EXCEPT ![p] = None]
    BY <1>2, StopSlotType DEF Vacate, Found
  <2>2. u \in Table /\ NoGap(t) /\ NoGap(u)
    <3>1. u \in Table
      BY <2>1 DEF Table
    <3> QED
      BY <3>1, VacateAtHome, HomeIsGapless
  <2>3. t[p].key = k
    <3>1. PICK i \in Slot : p = ProbeSlot(k, i) /\ Stops(t, k, i)
      BY <1>2, StopSlotFirst DEF Found
    <3> QED
      BY <1>2, <3>1 DEF Stops, Found
  <2>4. \A s \in Slot : t[s] # None /\ t[s].key = l => u[s] = t[s]
    BY <2>1, <2>3 DEF Table
  <2>5. \A s \in Slot : u[s] # None /\ u[s].key = l => u[s] = t[s]
    BY <2>1 DEF Table
  <2> HIDE DEF u
  <2>6. Lookup(u, l) = Lookup(t, l)
    BY <2>2, <2>4, <2>5, SameEntries
  <2>7. ~ Full(t, l)
    BY HomeNotFull
  <2> QED
    BY <2>6, <2>7 DEF Agrees, u
<1> QED
  BY <1>1, <1>2

-----------------------------------------------------------------------------
(* What the files say of a key, without choosing a record: its last record *)
(* in the first n of the log, and where there is none its entries in the   *)
(* first c slots of the snapshot.                                          *)

RecVal(r) == IF r.op = "put" THEN r.val ELSE None

LastOf(log, n, k, i) ==
  /\ i \in 1 .. n /\ log[i].key = k
  /\ \A j \in 1 .. n : log[j].key = k => j <= i

LogAgrees(log, n, k, t) ==
  \A i \in 1 .. n : LastOf(log, n, k, i) => Agrees(t, k, RecVal(log[i]))

Silent(log, n, k) == \A i \in 1 .. n : log[i].key # k

SavedAt(image, s, k) ==
  image # NoFile /\ image[s] # None /\ image[s].key = k

SavedAgrees(image, c, k, t) ==
  /\ \A s \in 0 .. c - 1 : SavedAt(image, s, k) => Agrees(t, k, image[s].val)
  /\ (\A s \in 0 .. c - 1 : ~ SavedAt(image, s, k)) => Agrees(t, k, None)

FilesAgree(image, log, n, k, t) ==
  /\ LogAgrees(log, n, k, t)
  /\ Silent(log, n, k) => SavedAgrees(image, Capacity, k, t)

\* A non-empty set of positions has a last one.
LEMMA LastPosition ==
  ASSUME NEW n \in Nat, NEW T, T \subseteq 1 .. n, T # {}
  PROVE  \E i \in T : \A j \in T : j <= i
<1> DEFINE D == {d \in Nat : n - d \in T}
<1>1. D # {}
  <2>1. PICK i \in T : TRUE
    OBVIOUS
  <2>2. i \in 1 .. n
    BY <2>1
  <2>3. n - i \in Nat /\ n - (n - i) = i
    BY <2>2
  <2>4. n - i \in D
    BY <2>1, <2>3
  <2> QED
    BY <2>4
<1>2. PICK d \in D : \A e \in D : ~ (<<e, d>> \in OpToRel(<, Nat))
  BY <1>1, WFMin, NatLessThanWellFounded
<1>3. \A e \in D : ~ (e < d)
  BY <1>2 DEF OpToRel
<1>4. ASSUME NEW j \in T PROVE j <= n - d
  <2>1. j \in 1 .. n
    OBVIOUS
  <2>2. n - j \in Nat /\ n - (n - j) = j
    BY <2>1
  <2>3. n - j \in D
    BY <2>2
  <2>4. ~ (n - j < d)
    BY <1>3, <2>3
  <2> QED
    BY <2>1, <2>4
<1> QED
  BY <1>4

\* Stored(k) is the value the files hold for k.
LEMMA StoredAgrees ==
  ASSUME TypeInv, NEW k \in Key,
         FilesAgree(snapFile, logFile, Len(logFile), k, entries)
  PROVE  Agrees(entries, k, Stored(k))
<1> DEFINE n == Len(logFile)
           recs == {i \in 1 .. n : logFile[i].key = k}
           saved == IF snapFile = NoFile THEN {}
                    ELSE {s \in Slot : snapFile[s] # None
                                       /\ snapFile[s].key = k}
<1>1. n \in Nat
  BY DEF TypeInv, TypeOK
<1>2. CASE recs # {}
  <2> DEFINE m == CHOOSE i \in recs : \A j \in recs : j <= i
  <2>1. \E i \in recs : \A j \in recs : j <= i
    BY <1>1, <1>2, LastPosition
  <2>2. m \in recs /\ \A j \in recs : j <= m
    BY <2>1
  <2>3. Stored(k) = RecVal(logFile[m])
    BY <1>2 DEF Stored, RecVal
  <2> HIDE DEF m
  <2>4. LastOf(logFile, n, k, m)
    BY <2>2 DEF LastOf
  <2> QED
    BY <2>2, <2>3, <2>4 DEF FilesAgree, LogAgrees
<1>3. CASE recs = {}
  <2>1. SavedAgrees(snapFile, Capacity, k, entries)
    BY <1>3 DEF FilesAgree, Silent
  <2>2. saved = {s \in 0 .. Capacity - 1 : SavedAt(snapFile, s, k)}
    BY DEF SavedAt, Slot
  <2>3. CASE saved # {}
    <3> DEFINE s == CHOOSE x \in saved : TRUE
    <3>1. s \in saved
      BY <2>3
    <3>2. Stored(k) = snapFile[s].val
      BY <1>3, <2>3 DEF Stored
    <3> HIDE DEF s
    <3> QED
      BY <2>1, <2>2, <3>1, <3>2 DEF SavedAgrees
  <2>4. CASE saved = {}
    <3>1. Stored(k) = None
      BY <1>3, <2>4 DEF Stored
    <3> QED
      BY <2>1, <2>2, <2>4, <3>1 DEF SavedAgrees
  <2> QED
    BY <2>3, <2>4
<1> QED
  BY <1>2, <1>3

\* The shapes of table in which a record changes its own key only.
Shaped(t) == /\ ~ deletedEver => NoGap(t)
             /\ NoCollision => AtHome(t)

\* Tables with cut probe chains are excluded.
Regular == deletedEver => NoCollision

LEMMA ShapedNoGap ==
  ASSUME NEW t \in Table, Shaped(t), Regular
  PROVE  NoGap(t) /\ (deletedEver => NoCollision /\ AtHome(t))
BY HomeIsGapless DEF Shaped, Regular

\* One record: its key agrees with it, other keys with what they did.
LEMMA RecordSelf ==
  ASSUME NEW t \in Table, NEW r \in PutRec \cup DelRec,
         r.op # "put" => NoCollision /\ AtHome(t)
  PROVE  Agrees(ApplyRecord(t, r), r.key, RecVal(r))
<1>1. CASE r.op = "put"
  <2>1. r.key \in Key /\ r.val \in Val
    BY <1>1 DEF PutRec, DelRec
  <2> QED
    BY <1>1, <2>1, PutVisible DEF ApplyRecord, RecVal
<1>2. CASE r.op # "put"
  <2>1. r.key \in Key
    BY DEF PutRec, DelRec
  <2> QED
    BY <1>2, <2>1, VacateSelf DEF ApplyRecord, RecVal
<1> QED
  BY <1>1, <1>2

LEMMA RecordOthers ==
  ASSUME NEW t \in Table, NoGap(t), NEW r \in PutRec \cup DelRec,
         r.op # "put" => NoCollision /\ AtHome(t),
         NEW k \in Key, k # r.key, NEW w, Agrees(t, k, w)
  PROVE  Agrees(ApplyRecord(t, r), k, w)
<1>1. CASE r.op = "put"
  <2>1. r.key \in Key /\ r.val \in Val
    BY <1>1 DEF PutRec, DelRec
  <2> QED
    BY <1>1, <2>1, PutOthers DEF ApplyRecord
<1>2. CASE r.op # "put"
  <2>1. r.key \in Key
    BY DEF PutRec, DelRec
  <2> QED
    BY <1>2, <2>1, VacateOthers DEF ApplyRecord
<1> QED
  BY <1>1, <1>2

\* A table that agrees with the first n records, and applies the next one.
LEMMA RecordAgrees ==
  ASSUME NEW t \in Table, NoGap(t), NEW log \in Seq(PutRec \cup DelRec),
         NEW n \in Nat, n + 1 \in 1 .. Len(log),
         log[n + 1].op # "put" => NoCollision /\ AtHome(t),
         NEW k \in Key, NEW image,
         FilesAgree(image, log, n, k, t)
  PROVE  FilesAgree(image, log, n + 1, k, ApplyRecord(t, log[n + 1]))
<1> DEFINE r == log[n + 1]
           u == ApplyRecord(t, r)
<1>1. r \in PutRec \cup DelRec
  OBVIOUS
<1>2. CASE r.key = k
  <2>1. Agrees(u, k, RecVal(r))
    BY <1>1, <1>2, RecordSelf
  <2> HIDE DEF u
  <2>2. ASSUME NEW i \in 1 .. n + 1, LastOf(log, n + 1, k, i)
        PROVE  Agrees(u, k, RecVal(log[i]))
    <3>1. n + 1 <= i
      BY <1>2, <2>2 DEF LastOf
    <3>2. i = n + 1
      BY <3>1
    <3> QED
      BY <2>1, <3>2
  <2>3. ~ Silent(log, n + 1, k)
    BY <1>2 DEF Silent
  <2> QED
    BY <2>2, <2>3 DEF FilesAgree, LogAgrees, u
<1>3. CASE r.key # k
  <2>1. \A w : Agrees(t, k, w) => Agrees(u, k, w)
    BY <1>1, <1>3, RecordOthers
  <2> HIDE DEF u
  <2>2. ASSUME NEW i \in 1 .. n + 1, LastOf(log, n + 1, k, i)
        PROVE  Agrees(u, k, RecVal(log[i]))
    <3>1. i \in 1 .. n
      BY <1>3, <2>2 DEF LastOf
    <3>2. LastOf(log, n, k, i)
      BY <2>2, <3>1 DEF LastOf
    <3> QED
      BY <2>1, <3>1, <3>2 DEF FilesAgree, LogAgrees
  <2>3. Silent(log, n + 1, k) => Silent(log, n, k)
    BY DEF Silent
  <2>4. SavedAgrees(image, Capacity, k, t) => SavedAgrees(image, Capacity, k, u)
    BY <2>1 DEF SavedAgrees
  <2> QED
    BY <2>2, <2>3, <2>4 DEF FilesAgree, LogAgrees, u
<1> QED
  BY <1>2, <1>3

\* The first n records are the same in two logs: so is what they say.
LEMMA PrefixAgrees ==
  ASSUME NEW log, NEW log2, NEW n \in Nat,
         \A i \in 1 .. n : log2[i] = log[i],
         NEW k, NEW image, NEW t, FilesAgree(image, log, n, k, t)
  PROVE  FilesAgree(image, log2, n, k, t)
<1>1. Silent(log2, n, k) => Silent(log, n, k)
  BY DEF Silent
<1>2. ASSUME NEW i \in 1 .. n, LastOf(log2, n, k, i)
      PROVE  Agrees(t, k, RecVal(log2[i]))
  <2>1. LastOf(log, n, k, i)
    BY <1>2 DEF LastOf
  <2> QED
    BY <2>1 DEF FilesAgree, LogAgrees
<1> QED
  BY <1>1, <1>2 DEF FilesAgree, LogAgrees

\* One slot of the snapshot. A gapless image has one value for a key.
LEMMA LoadAgrees ==
  ASSUME NEW t \in Table, NoGap(t), NEW image \in Table, NoGap(image),
         NEW c \in Slot, NEW k \in Key, SavedAgrees(image, c, k, t)
  PROVE  SavedAgrees(image, c + 1, k, LoadEntry(t, image, c))
<1> DEFINE u == LoadEntry(t, image, c)
<1>1. image # NoFile /\ c \in 0 .. Capacity - 1 /\ Capacity \in Nat
  BY MarkerAssumption, CapacityAssumption DEF Slot
<1>2. CASE SavedAt(image, c, k)
  <2>1. image[c].key = k /\ image[c].val \in Val /\ image[c] # None
    BY <1>2 DEF SavedAt, Table, Entry
  <2>2. Agrees(u, k, image[c].val)
    BY <2>1, PutVisible DEF LoadEntry
  <2> HIDE DEF u
  <2>3. ASSUME NEW s \in 0 .. c, SavedAt(image, s, k)
        PROVE  image[s].val = image[c].val
    <3>1. s \in Slot /\ image[s] # None /\ image[s].key = k
      BY <1>1, <2>3 DEF SavedAt, Slot
    <3> QED
      BY <2>1, <3>1, PresentIsFound
  <2>4. (c + 1) - 1 = c /\ c \in 0 .. c
    BY <1>1
  <2> QED
    BY <1>2, <2>2, <2>3, <2>4 DEF SavedAgrees, u
<1>3. CASE ~ SavedAt(image, c, k)
  <2>1. \A w : Agrees(t, k, w) => Agrees(u, k, w)
    <3>1. CASE image[c] = None
      BY <3>1 DEF LoadEntry
    <3>2. CASE image[c] # None
      <4>1. image[c].key \in Key /\ image[c].val \in Val /\ image[c].key # k
        BY <1>1, <1>3, <3>2 DEF SavedAt, Table, Entry
      <4>2. u = PutInternal(t, image[c].key, image[c].val)
        BY <3>2 DEF LoadEntry
      <4> QED
        BY <4>1, <4>2, PutOthers
    <3> QED
      BY <3>1, <3>2
  <2> HIDE DEF u
  <2>2. \A s \in 0 .. (c + 1) - 1 : s \in 0 .. c - 1 \/ s = c
    BY <1>1
  <2>3. \A s \in 0 .. c - 1 : s \in 0 .. (c + 1) - 1
    BY <1>1
  <2> QED
    BY <1>3, <2>1, <2>2, <2>3 DEF SavedAgrees, u
<1> QED
  BY <1>2, <1>3

\* A gapless table agrees with its own image.
LEMMA OwnImageAgrees ==
  ASSUME NEW t \in Table, NoGap(t), NEW k \in Key
  PROVE  SavedAgrees(t, Capacity, k, t)
<1>1. ASSUME NEW s \in Slot, SavedAt(t, s, k) PROVE Agrees(t, k, t[s].val)
  BY <1>1, PresentIsFound DEF SavedAt, Agrees
<1>2. ASSUME \A s \in Slot : ~ SavedAt(t, s, k) PROVE Agrees(t, k, None)
  BY <1>2, AbsentIsNone, MarkerAssumption DEF SavedAt, Agrees
<1> QED
  BY <1>1, <1>2 DEF SavedAgrees, Slot

-----------------------------------------------------------------------------
(* The invariant of the files: where each phase stands, which file is an    *)
(* image of the table, and how far table and files agree.                  *)

ImageShape == snapFile # NoFile => Shaped(snapFile)

Position ==
  /\ phase = "down" => cursor = 0 /\ entries = EmptyTable
  /\ phase = "loading" => cursor <= Capacity
  /\ phase = "replaying" => cursor <= Len(logFile)

Images ==
  /\ phase \in {"written", "removed"} => tmpFile = entries
  /\ phase = "renamed" => snapFile = entries

Contents ==
  Regular => \A k \in Key :
    /\ phase = "loading" => SavedAgrees(snapFile, cursor, k, entries)
    /\ phase = "replaying" =>
         FilesAgree(snapFile, logFile, cursor, k, entries)
    /\ phase \in {"ready", "closed", "written"} /\ ~ dropped =>
         FilesAgree(snapFile, logFile, Len(logFile), k, entries)
    /\ phase \in {"removed", "renamed"} /\ ~ dropped =>
         LogAgrees(logFile, Len(logFile), k, entries)

FilesInv == ImageShape /\ Position /\ Images /\ Contents

LEMMA EmptyIsNone ==
  ASSUME NEW k \in Key
  PROVE  Agrees(EmptyTable, k, None)
<1>1. EmptyTable \in Table
  BY DEF EmptyTable, Table
<1>2. \A s \in Slot : EmptyTable[s] = None
  BY DEF EmptyTable
<1> QED
  BY <1>1, <1>2, AbsentIsNone DEF Agrees

\* An empty table agrees with empty files.
LEMMA NothingAgrees ==
  ASSUME NEW k \in Key, NEW log, NEW image
  PROVE  /\ FilesAgree(NoFile, log, 0, k, EmptyTable)
         /\ SavedAgrees(image, 0, k, EmptyTable)
<1>1. Agrees(EmptyTable, k, None)
  BY EmptyIsNone
<1>2. \A i : ~ (i \in 1 .. 0)
  OBVIOUS
<1>3. \A s : ~ (s \in 0 .. 0 - 1)
  OBVIOUS
<1>4. \A s : ~ SavedAt(NoFile, s, k)
  BY DEF SavedAt
<1> QED
  BY <1>1, <1>2, <1>3, <1>4 DEF FilesAgree, LogAgrees, SavedAgrees

LEMMA InitFilesInv == Init => FilesInv
<1> SUFFICES ASSUME Init PROVE FilesInv
  OBVIOUS
<1>1. /\ entries = EmptyTable /\ snapFile = NoFile
      /\ phase = "ready" /\ logFile = <<>> /\ Len(logFile) = 0
  BY DEF Init
<1>2. ASSUME NEW k \in Key
      PROVE  FilesAgree(snapFile, logFile, Len(logFile), k, entries)
  BY <1>1, NothingAgrees
<1> QED
  BY <1>1, <1>2 DEF FilesInv, ImageShape, Position, Images, Contents

\* A request: the record goes to the table and to the log.
LEMMA RequestFilesInv ==
  ASSUME TypeInv, ScanInv, FilesInv, phase = "ready",
         NEW rec \in PutRec \cup DelRec, AppendLog(rec),
         entries' = ApplyRecord(entries, rec),
         snapFile' = snapFile, deletedEver' \in BOOLEAN,
         deletedEver => deletedEver', rec.op # "put" => deletedEver'
  PROVE  FilesInv'
<1>1. phase' \in {"ready", "closed"}
  BY AppendLogCases
<1>2. ImageShape' /\ Position' /\ Images'
  BY <1>1 DEF FilesInv, ImageShape, Shaped, Position, Images
<1>3. ASSUME Regular', ~ dropped', NEW k \in Key
      PROVE  FilesAgree(snapFile, logFile, Len(logFile), k, entries)'
  <2>1. Regular
    BY <1>3 DEF Regular
  <2>2. ~ dropped /\ logFile' = Append(logFile, rec)
    BY <1>3, AppendLogCases
  <2>3. entries \in Table /\ logFile \in Seq(PutRec \cup DelRec)
    BY DEF TypeInv, TypeOK
  <2> DEFINE n == Len(logFile)
             log == Append(logFile, rec)
  <2>4. /\ log \in Seq(PutRec \cup DelRec) /\ n \in Nat
        /\ Len(log) = n + 1 /\ log[n + 1] = rec
        /\ \A i \in 1 .. n : log[i] = logFile[i]
    BY <2>3
  <2>5. FilesAgree(snapFile, logFile, n, k, entries)
    BY <2>1, <2>2 DEF FilesInv, Contents
  <2> HIDE DEF n, log
  <2>6. FilesAgree(snapFile, log, n, k, entries)
    BY <2>4, <2>5, PrefixAgrees
  <2>7. NoGap(entries)
    BY <2>1, <2>3, HomeIsGapless DEF ScanInv, Regular
  <2>8. rec.op # "put" => NoCollision /\ AtHome(entries)
    BY <1>3 DEF ScanInv, Regular
  <2>9. FilesAgree(snapFile, log, n + 1, k, ApplyRecord(entries, rec))
    BY <2>3, <2>4, <2>6, <2>7, <2>8, RecordAgrees
  <2>10. logFile' = log
    BY <2>2 DEF log
  <2> QED
    BY <2>4, <2>9, <2>10
<1>4. Contents'
  BY <1>1, <1>3 DEF Contents
<1> QED
  BY <1>2, <1>4 DEF FilesInv

\* The file operations of a snapshot.
LEMMA SnapshotFilesInv ==
  ASSUME TypeInv, ScanInv, FilesInv, Checkpoint \/ SnapshotStep
  PROVE  FilesInv'
<1>1. entries' = entries /\ deletedEver' = deletedEver /\ entries \in Table
  BY DEF Checkpoint, SnapshotStep, SnapshotOpenFails, SnapshotWriteTmp,
     SnapshotRemoveOld, SnapshotRename, SnapshotResetLog, TypeInv, TypeOK
<1>2. CASE Checkpoint
  BY <1>2 DEF Checkpoint, EnterSnapshot, files, FilesInv, ImageShape,
     Position, Images, Contents, Shaped, Regular
<1>3. CASE SnapshotOpenFails
  BY <1>3 DEF SnapshotOpenFails, files, FilesInv, ImageShape,
     Position, Images, Contents, Shaped, Regular
<1>4. CASE SnapshotWriteTmp
  BY <1>4 DEF SnapshotWriteTmp, FilesInv, ImageShape,
     Position, Images, Contents, Shaped, Regular
<1>5. CASE SnapshotRemoveOld
  BY <1>5 DEF SnapshotRemoveOld, FilesInv, ImageShape,
     Position, Images, Contents, Shaped, Regular, FilesAgree
<1>6. CASE SnapshotRename
  <2>1. snapFile' = entries
    BY <1>6 DEF SnapshotRename, FilesInv, Images
  <2> QED
    BY <1>1, <1>6, <2>1 DEF SnapshotRename, FilesInv, ImageShape,
       Position, Images, Contents, Shaped, Regular, ScanInv
<1>7. CASE SnapshotResetLog
  <2>1. /\ snapFile' = entries /\ logFile' = <<>> /\ phase' = "ready"
        /\ snapFile' = snapFile
    BY <1>7 DEF SnapshotResetLog, FilesInv, Images
  <2>2. ImageShape' /\ Position' /\ Images'
    BY <1>1, <2>1 DEF FilesInv, ImageShape, Position, Images, Shaped
  <2>3. ASSUME Regular, NEW k \in Key
        PROVE  FilesAgree(entries, <<>>, 0, k, entries)
    <3>1. NoGap(entries)
      BY <1>1, <2>3, HomeIsGapless DEF ScanInv, Regular
    <3>2. SavedAgrees(entries, Capacity, k, entries)
      BY <1>1, <3>1, OwnImageAgrees
    <3> QED
      BY <3>2 DEF FilesAgree, LogAgrees
  <2>4. Contents'
    <3>1. Len(<<>>) = 0
      OBVIOUS
    <3> QED
      BY <1>1, <2>1, <2>3, <3>1 DEF Contents, Regular
  <2> QED
    BY <2>2, <2>4 DEF FilesInv
<1> QED
  BY <1>2, <1>3, <1>4, <1>5, <1>6, <1>7 DEF SnapshotStep

\* Recovery: an empty table, the saved slots, then the records.
LEMMA RestartFilesInv ==
  ASSUME TypeInv, FilesInv, Restart
  PROVE  FilesInv'
<1>1. /\ phase = "down" /\ cursor = 0 /\ entries = EmptyTable
      /\ snapFile' = snapFile /\ logFile' = logFile /\ entries' = entries
      /\ cursor' = 0 /\ deletedEver' = deletedEver
      /\ phase' = IF snapFile = NoFile THEN "replaying" ELSE "loading"
  BY DEF Restart, files, FilesInv, Position
<1>2. Capacity \in Nat /\ Len(logFile) \in Nat
  BY CapacityAssumption DEF TypeInv, TypeOK
<1>3. ImageShape' /\ Position' /\ Images'
  BY <1>1, <1>2 DEF FilesInv, ImageShape, Position, Images, Shaped
<1>4. Contents'
  BY <1>1, NothingAgrees DEF Contents
<1> QED
  BY <1>3, <1>4 DEF FilesInv

LEMMA LoadFilesInv ==
  ASSUME TypeInv, ScanInv, FilesInv, RecoverLoad
  PROVE  FilesInv'
<1>1. /\ phase = "loading" /\ cursor \in Nat /\ cursor <= Capacity
      /\ snapFile \in Table /\ entries \in Table /\ Capacity \in Nat
      /\ snapFile' = snapFile /\ logFile' = logFile
      /\ deletedEver' = deletedEver /\ Len(logFile) \in Nat
      /\ snapFile # NoFile
  BY CapacityAssumption, MarkerAssumption
     DEF RecoverLoad, TypeInv, TypeOK, FilesInv, Position, files
<1>2. ImageShape'
  BY <1>1 DEF FilesInv, ImageShape, Shaped
<1>3. ASSUME Regular
      PROVE  NoGap(entries) /\ NoGap(snapFile)
  BY <1>1, <1>3, HomeIsGapless
     DEF ScanInv, Regular, FilesInv, ImageShape, Shaped
<1>4. CASE cursor \in Slot
  <2>1. /\ entries' = LoadEntry(entries, snapFile, cursor)
        /\ cursor' = cursor + 1 /\ phase' = "loading"
    BY <1>1, <1>4 DEF RecoverLoad
  <2>2. Position' /\ Images'
    BY <1>1, <1>4, <2>1 DEF Position, Images, Slot
  <2>3. ASSUME Regular, NEW k \in Key
        PROVE  SavedAgrees(snapFile, cursor + 1, k,
                           LoadEntry(entries, snapFile, cursor))
    <3>1. SavedAgrees(snapFile, cursor, k, entries)
      BY <1>1, <2>3 DEF FilesInv, Contents
    <3> QED
      BY <1>1, <1>3, <1>4, <2>3, <3>1, LoadAgrees
  <2>4. Contents'
    BY <1>1, <2>1, <2>3 DEF Contents, Regular
  <2> QED
    BY <1>2, <2>2, <2>4 DEF FilesInv
<1>5. CASE cursor \notin Slot
  <2>1. entries' = entries /\ cursor' = 0 /\ phase' = "replaying"
    BY <1>1, <1>5 DEF RecoverLoad
  <2>2. cursor = Capacity
    BY <1>1, <1>5 DEF Slot
  <2>3. Position' /\ Images'
    BY <1>1, <2>1 DEF Position, Images
  <2>4. ASSUME Regular, NEW k \in Key
        PROVE  FilesAgree(snapFile, logFile, 0, k, entries)
    <3>1. SavedAgrees(snapFile, Capacity, k, entries)
      BY <1>1, <2>2, <2>4 DEF FilesInv, Contents
    <3> QED
      BY <3>1 DEF FilesAgree, LogAgrees
  <2>5. Contents'
    BY <1>1, <2>1, <2>4 DEF Contents, Regular
  <2> QED
    BY <1>2, <2>3, <2>5 DEF FilesInv
<1> QED
  BY <1>4, <1>5

LEMMA ReplayFilesInv ==
  ASSUME TypeInv, ScanInv, FilesInv, RecoverReplay
  PROVE  FilesInv'
<1>1. /\ phase = "replaying" /\ cursor \in Nat /\ cursor <= Len(logFile)
      /\ entries \in Table /\ logFile \in Seq(PutRec \cup DelRec)
      /\ snapFile' = snapFile /\ logFile' = logFile
      /\ deletedEver' = deletedEver /\ Len(logFile) \in Nat
  BY DEF RecoverReplay, TypeInv, TypeOK, FilesInv, Position, files
<1>2. ImageShape'
  BY <1>1 DEF FilesInv, ImageShape, Shaped
<1>3. ASSUME Regular, NEW k \in Key
      PROVE  FilesAgree(snapFile, logFile, cursor, k, entries)
  BY <1>1, <1>3 DEF FilesInv, Contents
<1>4. CASE cursor + 1 \in 1 .. Len(logFile)
  <2> DEFINE r == logFile[cursor + 1]
  <2>1. /\ entries' = ApplyRecord(entries, r)
        /\ cursor' = cursor + 1 /\ phase' = "replaying"
    BY <1>1, <1>4 DEF RecoverReplay
  <2>2. Position' /\ Images'
    BY <1>1, <1>4, <2>1 DEF Position, Images
  <2>3. ASSUME Regular, NEW k \in Key
        PROVE  FilesAgree(snapFile, logFile, cursor + 1, k,
                          ApplyRecord(entries, r))
    <3>1. NoGap(entries)
      BY <1>1, <2>3, HomeIsGapless DEF ScanInv, Regular
    <3>2. r.op # "put" => NoCollision /\ AtHome(entries)
      BY <1>4, <2>3 DEF ScanInv, Regular
    <3> QED
      BY <1>1, <1>3, <1>4, <2>3, <3>1, <3>2, RecordAgrees
  <2>4. Contents'
    BY <1>1, <2>1, <2>3 DEF Contents, Regular
  <2> QED
    BY <1>2, <2>2, <2>4 DEF FilesInv
<1>5. CASE ~ (cursor + 1 \in 1 .. Len(logFile))
  <2>1. entries' = entries /\ phase' = "ready"
    BY <1>1, <1>5 DEF RecoverReplay
  <2>2. cursor = Len(logFile)
    BY <1>1, <1>5
  <2>3. Position' /\ Images'
    BY <2>1 DEF Position, Images
  <2>4. Contents'
    BY <1>1, <1>3, <2>1, <2>2 DEF Contents, Regular
  <2> QED
    BY <1>2, <2>3, <2>4 DEF FilesInv
<1> QED
  BY <1>4, <1>5

LEMMA NextFilesInv ==
  TypeInv /\ ScanInv /\ FilesInv /\ [Next]_vars => FilesInv'
<1> SUFFICES ASSUME TypeInv, ScanInv, FilesInv, [Next]_vars PROVE FilesInv'
  OBVIOUS
<1>1. ASSUME NEW k \in Key, NEW v \in Val, Put(k, v) PROVE FilesInv'
  <2> DEFINE rec == [op |-> "put", key |-> k, val |-> v]
  <2>1. rec \in PutRec /\ rec.op = "put" /\ rec.key = k /\ rec.val = v
    BY DEF PutRec
  <2>2. /\ phase = "ready" /\ AppendLog(rec)
        /\ entries' = PutInternal(entries, k, v)
        /\ snapFile' = snapFile /\ deletedEver' = deletedEver
    BY <1>1 DEF Put
  <2> HIDE DEF rec
  <2>3. entries' = ApplyRecord(entries, rec)
    BY <2>1, <2>2 DEF ApplyRecord
  <2>4. deletedEver' \in BOOLEAN
    BY <2>2 DEF TypeInv, TypeOK
  <2> QED
    BY <2>1, <2>2, <2>3, <2>4, RequestFilesInv
<1>2. ASSUME NEW k \in Key, Delete(k) PROVE FilesInv'
  <2> DEFINE rec == [op |-> "delete", key |-> k]
  <2>1. rec \in DelRec /\ rec.op = "delete" /\ rec.key = k
    BY DEF DelRec
  <2>2. /\ phase = "ready" /\ AppendLog(rec)
        /\ entries' = Vacate(entries, k)
        /\ snapFile' = snapFile /\ deletedEver' = TRUE
    BY <1>2 DEF Delete
  <2> HIDE DEF rec
  <2>3. entries' = ApplyRecord(entries, rec)
    BY <2>1, <2>2 DEF ApplyRecord
  <2> QED
    BY <2>1, <2>2, <2>3, RequestFilesInv
<1>3. CASE Checkpoint \/ SnapshotStep
  BY <1>3, SnapshotFilesInv
<1>4. CASE RecoverStep
  BY <1>4, RestartFilesInv, LoadFilesInv, ReplayFilesInv DEF RecoverStep
<1>5. CASE Crash
  BY <1>5 DEF Crash, files, FilesInv, ImageShape, Shaped, Position, Images,
     Contents
<1>6. CASE UNCHANGED vars
  BY <1>6 DEF vars, FilesInv, ImageShape, Shaped, Position, Images,
     Contents, Regular
<1> QED
  BY <1>1, <1>2, <1>3, <1>4, <1>5, <1>6 DEF Next

LEMMA FilesInvImplies == TypeInv /\ ScanInv /\ FilesInv => FilesHoldUpdates
<1> SUFFICES ASSUME TypeInv, ScanInv, FilesInv, Regular, ~ dropped,
                    phase \in {"ready", "closed", "written", "renamed"},
                    NEW k \in Key
             PROVE  Agrees(entries, k, Stored(k))
  BY DEF FilesHoldUpdates, Regular, Agrees
<1>1. CASE phase = "renamed"
  <2>1. entries \in Table /\ NoGap(entries)
    BY HomeIsGapless DEF TypeInv, TypeOK, ScanInv, Regular
  <2>2. SavedAgrees(entries, Capacity, k, entries) /\ snapFile = entries
    BY <1>1, <2>1, OwnImageAgrees DEF FilesInv, Images
  <2>3. FilesAgree(snapFile, logFile, Len(logFile), k, entries)
    BY <1>1, <2>2 DEF FilesInv, Contents, FilesAgree
  <2> QED
    BY <2>3, StoredAgrees
<1>2. CASE phase # "renamed"
  <2>1. FilesAgree(snapFile, logFile, Len(logFile), k, entries)
    BY <1>2 DEF FilesInv, Contents
  <2> QED
    BY <2>1, StoredAgrees
<1> QED
  BY <1>1, <1>2

LEMMA StartFiles == Init => TypeInv /\ ScanInv /\ FilesInv
BY InitTypeInv, InitScanInv, InitFilesInv

LEMMA KeepFiles ==
  TypeInv /\ ScanInv /\ FilesInv /\ [Next]_vars
    => TypeInv' /\ ScanInv' /\ FilesInv'
BY NextTypeInv, NextScanInv, NextFilesInv

\* For every capacity and hash function, whatever the number of crashes and
\* wherever in kv_snapshot_internal or kv_recover they strike: log and
\* snapshot together hold every update that was acknowledged and logged.
THEOREM FilesCorrect == Spec => []FilesHoldUpdates
BY StartFiles, KeepFiles, FilesInvImplies, PTL DEF Spec

\* kv_recover, when it hands the store over, has rebuilt what the files hold,
\* however often it was interrupted by a crash and started over.
THEOREM RecoveryCorrect == Spec => RecoveryComplete
<1>1. ASSUME TypeInv, ScanInv, FilesInv, [Next]_vars,
             phase = "replaying", phase' = "ready",
             deletedEver => NoCollision, NEW k \in Key
      PROVE  Lookup(entries', k) = Stored(k) \/ Full(entries', k)
  <2>1. RecoverReplay
    BY <1>1 DEF Next, Put, Delete, Checkpoint, SnapshotStep,
       SnapshotOpenFails, SnapshotWriteTmp, SnapshotRemoveOld,
       SnapshotRename, SnapshotResetLog, RecoverStep, Restart, RecoverLoad,
       Crash, vars
  <2>2. cursor \in Nat /\ Len(logFile) \in Nat /\ cursor <= Len(logFile)
    BY <1>1 DEF TypeInv, TypeOK, FilesInv, Position
  <2>3. cursor = Len(logFile) /\ entries' = entries
    BY <1>1, <2>1, <2>2 DEF RecoverReplay
  <2>4. FilesAgree(snapFile, logFile, Len(logFile), k, entries)
    BY <1>1, <2>3 DEF FilesInv, Contents, Regular
  <2> QED
    BY <1>1, <2>3, <2>4, StoredAgrees DEF Agrees
<1>2. TypeInv /\ ScanInv /\ FilesInv /\ [Next]_vars
        => (phase = "replaying" /\ phase' = "ready"
              /\ (deletedEver => NoCollision)
            => \A k \in Key : \/ Lookup(entries', k) = Stored(k)
                              \/ Full(entries', k))
  BY <1>1
<1> QED
  BY <1>2, StartFiles, KeepFiles, PTL DEF Spec, RecoveryComplete

-----------------------------------------------------------------------------
(* The refinement. Without collisions and without failures to open the     *)
(* snapshot's file, the store implements the durable map.                  *)

\* Every update is logged, and the old snapshot is gone before the rename.
LoggedInv ==
  /\ ~ dropped
  /\ phase = "ready" => logOpen
  /\ phase = "removed" => snapFile = NoFile

LEMMA InitLoggedInv == Init => LoggedInv
BY DEF Init, LoggedInv

LEMMA NextLoggedInv ==
  ASSUME MaxOpenErrors = 0
  PROVE  TypeInv /\ LoggedInv /\ [Next]_vars => LoggedInv'
<1> SUFFICES ASSUME TypeInv, LoggedInv, [Next]_vars PROVE LoggedInv'
  OBVIOUS
<1>1. ASSUME NEW rec, phase = "ready", AppendLog(rec) PROVE LoggedInv'
  <2>1. logOpen
    BY <1>1 DEF LoggedInv
  <2>2. dropped' = dropped
    BY <1>1, <2>1 DEF AppendLog
  <2>3. EnterSnapshot \/ (logOpen' = logOpen /\ phase' = phase)
    BY <1>1, <2>1 DEF AppendLog
  <2> QED
    BY <1>1, <2>2, <2>3 DEF LoggedInv, EnterSnapshot
<1>2. ASSUME NEW k \in Key, NEW v \in Val, Put(k, v) PROVE LoggedInv'
  BY <1>1, <1>2 DEF Put
<1>3. ASSUME NEW k \in Key, Delete(k) PROVE LoggedInv'
  BY <1>1, <1>3 DEF Delete
<1>4. CASE Checkpoint
  BY <1>4 DEF Checkpoint, EnterSnapshot, LoggedInv
<1>5. CASE SnapshotOpenFails
  BY <1>5 DEF SnapshotOpenFails, TypeInv, TypeOK
<1>6. CASE SnapshotWriteTmp
  BY <1>6 DEF SnapshotWriteTmp, LoggedInv
<1>7. CASE SnapshotRemoveOld
  BY <1>7 DEF SnapshotRemoveOld, LoggedInv
<1>8. CASE SnapshotRename
  BY <1>8 DEF SnapshotRename, LoggedInv
<1>9. CASE SnapshotResetLog
  BY <1>9 DEF SnapshotResetLog, LoggedInv
<1>10. CASE Restart
  BY <1>10 DEF Restart, LoggedInv
<1>11. CASE RecoverLoad
  BY <1>11 DEF RecoverLoad, LoggedInv
<1>12. CASE RecoverReplay
  BY <1>12 DEF RecoverReplay, LoggedInv
<1>13. CASE Crash
  BY <1>13 DEF Crash, LoggedInv
<1>14. CASE UNCHANGED vars
  BY <1>14 DEF vars, LoggedInv
<1> QED
  BY <1>2, <1>3, <1>4, <1>5, <1>6, <1>7, <1>8, <1>9, <1>10, <1>11, <1>12,
     <1>13, <1>14 DEF Next, SnapshotStep, RecoverStep

DurableInv == TypeInv /\ ScanInv /\ FilesInv /\ LoggedInv

\* With every key at home the table always has room.
LEMMA AlwaysRoom ==
  ASSUME NoCollision, TypeInv, ScanInv, NEW k \in Key
  PROVE  ~ Full(entries, k)
BY HomeNotFull DEF TypeInv, TypeOK, ScanInv

\* While the store is served, but for the window between remove and rename,
\* the files hold the very map that lookups see.
LEMMA ServedIsStored ==
  ASSUME NoCollision, DurableInv,
         phase \in {"ready", "closed", "written", "renamed"}
  PROVE  StoredMap = Live(entries)
<1>1. ASSUME NEW k \in Key PROVE Stored(k) = Lookup(entries, k)
  BY AlwaysRoom, FilesInvImplies DEF DurableInv, LoggedInv, FilesHoldUpdates
<1> QED
  BY <1>1 DEF StoredMap, Live

\* Inside the window they hold a part of it.
LEMMA WindowIsPart ==
  ASSUME NoCollision, DurableInv, phase = "removed", NEW k \in Key
  PROVE  Stored(k) \in {None, Lookup(entries, k)}
<1>1. CASE Silent(logFile, Len(logFile), k)
  BY <1>1 DEF Stored, Silent, DurableInv, LoggedInv
<1>2. CASE ~ Silent(logFile, Len(logFile), k)
  <2>1. FilesAgree(snapFile, logFile, Len(logFile), k, entries)
    BY <1>2 DEF FilesAgree, DurableInv, FilesInv, LoggedInv, Contents, Regular
  <2>2. Agrees(entries, k, Stored(k))
    BY <2>1, StoredAgrees DEF DurableInv
  <2> QED
    BY <2>2, AlwaysRoom DEF Agrees, DurableInv
<1> QED
  BY <1>1, <1>2

\* A put sets its key, a delete clears it.
LEMMA PutIsSet ==
  ASSUME NoCollision, DurableInv, DurableInv',
         NEW k \in Key, NEW v \in Val, Put(k, v)
  PROVE  Live(entries)' = [Live(entries) EXCEPT ![k] = v]
<1>1. /\ entries' = PutInternal(entries, k, v) /\ entries \in Table
      /\ NoGap(entries)
  BY HomeIsGapless DEF Put, DurableInv, TypeInv, TypeOK, ScanInv
<1>2. ASSUME NEW l \in Key PROVE ~ Full(entries, l) /\ ~ Full(entries', l)
  BY HomeNotFull DEF DurableInv, TypeInv, TypeOK, ScanInv
<1>3. Lookup(entries', k) = v
  BY <1>1, <1>2, PutVisible DEF Agrees
<1>4. ASSUME NEW l \in Key, l # k
      PROVE  Lookup(entries', l) = Lookup(entries, l)
  <2>1. Agrees(entries, l, Lookup(entries, l))
    BY DEF Agrees
  <2>2. Agrees(entries', l, Lookup(entries, l))
    BY <1>1, <1>4, <2>1, PutOthers
  <2> QED
    BY <1>2, <2>2 DEF Agrees
<1> QED
  BY <1>3, <1>4 DEF Live

LEMMA DeleteIsClear ==
  ASSUME NoCollision, DurableInv, DurableInv', NEW k \in Key, Delete(k)
  PROVE  Live(entries)' = [Live(entries) EXCEPT ![k] = None]
<1>1. /\ entries' = Vacate(entries, k) /\ entries \in Table
      /\ AtHome(entries)
  BY DEF Delete, DurableInv, TypeInv, TypeOK, ScanInv
<1>2. ASSUME NEW l \in Key PROVE ~ Full(entries, l) /\ ~ Full(entries', l)
  BY HomeNotFull DEF DurableInv, TypeInv, TypeOK, ScanInv
<1>3. Lookup(entries', k) = None
  BY <1>1, <1>2, VacateSelf DEF Agrees
<1>4. ASSUME NEW l \in Key, l # k
      PROVE  Lookup(entries', l) = Lookup(entries, l)
  <2>1. Agrees(entries, l, Lookup(entries, l))
    BY DEF Agrees
  <2>2. Agrees(entries', l, Lookup(entries, l))
    BY <1>1, <1>4, <2>1, VacateOthers
  <2> QED
    BY <1>2, <2>2 DEF Agrees
<1> QED
  BY <1>3, <1>4 DEF Live

Recovering == {"down", "loading", "replaying"}

\* Files that stay as they are keep what they hold.
LEMMA SameFiles ==
  ASSUME snapFile' = snapFile, logFile' = logFile
  PROVE  StoredMap' = StoredMap
BY DEF StoredMap, Stored

LEMMA InitIsDurable == Init => Durable!Init
<1> SUFFICES ASSUME Init PROVE DurableState = [k \in Key |-> None]
  BY DEF Durable!Init
<1>1. phase = "ready" /\ entries = EmptyTable /\ EmptyTable \in Table
  BY DEF Init, EmptyTable, Table
<1>2. ASSUME NEW k \in Key PROVE Lookup(EmptyTable, k) = None
  BY <1>1, AbsentIsNone DEF EmptyTable
<1> QED
  BY <1>1, <1>2 DEF DurableState, Live

\* Every step of the store is a step of the durable map, or changes nothing.
LEMMA NextIsDurable ==
  ASSUME NoCollision, DurableInv, DurableInv', [Next]_vars
  PROVE  [Durable!Next]_DurableState
<1>1. ASSUME NEW k \in Key, NEW v \in Val, Put(k, v) PROVE Durable!Next
  <2>1. phase = "ready" /\ phase' \in {"ready", "closed"}
    BY <1>1, AppendLogCases DEF Put
  <2>2. DurableState' = [DurableState EXCEPT ![k] = v]
    BY <1>1, <2>1, PutIsSet DEF DurableState
  <2> QED
    BY <2>2 DEF Durable!Next, Durable!Set
<1>2. ASSUME NEW k \in Key, Delete(k) PROVE Durable!Next
  <2>1. phase = "ready" /\ phase' \in {"ready", "closed"}
    BY <1>2, AppendLogCases DEF Delete
  <2>2. DurableState' = [DurableState EXCEPT ![k] = None]
    BY <1>2, <2>1, DeleteIsClear DEF DurableState
  <2> QED
    BY <2>2 DEF Durable!Next, Durable!Clear
<1>3. CASE Checkpoint \/ SnapshotStep
  <2>1. /\ phase \notin Recovering /\ phase' \notin Recovering
        /\ entries' = entries
    BY <1>3 DEF Recovering, Checkpoint, EnterSnapshot, SnapshotStep,
       SnapshotOpenFails, SnapshotWriteTmp, SnapshotRemoveOld,
       SnapshotRename, SnapshotResetLog
  <2> QED
    BY <2>1 DEF DurableState, Recovering, Live
<1>4. ASSUME phase \in Recovering, phase' \in Recovering,
             snapFile' = snapFile, logFile' = logFile
      PROVE  UNCHANGED DurableState
  BY <1>4, SameFiles DEF DurableState, Recovering
<1>5. CASE Restart \/ RecoverLoad
  BY <1>4, <1>5 DEF Restart, RecoverLoad, files, Recovering
<1>6. CASE RecoverReplay
  <2>1. CASE cursor + 1 \in 1 .. Len(logFile)
    BY <1>4, <1>6, <2>1 DEF RecoverReplay, files, Recovering
  <2>2. CASE ~ (cursor + 1 \in 1 .. Len(logFile))
    <3>1. /\ phase = "replaying" /\ phase' = "ready"
          /\ snapFile' = snapFile /\ logFile' = logFile
      BY <1>6, <2>2 DEF RecoverReplay, files
    <3>2. Live(entries)' = StoredMap
      <4>1. cursor = Len(logFile) /\ entries' = entries
        BY <1>6, <2>2 DEF RecoverReplay, DurableInv, TypeInv, TypeOK,
           FilesInv, Position
      <4>2. ASSUME NEW k \in Key PROVE Lookup(entries, k) = Stored(k)
        <5>1. FilesAgree(snapFile, logFile, Len(logFile), k, entries)
          BY <3>1, <4>1 DEF DurableInv, FilesInv, Contents, Regular
        <5> QED
          BY <5>1, StoredAgrees, AlwaysRoom DEF DurableInv, Agrees
      <4> QED
        BY <4>1, <4>2 DEF StoredMap, Live
    <3> QED
      BY <3>1, <3>2 DEF DurableState
  <2> QED
    BY <2>1, <2>2
<1>7. CASE Crash
  <2>1. /\ phase' = "down" /\ snapFile' = snapFile /\ logFile' = logFile
    BY <1>7 DEF Crash, files
  <2>2. DurableState' = StoredMap
    BY <2>1, SameFiles DEF DurableState
  <2>3. CASE phase \in Recovering
    BY <1>4, <2>1, <2>3 DEF Recovering
  <2>4. CASE phase \in {"ready", "closed", "written", "renamed"}
    <3>1. DurableState = Live(entries)
      BY <2>4 DEF DurableState
    <3> QED
      BY <2>2, <2>4, <3>1, ServedIsStored
  <2>5. CASE phase = "removed"
    <3> DEFINE K == {k \in Key : Stored(k) = None}
    <3>1. DurableState = Live(entries)
      BY <2>5 DEF DurableState
    <3>2. ASSUME NEW k \in Key
          PROVE  Stored(k) = IF k \in K THEN None ELSE Live(entries)[k]
      BY <2>5, WindowIsPart DEF Live
    <3>3. StoredMap = [k \in Key |-> IF k \in K THEN None
                                                ELSE DurableState[k]]
      BY <3>1, <3>2 DEF StoredMap
    <3>4. Durable!Forget(K)
      BY <2>2, <3>3 DEF Durable!Forget
    <3> QED
      BY <3>4 DEF Durable!Next
  <2> QED
    BY <2>3, <2>4, <2>5 DEF DurableInv, TypeInv, TypeOK, Recovering
<1>8. CASE UNCHANGED vars
  <2>1. UNCHANGED <<phase, entries, snapFile, logFile>>
    BY <1>8 DEF vars
  <2> QED
    BY <2>1, SameFiles DEF DurableState, Live
<1> QED
  BY <1>1, <1>2, <1>3, <1>5, <1>6, <1>7, <1>8 DEF Next, RecoverStep

\* For every set of keys with distinct home slots, every capacity, threshold
\* and number of crashes: table, log and snapshot together are a map that
\* outlives the process; a crash inside kv_snapshot_internal may forget
\* keys, and no crash takes a key back to an older value.
THEOREM DurableCorrect ==
  NoCollision /\ MaxOpenErrors = 0 => (Spec => ImplementsDurableMap)
<1> SUFFICES ASSUME NoCollision, MaxOpenErrors = 0
             PROVE  Spec => ImplementsDurableMap
  OBVIOUS
<1>1. Init => DurableInv
  BY StartFiles, InitLoggedInv DEF DurableInv
<1>2. DurableInv /\ [Next]_vars => DurableInv'
  BY KeepFiles, NextLoggedInv DEF DurableInv
<1>3. DurableInv /\ DurableInv' /\ [Next]_vars
        => [Durable!Next]_DurableState
  BY NextIsDurable
<1> QED
  BY <1>1, <1>2, <1>3, InitIsDurable, PTL
     DEF Spec, ImplementsDurableMap, Durable!Spec

-----------------------------------------------------------------------------
(* The LSM tree: the contents of a memtable.  A tree is a record of records,  *)
(* on which the provers have no induction; instead a table of subtrees with   *)
(* their contents is closed under taking subtrees, and the heights say that   *)
(* the way down ends.                                                         *)

\* What a tree holds for every key: its entry, or nothing.
MemContents == [LsmKey -> SUBSET LSMEntry]
Bare == [x \in LsmKey |-> {}]
Join(k, e, a, b) == [x \in LsmKey |-> IF x = k THEN {e} ELSE IF x < k THEN a[x] ELSE b[x]]
Apart(k, a, b) == \A x \in LsmKey : (a[x] # {} => x < k) /\ (b[x] # {} => x > k)
Even(l, r) == l.height - r.height <= 1 /\ r.height - l.height <= 1

NodeOf(t, a, b, c) ==
  /\ t.key \in LsmKey /\ t.entry \in LSMEntry
  /\ t = MemNode(t.key, t.entry, t.left, t.right) /\ Even(t.left, t.right)
  /\ Apart(t.key, a, b) /\ c = Join(t.key, t.entry, a, b)

\* A table of trees and their contents that lists every subtree.
Grown(W) ==
  \A t, c : <<t, c>> \in W =>
    /\ c \in MemContents /\ t.height \in Nat
    /\ \/ t = Nil /\ c = Bare
       \/ \E a, b : <<t.left, a>> \in W /\ <<t.right, b>> \in W /\ NodeOf(t, a, b, c)

\* t is a balanced search tree with contents c.
Tree(t, c) == \E W : Grown(W) /\ <<t, c>> \in W

\* The height of a node over its subtrees.
LEMMA NodeParts ==
  ASSUME NEW k, NEW e, NEW l, NEW r, l.height \in Nat, r.height \in Nat
  PROVE  LET t == MemNode(k, e, l, r)
         IN  /\ t.key = k /\ t.entry = e /\ t.left = l /\ t.right = r
             /\ t.height = (IF l.height > r.height THEN l.height + 1 ELSE r.height + 1)
             /\ t.height \in Nat /\ l.height < t.height /\ r.height < t.height /\ t # Nil
<1> DEFINE t == MemNode(k, e, l, r)
<1>1. /\ t.key = k /\ t.entry = e /\ t.left = l /\ t.right = r /\ t.height = Taller(l, r)
  BY DEF MemNode
<1>2. Taller(l, r) = (IF l.height > r.height THEN l.height + 1 ELSE r.height + 1)
  BY DEF Taller
<1> HIDE DEF t
<1>3. t.height \in Nat /\ l.height < t.height /\ r.height < t.height /\ t.height # 0
  BY <1>1, <1>2
<1>4. Nil.height = 0
  BY DEF Nil
<1> QED
  BY <1>1, <1>2, <1>3, <1>4 DEF t

LEMMA NilIsTree == Tree(Nil, Bare)
<1> DEFINE W == {<<Nil, Bare>>}
<1>1. Bare \in MemContents /\ Nil.height \in Nat
  BY DEF Bare, MemContents, Nil
<1>2. \A t, c : <<t, c>> \in W => t = Nil /\ c = Bare
  OBVIOUS
<1>3. Grown(W)
  BY <1>1, <1>2 DEF Grown
<1> QED
  BY <1>3 DEF Tree

LEMMA TreeOpens ==
  ASSUME NEW t, NEW c, Tree(t, c)
  PROVE  /\ c \in MemContents /\ t.height \in Nat
         /\ \/ t = Nil /\ c = Bare
            \/ \E a, b : Tree(t.left, a) /\ Tree(t.right, b) /\ NodeOf(t, a, b, c)
<1>1. PICK W : Grown(W) /\ <<t, c>> \in W
  BY DEF Tree
<1>2. /\ c \in MemContents /\ t.height \in Nat
      /\ \/ t = Nil /\ c = Bare
         \/ \E a, b : <<t.left, a>> \in W /\ <<t.right, b>> \in W /\ NodeOf(t, a, b, c)
  BY <1>1 DEF Grown
<1>3. ASSUME NEW a, NEW b, <<t.left, a>> \in W, <<t.right, b>> \in W
      PROVE  Tree(t.left, a) /\ Tree(t.right, b)
  BY <1>1, <1>3 DEF Tree
<1> QED
  BY <1>2, <1>3

\* What is known of a node of a tree.
LEMMA NodeOpens ==
  ASSUME NEW t, NEW c, Tree(t, c), t # Nil
  PROVE  \E a, b : /\ Tree(t.left, a) /\ Tree(t.right, b) /\ Apart(t.key, a, b)
                   /\ c = Join(t.key, t.entry, a, b)
                   /\ t.key \in LsmKey /\ t.entry \in LSMEntry /\ Even(t.left, t.right)
                   /\ t = MemNode(t.key, t.entry, t.left, t.right)
                   /\ t.left.height \in Nat /\ t.right.height \in Nat /\ t.height \in Nat
                   /\ t.left.height < t.height /\ t.right.height < t.height
<1>1. PICK a, b : Tree(t.left, a) /\ Tree(t.right, b) /\ NodeOf(t, a, b, c)
  BY TreeOpens
<1>2. t.left.height \in Nat /\ t.right.height \in Nat
  BY <1>1, TreeOpens
<1>3. t = MemNode(t.key, t.entry, t.left, t.right)
  BY <1>1 DEF NodeOf
<1>4. t.height \in Nat /\ t.left.height < t.height /\ t.right.height < t.height
  <2> DEFINE l == t.left
             r == t.right
  <2>1. l.height \in Nat /\ r.height \in Nat /\ t = MemNode(t.key, t.entry, l, r)
    BY <1>2, <1>3
  <2> HIDE DEF l, r
  <2>2. t.height \in Nat /\ l.height < t.height /\ r.height < t.height
    BY <2>1, NodeParts
  <2> QED
    BY <2>2 DEF l, r
<1> QED
  BY <1>1, <1>2, <1>3, <1>4 DEF NodeOf

LEMMA JoinIsContents ==
  ASSUME NEW k, NEW e \in LSMEntry, NEW a \in MemContents, NEW b \in MemContents
  PROVE  Join(k, e, a, b) \in MemContents
BY DEF Join, MemContents

LEMMA TreeMakes ==
  ASSUME NEW k \in LsmKey, NEW e \in LSMEntry, NEW l, NEW r, NEW a, NEW b,
         Tree(l, a), Tree(r, b), Apart(k, a, b), Even(l, r)
  PROVE  Tree(MemNode(k, e, l, r), Join(k, e, a, b))
<1> DEFINE t == MemNode(k, e, l, r)
           c == Join(k, e, a, b)
<1>1. PICK V : Grown(V) /\ <<l, a>> \in V
  BY DEF Tree
<1>2. PICK U : Grown(U) /\ <<r, b>> \in U
  BY DEF Tree
<1>3. /\ l.height \in Nat /\ r.height \in Nat /\ a \in MemContents /\ b \in MemContents
  BY TreeOpens
<1>4. t.key = k /\ t.entry = e /\ t.left = l /\ t.right = r /\ t.height \in Nat
  BY <1>3, NodeParts
<1>5. c \in MemContents
  BY <1>3, JoinIsContents
<1>6. NodeOf(t, a, b, c)
  BY <1>4 DEF NodeOf
<1> HIDE DEF t, c
<1> DEFINE W == V \cup U \cup {<<t, c>>}
<1>7. Grown(W)
  <2> SUFFICES ASSUME NEW s, NEW d, <<s, d>> \in W
               PROVE  /\ d \in MemContents /\ s.height \in Nat
                      /\ \/ s = Nil /\ d = Bare
                         \/ \E x, y : <<s.left, x>> \in W /\ <<s.right, y>> \in W /\ NodeOf(s, x, y, d)
    BY DEF Grown
  <2>1. CASE <<s, d>> \in V
    BY <1>1, <2>1 DEF Grown
  <2>2. CASE <<s, d>> \in U
    BY <1>2, <2>2 DEF Grown
  <2>3. CASE <<s, d>> = <<t, c>>
    <3>1. s = t /\ d = c
      BY <2>3
    <3>2. <<s.left, a>> \in W /\ <<s.right, b>> \in W /\ NodeOf(s, a, b, d)
      BY <1>1, <1>2, <1>4, <1>6, <3>1
    <3> QED
      BY <1>4, <1>5, <3>1, <3>2
  <2> QED
    BY <2>1, <2>2, <2>3
<1>8. <<t, c>> \in W
  OBVIOUS
<1> HIDE DEF W
<1>9. Tree(t, c)
  BY <1>7, <1>8 DEF Tree
<1> QED
  BY <1>9 DEF t, c

\* A rotation does not change what is held, nor that it is in order.
LEMMA JoinTurns ==
  ASSUME NEW x \in LsmKey, NEW y \in LsmKey, NEW ex, NEW ey, NEW a, NEW b, NEW c
  PROVE  /\ x < y /\ Apart(x, a, b) /\ Apart(y, Join(x, ex, a, b), c) =>
              /\ Apart(y, b, c) /\ Apart(x, a, Join(y, ey, b, c))
              /\ Join(y, ey, Join(x, ex, a, b), c) = Join(x, ex, a, Join(y, ey, b, c))
         /\ x < y /\ Apart(y, b, c) /\ Apart(x, a, Join(y, ey, b, c)) =>
              /\ Apart(x, a, b) /\ Apart(y, Join(x, ex, a, b), c)
              /\ Join(y, ey, Join(x, ex, a, b), c) = Join(x, ex, a, Join(y, ey, b, c))
<1> DEFINE ab == Join(x, ex, a, b)
           bc == Join(y, ey, b, c)
<1>1. \A z \in LsmKey : z \in Int
  BY LsmAssumption
<1>2. /\ \A z \in LsmKey : ab[z] = IF z = x THEN {ex} ELSE IF z < x THEN a[z] ELSE b[z]
      /\ \A z \in LsmKey : bc[z] = IF z = y THEN {ey} ELSE IF z < y THEN b[z] ELSE c[z]
  BY DEF Join
<1> HIDE DEF ab, bc
<1>3. ASSUME x < y PROVE Join(y, ey, ab, c) = Join(x, ex, a, bc)
  <2>1. ASSUME NEW z \in LsmKey
        PROVE  (IF z = y THEN {ey} ELSE IF z < y THEN ab[z] ELSE c[z])
                 = (IF z = x THEN {ex} ELSE IF z < x THEN a[z] ELSE bc[z])
    <3>1. z \in Int /\ x \in Int /\ y \in Int
      BY <1>1
    <3>2. CASE z < x
      <4>1. z # x /\ z # y /\ z < y
        BY <1>3, <3>1, <3>2
      <4>2. ab[z] = a[z]
        BY <1>2, <3>2, <4>1
      <4> QED
        BY <3>2, <4>1, <4>2
    <3>3. CASE z = x
      <4>1. z # y /\ z < y
        BY <1>3, <3>1, <3>3
      <4>2. ab[z] = {ex}
        BY <1>2, <3>3
      <4> QED
        BY <3>3, <4>1, <4>2
    <3>4. CASE x < z /\ z < y
      <4>1. z # x /\ z # y /\ ~ (z < x)
        BY <3>1, <3>4
      <4>2. ab[z] = b[z] /\ bc[z] = b[z]
        BY <1>2, <3>4, <4>1
      <4> QED
        BY <3>4, <4>1, <4>2
    <3>5. CASE z = y
      <4>1. z # x /\ ~ (z < x)
        BY <1>3, <3>1, <3>5
      <4>2. bc[z] = {ey}
        BY <1>2, <3>5
      <4> QED
        BY <3>5, <4>1, <4>2
    <3>6. CASE y < z
      <4>1. z # x /\ z # y /\ ~ (z < x) /\ ~ (z < y)
        BY <1>3, <3>1, <3>6
      <4>2. bc[z] = c[z]
        BY <1>2, <4>1
      <4> QED
        BY <4>1, <4>2
    <3> QED
      BY <1>3, <3>1, <3>2, <3>3, <3>4, <3>5, <3>6
  <2> QED
    BY <2>1 DEF Join
<1>4. ASSUME x < y, Apart(x, a, b), Apart(y, ab, c) PROVE Apart(y, b, c) /\ Apart(x, a, bc)
  <2>1. \A z \in LsmKey : /\ (a[z] # {} => z < x) /\ (b[z] # {} => z > x)
                          /\ (ab[z] # {} => z < y) /\ (c[z] # {} => z > y)
    BY <1>4 DEF Apart
  <2>2. ASSUME NEW z \in LsmKey PROVE (b[z] # {} => z < y) /\ (bc[z] # {} => z > x)
    <3>1. z \in Int /\ x \in Int /\ y \in Int
      BY <1>1
    <3> QED
      BY <1>2, <1>4, <2>1, <3>1
  <2> QED
    BY <2>1, <2>2 DEF Apart
<1>5. ASSUME x < y, Apart(y, b, c), Apart(x, a, bc) PROVE Apart(x, a, b) /\ Apart(y, ab, c)
  <2>1. \A z \in LsmKey : /\ (b[z] # {} => z < y) /\ (c[z] # {} => z > y)
                          /\ (a[z] # {} => z < x) /\ (bc[z] # {} => z > x)
    BY <1>5 DEF Apart
  <2>2. ASSUME NEW z \in LsmKey PROVE (b[z] # {} => z > x) /\ (ab[z] # {} => z < y)
    <3>1. z \in Int /\ x \in Int /\ y \in Int
      BY <1>1
    <3> QED
      BY <1>2, <1>5, <2>1, <3>1
  <2> QED
    BY <2>1, <2>2 DEF Apart
<1> QED
  BY <1>3, <1>4, <1>5 DEF ab, bc


\* The recursion down the tree as a loop.
PathRun(n, k, f) ==
  f = [i \in 0 .. n.height |-> IF i = 0 THEN n ELSE Below(f[i - 1], k)]

LEMMA PathUnfolds ==
  ASSUME NEW n, NEW k, n.height \in Nat
  PROVE  /\ Path(n, k)[0] = n
         /\ \A i \in 1 .. n.height : Path(n, k)[i] = Below(Path(n, k)[i - 1], k)
<1> DEFINE h == n.height
           Upto(f, m) == f = [i \in 0 .. m |-> IF i = 0 THEN n ELSE Below(f[i - 1], k)]
           Good == {m \in 0 .. h : \E f : Upto(f, m)}
<1>1. h \in Nat
  OBVIOUS
<1>2. 0 \in Good
  <2>1. Upto([i \in 0 .. 0 |-> n], 0)
    OBVIOUS
  <2> HIDE DEF Upto
  <2> QED
    BY <1>1, <2>1
<1>3. ASSUME NEW m \in 1 .. h, m - 1 \in Good PROVE m \in Good
  <2>1. PICK f : Upto(f, m - 1)
    BY <1>3
  <2> DEFINE v == Below(f[m - 1], k)
             g == [i \in 0 .. m |-> IF i = m THEN v ELSE f[i]]
             w == [i \in 0 .. m |-> IF i = 0 THEN n ELSE Below(g[i - 1], k)]
  <2>2. ASSUME NEW i \in 0 .. m PROVE g[i] = w[i]
    <3>1. CASE i = m
      <4>1. m # 0 /\ m - 1 \in 0 .. m /\ m - 1 # m
        OBVIOUS
      <4>2. g[m - 1] = f[m - 1] /\ g[i] = v
        BY <3>1, <4>1
      <4>3. w[i] = Below(g[i - 1], k)
        BY <3>1, <4>1
      <4> QED
        BY <3>1, <4>2, <4>3
    <3>2. CASE i # m
      <4>1. i \in 0 .. m - 1 /\ (i # 0 => i - 1 \in 0 .. m - 1 /\ i - 1 \in 0 .. m /\ i - 1 # m)
        BY <3>2
      <4>2. f[i] = IF i = 0 THEN n ELSE Below(f[i - 1], k)
        BY <2>1, <4>1
      <4>3. g[i] = f[i] /\ (i # 0 => g[i - 1] = f[i - 1])
        BY <3>2, <4>1
      <4> QED
        BY <4>2, <4>3
    <3> QED
      BY <3>1, <3>2
  <2>3. g = w
    <3>1. DOMAIN g = 0 .. m /\ DOMAIN w = 0 .. m
      OBVIOUS
    <3>2. g = [i \in 0 .. m |-> g[i]] /\ w = [i \in 0 .. m |-> w[i]]
      OBVIOUS
    <3> HIDE DEF g, w
    <3> QED
      BY <2>2, <3>2
  <2>4. Upto(g, m)
    BY <2>3
  <2> HIDE DEF Upto
  <2> QED
    BY <2>4
<1>4. h \in Good
  <2> HIDE DEF Good
  <2> QED
    BY <1>1, <1>2, <1>3, RoundsKeep
<1>5. PICK f : PathRun(n, k, f)
  BY <1>4 DEF PathRun
<1>6. Path(n, k) = CHOOSE u : PathRun(n, k, u)
  BY DEF Path, PathRun
<1>7. PathRun(n, k, Path(n, k))
  BY <1>5, <1>6
<1> HIDE DEF Upto, Good
<1> QED
  BY <1>1, <1>7 DEF PathRun

\* Where the way down to k stands after i steps: it has k's entry, and every
\* step that did not arrive took it to a lower tree.
OnWay(x, c, k, m) ==
  \E d : Tree(x, d) /\ d[k] = c[k] /\ (x = Nil \/ x.key = k \/ x.height <= m)

LEMMA BelowGoesDown ==
  ASSUME NEW x, NEW c, NEW k \in LsmKey, NEW m \in Nat, OnWay(x, c, k, m + 1)
  PROVE  OnWay(Below(x, k), c, k, m)
<1>1. PICK d : Tree(x, d) /\ d[k] = c[k] /\ (x = Nil \/ x.key = k \/ x.height <= m + 1)
  BY DEF OnWay
<1>2. CASE x = Nil \/ x.key = k
  BY <1>1, <1>2 DEF OnWay, Below
<1>3. CASE x # Nil /\ x.key # k
  <2>1. PICK a, b : /\ Tree(x.left, a) /\ Tree(x.right, b) /\ Apart(x.key, a, b)
                    /\ d = Join(x.key, x.entry, a, b) /\ x.key \in LsmKey
                    /\ x.left.height \in Nat /\ x.right.height \in Nat /\ x.height \in Nat
                    /\ x.left.height < x.height /\ x.right.height < x.height
    BY <1>1, <1>3, NodeOpens
  <2>2. x.left.height <= m /\ x.right.height <= m
    BY <1>1, <1>3, <2>1
  <2>3. d[k] = IF k < x.key THEN a[k] ELSE b[k]
    BY <1>3, <2>1 DEF Join
  <2>4. CASE k < x.key
    <3>1. Below(x, k) = x.left /\ a[k] = c[k]
      BY <1>1, <1>3, <2>3, <2>4 DEF Below
    <3> QED
      BY <2>1, <2>2, <3>1 DEF OnWay
  <2>5. CASE ~ (k < x.key)
    <3>1. Below(x, k) = x.right /\ b[k] = c[k]
      BY <1>1, <1>3, <2>3, <2>5 DEF Below
    <3> QED
      BY <2>1, <2>2, <3>1 DEF OnWay
  <2> QED
    BY <2>4, <2>5
<1> QED
  BY <1>2, <1>3

LEMMA WayDown ==
  ASSUME NEW n, NEW c, Tree(n, c), NEW k \in LsmKey
  PROVE  \A i \in 0 .. n.height : OnWay(Path(n, k)[i], c, k, n.height - i)
<1> DEFINE h == n.height
           at == Path(n, k)
           Good == {i \in 0 .. h : OnWay(at[i], c, k, h - i)}
<1>1. h \in Nat
  BY TreeOpens
<1>2. at[0] = n /\ \A i \in 1 .. h : at[i] = Below(at[i - 1], k)
  BY <1>1, PathUnfolds
<1> HIDE DEF h, at
<1>3. 0 \in Good
  <2>1. OnWay(n, c, k, h)
    BY <1>1 DEF OnWay, h
  <2> QED
    BY <1>1, <1>2, <2>1
<1>4. ASSUME NEW i \in 1 .. h, i - 1 \in Good PROVE i \in Good
  <2>1. OnWay(at[i - 1], c, k, h - (i - 1)) /\ h - i \in Nat /\ h - (i - 1) = (h - i) + 1
    BY <1>1, <1>4
  <2>2. OnWay(Below(at[i - 1], k), c, k, h - i)
    BY <2>1, BelowGoesDown
  <2> QED
    BY <1>2, <2>2
<1> HIDE DEF Good
<1>5. \A i \in 0 .. h : i \in Good
  BY <1>1, <1>3, <1>4, RoundsKeep
<1> QED
  BY <1>5 DEF Good, h, at

\* A tree that is not empty has a height.
LEMMA NodeIsTall ==
  ASSUME NEW t, NEW c, Tree(t, c), t.height <= 0
  PROVE  t = Nil /\ c = Bare
<1>1. CASE t # Nil
  <2>1. t.left.height \in Nat /\ t.height \in Nat /\ t.left.height < t.height
    BY <1>1, NodeOpens
  <2> QED
    BY <2>1
<1>2. CASE t = Nil
  <2>1. c = Bare
    <3>1. \/ t = Nil /\ c = Bare
          \/ \E a, b : Tree(t.left, a) /\ Tree(t.right, b) /\ NodeOf(t, a, b, c)
      BY TreeOpens
    <3>2. ASSUME NEW a, NEW b, Tree(t.left, a), Tree(t.right, b), NodeOf(t, a, b, c)
          PROVE  FALSE
      <4>1. t.left.height \in Nat /\ t.right.height \in Nat
        BY <3>2, TreeOpens
      <4>2. t = MemNode(t.key, t.entry, t.left, t.right)
        BY <3>2 DEF NodeOf
      <4> QED
        <5> DEFINE l == t.left
                   r == t.right
        <5>1. l.height \in Nat /\ r.height \in Nat /\ t = MemNode(t.key, t.entry, l, r)
          BY <4>1, <4>2
        <5> HIDE DEF l, r
        <5>2. t # Nil
          BY <5>1, NodeParts
        <5> QED
          BY <1>2, <5>2
    <3> QED
      BY <3>1, <3>2
  <2> QED
    BY <1>2, <2>1
<1> QED
  BY <1>1, <1>2

\* memtable_find_node answers the entry of the key.
LEMMA FindAnswers ==
  ASSUME NEW n, NEW c, Tree(n, c), NEW k \in LsmKey
  PROVE  memtable_find_node(n, k) = c[k]
<1> DEFINE x == Path(n, k)[n.height]
<1>1. n.height \in Nat
  BY TreeOpens
<1>2. OnWay(x, c, k, n.height - n.height)
  BY <1>1, WayDown
<1>3. memtable_find_node(n, k) = IF x = Nil THEN {} ELSE {x.entry}
  BY DEF memtable_find_node
<1> HIDE DEF x
<1>4. PICK d : Tree(x, d) /\ d[k] = c[k] /\ (x = Nil \/ x.key = k \/ x.height <= 0)
  BY <1>1, <1>2 DEF OnWay
<1>5. CASE x = Nil
  <2>1. d = Bare
    <3>1. x.height <= 0
      BY <1>5 DEF Nil
    <3> QED
      BY <1>4, <3>1, NodeIsTall
  <2> QED
    BY <1>3, <1>4, <1>5, <2>1 DEF Bare
<1>6. CASE x # Nil
  <2>1. x.key = k
    BY <1>4, <1>6, NodeIsTall
  <2>2. PICK a, b : d = Join(x.key, x.entry, a, b)
    BY <1>4, <1>6, NodeOpens
  <2> QED
    BY <1>3, <1>4, <1>6, <2>1, <2>2 DEF Join
<1> QED
  BY <1>5, <1>6

-----------------------------------------------------------------------------
(* Rotations. *)

LEMMA JoinHolds ==
  ASSUME NEW k \in LsmKey, NEW e, NEW a, NEW b
  PROVE  Join(k, e, a, b)[k] # {}
BY DEF Join

LEMMA TurnRight ==
  ASSUME NEW x \in LsmKey, NEW y \in LsmKey, NEW ex \in LSMEntry, NEW ey \in LSMEntry,
         NEW A, NEW B, NEW C, NEW a, NEW b, NEW c, Tree(A, a), Tree(B, b), Tree(C, c),
         Apart(x, a, b), Apart(y, Join(x, ex, a, b), c),
         Even(B, C), Even(A, MemNode(y, ey, B, C))
  PROVE  Tree(MemNode(x, ex, A, MemNode(y, ey, B, C)), Join(y, ey, Join(x, ex, a, b), c))
<1>1. x < y
  BY JoinHolds DEF Apart
<1>2. /\ Apart(y, b, c) /\ Apart(x, a, Join(y, ey, b, c))
      /\ Join(y, ey, Join(x, ex, a, b), c) = Join(x, ex, a, Join(y, ey, b, c))
  BY <1>1, JoinTurns
<1>3. Tree(MemNode(y, ey, B, C), Join(y, ey, b, c))
  BY <1>2, TreeMakes
<1>4. Tree(MemNode(x, ex, A, MemNode(y, ey, B, C)), Join(x, ex, a, Join(y, ey, b, c)))
  BY <1>2, <1>3, TreeMakes
<1> QED
  BY <1>2, <1>4

LEMMA TurnLeft ==
  ASSUME NEW x \in LsmKey, NEW y \in LsmKey, NEW ex \in LSMEntry, NEW ey \in LSMEntry,
         NEW A, NEW B, NEW C, NEW a, NEW b, NEW c, Tree(A, a), Tree(B, b), Tree(C, c),
         Apart(y, b, c), Apart(x, a, Join(y, ey, b, c)),
         Even(A, B), Even(MemNode(x, ex, A, B), C)
  PROVE  Tree(MemNode(y, ey, MemNode(x, ex, A, B), C), Join(x, ex, a, Join(y, ey, b, c)))
<1>1. x < y
  <2>1. y > x /\ x \in Int /\ y \in Int
    BY JoinHolds, LsmAssumption DEF Apart
  <2> QED
    BY <2>1
<1>2. /\ Apart(x, a, b) /\ Apart(y, Join(x, ex, a, b), c)
      /\ Join(y, ey, Join(x, ex, a, b), c) = Join(x, ex, a, Join(y, ey, b, c))
  BY <1>1, JoinTurns
<1>3. Tree(MemNode(x, ex, A, B), Join(x, ex, a, b))
  BY <1>2, TreeMakes
<1>4. Tree(MemNode(y, ey, MemNode(x, ex, A, B), C), Join(y, ey, Join(x, ex, a, b), c))
  BY <1>2, <1>3, TreeMakes
<1> QED
  BY <1>2, <1>4

\* The double rotation that lifts the right child of a left child.
LEMMA TurnLeftRight ==
  ASSUME NEW x \in LsmKey, NEW y \in LsmKey, NEW m \in LsmKey,
         NEW ex \in LSMEntry, NEW ey \in LSMEntry, NEW em \in LSMEntry,
         NEW A, NEW B, NEW C, NEW D, NEW a, NEW b, NEW c, NEW d,
         Tree(A, a), Tree(B, b), Tree(C, c), Tree(D, d),
         Apart(m, b, c), Apart(x, a, Join(m, em, b, c)),
         Apart(y, Join(x, ex, a, Join(m, em, b, c)), d),
         Even(A, B), Even(C, D), Even(MemNode(x, ex, A, B), MemNode(y, ey, C, D))
  PROVE  Tree(MemNode(m, em, MemNode(x, ex, A, B), MemNode(y, ey, C, D)),
              Join(y, ey, Join(x, ex, a, Join(m, em, b, c)), d))
<1> DEFINE bc == Join(m, em, b, c)
           ab == Join(x, ex, a, b)
           cd == Join(y, ey, c, d)
<1>1. x < m
  <2>1. m > x /\ x \in Int /\ m \in Int
    BY JoinHolds, LsmAssumption DEF Apart
  <2> QED
    BY <2>1
<1>2. /\ Apart(x, a, b) /\ Apart(m, ab, c)
      /\ Join(m, em, ab, c) = Join(x, ex, a, bc)
  BY <1>1, JoinTurns
<1>3. Apart(y, Join(m, em, ab, c), d)
  BY <1>2
<1>4. m < y
  <2>1. Join(m, em, ab, c)[m] # {}
    BY JoinHolds
  <2> QED
    BY <1>3, <2>1 DEF Apart
<1>5. /\ Apart(y, c, d) /\ Apart(m, ab, cd)
      /\ Join(y, ey, Join(m, em, ab, c), d) = Join(m, em, ab, cd)
  <2> HIDE DEF ab
  <2> QED
    BY <1>3, <1>2, <1>4, JoinTurns
<1>6. Tree(MemNode(x, ex, A, B), ab) /\ Tree(MemNode(y, ey, C, D), cd)
  BY <1>2, <1>5, TreeMakes
<1> HIDE DEF ab, bc, cd
<1>7. Tree(MemNode(m, em, MemNode(x, ex, A, B), MemNode(y, ey, C, D)), Join(m, em, ab, cd))
  BY <1>5, <1>6, TreeMakes
<1>8. Join(m, em, ab, cd) = Join(y, ey, Join(x, ex, a, bc), d)
  BY <1>2, <1>5
<1> QED
  BY <1>7, <1>8 DEF bc

\* The one that lifts the left child of a right child.
LEMMA TurnRightLeft ==
  ASSUME NEW x \in LsmKey, NEW y \in LsmKey, NEW m \in LsmKey,
         NEW ex \in LSMEntry, NEW ey \in LSMEntry, NEW em \in LSMEntry,
         NEW A, NEW B, NEW C, NEW D, NEW a, NEW b, NEW c, NEW d,
         Tree(A, a), Tree(B, b), Tree(C, c), Tree(D, d),
         Apart(m, b, c), Apart(y, Join(m, em, b, c), d),
         Apart(x, a, Join(y, ey, Join(m, em, b, c), d)),
         Even(A, B), Even(C, D), Even(MemNode(x, ex, A, B), MemNode(y, ey, C, D))
  PROVE  Tree(MemNode(m, em, MemNode(x, ex, A, B), MemNode(y, ey, C, D)),
              Join(x, ex, a, Join(y, ey, Join(m, em, b, c), d)))
<1> DEFINE bc == Join(m, em, b, c)
           ab == Join(x, ex, a, b)
           cd == Join(y, ey, c, d)
<1>1. m < y
  BY JoinHolds DEF Apart
<1>2. /\ Apart(y, c, d) /\ Apart(m, b, cd)
      /\ Join(y, ey, bc, d) = Join(m, em, b, cd)
  BY <1>1, JoinTurns
<1>3. Apart(x, a, Join(m, em, b, cd))
  BY <1>2
<1>4. x < m
  <2>1. Join(m, em, b, cd)[m] # {}
    BY JoinHolds
  <2>2. m > x /\ x \in Int /\ m \in Int
    BY <1>3, <2>1, LsmAssumption DEF Apart
  <2> QED
    BY <2>2
<1>5. /\ Apart(x, a, b) /\ Apart(m, ab, cd)
      /\ Join(m, em, ab, cd) = Join(x, ex, a, Join(m, em, b, cd))
  <2> HIDE DEF cd
  <2> QED
    BY <1>3, <1>2, <1>4, JoinTurns
<1>6. Tree(MemNode(x, ex, A, B), ab) /\ Tree(MemNode(y, ey, C, D), cd)
  BY <1>2, <1>5, TreeMakes
<1> HIDE DEF ab, bc, cd
<1>7. Tree(MemNode(m, em, MemNode(x, ex, A, B), MemNode(y, ey, C, D)), Join(m, em, ab, cd))
  BY <1>5, <1>6, TreeMakes
<1>8. Join(m, em, ab, cd) = Join(x, ex, a, Join(y, ey, bc, d))
  BY <1>2, <1>5
<1> QED
  BY <1>7, <1>8 DEF bc

-----------------------------------------------------------------------------
(* Insertion keeps the tree balanced and in order. *)

SetKey(c, k, e) == [c EXCEPT ![k] = {e}]

\* The subtree of n on k's side is the higher one.
Leans(n, k) ==
  /\ n.key # k
  /\ k < n.key => n.left.height = n.right.height + 1
  /\ k > n.key => n.right.height = n.left.height + 1

\* y is what became of x, with contents c, when k went in below it.
Inserted(x, c, y, k, e) ==
  /\ Tree(y, SetKey(c, k, e)) /\ y.height \in Nat
  /\ \/ y.height = x.height
     \/ y.height = x.height + 1 /\ (x = Nil \/ Leans(y, k))

LEMMA SetIsContents ==
  ASSUME NEW c \in MemContents, NEW k \in LsmKey, NEW e \in LSMEntry
  PROVE  /\ SetKey(c, k, e) \in MemContents
         /\ \A z \in LsmKey : SetKey(c, k, e)[z] = IF z = k THEN {e} ELSE c[z]
BY DEF SetKey, MemContents

LEMMA SetHere ==
  ASSUME NEW k \in LsmKey, NEW e \in LSMEntry, NEW f \in LSMEntry,
         NEW a \in MemContents, NEW b \in MemContents
  PROVE  SetKey(Join(k, f, a, b), k, e) = Join(k, e, a, b)
<1> DEFINE c == Join(k, f, a, b)
           p == SetKey(c, k, e)
           j == Join(k, e, a, b)
<1>1. c \in MemContents /\ j \in MemContents
  BY JoinIsContents
<1>2. /\ \A z \in LsmKey : c[z] = IF z = k THEN {f} ELSE IF z < k THEN a[z] ELSE b[z]
      /\ \A z \in LsmKey : j[z] = IF z = k THEN {e} ELSE IF z < k THEN a[z] ELSE b[z]
  BY DEF Join
<1> HIDE DEF c, j
<1>3. p \in MemContents /\ \A z \in LsmKey : p[z] = IF z = k THEN {e} ELSE c[z]
  BY ZenonT(60), <1>1, SetIsContents
<1> HIDE DEF p
<1>4. \A z \in LsmKey : p[z] = j[z]
  BY <1>2, <1>3
<1>5. p = j
  BY <1>1, <1>3, <1>4 DEF MemContents
<1> QED
  BY <1>5 DEF p, c, j

LEMMA SetAside ==
  ASSUME NEW x \in LsmKey, NEW f \in LSMEntry, NEW a \in MemContents, NEW b \in MemContents,
         Apart(x, a, b), NEW k \in LsmKey, NEW e \in LSMEntry
  PROVE  /\ k < x => /\ Apart(x, SetKey(a, k, e), b)
                     /\ SetKey(Join(x, f, a, b), k, e) = Join(x, f, SetKey(a, k, e), b)
         /\ k > x => /\ Apart(x, a, SetKey(b, k, e))
                     /\ SetKey(Join(x, f, a, b), k, e) = Join(x, f, a, SetKey(b, k, e))
<1> DEFINE c == Join(x, f, a, b)
           p == SetKey(c, k, e)
           a2 == SetKey(a, k, e)
           b2 == SetKey(b, k, e)
           l == Join(x, f, a2, b)
           r == Join(x, f, a, b2)
<1>1. /\ a2 \in MemContents /\ \A z \in LsmKey : a2[z] = IF z = k THEN {e} ELSE a[z]
      /\ b2 \in MemContents /\ \A z \in LsmKey : b2[z] = IF z = k THEN {e} ELSE b[z]
  BY SMTT(30), SetIsContents
<1> HIDE DEF a2, b2
<1>2. c \in MemContents /\ l \in MemContents /\ r \in MemContents
  BY <1>1, JoinIsContents
<1>3. /\ \A z \in LsmKey : c[z] = IF z = x THEN {f} ELSE IF z < x THEN a[z] ELSE b[z]
      /\ \A z \in LsmKey : l[z] = IF z = x THEN {f} ELSE IF z < x THEN a2[z] ELSE b[z]
      /\ \A z \in LsmKey : r[z] = IF z = x THEN {f} ELSE IF z < x THEN a[z] ELSE b2[z]
  BY DEF Join
<1> HIDE DEF c, l, r
<1>4. p \in MemContents /\ \A z \in LsmKey : p[z] = IF z = k THEN {e} ELSE c[z]
  <2>1. c \in MemContents
    BY <1>2
  <2> QED
    BY ZenonT(60), <2>1, SetIsContents
<1> HIDE DEF p
<1>5. \A z \in LsmKey : z \in Int
  BY LsmAssumption
<1>6. \A z \in LsmKey : (a[z] # {} => z < x) /\ (b[z] # {} => z > x)
  BY DEF Apart
<1>7. ASSUME k < x PROVE Apart(x, a2, b) /\ p = l
  <2>1. k # x
    BY <1>5, <1>7
  <2>2. Apart(x, a2, b)
    BY <1>1, <1>6, <1>7 DEF Apart
  <2>3. \A z \in LsmKey : p[z] = l[z]
    BY <1>1, <1>3, <1>4, <1>7, <2>1
  <2> QED
    BY <1>2, <1>4, <2>2, <2>3 DEF MemContents
<1>8. ASSUME k > x PROVE Apart(x, a, b2) /\ p = r
  <2>1. k # x /\ ~ (k < x)
    BY <1>5, <1>8
  <2>2. Apart(x, a, b2)
    BY <1>1, <1>6, <1>8 DEF Apart
  <2>3. \A z \in LsmKey : p[z] = r[z]
    BY <1>1, <1>3, <1>4, <2>1
  <2> QED
    BY <1>2, <1>4, <2>2, <2>3 DEF MemContents
<1> QED
  BY <1>7, <1>8 DEF p, c, a2, b2, l, r

\* Everything known of a node, with names for its parts.
NodeFacts(t, k, e, l, r) ==
  /\ t = MemNode(k, e, l, r) /\ k \in LsmKey /\ e \in LSMEntry /\ Even(l, r)
  /\ t.key = k /\ t.entry = e /\ t.left = l /\ t.right = r
  /\ l.height \in Nat /\ r.height \in Nat /\ t.height \in Nat
  /\ t.height = (IF l.height > r.height THEN l.height + 1 ELSE r.height + 1)

LEMMA NodeUnfolds ==
  ASSUME NEW t, NEW c, Tree(t, c), t # Nil
  PROVE  \E k, e, l, r, a, b :
           /\ NodeFacts(t, k, e, l, r) /\ Tree(l, a) /\ Tree(r, b) /\ Apart(k, a, b)
           /\ c = Join(k, e, a, b)
<1>1. PICK a, b : /\ Tree(t.left, a) /\ Tree(t.right, b) /\ Apart(t.key, a, b)
                  /\ c = Join(t.key, t.entry, a, b)
                  /\ t.key \in LsmKey /\ t.entry \in LSMEntry /\ Even(t.left, t.right)
                  /\ t = MemNode(t.key, t.entry, t.left, t.right)
                  /\ t.left.height \in Nat /\ t.right.height \in Nat /\ t.height \in Nat
  BY NodeOpens
<1> DEFINE k == t.key
           e == t.entry
           l == t.left
           r == t.right
<1>2. /\ Tree(l, a) /\ Tree(r, b) /\ Apart(k, a, b) /\ c = Join(k, e, a, b)
      /\ k \in LsmKey /\ e \in LSMEntry /\ Even(l, r) /\ t = MemNode(k, e, l, r)
      /\ l.height \in Nat /\ r.height \in Nat /\ t.height \in Nat
      /\ t.key = k /\ t.entry = e /\ t.left = l /\ t.right = r
  BY <1>1
<1> HIDE DEF k, e, l, r
<1>3. t.height = (IF l.height > r.height THEN l.height + 1 ELSE r.height + 1)
  BY <1>2, NodeParts
<1> QED
  BY <1>2, <1>3 DEF NodeFacts

LEMMA InsertsLeft ==
  ASSUME NEW x, NEW c, Tree(x, c), x # Nil, NEW k \in LsmKey, NEW e \in LSMEntry, k < x.key,
         NEW y, \A a : Tree(x.left, a) => Inserted(x.left, a, y, k, e)
  PROVE  Inserted(x, c, Rebalance(MemNode(x.key, x.entry, y, x.right), k), k, e)
<1>1. PICK p, ep, l, r, a, b :
        /\ NodeFacts(x, p, ep, l, r) /\ Tree(l, a) /\ Tree(r, b) /\ Apart(p, a, b)
        /\ c = Join(p, ep, a, b)
  BY NodeUnfolds
<1>2. /\ p \in LsmKey /\ ep \in LSMEntry /\ Even(l, r) /\ l.height \in Nat /\ r.height \in Nat
      /\ x.height = (IF l.height > r.height THEN l.height + 1 ELSE r.height + 1)
      /\ x.key = p /\ x.entry = ep /\ x.left = l /\ x.right = r
  BY <1>1 DEF NodeFacts
<1> DEFINE n == MemNode(p, ep, y, r)
           a2 == SetKey(a, k, e)
           c2 == SetKey(c, k, e)
<1>3. a \in MemContents /\ b \in MemContents
  BY <1>1, TreeOpens
<1>4. Apart(p, a2, b) /\ c2 = Join(p, ep, a2, b)
  BY <1>1, <1>2, <1>3, SetAside
<1>5. /\ Tree(y, a2) /\ y.height \in Nat
      /\ \/ y.height = l.height
         \/ y.height = l.height + 1 /\ (l = Nil \/ Leans(y, k))
  BY <1>1, <1>2 DEF Inserted
<1>6. /\ n.key = p /\ n.entry = ep /\ n.left = y /\ n.right = r
      /\ n.height = (IF y.height > r.height THEN y.height + 1 ELSE r.height + 1)
  BY <1>2, <1>5, NodeParts
<1>7. avl_balance(n) = y.height - r.height
  BY <1>6 DEF avl_balance
<1> HIDE DEF a2, c2
<1>8. l.height - r.height <= 1 /\ r.height - l.height <= 1
  BY <1>2 DEF Even
<1>9. k \in Int /\ p \in Int /\ k < p
  BY <1>2, LsmAssumption
<1>10. ~ (avl_balance(n) < -1)
  BY <1>2, <1>5, <1>7, <1>8
<1> HIDE DEF n
<1>11. CASE avl_balance(n) <= 1
  <2>1. Rebalance(n, k) = n
    BY <1>10, <1>11, <1>7, <1>2, <1>5 DEF Rebalance
  <2>2. Even(y, r)
    BY <1>2, <1>5, <1>7, <1>8, <1>11 DEF Even
  <2>3. Tree(n, c2)
    BY <1>1, <1>2, <1>4, <1>5, <2>2, TreeMakes DEF n
  <2>4. /\ n.height \in Nat
        /\ n.height = x.height \/ (n.height = x.height + 1 /\ y.height = r.height + 1)
    <3>1. /\ y.height \in Nat /\ y.height <= r.height + 1
          /\ (y.height = l.height \/ y.height = l.height + 1)
      BY <1>2, <1>5, <1>7, <1>11
    <3>2. /\ n.height = (IF y.height > r.height THEN y.height + 1 ELSE r.height + 1)
          /\ x.height = (IF l.height > r.height THEN l.height + 1 ELSE r.height + 1)
          /\ l.height \in Nat /\ r.height \in Nat
      BY <1>2, <1>6
    <3> QED
      BY <1>8, <3>1, <3>2
  <2>5. y.height = r.height + 1 => Leans(n, k)
    BY <1>6, <1>9 DEF Leans
  <2>6. Inserted(x, c, n, k, e)
    BY <2>3, <2>4, <2>5 DEF Inserted, c2
  <2> QED
    BY <1>2, <2>1, <2>6 DEF n
<1>12. CASE avl_balance(n) > 1
  <2>1. l.height = r.height + 1 /\ y.height = r.height + 2 /\ x.height = r.height + 2
    BY <1>2, <1>5, <1>7, <1>8, <1>12
  <2>2. l # Nil /\ y # Nil
    <3>1. Nil.height = 0
      BY DEF Nil
    <3> QED
      BY <1>2, <2>1, <3>1
  <2>3. Leans(y, k)
    BY <1>2, <1>5, <2>1, <2>2
  <2>4. PICK q, eq, yl, yr, u, v :
          /\ NodeFacts(y, q, eq, yl, yr) /\ Tree(yl, u) /\ Tree(yr, v) /\ Apart(q, u, v)
          /\ a2 = Join(q, eq, u, v)
    BY <1>5, <2>2, NodeUnfolds
  <2>5. /\ q \in LsmKey /\ eq \in LSMEntry /\ yl.height \in Nat /\ yr.height \in Nat
        /\ y.height = (IF yl.height > yr.height THEN yl.height + 1 ELSE yr.height + 1)
        /\ y.key = q /\ y.entry = eq /\ y.left = yl /\ y.right = yr
    BY <2>4 DEF NodeFacts
  <2>6. q # k /\ (k < q => yl.height = yr.height + 1) /\ (k > q => yr.height = yl.height + 1)
    BY <2>3, <2>5 DEF Leans
  <2>7. q \in Int
    BY <2>5, LsmAssumption
  <2>8. CASE k < q
    <3> DEFINE s == MemNode(p, ep, yr, r)
               t == MemNode(q, eq, yl, s)
    <3>1. Rebalance(n, k) = t
      <4>1. Rebalance(n, k) = avl_rotate_right(n)
        BY <1>6, <1>12, <2>5, <2>8 DEF Rebalance
      <4> QED
        BY <1>6, <2>5, <4>1 DEF avl_rotate_right
    <3>2. yl.height = r.height + 1 /\ yr.height = r.height
      BY <1>2, <2>1, <2>5, <2>6, <2>8
    <3>3. s.height = r.height + 1
      <4>1. s.height = (IF yr.height > r.height THEN yr.height + 1 ELSE r.height + 1)
        BY <1>2, <2>5, NodeParts
      <4> HIDE DEF s
      <4> QED
        BY <1>2, <3>2, <4>1
    <3>4. Even(yr, r) /\ Even(yl, s)
      <4> HIDE DEF s
      <4> QED
        BY <1>2, <3>2, <3>3 DEF Even
    <3>5. Tree(t, c2)
      <4>1. Apart(p, Join(q, eq, u, v), b)
        BY <1>4, <2>4
      <4>2. Tree(t, Join(p, ep, Join(q, eq, u, v), b))
        BY <1>1, <1>2, <2>4, <2>5, <3>4, <4>1, TurnRight
      <4> QED
        BY <1>4, <2>4, <4>2
    <3>6. t.height = r.height + 2
      <4> HIDE DEF s
      <4>1. s.height \in Nat
        BY <1>2, <3>3
      <4>2. t.height = (IF yl.height > s.height THEN yl.height + 1 ELSE s.height + 1)
        BY <2>5, <4>1, NodeParts
      <4> HIDE DEF t
      <4> QED
        BY <1>2, <3>2, <3>3, <4>2
    <3> HIDE DEF s, t
    <3>7. Inserted(x, c, t, k, e)
      BY <1>2, <2>1, <3>5, <3>6 DEF Inserted, c2
    <3> QED
      BY <1>2, <3>1, <3>7 DEF n
  <2>9. CASE k > q
    <3>1. yr.height = r.height + 1 /\ yl.height = r.height
      BY <1>2, <2>1, <2>5, <2>6, <2>9
    <3>2. yr # Nil
      <4>1. Nil.height = 0
        BY DEF Nil
      <4> QED
        BY <1>2, <3>1, <4>1
    <3>3. PICK m, em, ml, mr, f, g :
            /\ NodeFacts(yr, m, em, ml, mr) /\ Tree(ml, f) /\ Tree(mr, g) /\ Apart(m, f, g)
            /\ v = Join(m, em, f, g)
      BY <2>4, <3>2, NodeUnfolds
    <3>4. /\ m \in LsmKey /\ em \in LSMEntry /\ ml.height \in Nat /\ mr.height \in Nat
          /\ yr.height = (IF ml.height > mr.height THEN ml.height + 1 ELSE mr.height + 1)
          /\ yr.key = m /\ yr.entry = em /\ yr.left = ml /\ yr.right = mr
          /\ ml.height - mr.height <= 1 /\ mr.height - ml.height <= 1
      BY <3>3 DEF NodeFacts, Even
    <3> DEFINE s == MemNode(q, eq, yl, ml)
               w == MemNode(p, ep, mr, r)
               t == MemNode(m, em, s, w)
    <3>5. Rebalance(n, k) = t
      <4>1. ~ (k < q)
        BY <1>9, <2>7, <2>9
      <4>2. Rebalance(n, k) = avl_rotate_right([n EXCEPT !.left = avl_rotate_left(n.left)])
        BY <1>6, <1>10, <1>12, <2>5, <2>9, <4>1 DEF Rebalance
      <4> DEFINE y2 == MemNode(m, em, s, mr)
                 n2 == [n EXCEPT !.left = avl_rotate_left(n.left)]
      <4>3. avl_rotate_left(n.left) = y2
        BY <1>6, <2>5, <3>4 DEF avl_rotate_left
      <4>4. n2.left = y2 /\ n2.key = p /\ n2.entry = ep /\ n2.right = r
        <5> HIDE DEF y2
        <5>1. [n EXCEPT !.left = y2].left = y2 /\ [n EXCEPT !.left = y2].key = n.key
              /\ [n EXCEPT !.left = y2].entry = n.entry /\ [n EXCEPT !.left = y2].right = n.right
          BY DEF n, MemNode
        <5> QED
          BY <1>6, <4>3, <5>1
      <4>5. y2.key = m /\ y2.entry = em /\ y2.left = s /\ y2.right = mr
        <5> HIDE DEF s
        <5> QED
          BY DEF MemNode
      <4> HIDE DEF n2, y2, s
      <4>6. avl_rotate_right(n2) = t
        BY <4>4, <4>5 DEF avl_rotate_right
      <4> QED
        BY <4>2, <4>6 DEF n2
    <3>6. s.height = r.height + 1 /\ w.height = r.height + 1
      <4>1. s.height = (IF yl.height > ml.height THEN yl.height + 1 ELSE ml.height + 1)
        BY <2>5, <3>4, NodeParts
      <4>2. w.height = (IF mr.height > r.height THEN mr.height + 1 ELSE r.height + 1)
        BY <1>2, <3>4, NodeParts
      <4> HIDE DEF s, w
      <4> QED
        BY <1>2, <2>5, <3>1, <3>4, <4>1, <4>2
    <3>7. Even(yl, ml) /\ Even(mr, r) /\ Even(s, w)
      <4> HIDE DEF s, w
      <4> QED
        BY <1>2, <2>5, <3>1, <3>4, <3>6 DEF Even
    <3>8. Tree(t, c2)
      <4>1. Apart(q, u, Join(m, em, f, g)) /\ Apart(p, Join(q, eq, u, Join(m, em, f, g)), b)
        BY <1>4, <2>4, <3>3
      <4>2. Tree(t, Join(p, ep, Join(q, eq, u, Join(m, em, f, g)), b))
        BY <1>1, <1>2, <2>4, <2>5, <3>3, <3>4, <3>7, <4>1, TurnLeftRight
      <4> QED
        BY <1>4, <2>4, <3>3, <4>2
    <3>9. t.height = r.height + 2
      <4> HIDE DEF s, w
      <4>1. s.height \in Nat /\ w.height \in Nat
        BY <1>2, <3>6
      <4>2. t.height = (IF s.height > w.height THEN s.height + 1 ELSE w.height + 1)
        BY <4>1, NodeParts
      <4> HIDE DEF t
      <4> QED
        BY <1>2, <3>6, <4>2
    <3> HIDE DEF s, w, t
    <3>10. Inserted(x, c, t, k, e)
      BY <1>2, <2>1, <3>8, <3>9 DEF Inserted, c2
    <3> QED
      BY <1>2, <3>5, <3>10 DEF n
  <2> QED
    BY <1>9, <2>6, <2>7, <2>8, <2>9
<1>13. avl_balance(n) \in Int
  BY <1>2, <1>5, <1>7
<1> QED
  BY <1>11, <1>12, <1>13

LEMMA InsertsRight ==
  ASSUME NEW x, NEW c, Tree(x, c), x # Nil, NEW k \in LsmKey, NEW e \in LSMEntry, k > x.key,
         NEW y, \A b : Tree(x.right, b) => Inserted(x.right, b, y, k, e)
  PROVE  Inserted(x, c, Rebalance(MemNode(x.key, x.entry, x.left, y), k), k, e)
<1>1. PICK p, ep, l, r, a, b :
        /\ NodeFacts(x, p, ep, l, r) /\ Tree(l, a) /\ Tree(r, b) /\ Apart(p, a, b)
        /\ c = Join(p, ep, a, b)
  BY NodeUnfolds
<1>2. /\ p \in LsmKey /\ ep \in LSMEntry /\ Even(l, r) /\ l.height \in Nat /\ r.height \in Nat
      /\ x.height = (IF l.height > r.height THEN l.height + 1 ELSE r.height + 1)
      /\ x.key = p /\ x.entry = ep /\ x.left = l /\ x.right = r
  BY <1>1 DEF NodeFacts
<1> DEFINE n == MemNode(p, ep, l, y)
           b2 == SetKey(b, k, e)
           c2 == SetKey(c, k, e)
<1>3. a \in MemContents /\ b \in MemContents
  BY <1>1, TreeOpens
<1>4. Apart(p, a, b2) /\ c2 = Join(p, ep, a, b2)
  BY <1>1, <1>2, <1>3, SetAside
<1>5. /\ Tree(y, b2) /\ y.height \in Nat
      /\ \/ y.height = r.height
         \/ y.height = r.height + 1 /\ (r = Nil \/ Leans(y, k))
  BY <1>1, <1>2 DEF Inserted
<1>6. /\ n.key = p /\ n.entry = ep /\ n.left = l /\ n.right = y
      /\ n.height = (IF l.height > y.height THEN l.height + 1 ELSE y.height + 1)
  BY <1>2, <1>5, NodeParts
<1>7. avl_balance(n) = l.height - y.height
  BY <1>6 DEF avl_balance
<1> HIDE DEF b2, c2
<1>8. l.height - r.height <= 1 /\ r.height - l.height <= 1
  BY <1>2 DEF Even
<1>9. k \in Int /\ p \in Int /\ k > p
  BY <1>2, LsmAssumption
<1>10. ~ (avl_balance(n) > 1)
  BY <1>2, <1>5, <1>7, <1>8
<1> HIDE DEF n
<1>11. CASE ~ (avl_balance(n) < -1)
  <2>1. Rebalance(n, k) = n
    BY <1>10, <1>11, <1>7, <1>2, <1>5 DEF Rebalance
  <2>2. Even(l, y)
    BY <1>2, <1>5, <1>7, <1>8, <1>11 DEF Even
  <2>3. Tree(n, c2)
    BY <1>1, <1>2, <1>4, <1>5, <2>2, TreeMakes DEF n
  <2>4. /\ n.height \in Nat
        /\ n.height = x.height \/ (n.height = x.height + 1 /\ y.height = l.height + 1)
    <3>1. /\ y.height \in Nat /\ y.height <= l.height + 1
          /\ (y.height = r.height \/ y.height = r.height + 1)
      BY <1>2, <1>5, <1>7, <1>11
    <3>2. /\ n.height = (IF l.height > y.height THEN l.height + 1 ELSE y.height + 1)
          /\ x.height = (IF l.height > r.height THEN l.height + 1 ELSE r.height + 1)
          /\ l.height \in Nat /\ r.height \in Nat
      BY <1>2, <1>6
    <3> QED
      BY <1>8, <3>1, <3>2
  <2>5. y.height = l.height + 1 => Leans(n, k)
    BY <1>6, <1>9 DEF Leans
  <2>6. Inserted(x, c, n, k, e)
    BY <2>3, <2>4, <2>5 DEF Inserted, c2
  <2> QED
    BY <1>2, <2>1, <2>6 DEF n
<1>12. CASE avl_balance(n) < -1
  <2>1. r.height = l.height + 1 /\ y.height = l.height + 2 /\ x.height = l.height + 2
    BY <1>2, <1>5, <1>7, <1>8, <1>12
  <2>2. r # Nil /\ y # Nil
    <3>1. Nil.height = 0
      BY DEF Nil
    <3> QED
      BY <1>2, <2>1, <3>1
  <2>3. Leans(y, k)
    BY <1>2, <1>5, <2>1, <2>2
  <2>4. PICK q, eq, yl, yr, u, v :
          /\ NodeFacts(y, q, eq, yl, yr) /\ Tree(yl, u) /\ Tree(yr, v) /\ Apart(q, u, v)
          /\ b2 = Join(q, eq, u, v)
    BY <1>5, <2>2, NodeUnfolds
  <2>5. /\ q \in LsmKey /\ eq \in LSMEntry /\ yl.height \in Nat /\ yr.height \in Nat
        /\ y.height = (IF yl.height > yr.height THEN yl.height + 1 ELSE yr.height + 1)
        /\ y.key = q /\ y.entry = eq /\ y.left = yl /\ y.right = yr
    BY <2>4 DEF NodeFacts
  <2>6. q # k /\ (k < q => yl.height = yr.height + 1) /\ (k > q => yr.height = yl.height + 1)
    BY <2>3, <2>5 DEF Leans
  <2>7. q \in Int
    BY <2>5, LsmAssumption
  <2>8. CASE k > q
    <3> DEFINE s == MemNode(p, ep, l, yl)
               t == MemNode(q, eq, s, yr)
    <3>1. Rebalance(n, k) = t
      <4>1. Rebalance(n, k) = avl_rotate_left(n)
        BY <1>6, <1>10, <1>12, <2>5, <2>8 DEF Rebalance
      <4> QED
        BY <1>6, <2>5, <4>1 DEF avl_rotate_left
    <3>2. yr.height = l.height + 1 /\ yl.height = l.height
      BY <1>2, <2>1, <2>5, <2>6, <2>8
    <3>3. s.height = l.height + 1
      <4>1. s.height = (IF l.height > yl.height THEN l.height + 1 ELSE yl.height + 1)
        BY <1>2, <2>5, NodeParts
      <4> HIDE DEF s
      <4> QED
        BY <1>2, <3>2, <4>1
    <3>4. Even(l, yl) /\ Even(s, yr)
      <4> HIDE DEF s
      <4> QED
        BY <1>2, <3>2, <3>3 DEF Even
    <3>5. Tree(t, c2)
      <4>1. Apart(p, a, Join(q, eq, u, v))
        BY <1>4, <2>4
      <4>2. Tree(t, Join(p, ep, a, Join(q, eq, u, v)))
        BY <1>1, <1>2, <2>4, <2>5, <3>4, <4>1, TurnLeft
      <4> QED
        BY <1>4, <2>4, <4>2
    <3>6. t.height = l.height + 2
      <4> HIDE DEF s
      <4>1. s.height \in Nat
        BY <1>2, <3>3
      <4>2. t.height = (IF s.height > yr.height THEN s.height + 1 ELSE yr.height + 1)
        BY <2>5, <4>1, NodeParts
      <4> HIDE DEF t
      <4> QED
        BY <1>2, <3>2, <3>3, <4>2
    <3> HIDE DEF s, t
    <3>7. Inserted(x, c, t, k, e)
      BY <1>2, <2>1, <3>5, <3>6 DEF Inserted, c2
    <3> QED
      BY <1>2, <3>1, <3>7 DEF n
  <2>9. CASE k < q
    <3>1. yl.height = l.height + 1 /\ yr.height = l.height
      BY <1>2, <2>1, <2>5, <2>6, <2>9
    <3>2. yl # Nil
      <4>1. Nil.height = 0
        BY DEF Nil
      <4> QED
        BY <1>2, <3>1, <4>1
    <3>3. PICK m, em, ml, mr, f, g :
            /\ NodeFacts(yl, m, em, ml, mr) /\ Tree(ml, f) /\ Tree(mr, g) /\ Apart(m, f, g)
            /\ u = Join(m, em, f, g)
      BY <2>4, <3>2, NodeUnfolds
    <3>4. /\ m \in LsmKey /\ em \in LSMEntry /\ ml.height \in Nat /\ mr.height \in Nat
          /\ yl.height = (IF ml.height > mr.height THEN ml.height + 1 ELSE mr.height + 1)
          /\ yl.key = m /\ yl.entry = em /\ yl.left = ml /\ yl.right = mr
          /\ ml.height - mr.height <= 1 /\ mr.height - ml.height <= 1
      BY <3>3 DEF NodeFacts, Even
    <3> DEFINE s == MemNode(p, ep, l, ml)
               w == MemNode(q, eq, mr, yr)
               t == MemNode(m, em, s, w)
    <3>5. Rebalance(n, k) = t
      <4>1. ~ (k > q)
        BY <1>9, <2>7, <2>9
      <4>2. Rebalance(n, k) = avl_rotate_left([n EXCEPT !.right = avl_rotate_right(n.right)])
        BY <1>6, <1>10, <1>12, <2>5, <2>9, <4>1 DEF Rebalance
      <4> DEFINE y2 == MemNode(m, em, ml, w)
                 n2 == [n EXCEPT !.right = avl_rotate_right(n.right)]
      <4>3. avl_rotate_right(n.right) = y2
        BY <1>6, <2>5, <3>4 DEF avl_rotate_right
      <4>4. n2.right = y2 /\ n2.key = p /\ n2.entry = ep /\ n2.left = l
        <5> HIDE DEF y2
        <5>1. [n EXCEPT !.right = y2].right = y2 /\ [n EXCEPT !.right = y2].key = n.key
              /\ [n EXCEPT !.right = y2].entry = n.entry /\ [n EXCEPT !.right = y2].left = n.left
          BY DEF n, MemNode
        <5> QED
          BY <1>6, <4>3, <5>1
      <4>5. y2.key = m /\ y2.entry = em /\ y2.left = ml /\ y2.right = w
        <5> HIDE DEF w
        <5> QED
          BY DEF MemNode
      <4> HIDE DEF n2, y2, w
      <4>6. avl_rotate_left(n2) = t
        BY <4>4, <4>5 DEF avl_rotate_left
      <4> QED
        BY <4>2, <4>6 DEF n2
    <3>6. s.height = l.height + 1 /\ w.height = l.height + 1
      <4>1. s.height = (IF l.height > ml.height THEN l.height + 1 ELSE ml.height + 1)
        BY <1>2, <3>4, NodeParts
      <4>2. w.height = (IF mr.height > yr.height THEN mr.height + 1 ELSE yr.height + 1)
        BY <2>5, <3>4, NodeParts
      <4> HIDE DEF s, w
      <4> QED
        BY <1>2, <2>5, <3>1, <3>4, <4>1, <4>2
    <3>7. Even(l, ml) /\ Even(mr, yr) /\ Even(s, w)
      <4> HIDE DEF s, w
      <4> QED
        BY <1>2, <2>5, <3>1, <3>4, <3>6 DEF Even
    <3>8. Tree(t, c2)
      <4>1. Apart(q, Join(m, em, f, g), v) /\ Apart(p, a, Join(q, eq, Join(m, em, f, g), v))
        BY <1>4, <2>4, <3>3
      <4>2. Tree(t, Join(p, ep, a, Join(q, eq, Join(m, em, f, g), v)))
        BY <1>1, <1>2, <2>4, <2>5, <3>3, <3>4, <3>7, <4>1, TurnRightLeft
      <4> QED
        BY <1>4, <2>4, <3>3, <4>2
    <3>9. t.height = l.height + 2
      <4> HIDE DEF s, w
      <4>1. s.height \in Nat /\ w.height \in Nat
        BY <1>2, <3>6
      <4>2. t.height = (IF s.height > w.height THEN s.height + 1 ELSE w.height + 1)
        BY <4>1, NodeParts
      <4> HIDE DEF t
      <4> QED
        BY <1>2, <3>6, <4>2
    <3> HIDE DEF s, w, t
    <3>10. Inserted(x, c, t, k, e)
      BY <1>2, <2>1, <3>8, <3>9 DEF Inserted, c2
    <3> QED
      BY <1>2, <3>5, <3>10 DEF n
  <2> QED
    BY <1>9, <2>6, <2>7, <2>8, <2>9
<1> QED
  BY <1>11, <1>12

LEMMA BackInserts ==
  ASSUME NEW x, NEW c, Tree(x, c), NEW k \in LsmKey, NEW e \in LSMEntry, NEW y,
         x # Nil /\ x.key # k =>
           \A a : Tree(Below(x, k), a) => Inserted(Below(x, k), a, y, k, e)
  PROVE  Inserted(x, c, Back(x, y, k, e), k, e)
<1>1. CASE x = Nil
  <2>1. Nil.height = 0 /\ Nil.height \in Nat
    BY DEF Nil
  <2>2. c = Bare
    BY <1>1, <2>1, NodeIsTall
  <2>3. Bare \in MemContents /\ Apart(k, Bare, Bare) /\ Even(Nil, Nil)
    BY <2>1, LsmAssumption DEF Bare, MemContents, Apart, Even
  <2>4. SetKey(Bare, k, e) = Join(k, e, Bare, Bare)
    <3>1. SetKey(Bare, k, e) \in MemContents /\ Join(k, e, Bare, Bare) \in MemContents
      BY <2>3, SetIsContents, JoinIsContents
    <3>2. \A z \in LsmKey : SetKey(Bare, k, e)[z] = IF z = k THEN {e} ELSE Bare[z]
      BY <2>3, SetIsContents
    <3>3. \A z \in LsmKey : Join(k, e, Bare, Bare)[z] = IF z = k THEN {e} ELSE Bare[z]
      BY DEF Join
    <3>4. \A z \in LsmKey : SetKey(Bare, k, e)[z] = Join(k, e, Bare, Bare)[z]
      BY <3>2, <3>3
    <3> QED
      BY <3>1, <3>4 DEF MemContents
  <2> DEFINE t == MemNode(k, e, Nil, Nil)
  <2>5. Tree(t, SetKey(Bare, k, e))
    BY <2>3, <2>4, NilIsTree, TreeMakes
  <2>6. t.height = 1
    <3>1. t.height = (IF Nil.height > Nil.height THEN Nil.height + 1 ELSE Nil.height + 1)
      BY <2>1, NodeParts
    <3> HIDE DEF t
    <3> QED
      BY <2>1, <3>1
  <2>7. Back(x, y, k, e) = t
    BY <1>1 DEF Back
  <2> HIDE DEF t
  <2> QED
    BY <1>1, <2>1, <2>2, <2>5, <2>6, <2>7 DEF Inserted
<1>2. CASE x # Nil /\ x.key = k
  <2>1. PICK p, ep, l, r, a, b :
          /\ NodeFacts(x, p, ep, l, r) /\ Tree(l, a) /\ Tree(r, b) /\ Apart(p, a, b)
          /\ c = Join(p, ep, a, b)
    BY <1>2, NodeUnfolds
  <2>2. /\ x = MemNode(p, ep, l, r) /\ p = k /\ ep \in LSMEntry /\ Even(l, r)
        /\ l.height \in Nat /\ r.height \in Nat /\ x.height \in Nat
    BY <1>2, <2>1 DEF NodeFacts
  <2> DEFINE t == MemNode(k, e, l, r)
  <2>3. Back(x, y, k, e) = t
    <3>1. Back(x, y, k, e) = [x EXCEPT !.entry = e]
      BY <1>2 DEF Back
    <3> QED
      BY <2>2, <3>1 DEF MemNode
  <2>4. a \in MemContents /\ b \in MemContents
    BY <2>1, TreeOpens
  <2>5. SetKey(c, k, e) = Join(k, e, a, b)
    BY <2>1, <2>2, <2>4, SetHere
  <2>6. Tree(t, SetKey(c, k, e))
    BY <2>1, <2>2, <2>5, TreeMakes
  <2>7. t.height = x.height
    BY <2>2 DEF MemNode
  <2> HIDE DEF t
  <2> QED
    BY <2>2, <2>3, <2>6, <2>7 DEF Inserted
<1>3. CASE x # Nil /\ x.key # k
  <2>1. x.key \in Int /\ k \in Int
    BY <1>3, NodeOpens, LsmAssumption
  <2>2. CASE k < x.key
    <3>1. Below(x, k) = x.left
      BY <1>3, <2>2 DEF Below
    <3>2. Back(x, y, k, e) = Rebalance(MemNode(x.key, x.entry, y, x.right), k)
      BY <1>3, <2>2 DEF Back
    <3> QED
      BY <1>3, <2>2, <3>1, <3>2, InsertsLeft
  <2>3. CASE k > x.key
    <3>1. Below(x, k) = x.right
      BY <1>3, <2>1, <2>3 DEF Below
    <3>2. Back(x, y, k, e) = Rebalance(MemNode(x.key, x.entry, x.left, y), k)
      BY <1>3, <2>1, <2>3 DEF Back
    <3> QED
      BY <1>3, <2>3, <3>1, <3>2, InsertsRight
  <2> QED
    BY <1>3, <2>1, <2>2, <2>3
<1> QED
  BY <1>1, <1>2, <1>3

\* The way back as a loop.
BackRun(n, k, e, f) ==
  f = [h \in 0 .. n.height |-> Back(Path(n, k)[n.height - h], IF h = 0 THEN Nil ELSE f[h - 1], k, e)]

LEMMA BackUnfolds ==
  ASSUME NEW n, NEW k, NEW e, n.height \in Nat
  PROVE  \E f : /\ BackRun(n, k, e, f)
                /\ memtable_insert_node(n, k, e) = f[n.height]
<1> DEFINE H == n.height
           at == Path(n, k)
           Round(f, h) == Back(at[H - h], IF h = 0 THEN Nil ELSE f[h - 1], k, e)
           Upto(f, m) == f = [h \in 0 .. m |-> Round(f, h)]
           Good == {m \in 0 .. H : \E f : Upto(f, m)}
<1>1. H \in Nat
  OBVIOUS
<1>2. 0 \in Good
  <2> DEFINE f == [h \in 0 .. 0 |-> Back(at[H - h], Nil, k, e)]
  <2>1. \A h \in 0 .. 0 : h = 0
    OBVIOUS
  <2>2. \A g : [h \in 0 .. 0 |-> Round(g, h)] = f
    BY <2>1
  <2> HIDE DEF f, Round
  <2>3. Upto(f, 0)
    BY <2>2
  <2> HIDE DEF Upto
  <2> QED
    BY <1>1, <2>3
<1>3. ASSUME NEW m \in 1 .. H, m - 1 \in Good PROVE m \in Good
  <2>1. PICK f : Upto(f, m - 1)
    BY <1>3
  <2> DEFINE v == Round(f, m)
             g == [h \in 0 .. m |-> IF h = m THEN v ELSE f[h]]
             w == [h \in 0 .. m |-> Round(g, h)]
  <2>2. ASSUME NEW h \in 0 .. m PROVE g[h] = w[h]
    <3>1. h # 0 => h - 1 \in 0 .. m /\ h - 1 # m
      OBVIOUS
    <3>2. h # 0 => g[h - 1] = f[h - 1]
      BY <3>1
    <3>3. Round(g, h) = Round(f, h)
      BY <3>2
    <3>4. h # m => h \in 0 .. m - 1
      OBVIOUS
    <3>5. h # m => f[h] = Round(f, h)
      <4> HIDE DEF Round
      <4> QED
        BY <2>1, <3>4
    <3> HIDE DEF Round
    <3> QED
      BY <3>3, <3>5
  <2> HIDE DEF Round
  <2>3. g = w
    <3>2. g = [h \in 0 .. m |-> g[h]] /\ w = [h \in 0 .. m |-> w[h]]
      OBVIOUS
    <3> HIDE DEF g, w
    <3> QED
      BY <2>2, <3>2
  <2>4. Upto(g, m)
    BY <2>3
  <2> HIDE DEF Upto
  <2> QED
    BY <2>4
<1>4. H \in Good
  <2> HIDE DEF Good
  <2> QED
    BY <1>1, <1>2, <1>3, RoundsKeep
<1>5. PICK f : BackRun(n, k, e, f)
  BY <1>4 DEF BackRun
<1> DEFINE g == CHOOSE u : BackRun(n, k, e, u)
<1>6. memtable_insert_node(n, k, e) = g[n.height]
  BY DEF memtable_insert_node, BackRun
<1> HIDE DEF H, at, Round, Upto, Good
<1>7. BackRun(n, k, e, g)
  BY <1>5
<1> HIDE DEF g
<1> QED
  BY <1>6, <1>7

\* memtable_insert_node sets the entry of the key, in a tree that is again
\* balanced and in order.
LEMMA InsertPuts ==
  ASSUME NEW n, NEW c, Tree(n, c), NEW k \in LsmKey, NEW e \in LSMEntry
  PROVE  Tree(memtable_insert_node(n, k, e), SetKey(c, k, e))
<1> DEFINE H == n.height
           at == Path(n, k)
<1>1. H \in Nat
  BY TreeOpens
<1>2. at[0] = n /\ \A i \in 1 .. H : at[i] = Below(at[i - 1], k)
  BY <1>1, PathUnfolds
<1>3. \A i \in 0 .. H : OnWay(at[i], c, k, H - i)
  BY WayDown
<1>4. PICK f : BackRun(n, k, e, f) /\ memtable_insert_node(n, k, e) = f[n.height]
  BY <1>1, BackUnfolds
<1>5. \A h \in 0 .. H : f[h] = Back(at[H - h], IF h = 0 THEN Nil ELSE f[h - 1], k, e)
  BY <1>4 DEF BackRun
<1>6. memtable_insert_node(n, k, e) = f[H]
  BY <1>4
<1> HIDE DEF at
<1> DEFINE Done(h) == \A d : Tree(at[H - h], d) => Inserted(at[H - h], d, f[h], k, e)
           Good == {h \in 0 .. H : Done(h)}
<1>7. 0 \in Good
  <2> SUFFICES ASSUME NEW d, Tree(at[H], d) PROVE Inserted(at[H], d, f[0], k, e)
    BY <1>1
  <2>1. f[0] = Back(at[H], Nil, k, e)
    BY <1>1, <1>5
  <2>2. at[H] = Nil \/ at[H].key = k
    <3>1. OnWay(at[H], c, k, H - H)
      BY <1>1, <1>3
    <3>2. PICK u : Tree(at[H], u) /\ (at[H] = Nil \/ at[H].key = k \/ at[H].height <= 0)
      BY <1>1, <3>1 DEF OnWay
    <3> QED
      BY <3>2, NodeIsTall
  <2> QED
    BY <2>1, <2>2, BackInserts
<1>8. ASSUME NEW h \in 1 .. H, h - 1 \in Good PROVE h \in Good
  <2>1. /\ h \in 0 .. H /\ H - h \in 0 .. H /\ h # 0
        /\ H - (h - 1) \in 1 .. H /\ (H - (h - 1)) - 1 = H - h
    BY <1>1
  <2>2. at[H - (h - 1)] = Below(at[H - h], k)
    BY <1>2, <2>1
  <2>3. f[h] = Back(at[H - h], f[h - 1], k, e)
    BY <1>5, <2>1
  <2>4. \A d : Tree(Below(at[H - h], k), d) => Inserted(Below(at[H - h], k), d, f[h - 1], k, e)
    BY <1>8, <2>2
  <2>5. Done(h)
    BY <2>3, <2>4, BackInserts
  <2> QED
    BY <2>1, <2>5
<1> HIDE DEF Good
<1>9. H \in Good
  BY <1>1, <1>7, <1>8, RoundsKeep
<1>10. Done(H) /\ H - H = 0
  BY <1>1, <1>9 DEF Good
<1>11. Inserted(n, c, f[H], k, e)
  BY <1>2, <1>10
<1> QED
  BY <1>6, <1>11 DEF Inserted

-----------------------------------------------------------------------------
(* A table written from the memtable answers what the memtable answered. *)

Children(s) == UNION {{x.left, x.right} : x \in s \ {Nil}}
LevelRun(n, f) == f = [i \in 0 .. n.height |-> IF i = 0 THEN {n} ELSE Children(f[i - 1])]

LEMMA LevelUnfolds ==
  ASSUME NEW n, n.height \in Nat
  PROVE  \E f : LevelRun(n, f) /\ Subtrees(n) = UNION {f[i] : i \in 0 .. n.height}
<1> DEFINE H == n.height
           Upto(f, m) == f = [i \in 0 .. m |-> IF i = 0 THEN {n} ELSE Children(f[i - 1])]
           Good == {m \in 0 .. H : \E f : Upto(f, m)}
<1>1. H \in Nat
  OBVIOUS
<1>2. 0 \in Good
  <2>1. Upto([i \in 0 .. 0 |-> {n}], 0)
    OBVIOUS
  <2> HIDE DEF Upto
  <2> QED
    BY <1>1, <2>1
<1>3. ASSUME NEW m \in 1 .. H, m - 1 \in Good PROVE m \in Good
  <2>1. PICK f : Upto(f, m - 1)
    BY <1>3
  <2> DEFINE v == Children(f[m - 1])
             g == [i \in 0 .. m |-> IF i = m THEN v ELSE f[i]]
             w == [i \in 0 .. m |-> IF i = 0 THEN {n} ELSE Children(g[i - 1])]
  <2>2. ASSUME NEW i \in 0 .. m PROVE g[i] = w[i]
    <3>1. CASE i = m
      <4>1. m # 0 /\ m - 1 \in 0 .. m /\ m - 1 # m
        OBVIOUS
      <4>2. g[m - 1] = f[m - 1] /\ g[i] = v
        BY <3>1, <4>1
      <4>3. w[i] = Children(g[i - 1])
        BY <3>1, <4>1
      <4> QED
        BY <3>1, <4>2, <4>3
    <3>2. CASE i # m
      <4>1. i \in 0 .. m - 1 /\ (i # 0 => i - 1 \in 0 .. m - 1 /\ i - 1 \in 0 .. m /\ i - 1 # m)
        BY <3>2
      <4>2. f[i] = IF i = 0 THEN {n} ELSE Children(f[i - 1])
        BY <2>1, <4>1
      <4>3. g[i] = f[i] /\ (i # 0 => g[i - 1] = f[i - 1])
        BY <3>2, <4>1
      <4> QED
        BY <4>2, <4>3
    <3> QED
      BY <3>1, <3>2
  <2>3. g = w
    <3>1. g = [i \in 0 .. m |-> g[i]] /\ w = [i \in 0 .. m |-> w[i]]
      OBVIOUS
    <3> HIDE DEF g, w
    <3> QED
      BY <2>2, <3>1
  <2>4. Upto(g, m)
    BY <2>3
  <2> HIDE DEF Upto
  <2> QED
    BY <2>4
<1>4. H \in Good
  <2> HIDE DEF Good
  <2> QED
    BY <1>1, <1>2, <1>3, RoundsKeep
<1>5. PICK f : LevelRun(n, f)
  BY <1>4 DEF LevelRun
<1> DEFINE g == CHOOSE u : LevelRun(n, u)
<1>6. Subtrees(n) = UNION {g[i] : i \in 0 .. n.height}
  BY DEF Subtrees, LevelRun, Children
<1> HIDE DEF H, Upto, Good
<1>7. LevelRun(n, g)
  BY <1>5
<1> HIDE DEF g
<1> QED
  BY <1>6, <1>7

\* Subtrees lists the tree and, with a node, its two children.
LEMMA SubtreesClosed ==
  ASSUME NEW n, NEW c, Tree(n, c)
  PROVE  /\ n \in Subtrees(n)
         /\ \A x \in Subtrees(n) :
              x # Nil => x.left \in Subtrees(n) /\ x.right \in Subtrees(n)
<1> DEFINE H == n.height
           S == Subtrees(n)
<1>1. H \in Nat
  BY TreeOpens
<1>2. PICK f : LevelRun(n, f) /\ S = UNION {f[i] : i \in 0 .. H}
  BY <1>1, LevelUnfolds
<1>3. /\ f[0] = {n}
      /\ \A i \in 1 .. H : f[i] = Children(f[i - 1])
  <2>1. f = [i \in 0 .. H |-> IF i = 0 THEN {n} ELSE Children(f[i - 1])]
    BY <1>2 DEF LevelRun
  <2> HIDE DEF H, S
  <2>2. \A i \in 0 .. H : f[i] = IF i = 0 THEN {n} ELSE Children(f[i - 1])
    BY <2>1
  <2>3. 0 \in 0 .. H /\ \A i \in 1 .. H : i \in 0 .. H /\ i # 0
    BY <1>1
  <2> QED
    BY <2>2, <2>3
<1>4. \A y : y \in S <=> \E i \in 0 .. H : y \in f[i]
  BY <1>2
<1> DEFINE Low(i) == \A x \in f[i] : \E d : Tree(x, d) /\ (x = Nil \/ x.height <= H - i)
           Good == {i \in 0 .. H : Low(i)}
<1> HIDE DEF H, S
<1>5. 0 \in Good
  BY <1>1, <1>3 DEF H
<1>6. ASSUME NEW i \in 1 .. H, i - 1 \in Good PROVE i \in Good
  <2> SUFFICES ASSUME NEW y \in f[i] PROVE \E d : Tree(y, d) /\ (y = Nil \/ y.height <= H - i)
    BY <1>1
  <2>1. PICK x \in f[i - 1] \ {Nil} : y \in {x.left, x.right}
    BY <1>3 DEF Children
  <2>2. PICK d : Tree(x, d) /\ x.height <= H - (i - 1)
    BY <1>6, <2>1
  <2>3. PICK a, b : /\ Tree(x.left, a) /\ Tree(x.right, b)
                    /\ x.left.height \in Nat /\ x.right.height \in Nat /\ x.height \in Nat
                    /\ x.left.height < x.height /\ x.right.height < x.height
    BY <2>1, <2>2, NodeOpens
  <2>4. x.left.height <= H - i /\ x.right.height <= H - i
    BY <1>1, <2>2, <2>3
  <2> QED
    BY <2>1, <2>3, <2>4
<1> HIDE DEF Good
<1>7. \A i \in 0 .. H : Low(i)
  <2>1. \A i \in 0 .. H : i \in Good
    BY <1>1, <1>5, <1>6, RoundsKeep
  <2> QED
    BY <2>1 DEF Good
<1>8. ASSUME NEW x \in S, x # Nil PROVE x.left \in S /\ x.right \in S
  <2>1. PICK i \in 0 .. H : x \in f[i]
    BY <1>4
  <2>2. PICK d : Tree(x, d) /\ x.height <= H - i
    BY <1>7, <1>8, <2>1
  <2>3. x.left.height \in Nat /\ x.height \in Nat /\ x.left.height < x.height
    BY <1>8, <2>2, NodeOpens
  <2>4. i + 1 \in 1 .. H /\ i + 1 \in 0 .. H /\ (i + 1) - 1 = i
    BY <1>1, <2>2, <2>3
  <2>5. x.left \in f[i + 1] /\ x.right \in f[i + 1]
    BY <1>3, <1>8, <2>1, <2>4 DEF Children
  <2> QED
    BY <1>4, <2>4, <2>5
<1>9. n \in S
  <2>1. 0 \in 0 .. H
    BY <1>1
  <2> QED
    BY <1>3, <1>4, <2>1
<1> QED
  BY <1>8, <1>9 DEF S

WriteRun(n, f) ==
  f = [h \in 0 .. n.height |->
        [x \in Subtrees(n) |->
           IF x = Nil \/ h = 0 THEN <<>>
           ELSE f[h - 1][x.left] \o <<[key |-> x.key, entry |-> x.entry]>> \o f[h - 1][x.right]]]

LEMMA WriteUnfolds ==
  ASSUME NEW n, n.height \in Nat
  PROVE  \E f : WriteRun(n, f) /\ sstable_write_node(n) = f[n.height][n]
<1> DEFINE H == n.height
           S == Subtrees(n)
           Round(f, h) ==
             [x \in S |->
                IF x = Nil \/ h = 0 THEN <<>>
                ELSE f[h - 1][x.left] \o <<[key |-> x.key, entry |-> x.entry]>> \o f[h - 1][x.right]]
           Upto(f, m) == f = [h \in 0 .. m |-> Round(f, h)]
           Good == {m \in 0 .. H : \E f : Upto(f, m)}
<1>1. H \in Nat
  OBVIOUS
<1>2. 0 \in Good
  <2> DEFINE f == [h \in 0 .. 0 |-> [x \in S |-> <<>>]]
  <2>1. \A h \in 0 .. 0 : h = 0
    OBVIOUS
  <2>2. \A g : [h \in 0 .. 0 |-> Round(g, h)] = f
    <3>1. ASSUME NEW g PROVE [h \in 0 .. 0 |-> Round(g, h)] = f
      <4>1. Round(g, 0) = [x \in S |-> <<>>]
        OBVIOUS
      <4> HIDE DEF Round
      <4> QED
        BY <2>1, <4>1
    <3> HIDE DEF Round, f
    <3> QED
      BY <3>1
  <2> HIDE DEF f, Round
  <2>3. Upto(f, 0)
    BY <2>2
  <2> HIDE DEF Upto
  <2> QED
    BY <1>1, <2>3
<1>3. ASSUME NEW m \in 1 .. H, m - 1 \in Good PROVE m \in Good
  <2>1. PICK f : Upto(f, m - 1)
    BY <1>3
  <2> DEFINE v == Round(f, m)
             g == [h \in 0 .. m |-> IF h = m THEN v ELSE f[h]]
             w == [h \in 0 .. m |-> Round(g, h)]
  <2>2. ASSUME NEW h \in 0 .. m PROVE g[h] = w[h]
    <3>1. h # 0 => h - 1 \in 0 .. m /\ h - 1 # m
      OBVIOUS
    <3>2. h # 0 => g[h - 1] = f[h - 1]
      BY <3>1
    <3>3. Round(g, h) = Round(f, h)
      <4> HIDE DEF g
      <4>1. CASE h = 0
        BY <4>1
      <4>2. CASE h # 0
        <5>1. g[h - 1] = f[h - 1]
          BY <3>2, <4>2
        <5> QED
          BY <5>1
      <4> QED
        BY <4>1, <4>2
    <3>4. h # m => h \in 0 .. m - 1
      OBVIOUS
    <3>5. h # m => f[h] = Round(f, h)
      <4> HIDE DEF Round
      <4> QED
        BY <2>1, <3>4
    <3> HIDE DEF Round
    <3> QED
      BY <3>3, <3>5
  <2> HIDE DEF Round
  <2>3. g = w
    <3>1. g = [h \in 0 .. m |-> g[h]] /\ w = [h \in 0 .. m |-> w[h]]
      OBVIOUS
    <3> HIDE DEF g, w
    <3> QED
      BY <2>2, <3>1
  <2>4. Upto(g, m)
    BY <2>3
  <2> HIDE DEF Upto
  <2> QED
    BY <2>4
<1>4. H \in Good
  <2> HIDE DEF Good
  <2> QED
    BY <1>1, <1>2, <1>3, RoundsKeep
<1>5. PICK f : WriteRun(n, f)
  BY <1>4 DEF WriteRun
<1> DEFINE g == CHOOSE u : WriteRun(n, u)
<1>6. sstable_write_node(n) = g[n.height][n]
  BY DEF sstable_write_node, WriteRun
<1> HIDE DEF H, S, Round, Upto, Good
<1>7. WriteRun(n, g)
  BY <1>5
<1> HIDE DEF g
<1> QED
  BY <1>6, <1>7

\* A file holds the contents c.
TableRecord == [key : LsmKey, entry : LSMEntry]
Lists(file, c) ==
  /\ file \in Seq(TableRecord)
  /\ \A i \in 1 .. Len(file) : c[file[i].key] = {file[i].entry}
  /\ \A k \in LsmKey : c[k] # {} => \E i \in 1 .. Len(file) : file[i].key = k

LEMMA ListsNone == Lists(<<>>, Bare)
<1>1. <<>> \in Seq(TableRecord) /\ Len(<<>>) = 0
  BY LenProperties
<1>2. \A k \in LsmKey : Bare[k] = {}
  BY DEF Bare
<1> QED
  BY <1>1, <1>2 DEF Lists

LEMMA ListsJoin ==
  ASSUME NEW k \in LsmKey, NEW e \in LSMEntry, NEW a, NEW b, Apart(k, a, b),
         NEW f, Lists(f, a), NEW g, Lists(g, b)
  PROVE  Lists(f \o <<[key |-> k, entry |-> e]>> \o g, Join(k, e, a, b))
<1> DEFINE r == [key |-> k, entry |-> e]
           one == <<r>>
           u == f \o one
           s == u \o g
           c == Join(k, e, a, b)
<1>1. r \in TableRecord /\ r.key = k /\ r.entry = e
  BY DEF TableRecord
<1>2. /\ f \in Seq(TableRecord) /\ g \in Seq(TableRecord)
      /\ Len(f) \in Nat /\ Len(g) \in Nat
      /\ \A i \in 1 .. Len(f) : a[f[i].key] = {f[i].entry} /\ f[i] \in TableRecord
      /\ \A i \in 1 .. Len(g) : b[g[i].key] = {g[i].entry} /\ g[i] \in TableRecord
      /\ \A z \in LsmKey : a[z] # {} => \E i \in 1 .. Len(f) : f[i].key = z
      /\ \A z \in LsmKey : b[z] # {} => \E i \in 1 .. Len(g) : g[i].key = z
  BY LenProperties, ElementOfSeq DEF Lists
<1> HIDE DEF r
<1>3. one \in Seq(TableRecord) /\ Len(one) = 1 /\ one[1] = r
  BY <1>1
<1> HIDE DEF one
<1>4. /\ u \in Seq(TableRecord) /\ Len(u) = Len(f) + 1
      /\ \A i \in 1 .. Len(f) + 1 : u[i] = IF i <= Len(f) THEN f[i] ELSE one[i - Len(f)]
  <2>1. /\ u \in Seq(TableRecord) /\ Len(u) = Len(f) + Len(one)
        /\ \A i \in 1 .. Len(f) + Len(one) : u[i] = IF i <= Len(f) THEN f[i] ELSE one[i - Len(f)]
    <3>1. f \in Seq(TableRecord) /\ one \in Seq(TableRecord)
      BY <1>2, <1>3
    <3> QED
      BY <3>1, ConcatProperties
  <2> HIDE DEF u
  <2> QED
    BY <1>3, <2>1
<1> HIDE DEF u
<1>5. /\ s \in Seq(TableRecord) /\ Len(s) = Len(u) + Len(g)
      /\ \A i \in 1 .. Len(u) + Len(g) : s[i] = IF i <= Len(u) THEN u[i] ELSE g[i - Len(u)]
  <2>1. u \in Seq(TableRecord) /\ g \in Seq(TableRecord)
    BY <1>2, <1>4
  <2> QED
    BY <2>1, ConcatProperties
<1> HIDE DEF s, c
<1>6. \A i \in 1 .. Len(f) : i \in 1 .. Len(s) /\ s[i] = f[i]
  BY <1>2, <1>4, <1>5
<1>7. Len(f) + 1 \in 1 .. Len(s) /\ s[Len(f) + 1] = r
  <2>1. /\ Len(f) + 1 \in 1 .. Len(u) + Len(g) /\ Len(f) + 1 <= Len(u)
        /\ Len(f) + 1 \in 1 .. Len(f) + 1 /\ ~ (Len(f) + 1 <= Len(f)) /\ (Len(f) + 1) - Len(f) = 1
    BY <1>2, <1>4
  <2>2. s[Len(f) + 1] = u[Len(f) + 1]
    BY <1>5, <2>1
  <2>3. u[Len(f) + 1] = one[1]
    BY <1>4, <2>1
  <2> QED
    BY <1>3, <1>5, <2>1, <2>2, <2>3
<1>8. \A i \in 1 .. Len(g) : /\ Len(f) + 1 + i \in 1 .. Len(s)
                             /\ s[Len(f) + 1 + i] = g[i]
  <2> SUFFICES ASSUME NEW i \in 1 .. Len(g)
               PROVE  /\ Len(f) + 1 + i \in 1 .. Len(s)
                      /\ s[Len(f) + 1 + i] = g[i]
    OBVIOUS
  <2>1. /\ Len(f) + 1 + i \in 1 .. Len(u) + Len(g) /\ ~ (Len(f) + 1 + i <= Len(u))
        /\ (Len(f) + 1 + i) - Len(u) = i
    BY <1>2, <1>4
  <2> QED
    BY <1>5, <2>1
<1>9. ASSUME NEW i \in 1 .. Len(s)
      PROVE  \/ i \in 1 .. Len(f)
             \/ i = Len(f) + 1
             \/ \E j \in 1 .. Len(g) : i = Len(f) + 1 + j
  <2>1. CASE i > Len(f) + 1
    <3>1. i - (Len(f) + 1) \in 1 .. Len(g) /\ i = Len(f) + 1 + (i - (Len(f) + 1))
      BY <1>2, <1>4, <1>5, <2>1
    <3> QED
      BY <3>1
  <2>2. CASE ~ (i > Len(f) + 1)
    BY <1>2, <2>2
  <2> QED
    BY <2>1, <2>2
<1>10. \A z \in LsmKey : z \in Int
  BY LsmAssumption
<1>11. \A z \in LsmKey : c[z] = IF z = k THEN {e} ELSE IF z < k THEN a[z] ELSE b[z]
  BY DEF c, Join
<1>12. \A z \in LsmKey : (a[z] # {} => z < k) /\ (b[z] # {} => z > k)
  BY DEF Apart
<1>13. ASSUME NEW i \in 1 .. Len(s) PROVE c[s[i].key] = {s[i].entry}
  <2>1. CASE i \in 1 .. Len(f)
    <3> DEFINE z == f[i].key
    <3>1. a[z] = {f[i].entry} /\ z \in LsmKey
      BY <1>2, <2>1 DEF TableRecord
    <3> HIDE DEF z
    <3>2. z < k /\ z # k
      <4>1. a[z] # {}
        BY <3>1
      <4>2. z < k /\ z \in Int /\ k \in Int
        BY <1>10, <1>12, <3>1, <4>1
      <4> QED
        BY <4>2
    <3>3. c[z] = a[z]
      BY <1>11, <3>1, <3>2
    <3> QED
      BY <1>6, <2>1, <3>1, <3>3 DEF z
  <2>2. CASE i = Len(f) + 1
    BY <1>1, <1>7, <1>11, <2>2
  <2>3. CASE \E j \in 1 .. Len(g) : i = Len(f) + 1 + j
    <3>1. PICK j \in 1 .. Len(g) : i = Len(f) + 1 + j
      BY <2>3
    <3> DEFINE z == g[j].key
    <3>2. b[z] = {g[j].entry} /\ z \in LsmKey
      BY <1>2 DEF TableRecord
    <3> HIDE DEF z
    <3>3. ~ (z < k) /\ z # k
      <4>1. b[z] # {}
        BY <3>2
      <4>2. z > k /\ z \in Int /\ k \in Int
        BY <1>10, <1>12, <3>2, <4>1
      <4> QED
        BY <4>2
    <3>4. c[z] = b[z]
      BY <1>11, <3>2, <3>3
    <3> QED
      BY <1>8, <3>1, <3>2, <3>4 DEF z
  <2> QED
    BY <1>9, <2>1, <2>2, <2>3
<1>14. ASSUME NEW z \in LsmKey, c[z] # {} PROVE \E i \in 1 .. Len(s) : s[i].key = z
  <2>1. CASE z = k
    BY <1>1, <1>7, <2>1
  <2>2. CASE z # k /\ z < k
    <3>1. a[z] # {}
      BY <1>11, <1>14, <2>2
    <3>2. PICK i \in 1 .. Len(f) : f[i].key = z
      BY <1>2, <3>1
    <3> QED
      BY <1>6, <3>2
  <2>3. CASE z # k /\ ~ (z < k)
    <3>1. b[z] # {}
      BY <1>11, <1>14, <2>3
    <3>2. PICK i \in 1 .. Len(g) : g[i].key = z
      BY <1>2, <3>1
    <3> QED
      BY <1>8, <3>2
  <2> QED
    BY <2>1, <2>2, <2>3
<1>15. Lists(s, c)
  BY <1>5, <1>13, <1>14 DEF Lists
<1> QED
  BY <1>15 DEF s, u, one, r, c

LEMMA WritesContents ==
  ASSUME NEW n, NEW c, Tree(n, c)
  PROVE  Lists(sstable_write_node(n), c)
<1> DEFINE H == n.height
           S == Subtrees(n)
<1>1. H \in Nat
  BY TreeOpens
<1>2. PICK f : WriteRun(n, f) /\ sstable_write_node(n) = f[H][n]
  BY <1>1, WriteUnfolds
<1>3. n \in S /\ \A x \in S : x # Nil => x.left \in S /\ x.right \in S
  BY SubtreesClosed
<1> HIDE DEF S, H
<1> DEFINE node(h, x) ==
      f[h - 1][x.left] \o <<[key |-> x.key, entry |-> x.entry]>> \o f[h - 1][x.right]
<1>4. ASSUME NEW h \in 0 .. H, NEW x \in S
      PROVE  f[h][x] = IF x = Nil \/ h = 0 THEN <<>> ELSE node(h, x)
  <2> DEFINE row(i) == [y \in S |-> IF y = Nil \/ i = 0 THEN <<>> ELSE node(i, y)]
  <2>1. f = [i \in 0 .. H |-> row(i)]
    BY <1>2 DEF WriteRun, H, S
  <2>2. f[h] = row(h)
    <3> HIDE DEF row
    <3> QED
      BY <2>1
  <2> HIDE DEF node
  <2> QED
    BY <2>2
<1> HIDE DEF node
<1>4a. \A h \in 0 .. H, x \in S : x = Nil \/ h = 0 => f[h][x] = <<>>
  BY <1>4
<1> DEFINE Right(h) == \A x \in S : \A d : Tree(x, d) /\ x.height <= h => Lists(f[h][x], d)
           Good == {h \in 0 .. H : Right(h)}
<1>5. 0 \in Good
  <2> SUFFICES ASSUME NEW x \in S, NEW d, Tree(x, d), x.height <= 0 PROVE Lists(f[0][x], d)
    BY <1>1
  <2>1. x = Nil /\ d = Bare
    BY NodeIsTall
  <2>2. f[0][x] = <<>>
    BY <1>1, <1>4a
  <2> QED
    BY <2>1, <2>2, ListsNone
<1>6. ASSUME NEW h \in 1 .. H, h - 1 \in Good PROVE h \in Good
  <2> SUFFICES ASSUME NEW x \in S, NEW d, Tree(x, d), x.height <= h PROVE Lists(f[h][x], d)
    BY <1>1
  <2>1. CASE x = Nil
    <3>1. f[h][x] = <<>>
      BY <1>1, <1>4a, <2>1
    <3>2. d = Bare
      <4>1. x.height <= 0
        BY <2>1 DEF Nil
      <4> QED
        BY <4>1, NodeIsTall
    <3> QED
      BY <3>1, <3>2, ListsNone
  <2>2. CASE x # Nil
    <3>1. PICK a, b : /\ Tree(x.left, a) /\ Tree(x.right, b) /\ Apart(x.key, a, b)
                      /\ d = Join(x.key, x.entry, a, b)
                      /\ x.key \in LsmKey /\ x.entry \in LSMEntry
                      /\ x.left.height \in Nat /\ x.right.height \in Nat /\ x.height \in Nat
                      /\ x.left.height < x.height /\ x.right.height < x.height
      BY <2>2, NodeOpens
    <3>2. x.left \in S /\ x.right \in S /\ x.left.height <= h - 1 /\ x.right.height <= h - 1
      BY <1>1, <1>3, <2>2, <3>1
    <3>3. Lists(f[h - 1][x.left], a) /\ Lists(f[h - 1][x.right], b)
      BY <1>6, <3>1, <3>2
    <3>4. f[h][x] = f[h - 1][x.left] \o <<[key |-> x.key, entry |-> x.entry]>> \o f[h - 1][x.right]
      <4>1. h \in 0 .. H /\ h # 0
        BY <1>1
      <4> QED
        BY <1>4, <2>2, <4>1 DEF node
    <3>5. Lists(f[h - 1][x.left] \o <<[key |-> x.key, entry |-> x.entry]>> \o f[h - 1][x.right],
                Join(x.key, x.entry, a, b))
      BY <3>1, <3>3, ListsJoin
    <3> QED
      BY <3>1, <3>4, <3>5
  <2> QED
    BY <2>1, <2>2
<1> HIDE DEF Good
<1>7. H \in Good
  BY <1>1, <1>5, <1>6, RoundsKeep
<1>8. Right(H)
  BY <1>7 DEF Good
<1>9. n.height <= H
  BY <1>1 DEF H
<1> QED
  BY <1>2, <1>3, <1>8, <1>9

\* The first record with the key is the only one.
LEMMA GetsListed ==
  ASSUME NEW file, NEW c, Lists(file, c), NEW k \in LsmKey
  PROVE  sstable_get(file, k) = c[k]
<1> DEFINE n == Len(file)
           at == {i \in DOMAIN file : file[i].key = k}
<1>1. /\ n \in Nat /\ DOMAIN file = 1 .. n
      /\ \A i \in 1 .. n : c[file[i].key] = {file[i].entry}
      /\ c[k] # {} => \E i \in 1 .. n : file[i].key = k
  BY LenProperties DEF Lists
<1>2. \A e : e \in sstable_get(file, k) <=>
        \E i \in 1 .. n : /\ file[i].key = k /\ \A j \in 1 .. i - 1 : file[j].key # k
                          /\ e = file[i].entry
  <2>1. sstable_get(file, k) =
          {file[i].entry : i \in {i \in 1 .. n : /\ file[i].key = k
                                               /\ \A j \in 1 .. i - 1 : file[j].key # k}}
    BY <1>1 DEF sstable_get
  <2> QED
    BY <2>1
<1> HIDE DEF n
<1>3. ASSUME NEW e, e \in sstable_get(file, k) PROVE e \in c[k]
  <2>1. PICK i \in 1 .. n : file[i].key = k /\ e = file[i].entry
    BY <1>2, <1>3
  <2>2. c[file[i].key] = {file[i].entry}
    BY <1>1
  <2> QED
    BY <2>1, <2>2
<1>4. ASSUME NEW e \in c[k] PROVE e \in sstable_get(file, k)
  <2>1. at # {} /\ at \subseteq Nat
    BY <1>1, <1>4
  <2> HIDE DEF at
  <2>2. PICK i \in at : \A j \in at : i <= j
    BY <2>1, LeastNumber
  <2>3. i \in 1 .. n /\ file[i].key = k
    BY <1>1, <2>2 DEF at
  <2>4. \A j \in 1 .. i - 1 : file[j].key # k
    <3> SUFFICES ASSUME NEW j \in 1 .. i - 1, file[j].key = k PROVE FALSE
      OBVIOUS
    <3>1. j \in at /\ ~ (i <= j)
      BY <1>1, <2>3 DEF at
    <3> QED
      BY <2>2, <3>1
  <2>5. e = file[i].entry
    BY <1>1, <1>4, <2>3
  <2> QED
    BY <1>2, <2>3, <2>4, <2>5
<1> QED
  BY <1>3, <1>4

\* The filter of a table passes every key of its file.
Passes(bloom, c) == \A k \in LsmKey : c[k] # {} => bloom_may_contain(bloom, k)

LEMMA TableAnswers ==
  ASSUME NEW n, NEW c, Tree(n, c)
  PROVE  /\ Lists(sstable_write(n).file, c) /\ Passes(sstable_write(n).bloom, c)
         /\ sstable_write(n).bloom \subseteq UNION {bloom_idx(k) : k \in LsmKey}
<1> DEFINE file == sstable_write_node(n)
           bloom == UNION {bloom_add({}, file[i].key) : i \in DOMAIN file}
<1>1. sstable_write(n).file = file /\ sstable_write(n).bloom = bloom
  BY DEF sstable_write
<1>2. Lists(file, c)
  BY WritesContents
<1> HIDE DEF file
<1>3. DOMAIN file = 1 .. Len(file)
  BY <1>2, LenProperties DEF Lists
<1>4. ASSUME NEW k \in LsmKey, c[k] # {} PROVE bloom_idx(k) \subseteq bloom
  <2>1. PICK i \in 1 .. Len(file) : file[i].key = k
    BY <1>2, <1>4 DEF Lists
  <2>2. bloom_add({}, file[i].key) \subseteq bloom
    BY <1>3
  <2>3. bloom_add({}, file[i].key) = bloom_idx(k)
    BY <2>1 DEF bloom_add
  <2> QED
    BY <2>2, <2>3
<1>5. bloom \subseteq UNION {bloom_idx(k) : k \in LsmKey}
  <2> SUFFICES ASSUME NEW i \in 1 .. Len(file), NEW x \in bloom_add({}, file[i].key)
               PROVE  \E k \in LsmKey : x \in bloom_idx(k)
    BY <1>3
  <2>1. file[i].key \in LsmKey
    <3>1. file \in Seq(TableRecord)
      BY <1>2 DEF Lists
    <3>2. file[i] \in TableRecord
      BY <3>1, ElementOfSeq
    <3> QED
      BY <3>2 DEF TableRecord
  <2> QED
    BY <2>1 DEF bloom_add
<1> HIDE DEF bloom
<1> QED
  BY <1>1, <1>2, <1>4, <1>5 DEF Passes, bloom_may_contain

-----------------------------------------------------------------------------
(* Searching the tables and the log. *)

TableRef == [id : Nat, bloom : SUBSET UNION {bloom_idx(k) : k \in LsmKey}]
LogRecord == [key : LsmKey, value : LsmVal]

HitIn(t, tables, k) ==
  IF bloom_may_contain(t.bloom, k) THEN sstable_get(tables[t.id], k) ELSE {}
HitsIn(level, tables, k) == {i \in DOMAIN level : HitIn(level[i], tables, k) # {}}
SearchIn(level, tables, k) ==
  IF HitsIn(level, tables, k) = {} THEN Absent
  ELSE Answer(Only(HitIn(level[Newest(HitsIn(level, tables, k))], tables, k)))

LEMMA SearchLevelUnfolds ==
  /\ \A k : SearchLevel(k) = SearchIn(level0, disk, k)
  /\ \A k : SearchLevel(k)' = SearchIn(level0', disk', k)
BY DEF SearchLevel, SearchIn, HitsIn, HitIn, TableHit

LEMMA NewestIsListed ==
  ASSUME NEW n \in Nat, NEW hits, hits \subseteq 1 .. n, hits # {}
  PROVE  Newest(hits) \in hits /\ \A j \in hits : j <= Newest(hits)
<1> DEFINE T == {n - i : i \in hits}
<1>1. T \subseteq Nat /\ T # {}
  <2>1. \A i \in hits : n - i \in Nat
    OBVIOUS
  <2>2. PICK i : i \in hits
    OBVIOUS
  <2> QED
    BY <2>1, <2>2
<1>2. PICK m \in T : \A j \in T : m <= j
  <2> HIDE DEF T
  <2> QED
    BY <1>1, LeastNumber
<1>3. PICK i \in hits : m = n - i
  BY <1>2
<1>4. \A j \in hits : j <= i
  <2> SUFFICES ASSUME NEW j \in hits PROVE j <= i
    OBVIOUS
  <2>1. n - i <= n - j
    BY <1>2, <1>3
  <2>2. i \in Int /\ j \in Int /\ n \in Int
    OBVIOUS
  <2> QED
    BY <2>1, <2>2
<1> HIDE DEF T
<1> QED
  BY <1>4 DEF Newest

LEMMA SearchNothing ==
  ASSUME NEW tables, NEW k
  PROVE  SearchIn(<<>>, tables, k) = Absent
<1>1. HitsIn(<<>>, tables, k) = {}
  BY DEF HitsIn
<1> QED
  BY <1>1 DEF SearchIn

\* A search reads the files of the listed tables only.
LEMMA SearchReads ==
  ASSUME NEW S, NEW level \in Seq(S), NEW tables, NEW other, NEW k,
         \A i \in 1 .. Len(level) : other[level[i].id] = tables[level[i].id]
  PROVE  SearchIn(level, other, k) = SearchIn(level, tables, k)
<1> DEFINE H == HitsIn(level, tables, k)
<1>1. Len(level) \in Nat /\ DOMAIN level = 1 .. Len(level)
  BY LenProperties
<1>2. \A i \in 1 .. Len(level) : HitIn(level[i], other, k) = HitIn(level[i], tables, k)
  BY DEF HitIn
<1>3. HitsIn(level, other, k) = H /\ H \subseteq 1 .. Len(level)
  BY <1>1, <1>2 DEF HitsIn
<1> HIDE DEF H
<1>4. CASE H = {}
  BY <1>3, <1>4 DEF SearchIn, H
<1>5. CASE H # {}
  <2>1. Newest(H) \in 1 .. Len(level)
    BY <1>1, <1>3, <1>5, NewestIsListed
  <2>2. HitIn(level[Newest(H)], other, k) = HitIn(level[Newest(H)], tables, k)
    BY <1>2, <2>1
  <2> QED
    BY <1>3, <1>5, <2>2 DEF SearchIn, H
<1> QED
  BY <1>4, <1>5

\* A new table answers for its keys, and the older ones for the rest.
LEMMA SearchNewest ==
  ASSUME NEW S, NEW level \in Seq(S), NEW t \in S, NEW tables, NEW k
  PROVE  SearchIn(Append(level, t), tables, k) =
           IF HitIn(t, tables, k) # {} THEN Answer(Only(HitIn(t, tables, k)))
           ELSE SearchIn(level, tables, k)
<1> DEFINE n == Len(level)
           more == Append(level, t)
           H == HitsIn(level, tables, k)
           M == HitsIn(more, tables, k)
<1>1. /\ n \in Nat /\ DOMAIN level = 1 .. n
      /\ Len(more) = n + 1 /\ DOMAIN more = 1 .. n + 1 /\ more[n + 1] = t
      /\ \A i \in 1 .. n : more[i] = level[i]
  <2>1. n \in Nat /\ DOMAIN level = 1 .. n
    BY LenProperties
  <2>2. /\ more \in Seq(S) /\ Len(more) = n + 1 /\ more[n + 1] = t
        /\ \A i \in 1 .. n : more[i] = level[i]
    BY AppendProperties
  <2>3. DOMAIN more = 1 .. n + 1
    BY <2>2, LenProperties
  <2> QED
    BY <2>1, <2>2, <2>3
<1>2. \A i : i \in H <=> i \in 1 .. n /\ HitIn(level[i], tables, k) # {}
  BY <1>1 DEF HitsIn
<1>3. \A i : i \in M <=> i \in 1 .. n + 1 /\ HitIn(more[i], tables, k) # {}
  BY <1>1 DEF HitsIn
<1> HIDE DEF n, more
<1>4. SearchIn(more, tables, k) = IF M = {} THEN Absent ELSE Answer(Only(HitIn(more[Newest(M)], tables, k)))
  BY DEF SearchIn
<1>5. SearchIn(level, tables, k) = IF H = {} THEN Absent ELSE Answer(Only(HitIn(level[Newest(H)], tables, k)))
  BY Zenon DEF SearchIn
<1> HIDE DEF H, M
<1>6. CASE HitIn(t, tables, k) # {}
  <2>1. n + 1 \in M /\ M \subseteq 1 .. n + 1 /\ n + 1 \in Nat
    <3>1. n + 1 \in 1 .. n + 1 /\ n + 1 \in Nat
      BY <1>1
    <3>2. HitIn(more[n + 1], tables, k) # {}
      BY <1>1, <1>6
    <3>3. \A i \in M : i \in 1 .. n + 1
      BY <1>3
    <3> QED
      BY <1>3, <3>1, <3>2, <3>3
  <2>2. Newest(M) \in M /\ \A j \in M : j <= Newest(M)
    BY <2>1, NewestIsListed
  <2>3. Newest(M) = n + 1
    <3> DEFINE x == Newest(M)
    <3>1. x \in 1 .. n + 1 /\ n + 1 <= x
      BY <2>1, <2>2
    <3> HIDE DEF x
    <3>2. x = n + 1
      BY <1>1, <3>1
    <3> QED
      BY <3>2 DEF x
  <2> QED
    BY <1>1, <1>4, <1>6, <2>1, <2>3 DEF more
<1>7. CASE HitIn(t, tables, k) = {}
  <2>1. M = H /\ H \subseteq 1 .. n
    <3>1. ASSUME NEW i \in M PROVE i \in H
      <4>1. i \in 1 .. n + 1 /\ HitIn(more[i], tables, k) # {}
        BY <1>3
      <4>2. i # n + 1
        BY <1>1, <1>7, <4>1
      <4>3. i \in 1 .. n
        BY <1>1, <4>1, <4>2
      <4> QED
        BY <1>1, <1>2, <4>1, <4>3
    <3>2. ASSUME NEW i \in H PROVE i \in M
      <4>1. i \in 1 .. n /\ HitIn(level[i], tables, k) # {}
        BY <1>2
      <4>2. i \in 1 .. n + 1
        BY <1>1, <4>1
      <4> QED
        BY <1>1, <1>3, <4>1, <4>2
    <3>3. \A i \in H : i \in 1 .. n
      BY <1>2
    <3> QED
      BY <3>1, <3>2, <3>3
  <2>2. CASE H = {}
    BY <1>4, <1>5, <1>7, <2>1, <2>2 DEF more
  <2>3. CASE H # {}
    <3>1. Newest(H) \in 1 .. n
      BY <1>1, <2>1, <2>3, NewestIsListed
    <3> QED
      BY <1>1, <1>4, <1>5, <1>7, <2>1, <2>3, <3>1 DEF more
  <2> QED
    BY <2>2, <2>3
<1> QED
  BY <1>6, <1>7

LogIn(log, k) ==
  {log[i].value : i \in {i \in DOMAIN log : /\ log[i].key = k
                                            /\ \A j \in i + 1 .. Len(log) : log[j].key # k}}

LEMMA LogValueUnfolds == /\ \A k : LogValue(k) = LogIn(wal, k)
                         /\ \A k : LogValue(k)' = LogIn(wal', k)
BY DEF LogValue, LogIn

\* A record appended to the log is the last one of its key.
LEMMA LogGrows ==
  ASSUME NEW log \in Seq(LogRecord), NEW z \in LsmKey, NEW v \in LsmVal
  PROVE  /\ v \in LogIn(Append(log, [key |-> z, value |-> v]), z)
         /\ \A k : k # z => LogIn(log, k) \subseteq LogIn(Append(log, [key |-> z, value |-> v]), k)
<1> DEFINE r == [key |-> z, value |-> v]
           n == Len(log)
           more == Append(log, r)
<1>1. r \in LogRecord /\ r.key = z /\ r.value = v
  BY DEF LogRecord
<1> HIDE DEF r
<1>2. /\ n \in Nat /\ DOMAIN log = 1 .. n
      /\ Len(more) = n + 1 /\ DOMAIN more = 1 .. n + 1 /\ more[n + 1] = r
      /\ \A i \in 1 .. n : more[i] = log[i]
  <2>1. n \in Nat /\ DOMAIN log = 1 .. n
    BY LenProperties
  <2>2. /\ more \in Seq(LogRecord) /\ Len(more) = n + 1 /\ more[n + 1] = r
        /\ \A i \in 1 .. n : more[i] = log[i]
    BY <1>1, AppendProperties
  <2>3. DOMAIN more = 1 .. n + 1
    BY <2>2, LenProperties
  <2> QED
    BY <2>1, <2>2, <2>3
<1>3. \A k, x : x \in LogIn(log, k) <=>
        \E i \in 1 .. n : /\ log[i].key = k /\ \A j \in i + 1 .. n : log[j].key # k
                          /\ x = log[i].value
  BY <1>2 DEF LogIn
<1> HIDE DEF more, n
<1>4. \A k, x : x \in LogIn(more, k) <=>
        \E i \in 1 .. n + 1 : /\ more[i].key = k /\ \A j \in i + 1 .. n + 1 : more[j].key # k
                              /\ x = more[i].value
  BY <1>2 DEF LogIn
<1>5. v \in LogIn(more, z)
  <2>1. n + 1 \in 1 .. n + 1 /\ \A j \in (n + 1) + 1 .. n + 1 : FALSE
    BY <1>2
  <2> QED
    BY <1>1, <1>2, <1>4, <2>1
<1>6. ASSUME NEW k, k # z, NEW x \in LogIn(log, k) PROVE x \in LogIn(more, k)
  <2>1. PICK i \in 1 .. n : /\ log[i].key = k /\ \A j \in i + 1 .. n : log[j].key # k
                            /\ x = log[i].value
    BY <1>3, <1>6
  <2>2. i \in 1 .. n + 1 /\ more[i] = log[i]
    BY <1>2
  <2>3. ASSUME NEW j \in i + 1 .. n + 1 PROVE more[j].key # k
    <3>1. CASE j = n + 1
      BY <1>1, <1>2, <1>6, <3>1
    <3>2. CASE j # n + 1
      <4>1. j \in i + 1 .. n /\ j \in 1 .. n
        BY <1>2, <3>2
      <4> QED
        BY <1>2, <2>1, <4>1
    <3> QED
      BY <3>1, <3>2
  <2> QED
    BY <1>4, <2>1, <2>2, <2>3
<1> QED
  BY <1>5, <1>6 DEF more, r

-----------------------------------------------------------------------------
(* What the steps of the tree keep. *)

\* A filter passes every key of its listed file.
TablesPass ==
  \A i \in 1 .. Len(level0) :
    /\ level0[i].id \in 1 .. next_sstable_id - 1
    /\ \A k \in LsmKey :
         sstable_get(disk[level0[i].id], k) # {} => bloom_may_contain(level0[i].bloom, k)

LsmTypeOK ==
  /\ level0 \in Seq(TableRef) /\ wal \in Seq(LogRecord) /\ disk \in Seq(Seq(TableRecord))
  /\ next_sstable_id \in Nat \ {0} /\ next_sstable_id <= Len(disk) + 1
  /\ kv \in [LsmKey -> LsmVal \cup {Absent}]

\* The memtable's entries are what was stored last, and logged; the tables
\* answer for the other keys.
MemHolds(c) ==
  /\ \A k \in LsmKey : \A e \in c[k] :
       Answer(e) = kv[k] /\ (kv[k] # Absent => kv[k] \in LogIn(wal, k))
  /\ \A k \in LsmKey : c[k] = {} => SearchIn(level0, disk, k) = kv[k]

LsmInv ==
  /\ LsmTypeOK /\ TablesPass
  /\ \E c : Tree(mem, c) /\ MemHolds(c)
  /\ flushing = "swap" => \A k \in LsmKey : SearchIn(level0, disk, k) = kv[k]
  /\ flushing = "truncate" => mem = Nil

\* No entry below a leaf: what an empty memtable leaves to the tables.
LEMMA BareHolds ==
  ASSUME LsmInv
  PROVE  mem = Nil => \A k \in LsmKey : SearchIn(level0, disk, k) = kv[k]
<1> SUFFICES ASSUME mem = Nil PROVE \A k \in LsmKey : SearchIn(level0, disk, k) = kv[k]
  OBVIOUS
<1>1. PICK c : Tree(mem, c) /\ MemHolds(c)
  BY DEF LsmInv
<1>2. c = Bare
  <2>1. mem.height <= 0
    BY DEF Nil
  <2> QED
    BY <1>1, <2>1, NodeIsTall
<1> QED
  BY <1>1, <1>2 DEF MemHolds, Bare

LEMMA LsmInit_Inv == LsmInit => LsmInv
<1> SUFFICES ASSUME LsmInit PROVE LsmInv
  OBVIOUS
<1>1. /\ mem = Nil /\ level0 = <<>> /\ next_sstable_id = 1 /\ wal = <<>> /\ disk = <<>>
      /\ flushing = "no" /\ kv = [k \in LsmKey |-> Absent]
  BY DEF LsmInit
<1>2. Len(level0) = 0 /\ Len(disk) = 0
  BY <1>1
<1>3. LsmTypeOK
  BY <1>1, <1>2 DEF LsmTypeOK
<1>4. TablesPass
  BY <1>2 DEF TablesPass
<1>5. MemHolds(Bare)
  <2>1. \A k \in LsmKey : SearchIn(level0, disk, k) = kv[k]
    BY <1>1, SearchNothing
  <2> QED
    BY <2>1 DEF MemHolds, Bare
<1>6. Tree(mem, Bare)
  BY <1>1, NilIsTree
<1> QED
  BY <1>1, <1>3, <1>4, <1>5, <1>6 DEF LsmInv

\* A put or a delete changes the memtable for one key.
LEMMA MemChanges ==
  ASSUME NEW c, Tree(mem, c), MemHolds(c), NEW k \in LsmKey, NEW e \in LSMEntry,
         LsmTypeOK, UNCHANGED <<level0, disk>>, kv' \in [LsmKey -> LsmVal \cup {Absent}],
         mem' = memtable_insert_node(mem, k, e),
         Answer(e) = kv'[k], kv'[k] # Absent => kv'[k] \in LogIn(wal', k),
         \A z \in LsmKey : z # k => kv'[z] = kv[z] /\ LogIn(wal, z) \subseteq LogIn(wal', z)
  PROVE  \E d : Tree(mem', d) /\ MemHolds(d)'
<1> DEFINE d == SetKey(c, k, e)
<1>1. Tree(mem', d)
  BY InsertPuts
<1>2. c \in MemContents
  BY TreeOpens
<1>3. \A z \in LsmKey : d[z] = IF z = k THEN {e} ELSE c[z]
  BY <1>2, SetIsContents
<1> HIDE DEF d
<1>4. ASSUME NEW z \in LsmKey, NEW x \in d[z]
      PROVE  Answer(x) = kv'[z] /\ (kv'[z] # Absent => kv'[z] \in LogIn(wal', z))
  <2>1. CASE z = k
    BY <1>3, <1>4, <2>1
  <2>2. CASE z # k
    <3>1. x \in c[z]
      BY <1>3, <1>4, <2>2
    <3>2. Answer(x) = kv[z] /\ (kv[z] # Absent => kv[z] \in LogIn(wal, z))
      BY <3>1 DEF MemHolds
    <3> QED
      BY <2>2, <3>2
  <2> QED
    BY <2>1, <2>2
<1>5. ASSUME NEW z \in LsmKey, d[z] = {} PROVE SearchIn(level0', disk', z) = kv'[z]
  <2>1. z # k /\ c[z] = {}
    BY <1>3, <1>5
  <2>2. SearchIn(level0, disk, z) = kv[z]
    BY <2>1 DEF MemHolds
  <2> QED
    BY <2>1, <2>2
<1>6. MemHolds(d)'
  BY <1>4, <1>5 DEF MemHolds
<1> QED
  BY <1>1, <1>6

\* Steps that leave the tables and their contents as they are.
LEMMA TablesStay ==
  ASSUME LsmTypeOK, TablesPass, UNCHANGED <<level0, next_sstable_id, disk>>,
         wal' \in Seq(LogRecord), kv' \in [LsmKey -> LsmVal \cup {Absent}]
  PROVE  LsmTypeOK' /\ TablesPass'
BY DEF LsmTypeOK, TablesPass

LEMMA PutKeeps ==
  ASSUME LsmInv, NEW k \in LsmKey, NEW v \in LsmVal, lsm_put(k, v)
  PROVE  LsmInv'
<1> DEFINE e == [value |-> v, deleted |-> FALSE]
           r == [key |-> k, value |-> v]
<1>1. LsmTypeOK /\ TablesPass
  BY DEF LsmInv
<1>2. PICK c : Tree(mem, c) /\ MemHolds(c)
  BY DEF LsmInv
<1>3. /\ wal' = Append(wal, r) /\ mem' = memtable_insert_node(mem, k, e)
      /\ kv' = [kv EXCEPT ![k] = v] /\ UNCHANGED <<level0, next_sstable_id, disk>>
      /\ flushing' \in {"write", "no"}
  BY DEF lsm_put, memtable_put
<1>4. v # Absent /\ e \in LSMEntry /\ Answer(e) = v
  BY LsmAssumption DEF LSMEntry, Answer
<1>5. /\ kv' \in [LsmKey -> LsmVal \cup {Absent}] /\ kv'[k] = v
      /\ \A z \in LsmKey : z # k => kv'[z] = kv[z]
  BY <1>1, <1>3 DEF LsmTypeOK
<1>6. wal \in Seq(LogRecord) /\ r \in LogRecord
  BY <1>1 DEF LsmTypeOK, LogRecord
<1>7. wal' \in Seq(LogRecord)
  <2> HIDE DEF r
  <2> QED
    BY <1>3, <1>6, AppendProperties
<1>8. /\ v \in LogIn(wal', k)
      /\ \A z : z # k => LogIn(wal, z) \subseteq LogIn(wal', z)
  BY <1>3, <1>6, LogGrows
<1> HIDE DEF e, r
<1>9. LsmTypeOK' /\ TablesPass'
  BY <1>1, <1>3, <1>5, <1>7, TablesStay
<1>10. \E d : Tree(mem', d) /\ MemHolds(d)'
  <2>1. UNCHANGED <<level0, disk>>
    BY <1>3
  <2>2. Answer(e) = kv'[k] /\ kv'[k] \in LogIn(wal', k)
    BY <1>4, <1>5, <1>8
  <2>3. \A z \in LsmKey : z # k => kv'[z] = kv[z] /\ LogIn(wal, z) \subseteq LogIn(wal', z)
    BY <1>5, <1>8
  <2> QED
    BY <1>1, <1>2, <1>3, <1>4, <1>5, <2>1, <2>2, <2>3, MemChanges
<1> QED
  BY <1>3, <1>9, <1>10 DEF LsmInv

LEMMA DeleteKeeps ==
  ASSUME LsmInv, NEW k \in LsmKey, lsm_delete(k)
  PROVE  LsmInv'
<1> DEFINE e == [value |-> Absent, deleted |-> TRUE]
<1>1. LsmTypeOK /\ TablesPass
  BY DEF LsmInv
<1>2. PICK c : Tree(mem, c) /\ MemHolds(c)
  BY DEF LsmInv
<1>3. /\ mem' = memtable_insert_node(mem, k, e) /\ wal' = wal
      /\ kv' = [kv EXCEPT ![k] = Absent] /\ UNCHANGED <<level0, next_sstable_id, disk>>
      /\ flushing' = "no"
  BY DEF lsm_delete, memtable_delete
<1>4. e \in LSMEntry /\ Answer(e) = Absent
  BY DEF LSMEntry, Answer
<1>5. /\ kv' \in [LsmKey -> LsmVal \cup {Absent}] /\ kv'[k] = Absent
      /\ \A z \in LsmKey : z # k => kv'[z] = kv[z]
  BY <1>1, <1>3 DEF LsmTypeOK
<1> HIDE DEF e
<1>6. LsmTypeOK' /\ TablesPass'
  <2>1. wal' \in Seq(LogRecord)
    BY <1>1, <1>3 DEF LsmTypeOK
  <2> QED
    BY <1>1, <1>3, <1>5, <2>1, TablesStay
<1>7. \E d : Tree(mem', d) /\ MemHolds(d)'
  <2>1. UNCHANGED <<level0, disk>>
    BY <1>3
  <2>2. Answer(e) = kv'[k] /\ (kv'[k] # Absent => kv'[k] \in LogIn(wal', k))
    BY <1>4, <1>5
  <2>3. \A z \in LsmKey : z # k => kv'[z] = kv[z] /\ LogIn(wal, z) \subseteq LogIn(wal', z)
    BY <1>3, <1>5
  <2> QED
    BY <1>1, <1>2, <1>3, <1>4, <1>5, <2>1, <2>2, <2>3, MemChanges
<1> QED
  BY <1>3, <1>6, <1>7 DEF LsmInv

\* p is the array d of files with f as number id.
FileAt(p, d, id, f, S) ==
  /\ p \in Seq(S) /\ p[id] = f /\ id <= Len(p)
  /\ \A i \in 1 .. Len(d) : i # id => p[i] = d[i]

LEMMA FilePut ==
  ASSUME NEW S, NEW d \in Seq(S), NEW id \in Nat \ {0}, id <= Len(d) + 1, NEW f \in S
  PROVE  FileAt(PutFile(d, id, f), d, id, f, S)
<1>1. Len(d) \in Nat /\ DOMAIN d = 1 .. Len(d) /\ \A i \in 1 .. Len(d) : d[i] \in S
  BY LenProperties, ElementOfSeq
<1>2. CASE id > Len(d)
  <2> DEFINE p == Append(d, f)
  <2>1. /\ p \in Seq(S) /\ Len(p) = Len(d) + 1 /\ p[Len(d) + 1] = f
        /\ \A i \in 1 .. Len(d) : p[i] = d[i]
    BY AppendProperties
  <2>2. PutFile(d, id, f) = p /\ id = Len(d) + 1
    BY <1>1, <1>2 DEF PutFile
  <2> HIDE DEF p
  <2> QED
    BY <1>1, <2>1, <2>2 DEF FileAt
<1>3. CASE ~ (id > Len(d))
  <2> DEFINE p == [d EXCEPT ![id] = f]
  <2>1. PutFile(d, id, f) = p /\ id \in 1 .. Len(d)
    BY <1>1, <1>3 DEF PutFile
  <2>2. /\ p \in Seq(S) /\ Len(p) = Len(d)
        /\ \A i \in 1 .. Len(d) : p[i] = IF i = id THEN f ELSE d[i]
    BY <2>1, ExceptSeq
  <2> HIDE DEF p
  <2> QED
    BY <1>1, <2>1, <2>2 DEF FileAt
<1> QED
  BY <1>2, <1>3

LEMMA WriteKeeps ==
  ASSUME LsmInv, flushing = "write", next_sstable_id' = next_sstable_id + 1,
         disk' = PutFile(disk, next_sstable_id, sstable_write(mem).file),
         level0' = Append(level0, [id |-> next_sstable_id, bloom |-> sstable_write(mem).bloom]),
         flushing' = "swap", UNCHANGED <<mem, wal, kv>>
  PROVE  LsmInv'
<1> DEFINE id == next_sstable_id
           file == sstable_write(mem).file
           bloom == sstable_write(mem).bloom
           t == [id |-> id, bloom |-> bloom]
<1>1. LsmTypeOK /\ TablesPass
  BY DEF LsmInv
<1>2. PICK c : Tree(mem, c) /\ MemHolds(c)
  BY DEF LsmInv
<1>3. /\ Lists(file, c) /\ Passes(bloom, c)
      /\ bloom \subseteq UNION {bloom_idx(k) : k \in LsmKey}
  BY <1>2, TableAnswers
<1> HIDE DEF file, bloom
<1>4. id \in Nat \ {0} /\ id <= Len(disk) + 1 /\ disk \in Seq(Seq(TableRecord)) /\ Len(disk) \in Nat
  BY <1>1, LenProperties DEF LsmTypeOK
<1>5. t.id = id /\ t.bloom = bloom /\ t \in TableRef
  BY <1>3, <1>4 DEF TableRef
<1>6. level0' = Append(level0, t) /\ disk' = PutFile(disk, id, file)
  BY DEF file, bloom
<1> HIDE DEF t
<1>7. file \in Seq(TableRecord) /\ \A k \in LsmKey : sstable_get(file, k) = c[k]
  <2>1. file \in Seq(TableRecord)
    BY <1>3 DEF Lists
  <2> QED
    BY <1>3, <2>1, GetsListed
<1>8. /\ disk' \in Seq(Seq(TableRecord)) /\ disk'[id] = file /\ id <= Len(disk')
      /\ \A i \in 1 .. Len(disk) : i # id => disk'[i] = disk[i]
  <2> DEFINE R == Seq(TableRecord)
  <2>1. disk \in Seq(R) /\ file \in R
    BY <1>4, <1>7
  <2> HIDE DEF R, id
  <2>2. id \in Nat \ {0} /\ id <= Len(disk) + 1
    BY <1>4
  <2>3. FileAt(PutFile(disk, id, file), disk, id, file, R)
    BY <2>1, <2>2, FilePut
  <2> QED
    BY <1>6, <2>3 DEF FileAt, R
<1>9. level0 \in Seq(TableRef) /\ Len(level0) \in Nat
  BY <1>1, LenProperties DEF LsmTypeOK
<1>10. /\ level0' \in Seq(TableRef) /\ Len(level0') = Len(level0) + 1
       /\ level0'[Len(level0) + 1] = t
       /\ \A i \in 1 .. Len(level0) : level0'[i] = level0[i]
  BY <1>5, <1>6, <1>9, AppendProperties
<1>11. \A i \in 1 .. Len(level0) :
         level0[i].id \in 1 .. id - 1 /\ disk'[level0[i].id] = disk[level0[i].id]
  <2> SUFFICES ASSUME NEW i \in 1 .. Len(level0)
               PROVE  level0[i].id \in 1 .. id - 1 /\ disk'[level0[i].id] = disk[level0[i].id]
    OBVIOUS
  <2>1. level0[i].id \in 1 .. id - 1
    BY <1>1 DEF TablesPass
  <2>2. level0[i].id \in 1 .. Len(disk) /\ level0[i].id # id
    BY <1>4, <2>1
  <2> QED
    BY <1>8, <2>1, <2>2
<1>12. LsmTypeOK'
  <2>1. Len(disk') \in Nat
    BY <1>8, LenProperties
  <2>2. next_sstable_id' \in Nat \ {0} /\ next_sstable_id' <= Len(disk') + 1
    BY <1>4, <1>8, <2>1
  <2>3. wal' \in Seq(LogRecord) /\ kv' \in [LsmKey -> LsmVal \cup {Absent}]
    BY <1>1 DEF LsmTypeOK
  <2> QED
    BY <1>8, <1>10, <2>2, <2>3 DEF LsmTypeOK
<1>13. TablesPass'
  <2> SUFFICES ASSUME NEW i \in 1 .. Len(level0')
               PROVE  /\ level0'[i].id \in 1 .. next_sstable_id' - 1
                      /\ \A k \in LsmKey : sstable_get(disk'[level0'[i].id], k) # {}
                                             => bloom_may_contain(level0'[i].bloom, k)
    BY DEF TablesPass
  <2>1. CASE i = Len(level0) + 1
    <3>1. level0'[i].id = id /\ level0'[i].bloom = bloom
      BY <1>5, <1>10, <2>1
    <3>2. id \in 1 .. next_sstable_id' - 1
      BY <1>4
    <3> QED
      BY <1>3, <1>7, <1>8, <3>1, <3>2 DEF Passes
  <2>2. CASE i # Len(level0) + 1
    <3>1. i \in 1 .. Len(level0) /\ level0'[i] = level0[i]
      BY <1>9, <1>10, <2>2
    <3>2. level0[i].id \in 1 .. next_sstable_id' - 1
      BY <1>4, <1>11, <3>1
    <3>3. \A k \in LsmKey :
            sstable_get(disk[level0[i].id], k) # {} => bloom_may_contain(level0[i].bloom, k)
      BY <1>1, <3>1 DEF TablesPass
    <3> QED
      BY <1>11, <3>1, <3>2, <3>3
  <2> QED
    BY <2>1, <2>2
<1>14. ASSUME NEW k \in LsmKey
       PROVE  SearchIn(level0', disk', k) = IF c[k] # {} THEN Answer(Only(c[k]))
                                            ELSE SearchIn(level0, disk, k)
  <2>1. SearchIn(level0, disk', k) = SearchIn(level0, disk, k)
    BY <1>9, <1>11, SearchReads
  <2>2. HitIn(t, disk', k) = c[k]
    <3>1. HitIn(t, disk', k) = IF bloom_may_contain(bloom, k) THEN c[k] ELSE {}
      BY <1>5, <1>7, <1>8 DEF HitIn
    <3> QED
      BY <1>3, <3>1 DEF Passes
  <2>3. SearchIn(level0', disk', k) =
          IF HitIn(t, disk', k) # {} THEN Answer(Only(HitIn(t, disk', k)))
          ELSE SearchIn(level0, disk', k)
    BY <1>5, <1>6, <1>9, SearchNewest
  <2> QED
    BY <2>1, <2>2, <2>3
<1>15. \A k \in LsmKey : SearchIn(level0', disk', k) = kv[k]
  <2> SUFFICES ASSUME NEW k \in LsmKey PROVE SearchIn(level0', disk', k) = kv[k]
    OBVIOUS
  <2>1. CASE c[k] = {}
    BY <1>2, <1>14, <2>1 DEF MemHolds
  <2>2. CASE c[k] # {}
    <3>1. Only(c[k]) \in c[k]
      BY <2>2 DEF Only
    <3> QED
      BY <1>2, <1>14, <2>2, <3>1 DEF MemHolds
  <2> QED
    BY <2>1, <2>2
<1>16. MemHolds(c)'
  BY <1>2, <1>15 DEF MemHolds
<1>17. Tree(mem', c)
  BY <1>2
<1> QED
  BY <1>12, <1>13, <1>15, <1>16, <1>17 DEF LsmInv

\* The file could not be opened.
LEMMA FailedWriteKeeps ==
  ASSUME LsmInv, next_sstable_id' = next_sstable_id + 1,
         disk' = IF next_sstable_id > Len(disk) THEN Append(disk, <<>>) ELSE disk,
         flushing' = "no", UNCHANGED <<mem, wal, kv, level0>>
  PROVE  LsmInv'
<1>1. LsmTypeOK /\ TablesPass
  BY DEF LsmInv
<1>2. PICK c : Tree(mem, c) /\ MemHolds(c)
  BY DEF LsmInv
<1>3. /\ disk \in Seq(Seq(TableRecord)) /\ Len(disk) \in Nat /\ next_sstable_id \in Nat \ {0}
      /\ next_sstable_id <= Len(disk) + 1 /\ level0 \in Seq(TableRef) /\ Len(level0) \in Nat
  BY <1>1, LenProperties DEF LsmTypeOK
<1>4. /\ disk' \in Seq(Seq(TableRecord)) /\ next_sstable_id + 1 <= Len(disk') + 1
      /\ \A i \in 1 .. Len(disk) : disk'[i] = disk[i]
  <2>1. CASE next_sstable_id > Len(disk)
    <3>1. <<>> \in Seq(TableRecord)
      OBVIOUS
    <3>2. /\ disk' \in Seq(Seq(TableRecord)) /\ Len(disk') = Len(disk) + 1
          /\ \A i \in 1 .. Len(disk) : disk'[i] = disk[i]
      BY <1>3, <2>1, <3>1, AppendProperties
    <3> QED
      BY <1>3, <3>2
  <2>2. CASE ~ (next_sstable_id > Len(disk))
    BY <1>3, <2>2
  <2> QED
    BY <2>1, <2>2
<1>5. \A i \in 1 .. Len(level0) :
        level0[i].id \in 1 .. next_sstable_id - 1 /\ disk'[level0[i].id] = disk[level0[i].id]
  <2> SUFFICES ASSUME NEW i \in 1 .. Len(level0)
               PROVE  /\ level0[i].id \in 1 .. next_sstable_id - 1
                      /\ disk'[level0[i].id] = disk[level0[i].id]
    OBVIOUS
  <2>1. level0[i].id \in 1 .. next_sstable_id - 1
    BY <1>1 DEF TablesPass
  <2>2. level0[i].id \in 1 .. Len(disk)
    BY <1>3, <2>1
  <2> QED
    BY <1>4, <2>1, <2>2
<1>6. LsmTypeOK'
  BY <1>1, <1>3, <1>4 DEF LsmTypeOK
<1>7. TablesPass'
  <2> SUFFICES ASSUME NEW i \in 1 .. Len(level0)
               PROVE  /\ level0[i].id \in 1 .. (next_sstable_id + 1) - 1
                      /\ \A k \in LsmKey : sstable_get(disk'[level0[i].id], k) # {}
                                             => bloom_may_contain(level0[i].bloom, k)
    BY DEF TablesPass
  <2>1. level0[i].id \in 1 .. (next_sstable_id + 1) - 1
    BY <1>3, <1>5
  <2> QED
    BY <1>1, <1>5, <2>1 DEF TablesPass
<1>8. \A k : SearchIn(level0', disk', k) = SearchIn(level0, disk, k)
  BY <1>3, <1>5, SearchReads
<1>9. MemHolds(c)'
  BY <1>2, <1>8 DEF MemHolds
<1> QED
  BY <1>2, <1>6, <1>7, <1>9 DEF LsmInv

LEMMA SwapKeeps ==
  ASSUME LsmInv, FlushSwap
  PROVE  LsmInv'
<1>1. /\ flushing = "swap" /\ mem' = Nil /\ flushing' = "truncate"
      /\ UNCHANGED <<level0, next_sstable_id, wal, disk, kv>>
  BY DEF FlushSwap
<1>2. LsmTypeOK /\ TablesPass /\ \A k \in LsmKey : SearchIn(level0, disk, k) = kv[k]
  BY <1>1 DEF LsmInv
<1>3. LsmTypeOK' /\ TablesPass'
  <2>1. wal' \in Seq(LogRecord) /\ kv' \in [LsmKey -> LsmVal \cup {Absent}]
    BY <1>1, <1>2 DEF LsmTypeOK
  <2> QED
    BY <1>1, <1>2, <2>1, TablesStay
<1>4. Tree(mem', Bare)
  BY <1>1, NilIsTree
<1>5. MemHolds(Bare)'
  BY <1>1, <1>2 DEF MemHolds, Bare
<1> QED
  BY <1>1, <1>3, <1>4, <1>5 DEF LsmInv

LEMMA TruncateKeeps ==
  ASSUME LsmInv, FlushTruncate
  PROVE  LsmInv'
<1>1. /\ flushing = "truncate" /\ wal' = <<>> /\ flushing' = "no"
      /\ UNCHANGED <<mem, level0, next_sstable_id, disk, kv>>
  BY DEF FlushTruncate
<1>2. LsmTypeOK /\ TablesPass /\ mem = Nil
  BY <1>1 DEF LsmInv
<1>3. \A k \in LsmKey : SearchIn(level0, disk, k) = kv[k]
  BY <1>2, BareHolds
<1>4. LsmTypeOK' /\ TablesPass'
  <2>1. wal' \in Seq(LogRecord) /\ kv' \in [LsmKey -> LsmVal \cup {Absent}]
    BY <1>1, <1>2 DEF LsmTypeOK
  <2> QED
    BY <1>1, <1>2, <2>1, TablesStay
<1>5. Tree(mem', Bare)
  BY <1>1, <1>2, NilIsTree
<1>6. MemHolds(Bare)'
  BY <1>1, <1>3 DEF MemHolds, Bare
<1> QED
  BY <1>1, <1>4, <1>5, <1>6 DEF LsmInv

LEMMA ReopenKeeps ==
  ASSUME LsmInv, Reopen
  PROVE  LsmInv'
<1>1. /\ mem' = Nil /\ level0' = <<>> /\ next_sstable_id' = 1 /\ flushing' = "no"
      /\ kv' = [k \in LsmKey |-> Absent] /\ UNCHANGED <<wal, disk>>
  BY DEF Reopen
<1>2. wal \in Seq(LogRecord) /\ disk \in Seq(Seq(TableRecord)) /\ Len(disk) \in Nat
  BY LenProperties DEF LsmInv, LsmTypeOK
<1>3. Len(level0') = 0
  BY <1>1
<1>4. LsmTypeOK'
  <2>1. 1 <= Len(disk) + 1
    BY <1>2
  <2> QED
    BY <1>1, <1>2, <2>1 DEF LsmTypeOK
<1>5. TablesPass'
  BY <1>3 DEF TablesPass
<1>6. \A k \in LsmKey : SearchIn(level0', disk', k) = kv'[k]
  BY <1>1, SearchNothing
<1>7. Tree(mem', Bare)
  BY <1>1, NilIsTree
<1>8. MemHolds(Bare)'
  BY <1>6 DEF MemHolds, Bare
<1> QED
  BY <1>1, <1>4, <1>5, <1>7, <1>8 DEF LsmInv

LEMMA StayKeeps ==
  ASSUME LsmInv, UNCHANGED <<mem, level0, next_sstable_id, wal, disk, kv>>,
         flushing' = flushing \/ flushing' \in {"no", "write"}
  PROVE  LsmInv'
<1>1. LsmTypeOK /\ TablesPass
  BY DEF LsmInv
<1>2. PICK c : Tree(mem, c) /\ MemHolds(c)
  BY DEF LsmInv
<1>3. LsmTypeOK' /\ TablesPass'
  <2>1. wal' \in Seq(LogRecord) /\ kv' \in [LsmKey -> LsmVal \cup {Absent}]
    BY <1>1 DEF LsmTypeOK
  <2> QED
    BY <1>1, <2>1, TablesStay
<1>4. Tree(mem', c)
  BY <1>2
<1>5. MemHolds(c)'
  BY <1>2 DEF MemHolds
<1> QED
  BY <1>3, <1>4, <1>5 DEF LsmInv

LEMMA LsmNext_Inv == LsmInv /\ [LsmNext]_lvars => LsmInv'
<1> SUFFICES ASSUME LsmInv, [LsmNext]_lvars PROVE LsmInv'
  OBVIOUS
<1>1. ASSUME NEW k \in LsmKey, NEW v \in LsmVal, storage_engine_put(k, v) PROVE LsmInv'
  <2>1. CASE engine = "lsm"
    BY <1>1, <2>1, PutKeeps DEF storage_engine_put
  <2>2. CASE engine # "lsm"
    BY <1>1, <2>2, StayKeeps DEF storage_engine_put, lvars
  <2> QED
    BY <2>1, <2>2
<1>2. ASSUME NEW k \in LsmKey, storage_engine_delete(k) PROVE LsmInv'
  <2>1. CASE engine = "lsm"
    BY <1>2, <2>1, DeleteKeeps DEF storage_engine_delete
  <2>2. CASE engine # "lsm"
    BY <1>2, <2>2, StayKeeps DEF storage_engine_delete, lvars
  <2> QED
    BY <2>1, <2>2
<1>3. CASE FlushWrite
  <2>1. /\ flushing = "write" /\ next_sstable_id' = next_sstable_id + 1
        /\ UNCHANGED <<mem, wal, kv>>
        /\ \/ /\ disk' = PutFile(disk, next_sstable_id, sstable_write(mem).file)
              /\ level0' = Append(level0, [id |-> next_sstable_id, bloom |-> sstable_write(mem).bloom])
              /\ flushing' = "swap"
           \/ /\ disk' = IF next_sstable_id > Len(disk) THEN Append(disk, <<>>) ELSE disk
              /\ flushing' = "no"
              /\ UNCHANGED level0
    BY <1>3 DEF FlushWrite
  <2> QED
    BY <2>1, WriteKeeps, FailedWriteKeeps
<1>4. CASE FlushSwap
  BY <1>4, SwapKeeps
<1>5. CASE FlushTruncate
  BY <1>5, TruncateKeeps
<1>6. CASE storage_engine_close
  BY <1>6, StayKeeps DEF storage_engine_close, lsm_close
<1>7. CASE Reopen
  BY <1>7, ReopenKeeps
<1>8. CASE UNCHANGED lvars
  BY <1>8, StayKeeps DEF lvars
<1> QED
  BY <1>1, <1>2, <1>3, <1>4, <1>5, <1>6, <1>7, <1>8 DEF LsmNext

\* The row and column engines hold nothing and were asked for nothing they kept.
LEMMA LsmInvAnswers ==
  ASSUME LsmInv
  PROVE  LsmReadsLastWrite
<1> SUFFICES ASSUME NEW k \in LsmKey
             PROVE  /\ storage_engine_get(k) = kv[k]
                    /\ kv[k] # Absent => kv[k] \in LogValue(k) \cup TableValue(k)
  BY DEF LsmReadsLastWrite
<1>1. PICK c : Tree(mem, c) /\ MemHolds(c)
  BY DEF LsmInv
<1>2. memtable_find_node(mem, k) = c[k]
  BY <1>1, FindAnswers
<1>3. SearchLevel(k) = SearchIn(level0, disk, k) /\ LogValue(k) = LogIn(wal, k)
  BY SearchLevelUnfolds, LogValueUnfolds
<1>4. c[k] # {} => Only(c[k]) \in c[k]
  BY DEF Only
<1>5. lsm_get(k) = IF c[k] # {} THEN Answer(Only(c[k])) ELSE SearchIn(level0, disk, k)
  BY <1>2, <1>3 DEF lsm_get
<1>6. lsm_get(k) = kv[k]
  BY <1>1, <1>4, <1>5 DEF MemHolds
<1>7. storage_engine_get(k) = kv[k]
  BY <1>6 DEF storage_engine_get
<1>8. ASSUME kv[k] # Absent PROVE kv[k] \in LogValue(k) \cup TableValue(k)
  <2>1. CASE c[k] # {}
    BY <1>1, <1>3, <1>4, <1>8, <2>1 DEF MemHolds
  <2>2. CASE c[k] = {}
    <3> DEFINE H == HitsIn(level0, disk, k)
               N == Newest(H)
               X == sstable_get(disk[level0[N].id], k)
    <3>1. SearchIn(level0, disk, k) = kv[k]
      BY <1>1, <2>2 DEF MemHolds
    <3>2. level0 \in Seq(TableRef) /\ TablesPass
      BY DEF LsmInv, LsmTypeOK
    <3>3. Len(level0) \in Nat /\ DOMAIN level0 = 1 .. Len(level0)
      BY <3>2, LenProperties
    <3>4. H # {} /\ Answer(Only(HitIn(level0[N], disk, k))) = kv[k]
      BY <1>8, <3>1 DEF SearchIn
    <3>5. \A i \in 1 .. Len(level0) : HitIn(level0[i], disk, k) = sstable_get(disk[level0[i].id], k)
      BY <3>2 DEF TablesPass, HitIn
    <3>6. H \subseteq 1 .. Len(level0) /\ \A i \in H : HitIn(level0[i], disk, k) # {}
      BY <3>3 DEF HitsIn
    <3>7. H = {i \in DOMAIN level0 : sstable_get(disk[level0[i].id], k) # {}}
      BY <3>3, <3>5 DEF HitsIn
    <3>8. TableValue(k) = {e.value : e \in X}
      BY <3>4, <3>7 DEF TableValue
    <3> HIDE DEF H
    <3>9. N \in H
      BY <3>3, <3>4, <3>6, NewestIsListed
    <3> HIDE DEF N
    <3>10. HitIn(level0[N], disk, k) = X /\ X # {}
      BY <3>5, <3>6, <3>9
    <3> HIDE DEF X
    <3>11. Only(X) \in X
      BY <3>10 DEF Only
    <3>12. Only(X).value = kv[k]
      BY <1>8, <3>4, <3>10 DEF Answer
    <3> QED
      BY <3>8, <3>11, <3>12
  <2> QED
    BY <2>1, <2>2
<1> QED
  BY <1>7, <1>8

(* A lookup in the LSM engine answers what this process last stored or       *)
(* deleted, through every rotation of the memtable, every step of a flush    *)
(* and every filter (lsm_get over memtable_insert_node, sstable_write and    *)
(* sstable_get), and what it stored is in the log or in a listed table.      *)
THEOREM LsmCorrect == LsmInit /\ [][LsmNext]_lvars => []LsmReadsLastWrite
<1>1. LsmInit => LsmInv
  BY LsmInit_Inv
<1>2. LsmInv /\ [LsmNext]_lvars => LsmInv'
  BY LsmNext_Inv
<1>3. LsmInv => LsmReadsLastWrite
  BY LsmInvAnswers
<1> QED
  BY <1>1, <1>2, <1>3, PTL

-----------------------------------------------------------------------------
(* The coders of src/storage_engine.c.  First what a set of numbers yields. *)

\* A set of naturals that is not empty has a shortest length.
LEMMA ShortestIn ==
  ASSUME NEW T, T \subseteq Nat, T # {}
  PROVE  Shortest(T) \in T /\ \A m \in T : Shortest(T) <= m
BY LeastNumber DEF Shortest

\* So has a finite set of numbers a greatest one.
LEMMA GreatestNumber ==
  ASSUME NEW b \in Nat, NEW T, T \subseteq 0 .. b, T # {}
  PROVE  \E i \in T : \A j \in T : j <= i
<1> DEFINE U == {i \in 0 .. b : b - i \in T}
<1>1. U \subseteq Nat /\ U # {}
  <2>1. PICK i \in T : TRUE
    OBVIOUS
  <2>2. i \in 0 .. b
    BY <2>1
  <2>3. b - i \in 0 .. b /\ b - (b - i) = i
    BY <2>2
  <2>4. b - i \in U
    BY <2>3
  <2>5. U \subseteq Nat
    OBVIOUS
  <2> HIDE DEF U
  <2> QED
    BY <2>4, <2>5
<1>2. PICK m \in U : \A j \in U : m <= j
  <2> HIDE DEF U
  <2> QED
    BY <1>1, LeastNumber
<1>3. ASSUME NEW j \in T PROVE j <= b - m
  <2>1. j \in 0 .. b
    OBVIOUS
  <2>2. b - j \in 0 .. b /\ b - (b - j) = j
    BY <2>1
  <2>3. m <= b - j
    BY <1>2, <2>2
  <2> QED
    BY <2>1, <2>3
<1> QED
  BY <1>2, <1>3

ByteValue == 0 .. Window

\* The match of n bytes at offset before pos: it does not reach pos.
Matches(src, pos, n, offset) ==
  /\ n \in Nat /\ offset \in 1 .. pos /\ n <= Window /\ n <= offset /\ pos + n <= Len(src)
  /\ \A j \in 1 .. n : src[pos - offset + j] = src[pos + j]

\* The inner loop of compress_lz4 stops with a match.
LEMMA MatchLenIs ==
  ASSUME NEW src \in Seq(ByteValue), NEW pos \in 0 .. Len(src), NEW i \in 0 .. pos - 1
  PROVE  Matches(src, pos, MatchLen(src, i, pos), pos - i)
<1> DEFINE N == Len(src)
           most == Least(Window, Least(pos - i, N - pos))
           T == {n \in 0 .. most : n = most \/ src[i + n + 1] # src[pos + n + 1]}
           m == MatchLen(src, i, pos)
<1>1. N \in Nat /\ Window \in Nat /\ pos \in Nat /\ i \in Nat /\ i < pos /\ pos <= N
  BY LenProperties, CodecAssumption
<1>2. most \in Nat /\ most <= Window /\ most <= pos - i /\ pos + most <= N
  BY <1>1 DEF Least
<1> HIDE DEF most
<1>3. m = Shortest(T)
  BY Zenon DEF MatchLen, most
<1>4. most \in T /\ T \subseteq Nat
  BY <1>2
<1>5. m \in T /\ \A n \in T : m <= n
  <2> HIDE DEF T, m
  <2> QED
    BY <1>3, <1>4, ShortestIn
<1> HIDE DEF m
<1>6. m \in Nat /\ m <= most
  BY <1>2, <1>5
<1>7. ASSUME NEW j \in 1 .. m PROVE src[i + j] = src[pos + j]
  <2>1. j - 1 \in 0 .. most /\ ~ (m <= j - 1) /\ j - 1 + 1 = j /\ j - 1 # most
    BY <1>2, <1>6
  <2>2. j - 1 \notin T
    BY <1>5, <2>1
  <2>3. src[i + (j - 1) + 1] = src[pos + (j - 1) + 1]
    BY <2>1, <2>2
  <2>4. i + (j - 1) + 1 = i + j /\ pos + (j - 1) + 1 = pos + j
    BY <1>1, <2>1
  <2> QED
    BY <2>3, <2>4
<1>8. pos - (pos - i) = i /\ pos - i \in 1 .. pos
  BY <1>1
<1>9. m <= Window /\ m <= pos - i /\ pos + m <= N
  BY <1>1, <1>2, <1>6
<1> QED
  BY <1>6, <1>7, <1>8, <1>9 DEF Matches, m

\* Its outer loop finds nothing, or a match that is long enough.
LEMMA BestMatchIs ==
  ASSUME NEW src \in Seq(ByteValue), NEW pos \in 0 .. Len(src)
  PROVE  \/ BestMatch(src, pos) = [len |-> 0, offset |-> 0]
         \/ /\ BestMatch(src, pos).len >= MinMatch
            /\ Matches(src, pos, BestMatch(src, pos).len, BestMatch(src, pos).offset)
<1> DEFINE start == IF pos > Window THEN pos - Window ELSE 0
           len == [i \in start .. pos - 1 |-> MatchLen(src, i, pos)]
           good == {i \in start .. pos - 1 : len[i] >= MinMatch}
           Best(i) == \A j \in good : len[j] < len[i] \/ (len[j] = len[i] /\ i <= j)
           best == CHOOSE i \in good : Best(i)
<1>1. Len(src) \in Nat /\ Window \in Nat /\ pos \in Nat
  BY LenProperties, CodecAssumption
<1>2. start \in Nat
  BY <1>1
<1> HIDE DEF start
<1>3. ASSUME NEW i \in start .. pos - 1
      PROVE  i \in Nat /\ len[i] = MatchLen(src, i, pos) /\ Matches(src, pos, len[i], pos - i)
  <2>1. i \in 0 .. pos - 1
    BY <1>1, <1>2
  <2> QED
    BY <2>1, MatchLenIs
<1>4. BestMatch(src, pos) = IF good = {} THEN [len |-> 0, offset |-> 0]
                            ELSE [len |-> len[best], offset |-> pos - best]
  BY Zenon DEF BestMatch, start
<1>5. ASSUME good # {} PROVE \E i \in good : Best(i)
  <2> DEFINE L == {len[i] : i \in good}
  <2>1. L \subseteq 0 .. Window /\ L # {}
    <3>1. ASSUME NEW i \in good PROVE len[i] \in 0 .. Window
      <4>1. Matches(src, pos, len[i], pos - i)
        BY <1>3
      <4> HIDE DEF len
      <4> QED
        BY <1>1, <4>1 DEF Matches
    <3> HIDE DEF good, len
    <3> QED
      BY <1>5, <3>1
  <2>2. PICK l \in L : \A x \in L : x <= l
    <3> HIDE DEF L
    <3> QED
      BY <1>1, <2>1, GreatestNumber
  <2> DEFINE F == {i \in good : len[i] = l}
  <2>3. F \subseteq Nat /\ F # {}
    BY <1>3
  <2>4. PICK i \in F : \A j \in F : i <= j
    <3> HIDE DEF F
    <3> QED
      BY <2>3, LeastNumber
  <2>5. ASSUME NEW j \in good PROVE len[j] < len[i] \/ (len[j] = len[i] /\ i <= j)
    <3>1. len[j] \in L /\ len[j] \in Nat /\ l \in Nat
      BY <1>1, <2>1
    <3>2. len[j] <= l /\ len[i] = l
      BY <2>2, <2>4, <3>1
    <3>3. CASE len[j] = l
      BY <2>4, <3>2, <3>3
    <3>4. CASE len[j] # l
      BY <3>1, <3>2, <3>4
    <3> QED
      BY <3>3, <3>4
  <2> HIDE DEF good, len
  <2> QED
    BY <2>4, <2>5
<1>6. CASE good = {}
  BY <1>4, <1>6
<1>7. CASE good # {}
  <2>1. best \in good
    <3> HIDE DEF good, Best
    <3> QED
      BY <1>5, <1>7
  <2>2. best \in start .. pos - 1 /\ len[best] >= MinMatch
    BY <2>1
  <2>3. BestMatch(src, pos).len = len[best] /\ BestMatch(src, pos).offset = pos - best
    <3> HIDE DEF good, len, best
    <3> QED
      BY <1>4, <1>7
  <2> HIDE DEF best, len
  <2> QED
    BY <1>3, <2>2, <2>3
<1> QED
  BY <1>6, <1>7

-----------------------------------------------------------------------------
(* What the LZ4-style coder writes. *)

\* What follows a sequence that is only added to.
Begins(a, b) == Len(a) <= Len(b) /\ \A i \in 1 .. Len(a) : b[i] = a[i]

\* To begin with is transitive.
LEMMA BeginsOn ==
  ASSUME NEW a, NEW b, NEW c, Len(a) \in Nat, Len(b) \in Nat, Len(c) \in Nat,
         Begins(a, b), Begins(b, c)
  PROVE  Begins(a, c)
BY DEF Begins

\* A sequence made longer begins with what it was, and goes on with what was added.
LEMMA Lengthened ==
  ASSUME NEW S, NEW a \in Seq(S), NEW b \in Seq(S)
  PROVE  /\ a \o b \in Seq(S) /\ Len(a \o b) = Len(a) + Len(b) /\ Begins(a, a \o b)
         /\ \A i \in 1 .. Len(b) : (a \o b)[Len(a) + i] = b[i]
<1>1. Len(a) \in Nat /\ Len(b) \in Nat
  BY LenProperties
<1>2. /\ a \o b \in Seq(S) /\ Len(a \o b) = Len(a) + Len(b)
      /\ \A i \in 1 .. Len(a) + Len(b) :
           (a \o b)[i] = IF i <= Len(a) THEN a[i] ELSE b[i - Len(a)]
  BY ConcatProperties
<1> DEFINE c == a \o b
<1> HIDE DEF c
<1>3. ASSUME NEW i \in 1 .. Len(a) PROVE c[i] = a[i]
  <2>1. i \in 1 .. Len(a) + Len(b) /\ i <= Len(a)
    BY <1>1
  <2> QED
    BY <1>2, <2>1 DEF c
<1>4. ASSUME NEW i \in 1 .. Len(b) PROVE c[Len(a) + i] = b[i]
  <2>1. /\ Len(a) + i \in 1 .. Len(a) + Len(b) /\ ~ (Len(a) + i <= Len(a))
        /\ Len(a) + i - Len(a) = i
    BY <1>1
  <2> QED
    BY <1>2, <2>1 DEF c
<1> QED
  BY <1>1, <1>2, <1>3, <1>4 DEF Begins, c

\* A function of a loop's states whose output is only added to.
Grows(f, n) ==
  /\ \A k \in 0 .. n : f[k].dst \in Seq(Nat)
  /\ \A k \in 1 .. n : Begins(f[k - 1].dst, f[k].dst)

\* A loop whose passes only append: every state of it begins its last one.
LEMMA GrownFrom ==
  ASSUME NEW n \in Nat, NEW f, Grows(f, n), NEW k \in 0 .. n
  PROVE  Begins(f[k].dst, f[n].dst)
<1> DEFINE Good == {j \in 0 .. n : k <= j => Begins(f[k].dst, f[j].dst)}
<1>1. \A j \in 0 .. n : f[j].dst \in Seq(Nat) /\ Len(f[j].dst) \in Nat
  BY LenProperties DEF Grows
<1>2. 0 \in Good
  <2>1. k <= 0 => k = 0
    OBVIOUS
  <2> QED
    BY <1>1, <2>1 DEF Begins
<1>3. ASSUME NEW j \in 1 .. n, j - 1 \in Good PROVE j \in Good
  <2>1. j \in 0 .. n /\ j - 1 \in 0 .. n /\ (k <= j => k <= j - 1 \/ k = j)
    OBVIOUS
  <2>2. Begins(f[j - 1].dst, f[j].dst)
    BY DEF Grows
  <2>3. CASE k <= j - 1
    <3>1. Begins(f[k].dst, f[j - 1].dst)
      BY <1>3, <2>3
    <3>2. Len(f[k].dst) \in Nat /\ Len(f[j - 1].dst) \in Nat /\ Len(f[j].dst) \in Nat
      BY <1>1, <2>1
    <3>3. Begins(f[k].dst, f[j].dst)
      BY <2>2, <3>1, <3>2, BeginsOn
    <3> QED
      BY <2>1, <3>3
  <2>4. CASE k = j
    BY <1>1, <2>1, <2>4 DEF Begins
  <2> QED
    BY <2>1, <2>3, <2>4
<1> HIDE DEF Good
<1>4. n \in Good
  BY <1>2, <1>3, RoundsKeep
<1> QED
  BY <1>4 DEF Good

LzState(src) == [pos : 0 .. Len(src), dst : Seq(Nat)]
\* A pass codes a byte at least, or the input or the room is at its end.
LzMade(src, cap, k, s) == s.pos >= k \/ s.pos = Len(src) \/ Len(s.dst) >= cap - 2

\* What one pass does to a state: nothing, a byte or a match.
LzIdle(src, cap, s, t) == t = s /\ (s.pos = Len(src) \/ Len(s.dst) >= cap - 2)
LzByte(src, s, t) ==
  t = [pos |-> s.pos + 1, dst |-> s.dst \o <<0, src[s.pos + 1]>>]
LzMatch(src, s, t, m) ==
  /\ m = BestMatch(src, s.pos) /\ m.len >= MinMatch /\ Matches(src, s.pos, m.len, m.offset)
  /\ t = [pos |-> s.pos + m.len, dst |-> s.dst \o MatchBytes(m)]

\* A pass of compress_lz4 ends the loop, or codes a byte or a match.
LEMMA LzPassed ==
  ASSUME NEW src \in Seq(ByteValue), NEW cap \in Nat, NEW s \in LzState(src)
  PROVE  \/ LzIdle(src, cap, s, LzPass(src, cap, s))
         \/ /\ s.pos < Len(src)
            /\ \/ LzByte(src, s, LzPass(src, cap, s))
               \/ LzMatch(src, s, LzPass(src, cap, s), BestMatch(src, s.pos))
<1> DEFINE m == BestMatch(src, s.pos)
           w == IF m.len >= MinMatch THEN 3 ELSE 2
           room == Len(s.dst) + w <= cap
<1>1. /\ s.pos \in 0 .. Len(src) /\ s.dst \in Seq(Nat) /\ Len(src) \in Nat /\ Len(s.dst) \in Nat
      /\ MinMatch \in Nat
  BY LenProperties, CodecAssumption DEF LzState
<1>2. \/ m = [len |-> 0, offset |-> 0]
      \/ m.len >= MinMatch /\ Matches(src, s.pos, m.len, m.offset)
  BY <1>1, BestMatchIs
<1>3. LzPass(src, cap, s) =
        IF s.pos >= Len(src) \/ Len(s.dst) >= cap - 1 \/ ~room THEN s
        ELSE IF m.len >= MinMatch
             THEN [pos |-> s.pos + m.len, dst |-> s.dst \o MatchBytes(m)]
             ELSE [pos |-> s.pos + 1, dst |-> s.dst \o <<0, src[s.pos + 1]>>]
  BY DEF LzPass
<1>0. w \in {2, 3}
  OBVIOUS
<1> HIDE DEF m, w
<1>4. CASE s.pos >= Len(src) \/ Len(s.dst) >= cap - 1 \/ ~room
  <2>1. s.pos = Len(src) \/ Len(s.dst) >= cap - 2
    BY <1>0, <1>1, <1>4
  <2> QED
    BY <1>3, <1>4, <2>1 DEF LzIdle
<1>5. CASE ~ (s.pos >= Len(src) \/ Len(s.dst) >= cap - 1 \/ ~room)
  <2>1. s.pos < Len(src)
    BY <1>1, <1>5
  <2>2. CASE m.len >= MinMatch
    <3>1. m # [len |-> 0, offset |-> 0]
      <4>1. MinMatch > 0
        BY CodecAssumption
      <4> QED
        BY <1>1, <2>2, <4>1
    <3> QED
      BY <1>2, <1>3, <1>5, <2>1, <2>2, <3>1 DEF LzMatch, m
  <2>3. CASE ~ (m.len >= MinMatch)
    BY <1>3, <1>5, <2>1, <2>3 DEF LzByte
  <2> QED
    BY <2>2, <2>3
<1> QED
  BY <1>4, <1>5 DEF m

\* The two or three bytes of a match.
LEMMA MatchBytesAre ==
  ASSUME NEW src, NEW pos, NEW m, Matches(src, pos, m.len, m.offset), Len(src) \in Nat, pos \in Nat
  PROVE  /\ MatchBytes(m) \in Seq(Nat)
         /\ MatchBytes(m)[1] = MatchFlag + Least(m.len, Nibble) /\ MatchBytes(m)[2] = m.offset
         /\ Len(MatchBytes(m)) = IF m.len > Nibble THEN 3 ELSE 2
         /\ m.len > Nibble => MatchBytes(m)[3] = m.len - Nibble
<1>1. /\ m.len \in Nat /\ m.offset \in Nat /\ Nibble \in Nat
      /\ MatchFlag + Least(m.len, Nibble) \in Nat
  BY CodecAssumption DEF Matches, Least, MatchFlag
<1> DEFINE b == MatchFlag + Least(m.len, Nibble)
           n == m.len
           o == m.offset
<1> HIDE DEF b, n, o
<1>2. CASE m.len > Nibble
  <2>1. n - Nibble \in Nat
    BY <1>1, <1>2 DEF n
  <2> DEFINE x == n - Nibble
             e == <<b, o>>
             d == <<x>>
  <2> HIDE DEF x
  <2>2. MatchBytes(m) = e \o d
    BY <1>2 DEF MatchBytes, b, n, o, x
  <2>3. e \in Seq(Nat) /\ Len(e) = 2 /\ e[1] = b /\ e[2] = o
    BY <1>1 DEF b, o
  <2>4. d \in Seq(Nat) /\ Len(d) = 1 /\ d[1] = x
    BY <2>1 DEF x
  <2> HIDE DEF e, d
  <2>5. /\ e \o d \in Seq(Nat) /\ Len(e \o d) = 3
        /\ (e \o d)[1] = b /\ (e \o d)[2] = o /\ (e \o d)[3] = x
    <3>1. /\ e \o d \in Seq(Nat) /\ Len(e \o d) = Len(e) + Len(d) /\ Begins(e, e \o d)
          /\ \A i \in 1 .. Len(d) : (e \o d)[Len(e) + i] = d[i]
      <4>1. e \in Seq(Nat) /\ d \in Seq(Nat)
        BY <2>3, <2>4
      <4> QED
        BY <4>1, Lengthened
    <3>2. 1 \in 1 .. Len(e) /\ 2 \in 1 .. Len(e) /\ 1 \in 1 .. Len(d) /\ Len(e) + 1 = 3
      BY <2>3, <2>4
    <3>3. (e \o d)[3] = x
      BY <2>4, <3>1, <3>2
    <3>4. (e \o d)[1] = b /\ (e \o d)[2] = o
      BY <2>3, <3>1, <3>2 DEF Begins
    <3> QED
      BY <2>3, <2>4, <3>1, <3>3, <3>4
  <2> QED
    BY <1>2, <2>2, <2>5 DEF b, n, o, x
<1>3. CASE ~ (m.len > Nibble)
  <2>1. MatchBytes(m) = <<b, o>> \o <<>>
    BY <1>3 DEF MatchBytes, b, o
  <2>2. <<b, o>> \o <<>> = <<b, o>>
    BY <1>1 DEF b, o
  <2> QED
    BY <1>1, <1>3, <2>1, <2>2 DEF b, n, o
<1> QED
  BY <1>2, <1>3

\* A pass keeps the state well formed, gets on, and only appends.
LEMMA LzStep ==
  ASSUME NEW src \in Seq(ByteValue), NEW cap \in Nat, NEW k \in 1 .. Len(src),
         NEW s \in LzState(src), LzMade(src, cap, k - 1, s)
  PROVE  /\ LzPass(src, cap, s) \in LzState(src) /\ LzMade(src, cap, k, LzPass(src, cap, s))
         /\ Begins(s.dst, LzPass(src, cap, s).dst)
<1> DEFINE t == LzPass(src, cap, s)
<1>1. /\ s.pos \in 0 .. Len(src) /\ s.dst \in Seq(Nat) /\ Len(src) \in Nat /\ Len(s.dst) \in Nat
      /\ MinMatch \in Nat \ {0} /\ k \in Int
  BY LenProperties, CodecAssumption DEF LzState
<1>2. \/ LzIdle(src, cap, s, t)
      \/ s.pos < Len(src) /\ (LzByte(src, s, t) \/ LzMatch(src, s, t, BestMatch(src, s.pos)))
  BY LzPassed
<1> HIDE DEF t
<1>3. CASE LzIdle(src, cap, s, t)
  <2>1. t = s /\ (s.pos = Len(src) \/ Len(s.dst) >= cap - 2)
    BY <1>3 DEF LzIdle
  <2>2. Begins(s.dst, s.dst)
    BY <1>1 DEF Begins
  <2> QED
    BY <2>1, <2>2 DEF LzMade, t
<1>4. ASSUME s.pos < Len(src), NEW n \in Nat \ {0}, s.pos + n <= Len(src), NEW e \in Seq(Nat),
             t = [pos |-> s.pos + n, dst |-> s.dst \o e]
      PROVE  t \in LzState(src) /\ LzMade(src, cap, k, t) /\ Begins(s.dst, t.dst)
  <2>1. t.dst \in Seq(Nat) /\ Len(t.dst) = Len(s.dst) + Len(e) /\ Begins(s.dst, t.dst)
    BY <1>1, <1>4, Lengthened
  <2>2. t.pos \in 0 .. Len(src) /\ t.pos > s.pos
    BY <1>1, <1>4
  <2>3. Len(t.dst) >= Len(s.dst)
    BY <1>1, <2>1, LenProperties
  <2>4. t \in LzState(src)
    BY <1>4, <2>1, <2>2 DEF LzState
  <2>5. LzMade(src, cap, k, t)
    <3> DEFINE N == Len(src)
               l == Len(s.dst)
               m == Len(t.dst)
    <3>1. m \in Nat /\ m >= l /\ l \in Nat /\ N \in Nat
      BY <1>1, <2>1, <2>3, LenProperties
    <3>2. s.pos >= k - 1 \/ s.pos = N \/ l >= cap - 2
      BY DEF LzMade
    <3>3. s.pos \in 0 .. N /\ t.pos \in 0 .. N /\ t.pos > s.pos
      BY <1>1, <2>2
    <3> HIDE DEF N, l, m
    <3>4. t.pos >= k \/ t.pos = N \/ m >= cap - 2
      BY <1>1, <3>1, <3>2, <3>3
    <3> QED
      BY <3>4 DEF LzMade, N, m
  <2> QED
    BY <2>1, <2>4, <2>5
<1>5. CASE s.pos < Len(src) /\ LzByte(src, s, t)
  <2>1. <<0, src[s.pos + 1]>> \in Seq(Nat) /\ s.pos + 1 <= Len(src)
    <3>1. s.pos + 1 \in 1 .. Len(src)
      BY <1>1, <1>5
    <3>2. src[s.pos + 1] \in Nat
      BY <3>1, CodecAssumption DEF ByteValue
    <3> QED
      BY <1>1, <3>1, <3>2
  <2> DEFINE e == <<0, src[s.pos + 1]>>
  <2>2. t = [pos |-> s.pos + 1, dst |-> s.dst \o e] /\ 1 \in Nat \ {0}
    BY <1>5 DEF LzByte
  <2> HIDE DEF e
  <2>3. t \in LzState(src) /\ LzMade(src, cap, k, t) /\ Begins(s.dst, t.dst)
    BY <1>4, <1>5, <2>1, <2>2 DEF e
  <2> QED
    BY <2>3 DEF t
<1>6. CASE s.pos < Len(src) /\ LzMatch(src, s, t, BestMatch(src, s.pos))
  <2> DEFINE m == BestMatch(src, s.pos)
  <2> HIDE DEF m
  <2>1. /\ Matches(src, s.pos, m.len, m.offset) /\ m.len >= MinMatch
        /\ t = [pos |-> s.pos + m.len, dst |-> s.dst \o MatchBytes(m)]
    BY <1>6 DEF LzMatch, m
  <2>2. MatchBytes(m) \in Seq(Nat)
    BY <1>1, <2>1, MatchBytesAre
  <2>3. m.len \in Nat \ {0} /\ s.pos + m.len <= Len(src)
    BY <1>1, <2>1 DEF Matches
  <2>4. t \in LzState(src) /\ LzMade(src, cap, k, t) /\ Begins(s.dst, t.dst)
    BY <1>4, <1>6, <2>1, <2>2, <2>3
  <2> QED
    BY <2>4 DEF t
<1> QED
  BY <1>2, <1>3, <1>5, <1>6 DEF t

LzRunIs(src, cap, f) ==
  f = [k \in 0 .. Len(src) |-> IF k = 0 THEN [pos |-> 0, dst |-> <<Len(src)>>] ELSE LzPass(src, cap, f[k - 1])]

\* The states of the coder's loop exist and are as one pass keeps them.
LEMMA LzRuns ==
  ASSUME NEW src \in Seq(ByteValue),
         NEW cap \in Nat
  PROVE  /\ LzRunIs(src, cap, LzRun(src, cap))
         /\ \A k \in 0 .. Len(src) : LzRun(src, cap)[k] \in LzState(src) /\ LzMade(src, cap, k, LzRun(src, cap)[k])
<1> DEFINE n == Len(src)
           S == LzState(src)
           a == [pos |-> 0, dst |-> <<Len(src)>>]
           step == [s \in S |-> LzPass(src, cap, s)]
           Good == {x \in (0 .. n) \X S : LzMade(src, cap, x[1], x[2])}
<1>1. n \in Nat
  BY LenProperties
<1>2. a \in S /\ LzMade(src, cap, 0, a)
  BY <1>1 DEF LzState, LzMade
<1>3. KeptBy(n, S, a, step, Good)
  <2>1. <<0, a>> \in Good
    <3> HIDE DEF S, a
    <3> QED
      BY <1>1, <1>2
  <2>2. ASSUME NEW k \in 1 .. n, NEW s \in S, <<k - 1, s>> \in Good
        PROVE  step[s] \in S /\ <<k, step[s]>> \in Good
    <3>1. LzMade(src, cap, k - 1, s)
      BY <2>2
    <3>2. LzPass(src, cap, s) \in S /\ LzMade(src, cap, k, LzPass(src, cap, s))
      BY <3>1, LzStep
    <3>3. step[s] = LzPass(src, cap, s) /\ k \in 0 .. n
      BY <1>1
    <3> HIDE DEF S, step
    <3> QED
      BY <3>2, <3>3
  <2> HIDE DEF n, S, a, step, Good
  <2> QED
    BY <2>1, <2>2 DEF KeptBy
<1> HIDE DEF a, Good
<1>4. \E f : LzRunIs(src, cap, f)
  <2>1. PICK f : f = [k \in 0 .. n |-> f[k]] /\ Goes(f, n, S, a, step)
    <3> HIDE DEF n, S, step
    <3> QED
      BY <1>1, <1>2, <1>3, LoopExists
  <2>2. \A k \in 0 .. n : f[k] \in S
    <3> HIDE DEF n, S, step
    <3> QED
      BY <1>1, <1>2, <1>3, <2>1, LoopKeeps
  <2>3. ASSUME NEW k \in 0 .. n
        PROVE  f[k] = IF k = 0 THEN a ELSE LzPass(src, cap, f[k - 1])
    <3>1. CASE k = 0
      BY <2>1, <3>1 DEF Goes
    <3>2. CASE k # 0
      <4>1. k \in 1 .. n /\ k - 1 \in 0 .. n
        BY <1>1, <3>2
      <4>2. f[k - 1] \in S /\ f[k] = step[f[k - 1]]
        BY <2>1, <2>2, <4>1 DEF Goes
      <4> QED
        BY <3>2, <4>2
    <3> QED
      BY <3>1, <3>2
  <2> QED
    BY <2>1, <2>3 DEF LzRunIs, a
<1> DEFINE g == CHOOSE f : LzRunIs(src, cap, f)
<1>5. LzRunIs(src, cap, g)
  BY <1>4
<1>6. LzRun(src, cap) = g
  BY Zenon DEF LzRun, LzRunIs
<1> HIDE DEF g
<1>7. Goes(g, n, S, a, step)
  <2>1. g[0] = a
    BY <1>1, <1>5 DEF LzRunIs, a
  <2>2. ASSUME NEW k \in 1 .. n, g[k - 1] \in S PROVE g[k] = step[g[k - 1]]
    <3>1. k \in 0 .. n /\ k # 0
      BY <1>1
    <3>2. g[k] = LzPass(src, cap, g[k - 1])
      BY <1>5, <3>1 DEF LzRunIs
    <3> QED
      BY <2>2, <3>2
  <2> HIDE DEF n, S, step
  <2> QED
    BY <2>1, <2>2 DEF Goes
<1>8. ASSUME NEW k \in 0 .. n PROVE g[k] \in S /\ LzMade(src, cap, k, g[k])
  <2>1. <<k, g[k]>> \in Good
    <3> HIDE DEF n, S, step
    <3> QED
      BY <1>1, <1>2, <1>3, <1>7, LoopKeeps
  <2> QED
    BY <2>1 DEF Good
<1> QED
  BY <1>5, <1>6, <1>8

-----------------------------------------------------------------------------
(* What the decoder makes of it. *)

\* The first bytes of a sequence.
LEMMA FirstBytes ==
  ASSUME NEW S, NEW src \in Seq(S), NEW p \in 0 .. Len(src)
  PROVE  /\ SubSeq(src, 1, p) \in Seq(S) /\ Len(SubSeq(src, 1, p)) = p
         /\ \A i \in 1 .. p : SubSeq(src, 1, p)[i] = src[i]
<1>1. Len(src) \in Nat /\ \A i \in 1 .. Len(src) : src[i] \in S
  BY LenProperties
<1>2. 1 \in Int /\ p \in Int /\ p \in Nat /\ \A i \in 1 .. p : src[i] \in S /\ 1 + i - 1 = i
  BY <1>1
<1>3. /\ SubSeq(src, 1, p) \in Seq(S)
      /\ Len(SubSeq(src, 1, p)) = IF 1 <= p THEN p - 1 + 1 ELSE 0
      /\ \A i \in 1 .. p - 1 + 1 : SubSeq(src, 1, p)[i] = src[1 + i - 1]
  BY <1>2, SubSeqProperties
<1>4. p - 1 + 1 = p
  BY <1>2
<1> QED
  BY <1>2, <1>3, <1>4

\* The bytes up to a position and the next one.
LEMMA OneByteMore ==
  ASSUME NEW S, NEW src \in Seq(S), NEW p \in 0 .. Len(src) - 1
  PROVE  SubSeq(src, 1, p + 1) = Append(SubSeq(src, 1, p), src[p + 1])
<1>1. Len(src) \in Nat /\ p \in Nat /\ p \in 0 .. Len(src) /\ p + 1 \in 0 .. Len(src) /\ p + 1 \in 1 .. Len(src)
  BY LenProperties
<1> DEFINE a == SubSeq(src, 1, p)
           b == SubSeq(src, 1, p + 1)
           q == p + 1
<1>2. a \in Seq(S) /\ Len(a) = p /\ \A i \in 1 .. p : a[i] = src[i]
  BY <1>1, FirstBytes
<1>3. b \in Seq(S) /\ Len(b) = q /\ \A i \in 1 .. q : b[i] = src[i]
  <2> HIDE DEF q
  <2> QED
    BY <1>1, FirstBytes DEF q
<1>4. src[q] \in S
  BY <1>1
<1> HIDE DEF a, b
<1> DEFINE c == Append(a, src[q])
<1>5. c \in Seq(S) /\ Len(c) = q /\ (\A i \in 1 .. p : c[i] = a[i]) /\ c[q] = src[q]
  BY <1>2, <1>4, AppendProperties
<1> HIDE DEF c
<1>6. ASSUME NEW i \in 1 .. q PROVE b[i] = c[i]
  <2>1. i \in 1 .. p \/ i = q
    BY <1>1
  <2> QED
    BY <1>2, <1>3, <1>5, <2>1
<1>7. b = c
  <2> HIDE DEF q
  <2> QED
    BY <1>3, <1>5, <1>6, SeqEqual
<1> QED
  BY <1>7 DEF b, c

\* A match is copied from the part of the output that is written.
Copied(src, pos, m, k, s) == s = SubSeq(src, 1, Least(pos + k, pos + m))

\* A pass of the decoder's copy loop adds the next byte of the match.
LEMMA CopyStep ==
  ASSUME NEW src \in Seq(ByteValue), NEW pos \in 0 .. Len(src), NEW m, NEW o, Matches(src, pos, m, o),
         NEW n \in Nat, m <= n, n = m \/ pos + m = Len(src),
         NEW k \in 1 .. n, NEW s \in Seq(ByteValue), Copied(src, pos, m, k - 1, s)
  PROVE  CopyByte(s, o, Len(src)) \in Seq(ByteValue) /\ Copied(src, pos, m, k, CopyByte(s, o, Len(src)))
<1> DEFINE N == Len(src)
<1>1. /\ N \in Nat /\ pos \in Nat /\ m \in Nat /\ o \in 1 .. pos /\ m <= o /\ pos + m <= N
      /\ k \in Nat /\ k >= 1
  BY LenProperties DEF Matches
<1>2. CASE k <= m
  <2> DEFINE p == pos + (k - 1)
  <2>1. Least(pos + (k - 1), pos + m) = p /\ Least(pos + k, pos + m) = p + 1
    BY <1>1, <1>2 DEF Least
  <2>2. p \in 0 .. N /\ p \in 0 .. N - 1 /\ p < N /\ p >= o /\ p \in Nat
    BY <1>1, <1>2
  <2>3. s = SubSeq(src, 1, p)
    BY <2>1 DEF Copied
  <2>4. p - o + 1 \in 1 .. p /\ p - o + 1 = pos - o + k /\ pos + k = p + 1
    BY <1>1, <1>2, <2>2
  <2>5. src[pos - o + k] = src[pos + k]
    <3>1. k \in 1 .. m
      BY <1>1, <1>2
    <3> QED
      BY <3>1 DEF Matches
  <2> HIDE DEF p
  <2>6. s \in Seq(ByteValue) /\ Len(s) = p /\ \A i \in 1 .. p : s[i] = src[i]
    BY <2>2, <2>3, FirstBytes
  <2>7. s[Len(s) - o + 1] = src[p + 1]
    BY <2>4, <2>5, <2>6
  <2>8. CopyByte(s, o, N) = Append(s, src[p + 1])
    BY <1>1, <2>2, <2>6, <2>7 DEF CopyByte
  <2>9. CopyByte(s, o, N) = SubSeq(src, 1, p + 1)
    BY <2>2, <2>3, <2>8, OneByteMore
  <2>10. CopyByte(s, o, N) \in Seq(ByteValue)
    <3> DEFINE q == p + 1
    <3>1. q \in 0 .. Len(src)
      BY <1>1, <2>2
    <3> HIDE DEF q
    <3>2. SubSeq(src, 1, q) \in Seq(ByteValue)
      BY <3>1, FirstBytes
    <3> QED
      BY <2>9, <3>2 DEF q
  <2> QED
    BY <2>1, <2>9, <2>10 DEF Copied
<1>3. CASE ~ (k <= m)
  <2>1. pos + m = N
    BY <1>1, <1>3
  <2>2. Least(pos + (k - 1), pos + m) = N /\ Least(pos + k, pos + m) = N
    BY <1>1, <1>3, <2>1 DEF Least
  <2>3. s = SubSeq(src, 1, N) /\ N \in 0 .. Len(src)
    BY <1>1, <2>2 DEF Copied
  <2>4. Len(s) = N
    BY <2>3, FirstBytes
  <2>5. CopyByte(s, o, N) = s
    BY <1>1, <2>4 DEF CopyByte
  <2> QED
    BY <2>2, <2>3, <2>5 DEF Copied
<1> QED
  BY <1>2, <1>3

CopyRunIs(dst, offset, n, size, f) ==
  f = [k \in 0 .. n |-> IF k = 0 THEN dst ELSE CopyByte(f[k - 1], offset, size)]

\* The states of the copy loop: after k passes k bytes of the match.
LEMMA CopyRuns ==
  ASSUME NEW src \in Seq(ByteValue),
         NEW pos \in 0 .. Len(src),
         NEW m,
         NEW o,
         Matches(src, pos, m, o),
         NEW n \in Nat,
         m <= n,
         n = m \/ pos + m = Len(src)
  PROVE  \E f : /\ CopyRunIs(SubSeq(src, 1, pos), o, n, Len(src), f) /\ CopyBack(SubSeq(src, 1, pos), o, n, Len(src)) = f[n]
              /\ \A k \in 0 .. n : f[k] \in Seq(ByteValue) /\ Copied(src, pos, m, k, f[k])
<1> DEFINE S == Seq(ByteValue)
           a == SubSeq(src, 1, pos)
           step == [s \in S |-> CopyByte(s, o, Len(src))]
           Good == {x \in (0 .. n) \X S : Copied(src, pos, m, x[1], x[2])}
<1>1. n \in Nat
  OBVIOUS
<1>2. a \in S /\ Copied(src, pos, m, 0, a)
  BY LenProperties, FirstBytes DEF Copied, Matches, Least
<1>3. KeptBy(n, S, a, step, Good)
  <2>1. <<0, a>> \in Good
    <3> HIDE DEF S, a
    <3> QED
      BY <1>1, <1>2
  <2>2. ASSUME NEW k \in 1 .. n, NEW s \in S, <<k - 1, s>> \in Good
        PROVE  step[s] \in S /\ <<k, step[s]>> \in Good
    <3>1. Copied(src, pos, m, k - 1, s)
      BY <2>2
    <3>2. CopyByte(s, o, Len(src)) \in S /\ Copied(src, pos, m, k, CopyByte(s, o, Len(src)))
      BY <3>1, CopyStep
    <3>3. step[s] = CopyByte(s, o, Len(src)) /\ k \in 0 .. n
      BY <1>1
    <3> HIDE DEF S, step
    <3> QED
      BY <3>2, <3>3
  <2> HIDE DEF S, a, step, Good
  <2> QED
    BY <2>1, <2>2 DEF KeptBy
<1> HIDE DEF a, Good
<1>4. \E f : CopyRunIs(SubSeq(src, 1, pos), o, n, Len(src), f)
  <2>1. PICK f : f = [k \in 0 .. n |-> f[k]] /\ Goes(f, n, S, a, step)
    <3> HIDE DEF S, step
    <3> QED
      BY <1>1, <1>2, <1>3, LoopExists
  <2>2. \A k \in 0 .. n : f[k] \in S
    <3> HIDE DEF S, step
    <3> QED
      BY <1>1, <1>2, <1>3, <2>1, LoopKeeps
  <2>3. ASSUME NEW k \in 0 .. n
        PROVE  f[k] = IF k = 0 THEN a ELSE CopyByte(f[k - 1], o, Len(src))
    <3>1. CASE k = 0
      BY <2>1, <3>1 DEF Goes
    <3>2. CASE k # 0
      <4>1. k \in 1 .. n /\ k - 1 \in 0 .. n
        BY <1>1, <3>2
      <4>2. f[k - 1] \in S /\ f[k] = step[f[k - 1]]
        BY <2>1, <2>2, <4>1 DEF Goes
      <4> QED
        BY <3>2, <4>2
    <3> QED
      BY <3>1, <3>2
  <2> QED
    BY <2>1, <2>3 DEF CopyRunIs, a
<1> DEFINE g == CHOOSE f : CopyRunIs(SubSeq(src, 1, pos), o, n, Len(src), f)
<1>5. CopyRunIs(SubSeq(src, 1, pos), o, n, Len(src), g)
  BY <1>4
<1>6. CopyBack(SubSeq(src, 1, pos), o, n, Len(src)) = g[n]
  BY Zenon DEF CopyBack, CopyRunIs
<1> HIDE DEF g
<1>7. Goes(g, n, S, a, step)
  <2>1. g[0] = a
    BY <1>1, <1>5 DEF CopyRunIs, a
  <2>2. ASSUME NEW k \in 1 .. n, g[k - 1] \in S PROVE g[k] = step[g[k - 1]]
    <3>1. k \in 0 .. n /\ k # 0
      BY <1>1
    <3>2. g[k] = CopyByte(g[k - 1], o, Len(src))
      BY <1>5, <3>1 DEF CopyRunIs
    <3> QED
      BY <2>2, <3>2
  <2> HIDE DEF S, step
  <2> QED
    BY <2>1, <2>2 DEF Goes
<1>8. ASSUME NEW k \in 0 .. n PROVE g[k] \in S /\ Copied(src, pos, m, k, g[k])
  <2>1. <<k, g[k]>> \in Good
    <3> HIDE DEF S, step
    <3> QED
      BY <1>1, <1>2, <1>3, <1>7, LoopKeeps
  <2> QED
    BY <2>1 DEF Good
<1> QED
  BY <1>5, <1>6, <1>8

\* Copying a match back gives what the coder read.
LEMMA CopyBackIs ==
  ASSUME NEW src \in Seq(ByteValue), NEW pos \in 0 .. Len(src), NEW m, NEW o, Matches(src, pos, m, o),
         NEW n \in Nat, m <= n, n = m \/ pos + m = Len(src)
  PROVE  CopyBack(SubSeq(src, 1, pos), o, n, Len(src)) = SubSeq(src, 1, pos + m)
<1>1. PICK f : /\ CopyBack(SubSeq(src, 1, pos), o, n, Len(src)) = f[n]
               /\ \A k \in 0 .. n : Copied(src, pos, m, k, f[k])
  BY CopyRuns
<1>2. n \in 0 .. n /\ Least(pos + n, pos + m) = pos + m
  BY LenProperties DEF Least, Matches
<1> QED
  BY <1>1, <1>2 DEF Copied

\* The flag of a match and its length share a byte without touching.
LEMMA FlagFits ==
  ASSUME NEW x \in 0 .. Nibble
  PROVE  (MatchFlag + x) % (Nibble + 1) = x
<1> DEFINE w == Nibble + 1
           q == MatchFlag \div w
<1>1. MatchFlag \in Int /\ w \in Nat \ {0} /\ MatchFlag % w = 0 /\ x \in 0 .. w - 1
  BY CodecAssumption DEF MatchFlag
<1> HIDE DEF w
<1>2. q \in Int /\ MatchFlag = w * q + (MatchFlag % w)
  BY <1>1, ModRange
<1> HIDE DEF q
<1>3. (w * q + x) % w = x
  BY <1>1, <1>2, ModUnique
<1>4. w * q \in Int
  BY <1>1, <1>2
<1>5. MatchFlag = w * q
  BY <1>1, <1>2, <1>4
<1> QED
  BY <1>3, <1>5 DEF w

\* The coded bytes with what is left of the page behind them: the coder was not
\* cut short, and no match has the one length without a code.
LzInput(src, cap, in) ==
  LET f == LzRun(src, cap)
      packed == f[Len(src)].dst
  IN  /\ src \in Seq(ByteValue) /\ cap \in Nat /\ in \in Seq(Nat) /\ Len(in) = Len(src)
      /\ Begins(packed, in) /\ Len(packed) < Len(src) /\ Len(packed) < cap - 2
      /\ \A k \in 0 .. Len(src) :
           f[k].pos < Len(src) /\ BestMatch(src, f[k].pos).len = Nibble =>
             f[k].pos + Nibble = Len(src) /\ Nibble + in[Len(packed) + 1] <= Window

\* A length that fits a byte is not changed by the byte's width.
LEMMA SmallMod ==
  ASSUME NEW w \in Nat, NEW x \in 0 .. w
  PROVE  x % (w + 1) = x
OBVIOUS

\* The coder's states all begin the last one, and its passes suffice.
LEMMA LzCoded ==
  ASSUME NEW src \in Seq(ByteValue), NEW cap \in Nat
  PROVE  /\ Grows(LzRun(src, cap), Len(src))
         /\ LzRun(src, cap)[0] = [pos |-> 0, dst |-> <<Len(src)>>]
         /\ \A k \in 0 .. Len(src) : LzRun(src, cap)[k] \in LzState(src)
         /\ \A k \in 1 .. Len(src) : LzRun(src, cap)[k] = LzPass(src, cap, LzRun(src, cap)[k - 1])
         /\ LzMade(src, cap, Len(src), LzRun(src, cap)[Len(src)])
<1> DEFINE f == LzRun(src, cap)
           n == Len(src)
<1>1. n \in Nat
  BY LenProperties
<1>2. LzRunIs(src, cap, f) /\ \A k \in 0 .. n : f[k] \in LzState(src) /\ LzMade(src, cap, k, f[k])
  BY LzRuns
<1> HIDE DEF f
<1>3. f[0] = [pos |-> 0, dst |-> <<n>>]
  BY <1>1, <1>2 DEF LzRunIs
<1>4. ASSUME NEW k \in 1 .. n
      PROVE  f[k] = LzPass(src, cap, f[k - 1]) /\ Begins(f[k - 1].dst, f[k].dst)
  <2>1. k \in 0 .. n /\ k # 0 /\ k - 1 \in 0 .. n
    BY <1>1
  <2>2. f[k] = LzPass(src, cap, f[k - 1])
    BY <1>2, <2>1 DEF LzRunIs
  <2>3. f[k - 1] \in LzState(src) /\ LzMade(src, cap, k - 1, f[k - 1])
    BY <1>2, <2>1
  <2> QED
    BY <2>2, <2>3, LzStep
<1>5. ASSUME NEW k \in 0 .. n PROVE f[k].dst \in Seq(Nat)
  BY <1>2 DEF LzState
<1>6. Grows(f, n)
  BY <1>4, <1>5 DEF Grows
<1>7. n \in 0 .. n
  BY <1>1
<1> QED
  BY <1>2, <1>3, <1>4, <1>6, <1>7 DEF f

\* Where the input is coded, nothing is added.
LEMMA LzFinished ==
  ASSUME NEW src \in Seq(ByteValue), NEW cap \in Nat, NEW k \in 0 .. Len(src),
         LzRun(src, cap)[k].pos = Len(src)
  PROVE  LzRun(src, cap)[Len(src)] = LzRun(src, cap)[k]
<1> DEFINE f == LzRun(src, cap)
           n == Len(src)
           Good == {j \in 0 .. n : k <= j => f[j] = f[k]}
<1>1. /\ n \in Nat
      /\ \A j \in 0 .. n : f[j] \in LzState(src)
      /\ \A j \in 1 .. n : f[j] = LzPass(src, cap, f[j - 1])
  BY LzCoded, LenProperties
<1> HIDE DEF f
<1>2. 0 \in Good
  <2>1. k <= 0 => k = 0
    BY <1>1
  <2> QED
    BY <1>1, <2>1
<1>3. ASSUME NEW j \in 1 .. n, j - 1 \in Good PROVE j \in Good
  <2>1. j \in 0 .. n /\ j - 1 \in 0 .. n /\ (k <= j => k <= j - 1 \/ k = j)
    BY <1>1
  <2>2. CASE k <= j - 1
    <3>1. f[j - 1] = f[k] /\ f[k].pos = n
      BY <1>3, <2>2 DEF f
    <3>2. f[j - 1] \in LzState(src) /\ ~ (f[j - 1].pos < n)
      BY <1>1, <2>1, <3>1
    <3>3. LzIdle(src, cap, f[j - 1], LzPass(src, cap, f[j - 1]))
      BY <3>2, LzPassed
    <3>4. f[j] = f[j - 1]
      BY <1>1, <3>3 DEF LzIdle
    <3> QED
      BY <2>1, <3>1, <3>4
  <2>3. CASE k = j
    BY <2>1, <2>3
  <2>4. CASE ~ (k <= j)
    BY <2>1, <2>4
  <2> QED
    BY <2>1, <2>2, <2>3, <2>4
<1>4. n \in Good
  <2> HIDE DEF Good
  <2>1. n \in 0 .. n
    BY <1>1
  <2> QED
    BY <1>1, <1>2, <1>3, <2>1, RoundsKeep
<1> QED
  BY <1>4 DEF f

UnLzState == [at : Nat, out : Seq(ByteValue)]
\* The decoder is as far as the coder was after as many passes.
Decoded(src, cap, k, t) ==
  LET s == LzRun(src, cap)[k]
  IN  t.out = SubSeq(src, 1, s.pos) /\ (s.pos < Len(src) => t.at = Len(s.dst))

\* The bytes a pass added, where the decoder reads them.
Added(src, cap, in, k, e) ==
  LET at == Len(LzRun(src, cap)[k - 1].dst)
  IN  /\ at \in Nat /\ Len(LzRun(src, cap)[k].dst) = at + Len(e)
      /\ at + Len(e) <= Len(LzRun(src, cap)[Len(src)].dst)
      /\ \A i \in 1 .. Len(e) : in[at + i] = e[i]

\* The bytes a step added lie where the decoder will read them.
LEMMA AddedBytes ==
  ASSUME NEW src, NEW cap, NEW in, LzInput(src, cap, in), NEW k \in 1 .. Len(src),
         NEW e \in Seq(Nat), LzRun(src, cap)[k].dst = LzRun(src, cap)[k - 1].dst \o e
  PROVE  Added(src, cap, in, k, e)
<1> DEFINE f == LzRun(src, cap)
           n == Len(src)
           a == f[k - 1].dst
           b == f[k].dst
           p == f[n].dst
<1>1. src \in Seq(ByteValue) /\ cap \in Nat /\ in \in Seq(Nat) /\ Begins(p, in)
  BY DEF LzInput
<1>2. n \in Nat /\ Grows(f, n) /\ k \in 0 .. n /\ k - 1 \in 0 .. n /\ n \in 0 .. n
  <2>1. n \in Nat
    BY <1>1, LenProperties
  <2>2. Grows(f, n)
    BY <1>1, LzCoded
  <2> HIDE DEF f, n
  <2> QED
    BY <2>1, <2>2 DEF n
<1>3. a \in Seq(Nat) /\ b \in Seq(Nat) /\ p \in Seq(Nat)
  BY <1>2 DEF Grows
<1>4. Begins(b, p)
  BY <1>2, GrownFrom
<1>5. Len(a) \in Nat /\ Len(b) \in Nat /\ Len(p) \in Nat /\ Len(in) \in Nat /\ Len(e) \in Nat
  BY <1>1, <1>3, LenProperties
<1>6. Begins(b, in)
  BY <1>1, <1>4, <1>5, BeginsOn
<1> HIDE DEF a, b, p
<1>7. Len(b) = Len(a) + Len(e) /\ \A i \in 1 .. Len(e) : b[Len(a) + i] = e[i]
  <2>1. b = a \o e
    BY DEF a, b
  <2> QED
    BY <1>3, <2>1, Lengthened
<1>8. ASSUME NEW i \in 1 .. Len(e) PROVE in[Len(a) + i] = e[i]
  <2>1. Len(a) + i \in 1 .. Len(b)
    BY <1>5, <1>7
  <2> QED
    BY <1>6, <1>7, <2>1 DEF Begins
<1>9. Len(b) <= Len(p)
  BY <1>4 DEF Begins
<1> QED
  BY <1>5, <1>7, <1>8, <1>9 DEF a, b, p, Added

\* Lockstep: the decoder's pass undoes the coder's pass of the same number.
LEMMA UnLzStep ==
  ASSUME NEW src, NEW cap, NEW in, LzInput(src, cap, in), NEW k \in 1 .. Len(in),
         NEW t \in UnLzState, Decoded(src, cap, k - 1, t)
  PROVE  UnLzPass(in, Len(src), t) \in UnLzState /\ Decoded(src, cap, k, UnLzPass(in, Len(src), t))
<1> DEFINE N == Len(src)
           f == LzRun(src, cap)
           s == f[k - 1]
           u == f[k]
           P == Len(f[N].dst)
<1>1. /\ src \in Seq(ByteValue) /\ cap \in Nat /\ in \in Seq(Nat) /\ Len(in) = N
      /\ P < N /\ P < cap - 2 /\ k \in 1 .. N
  BY DEF LzInput
<1>2. N \in Nat /\ k - 1 \in 0 .. N /\ k \in 0 .. N /\ N \in 0 .. N /\ Nibble \in Nat /\ Window \in Nat
  BY <1>1, LenProperties, CodecAssumption
<1>3. /\ s \in LzState(src) /\ u \in LzState(src) /\ u = LzPass(src, cap, s) /\ Grows(f, N)
  BY <1>1, <1>2, LzCoded
<1>4. Len(s.dst) \in Nat /\ P \in Nat /\ Len(s.dst) <= P
  <2>1. Begins(s.dst, f[N].dst)
    BY <1>2, <1>3, GrownFrom
  <2>2. s.dst \in Seq(Nat) /\ f[N].dst \in Seq(Nat)
    BY <1>2, <1>3 DEF Grows
  <2> QED
    BY <2>1, <2>2, LenProperties DEF Begins
<1> DEFINE pos == s.pos
           at == t.at
           out == t.out
           r == UnLzPass(in, N, t)
<1>5. pos \in 0 .. N /\ s = [pos |-> pos, dst |-> s.dst] /\ u.pos \in 0 .. N
  BY <1>3 DEF LzState
<1>6. out = SubSeq(src, 1, pos) /\ (pos < N => at = Len(s.dst)) /\ at \in Nat /\ out \in Seq(ByteValue)
  BY DEF Decoded, UnLzState
<1>7. Len(out) = pos
  BY <1>1, <1>5, <1>6, FirstBytes
<1>8. t = [at |-> at, out |-> out]
  BY DEF UnLzState
<1> DEFINE base == in[at + 1] % (Nibble + 1)
           long == base = Nibble /\ at + 2 < Len(in)
           n == IF long THEN (base + in[at + 3]) % (Window + 1) ELSE base
<1>9. r = IF at + 1 >= Len(in) \/ Len(out) >= N THEN t
          ELSE IF in[at + 1] >= MatchFlag
               THEN [at |-> at + (IF long THEN 3 ELSE 2), out |-> CopyBack(out, in[at + 2], n, N)]
               ELSE [at |-> at + 2, out |-> Append(out, in[at + 2])]
  BY Zenon DEF UnLzPass
<1>10. ASSUME r.out = SubSeq(src, 1, u.pos), r.at \in Nat, r = [at |-> r.at, out |-> r.out],
              u.pos < N => r.at = Len(u.dst)
       PROVE  r \in UnLzState /\ Decoded(src, cap, k, r)
  <2>1. r.out \in Seq(ByteValue)
    <3> DEFINE p == u.pos
    <3>1. p \in 0 .. Len(src)
      BY <1>5
    <3> HIDE DEF p
    <3>2. SubSeq(src, 1, p) \in Seq(ByteValue)
      BY <1>1, <3>1, FirstBytes
    <3> HIDE DEF r
    <3> QED
      BY <1>10, <3>2 DEF p
  <2>2. r \in UnLzState
    <3> HIDE DEF r
    <3> QED
      BY <1>10, <2>1 DEF UnLzState
  <2> QED
    BY <1>10, <2>2 DEF Decoded
<1>11. CASE pos = N
  <2>1. ~ (pos < N)
    BY <1>2, <1>11
  <2>2. LzIdle(src, cap, s, u)
    BY <1>1, <1>3, <2>1, LzPassed
  <2>3. u = s
    BY <2>2 DEF LzIdle
  <2>4. r = t
    BY <1>2, <1>7, <1>9, <1>11
  <2>5. u.pos = N /\ r.out = SubSeq(src, 1, u.pos) /\ r.at = at
    BY <1>6, <1>11, <2>3, <2>4
  <2> HIDE DEF r
  <2> QED
    BY <1>2, <1>6, <1>8, <1>10, <2>4, <2>5 DEF r
<1>12. CASE pos < N
  <2>1. ~ LzIdle(src, cap, s, u)
    <3> DEFINE l == Len(s.dst)
    <3>1. l \in Nat /\ l <= P /\ P < cap - 2 /\ pos \in 0 .. N /\ P \in Nat
      BY <1>1, <1>4, <1>5
    <3> HIDE DEF l, P, pos, N
    <3>2. pos # N /\ ~ (l >= cap - 2)
      BY <1>1, <1>2, <1>12, <3>1
    <3> QED
      BY <3>2 DEF LzIdle, l, pos, N
  <2>2. LzByte(src, s, u) \/ LzMatch(src, s, u, BestMatch(src, pos))
    BY <1>1, <1>3, <2>1, LzPassed
  <2>3. at = Len(s.dst) /\ ~ (Len(out) >= N)
    BY <1>2, <1>5, <1>6, <1>7, <1>12
  <2>4. CASE LzByte(src, s, u)
    <3> DEFINE e == <<0, src[pos + 1]>>
    <3>1. u = [pos |-> pos + 1, dst |-> s.dst \o e]
      BY <2>4 DEF LzByte
    <3>2. pos + 1 \in 1 .. N /\ src[pos + 1] \in Nat
      <4>1. pos + 1 \in 1 .. N
        BY <1>2, <1>5, <1>12
      <4> HIDE DEF pos
      <4>2. src[pos + 1] \in ByteValue
        BY <1>1, <4>1
      <4> QED
        BY <1>2, <4>1, <4>2 DEF ByteValue
    <3>3. e \in Seq(Nat) /\ Len(e) = 2 /\ e[1] = 0 /\ e[2] = src[pos + 1]
      BY <3>2
    <3> HIDE DEF e
    <3>4. u.dst = s.dst \o e /\ u.pos = pos + 1
      BY <3>1
    <3>5. /\ Len(u.dst) = at + Len(e) /\ at + Len(e) <= P
          /\ \A i \in 1 .. Len(e) : in[at + i] = e[i]
      <4>1. f[k].dst = f[k - 1].dst \o e
        BY <3>4
      <4>2. Added(src, cap, in, k, e)
        BY <1>1, <3>3, <4>1, AddedBytes
      <4> QED
        BY <2>3, <4>2 DEF Added
    <3>6. in[at + 1] = 0 /\ in[at + 2] = src[pos + 1] /\ at + 2 <= P /\ Len(u.dst) = at + 2
      BY <3>3, <3>5
    <3>7. ~ (at + 1 >= Len(in)) /\ ~ (in[at + 1] >= MatchFlag)
      <4>1. P < Len(in) /\ Len(in) \in Nat /\ P \in Nat /\ at \in Nat
        BY <1>1, <1>2, <1>4, <1>6
      <4> HIDE DEF P, at
      <4> QED
        BY <3>6, <4>1 DEF MatchFlag
    <3> HIDE DEF base, long, n
    <3>8. r = [at |-> at + 2, out |-> Append(out, src[pos + 1])]
      BY <1>9, <2>3, <3>6, <3>7
    <3>9. r.out = SubSeq(src, 1, pos + 1)
      <4>1. pos \in 0 .. Len(src) - 1
        BY <1>2, <1>5, <1>12
      <4> HIDE DEF r
      <4> QED
        BY <1>1, <1>6, <3>8, <4>1, OneByteMore
    <3> HIDE DEF r
    <3>10. r.at = at + 2 /\ r.at \in Nat /\ r = [at |-> r.at, out |-> r.out]
      <4> DEFINE o == Append(out, src[pos + 1])
      <4> HIDE DEF o, at
      <4>1. r = [at |-> at + 2, out |-> o] /\ at \in Nat
        BY <1>6, <3>8 DEF o
      <4> QED
        BY <4>1
    <3>11. r \in UnLzState /\ Decoded(src, cap, k, r)
      BY <1>10, <3>4, <3>6, <3>9, <3>10
    <3> QED
      BY <3>11 DEF r
  <2>5. CASE LzMatch(src, s, u, BestMatch(src, pos))
    <3> DEFINE m == BestMatch(src, pos)
               e == MatchBytes(m)
    <3>1. /\ m.len >= MinMatch /\ Matches(src, pos, m.len, m.offset)
          /\ u = [pos |-> pos + m.len, dst |-> s.dst \o e]
      BY <2>5 DEF LzMatch
    <3>2. /\ k - 1 \in 0 .. N
          /\ m.len = Nibble => pos + Nibble = N /\ Nibble + in[P + 1] <= Window
      BY <1>2, <1>12 DEF LzInput
    <3> HIDE DEF m
    <3>3. /\ e \in Seq(Nat) /\ e[1] = MatchFlag + Least(m.len, Nibble) /\ e[2] = m.offset
          /\ Len(e) = IF m.len > Nibble THEN 3 ELSE 2
          /\ m.len > Nibble => e[3] = m.len - Nibble
      BY <1>2, <1>5, <3>1, MatchBytesAre
    <3> HIDE DEF e
    <3>4. u.dst = s.dst \o e /\ u.pos = pos + m.len
      BY <3>1
    <3>5. /\ Len(u.dst) = at + Len(e) /\ at + Len(e) <= P
          /\ \A i \in 1 .. Len(e) : in[at + i] = e[i]
      <4>1. f[k].dst = f[k - 1].dst \o e
        BY <3>4
      <4>2. Added(src, cap, in, k, e)
        BY <1>1, <3>3, <4>1, AddedBytes
      <4> QED
        BY <2>3, <4>2 DEF Added
    <3>6. m.len \in Nat /\ m.offset \in Nat /\ m.len <= Window /\ pos + m.len <= N /\ m.len <= m.offset
      BY <1>5, <3>1 DEF Matches
    <3>7. in[at + 1] = MatchFlag + Least(m.len, Nibble) /\ in[at + 2] = m.offset /\ at + 2 <= P
      <4>1. Len(e) \in {2, 3} /\ Len(e) \in Nat
        BY <3>3
      <4>2. 1 \in 1 .. Len(e) /\ 2 \in 1 .. Len(e) /\ at + 2 <= P
        <5>1. at + Len(e) <= P /\ P \in Nat /\ at \in Nat
          BY <1>4, <1>6, <3>5
        <5> DEFINE w == Len(e)
        <5>2. w = 2 \/ w = 3
          BY <4>1
        <5> HIDE DEF P, at, w
        <5>3. 1 \in 1 .. w /\ 2 \in 1 .. w
          BY <5>2
        <5>4. at + w <= P
          BY <5>1 DEF w
        <5>5. at + 2 <= P
          BY <5>1, <5>2, <5>4
        <5> QED
          BY <5>3, <5>5 DEF w
      <4> QED
        BY <3>3, <3>5, <4>2
    <3>8. Least(m.len, Nibble) \in 0 .. Nibble
      BY <1>2, <3>6 DEF Least
    <3>9. base = Least(m.len, Nibble)
      BY <3>7, <3>8, FlagFits
    <3>10. ~ (at + 1 >= Len(in)) /\ in[at + 1] >= MatchFlag
      <4>1. P < Len(in) /\ Len(in) \in Nat /\ P \in Nat /\ at \in Nat /\ Nibble \in Nat
        BY <1>1, <1>2, <1>4, <1>6
      <4> HIDE DEF P, at
      <4> QED
        BY <3>7, <3>8, <4>1 DEF MatchFlag
    <3>11. r = [at |-> at + (IF long THEN 3 ELSE 2), out |-> CopyBack(out, m.offset, n, N)]
      BY <1>9, <2>3, <3>7, <3>10
    <3>12. /\ n \in Nat /\ m.len <= n /\ (n = m.len \/ pos + m.len = N)
           /\ u.pos < N => at + (IF long THEN 3 ELSE 2) = Len(u.dst)
      <4>1. CASE m.len < Nibble
        <5>1. base = m.len /\ ~ long /\ Len(e) = 2
          <6> DEFINE l == m.len
          <6>1. l \in Nat /\ l < Nibble /\ Len(e) = IF l > Nibble THEN 3 ELSE 2
            BY <3>3, <3>6, <4>1
          <6> HIDE DEF l
          <6>2. Least(l, Nibble) = l /\ l # Nibble
            BY <1>2, <6>1 DEF Least
          <6>3. Len(e) = 2
            BY <1>2, <6>1
          <6> QED
            BY <3>9, <6>2, <6>3 DEF l
        <5> HIDE DEF base, long
        <5> QED
          BY <3>5, <3>6, <5>1
      <4>2. CASE m.len > Nibble
        <5>1. base = Nibble /\ Len(e) = 3 /\ 3 \in 1 .. Len(e) /\ e[3] = m.len - Nibble
          <6>1. Len(e) = 3 /\ e[3] = m.len - Nibble
            BY <3>3, <4>2
          <6>2. base = Nibble
            <7>1. Least(m.len, Nibble) = Nibble
              BY <1>2, <3>6, <4>2 DEF Least
            <7> QED
              BY <3>9, <7>1
          <6> HIDE DEF base
          <6> QED
            BY <6>1, <6>2
        <5>2. in[at + 3] = m.len - Nibble /\ at + 3 <= P
          BY <3>5, <5>1
        <5>3. at + 2 < Len(in)
          <6>1. P < Len(in) /\ Len(in) \in Nat /\ P \in Nat /\ at \in Nat
            BY <1>1, <1>2, <1>4, <1>6
          <6> HIDE DEF P, at
          <6> QED
            BY <5>2, <6>1
        <5>4. base + in[at + 3] = m.len
          BY <1>2, <3>6, <5>1, <5>2
        <5>5. m.len % (Window + 1) = m.len
          <6> DEFINE l == m.len
          <6>1. l \in 0 .. Window
            BY <1>2, <3>6
          <6> HIDE DEF l
          <6>2. l % (Window + 1) = l
            BY <1>2, <6>1, SmallMod
          <6> QED
            BY <6>2 DEF l
        <5>6. long /\ n = m.len
          BY <5>1, <5>3, <5>4, <5>5
        <5> HIDE DEF base, long, n
        <5> QED
          BY <3>5, <3>6, <5>1, <5>6
      <4>3. CASE m.len = Nibble
        <5>1. pos + m.len = N /\ Nibble + in[P + 1] <= Window /\ u.pos = N
          BY <3>2, <3>4, <4>3
        <5>2. f[N] = u
          BY <1>1, <1>2, <5>1, LzFinished
        <5>3. P = at + 2
          BY <1>2, <3>3, <3>5, <4>3, <5>2
        <5>4. base = Nibble
          BY <1>2, <3>9, <4>3 DEF Least
        <5>5. in[at + 3] \in Nat /\ at + 3 = P + 1
          <6>1. at + 3 \in 1 .. Len(in) /\ at + 3 = P + 1
            <7>1. P < Len(in) /\ Len(in) \in Nat /\ P \in Nat /\ at \in Nat
              BY <1>1, <1>2, <1>4, <1>6
            <7> HIDE DEF P, at
            <7> QED
              BY <5>3, <7>1
          <6> DEFINE j == at + 3
          <6>2. j \in 1 .. Len(in)
            BY <6>1
          <6> HIDE DEF j
          <6>3. in[j] \in Nat
            BY <1>1, <6>2, LenProperties
          <6> QED
            BY <6>1, <6>3 DEF j
        <5>6. Nibble + in[at + 3] \in 0 .. Window
          <6> DEFINE x == in[at + 3]
                     y == in[P + 1]
          <6>1. x \in Nat /\ x = y
            BY <5>5
          <6>2. Nibble + y <= Window
            BY <5>1
          <6> HIDE DEF x, y
          <6>3. Nibble + x \in 0 .. Window
            BY <1>2, <6>1, <6>2
          <6> QED
            BY <6>3 DEF x
        <5>7. (Nibble + in[at + 3]) % (Window + 1) = Nibble + in[at + 3]
          <6> DEFINE l == Nibble + in[at + 3]
          <6>1. l \in 0 .. Window
            BY <5>6
          <6> HIDE DEF l
          <6>2. l % (Window + 1) = l
            BY <1>2, <6>1, SmallMod
          <6> QED
            BY <6>2 DEF l
        <5>8. n \in Nat /\ n >= Nibble
          <6>1. CASE long
            <7>1. n = Nibble + in[at + 3]
              BY <5>4, <5>7, <6>1
            <7> HIDE DEF n
            <7> QED
              BY <1>2, <5>5, <7>1
          <6>2. CASE ~ long
            <7>1. n = Nibble
              BY <5>4, <6>2
            <7> QED
              BY <1>2, <7>1
          <6> QED
            BY <6>1, <6>2
        <5> HIDE DEF base, long, n
        <5> QED
          BY <1>2, <4>3, <5>1, <5>8
      <4> HIDE DEF base, long, n
      <4> QED
        BY <1>2, <3>6, <4>1, <4>2, <4>3
    <3> HIDE DEF base, n
    <3>13. CopyBack(out, m.offset, n, N) = SubSeq(src, 1, pos + m.len)
      <4>1. out = SubSeq(src, 1, pos)
        BY <1>6
      <4>2. n \in Nat /\ m.len <= n /\ (n = m.len \/ pos + m.len = N)
        BY <3>12
      <4> DEFINE l == m.len
                 o == m.offset
      <4>3. Matches(src, pos, l, o) /\ pos \in 0 .. Len(src)
        BY <1>5, <3>1
      <4> HIDE DEF n, l, o, out, pos
      <4>4. CopyBack(SubSeq(src, 1, pos), o, n, Len(src)) = SubSeq(src, 1, pos + l)
        BY <1>1, <4>2, <4>3, CopyBackIs DEF l
      <4> QED
        BY <4>1, <4>4 DEF l, o
    <3> DEFINE size == IF long THEN 3 ELSE 2
    <3>14. size \in Nat /\ (u.pos < N => at + size = Len(u.dst))
      BY <3>12
    <3> HIDE DEF long, r, size
    <3>15. r = [at |-> at + size, out |-> SubSeq(src, 1, u.pos)]
      BY <3>4, <3>11, <3>13 DEF size
    <3>16. r.out = SubSeq(src, 1, u.pos) /\ r.at \in Nat /\ r = [at |-> r.at, out |-> r.out]
           /\ (u.pos < N => r.at = Len(u.dst))
      <4>1. at \in Nat /\ at + size \in Nat
        BY <1>6, <3>14
      <4> HIDE DEF at, u
      <4>2. r.out = SubSeq(src, 1, u.pos) /\ r.at = at + size
        BY <3>15
      <4> QED
        BY <3>14, <3>15, <4>1, <4>2
    <3>17. r \in UnLzState /\ Decoded(src, cap, k, r)
      BY <1>10, <3>16
    <3> QED
      BY <3>17 DEF r
  <2> QED
    BY <2>2, <2>4, <2>5
<1> QED
  BY <1>2, <1>5, <1>11, <1>12

\* Both loops start in step.
LEMMA LzStarts ==
  ASSUME NEW src, NEW cap, NEW in, LzInput(src, cap, in)
  PROVE  in[1] = Len(src) /\ Decoded(src, cap, 0, [at |-> 1, out |-> <<>>])
<1> DEFINE f == LzRun(src, cap)
           n == Len(src)
<1>1. src \in Seq(ByteValue) /\ cap \in Nat /\ Begins(f[n].dst, in) /\ in \in Seq(Nat)
  BY DEF LzInput
<1>2. n \in Nat /\ Grows(f, n) /\ f[0] = [pos |-> 0, dst |-> <<n>>] /\ 0 \in 0 .. n /\ n \in 0 .. n
  BY <1>1, LzCoded, LenProperties
<1>3. Begins(f[0].dst, f[n].dst)
  BY <1>2, GrownFrom
<1> HIDE DEF f
<1>4. /\ Len(f[0].dst) = 1 /\ 1 \in 1 .. Len(f[0].dst) /\ f[0].dst[1] = n /\ f[0].pos = 0
      /\ Len(f[n].dst) \in Nat /\ Len(in) \in Nat
  BY <1>1, <1>2, LenProperties DEF Grows
<1>5. Begins(f[0].dst, in)
  <2>1. Len(f[0].dst) \in Nat
    BY <1>4
  <2> QED
    BY <1>1, <1>3, <1>4, <2>1, BeginsOn
<1>6. in[1] = n
  BY <1>4, <1>5 DEF Begins
<1>7. SubSeq(src, 1, 0) = <<>>
  BY SubSeqEmpty
<1> QED
  BY <1>4, <1>6, <1>7 DEF Decoded, f

UnLzRunIs(in, f) ==
  f = [k \in 0 .. Len(in) |-> IF k = 0 THEN [at |-> 1, out |-> <<>>] ELSE UnLzPass(in, in[1], f[k - 1])]

\* The states of the decoder's loop, in step with the coder's.
LEMMA UnLzRuns ==
  ASSUME NEW src,
         NEW cap,
         NEW in,
         LzInput(src, cap, in)
  PROVE  /\ UnLzRunIs(in, UnLzRun(in))
         /\ \A k \in 0 .. Len(in) : UnLzRun(in)[k] \in UnLzState /\ Decoded(src, cap, k, UnLzRun(in)[k])
<1> DEFINE n == Len(in)
           S == UnLzState
           a == [at |-> 1, out |-> <<>>]
           step == [s \in S |-> UnLzPass(in, in[1], s)]
           Good == {x \in (0 .. n) \X S : Decoded(src, cap, x[1], x[2])}
<1>1. n \in Nat
  BY LenProperties DEF LzInput
<1>2. a \in S /\ Decoded(src, cap, 0, a)
  BY LzStarts DEF UnLzState
<1>3. KeptBy(n, S, a, step, Good)
  <2>1. <<0, a>> \in Good
    <3> HIDE DEF S, a
    <3> QED
      BY <1>1, <1>2
  <2>2. ASSUME NEW k \in 1 .. n, NEW s \in S, <<k - 1, s>> \in Good
        PROVE  step[s] \in S /\ <<k, step[s]>> \in Good
    <3>1. Decoded(src, cap, k - 1, s)
      BY <2>2
    <3>2. UnLzPass(in, in[1], s) \in S /\ Decoded(src, cap, k, UnLzPass(in, in[1], s))
      BY <3>1, UnLzStep, LzStarts
    <3>3. step[s] = UnLzPass(in, in[1], s) /\ k \in 0 .. n
      BY <1>1
    <3> HIDE DEF S, step
    <3> QED
      BY <3>2, <3>3
  <2> HIDE DEF n, S, a, step, Good
  <2> QED
    BY <2>1, <2>2 DEF KeptBy
<1> HIDE DEF a, Good
<1>4. \E f : UnLzRunIs(in, f)
  <2>1. PICK f : f = [k \in 0 .. n |-> f[k]] /\ Goes(f, n, S, a, step)
    <3> HIDE DEF n, S, step
    <3> QED
      BY <1>1, <1>2, <1>3, LoopExists
  <2>2. \A k \in 0 .. n : f[k] \in S
    <3> HIDE DEF n, S, step
    <3> QED
      BY <1>1, <1>2, <1>3, <2>1, LoopKeeps
  <2>3. ASSUME NEW k \in 0 .. n
        PROVE  f[k] = IF k = 0 THEN a ELSE UnLzPass(in, in[1], f[k - 1])
    <3>1. CASE k = 0
      BY <2>1, <3>1 DEF Goes
    <3>2. CASE k # 0
      <4>1. k \in 1 .. n /\ k - 1 \in 0 .. n
        BY <1>1, <3>2
      <4>2. f[k - 1] \in S /\ f[k] = step[f[k - 1]]
        BY <2>1, <2>2, <4>1 DEF Goes
      <4> QED
        BY <3>2, <4>2
    <3> QED
      BY <3>1, <3>2
  <2> QED
    BY <2>1, <2>3 DEF UnLzRunIs, a
<1> DEFINE g == CHOOSE f : UnLzRunIs(in, f)
<1>5. UnLzRunIs(in, g)
  BY <1>4
<1>6. UnLzRun(in) = g
  BY Zenon DEF UnLzRun, UnLzRunIs
<1> HIDE DEF g
<1>7. Goes(g, n, S, a, step)
  <2>1. g[0] = a
    BY <1>1, <1>5 DEF UnLzRunIs, a
  <2>2. ASSUME NEW k \in 1 .. n, g[k - 1] \in S PROVE g[k] = step[g[k - 1]]
    <3>1. k \in 0 .. n /\ k # 0
      BY <1>1
    <3>2. g[k] = UnLzPass(in, in[1], g[k - 1])
      BY <1>5, <3>1 DEF UnLzRunIs
    <3> QED
      BY <2>2, <3>2
  <2> HIDE DEF n, S, step
  <2> QED
    BY <2>1, <2>2 DEF Goes
<1>8. ASSUME NEW k \in 0 .. n PROVE g[k] \in S /\ Decoded(src, cap, k, g[k])
  <2>1. <<k, g[k]>> \in Good
    <3> HIDE DEF n, S, step
    <3> QED
      BY <1>1, <1>2, <1>3, <1>7, LoopKeeps
  <2> QED
    BY <2>1 DEF Good
<1> QED
  BY <1>5, <1>6, <1>8

\* What compress_lz4 put out with room to spare is decoded to its input.
LEMMA LzReadsBack ==
  ASSUME NEW src, NEW cap, NEW in, LzInput(src, cap, in), NEW size \in Nat, Len(src) <= size
  PROVE  decompress_lz4(in, size) = src
<1> DEFINE N == Len(src)
           f == LzRun(src, cap)
           g == UnLzRun(in)
<1>1. /\ src \in Seq(ByteValue) /\ cap \in Nat /\ Len(in) = N /\ N \in Nat /\ N \in 0 .. N
      /\ Len(f[N].dst) < cap - 2
  BY LenProperties DEF LzInput
<1>2. f[N] \in LzState(src) /\ LzMade(src, cap, N, f[N])
  BY <1>1, LzCoded
<1>3. f[N].pos = N
  <2>1. f[N].pos \in 0 .. N /\ Len(f[N].dst) \in Nat
    BY <1>2, LenProperties DEF LzState
  <2> QED
    BY <1>1, <1>2, <2>1 DEF LzMade
<1>4. Decoded(src, cap, N, g[N])
  BY <1>1, UnLzRuns
<1>5. g[N].out = SubSeq(src, 1, N)
  BY <1>3, <1>4 DEF Decoded
<1>6. SubSeq(src, 1, N) = src
  <2>1. /\ SubSeq(src, 1, N) \in Seq(ByteValue) /\ Len(SubSeq(src, 1, N)) = N
        /\ \A i \in 1 .. N : SubSeq(src, 1, N)[i] = src[i]
    BY <1>1, FirstBytes
  <2> QED
    BY <1>1, <2>1, SeqEqual
<1>7. in[1] = N /\ ~ (in[1] > size)
  BY <1>1, LzStarts
<1> QED
  BY <1>1, <1>5, <1>6, <1>7 DEF decompress_lz4

\* Bytes are numbers.
LEMMA BytesAreNat ==
  ASSUME NEW src \in Seq(ByteValue)
  PROVE  src \in Seq(Nat) /\ Len(src) \in Nat
<1>1. Len(src) \in Nat /\ src \in [1 .. Len(src) -> ByteValue] /\ ByteValue \subseteq Nat
  BY LenProperties, CodecAssumption DEF ByteValue
<1> HIDE DEF ByteValue
<1>2. src = [i \in 1 .. Len(src) |-> src[i]] /\ \A i \in 1 .. Len(src) : src[i] \in Nat
  BY <1>1
<1> QED
  BY <1>1, <1>2

\* A page comes back: a form that was cut short is not shorter than the page.
LEMMA PageReadsBack ==
  ASSUME NEW src \in Seq(ByteValue), Len(src) <= PageBytes, Len(src) + 2 <= PageBytes + Margin,
         slotted_page_compress(src).compressed => ~ Ambiguous(src)
  PROVE  slotted_page_decompress(slotted_page_compress(src)) = src
<1> DEFINE N == Len(src)
           cap == PageBytes
           f == LzRun(src, cap)
           packed == f[N].dst
           rest == SubSeq(src, Len(packed) + 1, N)
           in == packed \o rest
           chosen == N >= COMPRESSION_THRESHOLD /\ Len(packed) < N - Margin
<1>1. N \in Nat /\ cap \in Nat /\ Margin \in Nat /\ N \in 0 .. N /\ src \in Seq(Nat)
  BY BytesAreNat, CodecAssumption
<1>2. Packed(src) = packed
  BY DEF Packed, compress_lz4
<1>3. slotted_page_compress(src) = IF chosen THEN [compressed |-> TRUE, data |-> in]
                                   ELSE [compressed |-> FALSE, data |-> src]
  BY <1>2 DEF slotted_page_compress
<1>4. CASE ~ chosen
  <2> HIDE DEF chosen
  <2> QED
    BY <1>3, <1>4 DEF slotted_page_decompress
<1>5. CASE chosen
  <2>1. packed \in Seq(Nat) /\ Len(packed) \in Nat
    <3>1. Grows(f, N)
      BY <1>1, LzCoded
    <3> QED
      BY <1>1, <3>1, LenProperties DEF Grows
  <2>2. Len(packed) < N /\ Len(packed) < cap - 2
    <3> HIDE DEF packed, N, cap
    <3>1. Len(packed) < N - Margin /\ N + 2 <= cap + Margin
      BY <1>5 DEF N, cap
    <3> QED
      BY <1>1, <2>1, <3>1
  <2>3. /\ rest \in Seq(Nat) /\ Len(rest) = N - Len(packed)
        /\ rest[1] = src[Len(packed) + 1]
    <3> DEFINE l == Len(packed) + 1
    <3>1. l \in Nat /\ l <= N /\ l >= 1 /\ N - l + 1 = N - Len(packed)
      <4> HIDE DEF packed, N
      <4> QED
        BY <1>1, <2>1, <2>2
    <3> HIDE DEF l
    <3>2. \A i \in l .. N : src[i] \in Nat
      BY <1>1, <3>1
    <3>3. /\ SubSeq(src, l, N) \in Seq(Nat) /\ Len(SubSeq(src, l, N)) = N - l + 1
          /\ \A i \in 1 .. N - l + 1 : SubSeq(src, l, N)[i] = src[l + i - 1]
      <4>1. N \in Int /\ l \in Int /\ \A i \in l .. N : src[i] \in Nat
        BY <1>1, <3>1, <3>2
      <4> HIDE DEF N
      <4>2. /\ SubSeq(src, l, N) \in Seq(Nat) /\ Len(SubSeq(src, l, N)) = IF l <= N THEN N - l + 1 ELSE 0
            /\ \A i \in 1 .. N - l + 1 : SubSeq(src, l, N)[i] = src[l + i - 1]
        BY <4>1, SubSeqProperties
      <4> QED
        BY <3>1, <4>2
    <3>4. 1 \in 1 .. N - l + 1 /\ l + 1 - 1 = l
      BY <1>1, <3>1
    <3>5. SubSeq(src, l, N)[1] = src[l]
      BY <3>3, <3>4
    <3> QED
      BY <3>1, <3>3, <3>5 DEF l
  <2> HIDE DEF packed, rest
  <2>4. /\ in \in Seq(Nat) /\ Len(in) = N /\ Begins(packed, in)
        /\ in[Len(packed) + 1] = src[Len(packed) + 1]
    <3>1. /\ in \in Seq(Nat) /\ Len(in) = Len(packed) + Len(rest) /\ Begins(packed, in)
          /\ \A i \in 1 .. Len(rest) : in[Len(packed) + i] = rest[i]
      BY <2>1, <2>3, Lengthened
    <3>2. 1 \in 1 .. Len(rest) /\ Len(packed) + Len(rest) = N
      BY <1>1, <2>1, <2>2, <2>3
    <3> HIDE DEF in
    <3> QED
      BY <2>3, <3>1, <3>2
  <2>5. ~ Ambiguous(src)
    BY <1>3, <1>5
  <2> HIDE DEF in
  <2>6. ASSUME NEW k \in 0 .. N, f[k].pos < N, BestMatch(src, f[k].pos).len = Nibble
        PROVE  f[k].pos + Nibble = N /\ Nibble + in[Len(packed) + 1] <= Window
    <3>1. /\ ~ (f[k].pos + Nibble < N)
          /\ ~ (Nibble + src[Len(packed) + 1] > Window)
      BY <1>2, <2>5, <2>6 DEF Ambiguous
    <3>2. f[k].pos \in Nat /\ f[k].pos + Nibble <= N /\ Nibble \in Nat
      <4>1. f[k].pos \in 0 .. N
        BY <1>1, LzCoded DEF LzState
      <4>2. Matches(src, f[k].pos, Nibble, BestMatch(src, f[k].pos).offset) \/ Nibble = 0
        <5> DEFINE pos == f[k].pos
        <5>1. pos \in 0 .. Len(src)
          BY <4>1
        <5> HIDE DEF pos
        <5>2. \/ BestMatch(src, pos) = [len |-> 0, offset |-> 0]
              \/ Matches(src, pos, BestMatch(src, pos).len, BestMatch(src, pos).offset)
          BY <5>1, BestMatchIs
        <5> QED
          BY <2>6, <5>2 DEF pos
      <4> DEFINE pos == f[k].pos
      <4>3. pos \in 0 .. N /\ Nibble \in Nat /\ (pos + Nibble <= N \/ Nibble = 0)
        BY <4>1, <4>2, CodecAssumption DEF Matches
      <4> HIDE DEF pos, N
      <4>4. pos \in Nat /\ pos + Nibble <= N
        BY <1>1, <4>3
      <4> QED
        BY <4>3, <4>4 DEF pos, N
    <3> DEFINE pos == f[k].pos
               b == src[Len(packed) + 1]
    <3>3. b \in Nat /\ Window \in Nat
      <4>1. Len(packed) + 1 \in 1 .. N
        BY <1>1, <2>1, <2>2
      <4> QED
        BY <1>1, <4>1, CodecAssumption
    <3>4. pos \in Nat /\ pos + Nibble <= N /\ ~ (pos + Nibble < N) /\ ~ (Nibble + b > Window) /\ Nibble \in Nat
      BY <3>1, <3>2 DEF pos, b
    <3> HIDE DEF pos, b, f, N
    <3>5. pos + Nibble = N /\ Nibble + b <= Window
      BY <1>1, <3>3, <3>4
    <3> QED
      BY <2>4, <3>5 DEF pos, b
  <2>7. LzInput(src, cap, in)
    BY <1>1, <2>2, <2>4, <2>6 DEF LzInput, packed
  <2>8. decompress_lz4(in, PageBytes) = src
    BY <1>1, <2>7, LzReadsBack
  <2>9. SubSeq(in, N + 1, N) = <<>> /\ src \o <<>> = src
    BY <1>1, SubSeqEmpty, ConcatEmptySeq
  <2> DEFINE page == slotted_page_compress(src)
  <2>10. page = [compressed |-> TRUE, data |-> in]
    BY <1>3, <1>5
  <2>11. slotted_page_decompress(page) = src \o SubSeq(in, Len(src) + 1, Len(in))
    <3> HIDE DEF page
    <3> QED
      BY <2>8, <2>10 DEF slotted_page_decompress
  <2> QED
    BY <2>4, <2>9, <2>11
<1> QED
  BY <1>4, <1>5

-----------------------------------------------------------------------------
(* The run-length coder. *)

\* The run that compress_rle counts: equal bytes, at least one, inside the input.
LEMMA RunLenIs ==
  ASSUME NEW src \in Seq(ByteValue), NEW pos \in 0 .. Len(src) - 1
  PROVE  /\ RunLen(src, pos) \in Nat \ {0} /\ pos + RunLen(src, pos) <= Len(src)
         /\ \A j \in 1 .. RunLen(src, pos) : src[pos + j] = src[pos + 1]
<1> DEFINE N == Len(src)
           T == {n \in 1 .. MaxRun : n = MaxRun \/ pos + n >= N \/ src[pos + n + 1] # src[pos + 1]}
           m == RunLen(src, pos)
<1>1. N \in Nat /\ pos \in Nat /\ pos < N /\ MaxRun \in Nat \ {0}
  BY LenProperties, CodecAssumption
<1>2. m = Shortest(T)
  BY Zenon DEF RunLen
<1>3. MaxRun \in T /\ T \subseteq Nat
  BY <1>1
<1>4. m \in T /\ \A n \in T : m <= n
  <2> HIDE DEF T, m
  <2> QED
    BY <1>2, <1>3, ShortestIn
<1> HIDE DEF m
<1>5. m \in 1 .. MaxRun /\ m \in Nat \ {0} /\ m <= MaxRun
  BY <1>1, <1>4
<1>6. ASSUME NEW n \in 1 .. m - 1
      PROVE  pos + n < N /\ src[pos + n + 1] = src[pos + 1]
  <2>1. n \in 1 .. MaxRun /\ n # MaxRun /\ ~ (m <= n)
    BY <1>1, <1>5
  <2>2. n \notin T
    BY <1>4, <2>1
  <2> QED
    BY <1>1, <2>1, <2>2
<1>7. pos + m <= N
  <2>1. CASE m = 1
    BY <1>1, <2>1
  <2>2. CASE m # 1
    <3>1. m - 1 \in 1 .. m - 1
      BY <1>5, <2>2
    <3>2. pos + (m - 1) < N
      BY <1>6, <3>1
    <3> QED
      BY <1>1, <1>5, <3>2
  <2> QED
    BY <2>1, <2>2
<1>8. ASSUME NEW j \in 1 .. m PROVE src[pos + j] = src[pos + 1]
  <2>1. CASE j = 1
    BY <2>1
  <2>2. CASE j # 1
    <3>1. j - 1 \in 1 .. m - 1 /\ pos + (j - 1) + 1 = pos + j
      BY <1>1, <1>5, <2>2
    <3> QED
      BY <1>6, <3>1
  <2> QED
    BY <2>1, <2>2
<1> QED
  BY <1>5, <1>7, <1>8 DEF m

\* What a pass writes is two elements, and there are never more than the room.
RleMade(src, k, s) ==
  /\ s.pos = Len(src) \/ Len(s.dst) = 2 * k + 1
  /\ Len(s.dst) <= 2 * s.pos + 1
RleCoded(src, s, u) ==
  /\ s.pos < Len(src)
  /\ u = [pos |-> s.pos + RunLen(src, s.pos),
          dst |-> s.dst \o <<RunLen(src, s.pos), src[s.pos + 1]>>]

\* A pass of compress_rle codes a run, as long as there is input.
LEMMA RlePassed ==
  ASSUME NEW src \in Seq(ByteValue), NEW k \in Nat, NEW s \in LzState(src), RleMade(src, k, s)
  PROVE  LET u == RlePass(src, 2 * Len(src) + 1, s)
         IN  (s.pos = Len(src) /\ u = s) \/ RleCoded(src, s, u)
<1> DEFINE N == Len(src)
           cap == 2 * N + 1
           l == Len(s.dst)
           pos == s.pos
<1>1. N \in Nat /\ pos \in 0 .. N /\ l \in Nat /\ l <= 2 * pos + 1
  BY LenProperties DEF LzState, RleMade
<1>2. RlePass(src, cap, s) =
        IF pos >= N \/ l + 2 > cap THEN s
        ELSE [pos |-> pos + RunLen(src, pos), dst |-> s.dst \o <<RunLen(src, pos), src[pos + 1]>>]
  BY DEF RlePass
<1>3. CASE pos = N
  <2>1. pos >= N
    BY <1>1, <1>3
  <2> QED
    BY <1>2, <1>3, <2>1
<1>4. CASE pos # N
  <2>1. pos < N /\ ~ (pos >= N \/ l + 2 > cap)
    <3> HIDE DEF pos, l, N
    <3> QED
      BY <1>1, <1>4
  <2> QED
    BY <1>2, <2>1 DEF RleCoded
<1> QED
  BY <1>3, <1>4

\* A pass gets on by a byte at least and puts out two.
LEMMA RleStep ==
  ASSUME NEW src \in Seq(ByteValue), NEW k \in 1 .. Len(src), NEW s \in LzState(src), RleMade(src, k - 1, s)
  PROVE  LET u == RlePass(src, 2 * Len(src) + 1, s)
         IN  u \in LzState(src) /\ RleMade(src, k, u) /\ Begins(s.dst, u.dst)
<1> DEFINE N == Len(src)
           u == RlePass(src, 2 * Len(src) + 1, s)
           l == Len(s.dst)
           pos == s.pos
<1>1. /\ N \in Nat /\ pos \in 0 .. N /\ l \in Nat /\ l <= 2 * pos + 1 /\ s.dst \in Seq(Nat)
      /\ k - 1 \in Nat /\ k \in Nat
  BY LenProperties DEF LzState, RleMade
<1>2. (pos = N /\ u = s) \/ RleCoded(src, s, u)
  BY <1>1, RlePassed
<1> HIDE DEF u
<1>3. CASE pos = N /\ u = s
  <2>1. Begins(s.dst, s.dst)
    BY <1>1 DEF Begins
  <2> QED
    BY <1>3, <2>1 DEF RleMade, u
<1>4. CASE RleCoded(src, s, u)
  <2> DEFINE n == RunLen(src, pos)
             b == src[pos + 1]
             e == <<n, b>>
  <2>1. pos < N /\ u = [pos |-> pos + n, dst |-> s.dst \o e]
    BY <1>4 DEF RleCoded
  <2>2. n \in Nat \ {0} /\ pos + n <= N
    <3>1. pos \in 0 .. Len(src) - 1
      BY <1>1, <2>1
    <3> HIDE DEF pos
    <3> QED
      BY <3>1, RunLenIs
  <2>3. b \in Nat
    <3>1. pos + 1 \in 1 .. Len(src)
      BY SMTT(30), <1>1, <2>1
    <3> HIDE DEF pos
    <3> QED
      BY <3>1, BytesAreNat
  <2> HIDE DEF n, b
  <2>4. e \in Seq(Nat) /\ Len(e) = 2
    BY <2>2, <2>3
  <2> HIDE DEF e
  <2>5. u.dst = s.dst \o e /\ u.pos = pos + n
    BY <2>1
  <2>6. u.dst \in Seq(Nat) /\ Len(u.dst) = l + 2 /\ Begins(s.dst, u.dst)
    <3>1. /\ s.dst \o e \in Seq(Nat) /\ Len(s.dst \o e) = Len(s.dst) + Len(e)
          /\ Begins(s.dst, s.dst \o e)
      BY <1>1, <2>4, Lengthened
    <3>2. Len(s.dst) + Len(e) = l + 2
      BY <2>4
    <3> HIDE DEF l
    <3> QED
      BY <2>5, <3>1, <3>2
  <2>7. u.pos \in 0 .. N /\ l + 2 <= 2 * u.pos + 1
    <3> HIDE DEF pos, l, N
    <3>1. u.pos = pos + n
      BY <2>5
    <3> QED
      BY <1>1, <2>2, <3>1
  <2>8. l = 2 * (k - 1) + 1
    <3>1. pos # N
      BY <1>1, <2>1
    <3> QED
      BY <3>1 DEF RleMade
  <2>9. Len(u.dst) = 2 * k + 1
    <3> HIDE DEF l
    <3> QED
      BY <1>1, <2>6, <2>8
  <2>10. u \in LzState(src)
    BY <2>1, <2>5, <2>6, <2>7 DEF LzState
  <2>11. RleMade(src, k, u)
    BY <2>6, <2>7, <2>9 DEF RleMade
  <2> QED
    BY <2>6, <2>10, <2>11 DEF u
<1> QED
  BY <1>2, <1>3, <1>4

RleRunIs(src, cap, f) ==
  f = [k \in 0 .. Len(src) |->
        IF k = 0 THEN [pos |-> 0, dst |-> <<Len(src)>>] ELSE RlePass(src, cap, f[k - 1])]

\* The states of the run-length coder's loop.
LEMMA RleRuns ==
  ASSUME NEW src \in Seq(ByteValue)
  PROVE  /\ RleRunIs(src, 2 * Len(src) + 1, RleRun(src, 2 * Len(src) + 1))
         /\ \A k \in 0 .. Len(src) : RleRun(src, 2 * Len(src) + 1)[k] \in LzState(src) /\ RleMade(src, k, RleRun(src, 2 * Len(src) + 1)[k])
<1> DEFINE n == Len(src)
           S == LzState(src)
           a == [pos |-> 0, dst |-> <<Len(src)>>]
           step == [s \in S |-> RlePass(src, 2 * Len(src) + 1, s)]
           Good == {x \in (0 .. n) \X S : RleMade(src, x[1], x[2])}
<1>1. n \in Nat
  BY LenProperties
<1>2. a \in S /\ RleMade(src, 0, a)
  BY <1>1 DEF LzState, RleMade
<1>3. KeptBy(n, S, a, step, Good)
  <2>1. <<0, a>> \in Good
    <3> HIDE DEF S, a
    <3> QED
      BY <1>1, <1>2
  <2>2. ASSUME NEW k \in 1 .. n, NEW s \in S, <<k - 1, s>> \in Good
        PROVE  step[s] \in S /\ <<k, step[s]>> \in Good
    <3>1. RleMade(src, k - 1, s)
      BY <2>2
    <3>2. RlePass(src, 2 * Len(src) + 1, s) \in S /\ RleMade(src, k, RlePass(src, 2 * Len(src) + 1, s))
      BY <3>1, RleStep
    <3>3. step[s] = RlePass(src, 2 * Len(src) + 1, s) /\ k \in 0 .. n
      BY <1>1
    <3> HIDE DEF S, step
    <3> QED
      BY <3>2, <3>3
  <2> HIDE DEF n, S, a, step, Good
  <2> QED
    BY <2>1, <2>2 DEF KeptBy
<1> HIDE DEF a, Good
<1>4. \E f : RleRunIs(src, 2 * Len(src) + 1, f)
  <2>1. PICK f : f = [k \in 0 .. n |-> f[k]] /\ Goes(f, n, S, a, step)
    <3> HIDE DEF n, S, step
    <3> QED
      BY <1>1, <1>2, <1>3, LoopExists
  <2>2. \A k \in 0 .. n : f[k] \in S
    <3> HIDE DEF n, S, step
    <3> QED
      BY <1>1, <1>2, <1>3, <2>1, LoopKeeps
  <2>3. ASSUME NEW k \in 0 .. n
        PROVE  f[k] = IF k = 0 THEN a ELSE RlePass(src, 2 * Len(src) + 1, f[k - 1])
    <3>1. CASE k = 0
      BY <2>1, <3>1 DEF Goes
    <3>2. CASE k # 0
      <4>1. k \in 1 .. n /\ k - 1 \in 0 .. n
        BY <1>1, <3>2
      <4>2. f[k - 1] \in S /\ f[k] = step[f[k - 1]]
        BY <2>1, <2>2, <4>1 DEF Goes
      <4> QED
        BY <3>2, <4>2
    <3> QED
      BY <3>1, <3>2
  <2> QED
    BY <2>1, <2>3 DEF RleRunIs, a
<1> DEFINE g == CHOOSE f : RleRunIs(src, 2 * Len(src) + 1, f)
<1>5. RleRunIs(src, 2 * Len(src) + 1, g)
  BY <1>4
<1>6. RleRun(src, 2 * Len(src) + 1) = g
  BY Zenon DEF RleRun, RleRunIs
<1> HIDE DEF g
<1>7. Goes(g, n, S, a, step)
  <2>1. g[0] = a
    BY <1>1, <1>5 DEF RleRunIs, a
  <2>2. ASSUME NEW k \in 1 .. n, g[k - 1] \in S PROVE g[k] = step[g[k - 1]]
    <3>1. k \in 0 .. n /\ k # 0
      BY <1>1
    <3>2. g[k] = RlePass(src, 2 * Len(src) + 1, g[k - 1])
      BY <1>5, <3>1 DEF RleRunIs
    <3> QED
      BY <2>2, <3>2
  <2> HIDE DEF n, S, step
  <2> QED
    BY <2>1, <2>2 DEF Goes
<1>8. ASSUME NEW k \in 0 .. n PROVE g[k] \in S /\ RleMade(src, k, g[k])
  <2>1. <<k, g[k]>> \in Good
    <3> HIDE DEF n, S, step
    <3> QED
      BY <1>1, <1>2, <1>3, <1>7, LoopKeeps
  <2> QED
    BY <2>1 DEF Good
<1> QED
  BY <1>5, <1>6, <1>8

\* The same with the room the caller gives: twice the input and one.
LEMMA RleCodes ==
  ASSUME NEW src \in Seq(ByteValue)
  PROVE  LET f == RleRun(src, 2 * Len(src) + 1)
         IN  /\ Grows(f, Len(src)) /\ f[0] = [pos |-> 0, dst |-> <<Len(src)>>]
             /\ \A k \in 0 .. Len(src) : f[k] \in LzState(src) /\ RleMade(src, k, f[k])
             /\ \A k \in 1 .. Len(src) : f[k] = RlePass(src, 2 * Len(src) + 1, f[k - 1])
<1> DEFINE n == Len(src)
           cap == 2 * n + 1
           f == RleRun(src, cap)
<1>1. n \in Nat
  BY LenProperties
<1>2. RleRunIs(src, cap, f) /\ \A k \in 0 .. n : f[k] \in LzState(src) /\ RleMade(src, k, f[k])
  BY RleRuns
<1> HIDE DEF f
<1>3. f[0] = [pos |-> 0, dst |-> <<n>>]
  BY <1>1, <1>2 DEF RleRunIs
<1>4. ASSUME NEW k \in 1 .. n
      PROVE  f[k] = RlePass(src, cap, f[k - 1]) /\ Begins(f[k - 1].dst, f[k].dst)
  <2>1. k \in 0 .. n /\ k # 0 /\ k - 1 \in 0 .. n
    BY <1>1
  <2>2. f[k] = RlePass(src, cap, f[k - 1])
    BY <1>2, <2>1 DEF RleRunIs
  <2>3. f[k - 1] \in LzState(src) /\ RleMade(src, k - 1, f[k - 1])
    BY <1>2, <2>1
  <2> QED
    BY <2>2, <2>3, RleStep
<1>5. ASSUME NEW k \in 0 .. n PROVE f[k].dst \in Seq(Nat)
  BY <1>2 DEF LzState
<1>6. Grows(f, n)
  BY <1>4, <1>5 DEF Grows
<1> QED
  BY <1>2, <1>3, <1>4, <1>6 DEF f

\* What the coder wrote begins the coded bytes after every pass.
RleInput(src, in) == in = compress_rle(src, 2 * Len(src) + 1)

\* What it had put out after k passes begins its output.
LEMMA RleWritten ==
  ASSUME NEW src \in Seq(ByteValue), NEW in, RleInput(src, in), NEW k \in 0 .. Len(src)
  PROVE  LET s == RleRun(src, 2 * Len(src) + 1)[k]
         IN  /\ s \in LzState(src) /\ RleMade(src, k, s) /\ Len(s.dst) \in Nat
             /\ Begins(s.dst, in) /\ in \in Seq(Nat) /\ Len(in) \in Nat
<1> DEFINE n == Len(src)
           f == RleRun(src, 2 * n + 1)
           s == f[k]
<1>1. n \in Nat /\ k \in 0 .. n /\ n \in 0 .. n
  BY LenProperties
<1>2. Grows(f, n) /\ s \in LzState(src) /\ RleMade(src, k, s) /\ f[n] \in LzState(src)
  BY <1>1, RleCodes
<1>3. in = f[n].dst
  BY DEF RleInput, compress_rle
<1>4. Begins(s.dst, in)
  <2> HIDE DEF f, n
  <2> QED
    BY <1>1, <1>2, <1>3, GrownFrom
<1>5. s.dst \in Seq(Nat) /\ in \in Seq(Nat)
  BY <1>2, <1>3 DEF LzState
<1>6. Len(s.dst) \in Nat /\ Len(in) \in Nat
  BY <1>5, LenProperties
<1> QED
  BY <1>2, <1>4, <1>5, <1>6

\* A run is written back whole.
LEMMA RunBack ==
  ASSUME NEW src \in Seq(ByteValue), NEW pos \in Nat, NEW n \in Nat, pos + n <= Len(src),
         NEW b \in ByteValue, \A j \in 1 .. n : src[pos + j] = b
  PROVE  SubSeq(src, 1, pos) \o [i \in 1 .. n |-> b] = SubSeq(src, 1, pos + n)
<1> DEFINE N == Len(src)
           a == SubSeq(src, 1, pos)
           r == [i \in 1 .. n |-> b]
           q == pos + n
           c == SubSeq(src, 1, q)
           d == a \o r
<1>1. N \in Nat /\ pos \in 0 .. N /\ q \in 0 .. N /\ q \in Nat
  BY LenProperties
<1>2. a \in Seq(ByteValue) /\ Len(a) = pos /\ \A i \in 1 .. pos : a[i] = src[i]
  BY <1>1, FirstBytes
<1>3. c \in Seq(ByteValue) /\ Len(c) = q /\ \A i \in 1 .. q : c[i] = src[i]
  <2> HIDE DEF q
  <2> QED
    BY <1>1, FirstBytes
<1>4. r \in Seq(ByteValue) /\ Len(r) = n /\ \A i \in 1 .. n : r[i] = b
  <2>1. \A i \in 1 .. n : r[i] \in ByteValue
    OBVIOUS
  <2>2. r = [i \in 1 .. n |-> r[i]]
    OBVIOUS
  <2>3. \A i \in 1 .. n : r[i] = b
    OBVIOUS
  <2> HIDE DEF r
  <2>4. r \in Seq(ByteValue) /\ Len(r) = n
    BY <2>1, <2>2
  <2> QED
    BY <2>3, <2>4
<1> HIDE DEF a, r, c
<1>5. /\ d \in Seq(ByteValue) /\ Len(d) = pos + n
      /\ \A i \in 1 .. pos + n : d[i] = IF i <= pos THEN a[i] ELSE r[i - pos]
  <2>1. a \in Seq(ByteValue) /\ r \in Seq(ByteValue)
    BY <1>2, <1>4
  <2>2. Len(a) = pos /\ Len(r) = n
    BY <1>2, <1>4
  <2>3. /\ d \in Seq(ByteValue) /\ Len(d) = Len(a) + Len(r)
        /\ \A i \in 1 .. Len(a) + Len(r) : d[i] = IF i <= Len(a) THEN a[i] ELSE r[i - Len(a)]
    BY <2>1, ConcatProperties
  <2> HIDE DEF d
  <2> QED
    BY <2>2, <2>3
<1> HIDE DEF d
<1>6. ASSUME NEW i \in 1 .. q PROVE d[i] = c[i]
  <2>1. CASE i <= pos
    <3>1. i \in 1 .. pos /\ d[i] = a[i]
      BY <1>1, <1>5, <2>1
    <3> QED
      BY <1>2, <1>3, <3>1
  <2>2. CASE ~ (i <= pos)
    <3>1. i - pos \in 1 .. n /\ pos + (i - pos) = i /\ d[i] = r[i - pos]
      BY <1>1, <1>5, <2>2
    <3>2. src[pos + (i - pos)] = b
      BY <3>1
    <3> QED
      BY <1>3, <1>4, <3>1, <3>2
  <2> QED
    BY <2>1, <2>2
<1>7. d = c
  <2> HIDE DEF q
  <2>1. Len(d) = q
    BY <1>5 DEF q
  <2> QED
    BY <1>3, <1>5, <1>6, <2>1, SeqEqual
<1> QED
  BY <1>7 DEF a, c, d, r

\* The decoder is as far as the coder was, and stays at the end.
RleDecoded(src, k, t) ==
  LET s == RleRun(src, 2 * Len(src) + 1)[Least(k, Len(src))]
  IN  t.out = SubSeq(src, 1, s.pos) /\ t.at = Len(s.dst)

\* Lockstep of the run-length decoder with its coder.
LEMMA UnRleStep ==
  ASSUME NEW src \in Seq(ByteValue), NEW in, RleInput(src, in), NEW k \in Nat \ {0},
         NEW t \in UnLzState, RleDecoded(src, k - 1, t)
  PROVE  /\ UnRlePass(in, Len(src), t) \in UnLzState
         /\ RleDecoded(src, k, UnRlePass(in, Len(src), t))
<1> DEFINE N == Len(src)
           f == RleRun(src, 2 * N + 1)
           j == Least(k - 1, N)
           s == f[j]
           u == f[Least(k, N)]
           r == UnRlePass(in, N, t)
<1>1. N \in Nat /\ k \in Nat /\ k - 1 \in Nat /\ N \in 0 .. N
  BY LenProperties
<1>2. j \in 0 .. N /\ (j = N \/ (j = k - 1 /\ k - 1 < N))
  BY <1>1 DEF Least
<1>3. /\ s \in LzState(src) /\ RleMade(src, j, s) /\ Len(s.dst) \in Nat
      /\ Begins(s.dst, in) /\ in \in Seq(Nat) /\ Len(in) \in Nat
  <2> HIDE DEF j
  <2> QED
    BY <1>2, RleWritten
<1> DEFINE pos == s.pos
           at == t.at
           out == t.out
<1>4. pos \in 0 .. N /\ pos \in Nat
  BY <1>1, <1>3 DEF LzState
<1>5. out = SubSeq(src, 1, pos) /\ at = Len(s.dst) /\ at \in Nat /\ out \in Seq(ByteValue)
  BY <1>3 DEF RleDecoded, UnLzState
<1>6. Len(out) = pos /\ t = [at |-> at, out |-> out]
  <2>1. Len(SubSeq(src, 1, pos)) = pos
    BY <1>4, FirstBytes
  <2> QED
    BY <1>5, <2>1 DEF UnLzState
<1>7. r = IF at + 1 >= Len(in) \/ Len(out) >= N THEN t
          ELSE [at |-> at + 2,
                out |-> out \o [i \in 1 .. Least(in[at + 1], N - Len(out)) |-> in[at + 2]]]
  BY DEF UnRlePass
<1>8. CASE pos = N
  <2>1. r = t
    BY <1>1, <1>6, <1>7, <1>8
  <2>2. u = s
    <3>1. CASE j = N
      <4>1. Least(k, N) = N
        BY <1>1, <1>2, <3>1 DEF Least
      <4> HIDE DEF f
      <4> QED
        BY <3>1, <4>1
    <3>2. CASE j = k - 1 /\ k - 1 < N
      <4>1. Least(k, N) = k /\ k \in 1 .. N
        BY <1>1, <3>2 DEF Least
      <4>2. f[k] = RlePass(src, 2 * N + 1, f[k - 1])
        BY <4>1, RleCodes
      <4>3. ~ RleCoded(src, s, RlePass(src, 2 * N + 1, s))
        BY <1>1, <1>8 DEF RleCoded
      <4>4. RlePass(src, 2 * N + 1, s) = s
        <5> HIDE DEF s
        <5>1. s \in LzState(src) /\ RleMade(src, k - 1, s)
          BY <1>3, <3>2
        <5> QED
          BY <1>1, <4>3, <5>1, RlePassed
      <4> QED
        BY <3>2, <4>1, <4>2, <4>4
    <3> QED
      BY <1>2, <3>1, <3>2
  <2> HIDE DEF r
  <2>3. r \in UnLzState
    BY <2>1
  <2>4. r.out = SubSeq(src, 1, u.pos) /\ r.at = Len(u.dst)
    BY <1>5, <2>1, <2>2
  <2> QED
    BY <2>3, <2>4 DEF RleDecoded, r
<1>9. CASE pos # N
  <2>1. pos < N
    BY <1>1, <1>4, <1>9
  <2>2. j = k - 1 /\ k - 1 < N
    <3>1. j # N
      <4> SUFFICES ASSUME j = N PROVE FALSE
        OBVIOUS
      <4>1. Len(s.dst) = 2 * N + 1 /\ Len(s.dst) <= 2 * pos + 1
        <5>1. (pos = N \/ Len(s.dst) = 2 * j + 1) /\ Len(s.dst) <= 2 * pos + 1
          BY <1>3 DEF RleMade
        <5> QED
          BY <1>9, <5>1
      <4> HIDE DEF pos, N, s
      <4> QED
        BY <1>1, <1>4, <2>1, <4>1
    <3> QED
      BY <1>2, <3>1
  <2>3. Least(k, N) = k /\ k \in 1 .. N /\ k \in 0 .. N
    BY <1>1, <2>2 DEF Least
  <2>4. RleCoded(src, s, u)
    <3>1. f[k] = RlePass(src, 2 * N + 1, f[k - 1])
      BY <2>3, RleCodes
    <3>2. u = RlePass(src, 2 * N + 1, s)
      BY <2>2, <2>3, <3>1
    <3> HIDE DEF s
    <3>3. s \in LzState(src) /\ RleMade(src, k - 1, s)
      BY <1>3, <2>2
    <3> QED
      BY <1>1, <1>9, <3>2, <3>3, RlePassed DEF pos
  <2> DEFINE n == RunLen(src, pos)
             b == src[pos + 1]
             e == <<n, b>>
  <2>5. u = [pos |-> pos + n, dst |-> s.dst \o e]
    BY <2>4 DEF RleCoded
  <2>6. n \in Nat \ {0} /\ pos + n <= N /\ \A i \in 1 .. n : src[pos + i] = b
    <3>1. pos \in 0 .. Len(src) - 1
      BY <1>1, <1>4, <2>1
    <3> HIDE DEF pos
    <3> QED
      BY <3>1, RunLenIs
  <2>7. b \in ByteValue /\ b \in Nat
    <3>1. pos + 1 \in 1 .. Len(src)
      BY <1>1, <1>4, <2>1
    <3> HIDE DEF pos
    <3>2. b \in ByteValue
      BY <3>1, LenProperties
    <3> QED
      BY <3>1, <3>2, BytesAreNat
  <2> HIDE DEF n, b
  <2>8. e \in Seq(Nat) /\ Len(e) = 2 /\ e[1] = n /\ e[2] = b
    BY <2>6, <2>7
  <2> HIDE DEF e
  <2>9. u.dst = s.dst \o e /\ u.pos = pos + n
    BY <2>5
  <2>10. /\ Len(u.dst) = at + 2 /\ u.dst[at + 1] = n /\ u.dst[at + 2] = b
    <3> DEFINE d == s.dst
    <3>1. d \in Seq(Nat)
      BY <1>3 DEF LzState
    <3> HIDE DEF d
    <3>2. Len(d \o e) = Len(d) + Len(e) /\ \A i \in 1 .. Len(e) : (d \o e)[Len(d) + i] = e[i]
      <4>1. e \in Seq(Nat) /\ d \in Seq(Nat)
        BY <2>8, <3>1
      <4> QED
        BY <4>1, Lengthened
    <3>3. 1 \in 1 .. Len(e) /\ 2 \in 1 .. Len(e)
      BY <2>8
    <3>4. Len(d) = at /\ u.dst = d \o e
      BY <1>5, <2>9 DEF d
    <3>5. d \o e = u.dst
      BY <3>4
    <3> HIDE DEF u, at
    <3>6. Len(u.dst) = at + Len(e) /\ u.dst[at + 1] = e[1] /\ u.dst[at + 2] = e[2]
      BY <3>2, <3>3, <3>4, <3>5
    <3> QED
      BY <2>8, <3>6
  <2>11. Begins(u.dst, in)
    <3>1. Begins(f[k].dst, in)
      BY <2>3, RleWritten
    <3> QED
      BY <2>3, <3>1
  <2>12. in[at + 1] = n /\ in[at + 2] = b /\ at + 2 <= Len(in)
    <3>1. at + 1 \in 1 .. Len(u.dst) /\ at + 2 \in 1 .. Len(u.dst)
      <4> DEFINE l == Len(u.dst)
      <4>1. l = at + 2
        BY <2>10
      <4>2. at \in Nat
        BY <1>5
      <4> HIDE DEF at, u, l
      <4>3. at + 1 \in 1 .. l /\ at + 2 \in 1 .. l
        BY <4>1, <4>2
      <4> QED
        BY <4>3 DEF l
    <3> QED
      BY <2>10, <2>11, <3>1 DEF Begins
  <2>13. ~ (at + 1 >= Len(in)) /\ ~ (Len(out) >= N) /\ Least(n, N - Len(out)) = n
    <3>1. Least(n, N - pos) = n
      <4> HIDE DEF pos, N
      <4> QED
        BY <1>1, <1>4, <2>6 DEF Least
    <3>2. ~ (at + 1 >= Len(in))
      <4> HIDE DEF at
      <4> QED
        BY <1>3, <1>5, <2>12
    <3> QED
      BY <1>1, <1>4, <1>6, <2>1, <3>1, <3>2
  <2>14. r = [at |-> at + 2, out |-> out \o [i \in 1 .. n |-> b]]
    BY <1>7, <2>12, <2>13
  <2>15. out \o [i \in 1 .. n |-> b] = SubSeq(src, 1, pos + n)
    <3> DEFINE o == SubSeq(src, 1, pos)
    <3>1. o \o [i \in 1 .. n |-> b] = SubSeq(src, 1, pos + n)
      <4>1. pos \in Nat /\ pos + n <= Len(src) /\ n \in Nat /\ \A i \in 1 .. n : src[pos + i] = b
        BY <1>4, <2>6
      <4> HIDE DEF pos
      <4> QED
        BY <2>7, <4>1, RunBack
    <3> QED
      BY <1>5, <3>1
  <2> HIDE DEF r
  <2>16. r.out = SubSeq(src, 1, u.pos) /\ r.at = Len(u.dst)
    BY <2>9, <2>10, <2>14, <2>15
  <2>17. SubSeq(src, 1, pos + n) \in Seq(ByteValue) /\ at + 2 \in Nat
    <3>1. pos + n \in 0 .. Len(src)
      BY <1>1, <1>4, <2>6
    <3> DEFINE q == pos + n
    <3> HIDE DEF q
    <3>2. SubSeq(src, 1, q) \in Seq(ByteValue)
      BY <3>1, FirstBytes DEF q
    <3> QED
      BY <1>5, <3>2 DEF q
  <2>18. r \in UnLzState
    BY <2>14, <2>15, <2>17 DEF UnLzState
  <2> QED
    BY <2>16, <2>18 DEF RleDecoded, r
<1> QED
  BY <1>8, <1>9

\* Both of its loops start in step.
LEMMA RleStarts ==
  ASSUME NEW src \in Seq(ByteValue), NEW in, RleInput(src, in)
  PROVE  in[1] = Len(src) /\ Len(in) \in Nat /\ RleDecoded(src, 0, [at |-> 1, out |-> <<>>])
<1> DEFINE N == Len(src)
           f == RleRun(src, 2 * N + 1)
<1>1. N \in Nat /\ 0 \in 0 .. N /\ Least(0, N) = 0
  BY LenProperties DEF Least
<1>2. f[0] = [pos |-> 0, dst |-> <<N>>]
  BY <1>1, RleCodes
<1>3. Begins(f[0].dst, in) /\ Len(in) \in Nat
  BY <1>1, RleWritten
<1> HIDE DEF f
<1>4. Len(f[0].dst) = 1 /\ 1 \in 1 .. Len(f[0].dst) /\ f[0].dst[1] = N /\ f[0].pos = 0
  BY <1>1, <1>2
<1>5. in[1] = N
  BY <1>3, <1>4 DEF Begins
<1>6. SubSeq(src, 1, 0) = <<>>
  BY SubSeqEmpty
<1> QED
  BY <1>1, <1>3, <1>4, <1>5, <1>6 DEF RleDecoded, f

UnRleRunIs(in, f) ==
  f = [k \in 0 .. Len(in) |-> IF k = 0 THEN [at |-> 1, out |-> <<>>] ELSE UnRlePass(in, in[1], f[k - 1])]

\* The states of the run-length decoder's loop.
LEMMA UnRleRuns ==
  ASSUME NEW src \in Seq(ByteValue),
         NEW in,
         RleInput(src, in)
  PROVE  /\ UnRleRunIs(in, UnRleRun(in))
         /\ \A k \in 0 .. Len(in) : UnRleRun(in)[k] \in UnLzState /\ RleDecoded(src, k, UnRleRun(in)[k])
<1> DEFINE n == Len(in)
           S == UnLzState
           a == [at |-> 1, out |-> <<>>]
           step == [s \in S |-> UnRlePass(in, in[1], s)]
           Good == {x \in (0 .. n) \X S : RleDecoded(src, x[1], x[2])}
<1>1. n \in Nat
  BY RleStarts
<1>2. a \in S /\ RleDecoded(src, 0, a)
  BY RleStarts DEF UnLzState
<1>3. KeptBy(n, S, a, step, Good)
  <2>1. <<0, a>> \in Good
    <3> HIDE DEF S, a
    <3> QED
      BY <1>1, <1>2
  <2>2. ASSUME NEW k \in 1 .. n, NEW s \in S, <<k - 1, s>> \in Good
        PROVE  step[s] \in S /\ <<k, step[s]>> \in Good
    <3>1. RleDecoded(src, k - 1, s)
      BY <2>2
    <3>2. UnRlePass(in, in[1], s) \in S /\ RleDecoded(src, k, UnRlePass(in, in[1], s))
      BY <3>1, UnRleStep, RleStarts
    <3>3. step[s] = UnRlePass(in, in[1], s) /\ k \in 0 .. n
      BY <1>1
    <3> HIDE DEF S, step
    <3> QED
      BY <3>2, <3>3
  <2> HIDE DEF n, S, a, step, Good
  <2> QED
    BY <2>1, <2>2 DEF KeptBy
<1> HIDE DEF a, Good
<1>4. \E f : UnRleRunIs(in, f)
  <2>1. PICK f : f = [k \in 0 .. n |-> f[k]] /\ Goes(f, n, S, a, step)
    <3> HIDE DEF n, S, step
    <3> QED
      BY <1>1, <1>2, <1>3, LoopExists
  <2>2. \A k \in 0 .. n : f[k] \in S
    <3> HIDE DEF n, S, step
    <3> QED
      BY <1>1, <1>2, <1>3, <2>1, LoopKeeps
  <2>3. ASSUME NEW k \in 0 .. n
        PROVE  f[k] = IF k = 0 THEN a ELSE UnRlePass(in, in[1], f[k - 1])
    <3>1. CASE k = 0
      BY <2>1, <3>1 DEF Goes
    <3>2. CASE k # 0
      <4>1. k \in 1 .. n /\ k - 1 \in 0 .. n
        BY <1>1, <3>2
      <4>2. f[k - 1] \in S /\ f[k] = step[f[k - 1]]
        BY <2>1, <2>2, <4>1 DEF Goes
      <4> QED
        BY <3>2, <4>2
    <3> QED
      BY <3>1, <3>2
  <2> QED
    BY <2>1, <2>3 DEF UnRleRunIs, a
<1> DEFINE g == CHOOSE f : UnRleRunIs(in, f)
<1>5. UnRleRunIs(in, g)
  BY <1>4
<1>6. UnRleRun(in) = g
  BY Zenon DEF UnRleRun, UnRleRunIs
<1> HIDE DEF g
<1>7. Goes(g, n, S, a, step)
  <2>1. g[0] = a
    BY <1>1, <1>5 DEF UnRleRunIs, a
  <2>2. ASSUME NEW k \in 1 .. n, g[k - 1] \in S PROVE g[k] = step[g[k - 1]]
    <3>1. k \in 0 .. n /\ k # 0
      BY <1>1
    <3>2. g[k] = UnRlePass(in, in[1], g[k - 1])
      BY <1>5, <3>1 DEF UnRleRunIs
    <3> QED
      BY <2>2, <3>2
  <2> HIDE DEF n, S, step
  <2> QED
    BY <2>1, <2>2 DEF Goes
<1>8. ASSUME NEW k \in 0 .. n PROVE g[k] \in S /\ RleDecoded(src, k, g[k])
  <2>1. <<k, g[k]>> \in Good
    <3> HIDE DEF n, S, step
    <3> QED
      BY <1>1, <1>2, <1>3, <1>7, LoopKeeps
  <2> QED
    BY <2>1 DEF Good
<1> QED
  BY <1>5, <1>6, <1>8

\* What compress_rle codes, decompress_rle decodes.
LEMMA RleReadsBack ==
  ASSUME NEW src \in Seq(ByteValue)
  PROVE  decompress_rle(compress_rle(src, 2 * Len(src) + 1), Len(src)) = src
<1> DEFINE N == Len(src)
           in == compress_rle(src, 2 * N + 1)
           L == Len(in)
           f == RleRun(src, 2 * N + 1)
           g == UnRleRun(in)
<1>1. RleInput(src, in) /\ N \in Nat
  BY LenProperties DEF RleInput
<1> HIDE DEF in
<1>2. in[1] = N /\ L \in Nat /\ L \in 0 .. L
  BY <1>1, RleStarts
<1>3. RleDecoded(src, L, g[L])
  BY <1>1, <1>2, UnRleRuns
<1> DEFINE j == Least(L, N)
           s == f[j]
<1>4. j \in 0 .. N /\ (j = N \/ j = L)
  BY <1>1, <1>2 DEF Least
<1>5. /\ s \in LzState(src) /\ RleMade(src, j, s) /\ Len(s.dst) \in Nat /\ Begins(s.dst, in)
  <2> HIDE DEF j
  <2> QED
    BY <1>1, <1>4, RleWritten
<1>6. s.pos = N
  <2> SUFFICES ASSUME s.pos # N PROVE FALSE
    OBVIOUS
  <2>1. /\ Len(s.dst) = 2 * j + 1 /\ Len(s.dst) <= 2 * s.pos + 1 /\ s.pos \in 0 .. N
        /\ Len(s.dst) <= L
    BY <1>5 DEF RleMade, LzState, Begins
  <2> DEFINE l == Len(s.dst)
             p == s.pos
  <2>2. l = 2 * j + 1 /\ l <= 2 * p + 1 /\ p \in 0 .. N /\ l <= L /\ p # N
    BY <2>1
  <2> HIDE DEF l, p, s, j, L, N
  <2> QED
    BY <1>1, <1>2, <1>4, <2>2
<1>7. g[L].out = SubSeq(src, 1, N)
  BY <1>3, <1>6 DEF RleDecoded
<1>8. SubSeq(src, 1, N) = src
  <2>1. N \in 0 .. N
    BY <1>1
  <2>2. /\ SubSeq(src, 1, N) \in Seq(ByteValue) /\ Len(SubSeq(src, 1, N)) = N
        /\ \A i \in 1 .. N : SubSeq(src, 1, N)[i] = src[i]
    BY <2>1, FirstBytes
  <2> QED
    BY <1>1, <2>2, SeqEqual
<1>9. ~ (in[1] > N)
  BY <1>1, <1>2
<1>10. decompress_rle(in, N) = src
  BY <1>7, <1>8, <1>9 DEF decompress_rle
<1> QED
  BY <1>10 DEF in

\* What is compressed comes back.
LEMMA CodesReadBack ==
  ASSUME NEW src \in Seq(ByteValue), Len(src) <= PageBytes, Len(src) + 2 <= PageBytes + Margin
  PROVE  CodecRoundTrip(src)
BY RleReadsBack, PageReadsBack DEF CodecRoundTrip

-----------------------------------------------------------------------------
(* The lexer's two passes over a string literal. *)

\* The characters that escapes are made of differ.
LEMMA CharsDiffer ==
  /\ DoubleQuote # Backslash
  /\ \A c \in {DoubleQuote, Backslash} :
       c # "NUL" /\ c # "n" /\ c # "r" /\ c # "t" /\ c # "nl" /\ c # "cr" /\ c # "tab"
BY Zenon DEF DoubleQuote, Backslash

\* They are characters, and zero is none.
LEMMA CharsAre ==
  /\ \A c \in Char : c # "NUL" /\ Unescaped(c) \in Char
  /\ {DoubleQuote, Backslash, "n", "r", "t"} \subseteq Char
<1>1. "NUL" \notin Char
  BY Zenon DEF Char, Quote, Letter, Digit, Punctuation, Space, DoubleQuote, Backslash
<1>2. {DoubleQuote, Backslash, "n", "r", "t", "nl", "tab"} \subseteq Char
  BY Zenon DEF Char, Quote, Letter, Space
<1>3. ASSUME NEW c \in Char PROVE Unescaped(c) \in {"nl", "tab", c}
  BY DEF Unescaped
<1> QED
  BY <1>1, <1>2, <1>3

\* Behind the text there is a zero, which is no character of it.
LEMMA CharIs ==
  ASSUME NEW s \in Seq(Char), NEW i \in Nat \ {0}
  PROVE  /\ CharAt(s, i) # "NUL" <=> i <= Len(s)
         /\ i <= Len(s) => CharAt(s, i) = s[i] /\ s[i] \in Char
<1>1. Len(s) \in Nat
  BY LenProperties
<1>2. ASSUME i <= Len(s) PROVE s[i] \in Char /\ s[i] # "NUL"
  <2>1. i \in 1 .. Len(s)
    BY <1>1, <1>2
  <2>2. s[i] \in Char
    BY <2>1, LenProperties
  <2> QED
    BY <2>2, CharsAre
<1> QED
  BY <1>2 DEF CharAt

LiteralState == [next : Nat \ {0}, text : Seq(Char)]
CountState == [next : Nat \ {0}, len : Nat]

\* A round of the second pass: it stops at the quote, or takes one or two characters.
LEMMA CopyRoundIs ==
  ASSUME NEW s \in Seq(Char), NEW q, NEW p \in LiteralState
  PROVE  CopyRound(s, q, p) \in LiteralState
<1>1. p.next \in Nat \ {0} /\ p.text \in Seq(Char) /\ p.next + 1 \in Nat \ {0} /\ p.next + 2 \in Nat \ {0}
  BY DEF LiteralState
<1>2. CASE CharAt(s, p.next) \in {"NUL", q}
  BY <1>2 DEF CopyRound
<1>3. CASE CharAt(s, p.next) \notin {"NUL", q}
  <2>1. s[p.next] \in Char
    BY <1>1, <1>3, CharIs
  <2>2. CASE s[p.next] = Backslash /\ CharAt(s, p.next + 1) # "NUL"
    <3> DEFINE c == Unescaped(s[p.next + 1])
    <3>1. c \in Char
      <4>1. s[p.next + 1] \in Char
        BY <1>1, <2>2, CharIs
      <4> QED
        BY <4>1, CharsAre
    <3>2. CopyRound(s, q, p) = [next |-> p.next + 2, text |-> Append(p.text, c)]
      BY <1>3, <2>2 DEF CopyRound
    <3> HIDE DEF c
    <3>3. Append(p.text, c) \in Seq(Char)
      BY <1>1, <3>1, AppendProperties
    <3> QED
      BY <1>1, <3>2, <3>3 DEF LiteralState
  <2>3. CASE ~ (s[p.next] = Backslash /\ CharAt(s, p.next + 1) # "NUL")
    <3>1. CopyRound(s, q, p) = [next |-> p.next + 1, text |-> Append(p.text, s[p.next])]
      BY <1>3, <2>3 DEF CopyRound
    <3>2. Append(p.text, s[p.next]) \in Seq(Char)
      BY <1>1, <2>1, AppendProperties
    <3> QED
      BY <1>1, <3>1, <3>2 DEF LiteralState
  <2> QED
    BY <2>2, <2>3
<1> QED
  BY <1>2, <1>3

\* A round of the first pass moves as one of the second does.
LEMMA CountRoundIs ==
  ASSUME NEW s \in Seq(Char), NEW q, NEW p \in CountState
  PROVE  CountRound(s, q, p) \in CountState
<1>1. p.next \in Nat \ {0} /\ p.len \in Nat
  BY DEF CountState
<1>2. CASE CharAt(s, p.next) \in {"NUL", q}
  BY <1>2 DEF CountRound
<1>3. CASE CharAt(s, p.next) \notin {"NUL", q}
  BY <1>1, <1>3 DEF CountRound, CountState
<1> QED
  BY <1>2, <1>3

LiteralRunIs(str, i, q, f) ==
  f = [k \in 0 .. Len(str) |-> IF k = 0 THEN [next |-> i, text |-> <<>>] ELSE CopyRound(str, q, f[k - 1])]

\* The states of the second pass.
LEMMA LiteralRuns ==
  ASSUME NEW str \in Seq(Char),
         NEW i \in Nat \ {0},
         NEW q
  PROVE  \E f : /\ LiteralRunIs(str, i, q, f) /\ Literal(str, i, q) = f[Len(str)]
              /\ \A k \in 0 .. Len(str) : f[k] \in LiteralState
<1> DEFINE n == Len(str)
           S == LiteralState
           a == [next |-> i, text |-> <<>>]
           step == [s \in S |-> CopyRound(str, q, s)]
           Good == (0 .. n) \X S
<1>1. n \in Nat
  BY LenProperties
<1>2. a \in S
  BY DEF LiteralState
<1>3. KeptBy(n, S, a, step, Good)
  <2>1. <<0, a>> \in Good
    <3> HIDE DEF S, a
    <3> QED
      BY <1>1, <1>2
  <2>2. ASSUME NEW k \in 1 .. n, NEW s \in S, <<k - 1, s>> \in Good
        PROVE  step[s] \in S /\ <<k, step[s]>> \in Good
    <3>1. CopyRound(str, q, s) \in S
      BY CopyRoundIs
    <3>2. step[s] = CopyRound(str, q, s) /\ k \in 0 .. n
      BY <1>1
    <3> HIDE DEF S, step
    <3> QED
      BY <3>1, <3>2
  <2> HIDE DEF n, S, a, step, Good
  <2> QED
    BY <2>1, <2>2 DEF KeptBy
<1> HIDE DEF a, Good
<1>4. \E f : LiteralRunIs(str, i, q, f)
  <2>1. PICK f : f = [k \in 0 .. n |-> f[k]] /\ Goes(f, n, S, a, step)
    <3> HIDE DEF n, S, step
    <3> QED
      BY <1>1, <1>2, <1>3, LoopExists
  <2>2. \A k \in 0 .. n : f[k] \in S
    <3> HIDE DEF n, S, step
    <3> QED
      BY <1>1, <1>2, <1>3, <2>1, LoopKeeps
  <2>3. ASSUME NEW k \in 0 .. n
        PROVE  f[k] = IF k = 0 THEN a ELSE CopyRound(str, q, f[k - 1])
    <3>1. CASE k = 0
      BY <2>1, <3>1 DEF Goes
    <3>2. CASE k # 0
      <4>1. k \in 1 .. n /\ k - 1 \in 0 .. n
        BY <1>1, <3>2
      <4>2. f[k - 1] \in S /\ f[k] = step[f[k - 1]]
        BY <2>1, <2>2, <4>1 DEF Goes
      <4> QED
        BY <3>2, <4>2
    <3> QED
      BY <3>1, <3>2
  <2> QED
    BY <2>1, <2>3 DEF LiteralRunIs, a
<1> DEFINE g == CHOOSE f : LiteralRunIs(str, i, q, f)
<1>5. LiteralRunIs(str, i, q, g)
  BY <1>4
<1>6. Literal(str, i, q) = g[Len(str)]
  BY Zenon DEF Literal, LiteralRunIs
<1> HIDE DEF g
<1>7. Goes(g, n, S, a, step)
  <2>1. g[0] = a
    BY <1>1, <1>5 DEF LiteralRunIs, a
  <2>2. ASSUME NEW k \in 1 .. n, g[k - 1] \in S PROVE g[k] = step[g[k - 1]]
    <3>1. k \in 0 .. n /\ k # 0
      BY <1>1
    <3>2. g[k] = CopyRound(str, q, g[k - 1])
      BY <1>5, <3>1 DEF LiteralRunIs
    <3> QED
      BY <2>2, <3>2
  <2> HIDE DEF n, S, step
  <2> QED
    BY <2>1, <2>2 DEF Goes
<1>8. ASSUME NEW k \in 0 .. n PROVE g[k] \in S
  <2>1. <<k, g[k]>> \in Good
    <3> HIDE DEF n, S, step
    <3> QED
      BY <1>1, <1>2, <1>3, <1>7, LoopKeeps
  <2> QED
    BY <2>1 DEF Good
<1> QED
  BY <1>5, <1>6, <1>8

CountRunIs(str, i, q, f) ==
  f = [k \in 0 .. Len(str) |-> IF k = 0 THEN [next |-> i, len |-> 0] ELSE CountRound(str, q, f[k - 1])]

\* The states of the first pass.
LEMMA CountRuns ==
  ASSUME NEW str \in Seq(Char),
         NEW i \in Nat \ {0},
         NEW q
  PROVE  \E f : /\ CountRunIs(str, i, q, f) /\ LiteralLength(str, i, q) = f[Len(str)].len
              /\ \A k \in 0 .. Len(str) : f[k] \in CountState
<1> DEFINE n == Len(str)
           S == CountState
           a == [next |-> i, len |-> 0]
           step == [s \in S |-> CountRound(str, q, s)]
           Good == (0 .. n) \X S
<1>1. n \in Nat
  BY LenProperties
<1>2. a \in S
  BY DEF CountState
<1>3. KeptBy(n, S, a, step, Good)
  <2>1. <<0, a>> \in Good
    <3> HIDE DEF S, a
    <3> QED
      BY <1>1, <1>2
  <2>2. ASSUME NEW k \in 1 .. n, NEW s \in S, <<k - 1, s>> \in Good
        PROVE  step[s] \in S /\ <<k, step[s]>> \in Good
    <3>1. CountRound(str, q, s) \in S
      BY CountRoundIs
    <3>2. step[s] = CountRound(str, q, s) /\ k \in 0 .. n
      BY <1>1
    <3> HIDE DEF S, step
    <3> QED
      BY <3>1, <3>2
  <2> HIDE DEF n, S, a, step, Good
  <2> QED
    BY <2>1, <2>2 DEF KeptBy
<1> HIDE DEF a, Good
<1>4. \E f : CountRunIs(str, i, q, f)
  <2>1. PICK f : f = [k \in 0 .. n |-> f[k]] /\ Goes(f, n, S, a, step)
    <3> HIDE DEF n, S, step
    <3> QED
      BY <1>1, <1>2, <1>3, LoopExists
  <2>2. \A k \in 0 .. n : f[k] \in S
    <3> HIDE DEF n, S, step
    <3> QED
      BY <1>1, <1>2, <1>3, <2>1, LoopKeeps
  <2>3. ASSUME NEW k \in 0 .. n
        PROVE  f[k] = IF k = 0 THEN a ELSE CountRound(str, q, f[k - 1])
    <3>1. CASE k = 0
      BY <2>1, <3>1 DEF Goes
    <3>2. CASE k # 0
      <4>1. k \in 1 .. n /\ k - 1 \in 0 .. n
        BY <1>1, <3>2
      <4>2. f[k - 1] \in S /\ f[k] = step[f[k - 1]]
        BY <2>1, <2>2, <4>1 DEF Goes
      <4> QED
        BY <3>2, <4>2
    <3> QED
      BY <3>1, <3>2
  <2> QED
    BY <2>1, <2>3 DEF CountRunIs, a
<1> DEFINE g == CHOOSE f : CountRunIs(str, i, q, f)
<1>5. CountRunIs(str, i, q, g)
  BY <1>4
<1>6. LiteralLength(str, i, q) = g[Len(str)].len
  BY Zenon DEF LiteralLength, CountRunIs
<1> HIDE DEF g
<1>7. Goes(g, n, S, a, step)
  <2>1. g[0] = a
    BY <1>1, <1>5 DEF CountRunIs, a
  <2>2. ASSUME NEW k \in 1 .. n, g[k - 1] \in S PROVE g[k] = step[g[k - 1]]
    <3>1. k \in 0 .. n /\ k # 0
      BY <1>1
    <3>2. g[k] = CountRound(str, q, g[k - 1])
      BY <1>5, <3>1 DEF CountRunIs
    <3> QED
      BY <2>2, <3>2
  <2> HIDE DEF n, S, step
  <2> QED
    BY <2>1, <2>2 DEF Goes
<1>8. ASSUME NEW k \in 0 .. n PROVE g[k] \in S
  <2>1. <<k, g[k]>> \in Good
    <3> HIDE DEF n, S, step
    <3> QED
      BY <1>1, <1>2, <1>3, <1>7, LoopKeeps
  <2> QED
    BY <2>1 DEF Good
<1> QED
  BY <1>5, <1>6, <1>8

\* Both passes make the same steps through the literal.
LEMMA CountsTheCopied ==
  ASSUME NEW s \in Seq(Char), NEW i \in Nat \ {0}, NEW q
  PROVE  Len(Literal(s, i, q).text) = LiteralLength(s, i, q)
<1> DEFINE n == Len(s)
<1>1. n \in Nat /\ n \in 0 .. n
  BY LenProperties
<1>2. PICK f : LiteralRunIs(s, i, q, f) /\ Literal(s, i, q) = f[n] /\ \A k \in 0 .. n : f[k] \in LiteralState
  BY LiteralRuns
<1>3. PICK g : CountRunIs(s, i, q, g) /\ LiteralLength(s, i, q) = g[n].len /\ \A k \in 0 .. n : g[k] \in CountState
  BY CountRuns
<1> DEFINE Good == {k \in 0 .. n : g[k].next = f[k].next /\ g[k].len = Len(f[k].text)}
<1>4. 0 \in Good
  <2>1. f[0] = [next |-> i, text |-> <<>>] /\ g[0] = [next |-> i, len |-> 0]
    BY <1>1, <1>2, <1>3 DEF LiteralRunIs, CountRunIs
  <2> QED
    BY <1>1, <2>1
<1>5. ASSUME NEW k \in 1 .. n, k - 1 \in Good PROVE k \in Good
  <2> DEFINE p == f[k - 1]
             c == g[k - 1]
  <2>1. k \in 0 .. n /\ k - 1 \in 0 .. n /\ k # 0
    BY <1>1
  <2>2. /\ p \in LiteralState /\ c \in CountState /\ c.next = p.next /\ c.len = Len(p.text)
        /\ f[k] = CopyRound(s, q, p) /\ g[k] = CountRound(s, q, c)
    BY <1>2, <1>3, <1>5, <2>1 DEF LiteralRunIs, CountRunIs
  <2> HIDE DEF p, c
  <2>3. p.next \in Nat \ {0} /\ p.text \in Seq(Char)
    BY <2>2 DEF LiteralState
  <2>4. CASE CharAt(s, p.next) \in {"NUL", q}
    <3>1. f[k] = p /\ g[k] = c
      BY <2>2, <2>4 DEF CopyRound, CountRound
    <3> QED
      BY <2>1, <2>2, <3>1
  <2>5. CASE CharAt(s, p.next) \notin {"NUL", q}
    <3>1. s[p.next] \in Char
      BY <2>3, <2>5, CharIs
    <3>2. CASE s[p.next] = Backslash /\ CharAt(s, p.next + 1) # "NUL"
      <4> DEFINE d == Unescaped(s[p.next + 1])
      <4>1. d \in Char
        <5>1. s[p.next + 1] \in Char
          BY <2>3, <3>2, CharIs
        <5> QED
          BY <5>1, CharsAre
      <4>2. f[k] = [next |-> p.next + 2, text |-> Append(p.text, d)]
        BY <2>2, <2>5, <3>2 DEF CopyRound
      <4>3. g[k] = [next |-> p.next + 2, len |-> c.len + 1]
        BY <2>2, <2>5, <3>2 DEF CountRound
      <4> HIDE DEF d
      <4>4. Len(Append(p.text, d)) = Len(p.text) + 1
        BY <2>3, <4>1, AppendProperties
      <4> QED
        BY <2>1, <2>2, <4>2, <4>3, <4>4
    <3>3. CASE ~ (s[p.next] = Backslash /\ CharAt(s, p.next + 1) # "NUL")
      <4>1. f[k] = [next |-> p.next + 1, text |-> Append(p.text, s[p.next])]
        BY <2>2, <2>5, <3>3 DEF CopyRound
      <4>2. g[k] = [next |-> p.next + 1, len |-> c.len + 1]
        BY <2>2, <2>5, <3>3 DEF CountRound
      <4>3. Len(Append(p.text, s[p.next])) = Len(p.text) + 1
        BY <2>3, <3>1, AppendProperties
      <4> QED
        BY <2>1, <2>2, <4>1, <4>2, <4>3
    <3> QED
      BY <3>2, <3>3
  <2> QED
    BY <2>4, <2>5
<1> HIDE DEF Good
<1>6. n \in Good
  BY <1>1, <1>4, <1>5, RoundsKeep
<1> QED
  BY <1>2, <1>3, <1>6 DEF Good

-----------------------------------------------------------------------------
(* A text that backup.c escaped, read by the lexer. *)

Kept(c) == IF c = "cr" THEN "r" ELSE c

\* A character stands for itself, or a backslash and a letter stand for it.
LEMMA EscapedIs ==
  ASSUME NEW c \in Char
  PROVE  /\ Escaped(c) \in Seq(Char) /\ Kept(c) \in Char
         /\ \/ Len(Escaped(c)) = 1 /\ Escaped(c)[1] = c /\ c \notin {DoubleQuote, Backslash, "cr"}
            \/ /\ Len(Escaped(c)) = 2 /\ Escaped(c)[1] = Backslash /\ Escaped(c)[2] \in Char
               /\ Unescaped(Escaped(c)[2]) = Kept(c)
<1>1. {DoubleQuote, Backslash, "n", "r", "t"} \subseteq Char
  BY CharsAre
<1>2. ASSUME NEW d \in Char, Escaped(c) = <<Backslash, d>>, Unescaped(d) = Kept(c), Kept(c) \in Char
      PROVE  /\ Escaped(c) \in Seq(Char) /\ Kept(c) \in Char /\ Len(Escaped(c)) = 2
             /\ Escaped(c)[1] = Backslash /\ Escaped(c)[2] \in Char
             /\ Unescaped(Escaped(c)[2]) = Kept(c)
  BY <1>1, <1>2
<1>3. CASE c \in {DoubleQuote, Backslash}
  <2>1. Escaped(c) = <<Backslash, c>>
    BY <1>3, CharsDiffer DEF Escaped
  <2>2. Unescaped(c) = c /\ Kept(c) = c
    BY <1>3, CharsDiffer DEF Unescaped, Kept
  <2> QED
    BY <1>1, <2>1, <2>2
<1>4. CASE c = "nl"
  <2>1. Escaped(c) = <<Backslash, "n">>
    BY <1>4, CharsDiffer DEF Escaped
  <2>2. Unescaped("n") = Kept(c) /\ Kept(c) \in Char /\ "n" \in Char
    BY <1>1, <1>4 DEF Unescaped, Kept
  <2> QED
    BY <1>2, <2>1, <2>2
<1>5. CASE c = "cr"
  <2>1. Escaped(c) = <<Backslash, "r">>
    BY <1>5, CharsDiffer DEF Escaped
  <2>2. Unescaped("r") = Kept(c) /\ Kept(c) \in Char /\ "r" \in Char
    BY <1>1, <1>5 DEF Unescaped, Kept
  <2> QED
    BY <1>2, <2>1, <2>2
<1>6. CASE c = "tab"
  <2>1. Escaped(c) = <<Backslash, "t">>
    BY <1>6, CharsDiffer DEF Escaped
  <2>2. Unescaped("t") = Kept(c) /\ Kept(c) \in Char /\ "t" \in Char
    BY <1>1, <1>6 DEF Unescaped, Kept
  <2> QED
    BY <1>2, <2>1, <2>2
<1>7. CASE c \notin {DoubleQuote, Backslash, "nl", "cr", "tab"}
  <2>1. Escaped(c) = <<c>>
    BY <1>7 DEF Escaped
  <2> QED
    BY <1>7, <2>1 DEF Kept
<1> QED
  BY <1>3, <1>4, <1>5, <1>6, <1>7

EscapeRunIs(s, f) ==
  f = [k \in 0 .. Len(s) |-> IF k = 0 THEN <<>> ELSE f[k - 1] \o Escaped(s[k])]

\* The states of the loop of escape_json_string.
LEMMA Escapes ==
  ASSUME NEW s \in Seq(Char)
  PROVE  \E f : /\ EscapeRunIs(s, f) /\ \A k \in 0 .. Len(s) : f[k] \in Seq(Char)
                /\ escape_json_string(s) = <<DoubleQuote>> \o f[Len(s)] \o <<DoubleQuote>>
<1> DEFINE n == Len(s)
           S == Seq(Char)
           body == [x \in (1 .. n) \X S |-> x[2] \o Escaped(s[x[1]])]
<1>1. n \in Nat
  BY LenProperties
<1>2. ASSUME NEW k \in 1 .. n, NEW a \in S PROVE a \o Escaped(s[k]) \in S
  <2>1. Escaped(s[k]) \in Seq(Char)
    BY EscapedIs, LenProperties
  <2> QED
    BY <2>1, ConcatProperties
<1>3. body \in [(1 .. n) \X S -> S]
  <2>1. ASSUME NEW x \in (1 .. n) \X S PROVE x[1] \in 1 .. n /\ x[2] \in S
    OBVIOUS
  <2> HIDE DEF S, n
  <2> QED
    BY <1>2, <2>1
<1>4. <<>> \in S
  OBVIOUS
<1>5. PICK h : Rounds(h, n, S, <<>>, body)
  <2> HIDE DEF body, S, n
  <2> QED
    BY <1>1, <1>3, <1>4, RoundsExist
<1>6. h \in [0 .. n -> S] /\ h[0] = <<>>
  BY <1>5 DEF Rounds
<1>7. ASSUME NEW k \in 1 .. n PROVE h[k] = h[k - 1] \o Escaped(s[k])
  <2>1. k - 1 \in 0 .. n
    BY <1>1
  <2>2. h[k] = body[<<k, h[k - 1]>>] /\ <<k, h[k - 1]>> \in (1 .. n) \X S
    BY <1>5, <1>6, <2>1 DEF Rounds
  <2> HIDE DEF S
  <2> QED
    BY <2>2
<1>8. EscapeRunIs(s, h)
  <2>1. h = [k \in 0 .. n |-> h[k]]
    BY <1>6
  <2>2. ASSUME NEW k \in 0 .. n
        PROVE  h[k] = IF k = 0 THEN <<>> ELSE h[k - 1] \o Escaped(s[k])
    <3>1. CASE k = 0
      BY <1>6, <3>1
    <3>2. CASE k # 0
      <4>1. k \in 1 .. n
        BY <3>2
      <4> QED
        BY <1>7, <3>2, <4>1
    <3> QED
      BY <3>1, <3>2
  <2> QED
    BY <2>1, <2>2 DEF EscapeRunIs
<1> DEFINE g == CHOOSE f : EscapeRunIs(s, f)
<1>9. EscapeRunIs(s, g)
  BY <1>8
<1>10. escape_json_string(s) = <<DoubleQuote>> \o g[Len(s)] \o <<DoubleQuote>>
  BY Zenon DEF escape_json_string, EscapeRunIs
<1> HIDE DEF g
<1> DEFINE Good == {k \in 0 .. n : g[k] \in S}
<1>11. 0 \in Good
  BY <1>1, <1>4, <1>9 DEF EscapeRunIs
<1>12. ASSUME NEW k \in 1 .. n, k - 1 \in Good PROVE k \in Good
  <2>1. k \in 0 .. n /\ k # 0
    BY <1>1
  <2>2. g[k] = g[k - 1] \o Escaped(s[k])
    BY <1>9, <2>1 DEF EscapeRunIs
  <2> HIDE DEF S
  <2>3. g[k - 1] \in S
    BY <1>12
  <2>4. g[k] \in S
    BY <1>2, <2>2, <2>3
  <2> QED
    BY <2>1, <2>4
<1> HIDE DEF Good
<1>13. \A k \in 0 .. n : k \in Good
  BY <1>1, <1>11, <1>12, RoundsKeep
<1>14. \A k \in 0 .. n : g[k] \in S
  BY <1>13 DEF Good
<1> QED
  BY <1>9, <1>10, <1>14

\* The text, character by character: where the k-th character's escape stands.
TextIs(s, f, text) ==
  LET N == Len(s)
  IN  /\ text \in Seq(Char) /\ Len(text) = Len(f[N]) + 2
      /\ text[1] = DoubleQuote /\ text[Len(text)] = DoubleQuote
      /\ f[0] = <<>> /\ Len(f[N]) >= N /\ \A k \in 0 .. N : f[k] \in Seq(Char)
      /\ \A k \in 1 .. N :
           /\ Len(f[k]) = Len(f[k - 1]) + Len(Escaped(s[k]))
           /\ \A i \in 1 .. Len(Escaped(s[k])) :
                /\ text[1 + Len(f[k - 1]) + i] = Escaped(s[k])[i]
                /\ 1 + Len(f[k - 1]) + i < Len(text)

\* The text it writes: a quote, the escapes of the characters in order, a quote.
LEMMA TextWritten ==
  ASSUME NEW s \in Seq(Char)
  PROVE  \E f : TextIs(s, f, escape_json_string(s))
<1> DEFINE N == Len(s)
           text == escape_json_string(s)
<1>1. N \in Nat /\ N \in 0 .. N /\ 0 \in 0 .. N
  BY LenProperties
<1>2. PICK f : /\ EscapeRunIs(s, f) /\ \A k \in 0 .. N : f[k] \in Seq(Char)
               /\ text = <<DoubleQuote>> \o f[N] \o <<DoubleQuote>>
  BY Escapes
<1> HIDE DEF text
<1>3. f[0] = <<>>
  BY <1>1, <1>2 DEF EscapeRunIs
<1>4. ASSUME NEW k \in 1 .. N
      PROVE  /\ k - 1 \in 0 .. N /\ k \in 0 .. N /\ Escaped(s[k]) \in Seq(Char) /\ Len(Escaped(s[k])) \in {1, 2}
             /\ Len(f[k]) = Len(f[k - 1]) + Len(Escaped(s[k])) /\ Begins(f[k - 1], f[k])
             /\ \A i \in 1 .. Len(Escaped(s[k])) : f[k][Len(f[k - 1]) + i] = Escaped(s[k])[i]
  <2> DEFINE e == Escaped(s[k])
             a == f[k - 1]
  <2>1. k - 1 \in 0 .. N /\ k \in 0 .. N /\ k # 0
    BY <1>1
  <2>2. e \in Seq(Char) /\ Len(e) \in {1, 2}
    <3>1. s[k] \in Char
      BY LenProperties
    <3> QED
      BY <3>1, EscapedIs
  <2>3. f[k] = a \o e /\ a \in Seq(Char)
    BY <1>2, <2>1 DEF EscapeRunIs
  <2> HIDE DEF e, a
  <2>4. /\ a \o e \in Seq(Char) /\ Len(a \o e) = Len(a) + Len(e) /\ Begins(a, a \o e)
        /\ \A i \in 1 .. Len(e) : (a \o e)[Len(a) + i] = e[i]
    <3>1. a \in Seq(Char) /\ e \in Seq(Char)
      BY <2>2, <2>3
    <3> QED
      BY <3>1, Lengthened
  <2>5. /\ Len(f[k]) = Len(a) + Len(e) /\ Begins(a, f[k])
        /\ \A i \in 1 .. Len(e) : f[k][Len(a) + i] = e[i]
    BY <2>3, <2>4
  <2> QED
    BY <2>1, <2>2, <2>5 DEF a, e
<1>5. \A k \in 0 .. N : Len(f[k]) \in Nat
  BY <1>2, LenProperties
<1>6. Len(f[N]) >= N
  <2> DEFINE Good == {k \in 0 .. N : Len(f[k]) >= k}
  <2>1. 0 \in Good
    BY <1>1, <1>3
  <2>2. ASSUME NEW k \in 1 .. N, k - 1 \in Good PROVE k \in Good
    <3> DEFINE a == Len(f[k - 1])
               b == Len(f[k])
               e == Len(Escaped(s[k]))
    <3>1. a >= k - 1 /\ e \in {1, 2} /\ b = a + e /\ a \in Nat /\ k \in 0 .. N
      BY <1>4, <1>5, <2>2
    <3> HIDE DEF a, b, e
    <3>2. b >= k
      BY <1>1, <3>1
    <3> QED
      BY <3>1, <3>2 DEF b
  <2> HIDE DEF Good
  <2>3. N \in Good
    BY <1>1, <2>1, <2>2, RoundsKeep
  <2> QED
    BY <2>3 DEF Good
<1>7. ASSUME NEW k \in 0 .. N PROVE Begins(f[k], f[N])
  <2> DEFINE Good == {j \in 0 .. N : k <= j => Begins(f[k], f[j])}
  <2>1. 0 \in Good
    <3>1. k <= 0 => k = 0
      BY <1>1
    <3> QED
      BY <1>1, <1>5, <3>1 DEF Begins
  <2>2. ASSUME NEW j \in 1 .. N, j - 1 \in Good PROVE j \in Good
    <3>1. j \in 0 .. N /\ j - 1 \in 0 .. N /\ (k <= j => k <= j - 1 \/ k = j)
      BY <1>1
    <3>2. Begins(f[j - 1], f[j])
      BY <1>4
    <3>3. CASE k <= j - 1
      <4>1. Begins(f[k], f[j - 1])
        BY <2>2, <3>3
      <4>2. Begins(f[k], f[j])
        BY <1>5, <3>1, <3>2, <4>1, BeginsOn
      <4> QED
        BY <3>1, <4>2
    <3>4. CASE k = j
      BY <1>5, <3>1, <3>4 DEF Begins
    <3> QED
      BY <3>1, <3>3, <3>4
  <2> HIDE DEF Good
  <2>3. N \in Good
    BY <1>1, <2>1, <2>2, RoundsKeep
  <2> QED
    BY <1>1, <2>3 DEF Good
<1> DEFINE o == f[N]
           q == <<DoubleQuote>>
<1>8. o \in Seq(Char) /\ Len(o) \in Nat /\ q \in Seq(Char) /\ Len(q) = 1 /\ q[1] = DoubleQuote
  BY <1>1, <1>2, <1>5, CharsAre
<1>9. text = (q \o o) \o q
  BY <1>2
<1> HIDE DEF o, q
<1> DEFINE h == q \o o
<1>10. /\ h \in Seq(Char) /\ Len(h) = Len(o) + 1 /\ h[1] = DoubleQuote
       /\ \A i \in 1 .. Len(o) : h[1 + i] = o[i]
  <2>1. /\ h \in Seq(Char) /\ Len(h) = Len(q) + Len(o) /\ Begins(q, h)
        /\ \A i \in 1 .. Len(o) : h[Len(q) + i] = o[i]
    <3>1. q \in Seq(Char) /\ o \in Seq(Char)
      BY <1>8
    <3> QED
      BY <3>1, Lengthened
  <2>2. 1 \in 1 .. Len(q)
    BY <1>8
  <2> HIDE DEF h
  <2> QED
    BY <1>8, <2>1, <2>2 DEF Begins
<1> HIDE DEF h
<1>11. /\ text \in Seq(Char) /\ Len(text) = Len(o) + 2 /\ text[1] = DoubleQuote /\ text[Len(text)] = DoubleQuote
       /\ \A i \in 1 .. Len(o) : text[1 + i] = o[i]
  <2>1. /\ h \o q \in Seq(Char) /\ Len(h \o q) = Len(h) + Len(q) /\ Begins(h, h \o q)
        /\ \A i \in 1 .. Len(q) : (h \o q)[Len(h) + i] = q[i]
    <3>1. h \in Seq(Char) /\ q \in Seq(Char)
      BY <1>8, <1>10
    <3> QED
      BY <3>1, Lengthened
  <2>2. text = h \o q
    BY <1>9 DEF h
  <2>3. text \in Seq(Char) /\ Len(text) = Len(o) + 2
    BY <1>8, <1>10, <2>1, <2>2
  <2>4. Begins(h, text) /\ 1 \in 1 .. Len(q) /\ text[Len(h) + 1] = DoubleQuote /\ Len(h) + 1 = Len(text)
    BY <1>8, <1>10, <2>1, <2>2, <2>3
  <2>5. ASSUME NEW i \in 1 .. Len(h) PROVE text[i] = h[i]
    BY <2>4 DEF Begins
  <2>6. 1 \in 1 .. Len(h) /\ \A i \in 1 .. Len(o) : 1 + i \in 1 .. Len(h)
    BY <1>8, <1>10
  <2> QED
    BY <1>10, <2>3, <2>4, <2>5, <2>6
<1>12. ASSUME NEW k \in 1 .. N, NEW i \in 1 .. Len(Escaped(s[k]))
       PROVE  /\ text[1 + Len(f[k - 1]) + i] = Escaped(s[k])[i]
              /\ 1 + Len(f[k - 1]) + i < Len(text)
  <2> DEFINE a == Len(f[k - 1])
             b == Len(f[k])
             e == Escaped(s[k])
  <2>1. /\ a \in Nat /\ b \in Nat /\ b = a + Len(e) /\ Len(e) \in Nat
        /\ f[k][a + i] = e[i] /\ Begins(f[k], o)
    BY <1>4, <1>5, <1>7, LenProperties DEF o
  <2>2. a + i \in 1 .. b
    <3> HIDE DEF a, b
    <3> QED
      BY <2>1
  <2>3. o[a + i] = e[i] /\ b <= Len(o)
    BY <2>1, <2>2 DEF Begins
  <2>4. a + i \in 1 .. Len(o) /\ 1 + (a + i) = 1 + a + i /\ 1 + a + i < Len(text)
    <3> HIDE DEF a, b
    <3> QED
      BY <1>8, <1>11, <2>1, <2>2, <2>3
  <2>5. text[1 + (a + i)] = o[a + i]
    BY <1>11, <2>4
  <2> QED
    BY <2>3, <2>4, <2>5
<1>13. TextIs(s, f, text)
  BY <1>2, <1>3, <1>4, <1>6, <1>11, <1>12 DEF TextIs, o
<1> QED
  BY <1>13 DEF text

\* The copying pass undoes the escapes one by one, up to the closing quote.
LEMMA TextRead ==
  ASSUME NEW s \in Seq(Char), NEW f, NEW text, TextIs(s, f, text)
  PROVE  Literal(text, 2, DoubleQuote) = [next |-> Len(text), text |-> [k \in 1 .. Len(s) |-> Kept(s[k])]]
<1> DEFINE N == Len(s)
           M == Len(text)
           q == DoubleQuote
           kept == [k \in 1 .. N |-> Kept(s[k])]
           o == Len(f[N])
<1>1. /\ N \in Nat /\ M \in Nat /\ o \in Nat /\ M = o + 2 /\ o >= N /\ text \in Seq(Char)
      /\ text[M] = q /\ f[0] = <<>> /\ \A k \in 0 .. N : Len(f[k]) \in Nat
  <2>1. N \in Nat /\ N \in 0 .. N
    BY LenProperties
  <2> QED
    BY <2>1, LenProperties DEF TextIs
<1>2. kept \in Seq(Char) /\ Len(kept) = N /\ \A k \in 1 .. N : kept[k] = Kept(s[k])
  <2>1. ASSUME NEW k \in 1 .. N PROVE kept[k] = Kept(s[k]) /\ kept[k] \in Char
    <3>1. s[k] \in Char
      BY LenProperties
    <3> QED
      BY <3>1, EscapedIs
  <2>2. kept = [k \in 1 .. N |-> kept[k]]
    OBVIOUS
  <2> HIDE DEF kept
  <2> QED
    BY <1>1, <2>1, <2>2
<1> HIDE DEF kept
<1>3. PICK c : /\ LiteralRunIs(text, 2, q, c) /\ Literal(text, 2, q) = c[M]
               /\ \A k \in 0 .. M : c[k] \in LiteralState
  <2> DEFINE two == 2
  <2>1. text \in Seq(Char) /\ two \in Nat \ {0}
    BY <1>1
  <2> HIDE DEF two, q
  <2>2. PICK c : /\ LiteralRunIs(text, two, q, c) /\ Literal(text, two, q) = c[Len(text)]
                 /\ \A k \in 0 .. Len(text) : c[k] \in LiteralState
    BY <2>1, LiteralRuns
  <2> QED
    BY <2>2 DEF two
<1>4. /\ c[0] = [next |-> 2, text |-> <<>>]
      /\ \A k \in 1 .. M : c[k] = CopyRound(text, q, c[k - 1])
  <2>1. 0 \in 0 .. M /\ \A k \in 1 .. M : k \in 0 .. M /\ k # 0
    BY <1>1
  <2> QED
    BY <1>3, <2>1 DEF LiteralRunIs
<1> DEFINE Reached(k) == [next |-> 2 + Len(f[Least(k, N)]), text |-> SubSeq(kept, 1, Least(k, N))]
           Good == {k \in 0 .. M : c[k] = Reached(k)}
<1>5. 0 \in Good
  <2>1. Least(0, N) = 0 /\ Len(f[0]) = 0 /\ SubSeq(kept, 1, 0) = <<>>
    BY <1>1, SubSeqEmpty DEF Least
  <2> QED
    BY <1>1, <1>4, <2>1
<1>6. ASSUME NEW k \in 1 .. M, k - 1 \in Good PROVE k \in Good
  <2>1. k \in 0 .. M /\ k \in Nat /\ k - 1 \in Nat
    BY <1>1
  <2>2. c[k] = CopyRound(text, q, Reached(k - 1))
    BY <1>4, <1>6
  <2>3. CASE k > N
    <3>1. Least(k, N) = N /\ Least(k - 1, N) = N
      BY <1>1, <2>1, <2>3 DEF Least
    <3>2. Reached(k) = Reached(k - 1) /\ Reached(k - 1).next = M
      <4>1. 2 + o = M
        BY <1>1
      <4> HIDE DEF M
      <4> QED
        BY <3>1, <4>1
    <3> HIDE DEF Reached
    <3>3. CharAt(text, Reached(k - 1).next) = q
      BY <1>1, <3>2 DEF CharAt
    <3>4. c[k] = Reached(k)
      BY <2>2, <3>2, <3>3 DEF CopyRound
    <3> QED
      BY <2>1, <3>4
  <2>4. CASE k <= N
    <3> DEFINE a == Len(f[k - 1])
               e == Escaped(s[k])
               out == SubSeq(kept, 1, k - 1)
               p == [next |-> 2 + a, text |-> out]
    <3>1. Least(k, N) = k /\ Least(k - 1, N) = k - 1 /\ k \in 1 .. N /\ k - 1 \in 0 .. N /\ k - 1 \in 0 .. N - 1
      BY <1>1, <2>1, <2>4 DEF Least
    <3>2. a \in Nat /\ Reached(k - 1) = p
      BY <1>1, <3>1
    <3>3. /\ Len(f[k]) = a + Len(e)
          /\ \A i \in 1 .. Len(e) : text[1 + a + i] = e[i] /\ 1 + a + i < M
      BY <3>1 DEF TextIs
    <3>4. /\ e \in Seq(Char) /\ Kept(s[k]) \in Char
          /\ \/ Len(e) = 1 /\ e[1] = s[k] /\ s[k] \notin {DoubleQuote, Backslash, "cr"}
             \/ /\ Len(e) = 2 /\ e[1] = Backslash /\ e[2] \in Char
                /\ Unescaped(e[2]) = Kept(s[k])
      <4>1. s[k] \in Char
        BY <3>1, LenProperties
      <4> QED
        BY <4>1, EscapedIs
    <3> HIDE DEF e
    <3>5. /\ 1 \in 1 .. Len(e) /\ text[2 + a] = e[1] /\ 2 + a < M
      <4>1. 1 \in 1 .. Len(e) /\ 1 + a + 1 = 2 + a
        BY <3>2, <3>4
      <4> HIDE DEF a, M
      <4> QED
        BY <3>3, <4>1
    <3>6. CharAt(text, p.next) = e[1] /\ text[p.next] = e[1] /\ p.next = 2 + a /\ p.text = out
      <4>1. 2 + a <= M
        <5> HIDE DEF a, M
        <5> QED
          BY <1>1, <3>2, <3>5
      <4> HIDE DEF a
      <4> QED
        BY <3>5, <4>1 DEF CharAt
    <3>7. e[1] \notin {"NUL", q}
      <4>1. s[k] \in Char
        BY <3>1, LenProperties
      <4> QED
        BY <3>4, <4>1, CharsAre, CharsDiffer
    <3> DEFINE x == Kept(s[k])
    <3>8. CopyRound(text, q, p) = [next |-> 2 + a + Len(e), text |-> Append(out, x)]
      <4>1. CASE Len(e) = 1 /\ e[1] = s[k] /\ s[k] \notin {DoubleQuote, Backslash, "cr"}
        <5>1. ~ (text[p.next] = Backslash /\ CharAt(text, p.next + 1) # "NUL")
          BY <3>6, <4>1
        <5>2. CopyRound(text, q, p) = [next |-> p.next + 1, text |-> Append(p.text, text[p.next])]
          <6> HIDE DEF p
          <6> QED
            BY <3>6, <3>7, <5>1 DEF CopyRound
        <5>3. x = s[k]
          BY <4>1 DEF Kept
        <5> HIDE DEF x, p, a, out
        <5> QED
          BY <3>6, <4>1, <5>2, <5>3
      <4>2. CASE Len(e) = 2 /\ e[1] = Backslash /\ e[2] \in Char /\ Unescaped(e[2]) = Kept(s[k])
        <5>1. text[p.next + 1] = e[2] /\ p.next + 1 <= M /\ p.next + 1 = 3 + a
          <6>1. 2 \in 1 .. Len(e) /\ 1 + a + 2 = 3 + a
            BY <3>2, <4>2
          <6>2. text[3 + a] = e[2] /\ 3 + a < M
            <7> HIDE DEF a, M
            <7> QED
              BY <3>3, <6>1
          <6>3. p.next + 1 = 3 + a
            BY <3>2, <3>6
          <6> HIDE DEF a, M, p
          <6> QED
            BY <1>1, <3>2, <6>2, <6>3
        <5>2. CharAt(text, p.next + 1) # "NUL"
          BY <4>2, <5>1, CharsAre DEF CharAt
        <5>3. CopyRound(text, q, p) = [next |-> p.next + 2, text |-> Append(p.text, Unescaped(text[p.next + 1]))]
          <6> HIDE DEF p
          <6> QED
            BY <3>6, <3>7, <4>2, <5>2 DEF CopyRound
        <5>4. Unescaped(text[p.next + 1]) = x
          BY <4>2, <5>1
        <5> HIDE DEF x, p, a, out
        <5> QED
          BY <3>6, <4>2, <5>3, <5>4
      <4> QED
        BY <3>4, <4>1, <4>2
    <3>9. Append(out, x) = SubSeq(kept, 1, k)
      <4> DEFINE j == k - 1
      <4>1. j \in 0 .. Len(kept) - 1 /\ j + 1 = k
        BY <1>2, <3>1
      <4> HIDE DEF j
      <4>2. SubSeq(kept, 1, j + 1) = Append(SubSeq(kept, 1, j), kept[j + 1])
        BY <1>2, <4>1, OneByteMore
      <4> QED
        BY <1>2, <3>1, <4>1, <4>2 DEF j
    <3>10. 2 + a + Len(e) = 2 + Len(f[k])
      <4>1. Len(e) \in Nat
        BY <3>4
      <4> HIDE DEF a
      <4> QED
        BY <3>2, <3>3, <4>1
    <3>11. Reached(k) = [next |-> 2 + Len(f[k]), text |-> SubSeq(kept, 1, k)]
      BY <3>1
    <3>12. c[k] = Reached(k)
      <4> HIDE DEF Reached, a, out, x
      <4> QED
        BY <2>2, <3>2, <3>8, <3>9, <3>10, <3>11 DEF p
    <3> QED
      BY <2>1, <3>12
  <2> QED
    BY <1>1, <2>1, <2>3, <2>4
<1> HIDE DEF Good
<1>7. M \in Good
  <2>1. M \in 0 .. M
    BY <1>1
  <2> QED
    BY <1>1, <1>5, <1>6, <2>1, RoundsKeep
<1>8. c[M] = Reached(M)
  BY <1>7 DEF Good
<1>9. Least(M, N) = N /\ 2 + o = M
  BY <1>1 DEF Least
<1>10. SubSeq(kept, 1, N) = kept
  <2>1. N \in 0 .. Len(kept)
    BY <1>1, <1>2
  <2>2. /\ SubSeq(kept, 1, N) \in Seq(Char) /\ Len(SubSeq(kept, 1, N)) = N
        /\ \A i \in 1 .. N : SubSeq(kept, 1, N)[i] = kept[i]
    BY <1>2, <2>1, FirstBytes
  <2> QED
    BY <1>2, <2>2, SeqEqual
<1> QED
  BY <1>3, <1>8, <1>9, <1>10 DEF kept

\* One round of tokenize at a quote, and one at the end of the text.
LEMMA QuoteLexed ==
  ASSUME NEW s, NEW p, CharAt(s, p.at) = DoubleQuote
  PROVE  LET lit == Literal(s, p.at + 1, DoubleQuote)
         IN  LexRound(s, p) =
               [at |-> IF CharAt(s, lit.next) = DoubleQuote THEN lit.next + 1 ELSE lit.next,
                tokens |-> Append(p.tokens, Token("STRING", lit.text))]
<1>1. /\ DoubleQuote # "NUL" /\ DoubleQuote \notin Space \cup {"tab"}
      /\ DoubleQuote \notin Punctuation /\ DoubleQuote \in Quote
      /\ DoubleQuote \notin Digit /\ DoubleQuote \notin Letter
  BY Zenon DEF DoubleQuote, Space, Punctuation, Quote, Digit, Letter
<1> QED
  BY <1>1 DEF LexRound

\* At the end of the text tokenize stops.
LEMMA EndLexed ==
  ASSUME NEW s, NEW p, CharAt(s, p.at) = "NUL"
  PROVE  LexRound(s, p) = p
<1>1. /\ "NUL" \notin Space \cup {"tab"} /\ "NUL" \notin Punctuation /\ "NUL" \notin Quote
      /\ "NUL" \notin Digit /\ "NUL" \notin Letter
  BY Zenon DEF DoubleQuote, Space, Punctuation, Quote, Digit, Letter
<1> QED
  BY <1>1 DEF LexRound

LexRunIs(str, f) ==
  f = [k \in 0 .. Len(str) |-> IF k = 0 THEN [at |-> 1, tokens |-> <<>>] ELSE LexRound(str, f[k - 1])]

\* A text that is one literal becomes the token STRING and the end.
LEMMA OneStringLexed ==
  ASSUME NEW s \in Seq(Char), NEW f, NEW text, TextIs(s, f, text)
  PROVE  tokenize(text) = <<Token("STRING", [k \in 1 .. Len(s) |-> Kept(s[k])]), EOFToken>>
<1> DEFINE M == Len(text)
           kept == [k \in 1 .. Len(s) |-> Kept(s[k])]
           tok == Token("STRING", kept)
           a == [at |-> 1, tokens |-> <<>>]
           b == [at |-> M + 1, tokens |-> <<tok>>]
<1>1. M \in Nat /\ M >= 2 /\ text[1] = DoubleQuote /\ text[M] = DoubleQuote
  <2>1. Len(s) \in Nat /\ Len(s) \in 0 .. Len(s)
    BY LenProperties
  <2>2. f[Len(s)] \in Seq(Char) /\ M = Len(f[Len(s)]) + 2 /\ text[1] = DoubleQuote /\ text[M] = DoubleQuote
    BY <2>1 DEF TextIs
  <2> QED
    BY <2>2, LenProperties
<1>2. Literal(text, 2, DoubleQuote) = [next |-> M, text |-> kept]
  BY TextRead
<1> HIDE DEF kept
<1>3. LexRound(text, a) = b
  <2>1. a.at = 1 /\ a.at + 1 = 2 /\ a.tokens = <<>>
    OBVIOUS
  <2>2. CharAt(text, a.at) = DoubleQuote
    BY <1>1 DEF CharAt
  <2> DEFINE lit == Literal(text, 2, DoubleQuote)
  <2>3. lit.next = M /\ lit.text = kept
    BY <1>2
  <2> HIDE DEF a
  <2>4. LexRound(text, a) =
          [at |-> IF CharAt(text, lit.next) = DoubleQuote THEN lit.next + 1 ELSE lit.next,
           tokens |-> Append(a.tokens, Token("STRING", lit.text))]
    BY <2>1, <2>2, QuoteLexed
  <2> HIDE DEF lit
  <2>5. CharAt(text, lit.next) = DoubleQuote
    BY <1>1, <2>3 DEF CharAt
  <2> DEFINE t == Token("STRING", lit.text)
  <2> HIDE DEF t
  <2>6. LexRound(text, a) = [at |-> M + 1, tokens |-> <<t>>]
    BY <2>1, <2>3, <2>4, <2>5 DEF t
  <2> QED
    BY <2>3, <2>6 DEF t
<1>4. LexRound(text, b) = b
  <2>1. CharAt(text, b.at) = "NUL"
    <3>1. b.at = M + 1 /\ ~ (M + 1 <= M)
      BY <1>1
    <3> HIDE DEF b
    <3> QED
      BY <3>1 DEF CharAt
  <2> HIDE DEF b
  <2> QED
    BY <2>1, EndLexed
<1> HIDE DEF a, b
<1> DEFINE h == [k \in 0 .. M |-> IF k = 0 THEN a ELSE b]
<1>5. LexRunIs(text, h)
  <2>1. ASSUME NEW k \in 0 .. M
        PROVE  h[k] = IF k = 0 THEN a ELSE LexRound(text, h[k - 1])
    <3>1. CASE k = 0
      BY <3>1
    <3>2. CASE k = 1
      <4>1. h[k] = b /\ h[k - 1] = a
        BY <1>1, <3>2
      <4> HIDE DEF h
      <4> QED
        BY <1>3, <3>2, <4>1
    <3>3. CASE k > 1
      <4>1. h[k] = b /\ h[k - 1] = b /\ k # 0
        BY <1>1, <3>3
      <4> HIDE DEF h
      <4> QED
        BY <1>4, <4>1
    <3> QED
      BY <1>1, <3>1, <3>2, <3>3
  <2>2. h = [k \in 0 .. M |-> h[k]]
    OBVIOUS
  <2> HIDE DEF h
  <2> QED
    BY <2>1, <2>2 DEF LexRunIs, a
<1> DEFINE g == CHOOSE r : LexRunIs(text, r)
<1>6. LexRunIs(text, g)
  BY <1>5
<1>7. tokenize(text) = Append(g[Len(text)].tokens, EOFToken)
  BY Zenon DEF tokenize, LexRunIs
<1> HIDE DEF g, h
<1> DEFINE Good == {k \in 0 .. M : g[k] = IF k = 0 THEN a ELSE b}
<1>8. 0 \in Good
  BY <1>1, <1>6 DEF LexRunIs, a
<1>9. ASSUME NEW k \in 1 .. M, k - 1 \in Good PROVE k \in Good
  <2>1. k \in 0 .. M /\ k # 0
    BY <1>1
  <2>2. g[k] = LexRound(text, g[k - 1])
    BY <1>6, <2>1 DEF LexRunIs
  <2>3. g[k - 1] = a \/ g[k - 1] = b
    BY <1>9
  <2>4. g[k] = b
    BY <1>3, <1>4, <2>2, <2>3
  <2> QED
    BY <2>1, <2>4
<1> HIDE DEF Good
<1>10. M \in Good
  <2>1. M \in 0 .. M
    BY <1>1
  <2> QED
    BY <1>1, <1>8, <1>9, <2>1, RoundsKeep
<1>11. g[M] = b
  BY <1>1, <1>10 DEF Good
<1> DEFINE eof == EOFToken
<1> HIDE DEF tok, eof
<1>12. Append(<<tok>>, eof) = <<tok, eof>>
  <2> DEFINE x == <<tok>>
             y == <<tok, eof>>
             z == Append(x, eof)
  <2>1. x \in Seq({tok, eof}) /\ Len(x) = 1 /\ x[1] = tok
    OBVIOUS
  <2>2. y \in Seq({tok, eof}) /\ Len(y) = 2 /\ y[1] = tok /\ y[2] = eof
    OBVIOUS
  <2> HIDE DEF x, y
  <2>3. z \in Seq({tok, eof}) /\ Len(z) = 2 /\ z[1] = tok /\ z[2] = eof
    <3> DEFINE S == {tok, eof}
    <3>1. x \in Seq(S) /\ eof \in S
      BY <2>1
    <3> HIDE DEF S
    <3>2. /\ z \in Seq(S) /\ Len(z) = Len(x) + 1 /\ z[Len(x) + 1] = eof
          /\ \A i \in 1 .. Len(x) : z[i] = x[i]
      BY <3>1, AppendProperties
    <3>3. 1 \in 1 .. Len(x)
      BY <2>1
    <3> HIDE DEF z
    <3> QED
      BY <2>1, <3>2, <3>3 DEF S
  <2> HIDE DEF z
  <2>4. \A i \in 1 .. 2 : y[i] = z[i]
    BY <2>2, <2>3
  <2>5. y = z
    BY <2>2, <2>3, <2>4, SeqEqual
  <2> QED
    BY <2>5 DEF x, y, z
<1>13. g[M].tokens = <<tok>>
  BY <1>11 DEF b
<1> QED
  BY <1>7, <1>12, <1>13 DEF tok, eof, kept

\* What backup.c exports of a string, the lexer reads back, and both passes agree.
LEMMA ScriptsRead ==
  ASSUME NEW s \in Seq(Char)
  PROVE  LexerSound(s)
<1>1. PICK f : TextIs(s, f, escape_json_string(s))
  BY TextWritten
<1>2. EscapedReadsBack(s)
  <2> DEFINE text == escape_json_string(s)
  <2> HIDE DEF text
  <2>1. TextIs(s, f, text)
    BY <1>1 DEF text
  <2>2. tokenize(text) = <<Token("STRING", [k \in 1 .. Len(s) |-> Kept(s[k])]), EOFToken>>
    BY <2>1, OneStringLexed
  <2> QED
    BY <2>2 DEF text, EscapedReadsBack, Kept
<1>3. PassesAgree(s)
  <2>1. ASSUME NEW i \in 1 .. Len(s)
        PROVE  Len(Literal(s, i + 1, s[i]).text) = LiteralLength(s, i + 1, s[i])
    <3> DEFINE j == i + 1
               q == s[i]
    <3>1. j \in Nat \ {0}
      BY LenProperties
    <3> HIDE DEF j, q
    <3>2. Len(Literal(s, j, q).text) = LiteralLength(s, j, q)
      BY <3>1, CountsTheCopied
    <3> QED
      BY <3>2 DEF j, q
  <2> QED
    BY <2>1 DEF PassesAgree
<1> QED
  BY <1>2, <1>3 DEF LexerSound

-----------------------------------------------------------------------------
EncInv == sample \in Seq(ByteValue) /\ Len(sample) <= MaxSample /\ script \in Seq(Char)

\* Whatever a page's data or a column's bytes are, what the coders make of them
\* decodes to the same bytes, but for the match length the format has no code for
\* (compress_lz4, compress_rle of src/storage_engine.c); and whatever text
\* escape_json_string of src/backup.c exports, tokenize reads back as one string,
\* never writing behind the buffer its first pass sized (src/lexer.c).
THEOREM EncodingsCorrect == EncInit /\ [][EncNext]_encvars => []EncodingsReadBack
<1>1. EncInit => EncInv
  BY EncodingsAssumption DEF EncInit, EncInv
<1>2. EncInv /\ [EncNext]_encvars => EncInv'
  <2> SUFFICES ASSUME EncInv, [EncNext]_encvars PROVE EncInv'
    OBVIOUS
  <2>1. CASE DrawByte
    <3>1. PICK b \in SampleByte : sample' = Append(sample, b)
      BY <2>1 DEF DrawByte
    <3>2. b \in ByteValue /\ MaxSample \in Nat
      BY EncodingsAssumption, CodecAssumption DEF ByteValue
    <3>3. sample' \in Seq(ByteValue) /\ Len(sample') = Len(sample) + 1
      BY <3>1, <3>2, AppendProperties DEF EncInv
    <3>4. Len(sample) < MaxSample /\ script' = script /\ Len(sample) \in Nat
      BY <2>1, LenProperties DEF DrawByte, EncInv
    <3> QED
      BY <3>2, <3>3, <3>4 DEF EncInv
  <2>2. CASE DrawChar
    <3>1. PICK c \in ScriptChar : script' = Append(script, c)
      BY <2>2 DEF DrawChar
    <3>2. c \in Char
      BY EncodingsAssumption
    <3>3. script' \in Seq(Char)
      BY <3>1, <3>2, AppendProperties DEF EncInv
    <3> QED
      BY <2>2, <3>3 DEF DrawChar, EncInv
  <2>3. CASE UNCHANGED encvars
    BY <2>3 DEF encvars, EncInv
  <2> QED
    BY <2>1, <2>2, <2>3 DEF EncNext
<1>3. EncInv => EncodingsReadBack
  <2> SUFFICES ASSUME EncInv PROVE EncodingsReadBack
    OBVIOUS
  <2>1. CodecRoundTrip(sample)
    <3>1. sample \in Seq(ByteValue) /\ Len(sample) \in Nat /\ Len(sample) <= MaxSample
      BY LenProperties DEF EncInv
    <3>2. Len(sample) <= PageBytes /\ Len(sample) + 2 <= PageBytes + Margin
      BY <3>1, EncodingsAssumption, CodecAssumption
    <3> QED
      BY <3>1, <3>2, CodesReadBack
  <2>2. LexerSound(script)
    BY ScriptsRead DEF EncInv
  <2> QED
    BY <2>1, <2>2 DEF EncodingsReadBack
<1> QED
  BY <1>1, <1>2, <1>3, PTL

=============================================================================
