------------------------------- MODULE KVStore -------------------------------
(***************************************************************************)
(* The key-value store of src/storage.c: an open-addressing hash table     *)
(* with linear probing, an append-only log of its updates, a snapshot file *)
(* written when the log grows past a threshold, and the recovery that      *)
(* rebuilds the table from both.                                           *)
(*                                                                         *)
(* Every operation holds store->lock from its first to its last access of  *)
(* the table, so an operation is one step; kv_snapshot_internal is broken  *)
(* into its file operations, because the process may die between them.     *)
(* A record's bytes count as one unit of log_size.                         *)
(***************************************************************************)
EXTENDS Integers, Sequences

CONSTANTS Key,           \* keys used by the statements
          Val,           \* values (data, size and type together)
          None,          \* "no entry"
          NoFile,        \* a file that does not exist
          Capacity,      \* store->capacity; the table never grows
          Hash,          \* hash(key) % capacity
          Threshold,     \* get_checkpoint_threshold(), in records
          MaxLog,        \* bound: records in the log file
          MaxCrashes,    \* bound: process deaths
          MaxOpenErrors  \* bound: failures of fopen(snap_tmp)

Slot == 0 .. Capacity - 1
Entry == [key : Key, val : Val]
Table == [Slot -> Entry \cup {None}]
PutRec == [op : {"put"}, key : Key, val : Val]
DelRec == [op : {"delete"}, key : Key]

ASSUME CapacityAssumption == Capacity \in Nat \ {0}
ASSUME HashAssumption == Hash \in [Key -> Slot]
ASSUME MarkerAssumption ==
  None \notin Entry /\ None \notin Val /\ NoFile \notin Table
ASSUME BoundAssumption ==
  /\ Threshold \in Nat
  /\ MaxLog \in Nat
  /\ MaxCrashes \in Nat
  /\ MaxOpenErrors \in Nat

VARIABLES entries,     \* store->entries; a slot with occupied = 0 is None
          snapFile,    \* the snapshot file: the image of the table
          tmpFile,     \* the ".tmp" file of a snapshot being written
          logFile,     \* the AOF: its records in order
          logOpen,     \* store->log_fp # NULL
          logSize,     \* store->log_size
          phase,       \* where the process is: "down", inside kv_recover,
                       \* "ready", or inside kv_snapshot_internal
          cursor,      \* loop position of kv_recover
          crashes, openErrors,   \* bounded environment counters
          dropped,     \* ghost: a record was not appended (log_fp = NULL)
                       \* and no snapshot has been completed since
          deletedEver  \* ghost: a kv_delete has vacated a slot

files == <<snapFile, tmpFile, logFile>>
vars == <<entries, snapFile, tmpFile, logFile, logOpen, logSize, phase,
          cursor, crashes, openErrors, dropped, deletedEver>>

-----------------------------------------------------------------------------
(* The hash table. *)

EmptyTable == [s \in Slot |-> None]

\* The i-th slot looked at for key k: idx = (idx + 1) % capacity.
ProbeSlot(k, i) == (Hash[k] + i) % Capacity

\* Where the probe loop for k leaves off: a free slot, or one holding k.
Stops(t, k, i) ==
  LET e == t[ProbeSlot(k, i)] IN e = None \/ e.key = k

\* The loop came back to start_idx: no slot for k.
Full(t, k) == \A i \in Slot : ~ Stops(t, k, i)

StopSlot(t, k) ==
  ProbeSlot(k, CHOOSE i \in Slot : /\ Stops(t, k, i)
                                   /\ \A j \in 0 .. i - 1 : ~ Stops(t, k, j))

Found(t, k) == ~ Full(t, k) /\ t[StopSlot(t, k)] # None

\* kv_get: the value at the first slot holding k, before any free slot.
Lookup(t, k) == IF Found(t, k) THEN t[StopSlot(t, k)].val ELSE None

\* Mutant: an existing entry for the key is not overwritten.
PutInternalFirstFree(t, k, v) ==
  IF \A s \in Slot : t[s] # None THEN t
  ELSE LET i == CHOOSE j \in Slot :
                  /\ t[ProbeSlot(k, j)] = None
                  /\ \A l \in 0 .. j - 1 : t[ProbeSlot(k, l)] # None
       IN  [t EXCEPT ![ProbeSlot(k, i)] = [key |-> k, val |-> v]]

\* Mutant: a key that is present keeps its old value.
PutInternalKeepOld(t, k, v) ==
  IF Full(t, k) \/ Found(t, k) THEN t
  ELSE [t EXCEPT ![StopSlot(t, k)] = [key |-> k, val |-> v]]

\* kv_put_internal: a full table drops the entry silently.
PutInternal(t, k, v) ==
  IF Full(t, k) THEN t
  ELSE [t EXCEPT ![StopSlot(t, k)] = [key |-> k, val |-> v]]

\* The slot is marked unoccupied; the entries after it stay where they are.
Vacate(t, k) ==
  IF Found(t, k) THEN [t EXCEPT ![StopSlot(t, k)] = None] ELSE t

\* The map the table represents to its readers.
Live(t) == [k \in Key |-> Lookup(t, k)]

-----------------------------------------------------------------------------
(* The files. A snapshot holds the occupied slots in table order, so the    *)
(* image of the table stands for it.                                       *)

\* One turn of kv_recover's first loop: the entry saved from slot s.
LoadEntry(t, image, s) ==
  IF image[s] = None THEN t ELSE PutInternal(t, image[s].key, image[s].val)

\* Mutant: recovery replays the puts only.
ApplyRecordPutsOnly(t, r) ==
  IF r.op = "put" THEN PutInternal(t, r.key, r.val) ELSE t

\* One turn of kv_recover's second loop: a record of the log.
ApplyRecord(t, r) ==
  IF r.op = "put" THEN PutInternal(t, r.key, r.val) ELSE Vacate(t, r.key)

-----------------------------------------------------------------------------
(* Steps. *)

Init ==
  /\ entries = EmptyTable
  /\ snapFile = NoFile /\ tmpFile = NoFile /\ logFile = <<>>
  /\ logOpen = TRUE /\ logSize = 0
  /\ phase = "ready" /\ cursor = 0
  /\ crashes = 0 /\ openErrors = 0
  /\ dropped = FALSE /\ deletedEver = FALSE

\* fclose(log_fp); log_fp = NULL: the start of kv_snapshot_internal.
EnterSnapshot == phase' = "closed" /\ logOpen' = FALSE

\* kv_append_log, with the checkpoint it triggers when the log is long.
AppendLog(rec) ==
  IF ~ logOpen
  THEN dropped' = TRUE /\ UNCHANGED <<logFile, logSize, logOpen, phase>>
  ELSE /\ Len(logFile) < MaxLog
       /\ logFile' = Append(logFile, rec)
       /\ logSize' = logSize + 1
       /\ IF logSize' > Threshold THEN EnterSnapshot
                                  ELSE UNCHANGED <<logOpen, phase>>
       /\ UNCHANGED dropped

\* kv_put. The record is appended even when the table was full.
Put(k, v) ==
  /\ phase = "ready"
  /\ entries' = PutInternal(entries, k, v)
  /\ AppendLog([op |-> "put", key |-> k, val |-> v])
  /\ UNCHANGED <<snapFile, tmpFile, cursor, crashes, openErrors,
                 deletedEver>>

\* kv_delete returns without a record when the key is not found.
Delete(k) ==
  /\ phase = "ready"
  /\ Found(entries, k)
  /\ entries' = Vacate(entries, k)
  /\ AppendLog([op |-> "delete", key |-> k])
  /\ deletedEver' = TRUE
  /\ UNCHANGED <<snapFile, tmpFile, cursor, crashes, openErrors>>

\* kv_snapshot, called by CHECKPOINT, COMMIT and shutdown.
Checkpoint ==
  /\ phase = "ready"
  /\ EnterSnapshot
  /\ UNCHANGED <<entries, files, logSize, cursor, crashes, openErrors,
                 dropped, deletedEver>>

\* fopen(snap_tmp) fails: the function returns with log_fp = NULL.
SnapshotOpenFails ==
  /\ phase = "closed"
  /\ openErrors < MaxOpenErrors
  /\ phase' = "ready"
  /\ openErrors' = openErrors + 1
  /\ UNCHANGED <<entries, files, logOpen, logSize, cursor, crashes, dropped,
                 deletedEver>>

\* Mutant: the log is truncated as soon as the new snapshot is written.
SnapshotWriteTmpTruncate ==
  /\ phase = "closed"
  /\ tmpFile' = entries
  /\ logFile' = <<>>
  /\ phase' = "written"
  /\ UNCHANGED <<entries, snapFile, logOpen, logSize, cursor, crashes,
                 openErrors, dropped, deletedEver>>

SnapshotWriteTmp ==
  /\ phase = "closed"
  /\ tmpFile' = entries
  /\ phase' = "written"
  /\ UNCHANGED <<entries, snapFile, logFile, logOpen, logSize, cursor,
                 crashes, openErrors, dropped, deletedEver>>

\* remove(snap_path)
SnapshotRemoveOld ==
  /\ phase = "written"
  /\ snapFile' = NoFile
  /\ phase' = "removed"
  /\ UNCHANGED <<entries, tmpFile, logFile, logOpen, logSize, cursor,
                 crashes, openErrors, dropped, deletedEver>>

\* rename(snap_tmp, snap_path)
SnapshotRename ==
  /\ phase = "removed"
  /\ snapFile' = tmpFile /\ tmpFile' = NoFile
  /\ phase' = "renamed"
  /\ UNCHANGED <<entries, logFile, logOpen, logSize, cursor, crashes,
                 openErrors, dropped, deletedEver>>

\* The log is truncated and reopened for appending.
SnapshotResetLog ==
  /\ phase = "renamed"
  /\ logFile' = <<>> /\ logOpen' = TRUE /\ logSize' = 0
  /\ dropped' = FALSE
  /\ phase' = "ready"
  /\ UNCHANGED <<entries, snapFile, tmpFile, cursor, crashes, openErrors,
                 deletedEver>>

\* The process dies; every append was flushed, so the files survive.
Crash ==
  /\ phase # "down"
  /\ crashes < MaxCrashes
  /\ crashes' = crashes + 1
  /\ phase' = "down"
  /\ entries' = EmptyTable
  /\ logOpen' = FALSE /\ logSize' = 0 /\ cursor' = 0
  /\ dropped' = FALSE
  /\ UNCHANGED <<files, openErrors, deletedEver>>

\* kv_create: an empty table, then kv_recover opens the snapshot if any.
Restart ==
  /\ phase = "down"
  /\ phase' = IF snapFile = NoFile THEN "replaying" ELSE "loading"
  /\ UNCHANGED <<entries, files, logOpen, logSize, cursor, crashes,
                 openErrors, dropped, deletedEver>>

RecoverLoad ==
  /\ phase = "loading"
  /\ IF cursor \in Slot
     THEN /\ entries' = LoadEntry(entries, snapFile, cursor)
          /\ cursor' = cursor + 1
          /\ UNCHANGED phase
     ELSE /\ phase' = "replaying"
          /\ cursor' = 0
          /\ UNCHANGED entries
  /\ UNCHANGED <<files, logOpen, logSize, crashes, openErrors, dropped,
                 deletedEver>>

\* Mutant: the position in the log is not advanced.
RecoverReplayStuck ==
  /\ phase = "replaying"
  /\ IF cursor + 1 \in 1 .. Len(logFile)
     THEN /\ entries' = ApplyRecord(entries, logFile[cursor + 1])
          /\ UNCHANGED <<phase, logOpen, cursor>>
     ELSE /\ phase' = "ready" /\ logOpen' = TRUE
          /\ cursor' = 0
          /\ UNCHANGED entries
  /\ UNCHANGED <<files, logSize, crashes, openErrors, dropped, deletedEver>>

\* At the end of the log kv_create opens it for appending, log_size = 0.
RecoverReplay ==
  /\ phase = "replaying"
  /\ IF cursor + 1 \in 1 .. Len(logFile)
     THEN /\ entries' = ApplyRecord(entries, logFile[cursor + 1])
          /\ cursor' = cursor + 1
          /\ UNCHANGED <<phase, logOpen>>
     ELSE /\ phase' = "ready" /\ logOpen' = TRUE
          /\ cursor' = 0
          /\ UNCHANGED entries
  /\ UNCHANGED <<files, logSize, crashes, openErrors, dropped, deletedEver>>

RecoverStep == Restart \/ RecoverLoad \/ RecoverReplay

SnapshotStep ==
  \/ SnapshotOpenFails
  \/ SnapshotWriteTmp
  \/ SnapshotRemoveOld
  \/ SnapshotRename
  \/ SnapshotResetLog

Next ==
  \/ \E k \in Key, v \in Val : Put(k, v)
  \/ \E k \in Key : Delete(k)
  \/ Checkpoint
  \/ SnapshotStep
  \/ RecoverStep
  \/ Crash

\* The lock holder runs on: a snapshot that was started is finished (or
\* fails), and a process that died is started again.
Fairness == WF_vars(SnapshotStep) /\ WF_vars(RecoverStep)

Spec == Init /\ [][Next]_vars
FairSpec == Spec /\ Fairness

-----------------------------------------------------------------------------
(* Properties. *)

\* Types of the state of storage.c's KVStore and of its files.
TypeOK ==
  /\ entries \in Table
  /\ snapFile \in Table \cup {NoFile}
  /\ tmpFile \in Table \cup {NoFile}
  /\ logFile \in Seq(PutRec \cup DelRec)
  /\ logOpen \in BOOLEAN /\ logSize \in Nat
  /\ phase \in {"down", "loading", "replaying", "ready", "closed",
                "written", "removed", "renamed"}
  /\ cursor \in Nat /\ crashes \in Nat /\ openErrors \in Nat
  /\ dropped \in BOOLEAN /\ deletedEver \in BOOLEAN

\* No two keys of the workload start probing at the same slot.
NoCollision == \A k, l \in Key : Hash[k] = Hash[l] => k = l

\* What a scan (kv_iterate) shows, a point lookup (kv_get) finds, with the
\* same value: no entry is cut off from its probe chain and no key has two
\* entries with different values.
ScanAgreesWithGet ==
  \A s \in Slot :
     entries[s] # None => Lookup(entries, entries[s].key) = entries[s].val

\* Scan and lookup agree in every table, whatever its capacity and hash
\* function, as long as nothing was deleted or no two keys collide.
ScanAgreesUnlessDeleted ==
  (deletedEver => NoCollision) => ScanAgreesWithGet

\* The put acknowledged last is what the next kv_get returns, unless the
\* table had no room for it: also in a table with holes left by kv_delete
\* and stale copies behind them, and also right after a recovery.
LastPutVisible ==
  LET last == logFile[Len(logFile)]
  IN  /\ phase = "ready" /\ ~ dropped
      /\ logFile # <<>> /\ last.op = "put"
      => Lookup(entries, last.key) = last.val \/ Full(entries, last.key)

\* The value the files hold for k: its last record in the log decides, and
\* where the log is silent the snapshot does.
Stored(k) ==
  LET recs == {i \in 1 .. Len(logFile) : logFile[i].key = k}
      saved == IF snapFile = NoFile THEN {}
               ELSE {s \in Slot : snapFile[s] # None /\ snapFile[s].key = k}
  IN  IF recs # {}
      THEN LET last == logFile[CHOOSE i \in recs : \A j \in recs : j <= i]
           IN  IF last.op = "put" THEN last.val ELSE None
      ELSE IF saved # {} THEN snapFile[CHOOSE s \in saved : TRUE].val
      ELSE None

StoredMap == [k \in Key |-> Stored(k)]

\* Log and snapshot together hold every acknowledged update (keys for which
\* the table had no room excepted), also when the new snapshot is in place
\* and the log it subsumes is not yet truncated. Excluded: the window between
\* remove and rename, updates the store did not log because an earlier
\* snapshot failed to open its file, and tables with cut probe chains.
FilesHoldUpdates ==
  /\ deletedEver => NoCollision
  /\ phase \in {"ready", "closed", "written", "renamed"}
  /\ ~ dropped
  => \A k \in Key : Stored(k) = Lookup(entries, k) \/ Full(entries, k)

\* The comment above remove/rename calls them an atomic swap: a snapshot
\* that was once in place never disappears.
SnapshotSwapAtomic == [][snapFile # NoFile => snapFile' # NoFile]_vars

\* A recovery ends in the map its files describe (keys for which the table
\* has no room excepted), also when it was itself interrupted by a crash and
\* started over, and when the log repeats updates the snapshot has already.
RecoveryComplete ==
  [][phase = "replaying" /\ phase' = "ready" /\ (deletedEver => NoCollision)
       => \A k \in Key : \/ Lookup(entries', k) = Stored(k)
                         \/ Full(entries', k)]_vars

\* A store that went down serves requests again, and a snapshot that was
\* started gives the lock back.
ServesAgain == phase # "ready" ~> phase = "ready"

\* The map the store stands for: the table while it is served, what the
\* files hold while the process is down or recovering.
DurableState ==
  IF phase \in {"down", "loading", "replaying"} THEN StoredMap
                                                ELSE Live(entries)

Durable == INSTANCE DurableMap WITH map <- DurableState

\* The store implements the durable map: every step sets or clears one key,
\* changes nothing, or is a crash that only forgets.
ImplementsDurableMap == Durable!Spec
=============================================================================
