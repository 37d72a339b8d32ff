----------------------------- MODULE Transaction -----------------------------
(***************************************************************************)
(* The transaction manager of src/transaction.c with the statements of     *)
(* src/executor.c that write through it.                                   *)
(*                                                                         *)
(* There is one current_txn for the whole server. A statement changes the  *)
(* store at once and, if a transaction is active, pushes an undo record;   *)
(* ROLLBACK walks the records from the newest to the oldest.  The store    *)
(* itself (src/storage.c, module KVStore) is the map it stands for, and    *)
(* outlives the process.  A statement other than a rollback is one step;   *)
(* the undo loops take one record per step, so a crash can fall inside.    *)
(***************************************************************************)
EXTENDS Integers, Sequences

CONSTANTS Session,     \* client sessions, each with its current database
          Db,          \* database names
          Public,      \* the database that always exists
          TableName, MaxId, Val, Schema, SpName,
          None,        \* "no such key" in the store
          MaxOps,      \* bound: undo records of one transaction
          MaxTxns,     \* bound: transactions begun
          MaxCrashes   \* bound: process deaths

Id == 1 .. MaxId
Tab == Db \X TableName                \* keys DB:<db>:META:TBL:<table>
RowKey == Db \X TableName \X Id       \* keys DB:<db>:TBL:<table>:<id>

ASSUME ConstantAssumption ==
  /\ Public \in Db
  /\ MaxId \in Nat /\ MaxOps \in Nat /\ MaxTxns \in Nat /\ MaxCrashes \in Nat
  /\ None \notin Val /\ None \notin Schema

RowOps == {"insert", "delete", "update"}
DdlOps == {"create", "drop"}

\* TxnOperation. A row record names its row, a DDL record only its table.
Op == [type : RowOps, key : RowKey, old : Val \cup {None}]
      \cup [type : DdlOps, table : TableName, schema : Schema]

\* The tables and rows of the store: what a rollback is to restore.
Image == [meta : [Tab -> Schema \cup {None}], rows : [RowKey -> Val \cup {None}]]

\* Savepoint. The image is a ghost: the store when the savepoint was made.
SpRec == [name : SpName, count : Nat, image : Image]

VARIABLES meta,      \* schema of each table, None if it does not exist
          rows,      \* value of each row, None if absent
          seq,       \* AUTO sequence of each table; 0 stands for "absent"
                     \* too, since both give the same next value
          dbs,       \* registered databases (keys SYS:DB:<db>)
          curDb,     \* ctx->current_db of each session
          txn,       \* g_txn_manager.current_txn # NULL
          txnDb,     \* txn->database
          owner,     \* the session of txn->user
          ops,       \* txn->operations, oldest first
          sps,       \* txn->savepoints, oldest first
          nextTxn,   \* next_txn_id
          phase,     \* "idle", "rollback", "rollbackTo"
          target,    \* target_count of the running rollback
          crashes,
          atBegin,   \* ghost: the image at BEGIN
          hist,      \* ghost: the image before each record of ops
          faithful,  \* ghost: every change since BEGIN has a record that
                     \* undoes it
          lowered    \* ghost: tables whose sequence was reset downwards

Now == [meta |-> meta, rows |-> rows]
store == <<meta, rows, seq, dbs>>
txnVars == <<txn, txnDb, owner, ops, sps, nextTxn>>
loopVars == <<phase, target>>
ghosts == <<atBegin, hist, faithful, lowered>>
vars == <<meta, rows, seq, dbs, curDb, txn, txnDb, owner, ops, sps, nextTxn,
          phase, target, crashes, atBegin, hist, faithful, lowered>>

-----------------------------------------------------------------------------

EmptyImage == [meta |-> [t \in Tab |-> None], rows |-> [r \in RowKey |-> None]]

Init ==
  /\ meta = EmptyImage.meta
  /\ rows = EmptyImage.rows
  /\ seq = [t \in Tab |-> 0]
  /\ dbs = {Public}
  /\ curDb = [s \in Session |-> Public]
  /\ txn = FALSE /\ txnDb = Public /\ owner \in Session
  /\ ops = <<>> /\ sps = <<>>
  /\ nextTxn = 1
  /\ phase = "idle" /\ target = 0
  /\ crashes = 0
  /\ atBegin = EmptyImage /\ hist = <<>> /\ faithful = TRUE /\ lowered = {}

\* The TXN_LOG_* macros: push a record if a transaction is active.
Log(op) ==
  IF txn
  THEN /\ Len(ops) < MaxOps
       /\ ops' = Append(ops, op)
       /\ hist' = Append(hist, Now)
  ELSE UNCHANGED <<ops, hist>>

RowOp(type, r, old) == [type |-> type, key |-> r, old |-> old]
DdlOp(type, t, sch) ==
  [type |-> type, table |-> t, schema |-> sch]

\* The database of a DDL statement is the session's, the undo's is the
\* transaction's: a record faithful to the statement needs them equal.
SameDb(s) == curDb[s] = txnDb

SetSeq(t, n) ==
  /\ seq' = [seq EXCEPT ![t] = n]
  /\ lowered' = IF n < seq[t] THEN lowered \cup {t} ELSE lowered

-----------------------------------------------------------------------------
(* Statements of a session. *)

\* execute_create_table: schema, undo record, sequence reset to 0.
CreateTable(s, tn, sch) ==
  LET t == <<curDb[s], tn>> IN
  /\ phase = "idle"
  /\ meta[t] = None
  /\ meta' = [meta EXCEPT ![t] = sch]
  /\ Log(DdlOp("create", tn, sch))
  /\ SetSeq(t, 0)
  /\ faithful' = (faithful /\ (txn => SameDb(s)))
  /\ UNCHANGED <<rows, dbs, curDb, txn, txnDb, owner, sps, nextTxn, loopVars,
                 crashes, atBegin>>

\* execute_drop_table: only META and SEQ go, the rows stay behind.
DropTable(s, tn) ==
  LET t == <<curDb[s], tn>> IN
  /\ phase = "idle"
  /\ meta[t] # None
  /\ Log(DdlOp("drop", tn, meta[t]))
  /\ meta' = [meta EXCEPT ![t] = None]
  /\ SetSeq(t, 0)
  /\ faithful' = (faithful /\ (txn => SameDb(s)))
  /\ UNCHANGED <<rows, dbs, curDb, txn, txnDb, owner, sps, nextTxn, loopVars,
                 crashes, atBegin>>

\* The tail of execute_insert: a duplicate is skipped, a row is put and
\* logged. Whether the table exists is not asked.
PutRow(s, r, v) ==
  IF rows[r] # None
  THEN UNCHANGED <<rows, ops, hist>>
  ELSE /\ rows' = [rows EXCEPT ![r] = v]
       /\ Log(RowOp("insert", r, None))

\* Mutant: an explicit id does not raise the sequence.
InsertSeqUntouched(s, tn, i, v) ==
  /\ phase = "idle"
  /\ PutRow(s, <<curDb[s], tn, i>>, v)
  /\ UNCHANGED <<meta, seq, dbs, curDb, txn, txnDb, owner, sps, nextTxn,
                 loopVars, crashes, atBegin, faithful, lowered>>

\* execute_insert with an explicit numeric id: the sequence is raised to it
\* first, without an undo record.
Insert(s, tn, i, v) ==
  LET t == <<curDb[s], tn>> IN
  /\ phase = "idle"
  /\ SetSeq(t, IF i > seq[t] THEN i ELSE seq[t])
  /\ PutRow(s, <<curDb[s], tn, i>>, v)
  /\ UNCHANGED <<meta, dbs, curDb, txn, txnDb, owner, sps, nextTxn, loopVars,
                 crashes, atBegin, faithful>>

\* execute_insert with AUTO: the next value of the sequence is the id.
InsertAuto(s, tn, v) ==
  LET t == <<curDb[s], tn>> IN
  /\ phase = "idle"
  /\ seq[t] + 1 \in Id
  /\ SetSeq(t, seq[t] + 1)
  /\ PutRow(s, <<curDb[s], tn, seq[t] + 1>>, v)
  /\ UNCHANGED <<meta, dbs, curDb, txn, txnDb, owner, sps, nextTxn, loopVars,
                 crashes, atBegin, faithful>>

\* execute_delete (WHERE id = i)
Delete(s, tn, i) ==
  LET r == <<curDb[s], tn, i>> IN
  /\ phase = "idle"
  /\ rows[r] # None
  /\ Log(RowOp("delete", r, rows[r]))
  /\ rows' = [rows EXCEPT ![r] = None]
  /\ UNCHANGED <<meta, seq, dbs, curDb, txn, txnDb, owner, sps, nextTxn,
                 loopVars, crashes, atBegin, faithful, lowered>>

\* Mutant: the new value is logged as the old one.
UpdateLogsNew(s, tn, i, v) ==
  LET r == <<curDb[s], tn, i>> IN
  /\ phase = "idle"
  /\ meta[<<curDb[s], tn>>] # None
  /\ rows[r] # None
  /\ Log(RowOp("update", r, v))
  /\ rows' = [rows EXCEPT ![r] = v]
  /\ UNCHANGED <<meta, seq, dbs, curDb, txn, txnDb, owner, sps, nextTxn,
                 loopVars, crashes, atBegin, faithful, lowered>>

\* execute_update (WHERE id = i): table and row must exist.
Update(s, tn, i, v) ==
  LET r == <<curDb[s], tn, i>> IN
  /\ phase = "idle"
  /\ meta[<<curDb[s], tn>>] # None
  /\ rows[r] # None
  /\ Log(RowOp("update", r, rows[r]))
  /\ rows' = [rows EXCEPT ![r] = v]
  /\ UNCHANGED <<meta, seq, dbs, curDb, txn, txnDb, owner, sps, nextTxn,
                 loopVars, crashes, atBegin, faithful, lowered>>

\* sys_create_db
CreateDb(d) ==
  /\ phase = "idle"
  /\ d \notin dbs
  /\ dbs' = dbs \cup {d}
  /\ UNCHANGED <<meta, rows, seq, curDb, txnVars, loopVars, crashes, ghosts>>

\* sys_drop_db: every key of the database goes, and nothing is logged.
DropDb(d) ==
  /\ phase = "idle"
  /\ d \in dbs /\ d # Public
  /\ dbs' = dbs \ {d}
  /\ meta' = [t \in Tab |-> IF t[1] = d THEN None ELSE meta[t]]
  /\ rows' = [r \in RowKey |-> IF r[1] = d THEN None ELSE rows[r]]
  /\ seq' = [t \in Tab |-> IF t[1] = d THEN 0 ELSE seq[t]]
  /\ lowered' = lowered \cup {t \in Tab : t[1] = d}
  /\ faithful' = ~ txn
  /\ UNCHANGED <<curDb, txnVars, loopVars, crashes, atBegin, hist>>

\* execute_use_db, allowed inside a transaction.
UseDb(s, d) ==
  /\ phase = "idle"
  /\ d \in dbs \cup {Public}
  /\ curDb' = [curDb EXCEPT ![s] = d]
  /\ UNCHANGED <<store, txnVars, loopVars, crashes, ghosts>>

-----------------------------------------------------------------------------
(* Transaction control. *)

\* txn_begin: fails if a transaction is active, whoever began it.
Begin(s) ==
  /\ phase = "idle"
  /\ ~ txn
  /\ nextTxn <= MaxTxns
  /\ txn' = TRUE /\ txnDb' = curDb[s] /\ owner' = s
  /\ ops' = <<>> /\ sps' = <<>>
  /\ nextTxn' = nextTxn + 1
  /\ atBegin' = Now /\ hist' = <<>> /\ faithful' = TRUE
  /\ UNCHANGED <<store, curDb, loopVars, crashes, lowered>>

\* free_transaction and current_txn = NULL
EndTxn ==
  /\ txn' = FALSE
  /\ ops' = <<>> /\ sps' = <<>> /\ hist' = <<>>
  /\ faithful' = TRUE
  /\ txnDb' = Public /\ target' = 0 /\ atBegin' = EmptyImage
  /\ UNCHANGED <<owner, nextTxn>>

\* txn_commit; the kv_snapshot that follows does not change the map.
Commit ==
  /\ phase = "idle" /\ txn
  /\ EndTxn
  /\ UNCHANGED <<store, curDb, phase, crashes, lowered>>

\* txn_savepoint: a name in use is refused.
Savepoint(n) ==
  /\ phase = "idle" /\ txn
  /\ \A i \in 1 .. Len(sps) : sps[i].name # n
  /\ sps' = Append(sps, [name |-> n, count |-> Len(ops), image |-> Now])
  /\ UNCHANGED <<store, curDb, txn, txnDb, owner, ops, nextTxn, loopVars,
                 crashes, ghosts>>

\* txn_release_savepoint: only the named one is unlinked.
ReleaseSavepoint(n) ==
  /\ phase = "idle" /\ txn
  /\ \E i \in 1 .. Len(sps) :
       /\ sps[i].name = n
       /\ sps' = SubSeq(sps, 1, i - 1) \o SubSeq(sps, i + 1, Len(sps))
  /\ UNCHANGED <<store, curDb, txn, txnDb, owner, ops, nextTxn, loopVars,
                 crashes, ghosts>>

\* txn_rollback starts its walk over the records.
StartRollback ==
  /\ phase = "idle" /\ txn
  /\ phase' = "rollback" /\ target' = 0
  /\ UNCHANGED <<store, curDb, txnVars, crashes, ghosts>>

\* txn_rollback_to_savepoint finds the savepoint. The savepoints made after
\* it are unlinked when the loop ends; nothing reads them before.
StartRollbackTo(n) ==
  /\ phase = "idle" /\ txn
  /\ \E i \in 1 .. Len(sps) :
       /\ sps[i].name = n
       /\ target' = sps[i].count
       /\ sps' = SubSeq(sps, 1, i)
  /\ phase' = "rollbackTo"
  /\ UNCHANGED <<store, curDb, txn, txnDb, owner, ops, nextTxn, crashes,
                 ghosts>>

\* The row part of one undo, the same in both loops: an insert's key is
\* deleted, the old value of a delete or an update is put back.
UndoRows(op, rw) ==
  IF op.type = "insert" THEN [rw EXCEPT ![op.key] = None]
  ELSE IF op.type \in RowOps THEN [rw EXCEPT ![op.key] = op.old]
  ELSE rw

\* Mutant: a dropped table is not recreated.
UndoMetaNoDrop(op, db, m) ==
  IF op.type = "create" THEN [m EXCEPT ![<<db, op.table>>] = None] ELSE m

\* The schema part of one undo in txn_rollback, under txn->database.
UndoMeta(op, db, m) ==
  IF op.type = "create" THEN [m EXCEPT ![<<db, op.table>>] = None]
  ELSE IF op.type = "drop" THEN [m EXCEPT ![<<db, op.table>>] = op.schema]
  ELSE m

\* txn_rollback_to_savepoint deletes "__schema__<table>", a key no statement
\* writes, for a create, and has no case for a drop.
UndoMetaTo(op, m) == m

PopRecord ==
  /\ ops' = SubSeq(ops, 1, Len(ops) - 1)
  /\ hist' = SubSeq(hist, 1, Len(hist) - 1)

\* Mutant: the walk does not move on to the next record.
UndoStepStuck ==
  /\ phase = "rollback" /\ Len(ops) > target
  /\ rows' = UndoRows(ops[Len(ops)], rows)
  /\ meta' = UndoMeta(ops[Len(ops)], txnDb, meta)
  /\ UNCHANGED <<seq, dbs, curDb, txnVars, loopVars, crashes, ghosts>>

UndoStep ==
  /\ phase = "rollback" /\ Len(ops) > target
  /\ rows' = UndoRows(ops[Len(ops)], rows)
  /\ meta' = UndoMeta(ops[Len(ops)], txnDb, meta)
  /\ PopRecord
  /\ UNCHANGED <<seq, dbs, curDb, txn, txnDb, owner, sps, nextTxn, loopVars,
                 crashes, atBegin, faithful, lowered>>

\* Mutant: only inserts are undone on the way to a savepoint.
UndoStepToInsertsOnly ==
  /\ phase = "rollbackTo" /\ Len(ops) > target
  /\ rows' = IF ops[Len(ops)].type = "insert"
             THEN UndoRows(ops[Len(ops)], rows) ELSE rows
  /\ PopRecord
  /\ faithful' = (faithful /\ ops[Len(ops)].type \in RowOps)
  /\ UNCHANGED <<meta, seq, dbs, curDb, txn, txnDb, owner, sps, nextTxn,
                 loopVars, crashes, atBegin, lowered>>

UndoStepTo ==
  /\ phase = "rollbackTo" /\ Len(ops) > target
  /\ rows' = UndoRows(ops[Len(ops)], rows)
  /\ meta' = UndoMetaTo(ops[Len(ops)], meta)
  /\ PopRecord
  /\ faithful' = (faithful /\ ops[Len(ops)].type \in RowOps)
  /\ UNCHANGED <<seq, dbs, curDb, txn, txnDb, owner, sps, nextTxn, loopVars,
                 crashes, atBegin, lowered>>

FinishRollback ==
  /\ phase = "rollback" /\ Len(ops) <= target
  /\ EndTxn
  /\ phase' = "idle"
  /\ UNCHANGED <<store, curDb, crashes, lowered>>

FinishRollbackTo ==
  /\ phase = "rollbackTo" /\ Len(ops) <= target
  /\ phase' = "idle" /\ target' = 0
  /\ UNCHANGED <<store, curDb, txnVars, crashes, ghosts>>

RollbackLoop ==
  UndoStep \/ UndoStepTo \/ FinishRollback \/ FinishRollbackTo

\* The process dies and starts again: the store is recovered, the
\* transaction manager starts empty (txn_manager_init) and sessions are new.
Crash ==
  /\ crashes < MaxCrashes
  /\ crashes' = crashes + 1
  /\ EndTxn
  /\ phase' = "idle"
  /\ curDb' = [s \in Session |-> Public]
  /\ UNCHANGED <<store, lowered>>

-----------------------------------------------------------------------------

Statement(s) ==
  \/ \E tn \in TableName, sch \in Schema : CreateTable(s, tn, sch)
  \/ \E tn \in TableName : DropTable(s, tn)
  \/ \E tn \in TableName, i \in Id, v \in Val : Insert(s, tn, i, v)
  \/ \E tn \in TableName, v \in Val : InsertAuto(s, tn, v)
  \/ \E tn \in TableName, i \in Id : Delete(s, tn, i)
  \/ \E tn \in TableName, i \in Id, v \in Val : Update(s, tn, i, v)
  \/ \E d \in Db : UseDb(s, d)
  \/ Begin(s)

Next ==
  \/ \E s \in Session : Statement(s)
  \/ \E d \in Db : CreateDb(d) \/ DropDb(d)
  \/ Commit
  \/ \E n \in SpName : Savepoint(n) \/ ReleaseSavepoint(n)
                       \/ StartRollbackTo(n)
  \/ StartRollback
  \/ RollbackLoop
  \/ Crash

Spec == Init /\ [][Next]_vars

\* A rollback is a loop of the thread that runs it.
FairSpec == Spec /\ WF_vars(RollbackLoop)

-----------------------------------------------------------------------------
(* Properties. *)

\* Types of the store's keys and of the transaction manager.
TypeOK ==
  /\ meta \in [Tab -> Schema \cup {None}]
  /\ rows \in [RowKey -> Val \cup {None}]
  /\ seq \in [Tab -> Nat]
  /\ dbs \in SUBSET Db
  /\ curDb \in [Session -> Db]
  /\ txn \in BOOLEAN /\ txnDb \in Db /\ owner \in Session
  /\ ops \in Seq(Op) /\ sps \in Seq(SpRec)
  /\ nextTxn \in Nat /\ crashes \in Nat
  /\ phase \in {"idle", "rollback", "rollbackTo"} /\ target \in Nat
  /\ atBegin \in Image /\ hist \in Seq(Image)
  /\ faithful \in BOOLEAN /\ lowered \in SUBSET Tab

\* The store after the first i records of the transaction.
After(i) == IF i = Len(ops) THEN Now ELSE hist[i + 1]

\* Undoing record i of the log leads from the state after it back to the
\* state before it: the records form an unbroken chain from the present
\* store to the store at BEGIN, with every savepoint's store on the way.
UndoChain ==
  txn /\ faithful =>
    /\ After(0) = atBegin
    /\ \A i \in 1 .. Len(ops) :
         /\ UndoRows(ops[i], After(i).rows) = hist[i].rows
         /\ UndoMeta(ops[i], txnDb, After(i).meta) = hist[i].meta
    /\ phase # "rollback" =>
         \A i \in 1 .. Len(sps) : After(sps[i].count) = sps[i].image

\* A savepoint never points beyond the log, and an older savepoint never
\* beyond a newer one, so that ROLLBACK TO always has its records (a full
\* rollback discards log and savepoints together).
SavepointsOrdered ==
  phase # "rollback" =>
  /\ \A i \in 1 .. Len(sps) : sps[i].count <= Len(ops)
  /\ \A i, j \in 1 .. Len(sps) :
       i < j => sps[i].count <= sps[j].count /\ sps[i].name # sps[j].name

\* When a full rollback has undone its last record, tables and rows are the
\* ones BEGIN saw, whatever statements, savepoints and savepoint rollbacks
\* came between, if each of them was one the undo log can represent.
RollbackRestores ==
  phase = "rollback" /\ Len(ops) = 0 /\ faithful => Now = atBegin

\* ROLLBACK TO ends in the tables and rows of its savepoint, if the records
\* it undid were row operations.
RollbackToRestores ==
  phase = "rollbackTo" /\ Len(ops) = target /\ faithful
    => sps[Len(sps)].image = Now

\* The id AUTO takes next is free, so an AUTO insert is never skipped as a
\* duplicate, unless DROP or CREATE TABLE has set the sequence back.
AutoIdFresh ==
  \A t \in Tab \ lowered : \A i \in Id :
     i > seq[t] => rows[<<t[1], t[2], i>>] = None

\* A rollback that was started ends.
RollbackEnds == phase # "idle" ~> phase = "idle"
=============================================================================
