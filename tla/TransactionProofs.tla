-------------------------- MODULE TransactionProofs --------------------------
(***************************************************************************)
(* Proofs about Transaction, for every set of sessions, databases, tables, *)
(* values and every bound: types, order of the savepoints, that a rollback *)
(* restores what BEGIN or the savepoint saw, and that AUTO ids are free.   *)
(***************************************************************************)
EXTENDS Transaction, SequenceTheorems, TLAPS

-----------------------------------------------------------------------------
(* The chain of undo records as a statement about sequences. *)

\* The image after record i, for log o, images h and present image now.
At(o, h, now, i) == IF i = Len(o) THEN now ELSE h[i + 1]

ChainOf(o, h, now, db) ==
  \A i \in 1 .. Len(o) :
    /\ UndoRows(o[i], At(o, h, now, i).rows) = h[i].rows
    /\ UndoMeta(o[i], db, At(o, h, now, i).meta) = h[i].meta

\* Logging a record that undoes the change extends the chain.
LEMMA PushChain ==
  ASSUME NEW o \in Seq(Op), NEW h \in Seq(Image), Len(h) = Len(o),
         NEW now \in Image, NEW next \in Image, NEW op \in Op, NEW db,
         ChainOf(o, h, now, db),
         UndoRows(op, next.rows) = now.rows,
         UndoMeta(op, db, next.meta) = now.meta
  PROVE  /\ ChainOf(Append(o, op), Append(h, now), next, db)
         /\ \A i \in 0 .. Len(o) :
              At(Append(o, op), Append(h, now), next, i) = At(o, h, now, i)
<1> DEFINE p == Append(o, op)
           g == Append(h, now)
<1>1. /\ Len(p) = Len(o) + 1 /\ p[Len(o) + 1] = op
      /\ \A i \in 1 .. Len(o) : p[i] = o[i]
      /\ Len(o) \in Nat
  BY AppendProperties, LenProperties
<1>2. /\ g[Len(o) + 1] = now
      /\ \A i \in 1 .. Len(o) : g[i] = h[i]
  BY AppendProperties
<1>3. ASSUME NEW i \in 0 .. Len(o)
      PROVE  At(p, g, next, i) = At(o, h, now, i)
  BY <1>1, <1>2 DEF At
<1>4. ASSUME NEW i \in 1 .. Len(p)
      PROVE  /\ UndoRows(p[i], At(p, g, next, i).rows) = g[i].rows
             /\ UndoMeta(p[i], db, At(p, g, next, i).meta) = g[i].meta
  <2>1. CASE i = Len(o) + 1
    BY <1>1, <1>2, <2>1 DEF At
  <2>2. CASE i # Len(o) + 1
    <3>1. i \in 1 .. Len(o)
      BY <1>1, <2>2
    <3> QED
      BY <1>1, <1>2, <1>3, <3>1 DEF ChainOf
  <2> QED
    BY <2>1, <2>2
<1> QED
  BY <1>3, <1>4 DEF ChainOf

\* Undoing the newest record and dropping it keeps the rest of the chain.
LEMMA PopChain ==
  ASSUME NEW o \in Seq(Op), NEW h \in Seq(Image), Len(h) = Len(o), Len(o) > 0,
         NEW now \in Image, NEW next \in Image, NEW db,
         ChainOf(o, h, now, db),
         next = h[Len(o)]
  PROVE  /\ ChainOf(SubSeq(o, 1, Len(o) - 1), SubSeq(h, 1, Len(h) - 1), next, db)
         /\ \A i \in 0 .. Len(o) - 1 :
              At(SubSeq(o, 1, Len(o) - 1), SubSeq(h, 1, Len(h) - 1), next, i)
                = At(o, h, now, i)
<1> DEFINE n == Len(o)
           p == SubSeq(o, 1, n - 1)
           g == SubSeq(h, 1, n - 1)
<1>1. n \in Nat /\ Len(p) = n - 1 /\ Len(g) = n - 1
  BY SubSeqProperties, LenProperties
<1>2. \A i \in 1 .. n - 1 : p[i] = o[i] /\ g[i] = h[i]
  BY <1>1, SubSeqProperties
<1>3. ASSUME NEW i \in 0 .. n - 1
      PROVE  At(p, g, next, i) = At(o, h, now, i)
  BY <1>1, <1>2 DEF At
<1>4. ASSUME NEW i \in 1 .. n - 1
      PROVE  /\ UndoRows(p[i], At(p, g, next, i).rows) = g[i].rows
             /\ UndoMeta(p[i], db, At(p, g, next, i).meta) = g[i].meta
  BY <1>1, <1>2, <1>3 DEF ChainOf
<1> QED
  BY <1>1, <1>3, <1>4 DEF ChainOf

-----------------------------------------------------------------------------
(* The inductive invariant. *)

Inv ==
  /\ TypeOK
  /\ Len(hist) = Len(ops)
  /\ phase # "idle" => txn
  /\ phase = "rollbackTo" => Len(sps) > 0 /\ target = sps[Len(sps)].count
  /\ SavepointsOrdered
  /\ UndoChain

LEMMA AfterIsAt == \A i : After(i) = At(ops, hist, Now, i)
BY DEF After, At

\* UndoChain in terms of ChainOf.
LEMMA UndoChainIs ==
  UndoChain <=>
    (txn /\ faithful =>
       /\ At(ops, hist, Now, 0) = atBegin
       /\ ChainOf(ops, hist, Now, txnDb)
       /\ phase # "rollback" =>
            \A i \in 1 .. Len(sps) :
               At(ops, hist, Now, sps[i].count) = sps[i].image)
BY AfterIsAt DEF UndoChain, ChainOf

LEMMA NowType == TypeOK => Now \in Image
BY DEF TypeOK, Now, Image

LEMMA EmptyImageType == EmptyImage \in Image
BY DEF EmptyImage, Image

LEMMA SavepointType ==
  ASSUME sps \in Seq(SpRec), NEW i \in 1 .. Len(sps)
  PROVE  sps[i] \in SpRec /\ sps[i].count \in Nat
<1>1. sps[i] \in SpRec
  OBVIOUS
<1> QED
  BY <1>1 DEF SpRec

LEMMA LogType ==
  ASSUME TypeOK, NEW op \in Op, Log(op)
  PROVE  ops' \in Seq(Op) /\ hist' \in Seq(Image)
<1>1. ops \in Seq(Op) /\ hist \in Seq(Image) /\ Now \in Image
  BY NowType DEF TypeOK
<1>2. CASE txn
  <2>1. ops' = Append(ops, op) /\ hist' = Append(hist, Now)
    BY <1>2 DEF Log
  <2> QED
    BY <1>1, <2>1, AppendProperties
<1>3. CASE ~ txn
  BY <1>1, <1>3 DEF Log
<1> QED
  BY <1>2, <1>3

\* One undo of a record keeps the types of rows and schemas.
LEMMA UndoType ==
  ASSUME NEW op \in Op, NEW db \in Db,
         NEW rw \in [RowKey -> Val \cup {None}],
         NEW m \in [Tab -> Schema \cup {None}]
  PROVE  /\ UndoRows(op, rw) \in [RowKey -> Val \cup {None}]
         /\ UndoMeta(op, db, m) \in [Tab -> Schema \cup {None}]
<1>1. CASE op \in [type : RowOps, key : RowKey, old : Val \cup {None}]
  <2>1. /\ op.type \in RowOps /\ op.key \in RowKey
        /\ op.old \in Val \cup {None}
    BY <1>1
  <2> QED
    BY <2>1 DEF UndoRows, UndoMeta, RowOps
<1>2. CASE op \in [type : DdlOps, table : TableName, schema : Schema]
  <2>1. /\ op.type \in DdlOps /\ op.table \in TableName
        /\ op.schema \in Schema
    BY <1>2
  <2>2. <<db, op.table>> \in Tab
    BY <2>1 DEF Tab
  <2> QED
    BY <2>1, <2>2 DEF UndoRows, UndoMeta, RowOps, DdlOps
<1> QED
  BY <1>1, <1>2 DEF Op

\* A statement that logs a record which undoes it.
LEMMA LoggedStatement ==
  ASSUME Inv, NEW op \in Op, Log(op), TypeOK', phase = "idle",
         UNCHANGED <<txn, txnDb, sps, phase, target, atBegin>>,
         txn /\ faithful' => /\ faithful
                            /\ UndoRows(op, rows') = rows
                            /\ UndoMeta(op, txnDb, meta') = meta
  PROVE  Inv'
<1>1. /\ ops \in Seq(Op) /\ hist \in Seq(Image) /\ Len(hist) = Len(ops)
      /\ Now \in Image /\ Now' \in Image /\ sps \in Seq(SpRec)
  <2>1. Now' \in Image
    BY DEF TypeOK, Now, Image
  <2> QED
    BY <2>1, NowType DEF Inv, TypeOK
<1>2. CASE txn
  <2>1. ops' = Append(ops, op) /\ hist' = Append(hist, Now)
    BY <1>2 DEF Log
  <2>2. Len(ops') = Len(ops) + 1 /\ Len(hist') = Len(ops') /\ Len(ops) \in Nat
    BY <1>1, <2>1, AppendProperties, LenProperties
  <2>3. SavepointsOrdered'
    <3>2. \A i \in 1 .. Len(sps) : sps[i].count \in Nat
      BY <1>1, SavepointType
    <3> QED
      BY <2>2, <3>2 DEF Inv, SavepointsOrdered
  <2>4. UndoChain'
    <3> SUFFICES ASSUME faithful' PROVE UndoChain'
      BY DEF UndoChain
    <3>1. /\ faithful
          /\ UndoRows(op, Now'.rows) = Now.rows
          /\ UndoMeta(op, txnDb, Now'.meta) = Now.meta
      BY <1>2 DEF Now
    <3>2. /\ At(ops, hist, Now, 0) = atBegin
          /\ ChainOf(ops, hist, Now, txnDb)
          /\ \A i \in 1 .. Len(sps) :
               At(ops, hist, Now, sps[i].count) = sps[i].image
      BY <1>2, <3>1, UndoChainIs DEF Inv
    <3>3. /\ ChainOf(ops', hist', Now', txnDb)
          /\ \A i \in 0 .. Len(ops) :
               At(ops', hist', Now', i) = At(ops, hist, Now, i)
      BY <1>1, <2>1, <3>1, <3>2, PushChain
    <3>4. \A i \in 1 .. Len(sps) : sps[i].count \in 0 .. Len(ops)
      <4>1. \A i \in 1 .. Len(sps) : sps[i].count \in Nat
        BY <1>1, SavepointType
      <4> QED
        BY <2>2, <4>1 DEF Inv, SavepointsOrdered
    <3>5. /\ At(ops', hist', Now', 0) = atBegin'
          /\ \A i \in 1 .. Len(sps') :
               At(ops', hist', Now', sps'[i].count) = sps'[i].image
      BY <2>2, <3>2, <3>3, <3>4
    <3>6. ChainOf(ops', hist', Now', txnDb')
      BY <3>3
    <3> QED
      BY <3>5, <3>6 DEF UndoChain, ChainOf, At, After
  <2> QED
    BY <2>2, <2>3, <2>4 DEF Inv
<1>3. CASE ~ txn
  <2>1. ops' = ops /\ hist' = hist
    BY <1>3 DEF Log
  <2>2. UndoChain'
    BY <1>3 DEF UndoChain
  <2> QED
    BY <2>1, <2>2 DEF Inv, SavepointsOrdered
<1> QED
  BY <1>2, <1>3

-----------------------------------------------------------------------------
(* Types of the records the statements push. *)

LEMMA RowOpType ==
  ASSUME NEW type \in RowOps, NEW r \in RowKey, NEW old \in Val \cup {None},
         NEW s \in Session
  PROVE  RowOp(type, r, old) \in Op
BY DEF RowOp, Op

LEMMA DdlOpType ==
  ASSUME NEW type \in DdlOps, NEW t \in TableName, NEW sch \in Schema,
         NEW s \in Session
  PROVE  DdlOp(type, t, sch) \in Op
BY DEF DdlOp, Op

\* What SetSeq leaves behind is typed.
LEMMA SetSeqType ==
  ASSUME TypeOK, NEW t \in Tab, NEW n \in Nat, SetSeq(t, n)
  PROVE  seq' \in [Tab -> Nat] /\ lowered' \in SUBSET Tab
BY DEF TypeOK, SetSeq

\* Writing a function's value back at the place it was changed.
LEMMA WriteBack ==
  ASSUME NEW S, NEW T, NEW f \in [S -> T], NEW x \in S, NEW new
  PROVE  [[f EXCEPT ![x] = new] EXCEPT ![x] = f[x]] = f
OBVIOUS

-----------------------------------------------------------------------------
(* Statements preserve the invariant. *)

LEMMA CreateTableInv ==
  ASSUME Inv, NEW s \in Session, NEW tn \in TableName, NEW sch \in Schema,
         CreateTable(s, tn, sch)
  PROVE  Inv'
<1> DEFINE t == <<curDb[s], tn>>
           op == DdlOp("create", tn, sch)
<1>1. TypeOK /\ curDb[s] \in Db /\ t \in Tab
  BY DEF Inv, TypeOK, Tab
<1>2. op \in Op /\ Log(op)
  BY DdlOpType DEF CreateTable, DdlOps
<1>3. seq' \in [Tab -> Nat] /\ lowered' \in SUBSET Tab
  BY <1>1, SetSeqType DEF CreateTable
<1>4. faithful' \in BOOLEAN
  BY DEF CreateTable
<1>5. TypeOK'
  BY <1>1, <1>2, <1>3, <1>4, LogType DEF TypeOK, CreateTable, loopVars
<1>6. txn /\ faithful' => /\ faithful
                         /\ UndoRows(op, rows') = rows
                         /\ UndoMeta(op, txnDb, meta') = meta
  <2> SUFFICES ASSUME txn, faithful'
               PROVE  /\ faithful
                      /\ UndoRows(op, rows') = rows
                      /\ UndoMeta(op, txnDb, meta') = meta
    OBVIOUS
  <2>1. faithful /\ curDb[s] = txnDb
    BY DEF CreateTable, SameDb
  <2>2. /\ meta' = [meta EXCEPT ![<<txnDb, tn>>] = sch] /\ rows' = rows
        /\ meta[<<txnDb, tn>>] = None
    BY <2>1 DEF CreateTable
  <2>3. meta \in [Tab -> Schema \cup {None}] /\ txnDb \in Db
    BY <1>1 DEF TypeOK
  <2>5. UndoRows(op, rows) = rows
        /\ UndoMeta(op, txnDb, [meta EXCEPT ![<<txnDb, tn>>] = sch]) = meta
    <3>1. op.type = "create" /\ op.table = tn
      BY DEF DdlOp
    <3>2. <<txnDb, tn>> \in Tab
      BY <2>3 DEF Tab
    <3>3. [[meta EXCEPT ![<<txnDb, tn>>] = sch] EXCEPT ![<<txnDb, tn>>] = None]
            = meta
      BY <2>2, <2>3, <3>2, WriteBack
    <3> QED
      BY <3>1, <3>3 DEF UndoRows, UndoMeta, RowOps
  <2> QED
    BY <2>1, <2>2, <2>5
<1> QED
  BY <1>2, <1>5, <1>6, LoggedStatement DEF CreateTable, loopVars

LEMMA DropTableInv ==
  ASSUME Inv, NEW s \in Session, NEW tn \in TableName, DropTable(s, tn)
  PROVE  Inv'
<1> DEFINE t == <<curDb[s], tn>>
           op == DdlOp("drop", tn, meta[t])
<1>1. TypeOK /\ curDb[s] \in Db /\ t \in Tab
  BY DEF Inv, TypeOK, Tab
<1>2. meta[t] \in Schema
  BY <1>1 DEF TypeOK, DropTable
<1>3. op \in Op /\ Log(op)
  BY <1>2, DdlOpType DEF DropTable, DdlOps
<1>4. seq' \in [Tab -> Nat] /\ lowered' \in SUBSET Tab
  BY <1>1, SetSeqType DEF DropTable
<1>5. faithful' \in BOOLEAN
  BY DEF DropTable
<1>6. TypeOK'
  BY <1>1, <1>3, <1>4, <1>5, LogType DEF TypeOK, DropTable, loopVars
<1>7. txn /\ faithful' => /\ faithful
                         /\ UndoRows(op, rows') = rows
                         /\ UndoMeta(op, txnDb, meta') = meta
  <2> SUFFICES ASSUME txn, faithful'
               PROVE  /\ faithful
                      /\ UndoRows(op, rows') = rows
                      /\ UndoMeta(op, txnDb, meta') = meta
    OBVIOUS
  <2>1. faithful /\ curDb[s] = txnDb
    BY DEF DropTable, SameDb
  <2>2. meta' = [meta EXCEPT ![<<txnDb, tn>>] = None] /\ rows' = rows
    BY <2>1 DEF DropTable
  <2>3. meta \in [Tab -> Schema \cup {None}] /\ txnDb \in Db
    BY <1>1 DEF TypeOK
  <2>4. meta[<<txnDb, tn>>] = meta[t]
    BY <2>1
  <2>5. UndoRows(op, rows) = rows
        /\ UndoMeta(op, txnDb, [meta EXCEPT ![<<txnDb, tn>>] = None]) = meta
    <3>1. op.type = "drop" /\ op.table = tn /\ op.schema = meta[t]
      BY DEF DdlOp
    <3>2. <<txnDb, tn>> \in Tab
      BY <2>3 DEF Tab
    <3>3. [[meta EXCEPT ![<<txnDb, tn>>] = None]
             EXCEPT ![<<txnDb, tn>>] = meta[t]] = meta
      <4>1. [[meta EXCEPT ![<<txnDb, tn>>] = None]
               EXCEPT ![<<txnDb, tn>>] = meta[<<txnDb, tn>>]] = meta
        BY <2>3, <3>2, WriteBack
      <4> QED
        BY <2>4, <4>1
    <3> QED
      BY <3>1, <3>3 DEF UndoRows, UndoMeta, RowOps
  <2> QED
    BY <2>1, <2>2, <2>5
<1> QED
  BY <1>3, <1>6, <1>7, LoggedStatement DEF DropTable, loopVars

\* A statement that leaves the store's tables and rows and the transaction
\* alone.
LEMMA QuietStep ==
  ASSUME Inv, TypeOK', UNCHANGED <<meta, rows, txn, txnDb, ops, sps, phase,
                                   target, atBegin, hist, faithful>>
  PROVE  Inv'
BY DEF Inv, SavepointsOrdered, UndoChain, After, Now

\* The tail of an insert, whatever it does to the sequence.
LEMMA PutRowInv ==
  ASSUME Inv, NEW s \in Session, NEW r \in RowKey, NEW v \in Val,
         PutRow(s, r, v), phase = "idle",
         seq' \in [Tab -> Nat], lowered' \in SUBSET Tab,
         UNCHANGED <<meta, dbs, curDb, txn, txnDb, owner, sps, nextTxn,
                     loopVars, crashes, atBegin, faithful>>
  PROVE  Inv'
<1>1. TypeOK
  BY DEF Inv
<1>2. faithful \in BOOLEAN /\ faithful' = faithful
  BY <1>1 DEF TypeOK
<1>3. CASE rows[r] # None
  <2>1. UNCHANGED <<rows, ops, hist>>
    BY <1>3 DEF PutRow
  <2>2. TypeOK'
    BY <1>1, <1>2, <2>1 DEF TypeOK, loopVars
  <2> QED
    BY <2>1, <2>2, QuietStep DEF loopVars
<1>4. CASE rows[r] = None
  <2> DEFINE op == RowOp("insert", r, None)
  <2>1. /\ rows' = [rows EXCEPT ![r] = v] /\ Log(op)
        /\ rows \in [RowKey -> Val \cup {None}]
    BY <1>1, <1>4 DEF PutRow, TypeOK
  <2>2. op \in Op
    BY RowOpType DEF RowOps
  <2>3. TypeOK'
    BY <1>1, <1>2, <2>1, <2>2, LogType DEF TypeOK, loopVars
  <2>4. UndoRows(op, rows') = rows /\ UndoMeta(op, txnDb, meta') = meta
    <3>1. UndoRows(op, [rows EXCEPT ![r] = v]) = rows
          /\ UndoMeta(op, txnDb, meta) = meta
      <4>1. op.type = "insert" /\ op.key = r
        BY DEF RowOp
      <4>2. [[rows EXCEPT ![r] = v] EXCEPT ![r] = None] = rows
        BY <1>4, <2>1, WriteBack
      <4> QED
        BY <4>1, <4>2 DEF UndoRows, UndoMeta
    <3> QED
      BY <2>1, <3>1
  <2>5. txn /\ faithful' => /\ faithful
                           /\ UndoRows(op, rows') = rows
                           /\ UndoMeta(op, txnDb, meta') = meta
    BY <1>2, <2>4
  <2> QED
    BY <2>1, <2>2, <2>3, <2>5, LoggedStatement DEF loopVars
<1> QED
  BY <1>3, <1>4

LEMMA InsertInv ==
  ASSUME Inv, NEW s \in Session, NEW tn \in TableName, NEW i \in Id,
         NEW v \in Val, Insert(s, tn, i, v)
  PROVE  Inv'
<1>1. /\ TypeOK /\ <<curDb[s], tn>> \in Tab /\ <<curDb[s], tn, i>> \in RowKey
      /\ seq[<<curDb[s], tn>>] \in Nat /\ i \in Nat
  BY ConstantAssumption DEF Inv, TypeOK, Tab, RowKey, Id
<1>2. seq' \in [Tab -> Nat] /\ lowered' \in SUBSET Tab
  BY <1>1, SetSeqType DEF Insert
<1> QED
  BY <1>1, <1>2, PutRowInv DEF Insert

LEMMA InsertAutoInv ==
  ASSUME Inv, NEW s \in Session, NEW tn \in TableName, NEW v \in Val,
         InsertAuto(s, tn, v)
  PROVE  Inv'
<1> DEFINE n == seq[<<curDb[s], tn>>] + 1
<1>1. /\ TypeOK /\ <<curDb[s], tn>> \in Tab
      /\ <<curDb[s], tn, n>> \in RowKey /\ n \in Nat
  BY ConstantAssumption DEF Inv, TypeOK, Tab, RowKey, Id, InsertAuto
<1>2. seq' \in [Tab -> Nat] /\ lowered' \in SUBSET Tab
  BY <1>1, SetSeqType DEF InsertAuto
<1> QED
  BY <1>1, <1>2, PutRowInv DEF InsertAuto

\* DELETE and UPDATE replace the value of a row that is there.
LEMMA ReplaceInv ==
  ASSUME Inv, NEW s \in Session, NEW r \in RowKey, NEW new \in Val \cup {None},
         NEW type \in {"delete", "update"}, phase = "idle", rows[r] # None,
         Log(RowOp(type, r, rows[r])), rows' = [rows EXCEPT ![r] = new],
         UNCHANGED <<meta, seq, dbs, curDb, txn, txnDb, owner, sps, nextTxn,
                     loopVars, crashes, atBegin, faithful, lowered>>
  PROVE  Inv'
<1> DEFINE op == RowOp(type, r, rows[r])
<1>1. TypeOK /\ rows \in [RowKey -> Val \cup {None}]
  BY DEF Inv, TypeOK
<1>2. faithful \in BOOLEAN /\ faithful' = faithful
  BY <1>1 DEF TypeOK
<1>3. op \in Op
  BY <1>1, RowOpType DEF RowOps
<1>4. TypeOK'
  BY <1>1, <1>2, <1>3, LogType DEF TypeOK, loopVars
<1>5. UndoRows(op, rows') = rows /\ UndoMeta(op, txnDb, meta') = meta
  <2>1. UndoRows(op, [rows EXCEPT ![r] = new]) = rows
        /\ UndoMeta(op, txnDb, meta) = meta
    <3>1. op.type = type /\ op.key = r /\ op.old = rows[r]
      BY DEF RowOp
    <3>2. [[rows EXCEPT ![r] = new] EXCEPT ![r] = rows[r]] = rows
      BY <1>1, WriteBack
    <3> QED
      BY <3>1, <3>2 DEF UndoRows, UndoMeta, RowOps
  <2> QED
    BY <2>1
<1>6. txn /\ faithful' => /\ faithful
                         /\ UndoRows(op, rows') = rows
                         /\ UndoMeta(op, txnDb, meta') = meta
  BY <1>2, <1>5
<1> QED
  BY <1>3, <1>4, <1>6, LoggedStatement DEF loopVars

LEMMA DeleteInv ==
  ASSUME Inv, NEW s \in Session, NEW tn \in TableName, NEW i \in Id,
         Delete(s, tn, i)
  PROVE  Inv'
<1>1. <<curDb[s], tn, i>> \in RowKey
  BY DEF Inv, TypeOK, RowKey
<1> QED
  BY <1>1, ReplaceInv DEF Delete

LEMMA UpdateInv ==
  ASSUME Inv, NEW s \in Session, NEW tn \in TableName, NEW i \in Id,
         NEW v \in Val, Update(s, tn, i, v)
  PROVE  Inv'
<1>1. <<curDb[s], tn, i>> \in RowKey
  BY DEF Inv, TypeOK, RowKey
<1> QED
  BY <1>1, ReplaceInv DEF Update

LEMMA DatabaseInv ==
  ASSUME Inv, NEW d \in Db, NEW s \in Session,
         CreateDb(d) \/ DropDb(d) \/ UseDb(s, d)
  PROVE  Inv'
<1>1. TypeOK
  BY DEF Inv
<1>2. CASE CreateDb(d)
  <2>1. TypeOK'
    BY <1>1, <1>2 DEF TypeOK, CreateDb, txnVars, loopVars, ghosts
  <2> QED
    BY <1>2, <2>1, QuietStep DEF CreateDb, txnVars, loopVars, ghosts
<1>3. CASE UseDb(s, d)
  <2>1. TypeOK'
    BY <1>1, <1>3, ConstantAssumption
    DEF TypeOK, UseDb, store, txnVars, loopVars, ghosts
  <2> QED
    BY <1>3, <2>1, QuietStep DEF UseDb, store, txnVars, loopVars, ghosts
<1>4. CASE DropDb(d)
  <2>1. faithful' \in BOOLEAN /\ faithful' = ~ txn
    BY <1>4 DEF DropDb
  <2>2. TypeOK'
    BY <1>1, <1>4, <2>1 DEF TypeOK, DropDb, txnVars, loopVars
  <2>3. UndoChain'
    BY <1>4, <2>1 DEF UndoChain, DropDb, txnVars
  <2> QED
    BY <1>4, <2>2, <2>3 DEF Inv, DropDb, txnVars, loopVars, SavepointsOrdered
<1> QED
  BY <1>2, <1>3, <1>4

-----------------------------------------------------------------------------
(* Transaction control preserves the invariant. *)

LEMMA EmptyLogInv ==
  ASSUME TypeOK', ops' = <<>>, hist' = <<>>, sps' = <<>>, phase' = "idle",
         txn' => atBegin' = Now'
  PROVE  Inv'
<1>1. Len(ops') = 0 /\ Len(hist') = 0 /\ Len(sps') = 0
  OBVIOUS
<1>2. SavepointsOrdered'
  BY <1>1 DEF SavepointsOrdered
<1>3. UndoChain'
  BY <1>1 DEF UndoChain, After
<1> QED
  BY <1>1, <1>2, <1>3 DEF Inv

LEMMA EndTxnInv ==
  ASSUME Inv, EndTxn, phase' = "idle", curDb' \in [Session -> Db],
         crashes' \in Nat, UNCHANGED <<store, lowered>>
  PROVE  Inv'
<1>1. faithful' \in BOOLEAN /\ txn' = FALSE
  BY DEF EndTxn
<1>2. /\ ops' = <<>> /\ sps' = <<>> /\ hist' = <<>>
      /\ txnDb' \in Db /\ target' = 0 /\ atBegin' \in Image
      /\ UNCHANGED <<owner, nextTxn, meta, rows, seq, dbs, lowered>>
  BY ConstantAssumption, EmptyImageType DEF EndTxn, store
<1>3. ops' \in Seq(Op) /\ sps' \in Seq(SpRec) /\ hist' \in Seq(Image)
  BY <1>2
<1>4. TypeOK'
  <2>1. TypeOK /\ txn' \in BOOLEAN /\ target' \in Nat
    BY <1>1, <1>2 DEF Inv
  <2> HIDE DEF EndTxn
  <2> QED
    BY <1>1, <1>2, <1>3, <2>1 DEF TypeOK
<1> QED
  BY <1>1, <1>2, <1>4, EmptyLogInv

LEMMA BeginInv ==
  ASSUME Inv, NEW s \in Session, Begin(s)
  PROVE  Inv'
<1>1. TypeOK'
  BY NowType DEF Inv, TypeOK, Begin, store, loopVars
<1> QED
  BY <1>1, EmptyLogInv DEF Begin, store, loopVars, Now

LEMMA SavepointInv ==
  ASSUME Inv, NEW n \in SpName, Savepoint(n)
  PROVE  Inv'
<1> DEFINE sp == [name |-> n, count |-> Len(ops), image |-> Now]
<1>1. /\ TypeOK /\ Now \in Image /\ sps \in Seq(SpRec) /\ Len(ops) \in Nat
      /\ txn /\ phase = "idle"
  BY NowType, LenProperties DEF Inv, TypeOK, Savepoint
<1>2. sp \in SpRec
  BY <1>1 DEF SpRec
<1>3. /\ sps' = Append(sps, sp) /\ sps' \in Seq(SpRec)
      /\ Len(sps') = Len(sps) + 1 /\ sps'[Len(sps) + 1] = sp
      /\ \A i \in 1 .. Len(sps) : sps'[i] = sps[i]
      /\ Len(sps) \in Nat
  BY <1>1, <1>2, AppendProperties, LenProperties DEF Savepoint
<1>4. UNCHANGED <<meta, rows, seq, dbs, curDb, txn, txnDb, owner, ops, nextTxn,
                  phase, target, crashes, atBegin, hist, faithful, lowered>>
  BY DEF Savepoint, store, loopVars, ghosts
<1>5. TypeOK'
  BY <1>1, <1>3, <1>4 DEF TypeOK
<1>6. \A i \in 1 .. Len(sps') :
         i \in 1 .. Len(sps) \/ i = Len(sps) + 1
  BY <1>3
<1>7. \A i \in 1 .. Len(sps) : sps[i].name # n
  BY DEF Savepoint
<1>8. \A i \in 1 .. Len(sps) : sps[i].count \in Nat /\ sps[i].count <= Len(ops)
  BY <1>1, SavepointType DEF Inv, SavepointsOrdered
<1>9. SavepointsOrdered'
  <2>1. \A i \in 1 .. Len(sps') : sps'[i].count <= Len(ops')
    BY <1>1, <1>3, <1>4, <1>6, <1>8
  <2>2. ASSUME NEW i \in 1 .. Len(sps'), NEW j \in 1 .. Len(sps'), i < j
        PROVE  sps'[i].count <= sps'[j].count /\ sps'[i].name # sps'[j].name
    <3>1. i \in 1 .. Len(sps)
      BY <1>3, <2>2
    <3>2. CASE j = Len(sps) + 1
      BY <1>3, <1>7, <1>8, <3>1, <3>2
    <3>3. CASE j \in 1 .. Len(sps)
      BY <1>1, <1>3, <2>2, <3>1, <3>3 DEF Inv, SavepointsOrdered
    <3> QED
      BY <1>6, <3>2, <3>3
  <2> QED
    BY <2>1, <2>2 DEF SavepointsOrdered
<1>10. UndoChain'
  <2>1. Now' = Now /\ \A i : After(i)' = After(i)
    BY <1>4 DEF Now, After
  <2>2. After(Len(ops)) = Now
    BY DEF After
  <2>3. ASSUME faithful, NEW i \in 1 .. Len(sps')
        PROVE  After(sps'[i].count) = sps'[i].image
    <3>1. CASE i \in 1 .. Len(sps)
      BY <1>1, <1>3, <2>3, <3>1 DEF Inv, UndoChain
    <3>2. CASE i = Len(sps) + 1
      BY <1>3, <2>2, <3>2
    <3> QED
      BY <1>6, <3>1, <3>2
  <2> QED
    BY <1>1, <1>4, <2>1, <2>3 DEF Inv, UndoChain, After, Now
<1> QED
  BY <1>1, <1>4, <1>5, <1>9, <1>10 DEF Inv

\* Any selection of the savepoints that keeps their order is as good.
LEMMA FewerSavepoints ==
  ASSUME Inv, txn, sps' \in Seq(SpRec), phase = "idle",
         NEW f \in [1 .. Len(sps') -> 1 .. Len(sps)],
         \A i \in 1 .. Len(sps') : sps'[i] = sps[f[i]],
         \A i, j \in 1 .. Len(sps') : i < j => f[i] < f[j],
         phase' \in {"idle", "rollbackTo"}, target' \in Nat,
         phase' = "rollbackTo" => Len(sps') > 0 /\ target' = sps'[Len(sps')].count,
         UNCHANGED <<store, curDb, txn, txnDb, owner, ops, nextTxn, crashes,
                     ghosts>>
  PROVE  Inv'
<1>1. UNCHANGED <<meta, rows, seq, dbs, curDb, txn, txnDb, owner, ops, nextTxn,
                  crashes, atBegin, hist, faithful, lowered>>
  BY DEF store, ghosts
<1>2. TypeOK'
  <2>1. txn' \in BOOLEAN /\ faithful' \in BOOLEAN
    BY <1>1 DEF Inv, TypeOK
  <2> QED
    BY <1>1, <2>1 DEF Inv, TypeOK
<1>3. SavepointsOrdered'
  <2>1. \A i \in 1 .. Len(sps') : sps'[i].count <= Len(ops')
    BY <1>1 DEF Inv, SavepointsOrdered
  <2>2. \A i, j \in 1 .. Len(sps') :
          i < j => sps'[i].count <= sps'[j].count /\ sps'[i].name # sps'[j].name
    BY DEF Inv, SavepointsOrdered
  <2> QED
    BY <2>1, <2>2 DEF SavepointsOrdered
<1>4. UndoChain'
  <2>1. Now' = Now /\ \A i : After(i)' = After(i)
    BY <1>1 DEF Now, After
  <2>2. ASSUME faithful, NEW i \in 1 .. Len(sps')
        PROVE  After(sps'[i].count) = sps'[i].image
    BY <2>2 DEF Inv, UndoChain
  <2> QED
    BY <1>1, <2>1, <2>2 DEF Inv, UndoChain, After, Now
<1> QED
  BY <1>1, <1>2, <1>3, <1>4 DEF Inv

LEMMA ReleaseInv ==
  ASSUME Inv, NEW n \in SpName, ReleaseSavepoint(n)
  PROVE  Inv'
<1>1. PICK k \in 1 .. Len(sps) :
        sps' = SubSeq(sps, 1, k - 1) \o SubSeq(sps, k + 1, Len(sps))
  BY DEF ReleaseSavepoint
<1>2. sps \in Seq(SpRec) /\ Len(sps) \in Nat /\ txn /\ phase = "idle"
      /\ target \in Nat
  BY LenProperties DEF Inv, TypeOK, ReleaseSavepoint
<1> DEFINE a == SubSeq(sps, 1, k - 1)
           b == SubSeq(sps, k + 1, Len(sps))
           f == [i \in 1 .. Len(sps) - 1 |-> IF i < k THEN i ELSE i + 1]
<1>3. /\ a \in Seq(SpRec) /\ Len(a) = k - 1
      /\ \A i \in 1 .. k - 1 : a[i] = sps[i]
  BY <1>2, SubSeqProperties
<1>4. /\ b \in Seq(SpRec) /\ Len(b) = Len(sps) - k
      /\ \A i \in 1 .. Len(sps) - k : b[i] = sps[k + i]
  BY <1>2, SubSeqProperties
<1>5. /\ sps' \in Seq(SpRec) /\ Len(sps') = Len(sps) - 1
      /\ \A i \in 1 .. Len(sps') :
           sps'[i] = IF i < k THEN a[i] ELSE b[i - (k - 1)]
  <2>1. /\ a \o b \in Seq(SpRec) /\ Len(a \o b) = Len(a) + Len(b)
        /\ \A i \in 1 .. Len(a) + Len(b) :
             (a \o b)[i] = IF i <= Len(a) THEN a[i] ELSE b[i - Len(a)]
    BY <1>3, <1>4, ConcatProperties
  <2>2. /\ sps' \in Seq(SpRec) /\ Len(sps') = Len(a) + Len(b)
        /\ \A i \in 1 .. Len(a) + Len(b) :
             sps'[i] = IF i <= Len(a) THEN a[i] ELSE b[i - Len(a)]
    BY <1>1, <2>1
  <2>3. Len(a) = k - 1 /\ Len(b) = Len(sps) - k
    BY <1>3, <1>4
  <2> HIDE DEF a, b
  <2> QED
    BY <1>2, <2>2, <2>3
<1>6. f \in [1 .. Len(sps') -> 1 .. Len(sps)]
  BY <1>2, <1>5
<1>7. ASSUME NEW i \in 1 .. Len(sps') PROVE sps'[i] = sps[f[i]]
  <2>1. CASE i < k
    BY <1>2, <1>3, <1>5, <2>1
  <2>2. CASE ~ (i < k)
    <3>1. i - (k - 1) \in 1 .. Len(sps) - k /\ k + (i - (k - 1)) = i + 1
      BY <1>2, <1>5, <2>2
    <3>2. sps'[i] = b[i - (k - 1)]
      BY <1>5, <2>2
    <3>3. b[i - (k - 1)] = sps[i + 1]
      BY <1>4, <3>1
    <3>4. f[i] = i + 1
      BY <1>5, <2>2
    <3> QED
      BY <3>2, <3>3, <3>4
  <2> QED
    BY <2>1, <2>2
<1>8. \A i, j \in 1 .. Len(sps') : i < j => f[i] < f[j]
  BY <1>2, <1>5
<1>9. phase' = "idle" /\ target' = target
  BY <1>2 DEF ReleaseSavepoint, loopVars
<1> HIDE DEF f
<1> QED
  BY <1>2, <1>5, <1>6, <1>7, <1>8, <1>9, FewerSavepoints DEF ReleaseSavepoint

LEMMA StartRollbackToInv ==
  ASSUME Inv, NEW n \in SpName, StartRollbackTo(n)
  PROVE  Inv'
<1>1. PICK k \in 1 .. Len(sps) :
        target' = sps[k].count /\ sps' = SubSeq(sps, 1, k)
  BY DEF StartRollbackTo
<1>2. sps \in Seq(SpRec) /\ Len(sps) \in Nat /\ txn /\ phase = "idle"
  BY LenProperties DEF Inv, TypeOK, StartRollbackTo
<1> DEFINE f == [i \in 1 .. k |-> i]
<1>3. /\ sps' \in Seq(SpRec) /\ Len(sps') = k
      /\ \A i \in 1 .. k : sps'[i] = sps[i]
  BY <1>1, <1>2, SubSeqProperties
<1>4. f \in [1 .. Len(sps') -> 1 .. Len(sps)]
  BY <1>2, <1>3
<1>5. /\ \A i \in 1 .. Len(sps') : sps'[i] = sps[f[i]]
      /\ \A i, j \in 1 .. Len(sps') : i < j => f[i] < f[j]
  BY <1>3
<1>6. sps[k] \in SpRec /\ target' \in Nat
  BY <1>1, <1>2, SavepointType
<1>7. phase' = "rollbackTo" /\ Len(sps') > 0 /\ target' = sps'[Len(sps')].count
  BY <1>1, <1>3 DEF StartRollbackTo
<1> HIDE DEF f
<1> QED
  BY <1>2, <1>3, <1>4, <1>5, <1>6, <1>7, FewerSavepoints DEF StartRollbackTo

LEMMA StartRollbackInv ==
  ASSUME Inv, StartRollback
  PROVE  Inv'
<1>1. UNCHANGED <<meta, rows, seq, dbs, curDb, txn, txnDb, owner, ops, sps,
                  nextTxn, crashes, atBegin, hist, faithful, lowered>>
  BY DEF StartRollback, store, txnVars, ghosts
<1>2. txn /\ phase' = "rollback" /\ target' = 0
  BY DEF StartRollback
<1>3. TypeOK'
  <2>1. txn' \in BOOLEAN /\ faithful' \in BOOLEAN
    BY <1>1 DEF Inv, TypeOK
  <2> QED
    BY <1>1, <1>2, <2>1 DEF Inv, TypeOK
<1>4. UndoChain'
  BY <1>1, <1>2 DEF Inv, UndoChain, After, Now
<1> QED
  BY <1>1, <1>2, <1>3, <1>4 DEF Inv, SavepointsOrdered

-----------------------------------------------------------------------------
(* The undo loops preserve the invariant. *)

LEMMA UndoInv ==
  ASSUME Inv, PopRecord, Len(ops) > target, phase # "idle",
         rows' = UndoRows(ops[Len(ops)], rows),
         TypeOK',
         faithful' => faithful
                      /\ meta' = UndoMeta(ops[Len(ops)], txnDb, meta),
         UNCHANGED <<txn, txnDb, sps, phase, target, atBegin>>
  PROVE  Inv'
<1>1. /\ ops \in Seq(Op) /\ hist \in Seq(Image) /\ Len(hist) = Len(ops)
      /\ Now \in Image /\ sps \in Seq(SpRec) /\ target \in Nat
      /\ Len(ops) \in Nat /\ Len(ops) > 0 /\ txn
  BY NowType, LenProperties DEF Inv, TypeOK
<1>2. /\ ops' = SubSeq(ops, 1, Len(ops) - 1)
      /\ hist' = SubSeq(hist, 1, Len(hist) - 1)
  BY DEF PopRecord
<1>3. Len(ops') = Len(ops) - 1 /\ Len(hist') = Len(ops')
  BY <1>1, <1>2, SubSeqProperties
<1>4. ASSUME phase # "rollback", NEW i \in 1 .. Len(sps)
      PROVE  sps[i].count \in 0 .. Len(ops) - 1
  <2>1. /\ phase = "rollbackTo"
        /\ Len(sps) > 0 /\ target = sps[Len(sps)].count
    BY <1>4 DEF Inv, TypeOK
  <2>2. sps[i] \in SpRec /\ sps[i].count \in Nat
    BY <1>1, SavepointType
  <2>3. sps[i].count <= target
    BY <1>1, <1>4, <2>1, <2>2, LenProperties DEF Inv, SavepointsOrdered
  <2> QED
    BY <1>1, <2>2, <2>3
<1>5. SavepointsOrdered'
  <2> SUFFICES ASSUME phase # "rollback" PROVE SavepointsOrdered'
    BY DEF SavepointsOrdered
  <2>1. \A i \in 1 .. Len(sps) : sps[i].count <= Len(ops) - 1
    BY <1>1, <1>4
  <2> QED
    BY <1>3, <2>1 DEF Inv, SavepointsOrdered
<1>6. UndoChain'
  <2> SUFFICES ASSUME faithful' PROVE UndoChain'
    BY DEF UndoChain
  <2>1. /\ faithful
        /\ At(ops, hist, Now, 0) = atBegin
        /\ ChainOf(ops, hist, Now, txnDb)
        /\ phase # "rollback" =>
             \A i \in 1 .. Len(sps) :
                At(ops, hist, Now, sps[i].count) = sps[i].image
    BY <1>1, UndoChainIs DEF Inv
  <2>2. hist[Len(ops)] \in Image
    BY <1>1
  <2>3. /\ UndoRows(ops[Len(ops)], Now.rows) = hist[Len(ops)].rows
        /\ UndoMeta(ops[Len(ops)], txnDb, Now.meta) = hist[Len(ops)].meta
    BY <1>1, <2>1 DEF ChainOf, At
  <2>4. Now' = hist[Len(ops)]
    BY <2>2, <2>3 DEF Now, Image
  <2>5. /\ ChainOf(ops', hist', Now', txnDb)
        /\ \A i \in 0 .. Len(ops) - 1 :
             At(ops', hist', Now', i) = At(ops, hist, Now, i)
    BY <1>1, <1>2, <2>1, <2>2, <2>4, PopChain
  <2>6. At(ops', hist', Now', 0) = atBegin'
    BY <1>1, <2>1, <2>5
  <2>7. phase' # "rollback" =>
          \A i \in 1 .. Len(sps') :
             At(ops', hist', Now', sps'[i].count) = sps'[i].image
    BY <1>4, <2>1, <2>5
  <2>8. ChainOf(ops', hist', Now', txnDb')
    BY <2>5
  <2> QED
    BY <2>6, <2>7, <2>8 DEF UndoChain, ChainOf, At, After
<1> QED
  BY <1>3, <1>5, <1>6 DEF Inv

LEMMA PopType ==
  ASSUME TypeOK, PopRecord, Len(ops) > 0, Len(hist) = Len(ops)
  PROVE  /\ ops' \in Seq(Op) /\ hist' \in Seq(Image)
         /\ ops[Len(ops)] \in Op
<1>1. ops \in Seq(Op) /\ hist \in Seq(Image) /\ Len(ops) \in Nat
  BY LenProperties DEF TypeOK
<1> QED
  BY <1>1, SubSeqProperties DEF PopRecord

LEMMA UndoStepInv ==
  ASSUME Inv, UndoStep
  PROVE  Inv'
<1>1. TypeOK /\ PopRecord /\ Len(ops) > 0 /\ Len(hist) = Len(ops) /\ txnDb \in Db
  BY LenProperties DEF Inv, TypeOK, UndoStep
<1>2. /\ ops' \in Seq(Op) /\ hist' \in Seq(Image)
      /\ ops[Len(ops)] \in Op
  BY <1>1, PopType
<1>3. /\ rows' \in [RowKey -> Val \cup {None}]
      /\ meta' \in [Tab -> Schema \cup {None}]
  BY <1>1, <1>2, UndoType DEF TypeOK, UndoStep
<1>4. txn' \in BOOLEAN /\ faithful' \in BOOLEAN
  BY <1>1 DEF TypeOK, UndoStep
<1>5. TypeOK'
  BY <1>1, <1>2, <1>3, <1>4 DEF TypeOK, UndoStep, loopVars
<1> QED
  BY <1>1, <1>5, UndoInv DEF UndoStep, loopVars

LEMMA UndoStepToInv ==
  ASSUME Inv, UndoStepTo
  PROVE  Inv'
<1>1. TypeOK /\ PopRecord /\ Len(ops) > 0 /\ Len(hist) = Len(ops) /\ txnDb \in Db
  BY LenProperties DEF Inv, TypeOK, UndoStepTo
<1>2. /\ ops' \in Seq(Op) /\ hist' \in Seq(Image)
      /\ ops[Len(ops)] \in Op
  BY <1>1, PopType
<1>3. rows' \in [RowKey -> Val \cup {None}] /\ meta' = meta
  BY <1>1, <1>2, UndoType DEF TypeOK, UndoStepTo, UndoMetaTo
<1>4. txn' \in BOOLEAN /\ faithful' \in BOOLEAN
  BY <1>1 DEF TypeOK, UndoStepTo
<1>5. TypeOK'
  BY <1>1, <1>2, <1>3, <1>4 DEF TypeOK, UndoStepTo, loopVars
<1>6. faithful' => faithful /\ meta' = UndoMeta(ops[Len(ops)], txnDb, meta)
  BY <1>3 DEF UndoStepTo, UndoMeta, RowOps
<1> QED
  BY <1>1, <1>5, <1>6, UndoInv DEF UndoStepTo, loopVars

LEMMA FinishInv ==
  ASSUME Inv, FinishRollback \/ FinishRollbackTo \/ Commit \/ Crash
  PROVE  Inv'
<1>1. TypeOK
  BY DEF Inv
<1>2. CASE FinishRollback
  BY <1>1, <1>2, EndTxnInv DEF FinishRollback, TypeOK
<1>3. CASE Commit
  BY <1>1, <1>3, EndTxnInv DEF Commit, TypeOK
<1>4. CASE Crash
  BY <1>1, <1>4, ConstantAssumption, EndTxnInv DEF Crash, TypeOK
<1>5. CASE FinishRollbackTo
  <2>1. UNCHANGED <<meta, rows, seq, dbs, curDb, txn, txnDb, owner, ops, sps,
                    nextTxn, crashes, atBegin, hist, faithful, lowered>>
    BY <1>5 DEF FinishRollbackTo, store, txnVars, ghosts
  <2>2. phase = "rollbackTo" /\ phase' = "idle" /\ target' = 0
    BY <1>5 DEF FinishRollbackTo
  <2>3. txn' \in BOOLEAN /\ faithful' \in BOOLEAN
    BY <1>1, <2>1 DEF TypeOK
  <2>4. TypeOK'
    BY <1>1, <2>1, <2>2, <2>3 DEF TypeOK
  <2>5. UndoChain'
    BY <2>1, <2>2 DEF Inv, UndoChain, After, Now
  <2> QED
    BY <2>1, <2>2, <2>4, <2>5 DEF Inv, SavepointsOrdered
<1> QED
  BY <1>2, <1>3, <1>4, <1>5

-----------------------------------------------------------------------------
(* AUTO ids.  A rollback may put a deleted row back after the sequence has   *)
(* moved on, so that AUTO ids are free needs the undo log as well: the id    *)
(* of every row and of every row record is covered by its table's sequence.  *)

\* The sequence of its table has reached the id of r, or was set back; and
\* the same after the step.
Covered(r) == <<r[1], r[2]>> \in lowered \/ r[3] <= seq[<<r[1], r[2]>>]
CoveredNext(r) == <<r[1], r[2]>> \in lowered' \/ r[3] <= seq'[<<r[1], r[2]>>]

RowsCovered == \A r \in RowKey : rows[r] # None => Covered(r)

RecordsCovered ==
  \A i \in 1 .. Len(ops) : ops[i].type \in RowOps => Covered(ops[i].key)

Fresh == RowsCovered /\ RecordsCovered

LEMMA RowKeyIs ==
  ASSUME NEW r \in RowKey
  PROVE  /\ <<r[1], r[2]>> \in Tab /\ r[3] \in Id /\ r[3] \in Int
         /\ r = <<r[1], r[2], r[3]>>
BY ConstantAssumption DEF RowKey, Tab, Id

LEMMA RowRecordIs ==
  ASSUME TypeOK, NEW i \in 1 .. Len(ops), ops[i].type \in RowOps
  PROVE  ops[i].key \in RowKey
<1>1. ops[i] \in Op
  BY DEF TypeOK
<1>2. ops[i] \in [type : RowOps, key : RowKey, old : Val \cup {None}]
  BY <1>1 DEF Op, RowOps, DdlOps
<1> QED
  BY <1>2

\* What a change of the sequence covers it covers afterwards.
LEMMA SetSeqCovers ==
  ASSUME TypeOK, NEW t \in Tab, NEW n \in Nat, SetSeq(t, n),
         NEW r \in RowKey, Covered(r)
  PROVE  CoveredNext(r)
<1>1. /\ <<r[1], r[2]>> \in Tab /\ r[3] \in Int
      /\ seq \in [Tab -> Nat] /\ seq[t] \in Nat
  BY RowKeyIs DEF TypeOK
<1>2. CASE <<r[1], r[2]>> = t
  BY <1>1, <1>2 DEF SetSeq, Covered, CoveredNext
<1>3. CASE <<r[1], r[2]>> # t
  BY <1>1, <1>3 DEF SetSeq, Covered, CoveredNext
<1> QED
  BY <1>2, <1>3

\* A log that gained at most a record of a covered row.
LEMMA LogCovers ==
  ASSUME TypeOK, Fresh, NEW op, Log(op),
         op.type \in RowOps => CoveredNext(op.key),
         \A r \in RowKey : Covered(r) => CoveredNext(r)
  PROVE  RecordsCovered'
<1>1. \A i \in 1 .. Len(ops) : ops[i].type \in RowOps => CoveredNext(ops[i].key)
  BY RowRecordIs DEF Fresh, RecordsCovered
<1>2. CASE ~ txn
  BY <1>1, <1>2 DEF Log, RecordsCovered, Covered, CoveredNext
<1>3. CASE txn
  <2>1. ops \in Seq(Op) /\ ops' = Append(ops, op) /\ Len(ops) \in Nat
    BY <1>3, LenProperties DEF Log, TypeOK
  <2>2. /\ Len(ops') = Len(ops) + 1 /\ ops'[Len(ops) + 1] = op
        /\ \A i \in 1 .. Len(ops) : ops'[i] = ops[i]
    BY <2>1
  <2> SUFFICES ASSUME NEW i \in 1 .. Len(ops'), ops'[i].type \in RowOps
               PROVE  CoveredNext(ops'[i].key)
    BY DEF RecordsCovered, Covered, CoveredNext
  <2>3. CASE i = Len(ops) + 1
    BY <2>2, <2>3
  <2>4. CASE i \in 1 .. Len(ops)
    BY <1>1, <2>2, <2>4
  <2> QED
    BY <2>1, <2>2, <2>3, <2>4
<1> QED
  BY <1>2, <1>3

\* A table statement logs a record that names no row.
LEMMA DdlFresh ==
  ASSUME TypeOK, Fresh, NEW s \in Session, NEW tn \in TableName,
         (\E sch \in Schema : CreateTable(s, tn, sch)) \/ DropTable(s, tn)
  PROVE  Fresh'
<1>1. <<curDb[s], tn>> \in Tab
  BY DEF TypeOK, Tab
<1>2. /\ SetSeq(<<curDb[s], tn>>, 0) /\ rows' = rows
      /\ \E type, sch : type \in DdlOps /\ Log(DdlOp(type, tn, sch))
  BY DEF CreateTable, DropTable, DdlOps
<1>3. \A r \in RowKey : Covered(r) => CoveredNext(r)
  BY <1>1, <1>2, SetSeqCovers
<1>4. PICK type, sch : type \in DdlOps /\ Log(DdlOp(type, tn, sch))
  BY <1>2
<1>5. DdlOp(type, tn, sch).type \notin RowOps
  BY <1>4 DEF DdlOp, DdlOps, RowOps
<1>6. RecordsCovered'
  BY <1>3, <1>4, <1>5, LogCovers
<1> QED
  BY <1>2, <1>3, <1>6 DEF Fresh, RowsCovered, Covered, CoveredNext

\* The tail of an insert, its row covered by the sequence as just set.
LEMMA PutRowFresh ==
  ASSUME TypeOK, Fresh, NEW s \in Session, NEW r \in RowKey, NEW v \in Val,
         PutRow(s, r, v), CoveredNext(r),
         \A q \in RowKey : Covered(q) => CoveredNext(q)
  PROVE  Fresh'
<1>1. rows \in [RowKey -> Val \cup {None}]
  BY DEF TypeOK
<1>2. CASE rows[r] # None
  <2>1. UNCHANGED <<rows, ops>>
    BY <1>2 DEF PutRow
  <2>2. RecordsCovered'
    BY <2>1, RowRecordIs DEF Fresh, RecordsCovered, Covered, CoveredNext
  <2> QED
    BY <2>1, <2>2 DEF Fresh, RowsCovered, Covered, CoveredNext
<1>3. CASE rows[r] = None
  <2>1. rows' = [rows EXCEPT ![r] = v] /\ Log(RowOp("insert", r, None))
    BY <1>3 DEF PutRow
  <2>2. RowOp("insert", r, None).key = r
    BY DEF RowOp
  <2>3. RecordsCovered'
    BY <2>1, <2>2, LogCovers
  <2>4. RowsCovered'
    BY <1>1, <2>1 DEF Fresh, RowsCovered, Covered, CoveredNext
  <2> QED
    BY <2>3, <2>4 DEF Fresh
<1> QED
  BY <1>2, <1>3

LEMMA InsertFresh ==
  ASSUME TypeOK, Fresh, NEW s \in Session, NEW tn \in TableName, NEW v \in Val,
         (\E i \in Id : Insert(s, tn, i, v)) \/ InsertAuto(s, tn, v)
  PROVE  Fresh'
<1> DEFINE t == <<curDb[s], tn>>
<1>1. /\ t \in Tab /\ seq[t] \in Nat /\ seq \in [Tab -> Nat] /\ curDb[s] \in Db
  BY DEF TypeOK, Tab
<1>2. PICK i \in Id, n \in Nat : /\ SetSeq(t, n) /\ n >= i
                                 /\ PutRow(s, <<curDb[s], tn, i>>, v)
  <2>1. CASE \E i \in Id : Insert(s, tn, i, v)
    <3>1. PICK i \in Id : Insert(s, tn, i, v)
      BY <2>1
    <3>2. i \in Nat
      BY ConstantAssumption DEF Id
    <3>3. (IF i > seq[t] THEN i ELSE seq[t]) \in Nat /\ (IF i > seq[t] THEN i ELSE seq[t]) >= i
      BY <1>1, <3>2
    <3> QED
      BY <3>1, <3>3 DEF Insert
  <2>2. CASE InsertAuto(s, tn, v)
    <3>1. seq[t] + 1 \in Id /\ seq[t] + 1 \in Nat /\ seq[t] + 1 >= seq[t] + 1
      BY <1>1, <2>2 DEF InsertAuto
    <3> QED
      BY <2>2, <3>1 DEF InsertAuto
  <2> QED
    BY <2>1, <2>2
<1> DEFINE r == <<curDb[s], tn, i>>
<1>3. r \in RowKey /\ <<r[1], r[2]>> = t /\ r[3] = i
  BY <1>1 DEF RowKey
<1>4. seq'[t] = n
  BY <1>1, <1>2 DEF SetSeq
<1>5. CoveredNext(r)
  <2>1. i \in Int
    BY ConstantAssumption DEF Id
  <2> QED
    BY <1>2, <1>3, <1>4, <2>1 DEF CoveredNext
<1>6. \A q \in RowKey : Covered(q) => CoveredNext(q)
  BY <1>1, <1>2, SetSeqCovers
<1> HIDE DEF t, r
<1> QED
  BY <1>2, <1>3, <1>5, <1>6, PutRowFresh DEF r

LEMMA ReplaceFresh ==
  ASSUME TypeOK, Fresh, NEW s \in Session, NEW tn \in TableName, NEW i \in Id,
         Delete(s, tn, i) \/ \E v \in Val : Update(s, tn, i, v)
  PROVE  Fresh'
<1> DEFINE r == <<curDb[s], tn, i>>
<1>1. r \in RowKey /\ rows \in [RowKey -> Val \cup {None}]
  BY DEF TypeOK, RowKey
<1>2. PICK type, new :
        type \in RowOps /\ Log(RowOp(type, r, rows[r])) /\ rows' = [rows EXCEPT ![r] = new]
  BY DEF Delete, Update, RowOps
<1>3. rows[r] # None /\ UNCHANGED <<seq, lowered>>
  BY DEF Delete, Update
<1> HIDE DEF r
<1>4. Covered(r) /\ \A q \in RowKey : CoveredNext(q) <=> Covered(q)
  BY <1>1, <1>3 DEF Fresh, RowsCovered, Covered, CoveredNext
<1>5. RowOp(type, r, rows[r]).key = r
  BY DEF RowOp
<1>6. RecordsCovered'
  BY <1>1, <1>2, <1>4, <1>5, LogCovers
<1>7. RowsCovered'
  BY <1>1, <1>2, <1>4 DEF Fresh, RowsCovered, Covered, CoveredNext
<1> QED
  BY <1>6, <1>7 DEF Fresh

LEMMA DropDbFresh ==
  ASSUME TypeOK, Fresh, NEW d \in Db, DropDb(d)
  PROVE  Fresh'
<1>1. /\ rows' = [r \in RowKey |-> IF r[1] = d THEN None ELSE rows[r]]
      /\ seq' = [t \in Tab |-> IF t[1] = d THEN 0 ELSE seq[t]]
      /\ lowered' = lowered \cup {t \in Tab : t[1] = d}
      /\ ops' = ops
  BY DEF DropDb, txnVars
<1>2. ASSUME NEW r \in RowKey, Covered(r)
      PROVE  CoveredNext(r)
  <2>1. <<r[1], r[2]>> \in Tab /\ <<r[1], r[2]>>[1] = r[1]
    BY RowKeyIs
  <2> QED
    BY <1>1, <1>2, <2>1 DEF Covered, CoveredNext
<1>3. RecordsCovered'
  BY <1>1, <1>2, RowRecordIs DEF Fresh, RecordsCovered, Covered, CoveredNext
<1>4. RowsCovered'
  BY <1>1, <1>2 DEF Fresh, RowsCovered, Covered, CoveredNext
<1> QED
  BY <1>3, <1>4 DEF Fresh

\* One undo: the row of a record is covered, and the log gets shorter.
LEMMA UndoFresh ==
  ASSUME TypeOK, Fresh, UndoStep \/ UndoStepTo
  PROVE  Fresh'
<1> DEFINE op == ops[Len(ops)]
<1>1. /\ ops \in Seq(Op) /\ Len(ops) \in Nat /\ Len(ops) > 0 /\ PopRecord
      /\ rows \in [RowKey -> Val \cup {None}]
      /\ rows' = UndoRows(op, rows) /\ UNCHANGED <<seq, lowered>>
  BY LenProperties DEF TypeOK, UndoStep, UndoStepTo
<1>2. Len(ops) \in 1 .. Len(ops)
  BY <1>1
<1>3. op.type \in RowOps => op.key \in RowKey /\ Covered(op.key)
  BY <1>2, RowRecordIs DEF Fresh, RecordsCovered
<1>4. /\ Len(ops') = Len(ops) - 1
      /\ \A i \in 1 .. Len(ops) - 1 : ops'[i] = ops[i]
  <2>1. ops' = SubSeq(ops, 1, Len(ops) - 1)
    BY <1>1 DEF PopRecord
  <2>2. /\ Len(SubSeq(ops, 1, Len(ops) - 1)) = Len(ops) - 1
        /\ \A i \in 1 .. Len(ops) - 1 : SubSeq(ops, 1, Len(ops) - 1)[i] = ops[i]
    <3>1. ops \in Seq(Op) /\ 1 \in 1 .. Len(ops) + 1 /\ Len(ops) - 1 \in 0 .. Len(ops)
      BY <1>1
    <3>2. Len(ops) \in Nat /\ (Len(ops) - 1) - 1 + 1 = Len(ops) - 1
      BY <1>1
    <3>3. \A i \in 1 .. Len(ops) - 1 : 1 + i - 1 = i
      BY <1>1
    <3> QED
      BY <3>1, <3>2, <3>3, SubSeqProperties
  <2> QED
    BY <2>1, <2>2
<1>5. RecordsCovered'
  BY <1>1, <1>4 DEF Fresh, RecordsCovered, Covered, CoveredNext
<1> HIDE DEF op
<1>6. ASSUME NEW r \in RowKey, rows'[r] # None
      PROVE  rows[r] # None \/ (op.type \in RowOps /\ r = op.key)
  BY <1>1, <1>3, <1>6 DEF UndoRows, RowOps
<1>7. RowsCovered'
  BY <1>1, <1>3, <1>6 DEF Fresh, RowsCovered, Covered, CoveredNext
<1> QED
  BY <1>5, <1>7 DEF Fresh

\* The steps that touch neither rows nor sequences and log nothing.
LEMMA QuietFresh ==
  ASSUME Fresh, UNCHANGED <<rows, seq, lowered>>, ops' = ops \/ ops' = <<>>
  PROVE  Fresh'
<1>1. CASE ops' = ops
  BY <1>1 DEF Fresh, RowsCovered, RecordsCovered, Covered
<1>2. CASE ops' = <<>>
  BY <1>2 DEF Fresh, RowsCovered, RecordsCovered, Covered
<1> QED
  BY <1>1, <1>2

-----------------------------------------------------------------------------
(* The theorems. *)

LEMMA InitInv == Init => Inv
<1> SUFFICES ASSUME Init PROVE Inv
  OBVIOUS
<1>1. /\ meta \in [Tab -> Schema \cup {None}]
      /\ rows \in [RowKey -> Val \cup {None}]
  BY DEF Init, EmptyImage
<1>2. txn \in BOOLEAN /\ faithful \in BOOLEAN /\ ~ txn
  BY DEF Init
<1>3. TypeOK
  BY <1>1, <1>2, ConstantAssumption, EmptyImageType DEF Init, TypeOK
<1>4. Len(ops) = 0 /\ Len(hist) = 0 /\ Len(sps) = 0 /\ phase = "idle"
  BY DEF Init
<1>5. SavepointsOrdered /\ UndoChain
  BY <1>2, <1>4 DEF SavepointsOrdered, UndoChain
<1> QED
  BY <1>3, <1>4, <1>5 DEF Inv

LEMMA StatementInv ==
  ASSUME Inv, NEW s \in Session, Statement(s)
  PROVE  Inv'
<1>1. CASE \E tn \in TableName, sch \in Schema : CreateTable(s, tn, sch)
  BY <1>1, CreateTableInv
<1>2. CASE \E tn \in TableName : DropTable(s, tn)
  BY <1>2, DropTableInv
<1>3. CASE \E tn \in TableName, i \in Id, v \in Val : Insert(s, tn, i, v)
  BY <1>3, InsertInv
<1>4. CASE \E tn \in TableName, v \in Val : InsertAuto(s, tn, v)
  BY <1>4, InsertAutoInv
<1>5. CASE \E tn \in TableName, i \in Id : Delete(s, tn, i)
  BY <1>5, DeleteInv
<1>6. CASE \E tn \in TableName, i \in Id, v \in Val : Update(s, tn, i, v)
  BY <1>6, UpdateInv
<1>7. CASE \E d \in Db : UseDb(s, d)
  BY <1>7, DatabaseInv
<1>8. CASE Begin(s)
  BY <1>8, BeginInv
<1> QED
  BY <1>1, <1>2, <1>3, <1>4, <1>5, <1>6, <1>7, <1>8 DEF Statement

LEMMA NextInv == Inv /\ [Next]_vars => Inv'
<1> SUFFICES ASSUME Inv, [Next]_vars PROVE Inv'
  OBVIOUS
<1>1. CASE \E s \in Session : Statement(s)
  BY <1>1, StatementInv
<1>2. CASE \E d \in Db : CreateDb(d) \/ DropDb(d)
  <2>1. owner \in Session
    BY DEF Inv, TypeOK
  <2> QED
    BY <1>2, <2>1, DatabaseInv
<1>3. CASE \E n \in SpName : Savepoint(n) \/ ReleaseSavepoint(n)
                             \/ StartRollbackTo(n)
  BY <1>3, SavepointInv, ReleaseInv, StartRollbackToInv
<1>4. CASE StartRollback
  BY <1>4, StartRollbackInv
<1>5. CASE RollbackLoop
  BY <1>5, UndoStepInv, UndoStepToInv, FinishInv DEF RollbackLoop
<1>6. CASE Commit \/ Crash
  BY <1>6, FinishInv
<1>7. CASE UNCHANGED vars
  BY <1>7 DEF vars, Inv, TypeOK, SavepointsOrdered, UndoChain, After, Now
<1> QED
  BY <1>1, <1>2, <1>3, <1>4, <1>5, <1>6, <1>7 DEF Next

\* Types, the order of the savepoints and the undo chain hold in every
\* state, for every number of sessions, databases, tables and records.
THEOREM UndoLogCorrect == Spec => [](TypeOK /\ SavepointsOrdered /\ UndoChain)
<1>1. Inv => TypeOK /\ SavepointsOrdered /\ UndoChain
  BY DEF Inv
<1> QED
  BY <1>1, InitInv, NextInv, PTL DEF Spec

\* txn_rollback restores the tables and rows BEGIN saw.
THEOREM RollbackCorrect == Spec => []RollbackRestores
<1>1. Inv => RollbackRestores
  <2> SUFFICES ASSUME Inv, phase = "rollback", Len(ops) = 0, faithful
               PROVE  Now = atBegin
    BY DEF RollbackRestores
  <2> QED
    BY DEF Inv, UndoChain, After
<1> QED
  BY <1>1, InitInv, NextInv, PTL DEF Spec

\* txn_rollback_to_savepoint restores the tables and rows of its savepoint.
THEOREM RollbackToCorrect == Spec => []RollbackToRestores
<1>1. Inv => RollbackToRestores
  <2> SUFFICES ASSUME Inv, phase = "rollbackTo", Len(ops) = target, faithful
               PROVE  sps[Len(sps)].image = Now
    BY DEF RollbackToRestores
  <2>1. /\ txn /\ Len(sps) > 0 /\ target = sps[Len(sps)].count
        /\ Len(sps) \in Nat
    BY LenProperties DEF Inv, TypeOK
  <2>2. After(target) = sps[Len(sps)].image
    BY <2>1 DEF Inv, UndoChain
  <2> QED
    BY <2>2 DEF After
<1> QED
  BY <1>1, InitInv, NextInv, PTL DEF Spec

LEMMA InitFresh == Init => Fresh
<1> SUFFICES ASSUME Init PROVE Fresh
  OBVIOUS
<1>1. \A r \in RowKey : rows[r] = None
  BY DEF Init, EmptyImage
<1>2. Len(ops) = 0
  BY DEF Init
<1> QED
  BY <1>1, <1>2 DEF Fresh, RowsCovered, RecordsCovered

LEMMA NextFresh == TypeOK /\ Fresh /\ [Next]_vars => Fresh'
<1> SUFFICES ASSUME TypeOK, Fresh, [Next]_vars PROVE Fresh'
  OBVIOUS
<1>1. ASSUME NEW s \in Session, Statement(s)
      PROVE  Fresh'
  <2>1. CASE \E tn \in TableName, sch \in Schema : CreateTable(s, tn, sch)
    BY <2>1, DdlFresh
  <2>2. CASE \E tn \in TableName : DropTable(s, tn)
    BY <2>2, DdlFresh
  <2>3. CASE \E tn \in TableName, i \in Id, v \in Val : Insert(s, tn, i, v)
    BY <2>3, InsertFresh
  <2>4. CASE \E tn \in TableName, v \in Val : InsertAuto(s, tn, v)
    BY <2>4, InsertFresh
  <2>5. CASE \E tn \in TableName, i \in Id : Delete(s, tn, i)
    BY <2>5, ReplaceFresh
  <2>6. CASE \E tn \in TableName, i \in Id, v \in Val : Update(s, tn, i, v)
    BY <2>6, ReplaceFresh
  <2>7. CASE \E d \in Db : UseDb(s, d)
    BY <2>7, QuietFresh DEF UseDb, store, txnVars, ghosts
  <2>8. CASE Begin(s)
    BY <2>8, QuietFresh DEF Begin, store
  <2> QED
    BY <1>1, <2>1, <2>2, <2>3, <2>4, <2>5, <2>6, <2>7, <2>8 DEF Statement
<1>2. CASE \E d \in Db : CreateDb(d) \/ DropDb(d)
  BY <1>2, DropDbFresh, QuietFresh DEF CreateDb, txnVars, ghosts
<1>3. CASE \E n \in SpName : Savepoint(n) \/ ReleaseSavepoint(n)
                             \/ StartRollbackTo(n)
  BY <1>3, QuietFresh DEF Savepoint, ReleaseSavepoint, StartRollbackTo, store, ghosts
<1>4. CASE StartRollback \/ FinishRollbackTo
  BY <1>4, QuietFresh DEF StartRollback, FinishRollbackTo, store, txnVars, ghosts
<1>5. CASE UndoStep \/ UndoStepTo
  BY <1>5, UndoFresh
<1>6. CASE Commit \/ Crash \/ FinishRollback
  BY <1>6, QuietFresh DEF Commit, Crash, FinishRollback, EndTxn, store
<1>7. CASE UNCHANGED vars
  BY <1>7, QuietFresh DEF vars
<1> QED
  BY <1>1, <1>2, <1>3, <1>4, <1>5, <1>6, <1>7 DEF Next, RollbackLoop

\* The id AUTO takes next is free in every table whose sequence was never set
\* back, whatever explicit ids, deletes, rollbacks and crashes came before.
THEOREM AutoIdCorrect == Spec => []AutoIdFresh
<1>1. Inv => TypeOK
  BY DEF Inv
<1>2. TypeOK /\ Fresh => AutoIdFresh
  <2> SUFFICES ASSUME TypeOK, Fresh, NEW t \in Tab \ lowered, NEW i \in Id, i > seq[t]
               PROVE  rows[<<t[1], t[2], i>>] = None
    BY DEF AutoIdFresh
  <2> DEFINE r == <<t[1], t[2], i>>
  <2>1. /\ r \in RowKey /\ <<r[1], r[2]>> = t /\ r[3] = i
        /\ i \in Int /\ seq[t] \in Nat
    BY ConstantAssumption DEF RowKey, Tab, Id, TypeOK
  <2>2. ~ Covered(r)
    BY <2>1 DEF Covered
  <2> HIDE DEF r
  <2> QED
    BY <2>1, <2>2 DEF Fresh, RowsCovered, r
<1> QED
  BY <1>1, <1>2, InitInv, NextInv, InitFresh, NextFresh, PTL DEF Spec
=============================================================================
