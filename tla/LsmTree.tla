------------------------------ MODULE LsmTree ------------------------------
(***************************************************************************)
(* The LSM engine of src/storage_engine.c: an AVL memtable, sorted tables  *)
(* with Bloom filters, a write-ahead log, and the engine manager in front. *)
(* A flush takes three steps (write the table, swap the memtable, truncate *)
(* the log), so that the process can die between any two of them.          *)
(***************************************************************************)
EXTENDS Integers, Sequences

CONSTANTS LsmKey,          \* keys, as integers in strcmp order
          LsmVal,
          MEMTABLE_SIZE,   \* in puts: every put adds to size, none subtracts
          BloomBits, h1, h2,  \* bits of a filter, bloom_hash1 and bloom_hash2
          MaxTables, MaxPuts  \* bounds: tables written, log records

VARIABLES engine,   \* StorageEngine.type
          mem,      \* memtable->root
          count,    \* memtable->count, and size counted in puts
          level0,   \* levels[0].tables, oldest first: file number, filter
          next_sstable_id,
          wal,      \* contents of wal.log
          disk,     \* file number -> contents of level0_<n>.sst
          flushing, \* which step of lsm_flush_memtable comes next
          kv        \* ghost: what this process was asked to hold

lvars == <<engine, mem, count, level0, next_sstable_id, wal, disk, flushing, kv>>

Absent == "absent"
ASSUME LsmAssumption == LsmKey \subseteq Int /\ Absent \notin LsmVal

Nil == [key |-> 0, height |-> 0]
\* A tombstone has no value of interest.
LSMEntry == [value : LsmVal \cup {Absent}, deleted : BOOLEAN]

-----------------------------------------------------------------------------
(* The memtable. *)

Taller(l, r) == 1 + (IF l.height > r.height THEN l.height ELSE r.height)
MemNode(k, e, l, r) ==
  [key |-> k, entry |-> e, left |-> l, right |-> r, height |-> Taller(l, r)]
avl_balance(n) == n.left.height - n.right.height

avl_rotate_right(y) ==
  LET x == y.left IN MemNode(x.key, x.entry, x.left, MemNode(y.key, y.entry, x.right, y.right))
avl_rotate_left(x) ==
  LET y == x.right IN MemNode(y.key, y.entry, MemNode(x.key, x.entry, x.left, y.left), y.right)

\* The four cases of the rebalancing after k went in below n.
Rebalance(n, k) ==
  IF avl_balance(n) > 1 /\ k < n.left.key THEN avl_rotate_right(n)
  ELSE IF avl_balance(n) < -1 /\ k > n.right.key THEN avl_rotate_left(n)
  ELSE IF avl_balance(n) > 1 /\ k > n.left.key
       THEN avl_rotate_right([n EXCEPT !.left = avl_rotate_left(n.left)])
  ELSE IF avl_balance(n) < -1 /\ k < n.right.key
       THEN avl_rotate_left([n EXCEPT !.right = avl_rotate_right(n.right)])
  ELSE n

\* The recursions for a key go down one path, to its node or below a leaf.
Below(x, k) == IF x = Nil \/ k = x.key THEN x ELSE IF k < x.key THEN x.left ELSE x.right
Path(n, k) == LET at[i \in 0 .. n.height] == IF i = 0 THEN n ELSE Below(at[i - 1], k) IN at

memtable_find_node(n, k) ==
  LET x == Path(n, k)[n.height] IN IF x = Nil THEN {} ELSE {x.entry}

\* On the way back every node of the path gets its new child and is rebalanced.
Back(x, child, k, e) ==
  IF x = Nil THEN MemNode(k, e, Nil, Nil)
  ELSE IF k = x.key THEN [x EXCEPT !.entry = e]
  ELSE IF k < x.key THEN Rebalance(MemNode(x.key, x.entry, child, x.right), k)
       ELSE Rebalance(MemNode(x.key, x.entry, x.left, child), k)
memtable_insert_node(n, k, e) ==
  LET path == Path(n, k)
      back[h \in 0 .. n.height] ==
        Back(path[n.height - h], IF h = 0 THEN Nil ELSE back[h - 1], k, e)
  IN  back[n.height]

\* sstable_write_node, in order: what the calls at most h deep write of a subtree.
Subtrees(n) ==
  LET level[i \in 0 .. n.height] ==
        IF i = 0 THEN {n} ELSE UNION {{x.left, x.right} : x \in level[i - 1] \ {Nil}}
  IN  UNION {level[i] : i \in 0 .. n.height}
sstable_write_node(n) ==
  LET write[h \in 0 .. n.height] ==
        [x \in Subtrees(n) |->
           IF x = Nil \/ h = 0 THEN <<>>
           ELSE write[h - 1][x.left] \o <<[key |-> x.key, entry |-> x.entry]>> \o write[h - 1][x.right]]
  IN  write[n.height][n]

-----------------------------------------------------------------------------
(* Bloom filters and sorted tables. *)

bloom_idx(k) == {(h1[k] + i * h2[k]) % BloomBits : i \in 0 .. 3}
(* Mutant: only the first of the bits is set. *)
bloom_addFirst(filter, k) == filter \cup {h1[k] % BloomBits}
bloom_add(filter, k) == filter \cup bloom_idx(k)
bloom_may_contain(filter, k) == bloom_idx(k) \subseteq filter

sstable_write(n) ==
  LET file == sstable_write_node(n)
  IN  [file |-> file, bloom |-> UNION {bloom_add({}, file[i].key) : i \in DOMAIN file}]

\* The first record of the file with this key.
sstable_get(file, k) ==
  {file[i].entry : i \in {i \in DOMAIN file : /\ file[i].key = k
                                              /\ \A j \in 1 .. i - 1 : file[j].key # k}}

Answer(e) == IF e.deleted THEN Absent ELSE e.value
Only(hit) == CHOOSE e \in hit : TRUE
Newest(hits) == CHOOSE i \in hits : \A j \in hits : j <= i

\* Newest table first; a filter that excludes the key skips its table.
TableHit(i, k) ==
  IF bloom_may_contain(level0[i].bloom, k) THEN sstable_get(disk[level0[i].id], k) ELSE {}
SearchLevel(k) ==
  LET hits == {i \in DOMAIN level0 : TableHit(i, k) # {}}
  IN  IF hits = {} THEN Absent ELSE Answer(Only(TableHit(Newest(hits), k)))

lsm_get(k) ==
  LET hit == memtable_find_node(mem, k)
  IN  IF hit # {} THEN Answer(Only(hit)) ELSE SearchLevel(k)

-----------------------------------------------------------------------------
(* The tree. *)

\* lsm_create: the log is opened to append and never read, and no table of an
\* earlier process is listed.
LsmInit ==
  /\ engine \in {"row", "column", "lsm"}
  /\ mem = Nil /\ count = 0 /\ level0 = <<>> /\ next_sstable_id = 1
  /\ wal = <<>> /\ disk = <<>> /\ flushing = "no"
  /\ kv = [k \in LsmKey |-> Absent]

memtable_put(k, v) ==
  /\ mem' = memtable_insert_node(mem, k, [value |-> v, deleted |-> FALSE])
  /\ count' = count + 1
memtable_delete(k) ==
  /\ mem' = memtable_insert_node(mem, k, [value |-> Absent, deleted |-> TRUE])
  /\ UNCHANGED count

lsm_put(k, v) ==
  /\ flushing = "no" /\ Len(wal) < MaxPuts /\ Len(disk) < MaxTables
  /\ wal' = Append(wal, [key |-> k, value |-> v])
  /\ memtable_put(k, v)
  /\ flushing' = IF count + 1 >= MEMTABLE_SIZE THEN "write" ELSE "no"
  /\ kv' = [kv EXCEPT ![k] = v]
  /\ UNCHANGED <<engine, level0, next_sstable_id, disk>>

\* A tombstone goes into the memtable only: neither logged nor counted.
lsm_delete(k) ==
  /\ flushing = "no"
  /\ memtable_delete(k)
  /\ kv' = [kv EXCEPT ![k] = Absent]
  /\ UNCHANGED <<engine, level0, next_sstable_id, wal, disk, flushing>>

PutFile(d, id, f) == IF id > Len(d) THEN Append(d, f) ELSE [d EXCEPT ![id] = f]

\* The table's file is written and listed, or cannot be opened: then the
\* number is used up and the memtable stays.
FlushWrite ==
  /\ flushing = "write"
  /\ next_sstable_id' = next_sstable_id + 1
  /\ \/ LET t == sstable_write(mem)
        IN  /\ disk' = PutFile(disk, next_sstable_id, t.file)
            /\ level0' = Append(level0, [id |-> next_sstable_id, bloom |-> t.bloom])
            /\ flushing' = "swap"
     \/ /\ disk' = IF next_sstable_id > Len(disk) THEN Append(disk, <<>>) ELSE disk
        /\ flushing' = "no"
        /\ UNCHANGED level0
  /\ UNCHANGED <<engine, mem, count, wal, kv>>

FlushSwap ==
  /\ flushing = "swap"
  /\ mem' = Nil /\ count' = 0 /\ flushing' = "truncate"
  /\ UNCHANGED <<engine, level0, next_sstable_id, wal, disk, kv>>

FlushTruncate ==
  /\ flushing = "truncate"
  /\ wal' = <<>> /\ flushing' = "no"
  /\ UNCHANGED <<engine, mem, count, level0, next_sstable_id, disk, kv>>

\* The process ends, in order (lsm_close flushed first) or by dying, and
\* lsm_create starts over.
Reopen ==
  /\ wal # <<>> \/ disk # <<>>
  /\ mem' = Nil /\ count' = 0 /\ level0' = <<>> /\ next_sstable_id' = 1
  /\ flushing' = "no" /\ kv' = [k \in LsmKey |-> Absent]
  /\ UNCHANGED <<engine, wal, disk>>

\* lsm_close flushes a memtable with at least one put in it.
lsm_close == /\ flushing = "no" /\ count > 0 /\ Len(disk) < MaxTables
             /\ flushing' = "write"
             /\ UNCHANGED <<engine, mem, count, level0, next_sstable_id, wal, disk, kv>>

\* The engine manager hands on to the tree; the row and column engines
\* acknowledge and do nothing.
storage_engine_put(k, v) == IF engine = "lsm" THEN lsm_put(k, v) ELSE UNCHANGED lvars
storage_engine_get(k) == IF engine = "lsm" THEN lsm_get(k) ELSE kv[k]
storage_engine_delete(k) == IF engine = "lsm" THEN lsm_delete(k) ELSE UNCHANGED lvars
storage_engine_close == engine = "lsm" /\ lsm_close

LsmNext == \/ \E k \in LsmKey, v \in LsmVal : storage_engine_put(k, v)
           \/ \E k \in LsmKey : storage_engine_delete(k)
           \/ FlushWrite \/ FlushSwap \/ FlushTruncate
           \/ storage_engine_close \/ Reopen

-----------------------------------------------------------------------------

\* The value the files hold for k: the last log record, or the newest table.
LogValue(k) ==
  {wal[i].value : i \in {i \in DOMAIN wal : /\ wal[i].key = k
                                            /\ \A j \in i + 1 .. Len(wal) : wal[j].key # k}}
TableValue(k) ==
  LET hits == {i \in DOMAIN level0 : sstable_get(disk[level0[i].id], k) # {}}
  IN  IF hits = {} THEN {} ELSE {e.value : e \in sstable_get(disk[level0[Newest(hits)].id], k)}

(* A lookup answers what this process last stored or deleted, whatever the
   rotations of the memtable, the flushes and the filters did to the way
   there, at every step of a flush; and a value put by this process is on disk
   all along: in the log until its table is complete, in a table before the
   log is truncated. *)
LsmReadsLastWrite ==
  \A k \in LsmKey : /\ storage_engine_get(k) = kv[k]
                    /\ kv[k] # Absent => kv[k] \in LogValue(k) \cup TableValue(k)
=============================================================================
