------------------------------ MODULE LockTable ------------------------------
(***************************************************************************)
(* The lock manager of src/mvcc.c: a hash table whose buckets are chains   *)
(* of LockEntry cells, one mutex, and callers that poll while their        *)
(* request conflicts.                                                      *)
(*                                                                         *)
(* Every critical section of lock_table.mutex is one step, except the loop *)
(* of mvcc_release_all_locks, which holds the mutex and takes one cell per *)
(* step.  The wait loop of mvcc_acquire_lock gives the mutex up between    *)
(* two looks, so a step is one look.  A cell is known by its address, and  *)
(* a freed address may be handed out again, because transactions keep raw  *)
(* pointers to cells.                                                      *)
(***************************************************************************)
EXTENDS Integers, Sequences, FiniteSets

CONSTANTS Txn,          \* transaction ids, each used once
          Resource,
          Bucket, Hash, \* hash_string(resource) % LOCK_TABLE_SIZE
          Mode,         \* the lock modes the clients ask for
          Addr,         \* bound: addresses of LockEntry cells
          MaxHeld,      \* bound: entries of one lock list
          Free          \* contents of a cell that is not allocated

SHARED == 1
EXCLUSIVE == 2
UPDATE == 3
SHARE_ROW_EXCLUSIVE == 4
ACCESS_EXCLUSIVE == 5
LockMode == SHARED .. ACCESS_EXCLUSIVE

LockEntry == [res : Resource, mode : LockMode, holder : Txn]
Request == [res : Resource, mode : Mode]

ASSUME LockAssumption ==
  /\ Hash \in [Resource -> Bucket]
  /\ Mode \subseteq LockMode
  /\ MaxHeld \in Nat
  /\ Free \notin LockEntry /\ Free \notin Request /\ Free \notin Txn

VARIABLES heap,     \* contents of each cell
          chain,    \* entries[]: each bucket's cells, head first
          held,     \* held_locks of each transaction
          status,   \* "new", "active", "ending", "done"
          waiting,  \* the request a transaction's thread is in, or Free
          mutex,    \* lock_table.mutex: its holder in the loop, or Free
          granted,  \* ghost: <<t, r>> where acquire succeeded and t has
                    \* neither released r nor ended
          early     \* ghost: transactions that called mvcc_release_lock

vars == <<heap, chain, held, status, waiting, mutex, granted, early>>

-----------------------------------------------------------------------------

ElementsOf(s) == {s[i] : i \in 1 .. Len(s)}
Live == UNION {ElementsOf(chain[b]) : b \in Bucket}
On(r) == {a \in ElementsOf(chain[Hash[r]]) : heap[a].res = r}
Unused == Addr \ Live

\* find_lock_entry: a is the first cell of the bucket's chain for r.
IsFirst(a, r) ==
  LET c == chain[Hash[r]] IN
  \E i \in 1 .. Len(c) :
    /\ c[i] = a /\ heap[a].res = r
    /\ \A j \in 1 .. i - 1 : heap[c[j]].res # r

\* locks_conflict
Compatible == {<<SHARED, SHARED>>, <<SHARED, UPDATE>>, <<UPDATE, SHARED>>}
Conflict(h, requested) == <<h, requested>> \notin Compatible

\* Unlinking cell i of a chain.
Unlink(c, i) == SubSeq(c, 1, i - 1) \o SubSeq(c, i + 1, Len(c))

-----------------------------------------------------------------------------

Init ==
  /\ heap = [a \in Addr |-> Free]
  /\ chain = [b \in Bucket |-> <<>>]
  /\ held = [t \in Txn |-> <<>>]
  /\ status = [t \in Txn |-> "new"]
  /\ waiting = [t \in Txn |-> Free]
  /\ mutex = Free
  /\ granted = {} /\ early = {}

\* mvcc_begin_transaction, as far as the lock list is concerned.
Begin(t) ==
  /\ status[t] = "new"
  /\ status' = [status EXCEPT ![t] = "active"]
  /\ UNCHANGED <<heap, chain, held, waiting, mutex, granted, early>>

\* The call of mvcc_acquire_lock (mvcc_upgrade_lock is the same call). The
\* bounds leave a cell for every waiting request.
Acquire(t, r, m) ==
  /\ status[t] = "active" /\ waiting[t] = Free
  /\ Len(held[t]) < MaxHeld
  /\ Cardinality(Unused) > Cardinality({u \in Txn : waiting[u] # Free})
  /\ waiting' = [waiting EXCEPT ![t] = [res |-> r, mode |-> m]]
  /\ UNCHANGED <<heap, chain, held, status, mutex, granted, early>>

\* acquire returns 0
Granted(t) ==
  /\ waiting' = [waiting EXCEPT ![t] = Free]
  /\ granted' = granted \cup {<<t, waiting[t].res>>}
  /\ UNCHANGED <<status, mutex, early>>

\* Mutant: the cell is not added to held_locks.
NewCellUnlisted(t, a) ==
  /\ heap' = [heap EXCEPT ![a] = [res |-> waiting[t].res,
                                  mode |-> waiting[t].mode, holder |-> t]]
  /\ UNCHANGED held

\* The cell of a granted request.
NewCell(t, a) ==
  /\ heap' = [heap EXCEPT ![a] = [res |-> waiting[t].res,
                                  mode |-> waiting[t].mode, holder |-> t]]
  /\ held' = [held EXCEPT ![t] = Append(@, a)]

\* No entry for the resource: a cell is put at the head of the bucket.
GrantNew(t) ==
  LET b == Hash[waiting[t].res] IN
  /\ On(waiting[t].res) = {}
  /\ \E a \in Unused :
       /\ NewCell(t, a)
       /\ chain' = [chain EXCEPT ![b] = <<a>> \o @]
  /\ Granted(t)

\* The first entry is the caller's own and its mode is not smaller.
GrantSufficient(t) ==
  /\ \E a \in On(waiting[t].res) :
       /\ IsFirst(a, waiting[t].res)
       /\ heap[a].holder = t /\ heap[a].mode >= waiting[t].mode
  /\ Granted(t)
  /\ UNCHANGED <<heap, chain, held>>

\* Mutant: an upgrade is not compared with the compatibility matrix.
GrantUpgradeUnchecked(t) ==
  /\ \E a \in On(waiting[t].res) :
       /\ IsFirst(a, waiting[t].res)
       /\ heap[a].holder = t /\ heap[a].mode < waiting[t].mode
       /\ heap' = [heap EXCEPT ![a].mode = waiting[t].mode]
  /\ Granted(t)
  /\ UNCHANGED <<chain, held>>

\* The first entry is the caller's own and can be raised.
GrantUpgrade(t) ==
  /\ \E a \in On(waiting[t].res) :
       /\ IsFirst(a, waiting[t].res)
       /\ heap[a].holder = t /\ heap[a].mode < waiting[t].mode
       /\ ~ Conflict(heap[a].mode, waiting[t].mode)
       /\ heap' = [heap EXCEPT ![a].mode = waiting[t].mode]
  /\ Granted(t)
  /\ UNCHANGED <<chain, held>>

\* The first entry is another's and compatible: a cell is put at the tail.
GrantShared(t) ==
  LET b == Hash[waiting[t].res] IN
  /\ \E a \in On(waiting[t].res) :
       /\ IsFirst(a, waiting[t].res)
       /\ heap[a].holder # t
       /\ ~ Conflict(heap[a].mode, waiting[t].mode)
  /\ \E a \in Unused :
       /\ NewCell(t, a)
       /\ chain' = [chain EXCEPT ![b] = Append(@, a)]
  /\ Granted(t)

\* Mutant: a request that its own entry blocks never times out.
TimeoutOthersOnly(t) ==
  /\ \E a \in On(waiting[t].res) :
       /\ IsFirst(a, waiting[t].res)
       /\ heap[a].holder # t
       /\ Conflict(heap[a].mode, waiting[t].mode)
  /\ waiting' = [waiting EXCEPT ![t] = Free]
  /\ UNCHANGED <<heap, chain, held, status, mutex, granted, early>>

\* The first entry conflicts and LOCK_TIMEOUT_MS have passed.
Timeout(t) ==
  /\ \E a \in On(waiting[t].res) :
       /\ IsFirst(a, waiting[t].res)
       /\ heap[a].holder = t => heap[a].mode < waiting[t].mode
       /\ Conflict(heap[a].mode, waiting[t].mode)
  /\ waiting' = [waiting EXCEPT ![t] = Free]
  /\ UNCHANGED <<heap, chain, held, status, mutex, granted, early>>

\* One look of the wait loop that ends it. A look that finds a conflict
\* before the timeout changes nothing.
Look(t) ==
  /\ waiting[t] # Free /\ mutex = Free
  /\ \/ GrantNew(t) \/ GrantSufficient(t) \/ GrantUpgrade(t)
     \/ GrantShared(t) \/ Timeout(t)

\* Mutant: the head of a chain is freed but not unlinked.
ReleaseLockKeepsHead(t, r) ==
  LET c == chain[Hash[r]]
      Mine(i) == heap[c[i]].res = r /\ heap[c[i]].holder = t IN
  /\ waiting[t] = Free /\ mutex = Free
  /\ \E i \in 1 .. Len(c) :
       /\ Mine(i) /\ \A j \in 1 .. i - 1 : ~ Mine(j)
       /\ chain' = IF i = 1 THEN chain
                   ELSE [chain EXCEPT ![Hash[r]] = Unlink(c, i)]
       /\ heap' = [heap EXCEPT ![c[i]] = Free]
  /\ granted' = granted \ {<<t, r>>}
  /\ early' = early \cup {t}
  /\ UNCHANGED <<held, status, waiting, mutex>>

\* mvcc_release_lock unlinks and frees the first entry of t on r. The
\* pointer stays in held_locks.
ReleaseLock(t, r) ==
  LET c == chain[Hash[r]]
      Mine(i) == heap[c[i]].res = r /\ heap[c[i]].holder = t IN
  /\ waiting[t] = Free /\ mutex = Free
  /\ \E i \in 1 .. Len(c) :
       /\ Mine(i) /\ \A j \in 1 .. i - 1 : ~ Mine(j)
       /\ chain' = [chain EXCEPT ![Hash[r]] = Unlink(c, i)]
       /\ heap' = [heap EXCEPT ![c[i]] = Free]
  /\ granted' = granted \ {<<t, r>>}
  /\ early' = early \cup {t}
  /\ UNCHANGED <<held, status, waiting, mutex>>

\* mvcc_commit_transaction or mvcc_abort_transaction enters
\* mvcc_release_all_locks.
StartEnd(t) ==
  /\ status[t] = "active" /\ waiting[t] = Free /\ mutex = Free
  /\ mutex' = t
  /\ status' = [status EXCEPT ![t] = "ending"]
  /\ granted' = {g \in granted : g[1] # t}
  /\ UNCHANGED <<heap, chain, held, waiting, early>>

\* Mutant: the first entry of the held cell's resource is unlinked instead.
ReleaseNextByResource(t) ==
  LET a == Head(held[t]) IN
  /\ mutex = t /\ held[t] # <<>>
  /\ held' = [held EXCEPT ![t] = Tail(@)]
  /\ IF a \in Live
     THEN \E b \in Bucket : \E i \in 1 .. Len(chain[b]) :
            /\ IsFirst(chain[b][i], heap[a].res)
            /\ chain' = [chain EXCEPT ![b] = Unlink(chain[b], i)]
            /\ heap' = [heap EXCEPT ![chain[b][i]] = Free]
     ELSE UNCHANGED <<heap, chain>>
  /\ UNCHANGED <<status, waiting, mutex, granted, early>>

\* The next address of held_locks. It is unlinked and freed if some chain
\* has it, whoever holds that cell now; a freed cell that was not handed out
\* again is in no chain.
ReleaseNext(t) ==
  LET a == Head(held[t]) IN
  /\ mutex = t /\ held[t] # <<>>
  /\ held' = [held EXCEPT ![t] = Tail(@)]
  /\ IF a \in Live
     THEN \E b \in Bucket : \E i \in 1 .. Len(chain[b]) :
            /\ chain[b][i] = a
            /\ chain' = [chain EXCEPT ![b] = Unlink(chain[b], i)]
            /\ heap' = [heap EXCEPT ![a] = Free]
     ELSE UNCHANGED <<heap, chain>>
  /\ UNCHANGED <<status, waiting, mutex, granted, early>>

\* The loop is over and the transaction leaves active_txns.
FinishEnd(t) ==
  /\ mutex = t /\ held[t] = <<>>
  /\ mutex' = Free
  /\ status' = [status EXCEPT ![t] = "done"]
  /\ UNCHANGED <<heap, chain, held, waiting, granted, early>>

Step(t) ==
  \/ Begin(t)
  \/ \E r \in Resource, m \in Mode : Acquire(t, r, m)
  \/ Look(t)
  \/ \E r \in Resource : ReleaseLock(t, r)
  \/ StartEnd(t) \/ ReleaseNext(t) \/ FinishEnd(t)

Next == \E t \in Txn : Step(t)

Spec == Init /\ [][Next]_vars

\* A waiting thread looks again every millisecond and time passes; a thread
\* in the release loop goes on. The mutex is taken once per transaction for
\* the loop, so weak fairness is enough for a look to get it.
FairSpec ==
  /\ Spec
  /\ \A t \in Txn : WF_vars(Look(t)) /\ WF_vars(ReleaseNext(t) \/ FinishEnd(t))

-----------------------------------------------------------------------------
(* Properties. *)

\* Types of the table, the chains and the lock lists.
TypeOK ==
  /\ heap \in [Addr -> LockEntry \cup {Free}]
  /\ chain \in [Bucket -> Seq(Addr)]
  /\ held \in [Txn -> Seq(Addr)]
  /\ status \in [Txn -> {"new", "active", "ending", "done"}]
  /\ waiting \in [Txn -> Request \cup {Free}]
  /\ mutex \in Txn \cup {Free}
  /\ granted \subseteq Txn \X Resource /\ early \subseteq Txn

\* The chains hold allocated cells only, each once and in its own bucket: no
\* walk of a chain touches freed memory.
ChainsSound ==
  \A b \in Bucket : \A i \in 1 .. Len(chain[b]) :
    /\ heap[chain[b][i]] # Free
    /\ Hash[heap[chain[b][i]].res] = b
    /\ \A j \in 1 .. Len(chain[b]) : chain[b][i] = chain[b][j] => i = j

\* An EXCLUSIVE, SHARE_ROW_EXCLUSIVE or ACCESS_EXCLUSIVE entry is the only
\* one of its resource, although a request is compared with the first entry
\* alone.
ExclusiveEntryAlone ==
  \A r \in Resource : \A a, b \in On(r) :
     heap[a].mode \notin {SHARED, UPDATE} => a = b

\* A lock that was granted stays in the table until its holder releases it
\* or ends: strict two-phase locking. mvcc_release_lock leaves a pointer to
\* the freed cell in the caller's list, so this is so only until a
\* transaction that has called it ends.
GrantedLocksKept ==
  (\A t \in early : status[t] = "active") =>
  \A g \in granted : \E a \in On(g[2]) : heap[a].holder = g[1]

\* Every entry belongs to a transaction that has not ended and has it in its
\* lock list, so no entry outlives its transaction.
NoOrphanLocks ==
  \A a \in Live : /\ status[heap[a].holder] \in {"active", "ending"}
                  /\ a \in ElementsOf(held[heap[a].holder])

\* A waiting request is granted or times out.
RequestAnswered == \A t \in Txn : waiting[t] # Free ~> waiting[t] = Free

\* Two transactions' entries on one resource are compatible by the "Lock
\* compatibility matrix".
HoldersCompatible ==
  \A r \in Resource : \A a, b \in On(r) :
     heap[a].holder # heap[b].holder => ~ Conflict(heap[a].mode, heap[b].mode)
=============================================================================
