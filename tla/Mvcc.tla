-------------------------------- MODULE Mvcc --------------------------------
(***************************************************************************)
(* Transactions, snapshots and row versions of src/mvcc.c.                 *)
(*                                                                         *)
(* Beginning a transaction is three critical sections (txn_id_lock,        *)
(* active_lock for reading, active_lock for writing) and ending it is      *)
(* several more, so each is a step of its own and the steps of different   *)
(* transactions interleave.  A transaction is driven by one thread.  No    *)
(* caller of the API is part of the repository: a caller is taken to write *)
(* only between begin and end, to keep a row's versions in one list and to *)
(* delete a version that it sees and that is not marked deleted yet.       *)
(***************************************************************************)
EXTENDS Integers, Sequences, FiniteSets

CONSTANTS MaxTxn,      \* bound: transaction ids handed out
          MaxActive,   \* MAX_ACTIVE_TRANSACTIONS
          Level,       \* the isolation levels the callers ask for
          Row,
          MaxVersions, \* bound: versions of one row
          None

READ_UNCOMMITTED == 0
READ_COMMITTED == 1
REPEATABLE_READ == 2
SERIALIZABLE == 3

Txn == 1 .. MaxTxn
Place == 1 .. MaxActive
Snapshot == [xmin : Nat, xmax : Nat, active : SUBSET Txn]
RowVersion == [created_by : Txn, deleted_by : Txn \cup {0}]

\* Where a transaction is. "numbered" and "snapped" are inside
\* mvcc_begin_transaction; "lost" is one for which active_txns had no room;
\* "committing" and "aborting" are inside commit and abort;
\* "gone" is a transaction that has left the table.
Phase == {"unborn", "numbered", "snapped", "open", "lost", "prepared",
          "committing", "aborting", "gone"}

ASSUME MvccAssumption ==
  /\ MaxTxn \in Nat /\ MaxActive \in Nat /\ MaxVersions \in Nat
  /\ Level \subseteq READ_UNCOMMITTED .. SERIALIZABLE
  /\ None \notin Snapshot

VARIABLES nextId,      \* next_txn_id
          phase,       \* of each transaction
          isolation,
          active,      \* active_txns: the id in each place, 0 for NULL
          activeCount, \* active_count
          snapshot,    \* of each transaction, None for NULL
          commitLog,   \* the ids in commit_log
          versions,    \* the versions of each row, oldest first
          at           \* ghost: everyone's standing when the snapshot was taken

vars == <<nextId, phase, isolation, active, activeCount, snapshot, commitLog,
          versions, at>>

-----------------------------------------------------------------------------

\* mvcc_get_transaction finds it.
Registered(t) == \E p \in Place : active[p] = t

\* state = TXN_STATE_ACTIVE
IsActive(t) == phase[t] \in {"numbered", "snapped", "open", "lost"}

\* mvcc_is_visible
IsVisible(c, snap) ==
  \/ snap = None
  \/ c < snap.xmin
  \/ c < snap.xmax /\ c \notin snap.active

\* Mutant: a version anyone has deleted is invisible.
VersionVisibleLatest(v, t) ==
  IF v.created_by = t THEN v.deleted_by # t
  ELSE IsVisible(v.created_by, snapshot[t]) /\ v.deleted_by = 0

\* mvcc_version_visible, for a reader that is registered.
VersionVisible(v, t) ==
  IF v.created_by = t THEN v.deleted_by # t
  ELSE /\ IsVisible(v.created_by, snapshot[t])
       /\ v.deleted_by # 0 => ~ IsVisible(v.deleted_by, snapshot[t])

\* The places of the versions of row r that t may see.
Seen(r, t) ==
  {i \in 1 .. Len(versions[r]) : VersionVisible(versions[r][i], t)}

Newest(S) == IF S = {} THEN 0 ELSE CHOOSE i \in S : \A j \in S : j <= i

\* mvcc_get_visible_version: the newest visible version, 0 for NULL.
VisibleVersion(r, t) == Newest(Seen(r, t))

-----------------------------------------------------------------------------

Init ==
  /\ nextId = 1
  /\ phase = [t \in Txn |-> "unborn"]
  /\ isolation = [t \in Txn |-> READ_UNCOMMITTED]
  /\ active = [p \in Place |-> 0] /\ activeCount = 0
  /\ snapshot = [t \in Txn |-> None]
  /\ commitLog = {}
  /\ versions = [r \in Row |-> <<>>]
  /\ at = [t \in Txn |-> None]

Move(t, p) == phase' = [phase EXCEPT ![t] = p]

\* generate_txn_id and the isolation level of a new descriptor.
BeginNumber(level) ==
  /\ nextId \in Txn
  /\ nextId' = nextId + 1
  /\ Move(nextId, "numbered")
  /\ isolation' = [isolation EXCEPT ![nextId] = level]
  /\ UNCHANGED <<active, activeCount, snapshot, commitLog, versions, at>>

\* The ids of the registered transactions whose state is ACTIVE, t excepted.
Others(t) == {c \in Txn \ {t} : Registered(c) /\ IsActive(c)}

\* Mutant: xmin is the youngest active id instead of the oldest.
TakeSnapshotYoungest(t) ==
  [xmin   |-> IF Others(t) = {} THEN nextId
              ELSE CHOOSE c \in Others(t) : \A d \in Others(t) : d <= c,
   xmax   |-> nextId,
   active |-> Others(t)]

\* mvcc_take_snapshot
TakeSnapshot(t) ==
  [xmin   |-> IF Others(t) = {} THEN nextId
              ELSE CHOOSE c \in Others(t) : \A d \in Others(t) : c <= d,
   xmax   |-> nextId,
   active |-> Others(t)]

\* What a transaction may still do: it is unborn or in the table and ACTIVE,
\* it has an id but no place in the table, or it writes no more.
Standing(c) ==
  CASE phase[c] \in {"unborn", "open"} -> "live"
    [] phase[c] \in {"numbered", "snapped", "lost"} -> "unlisted"
    [] OTHER -> "ended"

\* From REPEATABLE READ on, the snapshot is taken before registering.
BeginSnapshot(t) ==
  /\ phase[t] = "numbered"
  /\ IF isolation[t] >= REPEATABLE_READ
     THEN /\ snapshot' = [snapshot EXCEPT ![t] = TakeSnapshot(t)]
          /\ at' = [at EXCEPT ![t] = [c \in Txn |-> Standing(c)]]
     ELSE UNCHANGED <<snapshot, at>>
  /\ Move(t, "snapped")
  /\ UNCHANGED <<nextId, isolation, active, activeCount, commitLog, versions>>

\* The first free place, if there is one; the id is returned either way.
BeginRegister(t) ==
  LET free == {p \in Place : active[p] = 0} IN
  /\ phase[t] = "snapped"
  /\ IF free = {}
     THEN Move(t, "lost") /\ UNCHANGED <<active, activeCount>>
     ELSE /\ active' = [active EXCEPT
               ![CHOOSE p \in free : \A q \in free : p <= q] = t]
          /\ activeCount' = activeCount + 1
          /\ Move(t, "open")
  /\ UNCHANGED <<nextId, isolation, snapshot, commitLog, versions, at>>

\* mvcc_create_version, linked to the row's list by the caller. It takes the
\* id as it is: also one that is not registered.
CreateVersion(t, r) ==
  /\ phase[t] \in {"open", "lost"}
  /\ Len(versions[r]) < MaxVersions
  /\ versions' = [versions EXCEPT
       ![r] = Append(@, [created_by |-> t, deleted_by |-> 0])]
  /\ UNCHANGED <<nextId, phase, isolation, active, activeCount, snapshot,
                 commitLog, at>>

\* mvcc_mark_deleted on the version mvcc_get_visible_version returned.
MarkDeleted(t, r) ==
  LET i == VisibleVersion(r, t) IN
  /\ phase[t] = "open"
  /\ i # 0 /\ versions[r][i].deleted_by = 0
  /\ versions' = [versions EXCEPT ![r][i].deleted_by = t]
  /\ UNCHANGED <<nextId, phase, isolation, active, activeCount, snapshot,
                 commitLog, at>>

\* mvcc_2pc_prepare: the state becomes PREPARING, from which
\* mvcc_commit_transaction only returns an error.
Prepare(t) ==
  /\ phase[t] = "open"
  /\ Move(t, "prepared")
  /\ UNCHANGED <<nextId, isolation, active, activeCount, snapshot, commitLog,
                 versions, at>>

\* mvcc_commit_transaction up to the release of the locks: COMMITTING, and
\* the entry in the commit log, which nothing reads. The conflict checks of
\* SERIALIZABLE look at nothing and find no conflict.
CommitStart(t) ==
  /\ phase[t] = "open"
  /\ Move(t, "committing")
  /\ commitLog' = commitLog \cup {t}
  /\ UNCHANGED <<nextId, isolation, active, activeCount, snapshot, versions,
                 at>>

\* mvcc_abort_transaction: the undo loop is empty.
AbortStart(t) ==
  /\ phase[t] \in {"open", "prepared"}
  /\ Move(t, "aborting")
  /\ UNCHANGED <<nextId, isolation, active, activeCount, snapshot, commitLog,
                 versions, at>>

\* Mutant: active_count is decremented for an abort only.
UnregisterAbortCount(t) ==
  /\ phase[t] \in {"committing", "aborting"}
  /\ active' = [p \in Place |-> IF active[p] = t THEN 0 ELSE active[p]]
  /\ activeCount' = IF phase[t] = "aborting" THEN activeCount - 1 ELSE activeCount
  /\ snapshot' = [snapshot EXCEPT ![t] = None]
  /\ at' = [at EXCEPT ![t] = None]
  /\ Move(t, "gone")
  /\ isolation' = [isolation EXCEPT ![t] = READ_UNCOMMITTED]
  /\ UNCHANGED <<nextId, commitLog, versions>>

\* The end of commit (the state is COMMITTED then, which no snapshot tells
\* from COMMITTING) and of abort: the place is cleared, the descriptor freed.
Unregister(t) ==
  /\ phase[t] \in {"committing", "aborting"}
  /\ active' = [p \in Place |-> IF active[p] = t THEN 0 ELSE active[p]]
  /\ activeCount' = activeCount - 1
  /\ snapshot' = [snapshot EXCEPT ![t] = None]
  /\ at' = [at EXCEPT ![t] = None]
  /\ Move(t, "gone")
  /\ isolation' = [isolation EXCEPT ![t] = READ_UNCOMMITTED]
  /\ UNCHANGED <<nextId, commitLog, versions>>

Step(t) ==
  \/ BeginSnapshot(t) \/ BeginRegister(t)
  \/ \E r \in Row : CreateVersion(t, r) \/ MarkDeleted(t, r)
  \/ Prepare(t)
  \/ CommitStart(t)
  \/ AbortStart(t) \/ Unregister(t)

Next == (\E level \in Level : BeginNumber(level)) \/ (\E t \in Txn : Step(t))

Spec == Init /\ [][Next]_vars

-----------------------------------------------------------------------------
(* Properties. *)

\* Types of the MVCC manager, its descriptors and the versions.
TypeOK ==
  /\ nextId \in 1 .. MaxTxn + 1
  /\ phase \in [Txn -> Phase]
  /\ isolation \in [Txn -> READ_UNCOMMITTED .. SERIALIZABLE]
  /\ active \in [Place -> Txn \cup {0}] /\ activeCount \in Nat
  /\ snapshot \in [Txn -> Snapshot \cup {None}]
  /\ commitLog \subseteq Txn
  /\ versions \in [Row -> Seq(RowVersion)]
  /\ at \in [Txn -> [Txn -> {"live", "unlisted", "ended"}] \cup {None}]

\* active_count is the number of occupied places, no transaction has two of
\* them, and exactly the transactions between the end of begin and the end
\* of commit or abort have one: mvcc_take_snapshot allocates active_count
\* ids and writes one for every active transaction it meets.
TableCounted ==
  /\ activeCount = Cardinality({p \in Place : active[p] # 0})
  /\ \A p, q \in Place : active[p] = active[q] /\ active[p] # 0 => p = q
  /\ \A t \in Txn : Registered(t) <=>
       phase[t] \in {"open", "prepared", "committing", "aborting"}

\* What a snapshot shows is settled when it is taken: a transaction is
\* hidden for ever exactly if it was then unborn, or in the table and ACTIVE,
\* although ids below xmin and from xmax on are never looked up.
SnapshotExact ==
  \A t, c \in Txn :
    snapshot[t] # None /\ c # t =>
      (IsVisible(c, snapshot[t]) <=> at[t][c] # "live")

\* No transaction was on its way into the table, or without a place in it,
\* when t took its snapshot.
CleanSnapshot(t) ==
  \A c \in Txn \ {t} : at[t][c] # "unlisted"

\* The versions of row r that t made, and those it deleted.
Own(t, r) ==
  LET range == 1 .. Len(versions[r]) IN
  << {i \in range : versions[r][i].created_by = t},
     {i \in range : versions[r][i].deleted_by = t} >>

\* A step that is not a write of t to row r leaves what t sees of r alone.
ReadsRepeat ==
  \A t \in Txn : \A r \in Row :
    /\ snapshot[t] # None /\ snapshot'[t] # None
    /\ phase[t] = "open"
    /\ CleanSnapshot(t)
    /\ Own(t, r) = Own(t, r)'
    => VisibleVersion(r, t) = VisibleVersion(r, t)'

\* Between two reads of a transaction with a clean snapshot, the version it
\* sees of a row changes by its own writes only, whatever others write,
\* delete, commit or abort meanwhile.
RepeatableRead == [][ReadsRepeat]_vars

=============================================================================
