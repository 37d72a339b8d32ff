------------------------------ MODULE SafeMem ------------------------------
(***************************************************************************)
(* Checked allocation, src/safe_mem.c: a table of allocation records that  *)
(* grows, is compacted at its limit and then refuses, a byte counter and a *)
(* quota, one mutex.  safe_realloc_impl takes the mutex three times: it    *)
(* looks the old block up, allocates, and frees.  malloc hands out any     *)
(* address that is free.  The guard bytes of SAFE_MEM_DEBUG builds are not *)
(* modelled.                                                               *)
(***************************************************************************)
EXTENDS Integers, Sequences, FiniteSets, Functions

CONSTANTS MemThread, MemAddr, Sizes, MemQuota,
          InitialRecords,        \* record_capacity at the start
          SAFE_MEM_MAX_TRACKED,
          Content                \* what a client writes into a block

VARIABLES records,        \* AllocationRecord: address, size, freed
          record_capacity,
          current_bytes,
          cells,          \* the heap: address -> size and content, or None
          owner,          \* address -> the thread that may use it
          pending,        \* a thread inside safe_realloc_impl: old block, sizes
          untracked,      \* ghost: bytes of allocations that got no record
          known           \* ghost: address -> its allocation has a record

svars == <<records, record_capacity, current_bytes, cells, owner, pending, untracked, known>>

CONSTANT None

ASSUME SafeMemAssumption ==
  /\ IsFiniteSet(MemAddr) /\ None \notin MemAddr /\ None \notin MemThread
  /\ Sizes \subseteq Nat \ {0}
  /\ \A n \in Sizes, c \in Content \cup {None} : None # [size |-> n, content |-> c]

NotIn == [old |-> None]

safe_mem_init ==
  /\ records = <<>> /\ record_capacity = InitialRecords /\ current_bytes = 0
  /\ cells = [a \in MemAddr |-> None] /\ owner = [a \in MemAddr |-> None]
  /\ pending = [t \in MemThread |-> NotIn]
  /\ untracked = 0 /\ known = [a \in MemAddr |-> FALSE]

-----------------------------------------------------------------------------

\* The loop of add_record that moves the records in use to the front.
Unfreed(rs) ==
  LET kept[i \in 0 .. Len(rs)] ==
        IF i = 0 THEN <<>> ELSE IF rs[i].freed THEN kept[i - 1] ELSE Append(kept[i - 1], rs[i])
  IN  kept[Len(rs)]

\* add_record: the table it leaves and whether the allocation is in it.  When
\* the table is full realloc may grow it or fail.
add_record(a, n, grown) ==
  LET rec == [ptr |-> a, size |-> n, freed |-> FALSE]
      full == Len(records) >= record_capacity
      grows == full /\ 2 * record_capacity <= SAFE_MEM_MAX_TRACKED
      rs == IF full /\ ~grows THEN Unfreed(records) ELSE records
      cap == IF grows /\ grown THEN 2 * record_capacity ELSE record_capacity
  IN  IF Len(rs) >= cap THEN [recs |-> rs, cap |-> cap, ok |-> FALSE]
      ELSE [recs |-> Append(rs, rec), cap |-> cap, ok |-> TRUE]

\* find_record: the first record of the address that is not freed.
Matches(rs, a) == {i \in DOMAIN rs : rs[i].ptr = a /\ ~rs[i].freed}
find_record(rs, a) == CHOOSE i \in Matches(rs, a) : \A j \in Matches(rs, a) : i <= j

\* safe_malloc_impl for thread t: the block gets content c.
Malloc(t, a, n, c) ==
  /\ cells[a] = None
  /\ current_bytes + n <= MemQuota
  /\ current_bytes' = current_bytes + n
  /\ cells' = [cells EXCEPT ![a] = [size |-> n, content |-> c]]
  /\ owner' = [owner EXCEPT ![a] = t]
  /\ \E grown \in BOOLEAN :
       LET r == add_record(a, n, grown)
       IN  /\ records' = r.recs /\ record_capacity' = r.cap
           /\ untracked' = IF r.ok THEN untracked ELSE untracked + n
           /\ known' = [known EXCEPT ![a] = r.ok]

safe_malloc_impl(t, a, n, c) ==
  /\ pending[t] = NotIn /\ Malloc(t, a, n, c) /\ UNCHANGED pending

\* safe_free_impl: a block without a record is freed without being counted.
Free(a) ==
  /\ IF Matches(records, a) = {} THEN UNCHANGED <<records, current_bytes>>
     ELSE LET i == find_record(records, a)
          IN  /\ records' = [records EXCEPT ![i].freed = TRUE]
              /\ current_bytes' = current_bytes - records[i].size
  /\ cells' = [cells EXCEPT ![a] = None]
  /\ owner' = [owner EXCEPT ![a] = None]
  /\ known' = [known EXCEPT ![a] = FALSE]
  /\ UNCHANGED <<record_capacity, untracked>>

safe_free_impl(t, a) ==
  /\ pending[t] = NotIn /\ owner[a] = t /\ Free(a) /\ UNCHANGED pending

\* The first hold of the mutex: the old size, 0 when the block has no record.
ReallocLook(t, a, n) ==
  /\ pending[t] = NotIn /\ owner[a] = t
  /\ pending' = [pending EXCEPT ![t] =
       [old |-> a, size |-> n, new |-> None,
        copy |-> IF Matches(records, a) = {} THEN 0 ELSE records[find_record(records, a)].size]]
  /\ UNCHANGED <<records, record_capacity, current_bytes, cells, owner, untracked, known>>

\* The second: allocate, then copy as many bytes as were known to be there.
ReallocNew(t, a) ==
  /\ pending[t] # NotIn /\ pending[t].new = None
  /\ Malloc(t, a, pending[t].size, IF pending[t].copy > 0 THEN cells[pending[t].old].content ELSE None)
  /\ pending' = [pending EXCEPT ![t].new = a]

\* No quota, or malloc fails: NULL is returned and the old block is kept.
ReallocFail(t) ==
  /\ pending[t] # NotIn /\ pending[t].new = None
  /\ pending' = [pending EXCEPT ![t] = NotIn]
  /\ UNCHANGED <<records, record_capacity, current_bytes, cells, owner, untracked, known>>

ReallocFree(t) ==
  /\ pending[t] # NotIn /\ pending[t].new # None
  /\ Free(pending[t].old)
  /\ pending' = [pending EXCEPT ![t] = NotIn]

SafeNext ==
  \E t \in MemThread :
    \/ \E a \in MemAddr, n \in Sizes, c \in Content : safe_malloc_impl(t, a, n, c)
    \/ \E a \in MemAddr : safe_free_impl(t, a)
    \/ \E a \in MemAddr, n \in Sizes : ReallocLook(t, a, n)
    \/ \E a \in MemAddr : ReallocNew(t, a)
    \/ ReallocFail(t) \/ ReallocFree(t)

-----------------------------------------------------------------------------

Allocated == {a \in MemAddr : cells[a] # None}

(* The books balance: every allocation that got a record has exactly one that
   is not freed, with its size, through growth, compaction and reuse of its
   address; no other address has one; and current_bytes, on which the quota
   is decided, is off by exactly the allocations the full table refused. *)
AllocationsAccounted ==
  /\ \A a \in MemAddr :
       IF a \in Allocated /\ known[a]
       THEN Cardinality(Matches(records, a)) = 1 /\ records[find_record(records, a)].size = cells[a].size
       ELSE Matches(records, a) = {}
  /\ current_bytes = untracked
       + SumFunctionOnSet([a \in MemAddr |-> IF cells[a] = None THEN 0 ELSE cells[a].size],
                          {a \in Allocated : known[a]})

(* A tracked block keeps its contents when it is reallocated. *)
ReallocKeepsContent ==
  \A t \in MemThread : pending[t] # NotIn /\ pending[t].new # None /\ known[pending[t].old]
     => cells[pending[t].new].content = cells[pending[t].old].content
=============================================================================
