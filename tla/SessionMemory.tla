--------------------------- MODULE SessionMemory ---------------------------
(***************************************************************************)
(* The memory of one session, src/memory.c: a quota, two arenas (one for   *)
(* the session, one for the query in progress) and a pool of fixed-size    *)
(* blocks that expands.  Sizes are in units of MEM_ALIGNMENT.  malloc may  *)
(* fail whenever it is called.                                             *)
(***************************************************************************)
EXTENDS Integers, Sequences, FiniteSets, SequencesExt, Functions

CONSTANTS BlockId,      \* addresses of arena blocks
          BlockSize,    \* default_block_size
          SmallSize,    \* largest request the pool serves
          Size,         \* sizes that are asked for
          QuotaLimit,   \* MemQuota.limit
          PoolBlocks, MaxPools  \* blocks of a pool, bound on the expansion chain

ASSUME MemoryAssumption ==
  /\ IsFiniteSet(BlockId) /\ {1, 2} \subseteq BlockId
  /\ BlockSize \in Nat /\ Size \subseteq Nat \ {0} /\ PoolBlocks \in Nat \ {0}

Arenas == {"session", "query"}

VARIABLES arena,    \* Arena: chain of blocks, current, totals, lost blocks
          blk,      \* address -> size and used of a block
          pools,    \* the root pool and its expansions, in chain order
          quota,    \* MemQuota.used
          live,     \* ghost: arena allocations not yet reset or restored away
          held,     \* ghost: pool blocks handed out
          mark      \* a checkpoint of the query arena, or NoMark

mvars == <<arena, blk, pools, quota, live, held, mark>>

NoMark == [block |-> 0, used |-> 0]
FreshBlock(n) == [size |-> n, used |-> 0]
NewPool(base) == [base |-> base, used |-> 0,
                  free |-> [i \in 1 .. PoolBlocks |-> base + PoolBlocks - i]]

\* session_memory_create, with arena_create_with_quota and pool_create_named.
session_memory_create ==
  /\ arena = [a \in Arenas |-> [chain |-> <<IF a = "session" THEN 1 ELSE 2>>, cur |-> 1,
                                total_used |-> 0, total_allocated |-> BlockSize, lost |-> {}]]
  /\ blk = [b \in BlockId |-> FreshBlock(BlockSize)]
  /\ pools = <<NewPool(0)>>
  /\ quota = 0 /\ live = {} /\ held = {} /\ mark = NoMark

-----------------------------------------------------------------------------
(* Arenas. *)

InUse == UNION {ToSet(arena[a].chain) \cup arena[a].lost : a \in Arenas}
UsedIn(a, b) == SumFunctionOnSet([i \in BlockId |-> b[i].used], ToSet(a.chain))

\* The current block if the request fits; otherwise a new block becomes the
\* successor of the current one, and what followed it (after a reset) is
\* no longer reached.
arena_alloc(a, n) ==
  LET ar == arena[a]
      c == ar.chain[ar.cur]
      size == IF n > BlockSize THEN 2 * n ELSE BlockSize
      rest == SubSeq(ar.chain, ar.cur + 1, Len(ar.chain))
  IN  IF blk[c].used + n <= blk[c].size
      THEN /\ blk' = [blk EXCEPT ![c].used = @ + n]
           /\ arena' = [arena EXCEPT ![a].total_used = @ + n]
           /\ live' = live \cup {[arena |-> a, block |-> c, from |-> blk[c].used, len |-> n]}
      ELSE \E b \in BlockId \ InUse :
           /\ blk' = [blk EXCEPT ![b] = [size |-> size, used |-> n]]
           /\ arena' = [arena EXCEPT ![a] =
                [chain |-> Append(SubSeq(ar.chain, 1, ar.cur), b), cur |-> ar.cur + 1,
                 total_used |-> ar.total_used + n, total_allocated |-> ar.total_allocated + size,
                 lost |-> ar.lost \cup ToSet(rest)]]
           /\ live' = live \cup {[arena |-> a, block |-> b, from |-> 0, len |-> n]}

Kept(a) == {x \in live : x.arena # a}

(* Mutant: total_used survives the reset. *)
ResetKeepsTotal(a) ==
  /\ blk' = [b \in BlockId |-> IF b \in ToSet(arena[a].chain) THEN [blk[b] EXCEPT !.used = 0] ELSE blk[b]]
  /\ arena' = [arena EXCEPT ![a].cur = 1]
  /\ live' = Kept(a)

arena_reset(a) ==
  /\ blk' = [b \in BlockId |-> IF b \in ToSet(arena[a].chain) THEN [blk[b] EXCEPT !.used = 0] ELSE blk[b]]
  /\ arena' = [arena EXCEPT ![a].cur = 1, ![a].total_used = 0]
  /\ live' = Kept(a)

SizeOf(S) == SumFunctionOnSet([b \in BlockId |-> blk[b].size], S)
arena_clear(a) ==
  LET ar == arena[a]
  IN  /\ arena' = [arena EXCEPT ![a] =
           [ar EXCEPT !.chain = <<Head(ar.chain)>>, !.cur = 1, !.total_used = 0,
                      !.total_allocated = ar.total_allocated - SizeOf(ToSet(Tail(ar.chain)))]]
      /\ blk' = [blk EXCEPT ![Head(ar.chain)].used = 0]
      /\ live' = Kept(a)

arena_checkpoint ==
  /\ mark = NoMark
  /\ LET ar == arena["query"]
     IN  mark' = [block |-> ar.chain[ar.cur], used |-> blk[ar.chain[ar.cur]].used]
  /\ UNCHANGED <<arena, blk, pools, quota, live, held>>

\* Blocks behind the checkpoint are freed, and total_used is summed afresh.
arena_restore ==
  /\ mark # NoMark
  /\ LET ar == arena["query"]
         i == CHOOSE j \in DOMAIN ar.chain : ar.chain[j] = mark.block
         chain == SubSeq(ar.chain, 1, i)
         b == [blk EXCEPT ![mark.block].used = mark.used]
     IN  /\ blk' = b
         /\ arena' = [arena EXCEPT !["query"] =
              [ar EXCEPT !.chain = chain, !.cur = i,
                         !.total_used = UsedIn([ar EXCEPT !.chain = chain], b),
                         !.total_allocated = ar.total_allocated - SizeOf(ToSet(ar.chain) \ ToSet(chain))]]
         /\ live' = {x \in live : x.arena = "query" =>
                       /\ x.block \in ToSet(chain)
                       /\ x.block = mark.block => x.from + x.len <= mark.used}
  /\ mark' = NoMark
  /\ UNCHANGED <<pools, quota, held>>

-----------------------------------------------------------------------------
(* The pool and the quota. *)

WithRoom == {i \in DOMAIN pools : pools[i].free # <<>>}
FirstPool == CHOOSE i \in WithRoom : \A j \in WithRoom : i <= j
Take(ps, i) ==
  [ps EXCEPT ![i] = [base |-> ps[i].base, used |-> ps[i].used + 1, free |-> Tail(ps[i].free)]]

\* The root's free list, then the expansions'; an expansion is linked right
\* behind the root.
pool_alloc ==
  \/ /\ WithRoom # {}
     /\ pools' = Take(pools, FirstPool)
     /\ held' = held \cup {Head(pools[FirstPool].free)}
  \/ /\ WithRoom = {} /\ Len(pools) < MaxPools
     /\ LET p == NewPool(PoolBlocks * Len(pools))
        IN  /\ pools' = Take(<<Head(pools), p>> \o Tail(pools), 2)
            /\ held' = held \cup {Head(p.free)}

pool_owns(p, x) == x >= p.base /\ x < p.base + PoolBlocks
pool_free(x) ==
  /\ x \in held
  /\ LET i == CHOOSE j \in DOMAIN pools : pool_owns(pools[j], x)
     IN  pools' = [pools EXCEPT ![i] = [base |-> pools[i].base, used |-> pools[i].used - 1,
                                               free |-> <<x>> \o pools[i].free]]
  /\ held' = held \ {x}
  /\ UNCHANGED <<arena, blk, quota, live, mark>>

pool_reset ==
  /\ pools' = [i \in DOMAIN pools |-> NewPool(pools[i].base)]
  /\ held' = {}
  /\ UNCHANGED <<arena, blk, quota, live, mark>>

quota_request(n) == quota + n <= QuotaLimit /\ quota' = quota + n

\* The quota is charged before the allocator is asked, and stays charged when
\* the allocator fails.
NoMemory == UNCHANGED <<arena, blk, pools, live, held, mark>>
session_alloc(n) ==
  /\ quota_request(n)
  /\ \/ /\ n <= SmallSize
        /\ pool_alloc
        /\ UNCHANGED <<arena, blk, live, mark>>
     \/ /\ n > SmallSize
        /\ arena_alloc("session", n)
        /\ UNCHANGED <<pools, held, mark>>
     \/ NoMemory

session_alloc_query(n) ==
  /\ quota_request(n)
  /\ \/ arena_alloc("query", n) /\ UNCHANGED <<pools, held, mark>>
     \/ NoMemory

\* The query arena starts over; the quota its requests used is not given back.
session_memory_reset_query ==
  /\ arena_reset("query")
  /\ mark' = NoMark
  /\ UNCHANGED <<pools, quota, held>>

ClearSession == /\ arena_clear("session")
                /\ UNCHANGED <<pools, quota, held, mark>>

MemNext ==
  \/ \E n \in Size : session_alloc(n) \/ session_alloc_query(n)
  \/ session_memory_reset_query \/ ClearSession
  \/ arena_checkpoint \/ arena_restore
  \/ \E x \in held : pool_free(x)
  \/ pool_reset

-----------------------------------------------------------------------------

(* Memory is never handed out twice: live arena allocations lie in blocks of
   their arena's chain, below the block's used mark, and do not overlap; a
   pool block is free in exactly one list or held, and the pools' counters add
   up.  total_used is what the chain holds, and total_allocated counts the
   chain and the blocks a reset made unreachable. *)
MemorySound ==
  /\ \A x \in live :
       /\ x.block \in ToSet(arena[x.arena].chain)
       /\ x.from + x.len <= blk[x.block].used
       /\ \A y \in live : x.block = y.block /\ x # y
                          => x.from + x.len <= y.from \/ y.from + y.len <= x.from
  /\ \A a \in Arenas :
       /\ arena[a].total_used = UsedIn(arena[a], blk)
       /\ arena[a].total_allocated = SizeOf(ToSet(arena[a].chain) \cup arena[a].lost)
  /\ \A i \in DOMAIN pools :
       LET own == {x \in held : pool_owns(pools[i], x)}
       IN  /\ ToSet(pools[i].free) \cup own = pools[i].base .. pools[i].base + PoolBlocks - 1
           /\ ToSet(pools[i].free) \cap own = {}
           /\ pools[i].used = Cardinality(own)
=============================================================================
