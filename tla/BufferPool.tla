----------------------------- MODULE BufferPool -----------------------------
(***************************************************************************)
(* src/pager.c, src/buffer_pool.c and src/btree.c: a file of pages, a pool *)
(* of frames with pins and least-recently-used eviction, and the inserts   *)
(* into leaf pages that go through it.  Scans pin a page and keep a        *)
(* pointer into its frame while inserts of others need frames.             *)
(***************************************************************************)
EXTENDS LeafPage

CONSTANTS PageId, POOL_SIZE, LEAF_NODE_MAX_CELLS, CellKey,
          MaxClock, MaxPins   \* bounds: calls of get_page, pins of one page

VARIABLES frame,   \* slot -> page_ids, pages, is_dirty, pin_count, last_used
          clock,
          file,    \* the pager's file: page -> cells, <<>> past its end
          scans,   \* outstanding pointers of scans to a page
          latest   \* ghost: what the inserts made of each page

bvars == <<frame, clock, file, scans, latest>>

UINT32_MAX == -1   \* no page has this number
Slot == 1 .. POOL_SIZE
\* The cells a leaf may hold.
CellList == UNION {[1 .. n -> CellKey] : n \in 0 .. LEAF_NODE_MAX_CELLS}

ASSUME BufferAssumption ==
  /\ POOL_SIZE \in Nat /\ LEAF_NODE_MAX_CELLS \in Nat /\ UINT32_MAX \notin PageId
  /\ CellKey \subseteq Nat

EmptyFrame == [id |-> UINT32_MAX, cells |-> <<>>, dirty |-> FALSE, pin |-> 0, used |-> 0]

buffer_pool_init ==
  /\ frame = [i \in Slot |-> EmptyFrame] /\ clock = 0
  /\ file = [p \in PageId |-> <<>>]
  /\ scans = [p \in PageId |-> 0] /\ latest = [p \in PageId |-> <<>>]

At(fr, p) == {i \in Slot : fr[i].id = p}
FirstOf(S) == CHOOSE i \in S : \A j \in S : i <= j
pager_read(f, p) == f[p]
pager_write(f, p, cells) == [f EXCEPT ![p] = cells]

\* The unpinned frame used longest ago, the first of equals; none when every
\* frame is pinned.
Evictable(fr) == {i \in Slot : fr[i].pin = 0}
buffer_pool_evict(fr) ==
  LET oldest == {i \in Evictable(fr) : \A j \in Evictable(fr) : fr[i].used <= fr[j].used}
  IN  FirstOf(oldest)
(* Mutant: a dirty frame is given away unwritten. *)
WriteBackNever(fr, f, i) == f
WriteBack(fr, f, i) == IF fr[i].dirty THEN pager_write(f, fr[i].id, fr[i].cells) ELSE f

\* The frames and the file after page p was fetched; its frame is pinned once
\* more.  A fetch that finds every frame pinned fails.
CanGet(p) == At(frame, p) # {} \/ At(frame, UINT32_MAX) # {} \/ Evictable(frame) # {}
buffer_pool_get_page(p) ==
  LET now == clock + 1
      i == IF At(frame, p) # {} THEN FirstOf(At(frame, p))
           ELSE IF At(frame, UINT32_MAX) # {} THEN FirstOf(At(frame, UINT32_MAX))
           ELSE buffer_pool_evict(frame)
      hit == At(frame, p) # {}
      f == IF hit \/ frame[i].id = UINT32_MAX THEN file ELSE WriteBack(frame, file, i)
      found == [frame[i] EXCEPT !.used = now, !.pin = @ + 1]
      loaded == [id |-> p, cells |-> pager_read(f, p), dirty |-> FALSE, pin |-> 1, used |-> now]
  IN  [slot |-> i, file |-> f,
       frame |-> [frame EXCEPT ![i] = IF hit THEN found ELSE loaded]]

buffer_pool_unpin(fr, p) ==
  IF At(fr, p) = {} THEN fr
  ELSE [fr EXCEPT ![FirstOf(At(fr, p))].pin = IF @ > 0 THEN @ - 1 ELSE @]
buffer_pool_mark_dirty(fr, p) ==
  IF At(fr, p) = {} THEN fr ELSE [fr EXCEPT ![FirstOf(At(fr, p))].dirty = TRUE]

-----------------------------------------------------------------------------

\* table_find and leaf_node_insert on the leaf p: fetch, change, mark, unpin.
leaf_node_insert(p, k) ==
  /\ clock < MaxClock /\ CanGet(p)
  /\ LET g == buffer_pool_get_page(p)
         cells == g.frame[g.slot].cells
         changed == IF Len(cells) >= LEAF_NODE_MAX_CELLS THEN g.frame
                    ELSE buffer_pool_mark_dirty([g.frame EXCEPT ![g.slot].cells = LeafCells(cells, k)], p)
     IN  /\ frame' = buffer_pool_unpin(changed, p)
         /\ file' = g.file
  /\ latest' = [latest EXCEPT ![p] = IF Len(@) >= LEAF_NODE_MAX_CELLS THEN @
                                     ELSE LeafCells(@, k)]
  /\ clock' = clock + 1
  /\ UNCHANGED scans

\* A scan fetches a page (or pins it again) and keeps the pointer.
ScanStart(p) ==
  /\ clock < MaxClock /\ scans[p] < MaxPins /\ CanGet(p)
  /\ LET g == buffer_pool_get_page(p) IN frame' = g.frame /\ file' = g.file
  /\ clock' = clock + 1
  /\ scans' = [scans EXCEPT ![p] = @ + 1]
  /\ UNCHANGED latest

ScanEnd(p) ==
  /\ scans[p] > 0
  /\ frame' = buffer_pool_unpin(frame, p)
  /\ scans' = [scans EXCEPT ![p] = @ - 1]
  /\ UNCHANGED <<clock, file, latest>>

Flushed(f, fr) ==
  [p \in PageId |-> IF \E i \in Slot : fr[i].id = p /\ fr[i].dirty
                    THEN fr[FirstOf({i \in Slot : fr[i].id = p /\ fr[i].dirty})].cells ELSE f[p]]
buffer_pool_flush_all ==
  /\ file' = Flushed(file, frame)
  /\ frame' = [i \in Slot |-> [frame[i] EXCEPT !.dirty = FALSE]]
  /\ UNCHANGED <<clock, scans, latest>>

\* db_close, and db_open on the same file.
db_close ==
  /\ \A p \in PageId : scans[p] = 0
  /\ file' = Flushed(file, frame)
  /\ frame' = [i \in Slot |-> EmptyFrame] /\ clock' = 0
  /\ UNCHANGED <<scans, latest>>

PoolNext ==
  \/ \E p \in PageId, k \in CellKey : leaf_node_insert(p, k)
  \/ \E p \in PageId : ScanStart(p) \/ ScanEnd(p)
  \/ buffer_pool_flush_all \/ db_close

-----------------------------------------------------------------------------

(* No insert is lost and no scan is left with a dangling pointer: a page is in
   at most one frame, a page some scan points to is in a frame that counts all
   its pins, and every page holds all its inserts, in its frame or in the file,
   through evictions, write-backs and restarts, in key order. *)
PoolKeepsPages ==
  \A p \in PageId :
    LET here == At(frame, p)
        cells == IF here = {} THEN file[p] ELSE frame[FirstOf(here)].cells
    IN  /\ cells = latest[p] /\ InKeyOrder(cells)
        /\ \A i, j \in here : i = j
        /\ scans[p] > 0 => here # {}
        /\ \A i \in here : frame[i].pin = scans[p]
=============================================================================
