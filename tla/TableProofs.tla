---------------------------- MODULE TableProofs ----------------------------
(***************************************************************************)
(* Proofs about the tables that map one name to another and must not       *)
(* disagree: the frames of the buffer pool with the pages of the file      *)
(* (src/buffer_pool.c), the nodes with the partitions they own and the     *)
(* slots of the client pool with their count (src/cluster.c), and the      *)
(* connections with their login sessions and address trackers              *)
(* (src/server.c, src/security.c), and the memory handed out with the      *)
(* arenas, pools and allocation records it came from (src/memory.c,        *)
(* src/safe_mem.c).                                                        *)
(***************************************************************************)
EXTENDS BufferPool, ClusterNode, Memory, Sessions, ArrayLemmas, FiniteSetTheorems

-----------------------------------------------------------------------------
(* The buffer pool. *)

Frame == [id : PageId \cup {UINT32_MAX}, cells : CellList,
          dirty : BOOLEAN, pin : Nat, used : Nat]

\* A page is in one frame at most.  The frame holds what the inserts made of
\* the page and counts the pointers to it; the file is behind only if the
\* frame is dirty.  A page without a frame is in the file and not pointed to.
FramesOK(fr, f, sc, lat) ==
  /\ fr \in [Slot -> Frame] /\ f \in [PageId -> CellList]
  /\ sc \in [PageId -> Nat] /\ lat \in [PageId -> CellList]
OneFrame(fr) ==
  \A i, j \in Slot : fr[i].id = fr[j].id /\ fr[i].id \in PageId => i = j
Held(r, f, sc, lat) ==
  r.id \in PageId => /\ r.cells = lat[r.id] /\ r.pin = sc[r.id]
                     /\ ~ r.dirty => f[r.id] = lat[r.id]
Unheld(fr, f, sc, lat) ==
  \A p \in PageId : At(fr, p) = {} => f[p] = lat[p] /\ sc[p] = 0
FramesSound(fr, f, sc, lat) ==
  /\ FramesOK(fr, f, sc, lat) /\ OneFrame(fr)
  /\ \A i \in Slot : Held(fr[i], f, sc, lat)
  /\ Unheld(fr, f, sc, lat)

\* And the inserts keep the keys of a page in order.
AllInOrder(lat) == \A p \in PageId : InKeyOrder(lat[p])
BufferInv == FramesSound(frame, file, scans, latest) /\ clock \in Nat /\ AllInOrder(latest)

\* A new page has no cells, and they are in order.
LEMMA NoCells == <<>> \in CellList
<1>1. <<>> \in [1 .. 0 -> CellKey]
  OBVIOUS
<1>2. 0 \in 0 .. LEAF_NODE_MAX_CELLS
  BY BufferAssumption
<1> QED
  BY <1>1, <1>2 DEF CellList

\* The binary search of a leaf in key order: what is before the place found is
\* not above the key, the rest is not below it.
PlaceOf(c, k, i) ==
  /\ i \in 0 .. Len(c)
  /\ \A j \in 1 .. Len(c) : (j <= i => c[j] <= k) /\ (j > i => k <= c[j])

SearchRun(c, k, f) ==
  f = [i \in 0 .. Len(c) |->
        IF i = 0 THEN [min_index |-> 0, one_past_max_index |-> Len(c)]
        ELSE SearchRound(c, k, f[i - 1])]
Searched(c) == [min_index : 0 .. Len(c), one_past_max_index : 0 .. Len(c)]
Between(c, k, s) ==
  /\ s.min_index <= s.one_past_max_index
  /\ \A j \in 1 .. Len(c) : (j <= s.min_index => c[j] <= k)
                            /\ (j > s.one_past_max_index => k <= c[j])
Narrowed(c, k, i, s) ==
  Between(c, k, s) /\ (\/ s.min_index = s.one_past_max_index
                       \/ s.one_past_max_index - s.min_index + i <= Len(c))

\* A cell of a page is a key.
LEMMA CellValues ==
  ASSUME NEW c \in CellList
  PROVE  c \in Seq(CellKey) /\ Len(c) \in Nat /\ Len(c) <= LEAF_NODE_MAX_CELLS
         /\ \A j \in 1 .. Len(c) : c[j] \in Int
<1>1. PICK n \in 0 .. LEAF_NODE_MAX_CELLS : c \in [1 .. n -> CellKey]
  BY DEF CellList
<1>2. n \in Nat /\ n <= LEAF_NODE_MAX_CELLS
  BY BufferAssumption
<1>3. c = [i \in 1 .. n |-> c[i]] /\ \A i \in 1 .. n : c[i] \in CellKey
  BY <1>1
<1>4. c \in Seq(CellKey) /\ Len(c) = n
  BY <1>2, <1>3, IsASeq
<1> QED
  BY <1>2, <1>3, <1>4, BufferAssumption

\* The middle of a range lies in it, and both halves are shorter.
LEMMA Middle ==
  ASSUME NEW u \in Nat, NEW v \in Nat, u < v
  PROVE  (u + v) \div 2 \in Nat /\ u <= (u + v) \div 2 /\ (u + v) \div 2 < v
OBVIOUS

\* When a range is narrowed down as far as i rounds do.
LEMMA NarrowedIs ==
  ASSUME NEW c \in CellList, NEW k, NEW i, NEW u \in 0 .. Len(c), NEW v \in 0 .. Len(c),
         u <= v, u = v \/ v - u + i <= Len(c),
         \A j \in 1 .. Len(c) : (j <= u => c[j] <= k) /\ (j > v => k <= c[j])
  PROVE  /\ [min_index |-> u, one_past_max_index |-> v] \in Searched(c)
         /\ Narrowed(c, k, i, [min_index |-> u, one_past_max_index |-> v])
BY DEF Searched, Narrowed, Between

\* What lies before the range is not above the key, what lies behind it not below.
LEMMA SearchNarrows ==
  ASSUME NEW c \in CellList, NEW k \in CellKey, InKeyOrder(c),
         NEW i \in 1 .. Len(c), NEW s \in Searched(c), Narrowed(c, k, i - 1, s)
  PROVE  SearchRound(c, k, s) \in Searched(c) /\ Narrowed(c, k, i, SearchRound(c, k, s))
<1> DEFINE n == Len(c)
           lo == s.min_index
           hi == s.one_past_max_index
           index == (lo + hi) \div 2
           key == c[index + 1]
<1>1. n \in Nat /\ (\A j \in 1 .. n : c[j] \in Int) /\ k \in Int /\ i \in Int
  BY CellValues, BufferAssumption
<1>2. lo \in 0 .. n /\ hi \in 0 .. n /\ lo <= hi
  BY DEF Searched, Narrowed, Between
<1>3. s = [min_index |-> lo, one_past_max_index |-> hi]
  BY DEF Searched
<1>4. CASE lo = hi
  <2>1. SearchRound(c, k, s) = s
    BY <1>4 DEF SearchRound
  <2> QED
    BY <1>4, <2>1 DEF Narrowed
<1>5. CASE lo # hi
  <2>1. lo < hi /\ hi - lo + (i - 1) <= n
    BY <1>1, <1>2, <1>5 DEF Narrowed
  <2>2. index \in lo .. hi - 1 /\ index + 1 \in 1 .. n /\ index \in Int
    <3>1. lo \in Nat /\ hi \in Nat
      BY <1>1, <1>2
    <3> HIDE DEF lo, hi, n
    <3>2. index \in Nat /\ lo <= index /\ index < hi
      BY <2>1, <3>1, Middle
    <3> HIDE DEF index
    <3> QED
      BY <1>1, <1>2, <3>1, <3>2
  <2>3. key \in Int
    BY <1>1, <2>2
  <2>4. /\ \A j \in 1 .. n : j <= index => c[j] <= key
        /\ \A j \in 1 .. n : j > index => key <= c[j]
    <3>1. ASSUME NEW j \in 1 .. n, j <= index PROVE c[j] <= key
      <4>1. j \in 1 .. Len(c) /\ j < index + 1
        BY <1>1, <2>2, <3>1
      <4> QED
        BY <2>2, <4>1 DEF InKeyOrder
    <3>2. ASSUME NEW j \in 1 .. n, j > index PROVE key <= c[j]
      <4>1. CASE j = index + 1
        BY <2>3, <4>1
      <4>2. CASE j # index + 1
        <5>1. index + 1 < j
          BY <1>1, <2>2, <3>2, <4>2
        <5> QED
          BY <2>2, <5>1 DEF InKeyOrder
      <4> QED
        BY <4>1, <4>2
    <3> QED
      BY <3>1, <3>2
  <2>5. SearchRound(c, k, s) =
          IF k = key THEN [min_index |-> index, one_past_max_index |-> index]
          ELSE IF k < key THEN [min_index |-> lo, one_past_max_index |-> index]
          ELSE [min_index |-> index + 1, one_past_max_index |-> hi]
    BY <1>3, <1>5 DEF SearchRound
  <2>6. \A j \in 1 .. n : (j <= lo => c[j] <= k) /\ (j > hi => k <= c[j])
    BY DEF Narrowed, Between
  <2> HIDE DEF index, key, lo, hi
  <2>7. CASE k = key
    <3>1. /\ SearchRound(c, k, s) = [min_index |-> index, one_past_max_index |-> index]
          /\ index \in 0 .. n
      BY <1>1, <1>2, <2>2, <2>5, <2>7
    <3>2. index <= index /\ \A j \in 1 .. n : (j <= index => c[j] <= k) /\ (j > index => k <= c[j])
      BY <2>2, <2>4, <2>7
    <3> QED
      BY <3>1, <3>2, NarrowedIs
  <2>8. CASE k < key
    <3>1. /\ SearchRound(c, k, s) = [min_index |-> lo, one_past_max_index |-> index]
          /\ index \in 0 .. n
      BY <1>1, <1>2, <2>2, <2>3, <2>5, <2>8
    <3>2. ASSUME NEW j \in 1 .. n, j > index PROVE k <= c[j]
      BY <1>1, <2>3, <2>4, <2>8, <3>2
    <3>3. lo <= index /\ index - lo + i <= n
      BY <1>1, <1>2, <2>1, <2>2
    <3> QED
      BY <1>2, <2>6, <3>1, <3>2, <3>3, NarrowedIs
  <2>9. CASE k > key
    <3>1. /\ SearchRound(c, k, s) = [min_index |-> index + 1, one_past_max_index |-> hi]
          /\ index + 1 \in 0 .. n
      BY <1>1, <1>2, <2>2, <2>3, <2>5, <2>9
    <3>2. ASSUME NEW j \in 1 .. n, j <= index + 1 PROVE c[j] <= k
      <4>1. CASE j = index + 1
        <5>1. c[j] = key
          BY <4>1 DEF key
        <5> QED
          BY <1>1, <2>3, <2>9, <5>1
      <4>2. CASE j # index + 1
        <5>1. j <= index
          BY <1>1, <2>2, <3>2, <4>2
        <5> QED
          BY <1>1, <2>3, <2>4, <2>9, <5>1
      <4> QED
        BY <4>1, <4>2
    <3>3. index + 1 <= hi /\ hi - (index + 1) + i <= n
      BY <1>1, <1>2, <2>1, <2>2
    <3>4. \A j \in 1 .. n : (j <= index + 1 => c[j] <= k) /\ (j > hi => k <= c[j])
      BY <2>6, <3>2
    <3> DEFINE u == index + 1
    <3> HIDE DEF u
    <3> QED
      BY <1>2, <3>1, <3>3, <3>4, NarrowedIs DEF u
  <2> QED
    BY <1>1, <2>3, <2>7, <2>8, <2>9
<1> QED
  BY <1>4, <1>5

\* After as many rounds as cells the range is empty: the place is found.
LEMMA PlaceFound ==
  ASSUME NEW c \in CellList, NEW k \in CellKey, InKeyOrder(c)
  PROVE  PlaceOf(c, k, table_find(c, k))
<1> DEFINE n == Len(c)
           S == Searched(c)
           a == [min_index |-> 0, one_past_max_index |-> n]
           step == [s \in S |-> SearchRound(c, k, s)]
           Good == {x \in (0 .. n) \X S : Narrowed(c, k, x[1], x[2])}
<1>1. n \in Nat
  BY CellValues
<1>2. a \in S
  BY <1>1 DEF Searched
<1>3. KeptBy(n, S, a, step, Good)
  <2>1. <<0, a>> \in Good
    <3>1. Narrowed(c, k, 0, a)
      BY <1>1 DEF Narrowed, Between
    <3> QED
      BY <1>1, <1>2, <3>1
  <2>2. ASSUME NEW i \in 1 .. n, NEW s \in S, <<i - 1, s>> \in Good
        PROVE  step[s] \in S /\ <<i, step[s]>> \in Good
    <3>1. Narrowed(c, k, i - 1, s)
      BY <2>2
    <3>2. SearchRound(c, k, s) \in S /\ Narrowed(c, k, i, SearchRound(c, k, s))
      BY <3>1, SearchNarrows
    <3>3. step[s] = SearchRound(c, k, s) /\ i \in 0 .. n
      BY <1>1
    <3> HIDE DEF S, step
    <3> QED
      BY <3>2, <3>3
  <2> HIDE DEF S, a, step, Good
  <2> QED
    BY <2>1, <2>2 DEF KeptBy
<1> HIDE DEF a, Good
<1>4. \E f : SearchRun(c, k, f)
  <2>1. PICK f : f = [i \in 0 .. n |-> f[i]] /\ Goes(f, n, S, a, step)
    <3> HIDE DEF S, step, n
    <3> QED
      BY <1>1, <1>2, <1>3, LoopExists
  <2>2. \A i \in 0 .. n : f[i] \in S
    <3> HIDE DEF S, step, n
    <3> QED
      BY <1>1, <1>2, <1>3, <2>1, LoopKeeps
  <2>3. ASSUME NEW i \in 0 .. n
        PROVE  f[i] = IF i = 0 THEN a ELSE SearchRound(c, k, f[i - 1])
    <3>1. CASE i = 0
      BY <2>1, <3>1 DEF Goes
    <3>2. CASE i # 0
      <4>1. i \in 1 .. n /\ i - 1 \in 0 .. n
        BY <1>1, <3>2
      <4>2. f[i] = step[f[i - 1]]
        <5>1. \A j \in 1 .. n : f[j] = step[f[j - 1]]
          BY <2>1 DEF Goes
        <5> HIDE DEF step
        <5> QED
          BY <4>1, <5>1
      <4> QED
        BY <2>2, <3>2, <4>1, <4>2
    <3> QED
      BY <3>1, <3>2
  <2> QED
    BY <2>1, <2>3 DEF SearchRun, a
<1> DEFINE g == CHOOSE f : SearchRun(c, k, f)
<1>5. SearchRun(c, k, g)
  BY <1>4
<1>6. table_find(c, k) = g[n].min_index
  BY Zenon DEF table_find, SearchRun
<1> HIDE DEF g
<1>7. Goes(g, n, S, a, step)
  <2>1. g[0] = a
    BY <1>1, <1>5 DEF SearchRun, a
  <2>2. ASSUME NEW i \in 1 .. n, g[i - 1] \in S PROVE g[i] = step[g[i - 1]]
    <3>1. i \in 0 .. n /\ i # 0
      BY <1>1
    <3>2. g[i] = SearchRound(c, k, g[i - 1])
      BY <1>5, <3>1 DEF SearchRun
    <3> QED
      BY <2>2, <3>2
  <2> HIDE DEF S, step
  <2> QED
    BY <2>1, <2>2 DEF Goes
<1>8. <<n, g[n]>> \in Good
  <2>1. n \in 0 .. n
    BY <1>1
  <2> HIDE DEF S, step, n
  <2> QED
    BY <1>1, <1>2, <1>3, <1>7, <2>1, LoopKeeps
<1>9. Narrowed(c, k, n, g[n]) /\ g[n] \in S
  BY <1>8 DEF Good
<1> DEFINE u == g[n].min_index
           v == g[n].one_past_max_index
<1>10. u \in 0 .. n /\ v \in 0 .. n /\ Between(c, k, g[n]) /\ (u = v \/ v - u + n <= n)
  BY <1>9 DEF Searched, Narrowed
<1>11. u = v
  <2>1. u <= v
    BY <1>10 DEF Between
  <2> HIDE DEF u, v, n
  <2> QED
    BY <1>1, <1>10, <2>1
<1>12. \A j \in 1 .. n : (j <= u => c[j] <= k) /\ (j > v => k <= c[j])
  BY <1>10 DEF Between
<1> HIDE DEF u, v
<1> QED
  BY <1>6, <1>10, <1>11, <1>12 DEF PlaceOf, u

\* Inserting at that place keeps the keys in order and adds one.
LEMMA CellsInserted ==
  ASSUME NEW c \in CellList, NEW k \in CellKey, InKeyOrder(c),
         ~ (Len(c) >= LEAF_NODE_MAX_CELLS)
  PROVE  LeafCells(c, k) \in CellList /\ InKeyOrder(LeafCells(c, k))
<1> DEFINE n == Len(c)
           q == table_find(c, k)
           d == LeafCells(c, k)
<1>1. /\ c \in Seq(CellKey) /\ n \in Nat /\ n + 1 \in 0 .. LEAF_NODE_MAX_CELLS
      /\ \A j \in 1 .. n : c[j] \in Int
  <2>1. LEAF_NODE_MAX_CELLS \in Nat
    BY BufferAssumption
  <2> QED
    BY <2>1, CellValues
<1>2. PlaceOf(c, k, q) /\ k \in Int
  BY PlaceFound, BufferAssumption
<1> HIDE DEF q
<1>3. q \in 0 .. n /\ q + 1 \in 1 .. n + 1
  BY <1>1, <1>2 DEF PlaceOf
<1>4. /\ d \in Seq(CellKey) /\ Len(d) = n + 1
      /\ \A j \in 1 .. n + 1 : d[j] = IF j < q + 1 THEN c[j] ELSE IF j = q + 1 THEN k ELSE c[j - 1]
  <2> DEFINE i == q + 1
  <2>1. i \in 1 .. Len(c) + 1
    BY <1>3
  <2> HIDE DEF i
  <2>2. /\ InsertAt(c, i, k) \in Seq(CellKey)
        /\ Len(InsertAt(c, i, k)) = Len(c) + 1
        /\ \A j \in 1 .. Len(c) + 1 :
             InsertAt(c, i, k)[j] = IF j < i THEN c[j] ELSE IF j = i THEN k ELSE c[j - 1]
    BY <1>1, <2>1, InsertAtProperties
  <2> QED
    BY <2>2 DEF LeafCells, i, q
<1> HIDE DEF d
<1>5. d \in CellList
  <2>1. d \in [1 .. n + 1 -> CellKey]
    BY <1>1, <1>4
  <2> QED
    BY <1>1, <2>1 DEF CellList
<1>6. ASSUME NEW i \in 1 .. n + 1, NEW j \in 1 .. n + 1, i < j
      PROVE  d[i] <= d[j]
  <2>1. i \in Int /\ j \in Int /\ q \in Int
    BY <1>1, <1>3
  <2>2. CASE i < q + 1 /\ j < q + 1
    <3>1. i \in 1 .. n /\ j \in 1 .. n
      BY <1>1, <1>3, <2>1, <2>2
    <3> QED
      BY <1>4, <1>6, <2>2, <3>1 DEF InKeyOrder
  <2>3. CASE i < q + 1 /\ j = q + 1
    <3>1. i \in 1 .. n /\ i <= q /\ ~ (j < q + 1)
      BY <1>1, <1>3, <2>1, <2>3
    <3>2. d[i] = c[i] /\ d[j] = k
      BY <1>4, <2>3, <3>1
    <3> QED
      BY <1>2, <3>1, <3>2 DEF PlaceOf
  <2>4. CASE i < q + 1 /\ j > q + 1
    <3>1. i \in 1 .. n /\ i <= q /\ j - 1 \in 1 .. n /\ j - 1 > q /\ i < j - 1 /\ ~ (j < q + 1) /\ j # q + 1
      BY <1>1, <1>3, <2>1, <2>4
    <3>2. d[i] = c[i] /\ d[j] = c[j - 1]
      BY <1>4, <2>4, <3>1
    <3> QED
      BY <3>1, <3>2 DEF InKeyOrder
  <2>5. CASE i = q + 1
    <3>1. /\ j - 1 \in 1 .. n /\ j - 1 > q /\ ~ (j < q + 1) /\ j # q + 1
          /\ ~ (i < q + 1)
      BY <1>1, <1>3, <1>6, <2>1, <2>5
    <3>2. d[i] = k /\ d[j] = c[j - 1]
      BY <1>4, <2>5, <3>1
    <3> QED
      BY <1>2, <3>1, <3>2 DEF PlaceOf
  <2>6. CASE i > q + 1
    <3>1. /\ i - 1 \in 1 .. n /\ j - 1 \in 1 .. n /\ i - 1 < j - 1
          /\ ~ (i < q + 1) /\ i # q + 1 /\ ~ (j < q + 1) /\ j # q + 1
      BY <1>1, <1>3, <1>6, <2>1, <2>6
    <3>2. d[i] = c[i - 1] /\ d[j] = c[j - 1]
      BY <1>4, <3>1
    <3> QED
      BY <3>1, <3>2 DEF InKeyOrder
  <2> QED
    BY <1>6, <2>1, <2>2, <2>3, <2>4, <2>5, <2>6
<1>7. InKeyOrder(d)
  BY <1>4, <1>6 DEF InKeyOrder
<1> QED
  BY <1>5, <1>7 DEF d

\* No cells are in order.
LEMMA NoCellsInOrder == InKeyOrder(<<>>)
BY DEF InKeyOrder

LEMMA FirstOfIn ==
  ASSUME NEW S, S \subseteq Slot, S # {}
  PROVE  FirstOf(S) \in S
<1>1. S \subseteq Nat
  BY BufferAssumption DEF Slot
<1>2. \E i \in S : \A j \in S : i <= j
  BY <1>1, LeastNumber
<1> QED
  BY <1>2 DEF FirstOf

\* The first frame with a page is the only one.
LEMMA FirstIsOnly ==
  ASSUME NEW fr, OneFrame(fr), NEW p \in PageId,
         NEW i \in Slot, fr[i].id = p
  PROVE  At(fr, p) = {i} /\ FirstOf(At(fr, p)) = i
<1>1. At(fr, p) = {i}
  BY DEF At, OneFrame
<1>2. At(fr, p) \subseteq Slot /\ At(fr, p) # {}
  BY <1>1
<1>3. FirstOf(At(fr, p)) \in At(fr, p)
  BY <1>2, FirstOfIn
<1> QED
  BY <1>1, <1>3

LEMMA EvictsUnpinned ==
  ASSUME NEW fr \in [Slot -> Frame], Evictable(fr) # {}
  PROVE  buffer_pool_evict(fr) \in Slot /\ fr[buffer_pool_evict(fr)].pin = 0
<1> DEFINE E == Evictable(fr)
           T == {n \in Nat : \E i \in E : fr[i].used = n}
           oldest == {i \in E : \A j \in E : fr[i].used <= fr[j].used}
<1>1. \A i \in E : i \in Slot /\ fr[i].used \in Nat /\ fr[i].pin = 0
  BY DEF Evictable, Frame
<1>2. T # {} /\ T \subseteq Nat
  BY <1>1
<1>3. PICK n \in T : \A m \in T : n <= m
  BY <1>2, LeastNumber
<1>4. PICK i \in E : fr[i].used = n
  OBVIOUS
<1>5. i \in oldest
  BY <1>1, <1>3, <1>4
<1>6. FirstOf(oldest) \in oldest
  <2>1. oldest # {} /\ oldest \subseteq Slot
    BY <1>1, <1>5
  <2> QED
    BY <2>1, FirstOfIn
<1>7. buffer_pool_evict(fr) = FirstOf(oldest)
  BY DEF buffer_pool_evict
<1> QED
  BY <1>1, <1>6, <1>7

-----------------------------------------------------------------------------

\* One frame i, with page p before and after, changes; so may what the inserts
\* made of p, and its pins.  The file stays as it is.
LEMMA FrameChange ==
  ASSUME NEW fr, NEW f, NEW sc, NEW lat,
         FramesSound(fr, f, sc, lat), NEW p \in PageId, NEW i \in Slot,
         fr[i].id = p, NEW r \in Frame, r.id = p, NEW n \in Nat, r.pin = n,
         NEW c \in CellList, r.cells = c, ~ r.dirty => f[p] = c
  PROVE  FramesSound([fr EXCEPT ![i] = r], f, [sc EXCEPT ![p] = n],
                     [lat EXCEPT ![p] = c])
<1> DEFINE fq == [fr EXCEPT ![i] = r]
           sq == [sc EXCEPT ![p] = n]
           lq == [lat EXCEPT ![p] = c]
<1>1. FramesOK(fr, f, sc, lat) /\ OneFrame(fr)
  BY DEF FramesSound
<1>2. /\ FramesOK(fq, f, sq, lq)
      /\ fq[i] = r /\ \A j \in Slot : j # i => fq[j] = fr[j]
      /\ sq[p] = n /\ lq[p] = c
      /\ \A q \in PageId : q # p => sq[q] = sc[q] /\ lq[q] = lat[q]
  BY <1>1 DEF FramesOK
<1> HIDE DEF fq, sq, lq
<1>3. \A j \in Slot : fq[j].id = fr[j].id
  BY <1>2
<1>4. OneFrame(fq)
  BY <1>1, <1>3 DEF OneFrame
<1>5. ASSUME NEW j \in Slot PROVE Held(fq[j], f, sq, lq)
  <2>1. CASE j = i
    BY <1>2, <2>1 DEF Held
  <2>2. CASE j # i
    <3>1. Held(fr[j], f, sc, lat) /\ fq[j] = fr[j]
      BY <1>2, <2>2 DEF FramesSound
    <3>2. fr[j].id \in PageId => fr[j].id # p
      BY <1>1, <2>2 DEF OneFrame
    <3> QED
      BY <1>2, <3>1, <3>2 DEF Held
  <2> QED
    BY <2>1, <2>2
<1>6. Unheld(fq, f, sq, lq)
  <2> SUFFICES ASSUME NEW q \in PageId, At(fq, q) = {}
               PROVE  f[q] = lq[q] /\ sq[q] = 0
    BY DEF Unheld
  <2>1. At(fr, q) = {} /\ q # p
    BY <1>3 DEF At
  <2> QED
    BY <1>2, <2>1 DEF FramesSound, Unheld
<1> QED
  BY <1>2, <1>4, <1>5, <1>6 DEF FramesSound, fq, sq, lq

\* The file g is f with frame i written back.
WrittenBack(fr, i, f, g) ==
  \A q \in PageId : g[q] = IF q = fr[i].id THEN fr[i].cells ELSE f[q]

\* A frame that nobody points to, written back, takes in another page.
LEMMA FrameLoad ==
  ASSUME NEW fr, NEW f, NEW sc, NEW lat,
         FramesSound(fr, f, sc, lat), NEW p \in PageId, At(fr, p) = {},
         NEW i \in Slot, NEW g \in [PageId -> CellList],
         fr[i].id \in PageId => fr[i].pin = 0,
         WrittenBack(fr, i, f, g),
         NEW r \in Frame, r.id = p, r.cells = g[p], r.pin = 1
  PROVE  FramesSound([fr EXCEPT ![i] = r], g, [sc EXCEPT ![p] = sc[p] + 1], lat)
<1> DEFINE fq == [fr EXCEPT ![i] = r]
           sq == [sc EXCEPT ![p] = sc[p] + 1]
<1>1. FramesOK(fr, f, sc, lat) /\ OneFrame(fr) /\ Unheld(fr, f, sc, lat)
  BY DEF FramesSound
<1>2. /\ FramesOK(fq, g, sq, lat)
      /\ fq[i] = r /\ \A j \in Slot : j # i => fq[j] = fr[j]
      /\ sq[p] = sc[p] + 1 /\ \A q \in PageId : q # p => sq[q] = sc[q]
  BY <1>1 DEF FramesOK
<1>3. f[p] = lat[p] /\ sc[p] = 0
  BY <1>1 DEF Unheld
<1> HIDE DEF fq, sq
<1>4. \A j \in Slot : fr[j].id # p
  BY DEF At
<1>0. \A q \in PageId : g[q] = IF q = fr[i].id THEN fr[i].cells ELSE f[q]
  BY DEF WrittenBack
<1>5. g[p] = lat[p]
  BY <1>0, <1>3, <1>4
<1>6. OneFrame(fq)
  BY <1>1, <1>2, <1>4 DEF OneFrame
<1>7. ASSUME NEW j \in Slot PROVE Held(fq[j], g, sq, lat)
  <2>1. CASE j = i
    BY <1>2, <1>3, <1>5, <2>1 DEF Held
  <2>2. CASE j # i
    <3>1. Held(fr[j], f, sc, lat) /\ fq[j] = fr[j]
      BY <1>2, <2>2 DEF FramesSound
    <3>2. fr[j].id \in PageId => fr[j].id # p /\ fr[j].id # fr[i].id
      BY <1>1, <1>4, <2>2 DEF OneFrame
    <3> QED
      BY <1>0, <1>2, <3>1, <3>2 DEF Held
  <2> QED
    BY <2>1, <2>2
<1>8. Unheld(fq, g, sq, lat)
  <2> SUFFICES ASSUME NEW q \in PageId, At(fq, q) = {}
               PROVE  g[q] = lat[q] /\ sq[q] = 0
    BY DEF Unheld
  <2>1. q # p
    BY <1>2 DEF At
  <2>2. CASE fr[i].id = q
    <3>1. fr[i].cells = lat[q] /\ fr[i].pin = sc[q]
      BY <2>2 DEF FramesSound, Held
    <3> QED
      BY <1>0, <1>2, <2>1, <2>2, <3>1
  <2>3. CASE fr[i].id # q
    <3>1. At(fr, q) = {}
      BY <1>2, <2>3 DEF At
    <3> QED
      BY <1>0, <1>1, <1>2, <2>1, <2>3, <3>1 DEF Unheld
  <2> QED
    BY <2>2, <2>3
<1> QED
  BY <1>2, <1>6, <1>7, <1>8 DEF FramesSound, fq, sq

\* buffer_pool_get_page: the page is in the frame it returns, pinned once more.
LEMMA GetPageSound ==
  ASSUME BufferInv, NEW p \in PageId, CanGet(p)
  PROVE  /\ FramesSound(buffer_pool_get_page(p).frame,
                        buffer_pool_get_page(p).file,
                        [scans EXCEPT ![p] = scans[p] + 1], latest)
         /\ buffer_pool_get_page(p).slot \in Slot
         /\ buffer_pool_get_page(p).frame[buffer_pool_get_page(p).slot].id = p
<1> DEFINE stamp == clock + 1
           hit == At(frame, p) # {}
           i == IF hit THEN FirstOf(At(frame, p))
                ELSE IF At(frame, UINT32_MAX) # {} THEN FirstOf(At(frame, UINT32_MAX))
                ELSE buffer_pool_evict(frame)
           f == IF hit \/ frame[i].id = UINT32_MAX THEN file
                ELSE WriteBack(frame, file, i)
           new == [id |-> p, cells |-> f[p], dirty |-> FALSE, pin |-> 1, used |-> stamp]
           old == [frame[i] EXCEPT !.used = stamp, !.pin = @ + 1]
           g == buffer_pool_get_page(p)
<1>1. /\ FramesSound(frame, file, scans, latest) /\ stamp \in Nat
      /\ FramesOK(frame, file, scans, latest)
  BY DEF BufferInv, FramesSound
<1>2. g = [slot |-> i, file |-> f,
           frame |-> [frame EXCEPT ![i] = IF hit THEN old ELSE new]]
  BY DEF buffer_pool_get_page, pager_read
<1>3. g.slot = i /\ g.file = f
      /\ g.frame = [frame EXCEPT ![i] = IF hit THEN old ELSE new]
  BY <1>2
<1> HIDE DEF g
<1>4. CASE hit
  <2>1. i = FirstOf(At(frame, p)) /\ f = file
    BY <1>4
  <2>2. i \in At(frame, p)
    <3>1. At(frame, p) \subseteq Slot
      BY DEF At
    <3> QED
      BY <1>4, <2>1, <3>1, FirstOfIn
  <2>3. i \in Slot /\ frame[i].id = p
    BY <2>2 DEF At
  <2> HIDE DEF i, f
  <2>4. frame[i] \in Frame /\ latest \in [PageId -> CellList]
    BY <1>1, <2>3 DEF FramesOK
  <2>5. frame[i].cells = latest[p] /\ frame[i].pin = scans[p]
        /\ (~ frame[i].dirty => file[p] = latest[p])
    BY <1>1, <2>3 DEF FramesSound, Held
  <2> HIDE DEF stamp
  <2>6. /\ old \in Frame /\ old.id = p /\ old.cells = latest[p]
        /\ old.pin = scans[p] + 1 /\ old.dirty = frame[i].dirty
    <3>1. /\ old.id = p /\ old.cells = latest[p] /\ old.dirty = frame[i].dirty
          /\ old.pin = scans[p] + 1 /\ old.used = stamp
      BY <2>3, <2>4, <2>5 DEF Frame
    <3>2. frame[i].pin + 1 \in Nat
      BY <2>4 DEF Frame
    <3>3. old \in Frame
      BY <1>1, <2>4, <3>2 DEF Frame
    <3> QED
      BY <3>1, <3>3
  <2>7. latest[p] \in CellList /\ scans[p] + 1 \in Nat
        /\ [latest EXCEPT ![p] = latest[p]] = latest
    BY <1>1 DEF FramesOK
  <2> HIDE DEF old
  <2>8. FramesSound([frame EXCEPT ![i] = old], file,
                    [scans EXCEPT ![p] = scans[p] + 1], [latest EXCEPT ![p] = latest[p]])
    BY <1>1, <2>3, <2>5, <2>6, <2>7, FrameChange
  <2>9. [frame EXCEPT ![i] = old][i] = old
    BY <1>1, <2>3 DEF FramesOK
  <2> QED
    BY <1>3, <1>4, <2>1, <2>3, <2>6, <2>7, <2>8, <2>9 DEF g
<1>5. CASE ~ hit
  <2>1. i \in Slot /\ (frame[i].id \in PageId => frame[i].pin = 0)
        /\ f \in [PageId -> CellList]
        /\ WrittenBack(frame, i, file, f)
    <3>1. CASE At(frame, UINT32_MAX) # {}
      <4>1. i = FirstOf(At(frame, UINT32_MAX))
        BY <1>5, <3>1
      <4>2. i \in At(frame, UINT32_MAX)
        <5>1. At(frame, UINT32_MAX) \subseteq Slot
          BY DEF At
        <5> QED
          BY <3>1, <4>1, <5>1, FirstOfIn
      <4>3. i \in Slot /\ frame[i].id = UINT32_MAX /\ f = file
        BY <4>2 DEF At
      <4> QED
        BY <1>1, <4>3, BufferAssumption DEF FramesOK, WrittenBack
    <3>2. CASE At(frame, UINT32_MAX) = {}
      <4>1. i = buffer_pool_evict(frame) /\ Evictable(frame) # {}
        BY <1>5, <3>2 DEF CanGet
      <4>2. i \in Slot /\ frame[i].pin = 0
        BY <1>1, <4>1, EvictsUnpinned DEF FramesOK
      <4>3. frame[i].id \in PageId /\ frame[i] \in Frame
        BY <1>1, <3>2, <4>2 DEF FramesOK, Frame, At
      <4>4. frame[i].id # UINT32_MAX /\ f = WriteBack(frame, file, i)
        BY <1>5, <4>3, BufferAssumption
      <4> HIDE DEF i, f
      <4>5. ~ frame[i].dirty => file[frame[i].id] = frame[i].cells
        BY <1>1, <4>2, <4>3 DEF FramesSound, Held
      <4>6. frame[i].cells \in CellList
        BY <4>3 DEF Frame
      <4> QED
        BY <1>1, <4>2, <4>3, <4>4, <4>5, <4>6
           DEF FramesOK, WriteBack, pager_write, WrittenBack
    <3> QED
      BY <3>1, <3>2
  <2>2. new \in Frame /\ new.id = p /\ new.cells = f[p] /\ new.pin = 1
    BY <1>1, <2>1 DEF Frame
  <2> HIDE DEF i, f, new
  <2>3. FramesSound([frame EXCEPT ![i] = new], f,
                    [scans EXCEPT ![p] = scans[p] + 1], latest)
    BY <1>1, <1>5, <2>1, <2>2, FrameLoad
  <2>4. [frame EXCEPT ![i] = new][i] = new
    BY <1>1, <2>1 DEF FramesOK
  <2> QED
    BY <1>3, <1>5, <2>1, <2>2, <2>3, <2>4 DEF g
<1> QED
  BY <1>4, <1>5

\* buffer_pool_unpin takes one pin off.
LEMMA UnpinSound ==
  ASSUME NEW fr, NEW f, NEW sc, NEW lat,
         FramesSound(fr, f, sc, lat), NEW p \in PageId, sc[p] > 0
  PROVE  FramesSound(buffer_pool_unpin(fr, p), f, [sc EXCEPT ![p] = sc[p] - 1], lat)
<1>1. FramesOK(fr, f, sc, lat) /\ OneFrame(fr) /\ Unheld(fr, f, sc, lat)
  BY DEF FramesSound
<1>2. sc[p] \in Nat /\ sc[p] # 0 /\ sc[p] - 1 \in Nat
  BY <1>1 DEF FramesOK
<1>3. At(fr, p) # {}
  BY <1>1, <1>2 DEF Unheld
<1>4. PICK i \in Slot : fr[i].id = p
  BY <1>3 DEF At
<1>5. FirstOf(At(fr, p)) = i
  BY <1>1, <1>4, FirstIsOnly
<1>6. fr[i] \in Frame /\ fr[i].cells = lat[p] /\ fr[i].pin = sc[p]
      /\ (~ fr[i].dirty => f[p] = lat[p])
  BY <1>1, <1>4 DEF FramesSound, FramesOK, Held
<1> DEFINE r == [fr[i] EXCEPT !.pin = sc[p] - 1]
<1>7. buffer_pool_unpin(fr, p) = [fr EXCEPT ![i] = r]
  BY <1>1, <1>2, <1>3, <1>5, <1>6 DEF buffer_pool_unpin, FramesOK
<1>8. /\ r \in Frame /\ r.id = p /\ r.pin = sc[p] - 1 /\ r.cells = lat[p]
      /\ r.dirty = fr[i].dirty
  BY <1>2, <1>4, <1>6 DEF Frame
<1>9. lat[p] \in CellList /\ [lat EXCEPT ![p] = lat[p]] = lat
  BY <1>1 DEF FramesOK
<1> HIDE DEF r
<1>10. FramesSound([fr EXCEPT ![i] = r], f, [sc EXCEPT ![p] = sc[p] - 1],
                   [lat EXCEPT ![p] = lat[p]])
  BY <1>2, <1>4, <1>6, <1>8, <1>9, FrameChange
<1> QED
  BY <1>7, <1>9, <1>10

\* An insert changes the page in its frame and marks the frame dirty.
LEMMA CellsSound ==
  ASSUME NEW fr, NEW f, NEW sc, NEW lat,
         FramesSound(fr, f, sc, lat), NEW p \in PageId, NEW i \in Slot,
         fr[i].id = p, NEW c \in CellList
  PROVE  FramesSound(buffer_pool_mark_dirty([fr EXCEPT ![i].cells = c], p),
                     f, sc, [lat EXCEPT ![p] = c])
<1> DEFINE fc == [fr EXCEPT ![i].cells = c]
           r == [fr[i] EXCEPT !.cells = c, !.dirty = TRUE]
<1>1. FramesOK(fr, f, sc, lat) /\ OneFrame(fr)
  BY DEF FramesSound
<1>2. fr[i] \in Frame /\ fr[i].pin = sc[p] /\ sc[p] \in Nat
  BY <1>1 DEF FramesSound, FramesOK, Held
<1>3. /\ fc = [fr EXCEPT ![i] = [fr[i] EXCEPT !.cells = c]]
      /\ fc[i] = [fr[i] EXCEPT !.cells = c]
      /\ \A j \in Slot : j # i => fc[j] = fr[j]
  BY <1>1, <1>2 DEF FramesOK
<1>4. \A j \in Slot : fc[j].id = fr[j].id
  BY <1>2, <1>3 DEF Frame
<1>5. OneFrame(fc) /\ fc[i].id = p
  BY <1>1, <1>4 DEF OneFrame
<1> HIDE DEF fc
<1>6. At(fc, p) # {} /\ FirstOf(At(fc, p)) = i
  BY <1>5, FirstIsOnly
<1>7. buffer_pool_mark_dirty(fc, p) = [fc EXCEPT ![i].dirty = TRUE]
  BY <1>6 DEF buffer_pool_mark_dirty
<1>8. [fc EXCEPT ![i].dirty = TRUE] = [fr EXCEPT ![i] = r]
  BY <1>1, <1>2, <1>3 DEF FramesOK, Frame
<1>9. r \in Frame /\ r.id = p /\ r.pin = sc[p] /\ r.cells = c /\ r.dirty
  BY <1>2 DEF Frame
<1>10. [sc EXCEPT ![p] = sc[p]] = sc
  BY <1>1 DEF FramesOK
<1> HIDE DEF r
<1>11. FramesSound([fr EXCEPT ![i] = r], f, [sc EXCEPT ![p] = sc[p]],
                   [lat EXCEPT ![p] = c])
  BY <1>2, <1>9, FrameChange
<1> QED
  BY <1>7, <1>8, <1>10, <1>11 DEF fc

\* buffer_pool_flush_all leaves the file with every page as it is.
LEMMA FlushSound ==
  ASSUME NEW fr, NEW f, NEW sc, NEW lat,
         FramesSound(fr, f, sc, lat)
  PROVE  Flushed(f, fr) = lat
<1>1. FramesOK(fr, f, sc, lat) /\ OneFrame(fr) /\ Unheld(fr, f, sc, lat)
  BY DEF FramesSound
<1>2. ASSUME NEW p \in PageId PROVE Flushed(f, fr)[p] = lat[p]
  <2> DEFINE D == {i \in Slot : fr[i].id = p /\ fr[i].dirty}
  <2>1. Flushed(f, fr)[p] = IF D # {} THEN fr[FirstOf(D)].cells ELSE f[p]
    <3>1. (\E i \in Slot : fr[i].id = p /\ fr[i].dirty) <=> D # {}
      OBVIOUS
    <3> QED
      BY <3>1 DEF Flushed
  <2>2. CASE D # {}
    <3>1. FirstOf(D) \in D
      <4>1. D \subseteq Slot
        OBVIOUS
      <4> QED
        BY <2>2, <4>1, FirstOfIn
    <3>2. fr[FirstOf(D)].cells = lat[p]
      BY <3>1 DEF FramesSound, Held
    <3> QED
      BY <2>1, <2>2, <3>2
  <2>3. CASE D = {}
    <3>1. CASE At(fr, p) = {}
      BY <1>1, <2>1, <2>3, <3>1 DEF Unheld
    <3>2. CASE At(fr, p) # {}
      <4>1. PICK i \in Slot : fr[i].id = p
        BY <3>2 DEF At
      <4>2. ~ fr[i].dirty
        BY <2>3, <4>1
      <4>3. f[p] = lat[p]
        BY <4>1, <4>2 DEF FramesSound, Held
      <4> QED
        BY <2>1, <2>3, <4>3
    <3> QED
      BY <3>1, <3>2
  <2> QED
    BY <2>2, <2>3
<1>3. Flushed(f, fr) = [p \in PageId |-> Flushed(f, fr)[p]]
  BY DEF Flushed
<1>4. lat = [p \in PageId |-> lat[p]]
  BY <1>1 DEF FramesOK
<1> QED
  BY <1>2, <1>3, <1>4

-----------------------------------------------------------------------------
(* The steps. *)

LEMMA InsertInv ==
  ASSUME BufferInv, NEW p \in PageId, NEW k \in CellKey,
         leaf_node_insert(p, k)
  PROVE  BufferInv'
<1> DEFINE g == buffer_pool_get_page(p)
           sq == [scans EXCEPT ![p] = scans[p] + 1]
           c == g.frame[g.slot].cells
           full == Len(c) >= LEAF_NODE_MAX_CELLS
           changed == IF full THEN g.frame
                      ELSE buffer_pool_mark_dirty([g.frame EXCEPT ![g.slot].cells = LeafCells(c, k)], p)
           lq == [latest EXCEPT ![p] = IF Len(@) >= LEAF_NODE_MAX_CELLS THEN @
                                       ELSE LeafCells(@, k)]
<1>1. /\ CanGet(p) /\ frame' = buffer_pool_unpin(changed, p) /\ file' = g.file
      /\ latest' = lq /\ clock' = clock + 1 /\ scans' = scans
  BY DEF leaf_node_insert
<1>2. /\ FramesSound(g.frame, g.file, sq, latest) /\ g.slot \in Slot
      /\ g.frame[g.slot].id = p
  BY <1>1, GetPageSound
<1>3. /\ scans \in [PageId -> Nat] /\ latest \in [PageId -> CellList]
      /\ clock' \in Nat
  BY <1>1 DEF BufferInv, FramesSound, FramesOK
<1>4. sq[p] > 0 /\ sq[p] = scans[p] + 1
  BY <1>3
<1>5. [sq EXCEPT ![p] = sq[p] - 1] = scans
  <2>1. scans[p] \in Nat /\ sq[p] - 1 = scans[p]
    BY <1>3, <1>4
  <2>2. [sq EXCEPT ![p] = scans[p]] = scans
    BY <1>3
  <2> QED
    BY <2>1, <2>2
<1> HIDE DEF g, sq
<1>6. c = latest[p]
  BY <1>2 DEF FramesSound, Held
<1>7. latest[p] \in CellList /\ InKeyOrder(latest[p]) /\ AllInOrder(latest)
  BY <1>3 DEF BufferInv, AllInOrder
<1>8. FramesSound(changed, g.file, sq, lq) /\ AllInOrder(lq)
  <2>1. CASE full
    <3>1. lq = latest /\ changed = g.frame
      BY <1>3, <1>6, <2>1
    <3> QED
      BY <1>2, <1>7, <3>1
  <2>2. CASE ~ full
    <3> DEFINE d == LeafCells(c, k)
    <3>1. lq = [latest EXCEPT ![p] = d]
      BY <1>6, <2>2
    <3>2. changed = buffer_pool_mark_dirty([g.frame EXCEPT ![g.slot].cells = d], p)
      BY <2>2
    <3>3. d \in CellList /\ InKeyOrder(d)
      BY <1>6, <1>7, <2>2, CellsInserted
    <3> HIDE DEF d, changed, lq, c
    <3>4. FramesSound(buffer_pool_mark_dirty([g.frame EXCEPT ![g.slot].cells = d], p),
                      g.file, sq, [latest EXCEPT ![p] = d])
      BY <1>2, <3>3, CellsSound
    <3>5. AllInOrder([latest EXCEPT ![p] = d])
      BY <1>3, <1>7, <3>3 DEF AllInOrder
    <3> QED
      BY <3>1, <3>2, <3>4, <3>5
  <2> QED
    BY <2>1, <2>2
<1> HIDE DEF changed, lq
<1>9. FramesSound(buffer_pool_unpin(changed, p), g.file,
                  [sq EXCEPT ![p] = sq[p] - 1], lq)
  BY <1>4, <1>8, UnpinSound
<1> QED
  BY <1>1, <1>3, <1>5, <1>8, <1>9 DEF BufferInv

LEMMA ScanInv ==
  ASSUME BufferInv, NEW p \in PageId, ScanStart(p) \/ ScanEnd(p)
  PROVE  BufferInv'
<1>1. /\ FramesSound(frame, file, scans, latest)
      /\ scans \in [PageId -> Nat] /\ clock \in Nat
  BY DEF BufferInv, FramesSound, FramesOK
<1>2. CASE ScanStart(p)
  <2>1. /\ CanGet(p) /\ frame' = buffer_pool_get_page(p).frame
        /\ file' = buffer_pool_get_page(p).file /\ latest' = latest
        /\ clock' = clock + 1 /\ scans' = [scans EXCEPT ![p] = scans[p] + 1]
    BY <1>2 DEF ScanStart
  <2>2. FramesSound(buffer_pool_get_page(p).frame, buffer_pool_get_page(p).file,
                    [scans EXCEPT ![p] = scans[p] + 1], latest)
    BY <2>1, GetPageSound
  <2> QED
    BY <1>1, <2>1, <2>2 DEF BufferInv
<1>3. CASE ScanEnd(p)
  <2>1. /\ scans[p] > 0 /\ frame' = buffer_pool_unpin(frame, p)
        /\ scans' = [scans EXCEPT ![p] = scans[p] - 1]
        /\ clock' = clock /\ file' = file /\ latest' = latest
    BY <1>3 DEF ScanEnd
  <2>2. FramesSound(buffer_pool_unpin(frame, p), file,
                    [scans EXCEPT ![p] = scans[p] - 1], latest)
    BY <1>1, <2>1, UnpinSound
  <2> QED
    BY <1>1, <2>1, <2>2 DEF BufferInv
<1> QED
  BY <1>2, <1>3

LEMMA FlushInv ==
  ASSUME BufferInv, buffer_pool_flush_all
  PROVE  BufferInv'
<1>1. /\ FramesSound(frame, file, scans, latest) /\ clock \in Nat
      /\ FramesOK(frame, file, scans, latest) /\ OneFrame(frame)
      /\ Unheld(frame, file, scans, latest)
  BY DEF BufferInv, FramesSound
<1>2. /\ frame' = [i \in Slot |-> [frame[i] EXCEPT !.dirty = FALSE]]
      /\ clock' = clock /\ scans' = scans /\ latest' = latest
      /\ file' = Flushed(file, frame)
  BY DEF buffer_pool_flush_all
<1>3. file' = latest
  BY <1>1, <1>2, FlushSound
<1>4. ASSUME NEW i \in Slot
      PROVE  /\ frame'[i] \in Frame /\ frame'[i].id = frame[i].id
             /\ frame'[i].cells = frame[i].cells /\ frame'[i].pin = frame[i].pin
  BY <1>1, <1>2 DEF FramesOK, Frame
<1>5. FramesOK(frame', file', scans', latest')
  BY <1>1, <1>2, <1>3, <1>4 DEF FramesOK
<1>6. OneFrame(frame')
  BY <1>1, <1>4 DEF OneFrame
<1>7. ASSUME NEW i \in Slot PROVE Held(frame'[i], file', scans', latest')
  BY <1>1, <1>2, <1>3, <1>4 DEF FramesSound, Held
<1>8. Unheld(frame', file', scans', latest')
  <2>1. \A p \in PageId : At(frame', p) = At(frame, p)
    BY <1>4 DEF At
  <2>2. \A p \in PageId : At(frame, p) = {} => scans[p] = 0
    BY <1>1 DEF Unheld
  <2>3. scans' = scans /\ file' = latest /\ latest' = latest
    BY <1>2, <1>3
  <2> QED
    BY <2>1, <2>2, <2>3 DEF Unheld
<1> QED
  BY <1>1, <1>2, <1>5, <1>6, <1>7, <1>8 DEF BufferInv, FramesSound

LEMMA EmptyPool ==
  ASSUME NEW sc \in [PageId -> Nat],
         \A p \in PageId : sc[p] = 0, NEW lat \in [PageId -> CellList]
  PROVE  FramesSound([i \in Slot |-> EmptyFrame], lat, sc, lat)
<1>1. EmptyFrame \in Frame /\ EmptyFrame.id \notin PageId
  BY NoCells, BufferAssumption DEF EmptyFrame, Frame
<1> QED
  BY <1>1 DEF FramesSound, FramesOK, OneFrame, Held, Unheld

LEMMA CloseInv ==
  ASSUME BufferInv, db_close
  PROVE  BufferInv'
<1>1. /\ FramesSound(frame, file, scans, latest)
      /\ FramesOK(frame, file, scans, latest)
  BY DEF BufferInv, FramesSound
<1>2. /\ frame' = [i \in Slot |-> EmptyFrame] /\ clock' = 0 /\ scans' = scans
      /\ latest' = latest /\ file' = Flushed(file, frame)
      /\ \A p \in PageId : scans[p] = 0
  BY DEF db_close
<1>3. file' = latest
  BY <1>1, <1>2, FlushSound
<1> QED
  BY <1>1, <1>2, <1>3, EmptyPool DEF BufferInv, FramesOK

LEMMA InitBufferInv == buffer_pool_init => BufferInv
<1> SUFFICES ASSUME buffer_pool_init PROVE BufferInv
  OBVIOUS
<1>1. /\ frame = [i \in Slot |-> EmptyFrame] /\ file = latest /\ clock = 0
      /\ scans \in [PageId -> Nat] /\ latest \in [PageId -> CellList]
      /\ \A p \in PageId : scans[p] = 0
  BY NoCells DEF buffer_pool_init
<1>2. AllInOrder(latest)
  BY NoCellsInOrder DEF buffer_pool_init, AllInOrder
<1> QED
  BY <1>1, <1>2, EmptyPool DEF BufferInv

LEMMA NextBufferInv ==
  ASSUME BufferInv, [PoolNext]_bvars
  PROVE  BufferInv'
<1>1. CASE UNCHANGED bvars
  BY <1>1 DEF bvars, BufferInv, FramesSound, FramesOK, OneFrame, Held, Unheld, At
<1>2. ASSUME NEW p \in PageId, NEW k \in CellKey, leaf_node_insert(p, k)
      PROVE  BufferInv'
  BY <1>2, InsertInv
<1>3. ASSUME NEW p \in PageId, ScanStart(p) \/ ScanEnd(p) PROVE BufferInv'
  BY <1>3, ScanInv
<1>4. CASE buffer_pool_flush_all \/ db_close
  BY <1>4, FlushInv, CloseInv
<1> QED
  BY <1>1, <1>2, <1>3, <1>4 DEF PoolNext

LEMMA BufferInvKeeps ==
  ASSUME BufferInv
  PROVE  PoolKeepsPages
<1>1. /\ FramesSound(frame, file, scans, latest) /\ OneFrame(frame) /\ AllInOrder(latest)
      /\ Unheld(frame, file, scans, latest) /\ scans \in [PageId -> Nat]
  BY DEF BufferInv, FramesSound, FramesOK
<1> SUFFICES ASSUME NEW p \in PageId
             PROVE  /\ (IF At(frame, p) = {} THEN file[p]
                        ELSE frame[FirstOf(At(frame, p))].cells) = latest[p]
                    /\ InKeyOrder(latest[p])
                    /\ \A i, j \in At(frame, p) : i = j
                    /\ scans[p] > 0 => At(frame, p) # {}
                    /\ \A i \in At(frame, p) : frame[i].pin = scans[p]
  BY DEF PoolKeepsPages
<1>2. CASE At(frame, p) = {}
  BY <1>1, <1>2 DEF Unheld, AllInOrder
<1>3. CASE At(frame, p) # {}
  <2>1. PICK i \in Slot : frame[i].id = p
    BY <1>3 DEF At
  <2>2. At(frame, p) = {i} /\ FirstOf(At(frame, p)) = i
    BY <1>1, <2>1, FirstIsOnly
  <2>3. frame[i].cells = latest[p] /\ frame[i].pin = scans[p]
    BY <1>1, <2>1 DEF FramesSound, Held
  <2> QED
    BY <1>1, <1>3, <2>2, <2>3 DEF AllInOrder
<1> QED
  BY <1>2, <1>3

(* buffer_pool_get_page, buffer_pool_evict, buffer_pool_unpin and
   leaf_node_insert: for any number of frames, pages and cells, a page is in at
   most one frame, a page that is pointed to is in a frame that counts the
   pointers, no insert is lost by an eviction, a write-back or a restart, and
   the binary search puts every key where the page stays in key order. *)
THEOREM PagesKept ==
  buffer_pool_init /\ [][PoolNext]_bvars => []PoolKeepsPages
<1>1. buffer_pool_init => BufferInv
  BY InitBufferInv
<1>2. BufferInv /\ [PoolNext]_bvars => BufferInv'
  BY NextBufferInv
<1>3. BufferInv => PoolKeepsPages
  BY BufferInvKeeps
<1> QED
  BY <1>1, <1>2, <1>3, PTL

-----------------------------------------------------------------------------
(* The client pool. *)

ClientSlot == [id : Client \cup {NoClient}, idle : BOOLEAN]

ClientsInv ==
  /\ clients \in Seq(ClientSlot) /\ Len(clients) > 0
  /\ client_count \in Int /\ strays \in Nat
  /\ ClientsCounted

LEMMA SlotValues ==
  ASSUME NEW c \in Client \cup {NoClient}, NEW b \in BOOLEAN
  PROVE  [id |-> c, idle |-> b] \in ClientSlot
BY DEF ClientSlot

LEMMA IdleValue ==
  ASSUME NEW s \in ClientSlot, NEW b \in BOOLEAN
  PROVE  [s EXCEPT !.idle = b] \in ClientSlot /\ [s EXCEPT !.idle = b].id = s.id
BY DEF ClientSlot

LEMMA FreeSlotValue == FreeSlot \in ClientSlot /\ FreeSlot.id = NoClient
<1>1. FALSE \in BOOLEAN
  OBVIOUS
<1>2. [id |-> NoClient, idle |-> FALSE] \in ClientSlot
  BY <1>1, SlotValues
<1> QED
  BY <1>2 DEF FreeSlot

LEMMA ClientSlots ==
  ASSUME ClientsInv
  PROVE  /\ DOMAIN clients = 1 .. Len(clients) /\ Len(clients) \in Nat
         /\ \A i \in 1 .. Len(clients) : clients[i] \in ClientSlot
         /\ Used \subseteq 1 .. Len(clients)
         /\ IsFiniteSet(Used) /\ Cardinality(Used) \in Nat
<1>1. /\ DOMAIN clients = 1 .. Len(clients) /\ Len(clients) \in Nat
      /\ \A i \in 1 .. Len(clients) : clients[i] \in ClientSlot
  BY LenProperties, ElementOfSeq DEF ClientsInv
<1>2. Used \subseteq 1 .. Len(clients)
  BY <1>1 DEF Used
<1>3. IsFiniteSet(1 .. Len(clients))
  BY <1>1, FS_Interval
<1> QED
  BY <1>1, <1>2, <1>3, FS_Subset, FS_CardinalityType

LEMMA FirstInIn ==
  ASSUME NEW S, S \subseteq Nat, S # {}
  PROVE  FirstIn(S) \in S
BY LeastNumber DEF FirstIn

\* A step that stores e in place k.
LEMMA StoreSlot ==
  ASSUME ClientsInv, NEW k \in 1 .. Len(clients), NEW e \in ClientSlot,
         clients' = [clients EXCEPT ![k] = e]
  PROVE  /\ clients' \in Seq(ClientSlot) /\ Len(clients') = Len(clients)
         /\ e.id = NoClient => Used' = Used \ {k}
         /\ e.id # NoClient => Used' = Used \cup {k}
<1>1. /\ DOMAIN clients = 1 .. Len(clients) /\ Len(clients) \in Nat
      /\ clients \in Seq(ClientSlot)
  BY ClientSlots DEF ClientsInv
<1>2. /\ clients' \in Seq(ClientSlot) /\ Len(clients') = Len(clients)
      /\ \A j \in 1 .. Len(clients) : clients'[j] = IF j = k THEN e ELSE clients[j]
  BY <1>1, ExceptSeq
<1>3. DOMAIN clients' = 1 .. Len(clients)
  BY <1>1
<1> QED
  BY <1>1, <1>2, <1>3 DEF Used

LEMMA AcceptInv ==
  ASSUME ClientsInv, NEW c \in Client, client_accept(c)
  PROVE  ClientsInv'
<1> DEFINE free == DOMAIN clients \ Used
           n == Len(clients)
           e == [id |-> c, idle |-> FALSE]
<1>1. /\ DOMAIN clients = 1 .. n /\ n \in Nat /\ clients \in Seq(ClientSlot)
      /\ \A i \in 1 .. n : clients[i] \in ClientSlot
      /\ Used \subseteq 1 .. n /\ IsFiniteSet(Used) /\ Cardinality(Used) \in Nat
  BY ClientSlots DEF ClientsInv
<1>2. e \in ClientSlot /\ e.id # NoClient
  <2>1. FALSE \in BOOLEAN
    OBVIOUS
  <2>2. e \in ClientSlot
    BY <2>1, SlotValues
  <2> QED
    BY <2>2, ClientAssumption
<1>3. /\ client_count < max_clients /\ client_count' = client_count + 1
      /\ strays' = strays
      /\ IF free # {} THEN clients' = [clients EXCEPT ![FirstIn(free)] = e]
         ELSE clients' = [i \in 1 .. 2 * n |-> IF i <= n THEN clients[i]
                                             ELSE IF i = n + 1 THEN e ELSE FreeSlot]
  BY DEF client_accept
<1> HIDE DEF e
<1>4. /\ clients' \in Seq(ClientSlot) /\ Len(clients') > 0
      /\ \E k : k \notin Used /\ Used' = Used \cup {k}
  <2>1. CASE free # {}
    <3>1. FirstIn(free) \in 1 .. n /\ FirstIn(free) \notin Used
      <4>1. FirstIn(free) \in free
        BY <1>1, <2>1, FirstInIn
      <4> QED
        BY <1>1, <4>1
    <3> QED
      BY <1>2, <1>3, <2>1, <3>1, StoreSlot DEF ClientsInv
  <2>2. CASE free = {}
    <3>1. clients' = [i \in 1 .. 2 * n |-> IF i <= n THEN clients[i]
                                         ELSE IF i = n + 1 THEN e ELSE FreeSlot]
      BY <1>3, <2>2
    <3>2. 2 * n \in Nat /\ \A i \in 1 .. 2 * n : clients'[i] \in ClientSlot
      BY <1>1, <1>2, <3>1, FreeSlotValue
    <3>3. clients' = [i \in 1 .. 2 * n |-> clients'[i]]
      BY <3>1
    <3>4. clients' \in Seq(ClientSlot)
      BY <3>2, <3>3, IsASeq
    <3>5. Used = 1 .. n
      BY <1>1, <2>2
    <3>6. Used' = {i \in 1 .. 2 * n : clients'[i].id # NoClient}
      BY <3>3 DEF Used
    <3>7. n > 0 /\ n + 1 \notin Used
      BY <1>1, <3>5 DEF ClientsInv
    <3>8. \A i \in 1 .. 2 * n : clients'[i].id # NoClient <=> i \in Used \cup {n + 1}
      <4>1. \A i \in 1 .. n : clients[i].id # NoClient
        BY <1>1, <3>5 DEF Used
      <4>2. \A i \in 1 .. 2 * n : clients'[i] = IF i <= n THEN clients[i]
                                               ELSE IF i = n + 1 THEN e ELSE FreeSlot
        BY <3>1
      <4> QED
        BY <1>1, <1>2, <3>5, <4>1, <4>2, FreeSlotValue
    <3>9. Used \cup {n + 1} \subseteq 1 .. 2 * n
      BY <1>1, <3>5, <3>7
    <3>10. Used' = Used \cup {n + 1}
      BY <3>6, <3>8, <3>9
    <3>11. Len(clients') = 2 * n
      BY <3>2, <3>3, <3>4, LenProperties
    <3> QED
      BY <1>1, <3>4, <3>7, <3>10, <3>11
  <2> QED
    BY <2>1, <2>2
<1>5. PICK k : k \notin Used /\ Used' = Used \cup {k}
  BY <1>4
<1>6. Cardinality(Used') = Cardinality(Used) + 1
  BY <1>1, <1>5, FS_AddElement
<1> QED
  BY <1>1, <1>3, <1>4, <1>6, ClientAssumption
    DEF ClientsInv, ClientsCounted

LEMMA DisconnectInv ==
  ASSUME ClientsInv, NEW c, client_disconnect(c)
  PROVE  ClientsInv'
<1> DEFINE at == {i \in DOMAIN clients : clients[i].id = c}
           k == FirstIn(at)
<1>1. /\ DOMAIN clients = 1 .. Len(clients) /\ Len(clients) \in Nat
      /\ IsFiniteSet(Used) /\ Cardinality(Used) \in Nat
  BY ClientSlots
<1>2. CASE at = {}
  BY <1>2 DEF client_disconnect, ClientsInv, ClientsCounted, Used
<1>3. CASE at # {}
  <2>1. /\ clients' = [clients EXCEPT ![k] = FreeSlot]
        /\ client_count' = client_count - 1
        /\ strays' = IF c = NoClient THEN strays + 1 ELSE strays
    BY <1>3 DEF client_disconnect
  <2>2. k \in at
    <3>1. at \subseteq Nat
      BY <1>1
    <3> HIDE DEF at
    <3> QED
      BY <1>3, <3>1, FirstInIn
  <2>3. k \in 1 .. Len(clients) /\ clients[k].id = c
    BY <1>1, <2>2
  <2> HIDE DEF k
  <2>4. /\ clients' \in Seq(ClientSlot) /\ Len(clients') = Len(clients)
        /\ Used' = Used \ {k}
    BY <2>1, <2>3, FreeSlotValue, StoreSlot
  <2>5. CASE c = NoClient
    <3>1. k \notin Used
      BY <2>3, <2>5 DEF Used
    <3>2. Used' = Used
      BY <2>4, <3>1
    <3>3. Cardinality(Used') = Cardinality(Used)
      BY <3>2
    <3>4. strays' = strays + 1
      BY <2>1, <2>5
    <3> QED
      BY <1>1, <2>1, <2>4, <3>3, <3>4, ClientAssumption
    DEF ClientsInv, ClientsCounted
  <2>6. CASE c # NoClient
    <3>1. k \in Used
      BY <1>1, <2>3, <2>6 DEF Used
    <3>2. Cardinality(Used') = Cardinality(Used) - 1
      BY <1>1, <2>4, <3>1, FS_RemoveElement
    <3> QED
      BY <1>1, <2>1, <2>4, <2>6, <3>2, ClientAssumption
    DEF ClientsInv, ClientsCounted
  <2> QED
    BY <2>5, <2>6
<1> QED
  BY <1>2, <1>3

LEMMA NextClientsInv ==
  ASSUME ClientsInv, [ClientsNext]_cpvars
  PROVE  ClientsInv'
<1>1. CASE UNCHANGED <<clients, client_count, strays>>
  BY <1>1 DEF ClientsInv, ClientsCounted, Used
<1>2. ASSUME NEW i \in DOMAIN clients, ClientIdles(i)
      PROVE  ClientsInv'
  <2> DEFINE e == [clients[i] EXCEPT !.idle = TRUE]
  <2>1. i \in 1 .. Len(clients) /\ clients[i] \in ClientSlot /\ i \in Used
    BY <1>2, ClientSlots DEF ClientIdles
  <2>2. TRUE \in BOOLEAN
    OBVIOUS
  <2>4. e \in ClientSlot /\ e.id = clients[i].id
    BY <2>1, <2>2, IdleValue
  <2>5. clients' = [clients EXCEPT ![i] = e] /\ UNCHANGED <<client_count, strays>>
    BY <1>2 DEF ClientIdles
  <2>6. clients[i].id # NoClient
    BY <2>1 DEF Used
  <2> HIDE DEF e
  <2>7. /\ clients' \in Seq(ClientSlot) /\ Len(clients') = Len(clients)
        /\ Used' = Used \cup {i}
    BY <2>1, <2>4, <2>5, <2>6, StoreSlot
  <2>8. Used' = Used
    BY <2>1, <2>7
  <2> QED
    BY <2>5, <2>7, <2>8 DEF ClientsInv, ClientsCounted
<1>3. ASSUME NEW i \in DOMAIN clients, ClientLeaves(i)
      PROVE  ClientsInv'
  BY <1>3, DisconnectInv DEF ClientLeaves
<1>4. CASE CallDisconnect
  BY <1>4, DisconnectInv DEF CallDisconnect
<1> QED
  BY <1>1, <1>2, <1>3, <1>4, AcceptInv
     DEF ClientsNext, cpvars, client_cleanup_inactive, TestSlot, ReadId

LEMMA InitClientsInv ==
  ASSUME client_pool_init
  PROVE  ClientsInv
<1>1. clients = [i \in 1 .. ClientCapacity |-> FreeSlot] /\ ClientCapacity \in Nat
  BY ClientAssumption DEF client_pool_init
<1>2. clients \in Seq(ClientSlot)
  BY <1>1, FreeSlotValue, IsASeq
<1>3. Len(clients) = ClientCapacity
  BY <1>1, <1>2, LenProperties
<1>4. Used = {}
  BY <1>1, FreeSlotValue DEF Used
<1> QED
  BY <1>2, <1>3, <1>4, FS_EmptySet, ClientAssumption
  DEF client_pool_init, ClientsInv, ClientsCounted

-----------------------------------------------------------------------------
(* The node table.                                                          *)

PartNo == 0 .. num_partitions - 1
NodeRec == [id : NodeId, status : {HEALTHY, DEGRADED, DEAD}, silence : 0 .. 3,
            partitions : Seq(PartNo)]
Part == [primary : NodeId \cup {0}, replicas : {<<>>}]

\* Ids differ, and the node itself is in the table and alive.
NodesTyped(ns) ==
  /\ ns \in Seq(NodeRec)
  /\ \A i, j \in 1 .. Len(ns) : ns[i].id = ns[j].id => i = j
  /\ \E i \in 1 .. Len(ns) : ns[i].id = Self /\ ns[i].status # DEAD

\* A node lists exactly the partitions whose primary it is, each once; `but`
\* leaves out a partition on its way, which is in no list.
Owns(r, ps, but) ==
  /\ IsInjective(r.partitions)
  /\ but \cap ToSet(r.partitions) = {}
  /\ \A q \in PartNo \ but : q \in ToSet(r.partitions) <=> ps[q].primary = r.id
NodesSound(ns, ps, but) ==
  /\ NodesTyped(ns)
  /\ ps \in [PartNo -> Part]
  /\ \A i \in 1 .. Len(ns) : Owns(ns[i], ps, but)

\* The heartbeat thread's place is one of the table's.
WorkSound(w, n) ==
  /\ w \in [pc : {"idle", "check", "move"}, node : Nat, source : Nat, target : Nat]
  /\ w.pc = "check" => w.node > 0
  /\ w.pc = "move" => w.source \in 1 .. n

NodeTableInv ==
  ~ replicated => NodesSound(nodes, parts, {}) /\ WorkSound(work, Len(nodes))

LEMMA NodeFacts ==
  ASSUME NEW ns, NodesTyped(ns)
  PROVE  /\ DOMAIN ns = 1 .. Len(ns) /\ Len(ns) \in Nat
         /\ \A i \in 1 .. Len(ns) : ns[i] \in NodeRec
BY LenProperties, ElementOfSeq DEF NodesTyped

Put(ns, i, r) == [ns EXCEPT ![i] = r]

\* A step that changes one node, keeping its id and the node itself alive.
LEMMA NodeChange ==
  ASSUME NEW ns, NodesTyped(ns), NEW i \in 1 .. Len(ns), NEW r \in NodeRec,
         r.id = ns[i].id, r.id = Self => r.status = ns[i].status
  PROVE  /\ NodesTyped(Put(ns, i, r)) /\ Len(Put(ns, i, r)) = Len(ns)
         /\ \A j \in 1 .. Len(ns) : Put(ns, i, r)[j] = IF j = i THEN r ELSE ns[j]
<1> DEFINE m == Put(ns, i, r)
<1>1. ns \in Seq(NodeRec)
  BY DEF NodesTyped
<1>2. /\ m \in Seq(NodeRec) /\ Len(m) = Len(ns)
      /\ \A j \in 1 .. Len(ns) : m[j] = IF j = i THEN r ELSE ns[j]
  BY <1>1, ExceptSeq DEF Put
<1> HIDE DEF m
<1>3. \A j \in 1 .. Len(ns) : m[j].id = ns[j].id
  BY <1>2
<1>4. \A j, k \in 1 .. Len(ns) : m[j].id = m[k].id => j = k
  BY <1>3 DEF NodesTyped
<1>5. PICK s \in 1 .. Len(ns) : ns[s].id = Self /\ ns[s].status # DEAD
  BY DEF NodesTyped
<1>6. m[s].id = Self /\ m[s].status # DEAD
  BY <1>2, <1>5
<1> QED
  BY <1>2, <1>4, <1>5, <1>6 DEF NodesTyped, m

\* A step that changes the state of one node and not its list.
LEMMA StatusChange ==
  ASSUME NEW ns, NEW ps, NodesSound(ns, ps, {}), NEW i \in 1 .. Len(ns), NEW r \in NodeRec,
         r.id = ns[i].id, r.partitions = ns[i].partitions,
         r.id = Self => r.status = ns[i].status
  PROVE  NodesSound(Put(ns, i, r), ps, {}) /\ Len(Put(ns, i, r)) = Len(ns)
<1> DEFINE m == Put(ns, i, r)
<1>1. NodesTyped(ns)
  BY DEF NodesSound
<1>2. /\ NodesTyped(m) /\ Len(m) = Len(ns)
      /\ \A j \in 1 .. Len(ns) : m[j] = IF j = i THEN r ELSE ns[j]
  BY <1>1, NodeChange
<1>3. \A j \in 1 .. Len(ns) : Owns(m[j], ps, {})
  BY <1>2 DEF NodesSound, Owns
<1> QED
  BY <1>2, <1>3 DEF NodesSound

WithoutLast(ns, s) == Put(ns, s, [ns[s] EXCEPT !.partitions = Front(ns[s].partitions)])

\* The last partition of a node is taken out of its list.
LEMMA TakeLast ==
  ASSUME NEW ns, NEW ps, NodesSound(ns, ps, {}), NEW s \in 1 .. Len(ns),
         Len(ns[s].partitions) > 0
  PROVE  /\ Last(ns[s].partitions) \in PartNo
         /\ NodesSound(WithoutLast(ns, s), ps, {Last(ns[s].partitions)})
         /\ Len(WithoutLast(ns, s)) = Len(ns)
<1> DEFINE l == ns[s].partitions
           p == Last(l)
           r == [ns[s] EXCEPT !.partitions = Front(l)]
           m == WithoutLast(ns, s)
<1>1. NodesTyped(ns) /\ ns[s] \in NodeRec /\ IsInjective(l)
  BY NodeFacts DEF NodesSound, Owns
<1>2. l \in Seq(PartNo)
  BY <1>1 DEF NodeRec
<1>3. /\ p \in PartNo /\ p \in ToSet(l)
      /\ Front(l) \in Seq(PartNo) /\ IsInjective(Front(l))
      /\ ToSet(Front(l)) = ToSet(l) \ {p}
  BY <1>1, <1>2, FrontElements
<1>4. /\ r \in NodeRec /\ r.id = ns[s].id /\ r.status = ns[s].status
      /\ r.partitions = Front(l)
  BY <1>1, <1>3 DEF NodeRec
<1>9. m = Put(ns, s, r)
  BY DEF WithoutLast
<1> HIDE DEF r, l, m
<1>5. /\ NodesTyped(m) /\ Len(m) = Len(ns)
      /\ \A j \in 1 .. Len(ns) : m[j] = IF j = s THEN r ELSE ns[j]
  BY <1>1, <1>4, <1>9, NodeChange
<1>6. ps[p].primary = ns[s].id
  BY <1>3 DEF NodesSound, Owns, l
<1>7. ASSUME NEW j \in 1 .. Len(ns)
      PROVE  Owns(m[j], ps, {p})
  <2>1. Owns(ns[j], ps, {})
    BY DEF NodesSound
  <2>2. CASE j = s
    BY <1>3, <1>4, <1>5, <2>1, <2>2 DEF Owns, l
  <2>3. CASE j # s
    <3>1. ns[j].id # ns[s].id
      BY <1>1, <2>3 DEF NodesTyped
    <3> QED
      BY <1>3, <1>5, <1>6, <2>1, <2>3, <3>1 DEF Owns
  <2> QED
    BY <2>2, <2>3
<1>8. NodesSound(m, ps, {p})
  BY <1>5, <1>7 DEF NodesSound
<1> QED
  BY <1>3, <1>5, <1>8 DEF l, m

Given(ps, p, n) == [ps EXCEPT ![p] = [ps[p] EXCEPT !.primary = n]]

\* A partition on its way gets a primary, which lists it.
LEMMA GiveSound ==
  ASSUME NEW ns, NEW ps, NEW p \in PartNo, NodesSound(ns, ps, {p}),
         NEW n \in NodeId
  PROVE  /\ NodesSound(AddPartition(ns, n, p), Given(ps, p, n), {})
         /\ Len(AddPartition(ns, n, p)) = Len(ns)
<1> DEFINE qs == Given(ps, p, n)
           m == AddPartition(ns, n, p)
           r(i) == [ns[i] EXCEPT !.partitions = Append(ns[i].partitions, p)]
<1>1. /\ DOMAIN ns = 1 .. Len(ns) /\ Len(ns) \in Nat
      /\ \A i \in 1 .. Len(ns) : ns[i] \in NodeRec
      /\ NodesTyped(ns)
  BY NodeFacts DEF NodesSound
<1>2. m = [i \in 1 .. Len(ns) |-> IF ns[i].id = n THEN r(i) ELSE ns[i]]
  BY <1>1 DEF AddPartition
<1>3. ASSUME NEW i \in 1 .. Len(ns)
      PROVE  /\ r(i) \in NodeRec /\ r(i).id = ns[i].id /\ r(i).status = ns[i].status
             /\ r(i).partitions \in Seq(PartNo) /\ IsInjective(r(i).partitions)
             /\ ToSet(r(i).partitions) = ToSet(ns[i].partitions) \cup {p}
  <2>1. ns[i].partitions \in Seq(PartNo)
    BY <1>1 DEF NodeRec
  <2>2. IsInjective(ns[i].partitions) /\ p \notin ToSet(ns[i].partitions)
    BY DEF NodesSound, Owns
  <2>3. /\ Append(ns[i].partitions, p) \in Seq(PartNo)
        /\ ToSet(Append(ns[i].partitions, p)) = ToSet(ns[i].partitions) \cup {p}
        /\ IsInjective(Append(ns[i].partitions, p))
    BY <2>1, <2>2, AppendElements
  <2>4. /\ r(i) \in NodeRec /\ r(i).id = ns[i].id /\ r(i).status = ns[i].status
        /\ r(i).partitions = Append(ns[i].partitions, p)
    BY <1>1, <2>3 DEF NodeRec
  <2> QED
    BY <2>3, <2>4
<1> HIDE DEF r, m
<1>4. \A i \in 1 .. Len(ns) : m[i] = IF ns[i].id = n THEN r(i) ELSE ns[i]
  BY <1>2
<1>5. m \in Seq(NodeRec) /\ Len(m) = Len(ns)
  <2>1. \A i \in 1 .. Len(ns) : m[i] \in NodeRec
    BY <1>1, <1>3, <1>4
  <2>2. m = [i \in 1 .. Len(ns) |-> m[i]]
    BY <1>2
  <2> QED
    BY <1>1, <2>1, <2>2, IsASeq, LenProperties
<1>6. \A i \in 1 .. Len(ns) : m[i].id = ns[i].id /\ m[i].status = ns[i].status
  BY <1>3, <1>4
<1>7. NodesTyped(m)
  BY <1>1, <1>5, <1>6 DEF NodesTyped
<1>8. /\ qs \in [PartNo -> Part] /\ qs[p].primary = n
      /\ \A q \in PartNo \ {p} : qs[q] = ps[q]
  <2>1. ps \in [PartNo -> Part] /\ ps[p] \in Part
    BY DEF NodesSound
  <2>2. [ps[p] EXCEPT !.primary = n] \in Part /\ [ps[p] EXCEPT !.primary = n].primary = n
    BY <2>1 DEF Part
  <2> QED
    BY <2>1, <2>2 DEF Given
<1> HIDE DEF qs
<1>9. ASSUME NEW i \in 1 .. Len(ns)
      PROVE  Owns(m[i], qs, {})
  <2>1. Owns(ns[i], ps, {p})
    BY DEF NodesSound
  <2>2. CASE ns[i].id = n
    <3>1. /\ IsInjective(m[i].partitions) /\ m[i].id = n
          /\ ToSet(m[i].partitions) = ToSet(ns[i].partitions) \cup {p}
      BY <1>3, <1>4, <2>2
    <3>2. \A q \in PartNo : q \in ToSet(m[i].partitions) <=> qs[q].primary = n
      BY <1>8, <2>1, <2>2, <3>1 DEF Owns
    <3> QED
      BY <3>1, <3>2 DEF Owns
  <2>3. CASE ns[i].id # n
    BY <1>4, <1>8, <2>1, <2>3 DEF Owns
  <2> QED
    BY <2>2, <2>3
<1> QED
  BY <1>5, <1>7, <1>8, <1>9 DEF NodesSound, m, qs

LEMMA TargetValue ==
  ASSUME NEW ns, NodesTyped(ns)
  PROVE  Target(ns) \in Nat
<1> DEFINE alive == {i \in DOMAIN ns : ns[i].status # DEAD}
<1>1. DOMAIN ns = 1 .. Len(ns) /\ Len(ns) \in Nat
  BY NodeFacts
<1>2. alive \subseteq 1 .. Len(ns) /\ alive # {}
  BY <1>1 DEF NodesTyped
<1>3. IsFiniteSet(alive)
  <2>1. IsFiniteSet(1 .. Len(ns))
    BY <1>1, FS_Interval
  <2> HIDE DEF alive
  <2> QED
    BY <1>2, <2>1, FS_Subset
<1>4. Cardinality(alive) \in Nat /\ Cardinality(alive) # 0
  BY <1>2, <1>3, FS_CardinalityType, FS_EmptySet
<1>5. Target(ns) = num_partitions \div Cardinality(alive)
  BY DEF Target
<1> HIDE DEF alive
<1> QED
  BY <1>4, <1>5, NodeTableAssumption

LEMMA RebalanceSound ==
  ASSUME NEW ns, NodesTyped(ns), NEW k \in Nat
  PROVE  WorkSound(StartRebalance(ns, k), Len(ns))
<1>1. Target(ns) \in Nat
  BY TargetValue
<1>2. 1 \in 1 .. Len(ns)
  BY NodeFacts DEF NodesTyped
<1> QED
  BY <1>1, <1>2 DEF StartRebalance, WorkSound

LEMMA NodeRecChange ==
  ASSUME NEW r \in NodeRec, NEW st \in {HEALTHY, DEGRADED, DEAD}, NEW sl \in 0 .. 3
  PROVE  /\ [r EXCEPT !.status = st] \in NodeRec
         /\ [r EXCEPT !.silence = sl] \in NodeRec
         /\ [r EXCEPT !.silence = sl, !.status = st] \in NodeRec
BY DEF NodeRec

TableSound == NodesSound(nodes, parts, {}) /\ WorkSound(work, Len(nodes))

\* A step of the table on node i that changes no list and no ownership.
LEMMA NodeStep ==
  ASSUME TableSound, NEW i \in DOMAIN nodes, NEW r \in NodeRec,
         r.id = nodes[i].id, r.partitions = nodes[i].partitions,
         r.id = Self => r.status = nodes[i].status,
         nodes' = [nodes EXCEPT ![i] = r], parts' = parts
  PROVE  NodesSound(nodes', parts', {}) /\ Len(nodes') = Len(nodes)
<1>1. i \in 1 .. Len(nodes)
  BY NodeFacts DEF TableSound, NodesSound
<1>2. nodes' = Put(nodes, i, r)
  BY DEF Put
<1>3. NodesSound(nodes, parts, {})
  BY DEF TableSound
<1>4. /\ NodesSound(Put(nodes, i, r), parts, {})
      /\ Len(Put(nodes, i, r)) = Len(nodes)
  BY <1>1, <1>3, StatusChange
<1> QED
  BY <1>2, <1>4

LEMMA HeartbeatInv ==
  ASSUME TableSound, NEW i \in DOMAIN nodes, NEW a,
         heartbeat_send_all(i, a)
  PROVE  TableSound'
<1> DEFINE n == nodes[i]
           r == IF a = "ack" THEN [n EXCEPT !.silence = 0, !.status = HEALTHY]
                ELSE IF n.status = HEALTHY THEN [n EXCEPT !.status = DEGRADED] ELSE n
<1>1. /\ nodes' = [nodes EXCEPT ![i] = r] /\ parts' = parts /\ work' = work
      /\ n.id # Self
  BY DEF heartbeat_send_all
<1>2. n \in NodeRec
  BY NodeFacts DEF TableSound, NodesSound
<1>3. /\ [n EXCEPT !.silence = 0, !.status = HEALTHY] \in NodeRec
      /\ [n EXCEPT !.status = DEGRADED] \in NodeRec
  <2>1. {HEALTHY, DEGRADED} \subseteq {HEALTHY, DEGRADED, DEAD} /\ 0 \in 0 .. 3
    OBVIOUS
  <2> HIDE DEF n
  <2> QED
    BY <1>2, <2>1, NodeRecChange
<1>4. r \in NodeRec /\ r.id = n.id /\ r.partitions = n.partitions
  BY <1>2, <1>3 DEF NodeRec
<1> HIDE DEF r
<1>5. NodesSound(nodes', parts', {}) /\ Len(nodes') = Len(nodes)
  BY <1>1, <1>4, NodeStep
<1> QED
  BY <1>1, <1>5 DEF TableSound

LEMMA TimeInv ==
  ASSUME TableSound, NEW i \in DOMAIN nodes, NEW s \in TimedOut, TimePasses(i, s)
  PROVE  TableSound'
<1> DEFINE n == nodes[i]
           r == [n EXCEPT !.silence = s]
<1>1. /\ nodes' = [nodes EXCEPT ![i] = r] /\ parts' = parts /\ work' = work
      /\ n.id # Self
  BY DEF TimePasses
<1>2. n \in NodeRec /\ s \in 0 .. 3
  BY NodeFacts DEF TableSound, NodesSound, TimedOut
<1>3. r \in NodeRec
  BY <1>2, NodeRecChange
<1>4. r.id = n.id /\ r.partitions = n.partitions
  BY <1>2 DEF NodeRec
<1> HIDE DEF r
<1>5. NodesSound(nodes', parts', {}) /\ Len(nodes') = Len(nodes)
  BY <1>1, <1>3, <1>4, NodeStep
<1> QED
  BY <1>1, <1>5 DEF TableSound

LEMMA AssignInv ==
  ASSUME TableSound, NEW p \in DOMAIN parts, NEW i \in DOMAIN nodes,
         Assign(p, nodes[i].id)
  PROVE  TableSound'
<1> DEFINE n == nodes[i].id
<1>1. /\ parts' = Given(parts, p, n) /\ nodes' = AddPartition(nodes, n, p)
      /\ parts[p].primary = 0 /\ work' = work
  BY DEF Assign, partition_assign, Given
<1>2. /\ NodesTyped(nodes) /\ nodes[i] \in NodeRec /\ p \in PartNo
      /\ \A j \in 1 .. Len(nodes) : nodes[j] \in NodeRec
  BY NodeFacts DEF TableSound, NodesSound
<1>3. n \in NodeId
  BY <1>2 DEF NodeRec
<1>4. NodesSound(nodes, parts, {p})
  <2>1. ASSUME NEW j \in 1 .. Len(nodes) PROVE Owns(nodes[j], parts, {p})
    <3>1. nodes[j].id # 0
      BY <1>2, NodeTableAssumption DEF NodeRec
    <3>2. Owns(nodes[j], parts, {})
      BY DEF TableSound, NodesSound
    <3> QED
      BY <1>1, <1>2, <3>1, <3>2 DEF Owns
  <2> QED
    BY <2>1 DEF TableSound, NodesSound
<1> HIDE DEF n
<1>5. /\ NodesSound(AddPartition(nodes, n, p), Given(parts, p, n), {})
      /\ Len(AddPartition(nodes, n, p)) = Len(nodes)
  BY <1>2, <1>3, <1>4, GiveSound
<1> QED
  BY <1>1, <1>5 DEF TableSound

LEMMA MoveInv ==
  ASSUME TableSound, work.pc = "move", MovePartition
  PROVE  TableSound'
<1> DEFINE s == work.source
           l == nodes[s].partitions
           p == Last(l)
           j == CHOOSE j \in Receivers : \A k \in Receivers : j <= k
           m == WithoutLast(nodes, s)
<1>1. /\ TooMany(s) /\ Receivers # {} /\ work' = work
      /\ parts' = Given(parts, p, nodes[j].id)
      /\ nodes' = AddPartition(m, nodes[j].id, p)
  BY DEF MovePartition, Given, WithoutLast, Put
<1>2. /\ DOMAIN nodes = 1 .. Len(nodes) /\ Len(nodes) \in Nat
      /\ NodesSound(nodes, parts, {})
      /\ \A i \in 1 .. Len(nodes) : nodes[i] \in NodeRec
  BY NodeFacts DEF TableSound, NodesSound
<1>3. j \in 1 .. Len(nodes)
  <2>1. Receivers \subseteq 1 .. Len(nodes) /\ Receivers \subseteq Nat
    BY <1>2 DEF Receivers, LiveNodes
  <2>2. \E i \in Receivers : \A k \in Receivers : i <= k
    BY <1>1, <2>1, LeastNumber
  <2>3. j \in Receivers
    BY <2>2
  <2> QED
    BY <2>1, <2>3
<1>4. s \in 1 .. Len(nodes) /\ work.target \in Nat
  BY DEF TableSound, WorkSound
<1>5. l \in Seq(PartNo)
  BY <1>2, <1>4 DEF NodeRec
<1>6. Len(l) > 0
  BY <1>1, <1>4, <1>5, LenProperties DEF TooMany, Load
<1>7. nodes[j].id \in NodeId
  BY <1>2, <1>3 DEF NodeRec
<1> HIDE DEF j, s
<1>8. p \in PartNo /\ NodesSound(m, parts, {p}) /\ Len(m) = Len(nodes)
  BY <1>2, <1>4, <1>6, TakeLast
<1> HIDE DEF p, m
<1>9. /\ NodesSound(AddPartition(m, nodes[j].id, p), Given(parts, p, nodes[j].id), {})
      /\ Len(AddPartition(m, nodes[j].id, p)) = Len(m)
  BY <1>7, <1>8, GiveSound
<1> QED
  BY <1>1, <1>8, <1>9 DEF TableSound

LEMMA NextSourceInv ==
  ASSUME TableSound, work.pc = "move", NextSource
  PROVE  TableSound'
<1>1. /\ nodes' = nodes /\ parts' = parts
      /\ work' = IF work.source < Len(nodes) THEN [work EXCEPT !.source = work.source + 1]
                 ELSE IF work.node = 0 THEN NoWork
                 ELSE [NoWork EXCEPT !.pc = "check", !.node = work.node + 1]
  BY DEF NextSource
<1>2. /\ work \in [pc : {"idle", "check", "move"}, node : Nat, source : Nat, target : Nat]
      /\ work.source \in 1 .. Len(nodes) /\ Len(nodes) \in Nat
  BY NodeFacts DEF TableSound, WorkSound, NodesSound
<1>3. WorkSound(work', Len(nodes))
  <2>1. CASE work.source < Len(nodes)
    <3>1. work' = [work EXCEPT !.source = work.source + 1]
      BY <1>1, <2>1
    <3>2. work.source + 1 \in 1 .. Len(nodes) /\ work.source + 1 \in Nat
      BY <1>2, <2>1
    <3> QED
      BY <1>2, <3>1, <3>2 DEF WorkSound
  <2>2. CASE ~ (work.source < Len(nodes)) /\ work.node = 0
    BY <1>1, <2>2 DEF WorkSound, NoWork
  <2>3. CASE ~ (work.source < Len(nodes)) /\ work.node # 0
    <3>1. work' = [pc |-> "check", node |-> work.node + 1, source |-> 0, target |-> 0]
      BY <1>1, <2>3 DEF NoWork
    <3>2. work.node + 1 \in Nat /\ work.node + 1 > 0
      BY <1>2
    <3> QED
      BY <3>1, <3>2 DEF WorkSound
  <2> QED
    BY <2>1, <2>2, <2>3
<1> QED
  BY <1>1, <1>3 DEF TableSound

LEMMA AddNodeInv ==
  ASSUME TableSound, NEW n \in NodeId, cluster_add_node(n)
  PROVE  TableSound'
<1> DEFINE added == Append(nodes, NewNode(n))
           k == Len(nodes)
<1>1. /\ \A i \in DOMAIN nodes : nodes[i].id # n
      /\ \A p \in DOMAIN parts : n # parts[p].primary
      /\ nodes' = added /\ parts' = parts /\ work.pc = "idle"
      /\ work' = IF role = "leader" THEN StartRebalance(added, 0) ELSE work
  BY DEF cluster_add_node, IsIdle
<1>2. /\ DOMAIN nodes = 1 .. k /\ k \in Nat /\ nodes \in Seq(NodeRec)
      /\ \A i \in 1 .. k : nodes[i] \in NodeRec
      /\ NodesTyped(nodes) /\ DOMAIN parts = PartNo /\ parts \in [PartNo -> Part]
  BY NodeFacts DEF TableSound, NodesSound, NodesTyped
<1>3. <<>> \in Seq(PartNo) /\ DOMAIN <<>> = {}
  BY EmptySeq
<1>4. /\ NewNode(n) \in NodeRec /\ NewNode(n).id = n
      /\ NewNode(n).partitions = <<>>
  BY <1>3 DEF NewNode, NodeRec
<1>5. /\ added \in Seq(NodeRec) /\ Len(added) = k + 1
      /\ \A i \in 1 .. k : added[i] = nodes[i]
      /\ added[k + 1] = NewNode(n)
  BY <1>2, <1>4, AppendProperties
<1> HIDE DEF added
<1>6. \A i \in 1 .. k + 1 : i \in 1 .. k \/ i = k + 1
  BY <1>2
<1>7. \A i, j \in 1 .. k + 1 : added[i].id = added[j].id => i = j
  <2>1. \A i, j \in 1 .. k : nodes[i].id = nodes[j].id => i = j
    BY <1>2 DEF NodesTyped
  <2>2. \A i \in 1 .. k : nodes[i].id # n
    BY <1>1, <1>2
  <2> QED
    BY <1>4, <1>5, <1>6, <2>1, <2>2
<1>8. NodesTyped(added)
  <2>1. PICK i \in 1 .. k : nodes[i].id = Self /\ nodes[i].status # DEAD
    BY <1>2 DEF NodesTyped
  <2>2. i \in 1 .. k + 1 /\ added[i] = nodes[i]
    BY <1>2, <1>5
  <2> QED
    BY <1>5, <1>7, <2>1, <2>2 DEF NodesTyped
<1>9. ASSUME NEW i \in 1 .. k + 1
      PROVE  Owns(added[i], parts, {})
  <2>1. CASE i \in 1 .. k
    BY <1>5, <2>1 DEF TableSound, NodesSound
  <2>2. CASE i = k + 1
    BY <1>1, <1>2, <1>3, <1>4, <1>5, <2>2 DEF Owns, IsInjective, ToSet
  <2> QED
    BY <1>6, <2>1, <2>2
<1>10. NodesSound(added, parts, {})
  BY <1>2, <1>5, <1>8, <1>9 DEF NodesSound
<1>11. WorkSound(work', Len(added))
  <2>1. WorkSound(StartRebalance(added, 0), Len(added))
    BY <1>8, RebalanceSound
  <2>2. WorkSound(work, Len(added))
    BY <1>1 DEF TableSound, WorkSound
  <2> QED
    BY <1>1, <2>1, <2>2
<1> QED
  BY <1>1, <1>10, <1>11 DEF TableSound

LEMMA RemoveNodeInv ==
  ASSUME TableSound, NEW i \in DOMAIN nodes, cluster_remove_node(i)
  PROVE  TableSound'
<1> DEFINE m == RemoveAt(nodes, i)
           k == Len(nodes)
           from(j) == IF j < i THEN j ELSE j + 1
<1>1. /\ nodes' = m /\ parts' = parts /\ work' = work /\ work.pc = "idle"
      /\ nodes[i].id # Self
  BY DEF cluster_remove_node, IsIdle
<1>2. /\ i \in 1 .. k /\ k \in Nat /\ nodes \in Seq(NodeRec) /\ NodesTyped(nodes)
      /\ parts \in [PartNo -> Part]
  BY NodeFacts DEF TableSound, NodesSound, NodesTyped
<1>3. /\ m \in Seq(NodeRec) /\ Len(m) = k - 1
      /\ \A j \in 1 .. k - 1 : m[j] = nodes[from(j)]
  BY <1>2, RemoveAtProperties
<1> HIDE DEF m
<1>4. \A j \in 1 .. k - 1 : from(j) \in 1 .. k
  BY <1>2
<1>5. \A j, l \in 1 .. k - 1 : from(j) = from(l) => j = l
  BY <1>2
<1>6. \A s \in 1 .. k : s # i => \E j \in 1 .. k - 1 : from(j) = s
  <2> SUFFICES ASSUME NEW s \in 1 .. k, s # i
               PROVE  \E j \in 1 .. k - 1 : from(j) = s
    OBVIOUS
  <2>1. CASE s < i
    <3>1. s \in 1 .. k - 1 /\ from(s) = s
      BY <1>2, <2>1
    <3> QED
      BY <3>1
  <2>2. CASE ~ (s < i)
    <3>1. s - 1 \in 1 .. k - 1 /\ from(s - 1) = s
      BY <1>2, <2>2
    <3> QED
      BY <3>1
  <2> QED
    BY <2>1, <2>2
<1> HIDE DEF from
<1>7. NodesTyped(m)
  <2>1. PICK s \in 1 .. k : nodes[s].id = Self /\ nodes[s].status # DEAD
    BY <1>2 DEF NodesTyped
  <2>2. PICK j \in 1 .. k - 1 : from(j) = s
    BY <1>1, <1>6, <2>1
  <2>3. m[j].id = Self /\ m[j].status # DEAD
    BY <1>3, <2>1, <2>2
  <2>4. ASSUME NEW j1 \in 1 .. k - 1, NEW j2 \in 1 .. k - 1, m[j1].id = m[j2].id
        PROVE  j1 = j2
    <3>1. nodes[from(j1)].id = nodes[from(j2)].id
      BY <1>3, <2>4
    <3>2. \A a, b \in 1 .. k : nodes[a].id = nodes[b].id => a = b
      BY <1>2 DEF NodesTyped
    <3>3. from(j1) = from(j2)
      BY <1>4, <3>1, <3>2
    <3> QED
      BY <1>5, <3>3
  <2> QED
    BY <1>3, <2>2, <2>3, <2>4 DEF NodesTyped
<1>8. \A j \in 1 .. k - 1 : Owns(m[j], parts, {})
  BY <1>3, <1>4 DEF TableSound, NodesSound
<1>9. NodesSound(m, parts, {})
  BY <1>2, <1>3, <1>7, <1>8 DEF NodesSound
<1>10. WorkSound(work, Len(m))
  BY <1>1 DEF TableSound, WorkSound
<1> QED
  BY <1>1, <1>9, <1>10 DEF TableSound

LEMMA CheckNodeInv ==
  ASSUME TableSound, CheckNode
  PROVE  TableSound'
<1> DEFINE i == work.node
           n == nodes[i]
           dies == n.id # Self /\ n.silence = 3 /\ n.status # DEAD
           status == IF n.id = Self THEN n.status
                     ELSE IF dies THEN DEAD
                     ELSE IF n.silence >= 2 /\ n.status = HEALTHY THEN DEGRADED
                     ELSE IF n.silence = 0 /\ n.status = DEGRADED THEN HEALTHY
                     ELSE n.status
           r == [n EXCEPT !.status = status]
           checked == [nodes EXCEPT ![i] = r]
<1>1. /\ work.pc = "check" /\ i <= Len(nodes) /\ nodes' = checked
      /\ parts' = IF dies /\ role = "leader" THEN rebalance_on_leave(i) ELSE parts
      /\ work' = IF dies /\ role = "leader" THEN StartRebalance(checked, i)
                 ELSE [work EXCEPT !.node = i + 1]
  BY DEF CheckNode
<1>2. /\ work \in [pc : {"idle", "check", "move"}, node : Nat, source : Nat, target : Nat]
      /\ i \in Nat /\ i > 0
  BY <1>1 DEF TableSound, WorkSound
<1>3. /\ DOMAIN nodes = 1 .. Len(nodes) /\ Len(nodes) \in Nat
      /\ \A j \in 1 .. Len(nodes) : nodes[j] \in NodeRec
      /\ parts \in [PartNo -> Part]
  BY NodeFacts DEF TableSound, NodesSound
<1>4. i \in DOMAIN nodes /\ n \in NodeRec
  BY <1>1, <1>2, <1>3
<1>5. status \in {HEALTHY, DEGRADED, DEAD} /\ (n.id = Self => status = n.status)
  <2>1. n.status \in {HEALTHY, DEGRADED, DEAD}
    BY <1>4 DEF NodeRec
  <2> QED
    BY <2>1
<1> HIDE DEF status
<1>6. r \in NodeRec /\ r.id = n.id /\ r.partitions = n.partitions /\ r.status = status
  <2>1. r.id = n.id /\ r.partitions = n.partitions /\ r.status = status
    BY <1>4 DEF NodeRec
  <2>2. r \in NodeRec
    BY <1>4, <1>5 DEF NodeRec
  <2> QED
    BY <2>1, <2>2
<1>7. parts' = parts
  <2>1. \A p \in PartNo : parts[p].replicas = <<>>
    BY <1>3 DEF Part
  <2>2. DOMAIN parts = PartNo /\ parts = [p \in PartNo |-> parts[p]]
    BY <1>3
  <2>3. rebalance_on_leave(i) = [p \in PartNo |-> parts[p]]
    BY <2>1, <2>2 DEF rebalance_on_leave
  <2> QED
    BY <1>1, <2>2, <2>3
<1> HIDE DEF r, dies
<1>8. NodesSound(nodes', parts', {}) /\ Len(nodes') = Len(nodes)
  BY <1>1, <1>4, <1>5, <1>6, <1>7, NodeStep
<1>9. WorkSound(work', Len(nodes'))
  <2>1. WorkSound(StartRebalance(nodes', i), Len(nodes'))
    <3>1. NodesTyped(nodes')
      BY <1>8 DEF NodesSound
    <3> QED
      BY <1>2, <3>1, RebalanceSound
  <2>2. WorkSound([work EXCEPT !.node = i + 1], Len(nodes'))
    <3>1. [work EXCEPT !.node = i + 1] =
            [pc |-> "check", node |-> i + 1, source |-> work.source, target |-> work.target]
      BY <1>1, <1>2
    <3> QED
      BY <1>2, <3>1 DEF WorkSound
  <2> QED
    BY <1>1, <2>1, <2>2
<1> QED
  BY <1>8, <1>9 DEF TableSound

LEMMA NextTableInv ==
  ASSUME NodeTableInv, [TableNext]_ptvars
  PROVE  NodeTableInv'
<1> USE DEF NodeTableInv
<1> SUFFICES ASSUME ~ replicated' PROVE TableSound'
  BY DEF TableSound
<1>1. ~ replicated => TableSound
  BY DEF TableSound
<1>2. CASE UNCHANGED ptvars
  BY <1>1, <1>2 DEF ptvars, TableSound
<1>3. ASSUME NEW r, ChangeRole(r) PROVE TableSound'
  BY <1>1, <1>3 DEF ChangeRole, TableSound
<1>4. ASSUME NEW i \in DOMAIN nodes, NEW a, heartbeat_send_all(i, a) PROVE TableSound'
  <2>1. TableSound
    BY <1>1, <1>4 DEF heartbeat_send_all
  <2> QED
    BY <1>4, <2>1, HeartbeatInv
<1>5. ASSUME NEW i \in DOMAIN nodes, NEW s \in TimedOut, TimePasses(i, s) PROVE TableSound'
  <2>1. TableSound
    BY <1>1, <1>5 DEF TimePasses
  <2> QED
    BY <1>5, <2>1, TimeInv
<1>6. ASSUME NEW p \in DOMAIN parts, NEW i \in DOMAIN nodes, Assign(p, nodes[i].id)
      PROVE  TableSound'
  <2>1. TableSound
    BY <1>1, <1>6 DEF Assign
  <2> QED
    BY <1>6, <2>1, AssignInv
<1>7. ASSUME NEW p, NEW n, AssignReplica(p, n) PROVE TableSound'
  BY <1>7 DEF AssignReplica
<1>8. ASSUME NEW n \in NodeId, cluster_add_node(n) PROVE TableSound'
  <2>1. TableSound
    BY <1>1, <1>8 DEF cluster_add_node
  <2> QED
    BY <1>8, <2>1, AddNodeInv
<1>9. ASSUME NEW i \in DOMAIN nodes, cluster_remove_node(i) PROVE TableSound'
  <2>1. TableSound
    BY <1>1, <1>9 DEF cluster_remove_node
  <2> QED
    BY <1>9, <2>1, RemoveNodeInv
<1>10. CASE health_check_nodes
  <2>1. /\ TableSound /\ UNCHANGED <<nodes, parts>>
        /\ work' = [pc |-> "check", node |-> 1, source |-> 0, target |-> 0]
    BY <1>1, <1>10 DEF health_check_nodes, NoWork
  <2> QED
    BY <2>1 DEF TableSound, WorkSound
<1>11. CASE CheckNode
  <2>1. TableSound
    BY <1>1, <1>11 DEF CheckNode
  <2> QED
    BY <1>11, <2>1, CheckNodeInv
<1>12. CASE CheckDone
  BY <1>1, <1>12 DEF CheckDone, NoWork, TableSound, WorkSound
<1>13. CASE rebalance_partitions
  <2>1. TableSound /\ work.pc = "move"
    BY <1>1, <1>13 DEF rebalance_partitions
  <2> QED
    BY <1>13, <2>1, MoveInv, NextSourceInv DEF rebalance_partitions
<1> QED
  BY <1>2, <1>3, <1>4, <1>5, <1>6, <1>7, <1>8, <1>9, <1>10, <1>11, <1>12, <1>13
     DEF TableNext

LEMMA InitTableInv == cluster_start => NodeTableInv
<1> SUFFICES ASSUME cluster_start PROVE TableSound
  BY DEF NodeTableInv, TableSound
<1> DEFINE r == NewNode(Self)
<1>1. <<>> \in Seq(PartNo) /\ DOMAIN <<>> = {}
  BY EmptySeq
<1>2. /\ r \in NodeRec /\ r.id = Self /\ r.status # DEAD /\ r.partitions = <<>>
  BY <1>1, NodeTableAssumption
    DEF NewNode, NodeRec, HEALTHY, DEGRADED, DEAD
<1> HIDE DEF r
<1>3. nodes = <<r>> /\ work = NoWork
      /\ parts = [p \in PartNo |-> [primary |-> 0, replicas |-> <<>>]]
  BY DEF cluster_start, PartNo, r
<1>4. /\ nodes \in Seq(NodeRec) /\ Len(nodes) = 1 /\ nodes[1] = r
  BY <1>2, <1>3
<1>5. NodesTyped(nodes)
  BY <1>2, <1>4 DEF NodesTyped
<1>6. parts \in [PartNo -> Part] /\ \A p \in PartNo : parts[p].primary # Self
  BY <1>3, NodeTableAssumption DEF Part
<1>7. Owns(r, parts, {})
  BY <1>1, <1>2, <1>6 DEF Owns, IsInjective, ToSet
<1>8. NodesSound(nodes, parts, {})
  BY <1>4, <1>5, <1>6, <1>7 DEF NodesSound
<1> QED
  BY <1>3, <1>4, <1>8 DEF TableSound, WorkSound, NoWork

LEMMA CopiesInList ==
  ASSUME NEW s, IsInjective(s), NEW x
  PROVE  Cardinality({k \in DOMAIN s : s[k] = x}) = IF x \in ToSet(s) THEN 1 ELSE 0
<1> DEFINE C == {k \in DOMAIN s : s[k] = x}
<1>1. CASE x \in ToSet(s)
  <2>1. PICK k \in DOMAIN s : s[k] = x
    BY <1>1 DEF ToSet
  <2>2. C = {k}
    BY <2>1 DEF IsInjective
  <2> QED
    BY <1>1, <2>2, FS_Singleton
<1>2. CASE x \notin ToSet(s)
  <2>1. C = {}
    BY <1>2 DEF ToSet
  <2> QED
    BY <1>2, <2>1, FS_EmptySet
<1> QED
  BY <1>1, <1>2

\* Owning exactly the partitions one is the primary of, each node lists a
\* partition once or not at all.
LEMMA OwnersListed ==
  ASSUME NodeTableInv
  PROVE  NodeTableSound
<1> SUFFICES ASSUME ~ replicated, NEW p \in DOMAIN parts, NEW i \in DOMAIN nodes
             PROVE  Cardinality({k \in DOMAIN nodes[i].partitions :
                                   nodes[i].partitions[k] = p})
                      = IF nodes[i].id = parts[p].primary THEN 1 ELSE 0
  BY DEF NodeTableSound
<1>1. NodesSound(nodes, parts, {})
  BY DEF NodeTableInv
<1>2. p \in PartNo /\ Owns(nodes[i], parts, {})
  BY <1>1, NodeFacts DEF NodesSound
<1>3. p \in ToSet(nodes[i].partitions) <=> parts[p].primary = nodes[i].id
  BY <1>2 DEF Owns
<1>4. IsInjective(nodes[i].partitions)
  BY <1>2 DEF Owns
<1>5. Cardinality({k \in DOMAIN nodes[i].partitions : nodes[i].partitions[k] = p})
        = IF p \in ToSet(nodes[i].partitions) THEN 1 ELSE 0
  BY <1>4, CopiesInList
<1> QED
  BY <1>3, <1>5

(* cluster_add_node, cluster_remove_node, partition_assign,
   rebalance_partitions and health_check_nodes; client_accept,
   client_disconnect and the unlocked loop of client_cleanup_inactive: for any
   number of nodes and partitions, and through any joins, deaths and half-done
   rebalances, every partition is in its primary's list once and in no other
   node's, until a replica is assigned; and for any limit, any capacity and
   any client ids (two clients may share one), the count of the pool stays
   within the limit and is off by exactly the disconnections of clients that
   had already left. *)
THEOREM TablesCorrect == NodeInit /\ [][NodeNext]_nodevars => []TablesSound
<1> DEFINE TablesInv == NodeTableInv /\ ClientsInv
<1>1. NodeInit => TablesInv
  BY InitTableInv, InitClientsInv DEF NodeInit
<1>2. TablesInv /\ [NodeNext]_nodevars => TablesInv'
  <2> SUFFICES ASSUME TablesInv, [NodeNext]_nodevars PROVE TablesInv'
    OBVIOUS
  <2>1. [TableNext]_ptvars /\ [ClientsNext]_cpvars
    BY DEF NodeNext, nodevars
  <2> QED
    BY <2>1, NextTableInv, NextClientsInv
<1>3. TablesInv => TablesSound
  BY OwnersListed DEF ClientsInv, TablesSound
<1> HIDE DEF TablesInv
<1> QED
  BY <1>1, <1>2, <1>3, PTL

-----------------------------------------------------------------------------
(* Login sessions: the user table. *)

UserFields == {"user_id", "username", "password", "roles", "locked",
               "failed_attempts", "lockout_until", "is_superuser"}
IsUser(u) == u = [x \in UserFields |-> u[x]]

\* Some user is a superuser, and no name is taken twice.
UsersSound(us) ==
  /\ \E S : us \in Seq(S)
  /\ \A i \in 1 .. Len(us) : IsUser(us[i])
  /\ \E i \in 1 .. Len(us) : us[i].is_superuser
  /\ \A i, j \in 1 .. Len(us) : us[i].username = us[j].username => i = j

LEMMA WiderSeq ==
  ASSUME NEW S, NEW s \in Seq(S), NEW e
  PROVE  s \in Seq(S \cup {e})
<1>1. Len(s) \in Nat /\ s = [i \in 1 .. Len(s) |-> s[i]]
  BY LenProperties
<1>2. \A i \in 1 .. Len(s) : s[i] \in S \cup {e}
  BY ElementOfSeq
<1> QED
  BY <1>1, <1>2, IsASeq

LEMMA UserChanged ==
  ASSUME NEW us, UsersSound(us), NEW i \in 1 .. Len(us), NEW u, IsUser(u),
         u.username = us[i].username, u.is_superuser = us[i].is_superuser
  PROVE  UsersSound([us EXCEPT ![i] = u])
<1> DEFINE vs == [us EXCEPT ![i] = u]
<1>1. PICK S : us \in Seq(S)
  BY DEF UsersSound
<1>2. us \in Seq(S \cup {u})
  BY <1>1, WiderSeq
<1>3. /\ vs \in Seq(S \cup {u}) /\ Len(vs) = Len(us)
      /\ \A j \in 1 .. Len(us) : vs[j] = IF j = i THEN u ELSE us[j]
  BY <1>2, ExceptSeq
<1> HIDE DEF vs
<1>4. \A j \in 1 .. Len(us) : /\ IsUser(vs[j]) /\ vs[j].username = us[j].username
                             /\ vs[j].is_superuser = us[j].is_superuser
  BY <1>3 DEF UsersSound
<1> QED
  BY <1>3, <1>4 DEF UsersSound, vs

LEMMA UserAppended ==
  ASSUME NEW us, UsersSound(us), NEW u, IsUser(u),
         \A j \in 1 .. Len(us) : us[j].username # u.username
  PROVE  UsersSound(Append(us, u))
<1> DEFINE vs == Append(us, u)
           n == Len(us)
<1>1. PICK S : us \in Seq(S)
  BY DEF UsersSound
<1>2. us \in Seq(S \cup {u})
  BY <1>1, WiderSeq
<1>3. /\ vs \in Seq(S \cup {u}) /\ Len(vs) = n + 1 /\ n \in Nat
      /\ \A j \in 1 .. n : vs[j] = us[j]
      /\ vs[n + 1] = u
  BY <1>2, AppendProperties
<1>4. \A j \in 1 .. n + 1 : j = n + 1 \/ j \in 1 .. n
  BY <1>3
<1>5. 1 .. n \subseteq 1 .. n + 1
  BY <1>3
<1> HIDE DEF vs
<1>6. \A j \in 1 .. n + 1 : IsUser(vs[j])
  BY <1>3, <1>4 DEF UsersSound
<1>7. \E j \in 1 .. n + 1 : vs[j].is_superuser
  BY <1>3, <1>5 DEF UsersSound
<1>8. \A j, k \in 1 .. n + 1 : vs[j].username = vs[k].username => j = k
  BY <1>3, <1>4 DEF UsersSound
<1> QED
  BY <1>3, <1>6, <1>7, <1>8 DEF UsersSound, vs

LEMMA UserRemoved ==
  ASSUME NEW us, UsersSound(us), NEW i \in 1 .. Len(us),
         us[i].is_superuser => Cardinality(Superusers(us)) > 1
  PROVE  UsersSound(RemoveAt(us, i))
<1> DEFINE vs == RemoveAt(us, i)
           n == Len(us)
           from(j) == IF j < i THEN j ELSE j + 1
<1>1. PICK S : us \in Seq(S)
  BY DEF UsersSound
<1>2. /\ vs \in Seq(S) /\ Len(vs) = n - 1 /\ n \in Nat /\ DOMAIN us = 1 .. n
      /\ \A j \in 1 .. n - 1 : vs[j] = us[from(j)]
  BY <1>1, RemoveAtProperties, LenProperties
<1> HIDE DEF vs
<1>3. \A j \in 1 .. n - 1 : from(j) \in 1 .. n /\ from(j) # i
  BY <1>2
<1>4. \A j, k \in 1 .. n - 1 : from(j) = from(k) => j = k
  BY <1>2
<1>5. PICK k \in 1 .. n : us[k].is_superuser /\ k # i
  <2>1. CASE us[i].is_superuser
    <3>1. Cardinality(Superusers(us)) > 1 /\ i \in Superusers(us)
      BY <1>2, <2>1 DEF Superusers
    <3>2. Superusers(us) # {i}
      <4>1. Cardinality({i}) = 1
        BY FS_Singleton
      <4>2. ~ (1 > 1)
        OBVIOUS
      <4> QED
        BY <3>1, <4>1, <4>2
    <3>3. PICK k : k \in Superusers(us) /\ k # i
      BY <3>1, <3>2
    <3> QED
      BY <1>2, <3>3 DEF Superusers
  <2>2. CASE ~ us[i].is_superuser
    BY <2>2 DEF UsersSound
  <2> QED
    BY <2>1, <2>2
<1>6. PICK j \in 1 .. n - 1 : from(j) = k
  <2>1. CASE k < i
    <3>1. k \in 1 .. n - 1 /\ from(k) = k
      BY <1>2, <2>1
    <3> QED
      BY <3>1
  <2>2. CASE ~ (k < i)
    <3>1. k - 1 \in 1 .. n - 1 /\ from(k - 1) = k
      BY <1>2, <1>5, <2>2
    <3> QED
      BY <3>1
  <2> QED
    BY <2>1, <2>2
<1> HIDE DEF from
<1>7. \A l \in 1 .. n - 1 : IsUser(vs[l])
  BY <1>2, <1>3 DEF UsersSound
<1>8. vs[j].is_superuser
  BY <1>2, <1>5, <1>6
<1>9. ASSUME NEW l \in 1 .. n - 1, NEW m \in 1 .. n - 1, vs[l].username = vs[m].username
      PROVE  l = m
  <2>1. us[from(l)].username = us[from(m)].username
    BY <1>2, <1>9
  <2>2. \A a, b \in 1 .. n : us[a].username = us[b].username => a = b
    BY DEF UsersSound
  <2>3. from(l) = from(m)
    BY <1>3, <2>1, <2>2
  <2> QED
    BY <1>4, <2>3
<1> QED
  BY <1>2, <1>7, <1>8, <1>9 DEF UsersSound, vs

UserInv == UsersSound(users) /\ UsersSound(saved.users)

\* security_find_user.
LEMMA UserFound ==
  ASSUME NEW us, UsersSound(us), NEW n
  PROVE  /\ security_find_user(us, n) = 0 => \A j \in 1 .. Len(us) : us[j].username # n
         /\ security_find_user(us, n) # 0 => security_find_user(us, n) \in 1 .. Len(us)
<1> DEFINE m == {i \in DOMAIN us : us[i].username = n}
<1>1. DOMAIN us = 1 .. Len(us) /\ Len(us) \in Nat
  BY LenProperties DEF UsersSound
<1>2. CASE m = {}
  BY <1>1, <1>2 DEF security_find_user, First
<1>3. CASE m # {}
  <2>0. m \subseteq Nat
    BY <1>1
  <2>1. PICK i \in m : \A j \in m : i <= j
    BY <1>3, <2>0, LeastNumber
  <2>2. security_find_user(us, n) \in m
    BY <1>3, <2>1 DEF security_find_user, First
  <2> QED
    BY <1>1, <2>2
<1> QED
  BY <1>2, <1>3

LEMMA NewUserIs ==
  ASSUME NEW id, NEW n, NEW pw, NEW r
  PROVE  /\ IsUser(NewUser(id, n, pw, r)) /\ NewUser(id, n, pw, r).username = n
         /\ NewUser(id, n, pw, r).is_superuser = (r = "superadmin")
BY DEF IsUser, UserFields, NewUser

LEMMA FirstUsersSound == UsersSound(FirstUsers)
<1> DEFINE u == NewUser(1, "admin", CHOOSE p \in Password : security_validate_password(p), "superadmin")
<1>1. IsUser(u) /\ u.is_superuser
  <2> DEFINE pw == CHOOSE p \in Password : security_validate_password(p)
  <2> HIDE DEF pw
  <2>1. /\ IsUser(NewUser(1, "admin", pw, "superadmin"))
        /\ NewUser(1, "admin", pw, "superadmin").is_superuser = ("superadmin" = "superadmin")
    BY NewUserIs
  <2> QED
    BY <2>1 DEF pw
<1>0. FirstUsers = <<u>>
  BY DEF FirstUsers
<1> HIDE DEF u
<1>2. /\ <<u>> \in Seq({u}) /\ Len(<<u>>) = 1 /\ <<u>>[1] = u
  OBVIOUS
<1>4. \E S : <<u>> \in Seq(S)
  BY <1>2
<1>3. \A i \in 1 .. 1 : i = 1
  OBVIOUS
<1> QED
  BY <1>0, <1>1, <1>2, <1>3, <1>4 DEF UsersSound

\* An operation on a user that keeps its name and its superuser mark.
LEMMA SetUserSound ==
  ASSUME UserInv, NEW n, NEW u, security_find_user(users, n) # 0,
         users' = [users EXCEPT ![security_find_user(users, n)] = u], IsUser(u),
         u.username = users[security_find_user(users, n)].username,
         u.is_superuser = users[security_find_user(users, n)].is_superuser
  PROVE  UsersSound(users')
<1> DEFINE i == security_find_user(users, n)
<1>1. i \in 1 .. Len(users) /\ UsersSound(users)
  BY UserFound DEF UserInv
<1> HIDE DEF i
<1>2. IsUser(u) /\ u.username = users[i].username /\ u.is_superuser = users[i].is_superuser
  BY DEF i
<1>3. UsersSound([users EXCEPT ![i] = u])
  BY <1>1, <1>2, UserChanged
<1> QED
  BY <1>3 DEF i

\* What the account operations leave alone.
SameUser(v, u) == IsUser(v) /\ v.username = u.username /\ v.is_superuser = u.is_superuser

LEMMA AccountsKept ==
  ASSUME NEW u, IsUser(u)
  PROVE  /\ SameUser(LockedUser(u), u) /\ SameUser(UnlockedUser(u), u)
         /\ SameUser(Expired(u), u)
         /\ SameUser([Expired(u) EXCEPT !.failed_attempts = 0], u)
         /\ SameUser(Failed(Expired(u)), u)
         /\ \A pw : SameUser([u EXCEPT !.password = pw], u)
         /\ \A rs : SameUser([u EXCEPT !.roles = rs], u)
<1>1. \A v : IsUser(v) => /\ SameUser(LockedUser(v), v) /\ SameUser(UnlockedUser(v), v)
                         /\ SameUser(Expired(v), v)
  BY DEF SameUser, IsUser, UserFields, LockedUser, UnlockedUser, Expired
<1>2. \A v : IsUser(v) => /\ SameUser([v EXCEPT !.failed_attempts = 0], v)
                         /\ SameUser([v EXCEPT !.failed_attempts = @ + 1], v)
                         /\ \A pw : SameUser([v EXCEPT !.password = pw], v)
                         /\ \A rs : SameUser([v EXCEPT !.roles = rs], v)
  BY DEF SameUser, IsUser, UserFields
<1>3. \A v : IsUser(v) => SameUser(Failed(v), v)
  BY <1>1, <1>2 DEF SameUser, Failed
<1> DEFINE e == Expired(u)
<1>4. SameUser(e, u) /\ IsUser(e)
  BY <1>1 DEF SameUser
<1> HIDE DEF e
<1>5. SameUser([e EXCEPT !.failed_attempts = 0], e) /\ SameUser(Failed(e), e)
  BY <1>2, <1>3, <1>4
<1>6. SameUser([e EXCEPT !.failed_attempts = 0], u) /\ SameUser(Failed(e), u)
  BY <1>4, <1>5 DEF SameUser
<1>7. SameUser(LockedUser(u), u) /\ SameUser(UnlockedUser(u), u)
  BY <1>1
<1>8. (\A pw : SameUser([u EXCEPT !.password = pw], u)) /\ (\A rs : SameUser([u EXCEPT !.roles = rs], u))
  BY <1>2
<1> QED
  BY <1>4, <1>6, <1>7, <1>8 DEF e

LEMMA AccountStep ==
  ASSUME UserInv, NEW n, NEW u, security_find_user(users, n) # 0,
         users' = [users EXCEPT ![security_find_user(users, n)] = u],
         SameUser(u, users[security_find_user(users, n)])
  PROVE  UsersSound(users')
BY SetUserSound DEF SameUser

LEMMA FoundIsUser ==
  ASSUME UserInv, NEW n, security_find_user(users, n) # 0
  PROVE  IsUser(users[security_find_user(users, n)])
BY UserFound DEF UserInv, UsersSound

LEMMA AdminUsers ==
  ASSUME UserInv, Admin
  PROVE  UserInv'
<1> DEFINE at(n) == security_find_user(users, n)
<1>1. ASSUME NEW n \in UserName, security_delete_user(n)
      PROVE  UserInv'
  <2>1. /\ at(n) \in 1 .. Len(users) /\ UsersSound(users)
        /\ users[at(n)].is_superuser => Cardinality(Superusers(users)) > 1
        /\ users' = RemoveAt(users, at(n)) /\ saved'.users = users'
    BY <1>1, UserFound DEF security_delete_user, UserInv, Save
  <2> HIDE DEF at
  <2> QED
    BY <2>1, UserRemoved DEF UserInv
<1>2. ASSUME NEW n \in UserName, NEW pw \in Password, security_change_password(n, pw)
      PROVE  UserInv'
  <2>1. /\ at(n) # 0 /\ saved'.users = users'
        /\ users' = [users EXCEPT ![at(n)] = [users[at(n)] EXCEPT !.password = pw]]
    BY <1>2 DEF security_change_password, SetUser, Save
  <2> QED
    BY <2>1, FoundIsUser, AccountsKept, AccountStep DEF UserInv
<1>3. ASSUME NEW n \in UserName, security_lock_user(n)
      PROVE  UserInv'
  <2>1. /\ at(n) # 0 /\ saved' = saved
        /\ users' = [users EXCEPT ![at(n)] = LockedUser(users[at(n)])]
    BY <1>3 DEF security_lock_user, SetUser, NoSave
  <2> QED
    BY <2>1, FoundIsUser, AccountsKept, AccountStep DEF UserInv
<1>4. ASSUME NEW n \in UserName, security_unlock_user(n)
      PROVE  UserInv'
  <2>1. /\ at(n) # 0 /\ saved' = saved
        /\ users' = [users EXCEPT ![at(n)] = UnlockedUser(users[at(n)])]
    BY <1>4 DEF security_unlock_user, SetUser, NoSave
  <2> QED
    BY <2>1, FoundIsUser, AccountsKept, AccountStep DEF UserInv
<1>5. ASSUME NEW n \in UserName, NEW r \in RoleName,
             security_grant_role(n, r) \/ security_revoke_role(n, r)
      PROVE  UserInv'
  <2>1. PICK rs : /\ at(n) # 0 /\ saved' = saved
                  /\ users' = [users EXCEPT ![at(n)] = [users[at(n)] EXCEPT !.roles = rs]]
    BY <1>5 DEF security_grant_role, security_revoke_role, SetUser, NoSave
  <2> QED
    BY <2>1, FoundIsUser, AccountsKept, AccountStep DEF UserInv
<1>6. ASSUME NEW r \in RoleName, security_create_role(r) \/ security_delete_role(r)
      PROVE  UserInv'
  BY <1>6 DEF security_create_role, security_delete_role, NoSave, UserInv
<1>7. ASSUME NEW c \in Conn, NEW n \in UserName, NEW pw \in Password, NEW r \in RoleName,
             handle_create_user(c, n, pw, r)
      PROVE  UserInv'
  <2> DEFINE given == IF security_find_role(r) # 0 THEN r ELSE "guest"
             base == NewUser(Len(users) + 1, n, pw, given)
             u == [base EXCEPT !.is_superuser = r = "superadmin"]
  <2>1. /\ at(n) = 0 /\ UsersSound(users)
        /\ users' = Append(users, u) /\ saved'.users = users'
    BY <1>7 DEF handle_create_user, security_create_user, Save, UserInv
  <2>2. IsUser(base) /\ base.username = n
    BY NewUserIs
  <2> HIDE DEF base
  <2>3. IsUser(u) /\ u.username = n
    BY <2>2 DEF IsUser, UserFields
  <2>4. \A j \in 1 .. Len(users) : users[j].username # n
    BY <2>1, UserFound
  <2> HIDE DEF u, at
  <2> QED
    BY <2>1, <2>3, <2>4, UserAppended DEF UserInv
<1> QED
  BY <1>1, <1>2, <1>3, <1>4, <1>5, <1>6, <1>7 DEF Admin

LEMMA LoginUsers ==
  ASSUME UserInv, NEW c, NEW n, NEW pw, security_login(c, n, pw)
  PROVE  UserInv'
<1> DEFINE i == security_find_user(users, n)
<1>1. saved' = saved
  BY DEF security_login
<1>2. CASE NotAdmitted(n) /\ UNCHANGED users
  BY <1>1, <1>2 DEF UserInv
<1>3. CASE ~ NotAdmitted(n) /\ UserStep(n, LAMBDA u : Failed(Expired(u)))
  <2>1. i # 0 /\ users' = [users EXCEPT ![i] = Failed(Expired(users[i]))]
    BY <1>3 DEF NotAdmitted, UserStep
  <2> QED
    BY <1>1, <2>1, FoundIsUser, AccountsKept, AccountStep DEF UserInv
<1>4. CASE ~ NotAdmitted(n) /\ UserStep(n, Expired)
  <2>1. i # 0 /\ users' = [users EXCEPT ![i] = Expired(users[i])]
    BY <1>4 DEF NotAdmitted, UserStep
  <2> QED
    BY <1>1, <2>1, FoundIsUser, AccountsKept, AccountStep DEF UserInv
<1>5. CASE ~ NotAdmitted(n)
           /\ UserStep(n, LAMBDA u : [Expired(u) EXCEPT !.failed_attempts = 0])
  <2>1. i # 0 /\ users' = [users EXCEPT ![i] = [Expired(users[i]) EXCEPT !.failed_attempts = 0]]
    BY <1>5 DEF NotAdmitted, UserStep
  <2> QED
    BY <1>1, <2>1, FoundIsUser, AccountsKept, AccountStep DEF UserInv
<1> QED
  BY <1>2, <1>3, <1>4, <1>5 DEF security_login, LoginAccepted

LEMMA NextUserInv ==
  ASSUME UserInv, [SecNext]_sessvars
  PROVE  UserInv'
<1>1. CASE UNCHANGED sessvars
  BY <1>1 DEF sessvars, UserInv
<1>2. CASE Admin
  BY <1>2, AdminUsers
<1>3. ASSUME NEW c \in Conn, ServerStep(c)
      PROVE  UserInv'
  <2>1. CASE \E n \in UserName, pw \in Password : security_login(c, n, pw)
    BY <2>1, LoginUsers
  <2>2. CASE ~ \E n \in UserName, pw \in Password : security_login(c, n, pw)
    BY <1>3, <2>2 DEF ServerStep, Connect, Disconnect, handle_login, handle_logout,
       record_failed_login, record_successful_login, execute_client_query,
       security_validate_session, secvars, UserInv
  <2> QED
    BY <2>1, <2>2
<1>4. CASE security_cleanup_sessions \/ Tick
  BY <1>4 DEF security_cleanup_sessions, Tick, secvars, UserInv
<1>5. ASSUME NEW o \in BOOLEAN, Restart(o)
      PROVE  UserInv'
  <2>1. CASE o
    BY <1>5, <2>1 DEF Restart, UserInv
  <2>2. CASE ~ o /\ saved = NoFile
    <3>1. users' = FirstUsers /\ saved'.users = users'
      BY <1>5, <2>2 DEF Restart, security_load
    <3> QED
      BY <3>1, FirstUsersSound DEF UserInv
  <2>3. CASE ~ o /\ saved # NoFile
    BY <1>5, <2>3 DEF Restart, security_load, UserInv
  <2> QED
    BY <2>1, <2>2, <2>3
<1> QED
  BY <1>1, <1>2, <1>3, <1>4, <1>5 DEF SecNext

-----------------------------------------------------------------------------
(* Login sessions: the session array. *)

SessionFields == {"token", "username", "permissions", "is_superuser", "expires_at"}
IsSession(s) == s = [x \in SessionFields |-> s[x]]
Places == 1 .. SECURITY_MAX_SESSIONS

\* The array, its count, and a token larger than all of its own.
SlotsSound(ss, n, tk) ==
  /\ ss = [i \in Places |-> ss[i]] /\ n \in 0 .. SECURITY_MAX_SESSIONS
  /\ \A i \in Places : /\ IsSession(ss[i]) /\ ss[i].token \in 0 .. tk - 1
                       /\ ss[i].expires_at \in Int
  /\ \A i, j \in 1 .. n : ss[i].token = ss[j].token => i = j

\* The array holds the login l: its token leads to nothing else, and to the
\* session as long as that has not expired.
SameLogin(s, l) ==
  /\ s.username = l.username /\ s.permissions = l.permissions
  /\ s.is_superuser = l.is_superuser /\ l.expires_at <= s.expires_at
LoginHeld(ss, n, l, nw) ==
  /\ \A i \in 1 .. n : ss[i].token = l.token => SameLogin(ss[i], l)
  /\ nw <= l.expires_at => \E i \in 1 .. n : ss[i].token = l.token

LEMMA ShiftSound ==
  ASSUME NEW ss, NEW n, NEW tk \in Nat, SlotsSound(ss, n, tk), NEW k \in 1 .. n
  PROVE  SlotsSound(Shift(ss, k, n), n - 1, tk)
<1> DEFINE rs == Shift(ss, k, n)
           from(j) == IF k <= j /\ j < n THEN j + 1 ELSE j
<1>1. SECURITY_MAX_SESSIONS \in Nat /\ n \in 1 .. SECURITY_MAX_SESSIONS /\ k \in 1 .. n
  BY SessionsAssumption DEF SlotsSound
<1>0. ss = [j \in Places |-> ss[j]]
  BY DEF SlotsSound
<1>2. /\ rs = [j \in Places |-> rs[j]]
      /\ \A j \in Places : rs[j] = IF k <= j /\ j < n THEN ss[j + 1] ELSE ss[j]
  BY <1>1, <1>0 DEF Shift
<1> HIDE DEF rs
<1>3. \A j \in Places : rs[j] = ss[from(j)] /\ from(j) \in Places
  BY <1>1, <1>2 DEF Places
<1>4. \A j \in 1 .. n - 1 : j \in Places /\ from(j) \in 1 .. n
  BY <1>1 DEF Places
<1>5. \A i, j \in 1 .. n - 1 : from(i) = from(j) => i = j
  BY <1>1
<1> HIDE DEF from
<1>6. ASSUME NEW i \in 1 .. n - 1, NEW j \in 1 .. n - 1, rs[i].token = rs[j].token
      PROVE  i = j
  <2>0. \A x, y \in 1 .. n : ss[x].token = ss[y].token => x = y
    BY DEF SlotsSound
  <2>1. from(i) = from(j)
    BY <1>3, <1>4, <1>6, <2>0
  <2> QED
    BY <1>5, <2>1
<1>7. n - 1 \in 0 .. SECURITY_MAX_SESSIONS
  BY <1>1
<1> QED
  BY <1>2, <1>3, <1>6, <1>7 DEF SlotsSound, rs

LEMMA ShiftHeld ==
  ASSUME NEW ss, NEW n, NEW tk \in Nat, SlotsSound(ss, n, tk), NEW k \in 1 .. n,
         NEW l, NEW nw, LoginHeld(ss, n, l, nw), nw <= l.expires_at => ss[k].token # l.token
  PROVE  LoginHeld(Shift(ss, k, n), n - 1, l, nw)
<1> DEFINE rs == Shift(ss, k, n)
           from(j) == IF k <= j /\ j < n THEN j + 1 ELSE j
<1>1. SECURITY_MAX_SESSIONS \in Nat /\ n \in 1 .. SECURITY_MAX_SESSIONS /\ k \in 1 .. n
  BY SessionsAssumption DEF SlotsSound
<1>2. \A j \in Places : rs[j] = IF k <= j /\ j < n THEN ss[j + 1] ELSE ss[j]
  BY DEF Shift, SlotsSound
<1> HIDE DEF rs
<1>3. \A j \in 1 .. n - 1 : rs[j] = ss[from(j)] /\ from(j) \in 1 .. n
  BY <1>1, <1>2 DEF Places
<1>4. ASSUME NEW i \in 1 .. n, i # k PROVE \E j \in 1 .. n - 1 : from(j) = i
  <2>1. CASE i < k
    <3>1. i \in 1 .. n - 1 /\ from(i) = i
      BY <1>1, <2>1
    <3> QED
      BY <3>1
  <2>2. CASE i > k
    <3>1. i - 1 \in 1 .. n - 1 /\ from(i - 1) = i
      BY <1>1, <2>2
    <3> QED
      BY <3>1
  <2> QED
    BY <1>4, <2>1, <2>2
<1> HIDE DEF from
<1>5. \A j \in 1 .. n - 1 : rs[j].token = l.token => SameLogin(rs[j], l)
  BY <1>3 DEF LoginHeld
<1>6. ASSUME nw <= l.expires_at
      PROVE  \E j \in 1 .. n - 1 : rs[j].token = l.token
  <2>1. PICK i \in 1 .. n : ss[i].token = l.token
    BY <1>6 DEF LoginHeld
  <2>2. PICK j \in 1 .. n - 1 : from(j) = i
    BY <1>4, <1>6, <2>1
  <2> QED
    BY <1>3, <2>1, <2>2
<1> QED
  BY <1>5, <1>6 DEF LoginHeld, rs

\* security_cleanup_sessions, place by place from the last.
OneCleaned(s, i) == IF now <= s.slots[i].expires_at THEN s
                    ELSE [slots |-> Shift(s.slots, i, s.count), count |-> s.count - 1]
CleanedTo(ss, n, f, m) ==
  f = [k \in 0 .. m |-> IF k = 0 THEN [slots |-> ss, count |-> n]
                        ELSE OneCleaned(f[k - 1], n + 1 - k)]

LEMMA CleanedExists ==
  ASSUME NEW ss, NEW n \in Nat
  PROVE  \E f : CleanedTo(ss, n, f, n)
<1> DEFINE bad == {m \in 0 .. n : ~ \E f : CleanedTo(ss, n, f, m)}
<1> SUFFICES ASSUME bad # {} PROVE FALSE
  OBVIOUS
<1>0. bad \subseteq Nat
  OBVIOUS
<1>1. PICK m \in bad : \A j \in bad : m <= j
  <2> HIDE DEF bad
  <2> QED
    BY <1>0, LeastNumber
<1>2. m \in 0 .. n
  OBVIOUS
<1>3. CASE m = 0
  <2> DEFINE g == [k \in 0 .. 0 |-> [slots |-> ss, count |-> n]]
  <2>1. CleanedTo(ss, n, g, 0)
    BY DEF CleanedTo
  <2> QED
    BY <1>3, <2>1
<1>4. CASE m # 0
  <2>1. m - 1 \in 0 .. n /\ m - 1 \notin bad
    BY <1>1, <1>2, <1>4
  <2>2. PICK f : CleanedTo(ss, n, f, m - 1)
    BY <2>1
  <2> DEFINE g == [k \in 0 .. m |-> IF k = m THEN OneCleaned(f[m - 1], n + 1 - m) ELSE f[k]]
  <2>3. \A k \in 0 .. m : g[k] = IF k = 0 THEN [slots |-> ss, count |-> n]
                                 ELSE OneCleaned(g[k - 1], n + 1 - k)
    <3> SUFFICES ASSUME NEW k \in 0 .. m
                 PROVE  g[k] = IF k = 0 THEN [slots |-> ss, count |-> n]
                               ELSE OneCleaned(g[k - 1], n + 1 - k)
      OBVIOUS
    <3>1. CASE k = m
      <4>1. g[k - 1] = f[m - 1] /\ g[k] = OneCleaned(f[m - 1], n + 1 - m)
        BY <1>2, <1>4, <3>1
      <4> HIDE DEF g
      <4> QED
        BY <1>4, <3>1, <4>1
    <3>2. CASE k # m
      <4>1. k \in 0 .. m - 1 /\ g[k] = f[k] /\ (k # 0 => g[k - 1] = f[k - 1])
        BY <1>2, <1>4, <3>2
      <4> HIDE DEF g
      <4> QED
        BY <2>2, <4>1 DEF CleanedTo
    <3> QED
      BY <3>1, <3>2
  <2>4. g = [k \in 0 .. m |-> g[k]]
    OBVIOUS
  <2> HIDE DEF g
  <2>5. CleanedTo(ss, n, g, m)
    BY <2>3, <2>4 DEF CleanedTo
  <2> QED
    BY <2>5
<1> QED
  BY <1>3, <1>4

LEMMA CleanedUnfolds ==
  ASSUME NEW ss, NEW n \in Nat
  PROVE  \E f : CleanedTo(ss, n, f, n) /\ Cleaned(ss, n) = f[n]
<1> DEFINE g == CHOOSE f : CleanedTo(ss, n, f, n)
<1>1. CleanedTo(ss, n, g, n)
  BY CleanedExists
<1>2. Cleaned(ss, n) = g[n]
  BY DEF Cleaned, CleanedTo, OneCleaned
<1> QED
  BY <1>1, <1>2

\* A cleaned array is sound, and holds every login it held.
HoldsAlso(ss, n, rs, m) ==
  \A l : l.expires_at \in Int /\ LoginHeld(ss, n, l, now) => LoginHeld(rs, m, l, now)

LEMMA CleanedSound ==
  ASSUME NEW ss, NEW n, NEW tk \in Nat, SlotsSound(ss, n, tk), now \in Nat
  PROVE  /\ SlotsSound(Cleaned(ss, n).slots, Cleaned(ss, n).count, tk)
         /\ HoldsAlso(ss, n, Cleaned(ss, n).slots, Cleaned(ss, n).count)
<1>1. n \in Nat /\ n \in 0 .. SECURITY_MAX_SESSIONS /\ SECURITY_MAX_SESSIONS \in Nat
  BY SessionsAssumption DEF SlotsSound
<1>2. PICK f : CleanedTo(ss, n, f, n) /\ Cleaned(ss, n) = f[n]
  BY <1>1, CleanedUnfolds
<1> DEFINE good(k) == /\ SlotsSound(f[k].slots, f[k].count, tk) /\ n - k <= f[k].count
                      /\ HoldsAlso(ss, n, f[k].slots, f[k].count)
<1>3. f[0] = [slots |-> ss, count |-> n]
  BY <1>1, <1>2 DEF CleanedTo
<1>4. good(0)
  BY <1>1, <1>3 DEF HoldsAlso
<1>5. ASSUME NEW k \in 1 .. n, good(k - 1) PROVE good(k)
  <2> DEFINE s == f[k - 1]
             i == n + 1 - k
  <2>1. f[k] = OneCleaned(s, i)
    BY <1>1, <1>2 DEF CleanedTo
  <2>2. /\ SlotsSound(s.slots, s.count, tk) /\ HoldsAlso(ss, n, s.slots, s.count)
        /\ n - (k - 1) <= s.count
    BY <1>5
  <2>3. s.count \in Nat /\ i \in 1 .. s.count /\ s.count <= SECURITY_MAX_SESSIONS
    BY <1>1, <2>2 DEF SlotsSound
  <2>4. n - k <= s.count - 1 /\ n - k <= s.count
    BY <1>1, <2>2, <2>3
  <2> HIDE DEF s, i
  <2>5. CASE now <= s.slots[i].expires_at
    BY <2>1, <2>2, <2>4, <2>5 DEF OneCleaned
  <2>6. CASE ~ (now <= s.slots[i].expires_at)
    <3>1. f[k].slots = Shift(s.slots, i, s.count) /\ f[k].count = s.count - 1
      BY <2>1, <2>6 DEF OneCleaned
    <3>2. SlotsSound(f[k].slots, f[k].count, tk)
      BY <2>2, <2>3, <3>1, ShiftSound
    <3>3. ASSUME NEW l, l.expires_at \in Int, LoginHeld(s.slots, s.count, l, now)
          PROVE  LoginHeld(f[k].slots, f[k].count, l, now)
      <4>1. s.slots[i].expires_at \in Int
        BY <1>1, <2>2, <2>3 DEF SlotsSound, Places
      <4>2. s.slots[i].token = l.token => l.expires_at <= s.slots[i].expires_at
        BY <2>3, <3>3 DEF LoginHeld, SameLogin
      <4>3. now <= l.expires_at => s.slots[i].token # l.token
        BY <2>6, <3>3, <4>1, <4>2
      <4> QED
        BY <2>2, <2>3, <3>1, <3>3, <4>3, ShiftHeld
    <3> QED
      BY <2>2, <2>4, <3>1, <3>2, <3>3 DEF HoldsAlso
  <2> QED
    BY <2>5, <2>6
<1> DEFINE bad == {k \in 0 .. n : ~ good(k)}
<1> HIDE DEF good
<1>6. bad = {}
  <2> SUFFICES ASSUME bad # {} PROVE FALSE
    OBVIOUS
  <2>0. bad \subseteq Nat
    BY <1>1
  <2>1. PICK k \in bad : \A j \in bad : k <= j
    <3> HIDE DEF bad
    <3> QED
      BY <2>0, LeastNumber
  <2>2. k # 0 /\ k \in 1 .. n /\ k - 1 \in 0 .. n
    BY <1>1, <1>4
  <2>3. k - 1 \notin bad
    BY <2>1, <2>2
  <2>4. good(k - 1)
    BY <2>2, <2>3
  <2> QED
    BY <1>5, <2>2, <2>4
<1>7. good(n)
  BY <1>1, <1>6
<1> QED
  BY <1>2, <1>7 DEF good

\* security_login: a session appended with a fresh token.
LEMMA OpenedSound ==
  ASSUME NEW ss, NEW n, NEW tk \in Nat, SlotsSound(ss, n, tk), n < SECURITY_MAX_SESSIONS,
         NEW s, IsSession(s), s.token = tk, s.expires_at \in Int
  PROVE  SlotsSound([ss EXCEPT ![n + 1] = s], n + 1, tk + 1)
<1> DEFINE rs == [ss EXCEPT ![n + 1] = s]
<1>1. SECURITY_MAX_SESSIONS \in Nat /\ n \in Nat /\ n + 1 \in Places
  BY SessionsAssumption DEF SlotsSound, Places
<1>2. /\ rs = [i \in Places |-> rs[i]]
      /\ \A i \in Places : rs[i] = IF i = n + 1 THEN s ELSE ss[i]
  BY <1>1 DEF SlotsSound
<1> HIDE DEF rs
<1>3. \A i \in Places : /\ IsSession(rs[i]) /\ rs[i].token \in 0 .. tk /\ rs[i].expires_at \in Int
                        /\ rs[i].token = tk <=> i = n + 1
  BY <1>2 DEF SlotsSound
<1>4. 1 .. n + 1 \subseteq Places
  BY <1>1 DEF Places
<1>5. ASSUME NEW i \in 1 .. n + 1, NEW j \in 1 .. n + 1, rs[i].token = rs[j].token
      PROVE  i = j
  <2>1. CASE i = n + 1 \/ j = n + 1
    BY <1>3, <1>4, <1>5, <2>1
  <2>2. CASE i # n + 1 /\ j # n + 1
    <3>1. i \in 1 .. n /\ j \in 1 .. n
      BY <1>1, <2>2
    <3>2. ss[i].token = ss[j].token
      BY <1>2, <1>4, <1>5, <2>2
    <3> QED
      BY <3>1, <3>2 DEF SlotsSound
  <2> QED
    BY <2>1, <2>2
<1>6. n + 1 \in 0 .. SECURITY_MAX_SESSIONS /\ (tk + 1) - 1 = tk
  BY <1>1
<1> QED
  BY <1>2, <1>3, <1>5, <1>6 DEF SlotsSound, rs

LEMMA OpenedHeld ==
  ASSUME NEW ss, NEW n, NEW tk \in Nat, SlotsSound(ss, n, tk), n < SECURITY_MAX_SESSIONS, NEW nw,
         NEW s, s.token = tk, s.expires_at \in Int
  PROVE  /\ LoginHeld([ss EXCEPT ![n + 1] = s], n + 1, s, nw)
         /\ \A l : l.token # tk /\ LoginHeld(ss, n, l, nw) => LoginHeld([ss EXCEPT ![n + 1] = s], n + 1, l, nw)
<1> DEFINE rs == [ss EXCEPT ![n + 1] = s]
<1>1. SECURITY_MAX_SESSIONS \in Nat /\ n \in Nat /\ n + 1 \in Places
  BY SessionsAssumption DEF SlotsSound, Places
<1>2. \A i \in Places : rs[i] = IF i = n + 1 THEN s ELSE ss[i]
  BY <1>1 DEF SlotsSound
<1> HIDE DEF rs
<1>3. /\ \A i \in 1 .. n + 1 : i \in Places /\ (i # n + 1 => i \in 1 .. n)
      /\ \A i \in 1 .. n : i \in Places /\ i \in 1 .. n + 1 /\ i # n + 1
      /\ n + 1 \in 1 .. n + 1
  BY <1>1 DEF Places
<1>4. \A i \in 1 .. n : rs[i] = ss[i] /\ rs[i].token # tk
  BY <1>2, <1>3 DEF SlotsSound
<1>5. rs[n + 1] = s
  BY <1>1, <1>2
<1>6. LoginHeld(rs, n + 1, s, nw)
  BY <1>3, <1>4, <1>5 DEF LoginHeld, SameLogin
<1>7. ASSUME NEW l, l.token # tk, LoginHeld(ss, n, l, nw)
      PROVE  LoginHeld(rs, n + 1, l, nw)
  BY <1>3, <1>4, <1>5, <1>7 DEF LoginHeld
<1> QED
  BY <1>6, <1>7 DEF rs

\* security_touch_session: an expiry no earlier than that of any login.
LEMMA TouchedSound ==
  ASSUME NEW ss, NEW n, NEW tk \in Nat, SlotsSound(ss, n, tk), NEW k \in 1 .. n,
         NEW e \in Int
  PROVE  /\ SlotsSound([ss EXCEPT ![k].expires_at = e], n, tk)
         /\ \A l, nw : l.expires_at <= e /\ LoginHeld(ss, n, l, nw)
                          => LoginHeld([ss EXCEPT ![k].expires_at = e], n, l, nw)
<1> DEFINE rs == [ss EXCEPT ![k].expires_at = e]
<1>1. SECURITY_MAX_SESSIONS \in Nat /\ n \in Nat /\ 1 .. n \subseteq Places /\ k \in Places
  BY SessionsAssumption DEF SlotsSound, Places
<1>2. /\ rs = [i \in Places |-> rs[i]]
      /\ \A i \in Places : rs[i] = IF i = k THEN [ss[k] EXCEPT !.expires_at = e] ELSE ss[i]
  BY <1>1 DEF SlotsSound
<1>3. IsSession(ss[k])
  BY <1>1 DEF SlotsSound
<1>4. /\ IsSession([ss[k] EXCEPT !.expires_at = e]) /\ [ss[k] EXCEPT !.expires_at = e].expires_at = e
      /\ \A x \in SessionFields \ {"expires_at"} : [ss[k] EXCEPT !.expires_at = e][x] = ss[k][x]
  BY <1>3 DEF IsSession, SessionFields
<1> HIDE DEF rs
<1>5. \A i \in Places : /\ IsSession(rs[i]) /\ rs[i].token = ss[i].token
                        /\ rs[i].username = ss[i].username /\ rs[i].permissions = ss[i].permissions
                        /\ rs[i].is_superuser = ss[i].is_superuser
                        /\ rs[i].expires_at = IF i = k THEN e ELSE ss[i].expires_at
  BY <1>2, <1>4 DEF SlotsSound, SessionFields
<1>6. SlotsSound(rs, n, tk)
  BY <1>1, <1>2, <1>5 DEF SlotsSound
<1>7. ASSUME NEW l, NEW nw, l.expires_at <= e, LoginHeld(ss, n, l, nw)
      PROVE  LoginHeld(rs, n, l, nw)
  BY <1>1, <1>5, <1>7 DEF LoginHeld, SameLogin
<1> QED
  BY <1>6, <1>7 DEF rs

-----------------------------------------------------------------------------
(* Login sessions: connections and their logins. *)

ConnFields == {"open", "tracker", "session", "auth_token", "authenticated", "pc", "seen", "login"}
IsConn(r) == r = [x \in ConnFields |-> r[x]]

\* What an authenticated connection keeps: its token is that of its login, an
\* old one, whose expiry is not far away.
LoginSound(r, tk, nw) ==
  r.authenticated => /\ IsSession(r.login) /\ r.login.token = r.auth_token
                     /\ r.auth_token \in 0 .. tk - 1
                     /\ r.login.expires_at \in Int
                     /\ r.login.expires_at <= nw + session_timeout
ConnsSound(cn, tk, nw) ==
  /\ cn = [c \in Conn |-> cn[c]]
  /\ \A c \in Conn : IsConn(cn[c]) /\ LoginSound(cn[c], tk, nw)
  /\ \A c, d \in Conn : cn[c].authenticated /\ cn[d].authenticated
                          /\ cn[c].auth_token = cn[d].auth_token => c = d
LoginsHeld(ss, n, cn, nw) ==
  \A c \in Conn : cn[c].authenticated => LoginHeld(ss, n, cn[c].login, nw)

SessionInv ==
  /\ now \in Nat /\ token \in Nat
  /\ SlotsSound(slots, session_count, token)
  /\ ConnsSound(conn, token, now)
  /\ LoginsHeld(slots, session_count, conn, now)

LEMMA SessionFound ==
  ASSUME NEW t, session_count \in Nat
  PROVE  /\ security_find_session(t) = 0 => \A i \in 1 .. session_count : slots[i].token # t
         /\ security_find_session(t) # 0 =>
              /\ security_find_session(t) \in 1 .. session_count
              /\ slots[security_find_session(t)].token = t
<1> DEFINE m == {i \in 1 .. session_count : slots[i].token = t}
<1>1. CASE m = {}
  BY <1>1 DEF security_find_session, First
<1>2. CASE m # {}
  <2>0. m \subseteq Nat
    OBVIOUS
  <2>1. PICK i \in m : \A j \in m : i <= j
    BY <1>2, <2>0, LeastNumber
  <2>2. security_find_session(t) \in m
    BY <1>2, <2>1 DEF security_find_session, First
  <2>3. security_find_session(t) # 0
    BY <2>2
  <2> QED
    BY <2>2, <2>3
<1> QED
  BY <1>1, <1>2

KeepsLogin(r, s) ==
  r.authenticated => s.authenticated /\ r.login = s.login /\ r.auth_token = s.auth_token

LoginsAmong(ds, cn) ==
  \A d \in Conn : ds[d].authenticated => cn[d].authenticated /\ ds[d].login = cn[d].login

\* A connection changed, with the login it had or with none.
LEMMA ConnChanged ==
  ASSUME NEW cn, NEW tk, NEW nw, ConnsSound(cn, tk, nw), NEW c \in Conn, NEW r, IsConn(r),
         KeepsLogin(r, cn[c])
  PROVE  /\ ConnsSound([cn EXCEPT ![c] = r], tk, nw)
         /\ LoginsAmong([cn EXCEPT ![c] = r], cn)
<1> DEFINE ds == [cn EXCEPT ![c] = r]
<1>1. /\ ds = [d \in Conn |-> ds[d]]
      /\ \A d \in Conn : ds[d] = IF d = c THEN r ELSE cn[d]
  BY DEF ConnsSound
<1> HIDE DEF ds
<1>2. \A d \in Conn : /\ IsConn(ds[d])
                      /\ ds[d].authenticated => /\ cn[d].authenticated /\ ds[d].login = cn[d].login
                                                /\ ds[d].auth_token = cn[d].auth_token
  BY <1>1 DEF ConnsSound, KeepsLogin
<1>3. ConnsSound(ds, tk, nw)
  BY <1>1, <1>2 DEF ConnsSound, LoginSound
<1>4. LoginsAmong(ds, cn)
  BY <1>2 DEF LoginsAmong
<1> QED
  BY <1>3, <1>4 DEF ds

\* A step that changes a connection and keeps its login.
LEMMA ConnStep ==
  ASSUME SessionInv, UNCHANGED <<slots, session_count, token, now>>, NEW c \in Conn, NEW r,
         conn' = [conn EXCEPT ![c] = r], IsConn(r),
         KeepsLogin(r, conn[c])
  PROVE  SessionInv'
<1>1. ConnsSound(conn, token, now)
  BY DEF SessionInv
<1>2. /\ ConnsSound([conn EXCEPT ![c] = r], token, now)
      /\ LoginsAmong([conn EXCEPT ![c] = r], conn)
  BY <1>1, ConnChanged
<1>3. LoginsHeld(slots, session_count, conn', now)
  BY <1>2 DEF SessionInv, LoginsHeld, LoginsAmong
<1> QED
  BY <1>2, <1>3 DEF SessionInv

\* security_logout.
LEMMA LogoutSound ==
  ASSUME SessionInv, NEW t, security_logout(t)
  PROVE  /\ SlotsSound(slots', session_count', token)
         /\ \A l : LoginHeld(slots, session_count, l, now) /\ (now <= l.expires_at => l.token # t)
                     => LoginHeld(slots', session_count', l, now)
<1> DEFINE i == security_find_session(t)
<1>1. SlotsSound(slots, session_count, token) /\ token \in Nat /\ session_count \in Nat
  BY DEF SessionInv, SlotsSound
<1>2. i = 0 \/ (i \in 1 .. session_count /\ slots[i].token = t)
  BY <1>1, SessionFound
<1>3. CASE i = 0
  BY <1>1, <1>3 DEF security_logout
<1>4. CASE i # 0
  <2>1. /\ slots' = Shift(slots, i, session_count) /\ session_count' = session_count - 1
        /\ i \in 1 .. session_count /\ slots[i].token = t
    BY <1>2, <1>4 DEF security_logout
  <2> HIDE DEF i
  <2>2. SlotsSound(slots', session_count', token)
    BY <1>1, <2>1, ShiftSound
  <2>3. ASSUME NEW l, LoginHeld(slots, session_count, l, now), now <= l.expires_at => l.token # t
        PROVE  LoginHeld(slots', session_count', l, now)
    BY <1>1, <2>1, <2>3, ShiftHeld
  <2> QED
    BY <2>2, <2>3
<1> QED
  BY <1>3, <1>4

\* A connection whose login ends.
LEMMA LogoutStep ==
  ASSUME SessionInv, NEW c \in Conn, conn[c].authenticated, NEW r, IsConn(r), ~ r.authenticated,
         security_logout(conn[c].auth_token), conn' = [conn EXCEPT ![c] = r],
         UNCHANGED <<token, now>>
  PROVE  SessionInv'
<1>1. ConnsSound(conn, token, now) /\ LoginsHeld(slots, session_count, conn, now)
  BY DEF SessionInv
<1>2. /\ ConnsSound([conn EXCEPT ![c] = r], token, now)
      /\ LoginsAmong([conn EXCEPT ![c] = r], conn)
  <2>1. KeepsLogin(r, conn[c])
    BY DEF KeepsLogin
  <2> QED
    BY <1>1, <2>1, ConnChanged
<1>3. /\ SlotsSound(slots', session_count', token)
      /\ \A l : LoginHeld(slots, session_count, l, now) /\ (now <= l.expires_at => l.token # conn[c].auth_token)
                  => LoginHeld(slots', session_count', l, now)
  BY LogoutSound
<1>4. ASSUME NEW d \in Conn, conn'[d].authenticated
      PROVE  LoginHeld(slots', session_count', conn'[d].login, now)
  <2>1. conn[d].authenticated /\ conn'[d].login = conn[d].login
    BY <1>2, <1>4 DEF LoginsAmong
  <2>3. d # c
    BY <1>1, <1>4 DEF ConnsSound
  <2>2. conn[d].login.token # conn[c].auth_token
    BY <1>1, <2>1, <2>3 DEF ConnsSound, LoginSound
  <2> QED
    BY <1>1, <1>3, <2>1, <2>2 DEF LoginsHeld
<1>5. LoginsHeld(slots', session_count', conn', now)
  BY <1>4 DEF LoginsHeld
<1> QED
  BY <1>2, <1>3, <1>5 DEF SessionInv

\* security_validate_session logs an expired session out.
LEMMA ValidateStep ==
  ASSUME SessionInv, NEW c \in Conn, security_validate_session(c)
  PROVE  SessionInv'
<1> DEFINE i == security_find_session(conn[c].auth_token)
<1>1. /\ conn[c].authenticated /\ i # 0 /\ now > slots[i].expires_at
      /\ security_logout(conn[c].auth_token)
      /\ UNCHANGED <<conn, token, now>>
  BY DEF security_validate_session
<1>2. session_count \in 0 .. SECURITY_MAX_SESSIONS /\ SECURITY_MAX_SESSIONS \in Nat
  BY SessionsAssumption DEF SessionInv, SlotsSound
<1>3. i \in 1 .. session_count /\ slots[i].token = conn[c].auth_token
  BY <1>1, <1>2, SessionFound
<1>4. slots[i].expires_at \in Int /\ now \in Nat
  BY <1>2, <1>3 DEF SessionInv, SlotsSound, Places
<1> HIDE DEF i
<1>5. /\ SlotsSound(slots', session_count', token)
      /\ \A l : LoginHeld(slots, session_count, l, now) /\ (now <= l.expires_at => l.token # conn[c].auth_token)
                  => LoginHeld(slots', session_count', l, now)
  BY <1>1, LogoutSound
<1>6. ASSUME NEW d \in Conn, conn[d].authenticated
      PROVE  LoginHeld(slots', session_count', conn[d].login, now)
  <2>1. LoginHeld(slots, session_count, conn[d].login, now) /\ conn[d].login.expires_at \in Int
    BY <1>6 DEF SessionInv, LoginsHeld, ConnsSound, LoginSound
  <2>2. conn[d].login.token = conn[c].auth_token => conn[d].login.expires_at <= slots[i].expires_at
    BY <1>3, <2>1 DEF LoginHeld, SameLogin
  <2>3. now <= conn[d].login.expires_at => conn[d].login.token # conn[c].auth_token
    BY <1>1, <1>4, <2>1, <2>2
  <2> QED
    BY <1>5, <2>1, <2>3
<1>7. LoginsHeld(slots', session_count', conn', now)
  BY <1>1, <1>6 DEF LoginsHeld
<1> QED
  BY <1>1, <1>5, <1>7 DEF SessionInv

LEMMA TouchStep ==
  ASSUME SessionInv, NEW c \in Conn, execute_client_query(c)
  PROVE  SessionInv'
<1> DEFINE i == security_find_session(conn[c].auth_token)
           e == now + session_timeout
<1>1. /\ slots' = IF i = 0 THEN slots ELSE [slots EXCEPT ![i].expires_at = e]
      /\ UNCHANGED <<session_count, conn, token, now>>
  BY DEF execute_client_query, security_touch_session
<1>2. /\ SlotsSound(slots, session_count, token) /\ token \in Nat
      /\ session_count \in Nat /\ e \in Int
  BY SessionsAssumption DEF SessionInv, SlotsSound
<1>3. i = 0 \/ i \in 1 .. session_count
  BY <1>2, SessionFound
<1>4. CASE i = 0
  BY <1>1, <1>4 DEF SessionInv
<1>5. CASE i # 0
  <2>0. slots' = [slots EXCEPT ![i].expires_at = e] /\ i \in 1 .. session_count
    BY <1>1, <1>3, <1>5
  <2>1. \A d \in Conn : conn[d].authenticated => conn[d].login.expires_at <= e
    BY DEF SessionInv, ConnsSound, LoginSound
  <2> HIDE DEF i, e
  <2>2. /\ SlotsSound(slots', session_count, token)
        /\ \A l, nw : l.expires_at <= e /\ LoginHeld(slots, session_count, l, nw)
                        => LoginHeld(slots', session_count, l, nw)
    BY <1>2, <2>0, TouchedSound
  <2>3. LoginsHeld(slots', session_count, conn, now)
    BY <2>1, <2>2 DEF SessionInv, LoginsHeld
  <2> QED
    BY <1>1, <2>2, <2>3 DEF SessionInv
<1> QED
  BY <1>4, <1>5

LEMMA CleanupStep ==
  ASSUME SessionInv, security_cleanup_sessions
  PROVE  SessionInv'
<1>1. /\ SlotsSound(slots', session_count', token)
      /\ HoldsAlso(slots, session_count, slots', session_count')
  BY CleanedSound DEF SessionInv, security_cleanup_sessions
<1>2. UNCHANGED <<conn, token, now>>
  BY DEF security_cleanup_sessions
<1>3. LoginsHeld(slots', session_count', conn, now)
  BY <1>1 DEF SessionInv, ConnsSound, LoginSound, LoginsHeld, HoldsAlso
<1> QED
  BY <1>1, <1>2, <1>3 DEF SessionInv

LEMMA TickStep ==
  ASSUME SessionInv, Tick
  PROVE  SessionInv'
<1>1. now' = now + 1 /\ UNCHANGED <<slots, session_count, conn, token>> /\ now \in Nat
  BY DEF Tick, secvars, SessionInv
<1>2. \A x \in Int : /\ now + 1 <= x => now <= x
                     /\ x <= now + session_timeout => x <= now + 1 + session_timeout
  BY <1>1, SessionsAssumption
<1>3. ConnsSound(conn, token, now + 1)
  BY <1>2 DEF SessionInv, ConnsSound, LoginSound
<1>4. LoginsHeld(slots, session_count, conn, now + 1)
  BY <1>2 DEF SessionInv, ConnsSound, LoginSound, LoginsHeld, LoginHeld
<1> QED
  BY <1>1, <1>3, <1>4 DEF SessionInv

LEMMA ConnOpened ==
  ASSUME NEW cn, NEW tk \in Nat, NEW nw \in Nat, ConnsSound(cn, tk, nw), NEW c \in Conn, NEW r,
         IsConn(r), r.auth_token = tk, IsSession(r.login), r.login.token = tk,
         r.login.expires_at = nw + session_timeout
  PROVE  ConnsSound([cn EXCEPT ![c] = r], tk + 1, nw)
<1> DEFINE ds == [cn EXCEPT ![c] = r]
<1>1. /\ ds = [d \in Conn |-> ds[d]]
      /\ \A d \in Conn : ds[d] = IF d = c THEN r ELSE cn[d]
  BY DEF ConnsSound
<1> HIDE DEF ds
<1>2. /\ r.login.expires_at \in Int /\ r.login.expires_at <= nw + session_timeout
      /\ tk + 1 - 1 = tk
  BY SessionsAssumption
<1>3. \A d \in Conn : IsConn(ds[d]) /\ LoginSound(ds[d], tk + 1, nw)
  BY <1>1, <1>2 DEF ConnsSound, LoginSound
<1>4. \A d \in Conn : d # c /\ ds[d].authenticated => ds[d].auth_token # tk
  BY <1>1 DEF ConnsSound, LoginSound
<1>5. \A d, e \in Conn : ds[d].authenticated /\ ds[e].authenticated
                           /\ ds[d].auth_token = ds[e].auth_token => d = e
  BY <1>1, <1>4 DEF ConnsSound
<1> QED
  BY <1>1, <1>3, <1>5 DEF ConnsSound, ds

\* The connection records that the steps store.
SameConn(q, r) == IsConn(q) /\ KeepsLogin(q, r) /\ q.tracker = r.tracker

LEMMA ConnFieldsKept ==
  ASSUME NEW r, IsConn(r), NEW p, NEW n
  PROVE  SameConn([r EXCEPT !.pc = p], r) /\ SameConn([r EXCEPT !.pc = p, !.seen = n], r)
BY DEF IsConn, ConnFields, KeepsLogin, SameConn

LoggedIn(r, i, t, s) ==
  [r EXCEPT !.session = i, !.auth_token = t, !.authenticated = TRUE, !.pc = "succeeded", !.login = s]
LoggedOut(r) ==
  [r EXCEPT !.session = 0, !.auth_token = 0, !.authenticated = FALSE, !.login = NoSession]

LEMMA ConnLoggedIn ==
  ASSUME NEW r, IsConn(r), NEW i, NEW t, NEW s
  PROVE  /\ IsConn(LoggedIn(r, i, t, s)) /\ LoggedIn(r, i, t, s).auth_token = t
         /\ LoggedIn(r, i, t, s).login = s /\ LoggedIn(r, i, t, s).tracker = r.tracker
BY DEF IsConn, ConnFields, LoggedIn

LEMMA ConnLoggedOut ==
  ASSUME NEW r, IsConn(r)
  PROVE  IsConn(LoggedOut(r)) /\ ~ LoggedOut(r).authenticated /\ LoggedOut(r).tracker = r.tracker
BY DEF IsConn, ConnFields, LoggedOut

\* LoginAccepted: a full array is cleaned first.
LEMMA BaseSound ==
  ASSUME SessionInv, NEW ss, ss = IF Full THEN Cleaned(slots, session_count).slots ELSE slots
  PROVE  SlotsSound(ss, Base, token) /\ HoldsAlso(slots, session_count, ss, Base)
<1>1. SlotsSound(slots, session_count, token) /\ token \in Nat /\ now \in Nat
  BY DEF SessionInv
<1>2. CASE Full
  <2>1. ss = Cleaned(slots, session_count).slots /\ Base = Cleaned(slots, session_count).count
    BY <1>2 DEF Base
  <2> QED
    BY <1>1, <2>1, CleanedSound
<1>3. CASE ~ Full
  <2>1. ss = slots /\ Base = session_count
    BY <1>3 DEF Base
  <2> QED
    BY <1>1, <2>1 DEF HoldsAlso
<1> QED
  BY <1>2, <1>3

LEMMA AcceptedStep ==
  ASSUME SessionInv, NEW c \in Conn, NEW n, LoginAccepted(c, n), now' = now
  PROVE  SessionInv'
<1> DEFINE u == users[security_find_user(users, n)]
           ss == IF Full THEN Cleaned(slots, session_count).slots ELSE slots
           s == [token |-> token, username |-> u.username,
                 permissions |-> security_get_user_permissions(u),
                 is_superuser |-> u.is_superuser, expires_at |-> now + session_timeout]
           m == Base
<1>1. /\ SlotsSound(ss, m, token) /\ HoldsAlso(slots, session_count, ss, m)
      /\ token \in Nat /\ now \in Nat /\ ConnsSound(conn, token, now)
  BY BaseSound DEF SessionInv
<1>2. /\ IsSession(s) /\ s.token = token /\ s.expires_at = now + session_timeout
      /\ s.expires_at \in Int
  BY <1>1, SessionsAssumption DEF IsSession, SessionFields
<1>3. IsConn(conn[c])
  BY <1>1 DEF ConnsSound
<1>4. \A d \in Conn : conn[d].authenticated =>
        /\ LoginHeld(ss, m, conn[d].login, now) /\ conn[d].login.token # token
        /\ conn[d].login.expires_at \in Int
  BY <1>1 DEF SessionInv, LoginsHeld, HoldsAlso, ConnsSound, LoginSound
<1>5. CASE m < SECURITY_MAX_SESSIONS
  <2> DEFINE r == LoggedIn(conn[c], m + 1, token, slots'[m + 1])
  <2>1. /\ slots' = [ss EXCEPT ![m + 1] = s] /\ session_count' = m + 1 /\ token' = token + 1
        /\ conn' = [conn EXCEPT ![c] = r]
    BY <1>5 DEF LoginAccepted, OpenSession, LoginRefused, SetConn, LoggedIn
  <2> HIDE DEF s, ss
  <2>2. slots'[m + 1] = s
    <3>1. m + 1 \in Places /\ ss = [i \in Places |-> ss[i]]
      BY <1>1, <1>5, SessionsAssumption DEF SlotsSound, Places
    <3> QED
      BY <2>1, <3>1
  <2>3. IsConn(r) /\ r.auth_token = token /\ r.login = s
    BY <1>3, <2>2, ConnLoggedIn
  <2> HIDE DEF r, m
  <2>4. SlotsSound(slots', session_count', token')
    BY <1>1, <1>2, <1>5, <2>1, OpenedSound
  <2>5. /\ LoginHeld(slots', session_count', s, now)
        /\ \A l : l.token # token /\ LoginHeld(ss, m, l, now) => LoginHeld(slots', session_count', l, now)
    BY <1>1, <1>2, <1>5, <2>1, OpenedHeld
  <2>6. ConnsSound(conn', token', now)
    BY <1>1, <1>2, <2>1, <2>3, ConnOpened
  <2>7. ASSUME NEW d \in Conn, conn'[d].authenticated
        PROVE  LoginHeld(slots', session_count', conn'[d].login, now)
    <3>1. conn'[d] = IF d = c THEN r ELSE conn[d]
      BY <1>1, <2>1 DEF ConnsSound
    <3>2. CASE d = c
      BY <2>3, <2>5, <3>1, <3>2
    <3>3. CASE d # c
      BY <1>4, <2>5, <2>7, <3>1, <3>3
    <3> QED
      BY <3>2, <3>3
  <2>8. LoginsHeld(slots', session_count', conn', now)
    BY <2>7 DEF LoginsHeld
  <2>9. token' \in Nat
    BY <1>1, <2>1
  <2> QED
    BY <1>1, <2>4, <2>6, <2>8, <2>9 DEF SessionInv
<1>6. CASE ~ (m < SECURITY_MAX_SESSIONS)
  <2>1. /\ slots' = ss /\ session_count' = m /\ token' = token /\ LoginRefused(c)
    BY <1>6 DEF LoginAccepted, OpenSession
  <2>2. PICK k : conn' = [conn EXCEPT ![c] = [conn[c] EXCEPT !.pc = "failed", !.seen = k]]
    BY <2>1 DEF LoginRefused, SetConn
  <2> DEFINE r == [conn[c] EXCEPT !.pc = "failed", !.seen = k]
  <2>3. IsConn(r) /\ KeepsLogin(r, conn[c])
    BY <1>3, ConnFieldsKept DEF SameConn
  <2> HIDE DEF ss, m
  <2>4. ConnsSound(conn', token, now) /\ LoginsAmong(conn', conn)
    <3>1. conn' = [conn EXCEPT ![c] = r]
      BY <2>2
    <3> HIDE DEF r
    <3>2. ConnsSound([conn EXCEPT ![c] = r], token, now) /\ LoginsAmong([conn EXCEPT ![c] = r], conn)
      BY <1>1, <2>3, ConnChanged
    <3> QED
      BY <3>1, <3>2
  <2>5. LoginsHeld(slots', session_count', conn', now)
    BY <1>4, <2>1, <2>4 DEF LoginsHeld, LoginsAmong
  <2> QED
    BY <1>1, <2>1, <2>4, <2>5 DEF SessionInv
<1> QED
  BY <1>5, <1>6

LEMMA LoginStep ==
  ASSUME SessionInv, NEW c \in Conn, NEW n, NEW pw, security_login(c, n, pw)
  PROVE  SessionInv'
<1>1. CASE LoginRefused(c) /\ UNCHANGED <<slots, session_count, token>>
  <2>1. PICK k : conn' = [conn EXCEPT ![c] = [conn[c] EXCEPT !.pc = "failed", !.seen = k]]
    BY <1>1 DEF LoginRefused, SetConn
  <2>2. IsConn(conn[c])
    BY DEF SessionInv, ConnsSound
  <2>3. UNCHANGED <<slots, session_count, token, now>>
    BY <1>1 DEF security_login
  <2>4. SameConn([conn[c] EXCEPT !.pc = "failed", !.seen = k], conn[c])
    BY <2>2, ConnFieldsKept
  <2> QED
    BY <2>1, <2>3, <2>4, ConnStep DEF SameConn
<1>2. CASE LoginAccepted(c, n)
  BY <1>2, AcceptedStep DEF security_login
<1> QED
  BY <1>1, <1>2 DEF security_login

\* The starts: no session, no connection.
LEMMA EmptySlots ==
  ASSUME NEW tk \in Nat, tk > 0, NEW nw
  PROVE  /\ SlotsSound([i \in Places |-> NoSession], 0, tk)
         /\ ConnsSound([c \in Conn |-> Closed], tk, nw)
         /\ LoginsHeld([i \in Places |-> NoSession], 0, [c \in Conn |-> Closed], nw)
<1>1. IsSession(NoSession) /\ NoSession.token = 0 /\ NoSession.expires_at = 0
  BY DEF IsSession, SessionFields, NoSession
<1>2. IsConn(Closed) /\ ~ Closed.authenticated
  BY DEF IsConn, ConnFields, Closed
<1>3. 1 .. 0 = {} /\ 0 \in 0 .. SECURITY_MAX_SESSIONS /\ 0 \in 0 .. tk - 1
  BY SessionsAssumption
<1>4. SlotsSound([i \in Places |-> NoSession], 0, tk)
  BY <1>1, <1>3 DEF SlotsSound
<1>5. ConnsSound([c \in Conn |-> Closed], tk, nw)
  BY <1>2 DEF ConnsSound, LoginSound
<1>6. LoginsHeld([i \in Places |-> NoSession], 0, [c \in Conn |-> Closed], nw)
  BY <1>2 DEF LoginsHeld
<1> QED
  BY <1>4, <1>5, <1>6

TokenInv == token > 0 /\ SessionInv

LEMMA InitSessionInv == security_init => TokenInv
<1> SUFFICES ASSUME security_init PROVE TokenInv
  OBVIOUS
<1>1. /\ slots = [i \in Places |-> NoSession] /\ session_count = 0
      /\ conn = [c \in Conn |-> Closed] /\ token = 1 /\ now = 0
  BY DEF security_init, Places
<1> QED
  BY <1>1, EmptySlots DEF TokenInv, SessionInv

LEMMA RestartStep ==
  ASSUME TokenInv, NEW o, Restart(o)
  PROVE  TokenInv'
<1>1. DOMAIN slots = Places /\ token \in Nat /\ token > 0 /\ now \in Nat
  BY DEF TokenInv, SessionInv, SlotsSound
<1>2. /\ slots' = [i \in Places |-> NoSession] /\ session_count' = 0
      /\ conn' = [c \in Conn |-> Closed] /\ token' = token /\ now' = now
  BY <1>1 DEF Restart
<1> QED
  BY <1>1, <1>2, EmptySlots DEF TokenInv, SessionInv

LEMMA ServerSessions ==
  ASSUME SessionInv, NEW c \in Conn, ServerStep(c)
  PROVE  SessionInv'
<1>1. IsConn(conn[c])
  BY DEF SessionInv, ConnsSound
<1>2. IsConn(Closed) /\ ~ Closed.authenticated
  BY DEF IsConn, ConnFields, Closed
<1>3. CASE Connect(c)
  <2>1. PICK i : /\ conn' = [conn EXCEPT ![c] = [Closed EXCEPT !.open = TRUE, !.tracker = i]]
                 /\ UNCHANGED <<slots, session_count, token, now>>
    BY <1>3 DEF Connect, SetConn, secvars
  <2> DEFINE r == [Closed EXCEPT !.open = TRUE, !.tracker = i]
  <2>2. IsConn(r) /\ ~ r.authenticated
    BY DEF IsConn, ConnFields, Closed
  <2>3. KeepsLogin(r, conn[c])
    BY <2>2 DEF KeepsLogin
  <2> HIDE DEF r
  <2>4. conn' = [conn EXCEPT ![c] = r]
    BY <2>1 DEF r
  <2> QED
    BY <2>1, <2>2, <2>3, <2>4, ConnStep
<1>4. CASE Disconnect(c) /\ conn[c].authenticated
  <2>1. /\ security_logout(conn[c].auth_token) /\ conn' = [conn EXCEPT ![c] = Closed]
        /\ UNCHANGED <<token, now>>
    BY <1>4 DEF Disconnect, SetConn
  <2> QED
    BY <1>2, <1>4, <2>1, LogoutStep
<1>5. CASE Disconnect(c) /\ ~ conn[c].authenticated
  <2>1. /\ conn' = [conn EXCEPT ![c] = Closed] /\ KeepsLogin(Closed, conn[c])
        /\ UNCHANGED <<slots, session_count, token, now>>
    BY <1>2, <1>5 DEF Disconnect, SetConn, KeepsLogin
  <2> QED
    BY <1>2, <2>1, ConnStep
<1>6. CASE handle_login(c)
  <2>1. UNCHANGED <<slots, session_count, token, now>>
    BY <1>6 DEF handle_login, secvars
  <2>2. UNCHANGED conn \/ conn' = [conn EXCEPT ![c] = [conn[c] EXCEPT !.pc = "login"]]
    BY <1>6 DEF handle_login, SetConn
  <2>3. CASE UNCHANGED conn
    BY <2>1, <2>3 DEF SessionInv
  <2>4. CASE conn' = [conn EXCEPT ![c] = [conn[c] EXCEPT !.pc = "login"]]
    <3>1. SameConn([conn[c] EXCEPT !.pc = "login"], conn[c])
      BY <1>1, ConnFieldsKept
    <3> QED
      BY <2>1, <2>4, <3>1, ConnStep DEF SameConn
  <2> QED
    BY <2>2, <2>3, <2>4
<1>7. CASE handle_logout(c)
  <2>1. /\ conn[c].authenticated /\ security_logout(conn[c].auth_token)
        /\ conn' = [conn EXCEPT ![c] = LoggedOut(conn[c])]
        /\ UNCHANGED <<token, now>>
    BY <1>7 DEF handle_logout, SetConn, LoggedOut
  <2>2. IsConn(LoggedOut(conn[c])) /\ ~ LoggedOut(conn[c]).authenticated
    BY <1>1, ConnLoggedOut
  <2> QED
    BY <2>1, <2>2, LogoutStep
<1>8. CASE \E n \in UserName, pw \in Password : security_login(c, n, pw)
  BY <1>8, LoginStep
<1>9. CASE record_failed_login(c)
  <2>1. /\ UNCHANGED <<slots, session_count, token, now>>
        /\ conn' = [conn EXCEPT ![c] = [conn[c] EXCEPT !.pc = "idle", !.seen = 0]]
    BY <1>9 DEF record_failed_login, SetConn, secvars
  <2>2. SameConn([conn[c] EXCEPT !.pc = "idle", !.seen = 0], conn[c])
    BY <1>1, ConnFieldsKept
  <2> QED
    BY <2>1, <2>2, ConnStep DEF SameConn
<1>10. CASE record_successful_login(c)
  <2>1. /\ UNCHANGED <<slots, session_count, token, now>>
        /\ conn' = [conn EXCEPT ![c] = [conn[c] EXCEPT !.pc = "idle"]]
    BY <1>10 DEF record_successful_login, SetConn, secvars
  <2>2. SameConn([conn[c] EXCEPT !.pc = "idle"], conn[c])
    BY <1>1, ConnFieldsKept
  <2> QED
    BY <2>1, <2>2, ConnStep DEF SameConn
<1>11. CASE execute_client_query(c)
  BY <1>11, TouchStep
<1>12. CASE security_validate_session(c)
  BY <1>12, ValidateStep
<1> QED
  BY <1>3, <1>4, <1>5, <1>6, <1>7, <1>8, <1>9, <1>10, <1>11, <1>12 DEF ServerStep

LEMMA AdminKeepsSessions ==
  ASSUME Admin
  PROVE  UNCHANGED <<slots, session_count, trackers, conn, token, now>>
BY DEF Admin, security_delete_user, security_change_password, security_lock_user,
   security_unlock_user, security_create_role, security_delete_role, security_grant_role,
   security_revoke_role, handle_create_user, security_create_user, SetUser, KeepSessions

LEMMA TokenGrows ==
  ASSUME TokenInv, NEW c, ServerStep(c)
  PROVE  token' = token \/ token' = token + 1
BY DEF ServerStep, Connect, Disconnect, handle_login, handle_logout, security_login,
   LoginAccepted, OpenSession, record_failed_login, record_successful_login,
   execute_client_query, security_validate_session

LEMMA NextSessionInv ==
  ASSUME TokenInv, [SecNext]_sessvars
  PROVE  TokenInv'
<1>1. CASE UNCHANGED sessvars
  BY <1>1 DEF sessvars, TokenInv, SessionInv
<1>2. CASE Admin
  BY <1>2, AdminKeepsSessions DEF TokenInv, SessionInv
<1>3. ASSUME NEW c \in Conn, ServerStep(c)
      PROVE  TokenInv'
  <2>1. SessionInv' /\ token \in Nat /\ token > 0
    BY <1>3, ServerSessions DEF TokenInv, SessionInv
  <2>2. token' > 0
    BY <1>3, <2>1, TokenGrows
  <2> QED
    BY <2>1, <2>2 DEF TokenInv
<1>4. CASE security_cleanup_sessions
  <2>1. token' = token
    BY <1>4 DEF security_cleanup_sessions
  <2> QED
    BY <1>4, <2>1, CleanupStep DEF TokenInv
<1>5. CASE Tick
  <2>1. token' = token
    BY <1>5 DEF Tick
  <2> QED
    BY <1>5, <2>1, TickStep DEF TokenInv
<1>6. ASSUME NEW o \in BOOLEAN, Restart(o)
      PROVE  TokenInv'
  BY <1>6, RestartStep
<1> QED
  BY <1>1, <1>2, <1>3, <1>4, <1>5, <1>6 DEF SecNext

-----------------------------------------------------------------------------
(* Login sessions: the trackers of addresses. *)

TrackerFields == {"ip", "failed_logins", "lockout_until"}
IsTracker(t) == t = [x \in TrackerFields |-> t[x]]
TrackerTable(ts) == (\E S : ts \in Seq(S)) /\ \A i \in 1 .. Len(ts) : IsTracker(ts[i])

\* A connection's tracker is that of its address.
TracksAddress(ts, r, ip) == r.tracker # 0 => r.tracker \in 1 .. Len(ts) /\ ts[r.tracker].ip = ip
TrackersSound(ts, cn) ==
  /\ TrackerTable(ts) /\ cn = [c \in Conn |-> cn[c]]
  /\ \A c \in Conn : TracksAddress(ts, cn[c], AddressOf[c])

\* A table with the addresses of another one in their places.
Extends(us, ts) == /\ TrackerTable(us) /\ Len(ts) \in Nat /\ Len(us) \in Nat /\ Len(ts) <= Len(us)
                   /\ \A i \in 1 .. Len(ts) : us[i].ip = ts[i].ip

LEMMA TrackerConn ==
  ASSUME NEW ts, NEW cn, TrackersSound(ts, cn), NEW us, Extends(us, ts), NEW c \in Conn, NEW r,
         TracksAddress(us, r, AddressOf[c])
  PROVE  TrackersSound(us, [cn EXCEPT ![c] = r])
<1> DEFINE ds == [cn EXCEPT ![c] = r]
<1>1. /\ ds = [d \in Conn |-> ds[d]]
      /\ \A d \in Conn : ds[d] = IF d = c THEN r ELSE cn[d]
  BY DEF TrackersSound
<1> HIDE DEF ds
<1>2. \A d \in Conn : TracksAddress(us, cn[d], AddressOf[d])
  BY DEF TrackersSound, TracksAddress, Extends
<1>3. \A d \in Conn : TracksAddress(us, ds[d], AddressOf[d])
  BY <1>1, <1>2
<1> QED
  BY <1>1, <1>3 DEF TrackersSound, Extends, ds

LEMMA TrackerReset ==
  ASSUME NEW ts, TrackerTable(ts), NEW t \in 1 .. Len(ts), NEW f, NEW l
  PROVE  Extends([ts EXCEPT ![t].failed_logins = f, ![t].lockout_until = l], ts)
<1> DEFINE v == [ts[t] EXCEPT !.failed_logins = f, !.lockout_until = l]
           us == [ts EXCEPT ![t] = v]
<1>1. PICK S : ts \in Seq(S)
  BY DEF TrackerTable
<1>0. /\ IsTracker(ts[t]) /\ DOMAIN ts = 1 .. Len(ts) /\ Len(ts) \in Nat
  BY <1>1, LenProperties DEF TrackerTable
<1>2. IsTracker(v) /\ v.ip = ts[t].ip
  BY <1>0 DEF IsTracker, TrackerFields
<1>3. [ts EXCEPT ![t].failed_logins = f, ![t].lockout_until = l] = us
  BY <1>0
<1> HIDE DEF v
<1>4. ts \in Seq(S \cup {v})
  BY <1>1, WiderSeq
<1>5. us \in Seq(S \cup {v}) /\ Len(us) = Len(ts) /\ \A j \in 1 .. Len(ts) : us[j] = IF j = t THEN v ELSE ts[j]
  BY <1>4, ExceptSeq
<1> HIDE DEF us
<1>6. Extends(us, ts)
  BY <1>0, <1>2, <1>5 DEF Extends, TrackerTable
<1> QED
  BY <1>3, <1>6

\* find_or_create_ip_tracker.
LEMMA TrackerFound ==
  ASSUME TrackerTable(trackers), NEW ip, NEW i, i = find_or_create_ip_tracker(ip), NEW us,
         us = IF i > Len(trackers) THEN Append(trackers, NewTracker(ip)) ELSE trackers
  PROVE  Extends(us, trackers) /\ (i # 0 => i \in 1 .. Len(us) /\ us[i].ip = ip)
<1> DEFINE m == {j \in DOMAIN trackers : trackers[j].ip = ip}
           n == Len(trackers)
<1>1. PICK S : trackers \in Seq(S)
  BY DEF TrackerTable
<1>2. n \in Nat /\ DOMAIN trackers = 1 .. n
  BY <1>1, LenProperties
<1>3. Extends(trackers, trackers)
  BY <1>2 DEF Extends
<1>4. CASE m # {}
  <2>0. m \subseteq Nat
    BY <1>2
  <2>1. PICK k \in m : \A j \in m : k <= j
    BY <1>4, <2>0, LeastNumber
  <2>2. First(m) \in m
    BY <1>4, <2>1 DEF First
  <2>3. First(m) # 0 /\ First(m) \in 1 .. n
    BY <1>2, <2>2
  <2>4. i = First(m)
    BY <2>3 DEF find_or_create_ip_tracker
  <2> QED
    BY <1>2, <1>3, <2>2, <2>3, <2>4
<1>5. CASE m = {}
  <2>1. i = IF n < MAX_CLIENTS THEN n + 1 ELSE 0
    BY <1>5 DEF find_or_create_ip_tracker, First
  <2>2. CASE i = 0
    BY <1>2, <1>3, <2>2
  <2>3. CASE i # 0
    <3> DEFINE v == NewTracker(ip)
    <3>0. i = n + 1
      BY <2>1, <2>3
    <3>1. i = n + 1 /\ us = Append(trackers, v)
      <4>1. i > Len(trackers)
        BY <1>2, <3>0
      <4> QED
        BY <3>0, <4>1
    <3>2. IsTracker(v) /\ v.ip = ip
      BY DEF NewTracker, IsTracker, TrackerFields
    <3> HIDE DEF v
    <3>3. trackers \in Seq(S \cup {v})
      BY <1>1, WiderSeq
    <3>4. us \in Seq(S \cup {v}) /\ Len(us) = n + 1 /\ (\A j \in 1 .. n : us[j] = trackers[j]) /\ us[n + 1] = v
      BY <3>1, <3>3, AppendProperties
    <3>5. \A j \in 1 .. n + 1 : j = n + 1 \/ j \in 1 .. n
      BY <1>2
    <3>6. TrackerTable(us)
      BY <3>2, <3>4, <3>5 DEF TrackerTable
    <3>7. Extends(us, trackers)
      BY <1>2, <3>4, <3>6 DEF Extends
    <3> QED
      BY <1>2, <3>1, <3>2, <3>4, <3>7
  <2> QED
    BY <2>2, <2>3
<1> QED
  BY <1>4, <1>5

TrackerInv == TrackersSound(trackers, conn)

\* A step that keeps a connection's tracker.
LEMMA TrackerStep ==
  ASSUME TrackerInv, Extends(trackers', trackers), NEW c \in Conn, NEW r,
         conn' = [conn EXCEPT ![c] = r], r.tracker = conn[c].tracker \/ r.tracker = 0
  PROVE  TrackerInv'
<1>1. TracksAddress(trackers', r, AddressOf[c])
  BY DEF TrackerInv, TrackersSound, TracksAddress, Extends
<1>2. TrackersSound(trackers', [conn EXCEPT ![c] = r])
  BY <1>1, TrackerConn DEF TrackerInv
<1> QED
  BY <1>2 DEF TrackerInv

LEMMA ServerTrackers ==
  ASSUME SessionInv, TrackerInv, NEW c \in Conn, ServerStep(c)
  PROVE  TrackerInv'
<1> DEFINE t == conn[c].tracker
<1>1. IsConn(conn[c]) /\ TrackerTable(trackers)
  BY DEF SessionInv, ConnsSound, TrackerInv, TrackersSound
<1>2. Len(trackers) \in Nat /\ (t = 0 \/ t \in 1 .. Len(trackers))
  BY LenProperties DEF TrackerInv, TrackersSound, TrackerTable, TracksAddress
<1>3. Extends(trackers, trackers)
  BY <1>1, <1>2 DEF Extends
<1>13. \A f, l : t # 0 =>
        Extends([trackers EXCEPT ![t].failed_logins = f, ![t].lockout_until = l], trackers)
  <2> SUFFICES ASSUME NEW f, NEW l, t # 0
               PROVE  Extends([trackers EXCEPT ![t].failed_logins = f, ![t].lockout_until = l], trackers)
    OBVIOUS
  <2>1. t \in 1 .. Len(trackers)
    BY <1>2
  <2> HIDE DEF t
  <2> QED
    BY <1>1, <2>1, TrackerReset
<1>4. CASE Connect(c)
  <2> DEFINE i == find_or_create_ip_tracker(AddressOf[c])
             r == [Closed EXCEPT !.open = TRUE, !.tracker = i]
  <2>1. /\ conn' = [conn EXCEPT ![c] = r]
        /\ trackers' = IF i > Len(trackers) THEN Append(trackers, NewTracker(AddressOf[c])) ELSE trackers
    BY <1>4 DEF Connect, SetConn
  <2>2. r.tracker = i
    BY DEF Closed
  <2> HIDE DEF r
  <2>3. Extends(trackers', trackers) /\ (i # 0 => i \in 1 .. Len(trackers') /\ trackers'[i].ip = AddressOf[c])
    BY <1>1, <2>1, TrackerFound
  <2> HIDE DEF i
  <2>4. TracksAddress(trackers', r, AddressOf[c])
    BY <2>2, <2>3 DEF TracksAddress
  <2>5. TrackersSound(trackers', [conn EXCEPT ![c] = r])
    BY <2>3, <2>4, TrackerConn DEF TrackerInv
  <2> QED
    BY <2>1, <2>5 DEF TrackerInv
<1>5. CASE Disconnect(c)
  <2>1. conn' = [conn EXCEPT ![c] = Closed] /\ trackers' = trackers /\ Closed.tracker = 0
    BY <1>5 DEF Disconnect, SetConn, Closed
  <2> QED
    BY <1>3, <2>1, TrackerStep
<1>6. CASE handle_login(c)
  <2>1. \/ trackers' = trackers
        \/ t # 0 /\ trackers' = [trackers EXCEPT ![t].failed_logins = 0, ![t].lockout_until = 0]
    BY <1>6 DEF handle_login
  <2>2. Extends(trackers', trackers)
    BY <1>3, <1>13, <2>1
  <2>3. UNCHANGED conn \/ conn' = [conn EXCEPT ![c] = [conn[c] EXCEPT !.pc = "login"]]
    BY <1>6 DEF handle_login, SetConn
  <2>4. [conn[c] EXCEPT !.pc = "login"].tracker = t
    BY <1>1, ConnFieldsKept DEF SameConn
  <2>5. CASE UNCHANGED conn
    <3>1. conn' = [conn EXCEPT ![c] = conn[c]]
      BY <2>5 DEF TrackerInv, TrackersSound
    <3> QED
      BY <2>2, <3>1, TrackerStep
  <2>6. CASE conn' = [conn EXCEPT ![c] = [conn[c] EXCEPT !.pc = "login"]]
    BY <2>2, <2>4, <2>6, TrackerStep
  <2> QED
    BY <2>3, <2>5, <2>6
<1>7. CASE handle_logout(c)
  <2>1. conn' = [conn EXCEPT ![c] = LoggedOut(conn[c])] /\ trackers' = trackers
    BY <1>7 DEF handle_logout, SetConn, LoggedOut
  <2>2. LoggedOut(conn[c]).tracker = t
    BY <1>1, ConnLoggedOut
  <2> QED
    BY <1>3, <2>1, <2>2, TrackerStep
<1>8. ASSUME NEW n \in UserName, NEW pw \in Password, security_login(c, n, pw)
      PROVE  TrackerInv'
  <2>1. trackers' = trackers /\ Extends(trackers', trackers)
    BY <1>3, <1>8 DEF security_login
  <2>2. CASE LoginRefused(c)
    <3>1. PICK k : conn' = [conn EXCEPT ![c] = [conn[c] EXCEPT !.pc = "failed", !.seen = k]]
      BY <2>2 DEF LoginRefused, SetConn
    <3>2. [conn[c] EXCEPT !.pc = "failed", !.seen = k].tracker = t
      <4>1. SameConn([conn[c] EXCEPT !.pc = "failed", !.seen = k], conn[c])
        BY <1>1, ConnFieldsKept
      <4> QED
        BY <4>1 DEF SameConn
    <3> QED
      BY <2>1, <3>1, <3>2, TrackerStep
  <2>3. CASE ~ LoginRefused(c)
    <3> DEFINE r == LoggedIn(conn[c], Base + 1, token, slots'[Base + 1])
    <3>1. conn' = [conn EXCEPT ![c] = r]
      BY <1>8, <2>3 DEF security_login, LoginAccepted, SetConn, LoggedIn
    <3>2. r.tracker = t
      BY <1>1, ConnLoggedIn
    <3> HIDE DEF r
    <3> QED
      BY <2>1, <3>1, <3>2, TrackerStep
  <2> QED
    BY <2>2, <2>3
<1>9. CASE record_failed_login(c)
  <2>1. \/ trackers' = trackers
        \/ t # 0 /\ \E f, l : trackers' = [trackers EXCEPT ![t].failed_logins = f, ![t].lockout_until = l]
    BY <1>9 DEF record_failed_login
  <2>2. Extends(trackers', trackers)
    <3>1. CASE trackers' = trackers
      BY <1>3, <3>1
    <3>2. CASE trackers' # trackers
      <4>1. PICK f, l : trackers' = [trackers EXCEPT ![t].failed_logins = f, ![t].lockout_until = l]
        BY <2>1, <3>2
      <4> QED
        BY <1>13, <2>1, <3>2, <4>1
    <3> QED
      BY <3>1, <3>2
  <2>3. conn' = [conn EXCEPT ![c] = [conn[c] EXCEPT !.pc = "idle", !.seen = 0]]
    BY <1>9 DEF record_failed_login, SetConn
  <2>4. [conn[c] EXCEPT !.pc = "idle", !.seen = 0].tracker = t
    <3>1. SameConn([conn[c] EXCEPT !.pc = "idle", !.seen = 0], conn[c])
      BY <1>1, ConnFieldsKept
    <3> QED
      BY <3>1 DEF SameConn
  <2> QED
    BY <2>2, <2>3, <2>4, TrackerStep
<1>10. CASE record_successful_login(c)
  <2>1. \/ trackers' = trackers
        \/ t # 0 /\ trackers' = [trackers EXCEPT ![t].failed_logins = 0, ![t].lockout_until = 0]
    BY <1>10 DEF record_successful_login
  <2>2. Extends(trackers', trackers)
    BY <1>3, <1>13, <2>1
  <2>3. conn' = [conn EXCEPT ![c] = [conn[c] EXCEPT !.pc = "idle"]]
    BY <1>10 DEF record_successful_login, SetConn
  <2>4. [conn[c] EXCEPT !.pc = "idle"].tracker = t
    BY <1>1, ConnFieldsKept DEF SameConn
  <2> QED
    BY <2>2, <2>3, <2>4, TrackerStep
<1>11. CASE execute_client_query(c)
  BY <1>11 DEF execute_client_query, TrackerInv
<1>12. CASE security_validate_session(c)
  BY <1>12 DEF security_validate_session, TrackerInv
<1> QED
  BY <1>4, <1>5, <1>6, <1>7, <1>8, <1>9, <1>10, <1>11, <1>12 DEF ServerStep

LEMMA NoTrackers == TrackersSound(<<>>, [c \in Conn |-> Closed])
<1>1. <<>> \in Seq({}) /\ Len(<<>>) = 0 /\ 1 .. 0 = {} /\ Closed.tracker = 0
  BY DEF Closed
<1>2. TrackerTable(<<>>)
  BY <1>1 DEF TrackerTable
<1> QED
  BY <1>1, <1>2 DEF TrackersSound, TracksAddress

LEMMA NextTrackerInv ==
  ASSUME TokenInv, TrackerInv, [SecNext]_sessvars
  PROVE  TrackerInv'
<1>1. CASE UNCHANGED sessvars
  BY <1>1 DEF sessvars, TrackerInv
<1>2. CASE Admin
  BY <1>2, AdminKeepsSessions DEF TrackerInv
<1>3. ASSUME NEW c \in Conn, ServerStep(c)
      PROVE  TrackerInv'
  BY <1>3, ServerTrackers DEF TokenInv
<1>4. CASE security_cleanup_sessions \/ Tick
  BY <1>4 DEF security_cleanup_sessions, Tick, TrackerInv
<1>5. ASSUME NEW o \in BOOLEAN, Restart(o)
      PROVE  TrackerInv'
  BY <1>5, NoTrackers DEF Restart, TrackerInv
<1> QED
  BY <1>1, <1>2, <1>3, <1>4, <1>5 DEF SecNext

-----------------------------------------------------------------------------
(* Login sessions: what follows from the invariant. *)

LEMMA FoundIsLogin ==
  ASSUME SessionInv, NEW c \in Conn, conn[c].authenticated
  PROVE  LET i == security_find_session(conn[c].auth_token)
         IN  /\ now <= conn[c].login.expires_at => i # 0
             /\ i # 0 => /\ [slots[i] EXCEPT !.expires_at = 0] = [conn[c].login EXCEPT !.expires_at = 0]
                         /\ slots[i].is_superuser = conn[c].login.is_superuser
                         /\ slots[i].permissions = conn[c].login.permissions
<1> DEFINE i == security_find_session(conn[c].auth_token)
           l == conn[c].login
<1>1. session_count \in Nat /\ 1 .. session_count \subseteq Places
  BY SessionsAssumption DEF SessionInv, SlotsSound, Places
<1>2. /\ i = 0 => \A j \in 1 .. session_count : slots[j].token # l.token
      /\ i # 0 => i \in 1 .. session_count /\ slots[i].token = l.token
  BY <1>1, SessionFound DEF SessionInv, ConnsSound, LoginSound
<1>3. LoginHeld(slots, session_count, l, now) /\ IsSession(l)
  BY DEF SessionInv, LoginsHeld, ConnsSound, LoginSound
<1> HIDE DEF i, l
<1>4. now <= l.expires_at => i # 0
  BY <1>2, <1>3 DEF LoginHeld
<1>5. ASSUME i # 0
      PROVE  /\ [slots[i] EXCEPT !.expires_at = 0] = [l EXCEPT !.expires_at = 0]
             /\ slots[i].is_superuser = l.is_superuser /\ slots[i].permissions = l.permissions
  <2>1. IsSession(slots[i])
    BY <1>1, <1>2, <1>5 DEF SessionInv, SlotsSound
  <2>2. SameLogin(slots[i], l) /\ slots[i].token = l.token
    BY <1>2, <1>3, <1>5 DEF LoginHeld
  <2> QED
    BY <1>3, <2>1, <2>2 DEF IsSession, SessionFields, SameLogin
<1> QED
  BY <1>4, <1>5 DEF i, l

LEMMA SessionsFollow ==
  ASSUME UserInv, TokenInv, TrackerInv
  PROVE  SessionsSound
<1>1. \A i, j \in 1 .. session_count : slots[i].token = slots[j].token => i = j
  BY DEF TokenInv, SessionInv, SlotsSound
<1>2. ASSUME NEW c \in Conn, conn[c].authenticated
      PROVE  LET i == security_find_session(conn[c].auth_token)
             IN  /\ now <= conn[c].login.expires_at => i # 0
                 /\ i # 0 => /\ [slots[i] EXCEPT !.expires_at = 0] = [conn[c].login EXCEPT !.expires_at = 0]
                             /\ i = conn[c].session => \A cmd \in DOMAIN Required :
                                  security_authorize_command(c, cmd)
                                    <=> conn[c].login.is_superuser \/ Required[cmd] \subseteq conn[c].login.permissions
  <2> DEFINE i == security_find_session(conn[c].auth_token)
  <2>1. /\ now <= conn[c].login.expires_at => i # 0
        /\ i # 0 => /\ [slots[i] EXCEPT !.expires_at = 0] = [conn[c].login EXCEPT !.expires_at = 0]
                    /\ slots[i].is_superuser = conn[c].login.is_superuser
                    /\ slots[i].permissions = conn[c].login.permissions
    BY <1>2, FoundIsLogin DEF TokenInv
  <2> HIDE DEF i
  <2>2. ASSUME i # 0, i = conn[c].session, NEW cmd \in DOMAIN Required
        PROVE  security_authorize_command(c, cmd)
                 <=> conn[c].login.is_superuser \/ Required[cmd] \subseteq conn[c].login.permissions
    BY <2>1, <2>2 DEF security_authorize_command, security_session_has_permission
  <2> QED
    BY <2>1, <2>2 DEF i
<1>3. \A c \in Conn : conn[c].open /\ conn[c].tracker # 0 => trackers[conn[c].tracker].ip = AddressOf[c]
  BY DEF TrackerInv, TrackersSound, TracksAddress
<1>4. TokenFindsOwnSession
  BY <1>1, <1>2, <1>3 DEF TokenFindsOwnSession
<1>5. ASSUME NEW us, UsersSound(us)
      PROVE  Superusers(us) # {} /\ \A i, j \in DOMAIN us : us[i].username = us[j].username => i = j
  <2>1. DOMAIN us = 1 .. Len(us)
    BY <1>5, LenProperties DEF UsersSound
  <2> QED
    BY <1>5, <2>1 DEF UsersSound, Superusers
<1>6. SuperuserRemains
  BY <1>5 DEF SuperuserRemains, UserInv
<1> QED
  BY <1>4, <1>6 DEF SessionsSound

\* The session manager: every connection's token finds the session of its own
\* login or, once that has expired, none, and some superuser remains.
THEOREM SessionsCorrect == security_init /\ [][SecNext]_sessvars => []SessionsSound
<1>1. security_init => UserInv /\ TokenInv /\ TrackerInv
  <2> SUFFICES ASSUME security_init PROVE UserInv /\ TokenInv /\ TrackerInv
    OBVIOUS
  <2>1. users = FirstUsers /\ saved.users = users
    BY DEF security_init
  <2>2. trackers = <<>> /\ conn = [c \in Conn |-> Closed]
    BY DEF security_init
  <2> QED
    BY <2>1, <2>2, FirstUsersSound, InitSessionInv, NoTrackers DEF UserInv, TrackerInv
<1>2. (UserInv /\ TokenInv /\ TrackerInv) /\ [SecNext]_sessvars => (UserInv /\ TokenInv /\ TrackerInv)'
  BY NextUserInv, NextSessionInv, NextTrackerInv
<1>3. UserInv /\ TokenInv /\ TrackerInv => SessionsSound
  BY SessionsFollow
<1> QED
  BY <1>1, <1>2, <1>3, PTL

-----------------------------------------------------------------------------
(* The checked allocator. *)

AllocRecord == [ptr : MemAddr, size : Sizes, freed : BOOLEAN]

\* What the records in use say, and that no address has two of them.
InUseAt(rs, i) == i \in 1 .. Len(rs) /\ ~ rs[i].freed
Says(rs) == {<<rs[i].ptr, rs[i].size>> : i \in {j \in 1 .. Len(rs) : InUseAt(rs, j)}}
OnePerAddr(rs) ==
  \A i, j \in 1 .. Len(rs) : InUseAt(rs, i) /\ InUseAt(rs, j) /\ rs[i].ptr = rs[j].ptr => i = j

Tracked(cs, kn) == {a \in MemAddr : cs[a] # None /\ kn[a]}
Facts(cs, kn) == {<<a, cs[a].size>> : a \in Tracked(cs, kn)}
SizeAt(cs) == [a \in MemAddr |-> IF cs[a] = None THEN 0 ELSE cs[a].size]
Block == [size : Sizes, content : Content \cup {None}]

HeapTyped ==
  /\ cells \in [MemAddr -> Block \cup {None}]
  /\ owner \in [MemAddr -> MemThread \cup {None}]
  /\ known \in [MemAddr -> BOOLEAN]
  /\ \A a \in MemAddr : (owner[a] # None \/ known[a]) => cells[a] # None
RecordsSound ==
  /\ records \in Seq(AllocRecord) /\ OnePerAddr(records)
  /\ Says(records) = Facts(cells, known)
BytesCounted ==
  /\ untracked \in Int
  /\ current_bytes = untracked + SumFunctionOnSet(SizeAt(cells), Tracked(cells, known))

\* A thread inside safe_realloc_impl still owns the old block, and the new one
\* once it has it, with the content of the old one.
Hand == [old : MemAddr, size : Sizes, new : MemAddr \cup {None}, copy : Sizes \cup {0}]
InRealloc(t, p, ow, kn, cs) ==
  /\ p \in Hand /\ ow[p.old] = t
  /\ kn[p.old] => p.copy > 0
  /\ p.new # None => /\ p.new # p.old /\ ow[p.new] = t
                     /\ kn[p.old] => cs[p.new].content = cs[p.old].content
ReallocSound ==
  /\ DOMAIN pending = MemThread
  /\ \A t \in MemThread : pending[t] # NotIn => InRealloc(t, pending[t], owner, known, cells)
SafeInv == HeapTyped /\ RecordsSound /\ BytesCounted /\ ReallocSound

LEMMA BlockIsNotNone ==
  ASSUME NEW b \in Block
  PROVE  b # None /\ b.size \in Sizes /\ b.size \in Nat /\ b.size > 0
         /\ b.content \in Content \cup {None}
<1> DEFINE n == b.size
           c == b.content
<1>1. n \in Sizes /\ c \in Content \cup {None} /\ b = [size |-> n, content |-> c]
  BY DEF Block
<1> HIDE DEF n, c
<1>2. None # [size |-> n, content |-> c]
  BY <1>1, SafeMemAssumption
<1>3. n \in Nat /\ n > 0
  BY <1>1, SafeMemAssumption
<1> QED
  BY <1>1, <1>2, <1>3 DEF n, c

-----------------------------------------------------------------------------
(* add_record and its compaction. *)

KeptUpTo(rs, f, m) ==
  f = [i \in 0 .. m |-> IF i = 0 THEN <<>> ELSE IF rs[i].freed THEN f[i - 1]
                                                 ELSE Append(f[i - 1], rs[i])]

LEMMA KeptExists ==
  ASSUME NEW rs, NEW n \in Nat
  PROVE  \E f : KeptUpTo(rs, f, n)
<1> DEFINE bad == {m \in 0 .. n : ~ \E f : KeptUpTo(rs, f, m)}
<1> SUFFICES ASSUME bad # {} PROVE FALSE
  OBVIOUS
<1>0. bad \subseteq Nat
  OBVIOUS
<1>1. PICK m \in bad : \A j \in bad : m <= j
  <2> HIDE DEF bad
  <2> QED
    BY <1>0, LeastNumber
<1>2. m \in 0 .. n
  OBVIOUS
<1>3. CASE m = 0
  <2> DEFINE g == [i \in 0 .. 0 |-> <<>>]
  <2>1. KeptUpTo(rs, g, 0)
    BY DEF KeptUpTo
  <2> QED
    BY <1>3, <2>1
<1>4. CASE m # 0
  <2>1. m - 1 \in 0 .. n /\ m - 1 \notin bad
    BY <1>1, <1>2, <1>4
  <2>2. PICK f : KeptUpTo(rs, f, m - 1)
    BY <2>1
  <2> DEFINE step(h, i) == IF rs[i].freed THEN h[i - 1] ELSE Append(h[i - 1], rs[i])
             g == [i \in 0 .. m |-> IF i = m THEN step(f, m) ELSE f[i]]
  <2>3. \A i \in 0 .. m : g[i] = IF i = 0 THEN <<>> ELSE step(g, i)
    <3> SUFFICES ASSUME NEW i \in 0 .. m PROVE g[i] = IF i = 0 THEN <<>> ELSE step(g, i)
      OBVIOUS
    <3>1. CASE i = m
      <4>1. g[i - 1] = f[m - 1] /\ g[i] = step(f, m)
        BY <1>2, <1>4, <3>1
      <4> HIDE DEF g
      <4> QED
        BY <1>4, <3>1, <4>1
    <3>2. CASE i # m
      <4>1. i \in 0 .. m - 1 /\ g[i] = f[i] /\ (i # 0 => g[i - 1] = f[i - 1])
        BY <1>2, <1>4, <3>2
      <4> HIDE DEF g
      <4> QED
        BY <2>2, <4>1 DEF KeptUpTo
    <3> QED
      BY <3>1, <3>2
  <2>4. g = [i \in 0 .. m |-> g[i]]
    OBVIOUS
  <2> HIDE DEF g
  <2>5. KeptUpTo(rs, g, m)
    BY <2>3, <2>4 DEF KeptUpTo
  <2> QED
    BY <2>5
<1> QED
  BY <1>3, <1>4

LEMMA UnfreedUnfolds ==
  ASSUME NEW rs, Len(rs) \in Nat
  PROVE  \E f : KeptUpTo(rs, f, Len(rs)) /\ Unfreed(rs) = f[Len(rs)]
<1> DEFINE g == CHOOSE f : KeptUpTo(rs, f, Len(rs))
<1>1. KeptUpTo(rs, g, Len(rs))
  BY KeptExists
<1>2. Unfreed(rs) = g[Len(rs)]
  BY DEF Unfreed, KeptUpTo
<1> QED
  BY <1>1, <1>2

\* The records in use among the first m.
SaysTo(rs, m) == {<<rs[i].ptr, rs[i].size>> : i \in {j \in 1 .. m : ~ rs[j].freed}}

\* A record added at the end.
LEMMA AppendSays ==
  ASSUME NEW rs \in Seq(AllocRecord), NEW r \in AllocRecord, ~ r.freed
  PROVE  /\ Append(rs, r) \in Seq(AllocRecord)
         /\ Says(Append(rs, r)) = Says(rs) \cup {<<r.ptr, r.size>>}
         /\ OnePerAddr(rs) /\ (\A x \in Says(rs) : x[1] # r.ptr) => OnePerAddr(Append(rs, r))
<1> DEFINE n == Len(rs)
           q == Append(rs, r)
<1>1. n \in Nat
  BY LenProperties
<1>2. /\ q \in Seq(AllocRecord) /\ Len(q) = n + 1 /\ q[n + 1] = r
      /\ \A i \in 1 .. n : q[i] = rs[i]
  BY AppendProperties
<1> HIDE DEF q, n
<1>3. /\ \A i \in 1 .. n : InUseAt(q, i) <=> ~ rs[i].freed
      /\ \A i \in 1 .. n : InUseAt(rs, i) <=> ~ rs[i].freed
      /\ InUseAt(q, n + 1)
  BY <1>1, <1>2 DEF InUseAt, n
<1>4. 1 .. n + 1 = (1 .. n) \cup {n + 1} /\ n + 1 \notin 1 .. n
  BY <1>1
<1>5. Says(q) = Says(rs) \cup {<<r.ptr, r.size>>}
  <2>1. \A x : x \in Says(q) <=> \E i \in 1 .. n + 1 : InUseAt(q, i) /\ x = <<q[i].ptr, q[i].size>>
    BY <1>2 DEF Says
  <2>2. \A x : x \in Says(rs) <=> \E i \in 1 .. n : InUseAt(rs, i) /\ x = <<rs[i].ptr, rs[i].size>>
    BY DEF Says, n
  <2>3. ASSUME NEW x PROVE x \in Says(q) <=> x \in Says(rs) \/ x = <<r.ptr, r.size>>
    <3>1. (\E i \in 1 .. n : InUseAt(q, i) /\ x = <<q[i].ptr, q[i].size>>) <=> x \in Says(rs)
      BY <1>2, <1>3, <2>2
    <3>2. (InUseAt(q, n + 1) /\ x = <<q[n + 1].ptr, q[n + 1].size>>) <=> x = <<r.ptr, r.size>>
      BY <1>2, <1>3
    <3> QED
      BY <1>4, <2>1, <3>1, <3>2
  <2> QED
    BY <2>3
<1>6. ASSUME OnePerAddr(rs), \A x \in Says(rs) : x[1] # r.ptr PROVE OnePerAddr(q)
  <2>1. \A i \in 1 .. n : InUseAt(rs, i) => rs[i].ptr # r.ptr
    <3> SUFFICES ASSUME NEW i \in 1 .. n, InUseAt(rs, i) PROVE rs[i].ptr # r.ptr
      OBVIOUS
    <3>1. <<rs[i].ptr, rs[i].size>> \in Says(rs)
      BY DEF Says, n
    <3> QED
      BY <1>6, <3>1
  <2>2. \A i, j \in 1 .. n : InUseAt(rs, i) /\ InUseAt(rs, j) /\ rs[i].ptr = rs[j].ptr => i = j
    BY <1>6 DEF OnePerAddr, n
  <2> SUFFICES ASSUME NEW i \in 1 .. n + 1, NEW j \in 1 .. n + 1,
                      InUseAt(q, i), InUseAt(q, j), q[i].ptr = q[j].ptr
               PROVE  i = j
    BY <1>2 DEF OnePerAddr
  <2> QED
    BY <1>2, <1>3, <1>4, <2>1, <2>2
<1> QED
  BY <1>2, <1>5, <1>6 DEF q

\* Compaction keeps the records in use.
LEMMA UnfreedSays ==
  ASSUME NEW rs \in Seq(AllocRecord), OnePerAddr(rs)
  PROVE  /\ Unfreed(rs) \in Seq(AllocRecord) /\ OnePerAddr(Unfreed(rs))
         /\ Says(Unfreed(rs)) = Says(rs)
<1> DEFINE n == Len(rs)
<1>1. n \in Nat
  BY LenProperties
<1>2. PICK f : KeptUpTo(rs, f, n) /\ Unfreed(rs) = f[n]
  BY <1>1, UnfreedUnfolds
<1> DEFINE good(k) == f[k] \in Seq(AllocRecord) /\ OnePerAddr(f[k]) /\ Says(f[k]) = SaysTo(rs, k)
<1>3. good(0)
  <2>1. f[0] = <<>>
    BY <1>1, <1>2 DEF KeptUpTo
  <2>2. <<>> \in Seq(AllocRecord) /\ Len(<<>>) = 0 /\ 1 .. 0 = {}
    OBVIOUS
  <2>3. OnePerAddr(<<>>) /\ Says(<<>>) = {} /\ SaysTo(rs, 0) = {}
    BY <2>2 DEF OnePerAddr, Says, SaysTo
  <2> QED
    BY <2>1, <2>2, <2>3
<1>4. ASSUME NEW k \in 1 .. n, good(k - 1) PROVE good(k)
  <2> DEFINE e == f[k - 1]
             r == rs[k]
  <2>1. f[k] = IF r.freed THEN e ELSE Append(e, r)
    <3>1. k \in 0 .. n /\ k # 0
      BY <1>1
    <3> HIDE DEF n
    <3> QED
      BY <1>2, <3>1 DEF KeptUpTo
  <2>2. r \in AllocRecord /\ r.freed \in BOOLEAN
    <3>1. r \in AllocRecord
      BY ElementOfSeq
    <3> QED
      BY <3>1 DEF AllocRecord
  <2>3. 1 .. k = (1 .. k - 1) \cup {k} /\ k \notin 1 .. k - 1
    BY <1>1
  <2>4. \A x, m : x \in SaysTo(rs, m) <=> \E i \in 1 .. m : ~ rs[i].freed /\ x = <<rs[i].ptr, rs[i].size>>
    BY DEF SaysTo
  <2>5. CASE r.freed
    <3>1. ASSUME NEW x PROVE x \in SaysTo(rs, k) <=> x \in SaysTo(rs, k - 1)
      BY <2>3, <2>4, <2>5
    <3>2. SaysTo(rs, k) = SaysTo(rs, k - 1)
      BY <3>1
    <3> QED
      BY <1>4, <2>1, <2>5, <3>2
  <2>6. CASE ~ r.freed
    <3>1. ASSUME NEW x PROVE x \in SaysTo(rs, k) <=> x \in SaysTo(rs, k - 1) \/ x = <<r.ptr, r.size>>
      BY <2>3, <2>4, <2>6
    <3>2. SaysTo(rs, k) = SaysTo(rs, k - 1) \cup {<<r.ptr, r.size>>}
      BY <3>1
    <3>3. ASSUME NEW x \in SaysTo(rs, k - 1) PROVE x[1] # r.ptr
      <4>1. PICK i \in 1 .. k - 1 : ~ rs[i].freed /\ x = <<rs[i].ptr, rs[i].size>>
        BY <2>4, <3>3
      <4>2. i \in 1 .. n /\ i # k /\ InUseAt(rs, i) /\ InUseAt(rs, k)
        BY <1>1, <2>6, <4>1 DEF InUseAt
      <4>3. rs[i].ptr # rs[k].ptr
        BY <4>2 DEF OnePerAddr
      <4> QED
        BY <4>1, <4>3
    <3> HIDE DEF e, r
    <3>4. e \in Seq(AllocRecord) /\ OnePerAddr(e) /\ Says(e) = SaysTo(rs, k - 1)
      BY <1>4 DEF e
    <3>5. /\ Append(e, r) \in Seq(AllocRecord)
          /\ Says(Append(e, r)) = Says(e) \cup {<<r.ptr, r.size>>}
          /\ OnePerAddr(Append(e, r))
      BY <2>2, <2>6, <3>3, <3>4, AppendSays
    <3> QED
      BY <2>1, <2>6, <3>2, <3>4, <3>5
  <2> QED
    BY <2>2, <2>5, <2>6
<1>5. good(n)
  <2> DEFINE bad == {k \in 0 .. n : ~ good(k)}
  <2> SUFFICES ASSUME bad # {} PROVE FALSE
    BY <1>1
  <2>1. bad \subseteq Nat
    OBVIOUS
  <2>2. PICK m \in bad : \A j \in bad : m <= j
    <3> HIDE DEF bad
    <3> QED
      BY <2>1, LeastNumber
  <2>3. m \in 0 .. n /\ ~ good(m)
    OBVIOUS
  <2>4. m # 0
    BY <1>3, <2>3
  <2>5. m \in 1 .. n /\ m - 1 \in 0 .. n /\ m - 1 \notin bad
    BY <1>1, <2>2, <2>3, <2>4
  <2> HIDE DEF good
  <2> QED
    BY <1>4, <2>3, <2>5
<1>6. SaysTo(rs, n) = Says(rs)
  BY DEF SaysTo, Says, InUseAt
<1> QED
  BY <1>2, <1>5, <1>6

\* add_record adds the record asked for or, when it says so, nothing.
LEMMA AddRecordSays ==
  ASSUME RecordsSound, NEW a \in MemAddr, NEW n \in Sizes, NEW grown \in BOOLEAN,
         \A x \in Says(records) : x[1] # a
  PROVE  LET r == add_record(a, n, grown)
         IN  /\ r.recs \in Seq(AllocRecord) /\ OnePerAddr(r.recs) /\ r.ok \in BOOLEAN
             /\ Says(r.recs) = IF r.ok THEN Says(records) \cup {<<a, n>>} ELSE Says(records)
<1> DEFINE rec == [ptr |-> a, size |-> n, freed |-> FALSE]
           full == Len(records) >= record_capacity
           grows == full /\ 2 * record_capacity <= SAFE_MEM_MAX_TRACKED
           rs == IF full /\ ~grows THEN Unfreed(records) ELSE records
           cap == IF grows /\ grown THEN 2 * record_capacity ELSE record_capacity
<1>1. rs \in Seq(AllocRecord) /\ OnePerAddr(rs) /\ Says(rs) = Says(records)
  BY UnfreedSays DEF RecordsSound
<1>2. rec \in AllocRecord /\ ~ rec.freed /\ rec.ptr = a /\ rec.size = n
  BY DEF AllocRecord
<1>3. add_record(a, n, grown) = IF Len(rs) >= cap THEN [recs |-> rs, cap |-> cap, ok |-> FALSE]
                                ELSE [recs |-> Append(rs, rec), cap |-> cap, ok |-> TRUE]
  BY DEF add_record
<1> HIDE DEF rs, rec, cap
<1>4. /\ Append(rs, rec) \in Seq(AllocRecord) /\ OnePerAddr(Append(rs, rec))
      /\ Says(Append(rs, rec)) = Says(records) \cup {<<a, n>>}
  BY <1>1, <1>2, AppendSays
<1>5. CASE Len(rs) >= cap
  BY <1>1, <1>3, <1>5
<1>6. CASE ~ (Len(rs) >= cap)
  BY <1>3, <1>4, <1>6
<1> QED
  BY <1>5, <1>6

-----------------------------------------------------------------------------
(* The steps. *)

LEMMA InitSafe == safe_mem_init => SafeInv
<1> SUFFICES ASSUME safe_mem_init PROVE SafeInv
  OBVIOUS
<1> USE DEF safe_mem_init
<1>1. HeapTyped
  BY DEF HeapTyped
<1>2. Tracked(cells, known) = {} /\ Facts(cells, known) = {}
  BY DEF Tracked, Facts
<1>3. RecordsSound
  <2>1. records = <<>> /\ <<>> \in Seq(AllocRecord) /\ Len(<<>>) = 0 /\ 1 .. 0 = {}
    OBVIOUS
  <2>2. OnePerAddr(<<>>) /\ Says(<<>>) = {}
    BY <2>1 DEF OnePerAddr, Says
  <2> QED
    BY <1>2, <2>1, <2>2 DEF RecordsSound
<1>4. BytesCounted
  <2> DEFINE z == SumFunctionOnSet(SizeAt(cells), Tracked(cells, known))
  <2>1. z = 0
    BY <1>2, SumOfNone
  <2>2. untracked = 0 /\ current_bytes = 0
    OBVIOUS
  <2> HIDE DEF z, safe_mem_init
  <2>3. untracked \in Int /\ current_bytes = untracked + z
    BY <2>1, <2>2
  <2> QED
    BY <2>3 DEF BytesCounted, z
<1>5. ReallocSound
  BY DEF ReallocSound
<1> QED
  BY <1>1, <1>3, <1>4, <1>5 DEF SafeInv

LEMMA CellsAre ==
  ASSUME HeapTyped, NEW a \in MemAddr, cells[a] # None
  PROVE  cells[a] \in Block /\ cells[a].size \in Sizes /\ cells[a].size \in Nat /\ cells[a].size > 0
         /\ SizeAt(cells)[a] = cells[a].size
<1>1. cells[a] \in Block
  BY DEF HeapTyped
<1> QED
  BY <1>1, BlockIsNotNone DEF SizeAt

\* The sum the counter stands for is over finitely many integers.
LEMMA TrackedIs ==
  ASSUME HeapTyped
  PROVE  /\ IsFiniteSet(Tracked(cells, known)) /\ Tracked(cells, known) \subseteq MemAddr
         /\ \A a \in MemAddr : SizeAt(cells)[a] \in Int
<1>1. Tracked(cells, known) \subseteq MemAddr
  BY DEF Tracked
<1>2. IsFiniteSet(Tracked(cells, known))
  BY <1>1, FS_Subset, SafeMemAssumption
<1>3. ASSUME NEW a \in MemAddr PROVE SizeAt(cells)[a] \in Int
  <2>1. CASE cells[a] = None
    BY <2>1 DEF SizeAt
  <2>2. CASE cells[a] # None
    BY <2>2, CellsAre
  <2> QED
    BY <2>1, <2>2
<1> QED
  BY <1>1, <1>2, <1>3

\* An allocation.
LEMMA MallocHeap ==
  ASSUME SafeInv, NEW t \in MemThread, NEW a \in MemAddr, NEW n \in Sizes,
         NEW c \in Content \cup {None}, Malloc(t, a, n, c)
  PROVE  /\ HeapTyped' /\ RecordsSound' /\ BytesCounted'
         /\ cells[a] = None /\ owner' = [owner EXCEPT ![a] = t]
         /\ cells'[a].content = c /\ \A b \in MemAddr : b # a => cells'[b] = cells[b] /\ known'[b] = known[b]
<1> DEFINE v == [size |-> n, content |-> c]
           T == Tracked(cells, known)
           f == SizeAt(cells)
           g == SizeAt(cells')
<1>1. PICK grown \in BOOLEAN :
        LET r == add_record(a, n, grown)
        IN  /\ records' = r.recs
            /\ untracked' = IF r.ok THEN untracked ELSE untracked + n
            /\ known' = [known EXCEPT ![a] = r.ok]
  BY DEF Malloc
<1> DEFINE r == add_record(a, n, grown)
<1>2. HeapTyped /\ RecordsSound /\ BytesCounted
  BY DEF SafeInv
<1>3. /\ cells[a] = None /\ current_bytes' = current_bytes + n /\ n \in Nat /\ n > 0
      /\ cells' = [cells EXCEPT ![a] = v] /\ owner' = [owner EXCEPT ![a] = t]
      /\ known[a] = FALSE /\ a \notin T
  BY <1>2, SafeMemAssumption DEF Malloc, HeapTyped, Tracked
<1>4. v \in Block /\ v # None
  <2>1. v \in Block
    BY DEF Block
  <2> QED
    BY <2>1, BlockIsNotNone
<1>5. \A x \in Says(records) : x[1] # a
  <2> SUFFICES ASSUME NEW x \in Facts(cells, known) PROVE x[1] # a
    BY <1>2 DEF RecordsSound
  <2> QED
    BY <1>3 DEF Facts
<1>6. /\ r.recs \in Seq(AllocRecord) /\ OnePerAddr(r.recs) /\ r.ok \in BOOLEAN
      /\ Says(r.recs) = IF r.ok THEN Says(records) \cup {<<a, n>>} ELSE Says(records)
  BY <1>2, <1>5, AddRecordSays
<1> DEFINE ok == r.ok
           recs == r.recs
<1>7. /\ records' = recs /\ untracked' = IF ok THEN untracked ELSE untracked + n
      /\ known' = [known EXCEPT ![a] = ok] /\ ok \in BOOLEAN
  BY <1>1, <1>6
<1> HIDE DEF r, ok, recs, v
<1>8. /\ cells'[a] = v /\ known'[a] = ok /\ owner'[a] = t
      /\ \A b \in MemAddr : b # a => cells'[b] = cells[b] /\ known'[b] = known[b] /\ owner'[b] = owner[b]
  BY <1>2, <1>3, <1>7 DEF HeapTyped
<1>9. HeapTyped'
  <2>1. /\ cells' \in [MemAddr -> Block \cup {None}]
        /\ owner' \in [MemAddr -> MemThread \cup {None}]
        /\ known' \in [MemAddr -> BOOLEAN]
    BY <1>2, <1>3, <1>4, <1>7 DEF HeapTyped
  <2>2. ASSUME NEW b \in MemAddr, owner'[b] # None \/ known'[b] PROVE cells'[b] # None
    <3>1. CASE b = a
      BY <1>4, <1>8, <3>1
    <3>2. CASE b # a
      BY <1>2, <1>8, <2>2, <3>2 DEF HeapTyped
    <3> QED
      BY <3>1, <3>2
  <2> QED
    BY <2>1, <2>2 DEF HeapTyped
<1>10. Tracked(cells', known') = IF ok THEN T \cup {a} ELSE T
  <2>1. ASSUME NEW b PROVE b \in Tracked(cells', known') <=> (b \in T \/ (ok /\ b = a))
    <3>1. CASE b = a
      BY <1>3, <1>4, <1>8, <3>1 DEF Tracked
    <3>2. CASE b # a
      BY <1>8, <3>2 DEF Tracked
    <3> QED
      BY <3>1, <3>2
  <2>2. CASE ok
    BY <2>1, <2>2
  <2>3. CASE ~ ok
    BY <2>1, <2>3
  <2> QED
    BY <2>2, <2>3
<1>11. RecordsSound'
  <2>1. ASSUME NEW b \in T PROVE <<b, cells'[b].size>> = <<b, cells[b].size>>
    BY <1>3, <1>8 DEF Tracked
  <2>2. Facts(cells', known') = IF ok THEN Facts(cells, known) \cup {<<a, n>>} ELSE Facts(cells, known)
    <3>1. cells'[a].size = n
      BY <1>8 DEF v
    <3> HIDE DEF T
    <3>2. CASE ok
      BY <1>10, <2>1, <3>1, <3>2 DEF Facts, T
    <3>3. CASE ~ ok
      BY <1>10, <2>1, <3>3 DEF Facts, T
    <3> QED
      BY <3>2, <3>3
  <2> QED
    BY <1>2, <1>6, <1>7, <2>2 DEF RecordsSound, ok, recs
<1>12. BytesCounted'
  <2>1. IsFiniteSet(T) /\ T \subseteq MemAddr /\ \A b \in MemAddr : f[b] \in Int
    BY <1>2, TrackedIs
  <2>2. \A b \in T : f[b] = g[b]
    BY <1>3, <1>8, <2>1 DEF SizeAt
  <2>3. g[a] = n
    BY <1>4, <1>8 DEF SizeAt, v
  <2> HIDE DEF f, g, T
  <2>4. SumFunctionOnSet(g, T) = SumFunctionOnSet(f, T) /\ SumFunctionOnSet(f, T) \in Int
    BY <2>1, <2>2, SumOfSame, SumIsInt
  <2>5. SumFunctionOnSet(g, T \cup {a}) = n + SumFunctionOnSet(g, T)
    <3>1. (\A b \in T : g[b] \in Int) /\ g[a] \in Int
      BY <1>3, <2>1, <2>2, <2>3
    <3> QED
      BY <1>3, <2>1, <2>3, <3>1, SumTakesIn
  <2>6. /\ untracked \in Int /\ current_bytes = untracked + SumFunctionOnSet(f, T)
    BY <1>2 DEF BytesCounted, f, T
  <2>7. untracked' \in Int /\ current_bytes' = untracked' + SumFunctionOnSet(g, Tracked(cells', known'))
    <3> DEFINE k == SumFunctionOnSet(f, T)
    <3>0. k \in Int /\ current_bytes = untracked + k
      BY <2>4, <2>6
    <3>1. CASE ok
      <4>1. SumFunctionOnSet(g, Tracked(cells', known')) = n + k /\ untracked' = untracked
        BY <1>7, <1>10, <2>4, <2>5, <3>1
      <4> HIDE DEF k
      <4> QED
        BY <1>3, <2>6, <3>0, <4>1
    <3>2. CASE ~ ok
      <4>1. SumFunctionOnSet(g, Tracked(cells', known')) = k /\ untracked' = untracked + n
        BY <1>7, <1>10, <2>4, <3>2
      <4> HIDE DEF k
      <4> QED
        BY <1>3, <2>6, <3>0, <4>1
    <3> QED
      BY <3>1, <3>2
  <2> QED
    BY <2>7 DEF BytesCounted, g
<1> QED
  BY <1>3, <1>8, <1>9, <1>11, <1>12 DEF v

\* A block that is freed: its record, if it has one, is marked.
LEMMA RecordOf ==
  ASSUME HeapTyped, RecordsSound, NEW a \in MemAddr
  PROVE  LET i == find_record(records, a)
         IN  /\ Matches(records, a) = {} <=> a \notin Tracked(cells, known)
             /\ a \in Tracked(cells, known) =>
                  /\ i \in 1 .. Len(records) /\ InUseAt(records, i) /\ records[i].ptr = a
                  /\ records[i].size = cells[a].size /\ Matches(records, a) = {i}
<1> DEFINE T == Tracked(cells, known)
           M == Matches(records, a)
<1>1. Len(records) \in Nat /\ DOMAIN records = 1 .. Len(records)
  BY LenProperties DEF RecordsSound
<1>2. \A i : i \in M <=> InUseAt(records, i) /\ records[i].ptr = a
  BY <1>1 DEF Matches, InUseAt
<1>3. \A i : InUseAt(records, i) => <<records[i].ptr, records[i].size>> \in Facts(cells, known)
  <2> SUFFICES ASSUME NEW i, InUseAt(records, i)
               PROVE  <<records[i].ptr, records[i].size>> \in Says(records)
    BY DEF RecordsSound
  <2> QED
    BY DEF Says, InUseAt
<1>4. ASSUME NEW i \in M PROVE a \in T /\ records[i].size = cells[a].size
  <2>1. <<a, records[i].size>> \in Facts(cells, known)
    BY <1>2, <1>3
  <2> QED
    BY <2>1 DEF Facts
<1>5. ASSUME a \in T PROVE M # {}
  <2>1. <<a, cells[a].size>> \in Says(records)
    BY <1>5 DEF RecordsSound, Facts
  <2>2. PICK i \in {j \in 1 .. Len(records) : InUseAt(records, j)} :
          <<a, cells[a].size>> = <<records[i].ptr, records[i].size>>
    BY <2>1 DEF Says
  <2> QED
    BY <1>2, <2>2
<1>6. ASSUME NEW i \in M PROVE M = {i} /\ find_record(records, a) = i
  <2>1. \A j \in M : j = i
    BY <1>2, <1>6 DEF RecordsSound, OnePerAddr, InUseAt
  <2>2. M = {i} /\ i <= i
    BY <1>2, <1>6, <2>1 DEF InUseAt
  <2> QED
    BY <2>2 DEF find_record
<1>7. M = {} <=> a \notin T
  BY <1>4, <1>5
<1>8. ASSUME a \in T
      PROVE  LET i == find_record(records, a)
             IN  /\ i \in 1 .. Len(records) /\ InUseAt(records, i) /\ records[i].ptr = a
                 /\ records[i].size = cells[a].size /\ M = {i}
  <2>1. PICK i \in M : TRUE
    BY <1>5, <1>8
  <2>2. find_record(records, a) = i
    BY <1>6
  <2> HIDE DEF M
  <2> QED
    BY <1>2, <1>4, <1>6, <2>1, <2>2 DEF InUseAt
<1> QED
  BY <1>7, <1>8

LEMMA MarkedSays ==
  ASSUME NEW rs \in Seq(AllocRecord), OnePerAddr(rs), NEW i \in 1 .. Len(rs), InUseAt(rs, i)
  PROVE  LET q == [rs EXCEPT ![i].freed = TRUE]
         IN  /\ q \in Seq(AllocRecord) /\ OnePerAddr(q)
             /\ Says(q) = {x \in Says(rs) : x[1] # rs[i].ptr}
<1> DEFINE n == Len(rs)
           o == rs[i]
           y == [o EXCEPT !.freed = TRUE]
           q == [rs EXCEPT ![i] = y]
<1>1. n \in Nat /\ rs \in [1 .. n -> AllocRecord] /\ DOMAIN rs = 1 .. n
  BY LenProperties
<1>2. y \in AllocRecord /\ y.freed /\ y.ptr = o.ptr /\ y.size = o.size
  <2>1. o \in AllocRecord
    BY <1>1
  <2> HIDE DEF o
  <2> QED
    BY <2>1 DEF AllocRecord
<1> HIDE DEF y
<1>3. /\ q \in [1 .. n -> AllocRecord] /\ q[i] = y /\ \A j \in 1 .. n : j # i => q[j] = rs[j]
  BY <1>1, <1>2
<1>4. q \in Seq(AllocRecord) /\ Len(q) = n
  BY <1>1, <1>3, SeqDef, LenProperties
<1> HIDE DEF q
<1>5. \A j : InUseAt(q, j) <=> InUseAt(rs, j) /\ j # i
  BY <1>2, <1>3, <1>4 DEF InUseAt
<1>6. OnePerAddr(q)
  BY <1>3, <1>4, <1>5 DEF OnePerAddr
<1>7. ASSUME NEW x PROVE x \in Says(q) <=> x \in Says(rs) /\ x[1] # o.ptr
  <2>1. x \in Says(q) <=> \E j \in 1 .. n : InUseAt(q, j) /\ x = <<q[j].ptr, q[j].size>>
    BY <1>4 DEF Says
  <2>2. x \in Says(rs) <=> \E j \in 1 .. n : InUseAt(rs, j) /\ x = <<rs[j].ptr, rs[j].size>>
    BY DEF Says
  <2>3. ASSUME NEW j \in 1 .. n, InUseAt(rs, j) PROVE j # i <=> rs[j].ptr # o.ptr
    BY <2>3 DEF OnePerAddr
  <2>4. ASSUME x \in Says(q) PROVE x \in Says(rs) /\ x[1] # o.ptr
    <3>1. PICK j \in 1 .. n : InUseAt(q, j) /\ x = <<q[j].ptr, q[j].size>>
      BY <2>1, <2>4
    <3>2. InUseAt(rs, j) /\ j # i /\ q[j] = rs[j]
      BY <1>3, <1>5, <3>1
    <3>3. rs[j].ptr # o.ptr
      BY <2>3, <3>2
    <3> HIDE DEF o
    <3> QED
      BY <2>2, <3>1, <3>2, <3>3
  <2>5. ASSUME x \in Says(rs), x[1] # o.ptr PROVE x \in Says(q)
    <3>1. PICK j \in 1 .. n : InUseAt(rs, j) /\ x = <<rs[j].ptr, rs[j].size>>
      BY <2>2, <2>5
    <3>2. j # i
      BY <2>5, <3>1
    <3>3. InUseAt(q, j) /\ q[j] = rs[j]
      BY <1>3, <1>5, <3>1, <3>2
    <3> QED
      BY <2>1, <3>1, <3>3
  <2> QED
    BY <2>4, <2>5
<1>8. Says(q) = {x \in Says(rs) : x[1] # o.ptr}
  BY <1>7
<1>9. q = [rs EXCEPT ![i].freed = TRUE]
  BY DEF q, y, o
<1> QED
  BY <1>4, <1>6, <1>8, <1>9

\* A free.
LEMMA FreeHeap ==
  ASSUME SafeInv, NEW a \in MemAddr, Free(a)
  PROVE  /\ HeapTyped' /\ RecordsSound' /\ BytesCounted'
         /\ owner' = [owner EXCEPT ![a] = None]
         /\ \A b \in MemAddr : b # a => cells'[b] = cells[b] /\ known'[b] = known[b]
<1> DEFINE T == Tracked(cells, known)
           f == SizeAt(cells)
           g == SizeAt(cells')
           i == find_record(records, a)
<1>1. HeapTyped /\ RecordsSound /\ BytesCounted
  BY DEF SafeInv
<1>2. /\ cells' = [cells EXCEPT ![a] = None] /\ owner' = [owner EXCEPT ![a] = None]
      /\ known' = [known EXCEPT ![a] = FALSE] /\ untracked' = untracked
  BY DEF Free
<1>3. /\ cells'[a] = None /\ known'[a] = FALSE /\ owner'[a] = None
      /\ \A b \in MemAddr : b # a => cells'[b] = cells[b] /\ known'[b] = known[b] /\ owner'[b] = owner[b]
  BY <1>1, <1>2 DEF HeapTyped
<1>4. HeapTyped'
  <2>1. /\ cells' \in [MemAddr -> Block \cup {None}]
        /\ owner' \in [MemAddr -> MemThread \cup {None}]
        /\ known' \in [MemAddr -> BOOLEAN]
    BY <1>1, <1>2 DEF HeapTyped
  <2>2. ASSUME NEW b \in MemAddr, owner'[b] # None \/ known'[b] PROVE cells'[b] # None
    <3>1. b # a
      BY <1>3, <2>2
    <3> QED
      BY <1>1, <1>3, <2>2, <3>1 DEF HeapTyped
  <2> QED
    BY <2>1, <2>2 DEF HeapTyped
<1>5. Tracked(cells', known') = T \ {a}
  BY <1>3 DEF Tracked
<1>6. Facts(cells', known') = {x \in Facts(cells, known) : x[1] # a}
  BY <1>3, <1>5 DEF Facts, Tracked
<1>7. /\ Matches(records, a) = {} <=> a \notin T
      /\ a \in T => /\ i \in 1 .. Len(records) /\ InUseAt(records, i) /\ records[i].ptr = a
                    /\ records[i].size = cells[a].size
  BY <1>1, RecordOf
<1> HIDE DEF i
<1>8. /\ IsFiniteSet(T) /\ T \subseteq MemAddr /\ \A b \in MemAddr : f[b] \in Int
      /\ \A b \in T \ {a} : f[b] = g[b]
  <2>1. IsFiniteSet(T) /\ T \subseteq MemAddr /\ \A b \in MemAddr : f[b] \in Int
    BY <1>1, TrackedIs
  <2> QED
    BY <1>3, <2>1 DEF SizeAt
<1>9. SumFunctionOnSet(g, T \ {a}) = SumFunctionOnSet(f, T \ {a})
      /\ SumFunctionOnSet(f, T) \in Int /\ SumFunctionOnSet(f, T \ {a}) \in Int
  <2> HIDE DEF f, g, T
  <2>1. IsFiniteSet(T \ {a}) /\ \A b \in T \ {a} : f[b] \in Int
    BY <1>8, FS_Subset
  <2> QED
    BY <1>8, <2>1, SumOfSame, SumIsInt
<1>10. untracked \in Int /\ current_bytes = untracked + SumFunctionOnSet(f, T)
  BY <1>1 DEF BytesCounted
<1>11. CASE a \notin T
  <2>1. records' = records /\ current_bytes' = current_bytes /\ T \ {a} = T
    BY <1>7, <1>11 DEF Free
  <2>2. {x \in Facts(cells, known) : x[1] # a} = Facts(cells, known)
    BY <1>11 DEF Facts
  <2>3. RecordsSound'
    BY <1>1, <1>6, <2>1, <2>2 DEF RecordsSound
  <2>4. BytesCounted'
    <3>1. untracked' \in Int /\ current_bytes' = untracked' + SumFunctionOnSet(g, Tracked(cells', known'))
      BY <1>2, <1>5, <1>9, <1>10, <2>1
    <3> QED
      BY <3>1 DEF BytesCounted
  <2> QED
    BY <1>2, <1>3, <1>4, <2>3, <2>4
<1>12. CASE a \in T
  <2>1. /\ records' = [records EXCEPT ![i].freed = TRUE]
        /\ current_bytes' = current_bytes - records[i].size
    BY <1>7, <1>12 DEF Free, i
  <2>2. /\ records' \in Seq(AllocRecord) /\ OnePerAddr(records')
        /\ Says(records') = {x \in Says(records) : x[1] # a}
    <3>1. /\ records \in Seq(AllocRecord) /\ OnePerAddr(records)
          /\ i \in 1 .. Len(records) /\ InUseAt(records, i) /\ records[i].ptr = a
      BY <1>1, <1>7, <1>12 DEF RecordsSound
    <3> QED
      BY <2>1, <3>1, MarkedSays
  <2>3. RecordsSound'
    BY <1>1, <1>6, <2>2 DEF RecordsSound
  <2>4. f[a] = cells[a].size /\ f[a] \in Int
    <3>1. cells[a] # None
      BY <1>12 DEF Tracked
    <3> QED
      BY <1>1, <3>1, CellsAre
  <2>5. SumFunctionOnSet(f, T) = f[a] + SumFunctionOnSet(f, T \ {a})
    <3> HIDE DEF f, T
    <3> QED
      BY <1>8, <1>12, SumTakesOut
  <2>6. BytesCounted'
    <3> DEFINE k == SumFunctionOnSet(f, T \ {a})
               l == f[a]
    <3>1. /\ current_bytes = untracked + (l + k) /\ current_bytes' = current_bytes - l
          /\ l \in Int /\ k \in Int
      BY <1>7, <1>9, <1>10, <1>12, <2>1, <2>4, <2>5
    <3>2. SumFunctionOnSet(g, Tracked(cells', known')) = k
      BY <1>5, <1>9
    <3> HIDE DEF k, l, g
    <3>3. untracked' \in Int /\ current_bytes' = untracked' + k
      BY <1>2, <1>10, <3>1
    <3> QED
      BY <3>2, <3>3 DEF BytesCounted, g
  <2> QED
    BY <1>2, <1>3, <1>4, <2>3, <2>6
<1> QED
  BY <1>11, <1>12

\* What another thread has in hand stays as it is while this one's block changes.
LEMMA OthersKeep ==
  ASSUME HeapTyped, NEW t \in MemThread, NEW a \in MemAddr, NEW o,
         NEW p, InRealloc(t, p, owner, known, cells), owner[a] # t,
         owner' = [owner EXCEPT ![a] = o],
         \A b \in MemAddr : b # a => cells'[b] = cells[b] /\ known'[b] = known[b]
  PROVE  InRealloc(t, p, owner', known', cells')
<1>1. p.old \in MemAddr /\ owner[p.old] = t /\ p.old # a
  BY DEF InRealloc, Hand
<1>2. p.new # None => p.new \in MemAddr /\ owner[p.new] = t /\ p.new # a
  BY DEF InRealloc, Hand
<1>3. owner'[p.old] = t /\ cells'[p.old] = cells[p.old] /\ known'[p.old] = known[p.old]
  BY <1>1 DEF HeapTyped
<1>4. p.new # None => owner'[p.new] = t /\ cells'[p.new] = cells[p.new]
  BY <1>2 DEF HeapTyped
<1> QED
  BY <1>1, <1>2, <1>3, <1>4 DEF InRealloc

LEMMA PendingIs ==
  ASSUME SafeInv, NEW t \in MemThread, pending[t] # NotIn
  PROVE  InRealloc(t, pending[t], owner, known, cells)
BY DEF SafeInv, ReallocSound

LEMMA StoreSafe ==
  ASSUME SafeInv, NEW t \in MemThread, NEW a \in MemAddr, NEW n \in Sizes, NEW c \in Content,
         safe_malloc_impl(t, a, n, c)
  PROVE  SafeInv'
<1>1. Malloc(t, a, n, c) /\ pending' = pending /\ c \in Content \cup {None}
  BY DEF safe_malloc_impl
<1>2. /\ HeapTyped' /\ RecordsSound' /\ BytesCounted' /\ HeapTyped
      /\ cells[a] = None /\ owner' = [owner EXCEPT ![a] = t]
      /\ \A b \in MemAddr : b # a => cells'[b] = cells[b] /\ known'[b] = known[b]
  BY <1>1, MallocHeap DEF SafeInv
<1>3. owner[a] = None
  BY <1>2 DEF HeapTyped
<1>4. ASSUME NEW s \in MemThread, pending[s] # NotIn
      PROVE  InRealloc(s, pending[s], owner', known', cells')
  <2>1. InRealloc(s, pending[s], owner, known, cells) /\ owner[a] # s
    BY <1>3, <1>4, PendingIs, SafeMemAssumption
  <2> QED
    BY <1>2, <2>1, OthersKeep
<1>5. ReallocSound'
  BY <1>1, <1>4 DEF ReallocSound, SafeInv
<1> QED
  BY <1>2, <1>5 DEF SafeInv

LEMMA FreeSafe ==
  ASSUME SafeInv, NEW t \in MemThread, NEW a \in MemAddr, owner[a] = t, Free(a),
         DOMAIN pending' = MemThread,
         \A s \in MemThread : pending'[s] # NotIn => s # t /\ pending'[s] = pending[s]
  PROVE  SafeInv'
<1>1. /\ HeapTyped' /\ RecordsSound' /\ BytesCounted' /\ HeapTyped
      /\ owner' = [owner EXCEPT ![a] = None]
      /\ \A b \in MemAddr : b # a => cells'[b] = cells[b] /\ known'[b] = known[b]
  BY FreeHeap DEF SafeInv
<1>2. ASSUME NEW s \in MemThread, pending'[s] # NotIn
      PROVE  InRealloc(s, pending'[s], owner', known', cells')
  <2>1. s # t /\ pending'[s] = pending[s]
    BY <1>2
  <2>2. InRealloc(s, pending[s], owner, known, cells) /\ owner[a] # s
    BY <1>2, <2>1, PendingIs
  <2>3. InRealloc(s, pending[s], owner', known', cells')
    BY <1>1, <2>2, OthersKeep
  <2> QED
    BY <2>1, <2>3
<1>3. ReallocSound'
  BY <1>2 DEF ReallocSound
<1> QED
  BY <1>1, <1>3 DEF SafeInv

LEMMA LookSafe ==
  ASSUME SafeInv, NEW t \in MemThread, NEW a \in MemAddr, NEW n \in Sizes, ReallocLook(t, a, n)
  PROVE  SafeInv'
<1> DEFINE i == find_record(records, a)
           k == IF Matches(records, a) = {} THEN 0 ELSE records[i].size
           v == [old |-> a, size |-> n, new |-> None, copy |-> k]
<1>1. /\ owner[a] = t /\ pending' = [pending EXCEPT ![t] = v]
      /\ UNCHANGED <<records, record_capacity, current_bytes, cells, owner, untracked, known>>
  BY DEF ReallocLook
<1>2. HeapTyped /\ RecordsSound /\ BytesCounted /\ DOMAIN pending = MemThread
  BY DEF SafeInv, ReallocSound
<1>3. k \in Sizes \cup {0} /\ (known[a] => k > 0)
  <2>1. CASE a \in Tracked(cells, known)
    <3>1. cells[a] # None
      BY <2>1 DEF Tracked
    <3>2. Matches(records, a) # {} /\ records[i].size = cells[a].size
      BY <1>2, <2>1, RecordOf
    <3>3. cells[a].size > 0 /\ cells[a].size \in Sizes
      BY <1>2, <3>1, CellsAre
    <3> QED
      BY <3>2, <3>3
  <2>2. CASE a \notin Tracked(cells, known)
    <3>1. Matches(records, a) = {}
      BY <1>2, <2>2, RecordOf
    <3>2. ~ known[a]
      BY <1>2, <2>2 DEF HeapTyped, Tracked
    <3> QED
      BY <3>1, <3>2
  <2> QED
    BY <2>1, <2>2
<1> HIDE DEF k
<1>4. v.old = a /\ v.size = n /\ v.new = None /\ v.copy = k /\ v \in Hand
  BY <1>3 DEF Hand
<1> HIDE DEF v
<1>5. InRealloc(t, v, owner, known, cells)
  BY <1>1, <1>3, <1>4 DEF InRealloc
<1>6. ASSUME NEW s \in MemThread, pending'[s] # NotIn
      PROVE  InRealloc(s, pending'[s], owner, known, cells)
  <2>1. CASE s = t
    BY <1>1, <1>2, <1>5, <2>1
  <2>2. CASE s # t
    <3>1. pending'[s] = pending[s]
      BY <1>1, <1>2, <2>2
    <3> QED
      BY <1>6, <3>1, PendingIs
  <2> QED
    BY <2>1, <2>2
<1>7. HeapTyped' /\ RecordsSound' /\ BytesCounted'
  BY <1>1, <1>2 DEF HeapTyped, RecordsSound, BytesCounted
<1>8. ReallocSound'
  BY <1>1, <1>2, <1>6 DEF ReallocSound
<1> QED
  BY <1>7, <1>8 DEF SafeInv

LEMMA FailSafe ==
  ASSUME SafeInv, NEW t \in MemThread, ReallocFail(t)
  PROVE  SafeInv'
<1>1. /\ pending' = [pending EXCEPT ![t] = NotIn]
      /\ UNCHANGED <<records, record_capacity, current_bytes, cells, owner, untracked, known>>
  BY DEF ReallocFail
<1>2. HeapTyped /\ RecordsSound /\ BytesCounted /\ DOMAIN pending = MemThread
  BY DEF SafeInv, ReallocSound
<1>3. ASSUME NEW s \in MemThread, pending'[s] # NotIn
      PROVE  InRealloc(s, pending'[s], owner, known, cells)
  <2>1. pending'[s] = pending[s]
    BY <1>1, <1>2, <1>3
  <2> QED
    BY <1>3, <2>1, PendingIs
<1>4. HeapTyped' /\ RecordsSound' /\ BytesCounted'
  BY <1>1, <1>2 DEF HeapTyped, RecordsSound, BytesCounted
<1>5. ReallocSound'
  BY <1>1, <1>2, <1>3 DEF ReallocSound
<1> QED
  BY <1>4, <1>5 DEF SafeInv

LEMMA NewSafe ==
  ASSUME SafeInv, NEW t \in MemThread, NEW a \in MemAddr, ReallocNew(t, a)
  PROVE  SafeInv'
<1> DEFINE q == pending[t]
           n == q.size
           c == IF q.copy > 0 THEN cells[q.old].content ELSE None
           v == [q EXCEPT !.new = a]
<1>1. /\ q # NotIn /\ Malloc(t, a, n, c) /\ pending' = [pending EXCEPT ![t].new = a]
  BY DEF ReallocNew
<1>2. InRealloc(t, q, owner, known, cells) /\ HeapTyped /\ DOMAIN pending = MemThread
  BY <1>1, PendingIs DEF SafeInv, ReallocSound
<1>3. pending'[t] = v /\ \A s \in MemThread : s # t => pending'[s] = pending[s]
  BY <1>1, <1>2
<1> HIDE DEF q
<1>4. q \in Hand /\ q.old \in MemAddr /\ owner[q.old] = t /\ n \in Sizes /\ (known[q.old] => q.copy > 0)
  BY <1>2 DEF InRealloc, Hand
<1>5. v \in Hand /\ v.new = a /\ v.old = q.old /\ v.copy = q.copy
  BY <1>4 DEF Hand
<1>6. cells[q.old] # None /\ cells[q.old].content \in Content \cup {None}
  <2>1. cells[q.old] # None
    BY <1>2, <1>4, SafeMemAssumption DEF HeapTyped
  <2>2. cells[q.old] \in Block
    BY <1>2, <1>4, <2>1, CellsAre
  <2> QED
    BY <2>1, <2>2, BlockIsNotNone
<1>7. c \in Content \cup {None} /\ (known[q.old] => c = cells[q.old].content)
  BY <1>4, <1>6
<1> HIDE DEF c, n, v
<1>8. /\ HeapTyped' /\ RecordsSound' /\ BytesCounted'
      /\ cells[a] = None /\ owner' = [owner EXCEPT ![a] = t]
      /\ cells'[a].content = c /\ \A b \in MemAddr : b # a => cells'[b] = cells[b] /\ known'[b] = known[b]
  BY <1>1, <1>4, <1>7, MallocHeap
<1>9. owner[a] = None /\ q.old # a
  BY <1>2, <1>6, <1>8 DEF HeapTyped
<1>10. /\ owner'[a] = t /\ owner'[q.old] = t /\ cells'[q.old] = cells[q.old] /\ known'[q.old] = known[q.old]
  BY <1>2, <1>4, <1>8, <1>9 DEF HeapTyped
<1>11. InRealloc(t, v, owner', known', cells')
  BY <1>4, <1>5, <1>7, <1>8, <1>9, <1>10 DEF InRealloc
<1>12. ASSUME NEW s \in MemThread, pending'[s] # NotIn
       PROVE  InRealloc(s, pending'[s], owner', known', cells')
  <2>1. CASE s = t
    BY <1>3, <1>11, <2>1
  <2>2. CASE s # t
    <3>1. pending'[s] = pending[s]
      BY <1>3, <2>2
    <3>2. InRealloc(s, pending[s], owner, known, cells) /\ owner[a] # s
      BY <1>9, <1>12, <3>1, PendingIs, SafeMemAssumption
    <3>3. InRealloc(s, pending[s], owner', known', cells')
      BY <1>2, <1>8, <3>2, OthersKeep
    <3> QED
      BY <3>1, <3>3
  <2> QED
    BY <2>1, <2>2
<1>13. ReallocSound'
  BY <1>1, <1>2, <1>12 DEF ReallocSound
<1> QED
  BY <1>8, <1>13 DEF SafeInv

LEMMA NextSafe == SafeInv /\ [SafeNext]_svars => SafeInv'
<1> SUFFICES ASSUME SafeInv, [SafeNext]_svars PROVE SafeInv'
  OBVIOUS
<1>0. DOMAIN pending = MemThread
  BY DEF SafeInv, ReallocSound
<1>1. ASSUME NEW t \in MemThread, NEW a \in MemAddr, NEW n \in Sizes, NEW c \in Content,
             safe_malloc_impl(t, a, n, c)
      PROVE  SafeInv'
  BY <1>1, StoreSafe
<1>2. ASSUME NEW t \in MemThread, NEW a \in MemAddr, safe_free_impl(t, a) PROVE SafeInv'
  <2>1. owner[a] = t /\ Free(a) /\ pending[t] = NotIn /\ pending' = pending
    BY <1>2 DEF safe_free_impl
  <2> QED
    BY <1>0, <2>1, FreeSafe
<1>3. ASSUME NEW t \in MemThread, NEW a \in MemAddr, NEW n \in Sizes, ReallocLook(t, a, n) PROVE SafeInv'
  BY <1>3, LookSafe
<1>4. ASSUME NEW t \in MemThread, NEW a \in MemAddr, ReallocNew(t, a) PROVE SafeInv'
  BY <1>4, NewSafe
<1>5. ASSUME NEW t \in MemThread, ReallocFail(t) PROVE SafeInv'
  BY <1>5, FailSafe
<1>6. ASSUME NEW t \in MemThread, ReallocFree(t) PROVE SafeInv'
  <2> DEFINE a == pending[t].old
  <2>1. pending[t] # NotIn /\ Free(a) /\ pending' = [pending EXCEPT ![t] = NotIn]
    BY <1>6 DEF ReallocFree
  <2>2. a \in MemAddr /\ owner[a] = t
    BY <2>1, PendingIs DEF InRealloc, Hand
  <2> HIDE DEF a
  <2>3. /\ DOMAIN pending' = MemThread
        /\ \A s \in MemThread : pending'[s] # NotIn => s # t /\ pending'[s] = pending[s]
    BY <1>0, <2>1
  <2> QED
    BY <2>1, <2>2, <2>3, FreeSafe
<1>7. CASE UNCHANGED svars
  <2>1. UNCHANGED <<records, current_bytes, cells, owner, pending, untracked, known>>
    BY <1>7 DEF svars
  <2> QED
    BY <2>1 DEF SafeInv, HeapTyped, RecordsSound, BytesCounted, ReallocSound
<1> QED
  BY <1>1, <1>2, <1>3, <1>4, <1>5, <1>6, <1>7 DEF SafeNext

LEMMA SafeFollows == SafeInv => AllocationsAccounted /\ ReallocKeepsContent
<1> SUFFICES ASSUME SafeInv PROVE AllocationsAccounted /\ ReallocKeepsContent
  OBVIOUS
<1> DEFINE T == Tracked(cells, known)
<1>1. HeapTyped /\ RecordsSound /\ BytesCounted
  BY DEF SafeInv
<1>2. T = {a \in Allocated : known[a]}
  BY DEF Tracked, Allocated
<1>3. current_bytes = untracked + SumFunctionOnSet([a \in MemAddr |-> IF cells[a] = None THEN 0 ELSE cells[a].size],
                                                   {a \in Allocated : known[a]})
  BY <1>1, <1>2 DEF BytesCounted, SizeAt
<1>4. ASSUME NEW a \in MemAddr
      PROVE  IF a \in Allocated /\ known[a]
             THEN Cardinality(Matches(records, a)) = 1 /\ records[find_record(records, a)].size = cells[a].size
             ELSE Matches(records, a) = {}
  <2>1. CASE a \in T
    <3>1. /\ records[find_record(records, a)].size = cells[a].size
          /\ Matches(records, a) = {find_record(records, a)}
      BY <1>1, <2>1, RecordOf
    <3>2. Cardinality(Matches(records, a)) = 1
      BY <3>1, FS_Singleton
    <3> QED
      BY <1>2, <2>1, <3>1, <3>2
  <2>2. CASE a \notin T
    <3>1. Matches(records, a) = {}
      BY <1>1, <2>2, RecordOf
    <3> QED
      BY <1>2, <2>2, <3>1
  <2> QED
    BY <2>1, <2>2
<1>5. ASSUME NEW t \in MemThread, pending[t] # NotIn, pending[t].new # None, known[pending[t].old]
      PROVE  cells[pending[t].new].content = cells[pending[t].old].content
  BY <1>5, PendingIs DEF InRealloc
<1>6. AllocationsAccounted
  BY <1>3, <1>4 DEF AllocationsAccounted
<1> QED
  BY <1>5, <1>6 DEF ReallocKeepsContent

-----------------------------------------------------------------------------
(* Pieces of sequences. *)

\* A sequence without repetition, cut after its first n elements.
LEMMA CutElements ==
  ASSUME NEW S, NEW s \in Seq(S), IsInjective(s), NEW n \in 0 .. Len(s)
  PROVE  LET p == SubSeq(s, 1, n)
             r == SubSeq(s, n + 1, Len(s))
         IN  /\ p \in Seq(S) /\ Len(p) = n /\ (\A i \in 1 .. n : p[i] = s[i]) /\ IsInjective(p)
             /\ ToSet(p) = {s[i] : i \in 1 .. n} /\ ToSet(r) = {s[i] : i \in n + 1 .. Len(s)}
             /\ ToSet(p) \cup ToSet(r) = ToSet(s) /\ ToSet(p) \cap ToSet(r) = {}
<1> DEFINE m == Len(s)
           p == SubSeq(s, 1, n)
           r == SubSeq(s, n + 1, m)
<1>1. m \in Nat /\ n \in Nat /\ n <= m /\ DOMAIN s = 1 .. m /\ \A i \in 1 .. m : s[i] \in S
  BY LenProperties, ElementOfSeq
<1>2. p \in Seq(S) /\ Len(p) = n /\ \A i \in 1 .. n : p[i] = s[i]
  <2>1. \A i \in 1 .. n : s[i] \in S
    BY <1>1
  <2>2. /\ p \in Seq(S) /\ Len(p) = IF 1 <= n THEN n - 1 + 1 ELSE 0
        /\ \A i \in 1 .. n - 1 + 1 : p[i] = s[1 + i - 1]
    BY <1>1, <2>1, SubSeqProperties
  <2> HIDE DEF p
  <2>3. Len(p) = n
    BY <1>1, <2>2
  <2>4. \A i \in 1 .. n : p[i] = s[i]
    BY <1>1, <2>2
  <2> QED
    BY <2>2, <2>3, <2>4
<1>3. /\ Len(r) = m - n
      /\ \A i \in 1 .. m - n : r[i] = s[n + i]
      /\ r \in Seq(S)
  <2>1. \A i \in n + 1 .. m : s[i] \in S
    BY <1>1
  <2>2. /\ r \in Seq(S) /\ Len(r) = IF n + 1 <= m THEN m - (n + 1) + 1 ELSE 0
        /\ \A i \in 1 .. m - (n + 1) + 1 : r[i] = s[n + 1 + i - 1]
    BY <1>1, <2>1, SubSeqProperties
  <2> HIDE DEF r, m
  <2>3. Len(r) = m - n
    BY <1>1, <2>2
  <2>4. \A i \in 1 .. m - n : r[i] = s[n + i]
    BY <1>1, <2>2
  <2> QED
    BY <2>2, <2>3, <2>4
<1> HIDE DEF p, r, m
<1>4. DOMAIN p = 1 .. n /\ DOMAIN r = 1 .. m - n
  BY <1>1, <1>2, <1>3, LenProperties
<1>5. ToSet(p) = {s[i] : i \in 1 .. n}
  BY <1>2, <1>4 DEF ToSet
<1>6. ToSet(r) = {s[i] : i \in n + 1 .. m}
  <2>1. ASSUME NEW x \in ToSet(r) PROVE x \in {s[i] : i \in n + 1 .. m}
    <3>1. PICK i \in 1 .. m - n : x = s[n + i]
      BY <1>3, <1>4 DEF ToSet
    <3>2. n + i \in n + 1 .. m
      BY <1>1
    <3> QED
      BY <3>1, <3>2
  <2>2. ASSUME NEW i \in n + 1 .. m PROVE s[i] \in ToSet(r)
    <3>1. i - n \in 1 .. m - n /\ n + (i - n) = i
      BY <1>1
    <3>2. r[i - n] = s[i]
      BY <1>3, <3>1
    <3> QED
      BY <1>4, <3>1, <3>2 DEF ToSet
  <2> QED
    BY <2>1, <2>2
<1>7. 1 .. m = (1 .. n) \cup (n + 1 .. m) /\ (1 .. n) \cap (n + 1 .. m) = {}
  BY <1>1
<1>8. ToSet(p) \cup ToSet(r) = ToSet(s)
  BY <1>1, <1>5, <1>6, <1>7 DEF ToSet
<1>9. ToSet(p) \cap ToSet(r) = {}
  BY <1>1, <1>5, <1>6, <1>7 DEF IsInjective
<1>10. IsInjective(p)
  <2> SUFFICES ASSUME NEW i \in 1 .. n, NEW j \in 1 .. n, p[i] = p[j] PROVE i = j
    BY <1>4 DEF IsInjective
  <2> QED
    BY <1>1, <1>2, <1>7 DEF IsInjective
<1> QED
  BY <1>2, <1>5, <1>6, <1>8, <1>9, <1>10 DEF p, r, m

-----------------------------------------------------------------------------
(* One arena. *)

Blk == [size : Nat, used : Nat]
UsedAt(b) == [i \in BlockId |-> b[i].used]
SizeAtBlock(b) == [i \in BlockId |-> b[i].size]
Blocks(ar) == ToSet(ar.chain) \cup ar.lost
Arena == [chain : Seq(BlockId), cur : Nat, total_used : Int, total_allocated : Int,
          lost : SUBSET BlockId]

\* The chain has no block twice; behind the current block nothing is used; the
\* totals are those of the chain, and of the chain and the lost blocks.
ChainSound(ch, k, b) ==
  /\ ch \in Seq(BlockId) /\ IsInjective(ch) /\ k \in 1 .. Len(ch)
  /\ \A i \in k + 1 .. Len(ch) : b[ch[i]].used = 0
ArenaSound(ar, b) ==
  /\ ar \in Arena /\ ChainSound(ar.chain, ar.cur, b) /\ ToSet(ar.chain) \cap ar.lost = {}
  /\ ar.total_used = SumFunctionOnSet(UsedAt(b), ToSet(ar.chain))
  /\ ar.total_allocated = SumFunctionOnSet(SizeAtBlock(b), Blocks(ar))

LEMMA BlockAt ==
  ASSUME NEW b \in [BlockId -> Blk], NEW i \in BlockId
  PROVE  /\ UsedAt(b)[i] = b[i].used /\ UsedAt(b)[i] \in Int
         /\ SizeAtBlock(b)[i] = b[i].size /\ SizeAtBlock(b)[i] \in Int
         /\ b[i].used \in Nat /\ b[i].size \in Nat
<1>1. b[i] \in Blk
  OBVIOUS
<1> QED
  BY <1>1 DEF Blk, UsedAt, SizeAtBlock

LEMMA BlocksFinite ==
  ASSUME NEW S \in SUBSET BlockId
  PROVE  IsFiniteSet(S)
BY FS_Subset, MemoryAssumption

LEMMA SumsAre ==
  ASSUME NEW b \in [BlockId -> Blk], NEW S \in SUBSET BlockId
  PROVE  SumFunctionOnSet(UsedAt(b), S) \in Int /\ SumFunctionOnSet(SizeAtBlock(b), S) \in Int
<1>1. IsFiniteSet(S)
  BY BlocksFinite
<1>2. /\ \A i \in S : UsedAt(b)[i] \in Int
      /\ \A i \in S : SizeAtBlock(b)[i] \in Int
  BY BlockAt
<1>3. SumFunctionOnSet(UsedAt(b), S) \in Int
  BY <1>1, <1>2, SumIsInt
<1>4. SumFunctionOnSet(SizeAtBlock(b), S) \in Int
  BY <1>1, <1>2, SumIsInt
<1> QED
  BY <1>3, <1>4

\* Blocks that did not change have the sums they had.
LEMMA SumsKept ==
  ASSUME NEW b \in [BlockId -> Blk], NEW c \in [BlockId -> Blk], NEW S \in SUBSET BlockId
  PROVE  /\ (\A i \in S : c[i].used = b[i].used)
              => SumFunctionOnSet(UsedAt(c), S) = SumFunctionOnSet(UsedAt(b), S)
         /\ (\A i \in S : c[i].size = b[i].size)
              => SumFunctionOnSet(SizeAtBlock(c), S) = SumFunctionOnSet(SizeAtBlock(b), S)
<1>1. IsFiniteSet(S)
  BY BlocksFinite
<1>2. ASSUME \A i \in S : c[i].used = b[i].used
      PROVE  SumFunctionOnSet(UsedAt(c), S) = SumFunctionOnSet(UsedAt(b), S)
  <2>1. \A i \in S : UsedAt(c)[i] = UsedAt(b)[i]
    BY <1>2, BlockAt
  <2> QED
    BY <1>1, <2>1, SumOfSame
<1>3. ASSUME \A i \in S : c[i].size = b[i].size
      PROVE  SumFunctionOnSet(SizeAtBlock(c), S) = SumFunctionOnSet(SizeAtBlock(b), S)
  <2>1. \A i \in S : SizeAtBlock(c)[i] = SizeAtBlock(b)[i]
    BY <1>3, BlockAt
  <2> QED
    BY <1>1, <2>1, SumOfSame
<1> QED
  BY <1>2, <1>3

LEMMA ChainIs ==
  ASSUME NEW ch, NEW k, NEW b, ChainSound(ch, k, b)
  PROVE  /\ Len(ch) \in Nat /\ k \in Nat /\ k <= Len(ch) /\ k > 0 /\ DOMAIN ch = 1 .. Len(ch)
         /\ ch[k] \in ToSet(ch) /\ ch[1] \in ToSet(ch) /\ ToSet(ch) \subseteq BlockId
         /\ ToSet(ch) = {ch[i] : i \in 1 .. Len(ch)}
<1>1. Len(ch) \in Nat /\ DOMAIN ch = 1 .. Len(ch) /\ \A i \in 1 .. Len(ch) : ch[i] \in BlockId
  BY LenProperties, ElementOfSeq DEF ChainSound
<1>2. k \in 1 .. Len(ch) /\ 1 \in 1 .. Len(ch)
  BY <1>1 DEF ChainSound
<1> QED
  BY <1>1, <1>2 DEF ToSet

\* An arena is as sound as before when other blocks change.
LEMMA ArenaKept ==
  ASSUME NEW ar, NEW b \in [BlockId -> Blk], NEW c \in [BlockId -> Blk], ArenaSound(ar, b),
         \A i \in Blocks(ar) : c[i] = b[i]
  PROVE  ArenaSound(ar, c)
<1> DEFINE ch == ar.chain
           all == Blocks(ar)
<1>1. /\ ar \in Arena /\ ChainSound(ch, ar.cur, b) /\ ToSet(ch) \cap ar.lost = {}
      /\ all \subseteq BlockId /\ ToSet(ch) \subseteq all
      /\ \A i \in 1 .. Len(ch) : ch[i] \in ToSet(ch)
  <2>1. ar \in Arena /\ ChainSound(ch, ar.cur, b) /\ ToSet(ch) \cap ar.lost = {}
    BY DEF ArenaSound
  <2>2. ar.lost \subseteq BlockId
    BY <2>1 DEF Arena
  <2> QED
    BY <2>1, <2>2, ChainIs DEF Blocks
<1>2. SumFunctionOnSet(UsedAt(c), ToSet(ch)) = SumFunctionOnSet(UsedAt(b), ToSet(ch))
  <2>1. ToSet(ch) \subseteq BlockId /\ \A i \in ToSet(ch) : c[i].used = b[i].used
    BY <1>1
  <2> QED
    BY <2>1, SumsKept
<1>3. SumFunctionOnSet(SizeAtBlock(c), all) = SumFunctionOnSet(SizeAtBlock(b), all)
  <2>1. \A i \in all : c[i].size = b[i].size
    OBVIOUS
  <2> QED
    BY <1>1, <2>1, SumsKept
<1>4. ChainSound(ch, ar.cur, c)
  <2>1. ASSUME NEW i \in ar.cur + 1 .. Len(ch) PROVE c[ch[i]].used = 0
    <3>1. i \in 1 .. Len(ch)
      BY <1>1, ChainIs
    <3>2. c[ch[i]] = b[ch[i]]
      BY <1>1, <3>1
    <3> QED
      BY <1>1, <3>2 DEF ChainSound
  <2> QED
    BY <1>1, <2>1 DEF ChainSound
<1> QED
  BY <1>1, <1>2, <1>3, <1>4 DEF ArenaSound

\* A request that fits the current block.
LEMMA AllocHere ==
  ASSUME NEW ar, NEW b \in [BlockId -> Blk], ArenaSound(ar, b), NEW n \in Nat,
         NEW x, x = ar.chain[ar.cur]
  PROVE  /\ [b EXCEPT ![x].used = @ + n] \in [BlockId -> Blk]
         /\ ArenaSound([ar EXCEPT !.total_used = @ + n], [b EXCEPT ![x].used = @ + n])
<1> DEFINE y == [b[x] EXCEPT !.used = b[x].used + n]
           c == [b EXCEPT ![x] = y]
           ch == ar.chain
           k == ar.cur
           q == [ar EXCEPT !.total_used = @ + n]
<1>1. ar \in Arena /\ ChainSound(ch, k, b) /\ x \in ToSet(ch) /\ ToSet(ch) \subseteq BlockId
  BY ChainIs DEF ArenaSound
<1>2. y \in Blk /\ y.used = b[x].used + n /\ y.size = b[x].size
  <2>1. b[x] \in Blk
    BY <1>1
  <2> QED
    BY <2>1 DEF Blk
<1> HIDE DEF y
<1>3. c \in [BlockId -> Blk] /\ c[x] = y /\ \A i \in BlockId : i # x => c[i] = b[i]
  BY <1>1, <1>2
<1> HIDE DEF c
<1>4. /\ q \in Arena /\ q.chain = ch /\ q.cur = k /\ q.lost = ar.lost
      /\ q.total_used = ar.total_used + n /\ q.total_allocated = ar.total_allocated
  BY <1>1 DEF Arena
<1> HIDE DEF q
<1>5. ChainSound(ch, k, c)
  <2>1. ASSUME NEW i \in k + 1 .. Len(ch) PROVE c[ch[i]].used = 0
    <3>1. i \in 1 .. Len(ch) /\ i # k /\ k \in 1 .. Len(ch)
      BY <1>1, ChainIs
    <3>2. ch[i] # x /\ ch[i] \in BlockId
      BY <1>1, <3>1, ChainIs, ElementOfSeq DEF ChainSound, IsInjective
    <3> QED
      BY <1>1, <1>3, <3>2 DEF ChainSound
  <2> QED
    BY <1>1, <2>1 DEF ChainSound
<1>6. SumFunctionOnSet(UsedAt(c), ToSet(ch)) = SumFunctionOnSet(UsedAt(b), ToSet(ch)) + n
  <2> DEFINE f == UsedAt(b)
             g == UsedAt(c)
  <2>1. /\ IsFiniteSet(ToSet(ch)) /\ SumFunctionOnSet(f, ToSet(ch)) \in Int
        /\ \A i \in ToSet(ch) : f[i] \in Int /\ g[i] \in Int
        /\ \A i \in ToSet(ch) : i # x => f[i] = g[i]
        /\ f[x] \in Int /\ g[x] = f[x] + n
    <3>1. IsFiniteSet(ToSet(ch)) /\ SumFunctionOnSet(f, ToSet(ch)) \in Int
      BY <1>1, SumsAre, BlocksFinite
    <3>2. \A i \in BlockId : f[i] = b[i].used /\ f[i] \in Int /\ g[i] = c[i].used /\ g[i] \in Int
      BY <1>3, BlockAt
    <3> HIDE DEF f, g
    <3> QED
      BY <1>1, <1>2, <1>3, <3>1, <3>2
  <2> HIDE DEF f, g
  <2>2. SumFunctionOnSet(g, ToSet(ch)) = SumFunctionOnSet(f, ToSet(ch)) - f[x] + g[x]
    BY <1>1, <2>1, SumChanges
  <2>3. SumFunctionOnSet(g, ToSet(ch)) = SumFunctionOnSet(f, ToSet(ch)) + n
    BY <2>1, <2>2
  <2> QED
    BY <2>3 DEF f, g
<1>7. SumFunctionOnSet(SizeAtBlock(c), Blocks(ar)) = SumFunctionOnSet(SizeAtBlock(b), Blocks(ar))
  <2>0. Blocks(ar) \subseteq BlockId
    BY <1>1 DEF Blocks, Arena
  <2>1. \A i \in Blocks(ar) : c[i].size = b[i].size
    BY <1>2, <1>3, <2>0
  <2> QED
    BY <1>3, <2>0, <2>1, SumsKept
<1>8. Blocks(q) = Blocks(ar)
  BY <1>4 DEF Blocks
<1>9. ArenaSound(q, c)
  BY <1>4, <1>5, <1>6, <1>7, <1>8 DEF ArenaSound
<1> QED
  BY <1>3, <1>9 DEF q, c, y

\* A request that takes a new block: it follows the current one, and what
\* followed that is lost with nothing used in it.
TakesBlock(ar, b, n, size, x, p, r, c, q) ==
  /\ p = SubSeq(ar.chain, 1, ar.cur) /\ r = SubSeq(ar.chain, ar.cur + 1, Len(ar.chain))
  /\ c = [b EXCEPT ![x] = [size |-> size, used |-> n]]
  /\ q = [chain |-> Append(p, x), cur |-> ar.cur + 1, total_used |-> ar.total_used + n,
          total_allocated |-> ar.total_allocated + size, lost |-> ar.lost \cup ToSet(r)]
TookBlock(ar, b, x, p, r, c, q) ==
  /\ c \in [BlockId -> Blk] /\ ArenaSound(q, c) /\ Blocks(q) = Blocks(ar) \cup {x}
  /\ ToSet(q.chain) = ToSet(p) \cup {x} /\ ToSet(ar.chain) = ToSet(p) \cup ToSet(r)
  /\ \A i \in ToSet(r) : b[i].used = 0
  /\ \A i \in 1 .. ar.cur : Append(p, x)[i] = ar.chain[i]
LEMMA AllocNew ==
  ASSUME NEW ar, NEW b \in [BlockId -> Blk], ArenaSound(ar, b), NEW n \in Nat, NEW size \in Nat,
         NEW x \in BlockId, x \notin Blocks(ar), NEW p, NEW r, NEW c, NEW q,
         TakesBlock(ar, b, n, size, x, p, r, c, q)
  PROVE  TookBlock(ar, b, x, p, r, c, q)
<1> DEFINE ch == ar.chain
           k == ar.cur
           nch == Append(p, x)
<1>1. /\ ar \in Arena /\ ChainSound(ch, k, b) /\ ToSet(ch) \cap ar.lost = {}
      /\ ToSet(ch) \subseteq BlockId /\ ar.lost \subseteq BlockId /\ Blocks(ar) = ToSet(ch) \cup ar.lost
      /\ ar.total_used = SumFunctionOnSet(UsedAt(b), ToSet(ch))
      /\ ar.total_allocated = SumFunctionOnSet(SizeAtBlock(b), Blocks(ar))
  <2>1. /\ ar \in Arena /\ ChainSound(ch, k, b) /\ ToSet(ch) \cap ar.lost = {}
        /\ ar.total_used = SumFunctionOnSet(UsedAt(b), ToSet(ch))
        /\ ar.total_allocated = SumFunctionOnSet(SizeAtBlock(b), Blocks(ar))
    BY DEF ArenaSound
  <2>2. ar.lost \subseteq BlockId
    BY <2>1 DEF Arena
  <2>3. ToSet(ch) \subseteq BlockId
    BY <2>1, ChainIs
  <2> QED
    BY <2>1, <2>2, <2>3 DEF Blocks
<1>2. /\ ch \in Seq(BlockId) /\ IsInjective(ch) /\ k \in Nat /\ k > 0 /\ Len(ch) \in Nat /\ k <= Len(ch)
      /\ k \in 0 .. Len(ch)
  <2>1. ch \in Seq(BlockId) /\ IsInjective(ch)
    BY <1>1 DEF ChainSound
  <2>2. k \in Nat /\ k > 0 /\ Len(ch) \in Nat /\ k <= Len(ch)
    BY <1>1, ChainIs
  <2> QED
    BY <2>1, <2>2
<1>3. /\ p \in Seq(BlockId) /\ Len(p) = k /\ (\A i \in 1 .. k : p[i] = ch[i]) /\ IsInjective(p)
      /\ ToSet(r) = {ch[i] : i \in k + 1 .. Len(ch)}
      /\ ToSet(p) \cup ToSet(r) = ToSet(ch) /\ ToSet(p) \cap ToSet(r) = {}
  <2>1. p = SubSeq(ch, 1, k) /\ r = SubSeq(ch, k + 1, Len(ch))
    BY DEF TakesBlock
  <2> HIDE DEF ch, k
  <2>2. LET u == SubSeq(ch, 1, k)
            v == SubSeq(ch, k + 1, Len(ch))
        IN  /\ u \in Seq(BlockId) /\ Len(u) = k /\ (\A i \in 1 .. k : u[i] = ch[i]) /\ IsInjective(u)
            /\ ToSet(u) = {ch[i] : i \in 1 .. k} /\ ToSet(v) = {ch[i] : i \in k + 1 .. Len(ch)}
            /\ ToSet(u) \cup ToSet(v) = ToSet(ch) /\ ToSet(u) \cap ToSet(v) = {}
    BY <1>2, CutElements
  <2> QED
    BY <2>1, <2>2
<1>4. c \in [BlockId -> Blk] /\ c[x].used = n /\ c[x].size = size
      /\ \A i \in BlockId : i # x => c[i] = b[i]
  <2> DEFINE y == [size |-> size, used |-> n]
  <2>1. y \in Blk /\ y.used = n /\ y.size = size
    BY DEF Blk
  <2> HIDE DEF y
  <2>2. c = [b EXCEPT ![x] = y]
    BY DEF TakesBlock, y
  <2> QED
    BY <2>1, <2>2
<1>5. /\ nch \in Seq(BlockId) /\ Len(nch) = k + 1 /\ ToSet(nch) = ToSet(p) \cup {x} /\ IsInjective(nch)
  <2>1. x \notin ToSet(p)
    BY <1>1, <1>3
  <2> QED
    BY <1>3, <2>1, AppendElements
<1>6. \A i \in 1 .. k : nch[i] = ch[i]
  <2>1. \A i \in 1 .. Len(p) : nch[i] = p[i]
    BY <1>3, AppendProperties
  <2> QED
    BY <1>3, <2>1
<1>7. \A i \in ToSet(r) : b[i].used = 0
  BY <1>1, <1>3 DEF ChainSound
<1> HIDE DEF nch
<1>8. /\ q \in Arena /\ q.chain = nch /\ q.cur = k + 1 /\ q.lost = ar.lost \cup ToSet(r)
      /\ q.total_used = ar.total_used + n /\ q.total_allocated = ar.total_allocated + size
  <2>1. /\ ar.total_used \in Int /\ ar.total_allocated \in Int
        /\ ar.lost \cup ToSet(r) \subseteq BlockId /\ k + 1 \in Nat
    BY <1>1, <1>2, <1>3 DEF Arena
  <2> DEFINE u == ar.total_used + n
             t == ar.total_allocated + size
             l == ar.lost \cup ToSet(r)
             k1 == k + 1
  <2>2. u \in Int /\ t \in Int
    BY <2>1
  <2>3. q = [chain |-> nch, cur |-> k1, total_used |-> u, total_allocated |-> t, lost |-> l]
    BY DEF TakesBlock, nch
  <2> HIDE DEF u, t, l, k1
  <2>4. /\ q \in Arena /\ q.chain = nch /\ q.cur = k1 /\ q.lost = l
        /\ q.total_used = u /\ q.total_allocated = t
    BY <1>5, <2>1, <2>2, <2>3 DEF Arena, l, k1
  <2> QED
    BY <2>4 DEF u, t, l, k1
<1>9. Blocks(q) = Blocks(ar) \cup {x}
  BY <1>1, <1>3, <1>5, <1>8 DEF Blocks
<1>10. ChainSound(q.chain, q.cur, c)
  <2>1. k + 1 \in 1 .. k + 1 /\ (k + 1) + 1 .. k + 1 = {}
    BY <1>2
  <2> QED
    BY <1>5, <1>8, <2>1 DEF ChainSound
<1>11. ToSet(q.chain) \cap q.lost = {}
  BY <1>1, <1>3, <1>5, <1>8
<1>12. q.total_used = SumFunctionOnSet(UsedAt(c), ToSet(q.chain))
  <2> DEFINE f == UsedAt(b)
             g == UsedAt(c)
             P == ToSet(p)
             R == ToSet(r)
  <2>1. /\ IsFiniteSet(P) /\ IsFiniteSet(R) /\ P \subseteq BlockId /\ R \subseteq BlockId
        /\ P \cap R = {} /\ P \cup R = ToSet(ch) /\ x \notin P
        /\ \A i \in BlockId : f[i] \in Int /\ g[i] \in Int /\ (i # x => g[i] = f[i])
        /\ \A i \in R : f[i] = 0
        /\ g[x] = n
    <3>1. P \subseteq BlockId /\ R \subseteq BlockId
      BY <1>1, <1>3
    <3>2. IsFiniteSet(P) /\ IsFiniteSet(R)
      BY <3>1, BlocksFinite
    <3>3. \A i \in BlockId : f[i] = b[i].used /\ f[i] \in Int /\ g[i] = c[i].used /\ g[i] \in Int
      BY <1>4, BlockAt
    <3>4. P \cap R = {} /\ P \cup R = ToSet(ch) /\ x \notin P /\ \A i \in R : b[i].used = 0
      BY <1>1, <1>3, <1>7
    <3> HIDE DEF f, g, P, R
    <3>5. \A i \in BlockId : i # x => g[i] = f[i]
      BY <1>4, <3>3
    <3>6. (\A i \in R : f[i] = 0) /\ g[x] = n
      BY <1>4, <3>1, <3>3, <3>4
    <3> QED
      BY <3>1, <3>2, <3>3, <3>4, <3>5, <3>6
  <2> HIDE DEF f, g, P, R
  <2>2. SumFunctionOnSet(f, R) = 0
    BY <2>1, SumIsZero
  <2>3. SumFunctionOnSet(f, P \cup R) = SumFunctionOnSet(f, P) + SumFunctionOnSet(f, R)
    BY <2>1, SumJoins
  <2>4. SumFunctionOnSet(g, P \cup {x}) = g[x] + SumFunctionOnSet(g, P)
    <3>1. \A i \in P : g[i] \in Int
      BY <2>1
    <3> QED
      BY <2>1, <3>1, SumTakesIn
  <2>5. SumFunctionOnSet(g, P) = SumFunctionOnSet(f, P)
    <3>1. \A i \in P : g[i] = f[i]
      BY <2>1
    <3> QED
      BY <2>1, <3>1, SumOfSame
  <2>6. SumFunctionOnSet(f, P) \in Int
    <3>1. \A i \in P : f[i] \in Int
      BY <2>1
    <3> QED
      BY <2>1, <3>1, SumIsInt
  <2>7. SumFunctionOnSet(g, P \cup {x}) = SumFunctionOnSet(f, P \cup R) + n
    BY <2>1, <2>2, <2>3, <2>4, <2>5, <2>6
  <2>8. ToSet(q.chain) = P \cup {x} /\ ar.total_used = SumFunctionOnSet(f, P \cup R)
    BY <1>1, <1>5, <1>8, <2>1 DEF f, P
  <2> QED
    BY <1>8, <2>7, <2>8 DEF g
<1>13. q.total_allocated = SumFunctionOnSet(SizeAtBlock(c), Blocks(q))
  <2> DEFINE f == SizeAtBlock(b)
             g == SizeAtBlock(c)
             A == Blocks(ar)
  <2>1. /\ IsFiniteSet(A) /\ A \subseteq BlockId /\ x \notin A
        /\ \A i \in A : g[i] \in Int /\ g[i] = f[i]
        /\ g[x] = size
    <3>1. A \subseteq BlockId
      BY <1>1
    <3>2. IsFiniteSet(A)
      BY <3>1, BlocksFinite
    <3>3. \A i \in BlockId : f[i] = b[i].size /\ f[i] \in Int /\ g[i] = c[i].size /\ g[i] \in Int
      BY <1>4, BlockAt
    <3> HIDE DEF f, g
    <3> QED
      BY <1>4, <3>1, <3>2, <3>3
  <2> HIDE DEF f, g, A
  <2>2. SumFunctionOnSet(g, A \cup {x}) = g[x] + SumFunctionOnSet(g, A)
    BY <2>1, SumTakesIn
  <2>3. SumFunctionOnSet(g, A) = SumFunctionOnSet(f, A)
    BY <2>1, SumOfSame
  <2>4. SumFunctionOnSet(g, A) \in Int
    BY <2>1, SumIsInt
  <2>5. SumFunctionOnSet(g, A \cup {x}) = SumFunctionOnSet(f, A) + size
    BY <2>1, <2>2, <2>3, <2>4
  <2>6. ar.total_allocated = SumFunctionOnSet(f, A) /\ Blocks(q) = A \cup {x}
    BY <1>1, <1>9 DEF A, f
  <2> QED
    BY <1>8, <2>5, <2>6 DEF g
<1>14. ArenaSound(q, c)
  BY <1>8, <1>10, <1>11, <1>12, <1>13 DEF ArenaSound
<1> QED
  BY <1>3, <1>4, <1>5, <1>6, <1>7, <1>8, <1>9, <1>14 DEF nch, TookBlock

\* What the memory of an arena comes to without some of its blocks.
LEMMA SizesWithout ==
  ASSUME NEW b \in [BlockId -> Blk], NEW A \in SUBSET BlockId, NEW B \in SUBSET A
  PROVE  SumFunctionOnSet(SizeAtBlock(b), A \ B)
           = SumFunctionOnSet(SizeAtBlock(b), A) - SumFunctionOnSet(SizeAtBlock(b), B)
<1> DEFINE f == SizeAtBlock(b)
           D == A \ B
<1>1. IsFiniteSet(D) /\ IsFiniteSet(B) /\ D \cap B = {} /\ D \cup B = A /\ \A x \in D \cup B : f[x] \in Int
  <2>1. IsFiniteSet(D) /\ IsFiniteSet(B)
    BY BlocksFinite
  <2>2. \A i \in BlockId : f[i] \in Int
    BY BlockAt
  <2> HIDE DEF f
  <2> QED
    BY <2>1, <2>2
<1>2. SumFunctionOnSet(f, D) \in Int /\ SumFunctionOnSet(f, B) \in Int
  BY SumsAre
<1> HIDE DEF f, D
<1>3. SumFunctionOnSet(f, D \cup B) = SumFunctionOnSet(f, D) + SumFunctionOnSet(f, B)
  BY <1>1, SumJoins
<1>4. SumFunctionOnSet(f, D) = SumFunctionOnSet(f, A) - SumFunctionOnSet(f, B)
  <2>1. SumFunctionOnSet(f, A) = SumFunctionOnSet(f, D) + SumFunctionOnSet(f, B)
    BY <1>1, <1>3
  <2> QED
    BY <1>2, <2>1
<1> QED
  BY <1>4 DEF f, D

Emptied(ar, b) ==
  [i \in BlockId |-> IF i \in ToSet(ar.chain) THEN [b[i] EXCEPT !.used = 0] ELSE b[i]]

\* A reset empties the blocks of the chain and keeps them.
LEMMA ArenaReset ==
  ASSUME NEW ar, NEW b \in [BlockId -> Blk], ArenaSound(ar, b),
         NEW q, q = [ar EXCEPT !.cur = 1, !.total_used = 0]
  PROVE  /\ Emptied(ar, b) \in [BlockId -> Blk] /\ ArenaSound(q, Emptied(ar, b))
         /\ Blocks(q) = Blocks(ar)
         /\ \A i \in BlockId : i \notin ToSet(ar.chain) => Emptied(ar, b)[i] = b[i]
<1> DEFINE ch == ar.chain
           c == Emptied(ar, b)
<1>1. /\ ar \in Arena /\ ChainSound(ch, ar.cur, b) /\ ToSet(ch) \cap ar.lost = {}
      /\ ar.total_allocated = SumFunctionOnSet(SizeAtBlock(b), Blocks(ar))
      /\ ToSet(ch) \subseteq BlockId /\ Blocks(ar) \subseteq BlockId
  <2>1. /\ ar \in Arena /\ ChainSound(ch, ar.cur, b) /\ ToSet(ch) \cap ar.lost = {}
        /\ ar.total_allocated = SumFunctionOnSet(SizeAtBlock(b), Blocks(ar))
    BY DEF ArenaSound
  <2>2. ar.lost \subseteq BlockId
    BY <2>1 DEF Arena
  <2>3. ToSet(ch) \subseteq BlockId
    BY <2>1, ChainIs
  <2> QED
    BY <2>1, <2>2, <2>3 DEF Blocks
<1>2. \A i \in BlockId : /\ c[i] \in Blk /\ c[i].size = b[i].size
                         /\ c[i] = IF i \in ToSet(ch) THEN [b[i] EXCEPT !.used = 0] ELSE b[i]
                         /\ (i \in ToSet(ch) => c[i].used = 0)
  <2> SUFFICES ASSUME NEW i \in BlockId
               PROVE  /\ c[i] \in Blk /\ c[i].size = b[i].size
                      /\ c[i] = IF i \in ToSet(ch) THEN [b[i] EXCEPT !.used = 0] ELSE b[i]
                      /\ (i \in ToSet(ch) => c[i].used = 0)
    OBVIOUS
  <2> DEFINE y == [b[i] EXCEPT !.used = 0]
  <2>1. y \in Blk /\ y.size = b[i].size /\ y.used = 0 /\ b[i] \in Blk
    <3>1. b[i] \in Blk
      OBVIOUS
    <3> QED
      BY <3>1 DEF Blk
  <2>2. c[i] = IF i \in ToSet(ch) THEN y ELSE b[i]
    BY DEF Emptied
  <2> HIDE DEF y, c
  <2>3. c[i] \in Blk /\ c[i].size = b[i].size /\ (i \in ToSet(ch) => c[i].used = 0)
    BY <2>1, <2>2
  <2> QED
    BY <2>2, <2>3 DEF y
<1>3. c \in [BlockId -> Blk]
  <2>1. c = [i \in BlockId |-> c[i]]
    BY DEF Emptied
  <2> HIDE DEF c
  <2> QED
    BY <1>2, <2>1
<1> HIDE DEF c
<1>4. /\ q \in Arena /\ q.chain = ch /\ q.cur = 1 /\ q.lost = ar.lost
      /\ q.total_used = 0 /\ q.total_allocated = ar.total_allocated
  <2> DEFINE z == [chain |-> ar.chain, cur |-> 1, total_used |-> 0,
                   total_allocated |-> ar.total_allocated, lost |-> ar.lost]
  <2>1. ar \in Arena
    BY <1>1
  <2>2. /\ z \in Arena /\ z.chain = ch /\ z.cur = 1 /\ z.lost = ar.lost
        /\ z.total_used = 0 /\ z.total_allocated = ar.total_allocated
    BY <2>1 DEF Arena
  <2>3. q = z
    BY <2>1 DEF Arena
  <2> HIDE DEF z
  <2> QED
    BY <2>2, <2>3
<1>5. ChainSound(ch, 1, c)
  <2>1. ch \in Seq(BlockId) /\ IsInjective(ch) /\ 1 \in 1 .. Len(ch)
    <3>1. ch \in Seq(BlockId) /\ IsInjective(ch)
      BY <1>1 DEF ChainSound
    <3>2. Len(ch) \in Nat /\ ar.cur <= Len(ch) /\ ar.cur > 0 /\ ar.cur \in Nat
      BY <1>1, ChainIs
    <3> QED
      BY <3>1, <3>2
  <2>2. ASSUME NEW i \in 1 + 1 .. Len(ch) PROVE c[ch[i]].used = 0
    <3>1. i \in 1 .. Len(ch) /\ DOMAIN ch = 1 .. Len(ch)
      BY <1>1, ChainIs
    <3>2. ch[i] \in ToSet(ch)
      BY <3>1 DEF ToSet
    <3> QED
      BY <1>1, <1>2, <3>2
  <2> QED
    BY <2>1, <2>2 DEF ChainSound
<1>6. SumFunctionOnSet(UsedAt(c), ToSet(ch)) = 0
  <2>1. \A i \in ToSet(ch) : UsedAt(c)[i] = 0
    <3>1. \A i \in BlockId : UsedAt(c)[i] = c[i].used
      BY <1>3, BlockAt
    <3> QED
      BY <1>1, <1>2, <3>1
  <2>2. IsFiniteSet(ToSet(ch))
    BY <1>1, BlocksFinite
  <2> QED
    BY <2>1, <2>2, SumIsZero
<1>7. SumFunctionOnSet(SizeAtBlock(c), Blocks(ar)) = SumFunctionOnSet(SizeAtBlock(b), Blocks(ar))
  <2>1. \A i \in Blocks(ar) : c[i].size = b[i].size
    BY <1>1, <1>2
  <2> QED
    BY <1>1, <1>3, <2>1, SumsKept
<1>8. Blocks(q) = Blocks(ar)
  BY <1>4 DEF Blocks
<1>9. ArenaSound(q, c)
  <2>1. q.total_used = SumFunctionOnSet(UsedAt(c), ToSet(q.chain))
    BY <1>4, <1>6
  <2>2. q.total_allocated = SumFunctionOnSet(SizeAtBlock(c), Blocks(q))
    BY <1>1, <1>4, <1>7, <1>8
  <2> QED
    BY <1>1, <1>4, <1>5, <2>1, <2>2 DEF ArenaSound
<1>10. \A i \in BlockId : i \notin ToSet(ch) => c[i] = b[i]
  BY <1>2
<1> QED
  BY <1>3, <1>8, <1>9, <1>10 DEF c

Changed(ar, ch, k, u, t) ==
  [ar EXCEPT !.chain = ch, !.cur = k, !.total_used = u, !.total_allocated = t]
ArenaOf(ch, k, u, t, l) ==
  [chain |-> ch, cur |-> k, total_used |-> u, total_allocated |-> t, lost |-> l]
LEMMA ArenaFields ==
  ASSUME NEW ar \in Arena, NEW ch, NEW k, NEW u, NEW t
  PROVE  Changed(ar, ch, k, u, t) = ArenaOf(ch, k, u, t, ar.lost)
<1>1. ar = [chain |-> ar.chain, cur |-> ar.cur, total_used |-> ar.total_used,
            total_allocated |-> ar.total_allocated, lost |-> ar.lost]
  BY DEF Arena
<1> DEFINE a1 == [chain |-> ch, cur |-> ar.cur, total_used |-> ar.total_used,
                  total_allocated |-> ar.total_allocated, lost |-> ar.lost]
           a2 == [chain |-> ch, cur |-> k, total_used |-> ar.total_used,
                  total_allocated |-> ar.total_allocated, lost |-> ar.lost]
           a3 == [chain |-> ch, cur |-> k, total_used |-> u,
                  total_allocated |-> ar.total_allocated, lost |-> ar.lost]
<1>2. [ar EXCEPT !.chain = ch] = a1
  BY <1>1
<1>3. [a1 EXCEPT !.cur = k] = a2
  OBVIOUS
<1>4. [a2 EXCEPT !.total_used = u] = a3
  OBVIOUS
<1>5. [a3 EXCEPT !.total_allocated = t]
      = [chain |-> ch, cur |-> k, total_used |-> u, total_allocated |-> t, lost |-> ar.lost]
  OBVIOUS
<1>6. Changed(ar, ch, k, u, t) = [[[[ar EXCEPT !.chain = ch] EXCEPT !.cur = k]
                                    EXCEPT !.total_used = u] EXCEPT !.total_allocated = t]
  BY DEF Changed
<1> HIDE DEF a1, a2, a3
<1> QED
  BY <1>2, <1>3, <1>4, <1>5, <1>6 DEF ArenaOf

\* The chain is cut after its block at i, which keeps m of what was used in it;
\* the rest is given back.
Cut(ar, b, i, m, p, c, q) ==
  /\ p = SubSeq(ar.chain, 1, i)
  /\ c = [b EXCEPT ![ar.chain[i]].used = m]
  /\ q = [chain |-> p, cur |-> i, total_used |-> SumFunctionOnSet(UsedAt(c), ToSet(p)),
          total_allocated |-> ar.total_allocated
                                - SumFunctionOnSet(SizeAtBlock(b), ToSet(ar.chain) \ ToSet(p)),
          lost |-> ar.lost]
IsCut(ar, b, i, p, c, q, m) ==
  /\ c \in [BlockId -> Blk] /\ ArenaSound(q, c) /\ Blocks(q) \subseteq Blocks(ar)
  /\ ar.chain[i] \in BlockId /\ ar.chain[i] \in ToSet(p) /\ ToSet(p) \subseteq ToSet(ar.chain)
  /\ c[ar.chain[i]].used = m /\ \A j \in BlockId : j # ar.chain[i] => c[j] = b[j]
LEMMA ArenaCut ==
  ASSUME NEW ar, NEW b \in [BlockId -> Blk], ArenaSound(ar, b), NEW i \in 1 .. Len(ar.chain),
         NEW m \in Nat, NEW p, NEW c, NEW q, Cut(ar, b, i, m, p, c, q)
  PROVE  IsCut(ar, b, i, p, c, q, m)
<1> DEFINE ch == ar.chain
           x == ch[i]
<1>1. /\ ar \in Arena /\ ChainSound(ch, ar.cur, b) /\ ToSet(ch) \cap ar.lost = {}
      /\ ar.total_allocated = SumFunctionOnSet(SizeAtBlock(b), Blocks(ar))
      /\ ToSet(ch) \subseteq BlockId /\ ar.lost \subseteq BlockId
      /\ Blocks(ar) = ToSet(ch) \cup ar.lost
  <2>1. /\ ar \in Arena /\ ChainSound(ch, ar.cur, b) /\ ToSet(ch) \cap ar.lost = {}
        /\ ar.total_allocated = SumFunctionOnSet(SizeAtBlock(b), Blocks(ar))
    BY DEF ArenaSound
  <2>2. ar.lost \subseteq BlockId
    BY <2>1 DEF Arena
  <2>3. ToSet(ch) \subseteq BlockId
    BY <2>1, ChainIs
  <2> QED
    BY <2>1, <2>2, <2>3 DEF Blocks
<1>2. /\ ch \in Seq(BlockId) /\ IsInjective(ch) /\ Len(ch) \in Nat /\ i \in 0 .. Len(ch)
      /\ i \in Nat /\ i > 0
  <2>1. ch \in Seq(BlockId) /\ IsInjective(ch)
    BY <1>1 DEF ChainSound
  <2>2. Len(ch) \in Nat
    BY <1>1, ChainIs
  <2> QED
    BY <2>1, <2>2
<1>3. /\ p \in Seq(BlockId) /\ Len(p) = i /\ IsInjective(p) /\ x \in ToSet(p) /\ x \in BlockId
      /\ ToSet(p) \subseteq ToSet(ch)
  <2>1. p = SubSeq(ch, 1, i)
    BY DEF Cut
  <2> HIDE DEF ch
  <2>2. LET u == SubSeq(ch, 1, i)
            v == SubSeq(ch, i + 1, Len(ch))
        IN  /\ u \in Seq(BlockId) /\ Len(u) = i /\ (\A j \in 1 .. i : u[j] = ch[j]) /\ IsInjective(u)
            /\ ToSet(u) = {ch[j] : j \in 1 .. i} /\ ToSet(v) = {ch[j] : j \in i + 1 .. Len(ch)}
            /\ ToSet(u) \cup ToSet(v) = ToSet(ch) /\ ToSet(u) \cap ToSet(v) = {}
    BY <1>2, CutElements
  <2>3. i \in 1 .. i
    BY <1>2
  <2>4. /\ p \in Seq(BlockId) /\ Len(p) = i /\ IsInjective(p) /\ x \in ToSet(p)
        /\ ToSet(p) \subseteq ToSet(ch)
    BY <2>1, <2>2, <2>3
  <2> QED
    BY <1>1, <2>4 DEF ch
<1>4. c \in [BlockId -> Blk] /\ c[x].used = m /\ c[x].size = b[x].size
      /\ \A j \in BlockId : j # x => c[j] = b[j]
  <2> DEFINE y == [b[x] EXCEPT !.used = m]
  <2>1. b[x] \in Blk
    BY <1>3
  <2>2. y \in Blk /\ y.used = m /\ y.size = b[x].size
    BY <2>1 DEF Blk
  <2>3. c = [b EXCEPT ![x] = y]
    BY DEF Cut
  <2> HIDE DEF y, x
  <2> QED
    BY <1>3, <2>2, <2>3
<1> HIDE DEF x
<1>5. /\ q \in Arena /\ q.chain = p /\ q.cur = i /\ q.lost = ar.lost
      /\ q.total_used = SumFunctionOnSet(UsedAt(c), ToSet(p))
      /\ q.total_allocated = ar.total_allocated
                               - SumFunctionOnSet(SizeAtBlock(b), ToSet(ch) \ ToSet(p))
  <2> DEFINE u == SumFunctionOnSet(UsedAt(c), ToSet(p))
             v == SumFunctionOnSet(SizeAtBlock(b), ToSet(ch) \ ToSet(p))
             t == ar.total_allocated - v
             l == ar.lost
  <2>1. u \in Int /\ t \in Int
    <3>1. u \in Int
      BY <1>1, <1>3, <1>4, SumsAre
    <3>2. v \in Int
      <4>1. ToSet(ch) \ ToSet(p) \subseteq BlockId
        BY <1>1
      <4> QED
        BY <4>1, SumsAre
    <3>3. ar.total_allocated \in Int
      BY <1>1 DEF Arena
    <3> HIDE DEF v
    <3> QED
      BY <3>1, <3>2, <3>3
  <2>2. q = [chain |-> p, cur |-> i, total_used |-> u, total_allocated |-> t, lost |-> l]
    BY DEF Cut
  <2>3. l \subseteq BlockId
    BY <1>1
  <2> HIDE DEF u, t, l
  <2>4. /\ q \in Arena /\ q.chain = p /\ q.cur = i /\ q.lost = l
        /\ q.total_used = u /\ q.total_allocated = t
    BY <1>2, <1>3, <2>1, <2>2, <2>3 DEF Arena
  <2> QED
    BY <2>4 DEF u, t, l
<1>6. Blocks(q) = Blocks(ar) \ (ToSet(ch) \ ToSet(p)) /\ ToSet(p) \cap ar.lost = {}
      /\ Blocks(q) \subseteq Blocks(ar)
  BY <1>1, <1>3, <1>5 DEF Blocks
<1>7. ChainSound(q.chain, q.cur, c)
  <2>1. i \in 1 .. i /\ i + 1 .. i = {}
    BY <1>2
  <2> QED
    BY <1>3, <1>5, <2>1 DEF ChainSound
<1>8. q.total_allocated = SumFunctionOnSet(SizeAtBlock(c), Blocks(q))
  <2> DEFINE f == SizeAtBlock(b)
             A == Blocks(ar)
             R == ToSet(ch) \ ToSet(p)
  <2>1. A \subseteq BlockId /\ R \subseteq A
    BY <1>1
  <2>2. SumFunctionOnSet(f, A \ R) = SumFunctionOnSet(f, A) - SumFunctionOnSet(f, R)
    <3> HIDE DEF A, R
    <3> QED
      BY <2>1, SizesWithout
  <2>3. SumFunctionOnSet(SizeAtBlock(c), A \ R) = SumFunctionOnSet(f, A \ R)
    <3>1. \A j \in BlockId : c[j].size = b[j].size
      BY <1>4
    <3>2. \A j \in A \ R : c[j].size = b[j].size
      BY <2>1, <3>1
    <3>3. A \ R \subseteq BlockId
      BY <2>1
    <3> HIDE DEF A, R
    <3> QED
      BY <1>4, <3>2, <3>3, SumsKept
  <2>4. Blocks(q) = A \ R
    BY <1>6
  <2> HIDE DEF A, R, f
  <2>5. SumFunctionOnSet(SizeAtBlock(c), Blocks(q)) = SumFunctionOnSet(f, A) - SumFunctionOnSet(f, R)
    BY <2>2, <2>3, <2>4
  <2> QED
    BY <1>1, <1>5, <2>5 DEF A, R, f
<1>9. ArenaSound(q, c)
  BY <1>5, <1>6, <1>7, <1>8 DEF ArenaSound
<1> QED
  BY <1>3, <1>4, <1>6, <1>9 DEF x, IsCut

LEMMA HeadCut ==
  ASSUME NEW ch, NEW k, NEW b, ChainSound(ch, k, b)
  PROVE  /\ 1 \in 1 .. Len(ch) /\ Head(ch) = ch[1] /\ SubSeq(ch, 1, 1) = <<ch[1]>>
         /\ ToSet(Tail(ch)) = ToSet(ch) \ ToSet(<<ch[1]>>)
<1>1. ch \in Seq(BlockId) /\ IsInjective(ch) /\ Len(ch) \in Nat /\ Len(ch) > 0 /\ ch # <<>>
  <2>1. ch \in Seq(BlockId) /\ IsInjective(ch)
    BY DEF ChainSound
  <2>2. Len(ch) \in Nat /\ k <= Len(ch) /\ k > 0 /\ k \in Nat
    BY ChainIs
  <2> QED
    BY <2>1, <2>2, EmptySeq
<1>2. Head(ch) = ch[1] /\ ToSet(Tail(ch)) = ToSet(ch) \ {Head(ch)}
  BY <1>1, HeadTailProperties, TailElements
<1>3. ToSet(<<ch[1]>>) = {ch[1]}
  BY DEF ToSet
<1>4. SubSeq(ch, 1, 1) = <<ch[1]>>
  <2> DEFINE p == SubSeq(ch, 1, 1)
  <2>1. 1 \in 0 .. Len(ch)
    BY <1>1
  <2>2. p \in Seq(BlockId) /\ Len(p) = 1 /\ \A i \in 1 .. 1 : p[i] = ch[i]
    BY <1>1, <2>1, CutElements
  <2> HIDE DEF p
  <2>3. DOMAIN p = 1 .. 1 /\ p = [i \in 1 .. 1 |-> p[i]] /\ p[1] = ch[1]
    BY <2>2, LenProperties
  <2>4. p = <<ch[1]>>
    BY <2>3
  <2> QED
    BY <2>4 DEF p
<1> QED
  BY <1>1, <1>2, <1>3, <1>4

-----------------------------------------------------------------------------
(* Both arenas, and the allocations that live in them. *)

Spaces(as, b) ==
  /\ b \in [BlockId -> Blk] /\ as \in [Arenas -> Arena]
  /\ \A a \in Arenas : ArenaSound(as[a], b)
  /\ \A a, o \in Arenas : a # o => Blocks(as[a]) \cap Blocks(as[o]) = {}

LiveAt(x, as, b) ==
  /\ x.arena \in Arenas /\ x.from \in Nat /\ x.len \in Nat /\ x.len > 0
  /\ x.block \in ToSet(as[x.arena].chain) /\ x.from + x.len <= b[x.block].used
Apart(x, y) == x.from + x.len <= y.from \/ y.from + y.len <= x.from
LiveSound(as, b, lv) ==
  /\ \A x \in lv : LiveAt(x, as, b)
  /\ \A x, y \in lv : x.block = y.block /\ x # y => Apart(x, y)

\* A checkpoint is of a block at or before the current one.
MarkSound(as, mk) ==
  /\ mk.used \in Nat
  /\ mk # NoMark => \E i \in 1 .. as["query"].cur : as["query"].chain[i] = mk.block

\* No other arena has a block of this one, and theirs did not change.
OthersKept(as, a, b, q, c) ==
  \A o \in Arenas : o # a => /\ Blocks(q) \cap Blocks(as[o]) = {}
                             /\ \A i \in Blocks(as[o]) : c[i] = b[i]

LEMMA SpacesChanged ==
  ASSUME NEW as, NEW b, Spaces(as, b), NEW a \in Arenas, NEW q, NEW c \in [BlockId -> Blk],
         ArenaSound(q, c), OthersKept(as, a, b, q, c)
  PROVE  Spaces([as EXCEPT ![a] = q], c)
<1> DEFINE n == [as EXCEPT ![a] = q]
<1>1. b \in [BlockId -> Blk] /\ as \in [Arenas -> Arena] /\ q \in Arena
  BY DEF Spaces, ArenaSound
<1>2. n \in [Arenas -> Arena] /\ n[a] = q /\ \A o \in Arenas : o # a => n[o] = as[o]
  BY <1>1
<1> HIDE DEF n
<1>3. \A o \in Arenas : ArenaSound(n[o], c)
  <2>1. ASSUME NEW o \in Arenas, o # a PROVE ArenaSound(as[o], c)
    <3>1. ArenaSound(as[o], b) /\ \A i \in Blocks(as[o]) : c[i] = b[i]
      BY <2>1 DEF Spaces, OthersKept
    <3> QED
      BY <1>1, <3>1, ArenaKept
  <2> QED
    BY <1>2, <2>1
<1>4. \A o, p \in Arenas : o # p => Blocks(n[o]) \cap Blocks(n[p]) = {}
  <2> SUFFICES ASSUME NEW o \in Arenas, NEW p \in Arenas, o # p
               PROVE  Blocks(n[o]) \cap Blocks(n[p]) = {}
    OBVIOUS
  <2>1. CASE o = a
    BY <1>2, <2>1 DEF OthersKept
  <2>2. CASE p = a
    <3>1. Blocks(q) \cap Blocks(as[o]) = {}
      BY <2>2 DEF OthersKept
    <3> QED
      BY <1>2, <2>2, <3>1
  <2>3. CASE o # a /\ p # a
    BY <1>2, <2>3 DEF Spaces
  <2> QED
    BY <2>1, <2>2, <2>3
<1> QED
  BY <1>2, <1>3, <1>4 DEF Spaces, n

LEMMA LiveKept ==
  ASSUME NEW as, NEW b, NEW lv, LiveSound(as, b, lv), NEW as2, NEW c, NEW lv2 \in SUBSET lv,
         \A x \in lv2 : /\ x.block \in ToSet(as2[x.arena].chain)
                        /\ x.from + x.len <= c[x.block].used
  PROVE  LiveSound(as2, c, lv2)
<1>1. \A x \in lv2 : LiveAt(x, as2, c)
  BY DEF LiveSound, LiveAt
<1>2. \A x, y \in lv2 : x.block = y.block /\ x # y => Apart(x, y)
  BY DEF LiveSound
<1> QED
  BY <1>1, <1>2 DEF LiveSound

LEMMA LiveAdds ==
  ASSUME NEW as, NEW b, NEW lv, LiveSound(as, b, lv), NEW z, LiveAt(z, as, b),
         \A y \in lv : y.block = z.block => y.from + y.len <= z.from
  PROVE  LiveSound(as, b, lv \cup {z})
<1>1. \A x \in lv \cup {z} : LiveAt(x, as, b)
  BY DEF LiveSound
<1>2. ASSUME NEW x \in lv \cup {z}, NEW y \in lv \cup {z}, x.block = y.block, x # y PROVE Apart(x, y)
  <2>1. CASE x \in lv /\ y \in lv
    BY <1>2, <2>1 DEF LiveSound
  <2>2. CASE x = z
    <3>1. y \in lv
      BY <1>2, <2>2
    <3> QED
      BY <1>2, <2>2, <3>1 DEF Apart
  <2>3. CASE y = z
    <3>1. x \in lv
      BY <1>2, <2>3
    <3> QED
      BY <1>2, <2>3, <3>1 DEF Apart
  <2> QED
    BY <2>1, <2>2, <2>3
<1> QED
  BY <1>1, <1>2 DEF LiveSound

\* Where an arena's blocks are: not in the other arena.
LEMMA OwnBlocks ==
  ASSUME NEW as, NEW b, Spaces(as, b), NEW a \in Arenas
  PROVE  /\ b \in [BlockId -> Blk] /\ as \in [Arenas -> Arena] /\ as[a] \in Arena /\ ArenaSound(as[a], b)
         /\ ToSet(as[a].chain) \subseteq Blocks(as[a]) /\ Blocks(as[a]) \subseteq BlockId
         /\ as[a].cur \in 1 .. Len(as[a].chain) /\ as[a].chain[as[a].cur] \in ToSet(as[a].chain)
         /\ \A o \in Arenas : o # a => \A x \in Blocks(as[o]) : x \notin Blocks(as[a])
<1>1. b \in [BlockId -> Blk] /\ as \in [Arenas -> Arena] /\ as[a] \in Arena /\ ArenaSound(as[a], b)
  BY DEF Spaces
<1>2. ChainSound(as[a].chain, as[a].cur, b)
  BY <1>1 DEF ArenaSound
<1>3. as[a].cur \in 1 .. Len(as[a].chain)
  BY <1>2 DEF ChainSound
<1>4. as[a].chain[as[a].cur] \in ToSet(as[a].chain) /\ ToSet(as[a].chain) \subseteq BlockId
  BY <1>2, ChainIs
<1>5. as[a].lost \subseteq BlockId
  BY <1>1 DEF Arena
<1>6. \A o \in Arenas : o # a => Blocks(as[o]) \cap Blocks(as[a]) = {}
  BY DEF Spaces
<1> QED
  BY <1>1, <1>3, <1>4, <1>5, <1>6 DEF Blocks

SpaceInv == Spaces(arena, blk) /\ LiveSound(arena, blk, live) /\ MarkSound(arena, mark)

\* A request, served from the current block or from a new one.
LEMMA ArenaAlloc ==
  ASSUME SpaceInv, NEW a \in Arenas, NEW n \in Nat, n > 0, arena_alloc(a, n)
  PROVE  Spaces(arena', blk') /\ LiveSound(arena', blk', live') /\ MarkSound(arena', mark)
<1> DEFINE ar == arena[a]
           x == ar.chain[ar.cur]
<1>1. /\ Spaces(arena, blk) /\ LiveSound(arena, blk, live) /\ MarkSound(arena, mark)
      /\ blk \in [BlockId -> Blk] /\ arena \in [Arenas -> Arena] /\ ar \in Arena /\ ArenaSound(ar, blk)
      /\ ToSet(ar.chain) \subseteq Blocks(ar) /\ Blocks(ar) \subseteq BlockId
      /\ ar.cur \in 1 .. Len(ar.chain) /\ x \in ToSet(ar.chain) /\ x \in BlockId
      /\ \A o \in Arenas : o # a => \A y \in Blocks(arena[o]) : y \notin Blocks(ar)
  <2>1. Spaces(arena, blk) /\ LiveSound(arena, blk, live) /\ MarkSound(arena, mark)
    BY DEF SpaceInv
  <2>2. /\ blk \in [BlockId -> Blk] /\ arena \in [Arenas -> Arena] /\ ar \in Arena /\ ArenaSound(ar, blk)
        /\ ToSet(ar.chain) \subseteq Blocks(ar) /\ Blocks(ar) \subseteq BlockId
        /\ ar.cur \in 1 .. Len(ar.chain) /\ x \in ToSet(ar.chain)
        /\ \A o \in Arenas : o # a => \A y \in Blocks(arena[o]) : y \notin Blocks(ar)
    BY <2>1, OwnBlocks
  <2> HIDE DEF ar, x
  <2> QED
    BY <2>1, <2>2
<1>2. \A o \in Arenas : ToSet(arena[o].chain) \subseteq Blocks(arena[o])
  BY DEF Blocks
<1>3. CASE blk[x].used + n <= blk[x].size
  <2> DEFINE c == [blk EXCEPT ![x].used = @ + n]
             q == [ar EXCEPT !.total_used = @ + n]
             z == [arena |-> a, block |-> x, from |-> blk[x].used, len |-> n]
  <2>1. blk' = c /\ arena' = [arena EXCEPT ![a] = q] /\ live' = live \cup {z}
    <3>1. /\ blk' = c /\ arena' = [arena EXCEPT ![a].total_used = @ + n] /\ live' = live \cup {z}
      BY <1>3 DEF arena_alloc
    <3> QED
      BY <3>1
  <2>2. c \in [BlockId -> Blk] /\ ArenaSound(q, c)
    BY <1>1, AllocHere
  <2>3. /\ c[x].used = blk[x].used + n /\ c[x].used \in Nat /\ blk[x].used \in Nat
        /\ \A i \in BlockId : i # x => c[i] = blk[i]
    <3> DEFINE y == [blk[x] EXCEPT !.used = blk[x].used + n]
    <3>1. blk[x] \in Blk
      BY <1>1
    <3>2. y.used = blk[x].used + n /\ blk[x].used \in Nat /\ y.used \in Nat
      BY <3>1 DEF Blk
    <3>3. c = [blk EXCEPT ![x] = y]
      OBVIOUS
    <3> HIDE DEF y, c, x
    <3> QED
      BY <1>1, <3>2, <3>3
  <2>4. q \in Arena /\ q.chain = ar.chain /\ q.cur = ar.cur /\ q.lost = ar.lost /\ Blocks(q) = Blocks(ar)
    <3>1. q.chain = ar.chain /\ q.cur = ar.cur /\ q.lost = ar.lost /\ q \in Arena
      BY <1>1, <2>2 DEF Arena, ArenaSound
    <3> QED
      BY <3>1 DEF Blocks
  <2>5. z.arena = a /\ z.block = x /\ z.from = blk[x].used /\ z.len = n
    OBVIOUS
  <2> HIDE DEF c, q, z, x
  <2>6. OthersKept(arena, a, blk, q, c)
    <3> SUFFICES ASSUME NEW o \in Arenas, o # a
                 PROVE  /\ Blocks(q) \cap Blocks(arena[o]) = {}
                        /\ \A i \in Blocks(arena[o]) : c[i] = blk[i]
      BY DEF OthersKept
    <3>1. \A y \in Blocks(arena[o]) : y \notin Blocks(ar) /\ y \in BlockId
      BY <1>1, OwnBlocks
    <3> QED
      BY <1>1, <2>3, <2>4, <3>1
  <2>7. Spaces(arena', blk')
    BY <1>1, <2>1, <2>2, <2>6, SpacesChanged
  <2>8. /\ \A o \in Arenas : arena'[o].chain = arena[o].chain
        /\ arena'["query"].cur = arena["query"].cur
    <3>1. arena'[a] = q /\ \A o \in Arenas : o # a => arena'[o] = arena[o]
      BY <1>1, <2>1
    <3> QED
      BY <2>4, <3>1 DEF Arenas
  <2>9. LiveSound(arena', blk', live)
    <3>1. ASSUME NEW v \in live
          PROVE  v.block \in ToSet(arena'[v.arena].chain) /\ v.from + v.len <= blk'[v.block].used
      <4>1. LiveAt(v, arena, blk)
        BY <1>1 DEF LiveSound
      <4>2. v.arena \in Arenas /\ v.block \in ToSet(arena[v.arena].chain)
        BY <4>1 DEF LiveAt
      <4>3. v.block \in BlockId
        BY <1>1, <1>2, <4>2, OwnBlocks
      <4>4. v.from + v.len <= blk'[v.block].used
        <5>1. v.from + v.len <= blk[v.block].used /\ v.from + v.len \in Nat
          BY <4>1 DEF LiveAt
        <5>2. CASE v.block = x
          BY <2>1, <2>3, <5>1, <5>2
        <5>3. CASE v.block # x
          BY <2>1, <2>3, <4>3, <5>1, <5>3
        <5> QED
          BY <5>2, <5>3
      <4> QED
        BY <2>8, <4>2, <4>4
    <3> QED
      BY <1>1, <3>1, LiveKept
  <2>10. LiveAt(z, arena', blk')
    BY <1>1, <2>1, <2>3, <2>5, <2>8 DEF LiveAt
  <2>11. ASSUME NEW y \in live, y.block = z.block PROVE y.from + y.len <= z.from
    BY <1>1, <2>5, <2>11 DEF LiveSound, LiveAt
  <2>12. LiveSound(arena', blk', live')
    BY <2>1, <2>9, <2>10, <2>11, LiveAdds
  <2>13. MarkSound(arena', mark)
    <3>1. "query" \in Arenas
      BY DEF Arenas
    <3> QED
      BY <1>1, <2>8, <3>1 DEF MarkSound
  <2> QED
    BY <2>7, <2>12, <2>13
<1>4. CASE ~(blk[x].used + n <= blk[x].size)
  <2> DEFINE size == IF n > BlockSize THEN 2 * n ELSE BlockSize
             p == SubSeq(ar.chain, 1, ar.cur)
             r == SubSeq(ar.chain, ar.cur + 1, Len(ar.chain))
  <2>1. PICK w \in BlockId \ InUse :
           /\ blk' = [blk EXCEPT ![w] = [size |-> size, used |-> n]]
           /\ arena' = [arena EXCEPT ![a] =
                [chain |-> Append(p, w), cur |-> ar.cur + 1,
                 total_used |-> ar.total_used + n, total_allocated |-> ar.total_allocated + size,
                 lost |-> ar.lost \cup ToSet(r)]]
           /\ live' = live \cup {[arena |-> a, block |-> w, from |-> 0, len |-> n]}
    BY <1>4 DEF arena_alloc
  <2> DEFINE c == [blk EXCEPT ![w] = [size |-> size, used |-> n]]
             q == [chain |-> Append(p, w), cur |-> ar.cur + 1,
                   total_used |-> ar.total_used + n, total_allocated |-> ar.total_allocated + size,
                   lost |-> ar.lost \cup ToSet(r)]
             z == [arena |-> a, block |-> w, from |-> 0, len |-> n]
  <2>2. blk' = c /\ arena' = [arena EXCEPT ![a] = q] /\ live' = live \cup {z}
    BY <2>1
  <2>3. size \in Nat
    BY MemoryAssumption
  <2>4. w \in BlockId /\ \A o \in Arenas : w \notin Blocks(arena[o])
    BY <2>1 DEF InUse, Blocks
  <2>5. /\ c \in [BlockId -> Blk] /\ ArenaSound(q, c) /\ Blocks(q) = Blocks(ar) \cup {w}
        /\ ToSet(q.chain) = ToSet(p) \cup {w} /\ ToSet(ar.chain) = ToSet(p) \cup ToSet(r)
        /\ \A i \in ToSet(r) : blk[i].used = 0
        /\ \A i \in 1 .. ar.cur : Append(p, w)[i] = ar.chain[i]
    <3>1. TakesBlock(ar, blk, n, size, w, p, r, c, q)
      BY DEF TakesBlock
    <3>2. w \notin Blocks(ar)
      BY <2>4
    <3> HIDE DEF size, p, r, c, q, ar
    <3>3. blk \in [BlockId -> Blk] /\ ArenaSound(ar, blk) /\ w \in BlockId
      BY <1>1
    <3>4. TookBlock(ar, blk, w, p, r, c, q)
      BY <2>3, <3>1, <3>2, <3>3, AllocNew
    <3> QED
      BY <3>4 DEF TookBlock
  <2>6. q.chain = Append(p, w) /\ q.cur = ar.cur + 1
    OBVIOUS
  <2>7. c[w].used = n /\ \A i \in BlockId : i # w => c[i] = blk[i]
    <3> DEFINE y == [size |-> size, used |-> n]
    <3>1. y.used = n /\ c = [blk EXCEPT ![w] = y]
      OBVIOUS
    <3> HIDE DEF y, c
    <3> QED
      BY <1>1, <2>4, <3>1
  <2>8. z.arena = a /\ z.block = w /\ z.from = 0 /\ z.len = n
    OBVIOUS
  <2> HIDE DEF c, q, z, x, size
  <2>9. OthersKept(arena, a, blk, q, c)
    <3> SUFFICES ASSUME NEW o \in Arenas, o # a
                 PROVE  /\ Blocks(q) \cap Blocks(arena[o]) = {}
                        /\ \A i \in Blocks(arena[o]) : c[i] = blk[i]
      BY DEF OthersKept
    <3>1. \A y \in Blocks(arena[o]) : y \notin Blocks(ar) /\ y \in BlockId /\ y # w
      BY <1>1, <2>4, OwnBlocks
    <3> QED
      BY <2>5, <2>7, <3>1
  <2>10. Spaces(arena', blk')
    BY <1>1, <2>2, <2>5, <2>9, SpacesChanged
  <2>11. arena'[a] = q /\ \A o \in Arenas : o # a => arena'[o] = arena[o]
    BY <1>1, <2>2
  <2>12. ASSUME NEW v \in live
         PROVE  /\ v.block \in ToSet(arena'[v.arena].chain) /\ v.from + v.len <= blk'[v.block].used
                /\ v.block # w
    <3>1. LiveAt(v, arena, blk)
      BY <1>1 DEF LiveSound
    <3>2. /\ v.arena \in Arenas /\ v.block \in ToSet(arena[v.arena].chain)
          /\ v.from + v.len <= blk[v.block].used /\ v.from \in Nat /\ v.len \in Nat /\ v.len > 0
      BY <3>1 DEF LiveAt
    <3>3. v.block \in BlockId /\ v.block # w
      BY <1>2, <2>4, <3>2, <1>1, OwnBlocks
    <3>4. v.from + v.len <= blk'[v.block].used
      BY <2>2, <2>7, <3>2, <3>3
    <3>5. v.block \in ToSet(arena'[v.arena].chain)
      <4>1. CASE v.arena = a
        <5>1. v.block \notin ToSet(r)
          <6>1. ASSUME v.block \in ToSet(r) PROVE FALSE
            <7>1. blk[v.block].used = 0
              BY <2>5, <6>1
            <7> QED
              BY <3>2, <7>1
          <6> QED
            BY <6>1
        <5> QED
          BY <2>5, <2>11, <3>2, <4>1, <5>1
      <4>2. CASE v.arena # a
        BY <2>11, <3>2, <4>2
      <4> QED
        BY <4>1, <4>2
    <3> QED
      BY <3>3, <3>4, <3>5
  <2>13. LiveSound(arena', blk', live)
    BY <1>1, <2>12, LiveKept
  <2>14. LiveAt(z, arena', blk')
    <3>1. z.block \in ToSet(arena'[z.arena].chain)
      BY <2>5, <2>8, <2>11
    <3>2. z.from \in Nat /\ z.len \in Nat /\ z.len > 0 /\ z.from + z.len <= blk'[z.block].used
      BY <2>2, <2>7, <2>8
    <3> QED
      BY <2>8, <3>1, <3>2 DEF LiveAt
  <2>15. LiveSound(arena', blk', live')
    <3>1. \A y \in live : y.block = z.block => y.from + y.len <= z.from
      BY <2>8, <2>12
    <3> QED
      BY <2>2, <2>13, <2>14, <3>1, LiveAdds
  <2>16. MarkSound(arena', mark)
    <3>0. "query" \in Arenas
      BY DEF Arenas
    <3>1. CASE a # "query"
      <4>1. arena'["query"] = arena["query"]
        BY <2>11, <3>0, <3>1
      <4> QED
        BY <1>1, <4>1 DEF MarkSound
    <3>2. CASE a = "query" /\ mark # NoMark
      <4>1. PICK i \in 1 .. ar.cur : ar.chain[i] = mark.block
        BY <1>1, <3>2 DEF MarkSound
      <4>2. ar.cur \in Nat
        BY <1>1 DEF Arena
      <4>3. i \in 1 .. q.cur
        BY <2>6, <4>1, <4>2
      <4>4. q.chain[i] = mark.block
        BY <2>5, <2>6, <4>1
      <4>5. arena'["query"] = q
        BY <2>11, <3>2
      <4> QED
        BY <1>1, <4>3, <4>4, <4>5 DEF MarkSound
    <3>3. CASE mark = NoMark
      BY <1>1, <3>3 DEF MarkSound
    <3> QED
      BY <3>1, <3>2, <3>3
  <2> QED
    BY <2>10, <2>15, <2>16
<1> QED
  BY <1>3, <1>4

\* What the other arenas' allocations need is not touched.
LEMMA LiveElsewhere ==
  ASSUME NEW as, NEW b, NEW lv, Spaces(as, b), LiveSound(as, b, lv), NEW a \in Arenas, NEW q, NEW c,
         OthersKept(as, a, b, q, c)
  PROVE  LiveSound([as EXCEPT ![a] = q], c, {x \in lv : x.arena # a})
<1> DEFINE n == [as EXCEPT ![a] = q]
           lv2 == {x \in lv : x.arena # a}
<1>1. as \in [Arenas -> Arena] /\ b \in [BlockId -> Blk]
  BY DEF Spaces
<1>2. \A o \in Arenas : o # a => n[o] = as[o]
  BY <1>1
<1> HIDE DEF n
<1>3. ASSUME NEW v \in lv2
      PROVE  v.block \in ToSet(n[v.arena].chain) /\ v.from + v.len <= c[v.block].used
  <2>1. LiveAt(v, as, b) /\ v.arena # a
    BY DEF LiveSound
  <2>2. v.arena \in Arenas /\ v.block \in ToSet(as[v.arena].chain) /\ v.from + v.len <= b[v.block].used
    BY <2>1 DEF LiveAt
  <2>3. c[v.block] = b[v.block]
    <3>1. v.block \in Blocks(as[v.arena])
      BY <2>2 DEF Blocks
    <3> QED
      BY <2>1, <2>2, <3>1 DEF OthersKept
  <2> QED
    BY <1>2, <2>1, <2>2, <2>3
<1>4. lv2 \subseteq lv
  OBVIOUS
<1> HIDE DEF lv2
<1>5. LiveSound(n, c, lv2)
  BY <1>3, <1>4, LiveKept
<1> QED
  BY <1>5 DEF n, lv2

LEMMA ResetSpace ==
  ASSUME SpaceInv, NEW a \in Arenas, arena_reset(a)
  PROVE  Spaces(arena', blk') /\ LiveSound(arena', blk', live') /\ MarkSound(arena', NoMark)
<1> DEFINE ar == arena[a]
           q == [ar EXCEPT !.cur = 1, !.total_used = 0]
           c == Emptied(ar, blk)
<1>1. Spaces(arena, blk) /\ LiveSound(arena, blk, live)
  BY DEF SpaceInv
<1>2. /\ blk \in [BlockId -> Blk] /\ ArenaSound(ar, blk) /\ ToSet(ar.chain) \subseteq Blocks(ar)
      /\ \A o \in Arenas : o # a => \A y \in Blocks(arena[o]) : y \notin Blocks(ar) /\ y \in BlockId
  BY <1>1, OwnBlocks
<1>3. blk' = c /\ arena' = [arena EXCEPT ![a] = q] /\ live' = {x \in live : x.arena # a}
  <2>1. /\ blk' = c /\ arena' = [arena EXCEPT ![a].cur = 1, ![a].total_used = 0]
        /\ live' = {x \in live : x.arena # a}
    BY DEF arena_reset, Emptied, Kept
  <2>2. arena \in [Arenas -> Arena]
    BY <1>1 DEF Spaces
  <2> QED
    BY <2>1, <2>2
<1>4. /\ c \in [BlockId -> Blk] /\ ArenaSound(q, c) /\ Blocks(q) = Blocks(ar)
      /\ \A i \in BlockId : i \notin ToSet(ar.chain) => c[i] = blk[i]
  <2>1. q = [ar EXCEPT !.cur = 1, !.total_used = 0]
    OBVIOUS
  <2> HIDE DEF ar, q
  <2>2. blk \in [BlockId -> Blk] /\ ArenaSound(ar, blk)
    BY <1>2
  <2> QED
    BY <2>1, <2>2, ArenaReset
<1> HIDE DEF q, c, ar
<1>5. OthersKept(arena, a, blk, q, c)
  <2> SUFFICES ASSUME NEW o \in Arenas, o # a
               PROVE  /\ Blocks(q) \cap Blocks(arena[o]) = {}
                      /\ \A i \in Blocks(arena[o]) : c[i] = blk[i]
    BY DEF OthersKept
  <2> QED
    BY <1>2, <1>4
<1>6. Spaces(arena', blk')
  <2>1. Spaces([arena EXCEPT ![a] = q], c)
    BY <1>1, <1>4, <1>5, SpacesChanged
  <2> QED
    BY <1>3, <2>1
<1>7. LiveSound(arena', blk', live')
  <2>1. LiveSound([arena EXCEPT ![a] = q], c, {x \in live : x.arena # a})
    BY <1>1, <1>5, LiveElsewhere
  <2> QED
    BY <1>3, <2>1
<1> QED
  BY <1>6, <1>7 DEF MarkSound, NoMark

LEMMA ClearSpace ==
  ASSUME SpaceInv, arena_clear("session")
  PROVE  Spaces(arena', blk') /\ LiveSound(arena', blk', live') /\ MarkSound(arena', mark)
<1> DEFINE a == "session"
           ar == arena[a]
           ch == ar.chain
           p == SubSeq(ch, 1, 1)
           c == [blk EXCEPT ![ch[1]].used = 0]
           gone == SumFunctionOnSet(SizeAtBlock(blk), ToSet(ch) \ ToSet(p))
           q == [chain |-> p, cur |-> 1, total_used |-> SumFunctionOnSet(UsedAt(c), ToSet(p)),
                 total_allocated |-> ar.total_allocated - gone, lost |-> ar.lost]
<1>0. "session" \in Arenas /\ "query" \in Arenas
  BY DEF Arenas
<1>1. Spaces(arena, blk) /\ LiveSound(arena, blk, live) /\ MarkSound(arena, mark)
  BY DEF SpaceInv
<1>2. /\ blk \in [BlockId -> Blk] /\ ArenaSound(ar, blk) /\ ar \in Arena /\ ToSet(ch) \subseteq Blocks(ar)
      /\ Blocks(ar) \subseteq BlockId
      /\ \A o \in Arenas : o # a => \A y \in Blocks(arena[o]) : y \notin Blocks(ar) /\ y \in BlockId
  <2> HIDE DEF ar, a
  <2>1. a \in Arenas
    BY <1>0 DEF a
  <2> QED
    BY <1>1, <2>1, OwnBlocks DEF ar
<1>3. ChainSound(ch, ar.cur, blk)
  BY <1>2 DEF ArenaSound
<1>4. /\ 1 \in 1 .. Len(ch) /\ Head(ch) = ch[1] /\ p = <<ch[1]>>
      /\ ToSet(Tail(ch)) = ToSet(ch) \ ToSet(p)
  <2>1. /\ 1 \in 1 .. Len(ch) /\ Head(ch) = ch[1] /\ SubSeq(ch, 1, 1) = <<ch[1]>>
        /\ ToSet(Tail(ch)) = ToSet(ch) \ ToSet(<<ch[1]>>)
    BY <1>3, HeadCut
  <2> QED
    BY <2>1
<1>5. /\ c \in [BlockId -> Blk] /\ ArenaSound(q, c) /\ Blocks(q) \subseteq Blocks(ar)
      /\ ch[1] \in BlockId /\ ch[1] \in ToSet(p) /\ ToSet(p) \subseteq ToSet(ch)
      /\ c[ch[1]].used = 0 /\ \A j \in BlockId : j # ch[1] => c[j] = blk[j]
  <2>1. Cut(ar, blk, 1, 0, p, c, q)
    BY DEF Cut
  <2>2. 0 \in Nat /\ 1 \in 1 .. Len(ar.chain) /\ blk \in [BlockId -> Blk] /\ ArenaSound(ar, blk)
    BY <1>2, <1>4
  <2> HIDE DEF p, c, q, ar
  <2>3. IsCut(ar, blk, 1, p, c, q, 0)
    BY <2>1, <2>2, ArenaCut
  <2> QED
    BY <2>3 DEF IsCut
<1>6. q.total_used = 0
  <2>1. ToSet(p) = {ch[1]}
    <3> HIDE DEF p, ch
    <3> QED
      BY <1>4 DEF ToSet
  <2>2. UsedAt(c)[ch[1]] = 0
    <3> HIDE DEF c, ch
    <3> QED
      BY <1>5, BlockAt
  <2>3. q.total_used = SumFunctionOnSet(UsedAt(c), ToSet(p))
    OBVIOUS
  <2>4. IsFiniteSet(ToSet(p)) /\ \A x \in ToSet(p) : UsedAt(c)[x] = 0
    <3> HIDE DEF p, c, ch
    <3> QED
      BY <1>2, <1>5, <2>1, <2>2, BlocksFinite
  <2> HIDE DEF p, c, q
  <2> QED
    BY <2>3, <2>4, SumIsZero
<1>7. arena' = [arena EXCEPT ![a] = q] /\ blk' = c /\ live' = {x \in live : x.arena # a}
  <2>1. /\ arena' = [arena EXCEPT ![a] =
             [ar EXCEPT !.chain = <<Head(ch)>>, !.cur = 1, !.total_used = 0,
                        !.total_allocated = ar.total_allocated - SizeOf(ToSet(Tail(ch)))]]
        /\ blk' = [blk EXCEPT ![Head(ch)].used = 0]
        /\ live' = {x \in live : x.arena # a}
    BY DEF arena_clear, Kept
  <2>2. SizeOf(ToSet(Tail(ch))) = gone
    BY <1>4 DEF SizeOf, SizeAtBlock
  <2>3. [ar EXCEPT !.chain = <<Head(ch)>>, !.cur = 1, !.total_used = 0,
                   !.total_allocated = ar.total_allocated - SizeOf(ToSet(Tail(ch)))]
        = [chain |-> p, cur |-> 1, total_used |-> 0,
           total_allocated |-> ar.total_allocated - gone, lost |-> ar.lost]
    <3>1. <<Head(ch)>> = p
      BY <1>4
    <3>2. ar \in Arena
      BY <1>2
    <3> DEFINE u == <<Head(ch)>>
               v == ar.total_allocated - SizeOf(ToSet(Tail(ch)))
    <3>3. u = p /\ v = ar.total_allocated - gone
      BY <2>2, <3>1
    <3> HIDE DEF gone, p, ar, u, v
    <3>4. Changed(ar, u, 1, 0, v) = ArenaOf(u, 1, 0, v, ar.lost)
      BY <3>2, ArenaFields
    <3>5. Changed(ar, u, 1, 0, v) = ArenaOf(p, 1, 0, ar.total_allocated - gone, ar.lost)
      BY <3>3, <3>4
    <3> QED
      BY <3>5 DEF u, v, Changed, ArenaOf
  <2>4. q = [chain |-> p, cur |-> 1, total_used |-> 0,
             total_allocated |-> ar.total_allocated - gone, lost |-> ar.lost]
    <3>1. SumFunctionOnSet(UsedAt(c), ToSet(p)) = 0
      BY <1>6
    <3> HIDE DEF p, c, gone
    <3> QED
      BY <3>1
  <2>5. arena' = [arena EXCEPT ![a] = q]
    <3> HIDE DEF q, p, ch, gone
    <3> QED
      BY <2>1, <2>3, <2>4
  <2>6. blk' = c
    BY <1>4, <2>1
  <2> QED
    BY <2>1, <2>5, <2>6
<1> HIDE DEF a, q, c, p, ch, ar, gone
<1>8. a \in Arenas /\ a # "query"
  BY <1>0 DEF a
<1>9. OthersKept(arena, a, blk, q, c)
  <2> SUFFICES ASSUME NEW o \in Arenas, o # a
               PROVE  /\ Blocks(q) \cap Blocks(arena[o]) = {}
                      /\ \A i \in Blocks(arena[o]) : c[i] = blk[i]
    BY DEF OthersKept
  <2>1. ch[1] \in Blocks(ar)
    BY <1>2, <1>5
  <2> QED
    BY <1>2, <1>5, <2>1
<1>10. Spaces(arena', blk')
  <2>1. Spaces([arena EXCEPT ![a] = q], c)
    BY <1>1, <1>5, <1>8, <1>9, SpacesChanged
  <2> QED
    BY <1>7, <2>1
<1>11. LiveSound(arena', blk', live')
  <2>1. LiveSound([arena EXCEPT ![a] = q], c, {x \in live : x.arena # a})
    BY <1>1, <1>8, <1>9, LiveElsewhere
  <2> QED
    BY <1>7, <2>1
<1>12. MarkSound(arena', mark)
  <2>1. arena'["query"] = arena["query"]
    <3>1. arena \in [Arenas -> Arena]
      BY <1>1 DEF Spaces
    <3> QED
      BY <1>0, <1>7, <1>8, <3>1
  <2> QED
    BY <1>1, <2>1 DEF MarkSound
<1> QED
  BY <1>10, <1>11, <1>12

LEMMA RestoreSpace ==
  ASSUME SpaceInv, arena_restore
  PROVE  Spaces(arena', blk') /\ LiveSound(arena', blk', live')
<1> DEFINE a == "query"
           ar == arena[a]
           ch == ar.chain
           i == CHOOSE j \in DOMAIN ch : ch[j] = mark.block
           p == SubSeq(ch, 1, i)
           x == mark.block
           m == mark.used
           c == [blk EXCEPT ![x].used = m]
           u == SumFunctionOnSet(UsedAt(c), ToSet(p))
           t == ar.total_allocated - SumFunctionOnSet(SizeAtBlock(blk), ToSet(ch) \ ToSet(p))
           q == [chain |-> p, cur |-> i, total_used |-> u, total_allocated |-> t, lost |-> ar.lost]
           left == {v \in live : v.arena = "query" =>
                       /\ v.block \in ToSet(p)
                       /\ v.block = x => v.from + v.len <= m}
<1>0. a \in Arenas
  BY DEF Arenas
<1>1. /\ Spaces(arena, blk) /\ LiveSound(arena, blk, live) /\ MarkSound(arena, mark) /\ mark # NoMark
      /\ arena \in [Arenas -> Arena]
  BY DEF SpaceInv, Spaces, arena_restore
<1>2. /\ blk \in [BlockId -> Blk] /\ ArenaSound(ar, blk) /\ ar \in Arena /\ ToSet(ch) \subseteq Blocks(ar)
      /\ Blocks(ar) \subseteq BlockId
      /\ \A o \in Arenas : o # a => \A y \in Blocks(arena[o]) : y \notin Blocks(ar) /\ y \in BlockId
  <2> HIDE DEF ar, a
  <2> QED
    BY <1>0, <1>1, OwnBlocks DEF ar
<1>3. ChainSound(ch, ar.cur, blk)
  BY <1>2 DEF ArenaSound
<1>4. i \in 1 .. Len(ch) /\ ch[i] = x /\ m \in Nat
  <2>1. PICK j \in 1 .. ar.cur : ch[j] = x
    BY <1>1 DEF MarkSound
  <2>2. /\ DOMAIN ch = 1 .. Len(ch) /\ j \in 1 .. Len(ch)
    BY <1>3, ChainIs
  <2>3. m \in Nat
    BY <1>1 DEF MarkSound
  <2> HIDE DEF ch, x, m
  <2> QED
    BY <2>1, <2>2, <2>3 DEF x
<1>5. /\ blk' = c /\ live' = left
      /\ arena' = [arena EXCEPT !["query"] =
              [ar EXCEPT !.chain = p, !.cur = i,
                         !.total_used = UsedIn([ar EXCEPT !.chain = p], c),
                         !.total_allocated = ar.total_allocated - SizeOf(ToSet(ch) \ ToSet(p))]]
  BY DEF arena_restore
<1>6. arena' = [arena EXCEPT ![a] = q]
  <2>1. UsedIn([ar EXCEPT !.chain = p], c) = u
    <3>1. [ar EXCEPT !.chain = p].chain = p
      <4>1. ar \in Arena
        BY <1>2
      <4> HIDE DEF p, ar
      <4> QED
        BY <4>1 DEF Arena
    <3> HIDE DEF p, c, ar
    <3> QED
      BY <3>1 DEF UsedIn, UsedAt
  <2>2. ar.total_allocated - SizeOf(ToSet(ch) \ ToSet(p)) = t
    BY DEF SizeOf, SizeAtBlock
  <2>3. ar \in Arena
    BY <1>2
  <2>4. Changed(ar, p, i, u, t) = ArenaOf(p, i, u, t, ar.lost)
    <3> HIDE DEF ar, p, i, u, t
    <3> QED
      BY <2>3, ArenaFields
  <2>5. arena' = [arena EXCEPT !["query"] = [ar EXCEPT !.chain = p, !.cur = i,
                                               !.total_used = u, !.total_allocated = t]]
    <3> DEFINE u1 == UsedIn([ar EXCEPT !.chain = p], c)
               t1 == ar.total_allocated - SizeOf(ToSet(ch) \ ToSet(p))
    <3>1. arena' = [arena EXCEPT !["query"] = [ar EXCEPT !.chain = p, !.cur = i,
                                                 !.total_used = u1, !.total_allocated = t1]]
      BY <1>5
    <3>2. u1 = u /\ t1 = t
      BY <2>1, <2>2
    <3> HIDE DEF u1, t1, u, t, p, i, ar
    <3> QED
      BY <3>1, <3>2
  <2>6. arena' = [arena EXCEPT !["query"] = Changed(ar, p, i, u, t)]
    <3> HIDE DEF u, t, p, i, ar
    <3> QED
      BY <2>5 DEF Changed
  <2> HIDE DEF u, t, p, i, ar
  <2> QED
    BY <2>4, <2>6 DEF ArenaOf
<1>7. IsCut(ar, blk, i, p, c, q, m)
  <2>1. Cut(ar, blk, i, m, p, c, q)
    <3>1. c = [blk EXCEPT ![ch[i]].used = m]
      BY <1>4
    <3> HIDE DEF i, c, m
    <3> QED
      BY <3>1 DEF Cut
  <2>2. m \in Nat /\ i \in 1 .. Len(ar.chain) /\ blk \in [BlockId -> Blk] /\ ArenaSound(ar, blk)
    BY <1>2, <1>4
  <2> HIDE DEF p, c, q, ar, i, m
  <2> QED
    BY <2>1, <2>2, ArenaCut
<1>8. q.chain = p /\ q.cur = i
  OBVIOUS
<1> HIDE DEF a, q, c, p, i, m, u, t, x, ar
<1>9. /\ c \in [BlockId -> Blk] /\ ArenaSound(q, c) /\ Blocks(q) \subseteq Blocks(ar)
      /\ x \in BlockId /\ x \in ToSet(p) /\ ToSet(p) \subseteq ToSet(ch)
      /\ c[x].used = m /\ \A j \in BlockId : j # x => c[j] = blk[j]
  <2> HIDE DEF ch
  <2>1. ar.chain[i] = x /\ ar.chain = ch
    BY <1>4 DEF ch
  <2> QED
    BY <1>7, <2>1 DEF IsCut
<1>10. OthersKept(arena, a, blk, q, c)
  <2> SUFFICES ASSUME NEW o \in Arenas, o # a
               PROVE  /\ Blocks(q) \cap Blocks(arena[o]) = {}
                      /\ \A j \in Blocks(arena[o]) : c[j] = blk[j]
    BY DEF OthersKept
  <2>1. x \in Blocks(ar)
    BY <1>2, <1>9
  <2> QED
    BY <1>2, <1>9, <2>1
<1>11. Spaces(arena', blk')
  <2>1. Spaces([arena EXCEPT ![a] = q], c)
    BY <1>0, <1>1, <1>9, <1>10, SpacesChanged
  <2> QED
    BY <1>5, <1>6, <2>1
<1>12. arena'[a] = q /\ \A o \in Arenas : o # a => arena'[o] = arena[o]
  BY <1>0, <1>1, <1>6
<1>13. ASSUME NEW v \in left
       PROVE  v.block \in ToSet(arena'[v.arena].chain) /\ v.from + v.len <= c[v.block].used
  <2>1. LiveAt(v, arena, blk)
    BY <1>1 DEF LiveSound
  <2>2. v.arena \in Arenas /\ v.block \in ToSet(arena[v.arena].chain) /\ v.from + v.len <= blk[v.block].used
    BY <2>1 DEF LiveAt
  <2>3. CASE v.arena = a
    <3>1. v.block \in ToSet(p) /\ (v.block = x => v.from + v.len <= m)
      BY <2>3 DEF a
    <3>2. v.block \in BlockId
      BY <1>2, <1>9, <3>1
    <3>3. v.from + v.len <= c[v.block].used
      <4>1. CASE v.block = x
        BY <1>9, <3>1, <4>1
      <4>2. CASE v.block # x
        <5>1. c[v.block] = blk[v.block]
          BY <1>9, <3>2, <4>2
        <5> QED
          BY <2>2, <5>1
      <4> QED
        BY <4>1, <4>2
    <3> QED
      BY <1>8, <1>12, <2>3, <3>1, <3>3
  <2>4. CASE v.arena # a
    <3>1. v.block \in Blocks(arena[v.arena])
      BY <2>2 DEF Blocks
    <3>2. c[v.block] = blk[v.block]
      BY <1>10, <2>2, <2>4, <3>1 DEF OthersKept
    <3> QED
      BY <1>12, <2>2, <2>4, <3>2
  <2> QED
    BY <2>3, <2>4
<1>14. left \subseteq live
  OBVIOUS
<1> HIDE DEF left
<1>15. LiveSound(arena', c, left)
  BY <1>1, <1>13, <1>14, LiveKept
<1> QED
  BY <1>5, <1>11, <1>15

LEMMA CheckpointSpace ==
  ASSUME SpaceInv, arena_checkpoint
  PROVE  MarkSound(arena, mark')
<1> DEFINE ar == arena["query"]
           x == ar.chain[ar.cur]
<1>1. Spaces(arena, blk) /\ "query" \in Arenas
  BY DEF SpaceInv, Arenas
<1>2. /\ blk \in [BlockId -> Blk] /\ ar.cur \in 1 .. Len(ar.chain) /\ x \in ToSet(ar.chain)
      /\ ToSet(ar.chain) \subseteq BlockId /\ ar \in Arena
  BY <1>1, OwnBlocks
<1>3. blk[x].used \in Nat
  BY <1>2, BlockAt
<1>4. mark' = [block |-> x, used |-> blk[x].used]
  BY DEF arena_checkpoint
<1>5. mark'.block = x /\ mark'.used = blk[x].used
  BY <1>4
<1>6. ar.cur \in 1 .. ar.cur
  BY <1>2 DEF Arena
<1> QED
  BY <1>3, <1>5, <1>6 DEF MarkSound

-----------------------------------------------------------------------------
(* The pools. *)

Pool == [base : Nat, used : Int, free : Seq(Nat)]
PoolRange(p) == p.base .. p.base + PoolBlocks - 1
Own(p, hd) == {x \in hd : pool_owns(p, x)}
PoolAt(p, hd) ==
  /\ p \in Pool /\ IsInjective(p.free)
  /\ ToSet(p.free) \cup Own(p, hd) = PoolRange(p) /\ ToSet(p.free) \cap Own(p, hd) = {}
  /\ p.used = Cardinality(Own(p, hd))
Beside(p, r) == p.base + PoolBlocks <= r.base \/ r.base + PoolBlocks <= p.base

\* Every pool is sound, no two share a block, and what is handed out came from one.
PoolsSound(ps, hd) ==
  /\ ps \in Seq(Pool) /\ Len(ps) > 0 /\ hd \subseteq Nat
  /\ \A i \in 1 .. Len(ps) : PoolAt(ps[i], hd) /\ ps[i].base + PoolBlocks <= PoolBlocks * Len(ps)
  /\ \A i, j \in 1 .. Len(ps) : i # j => Beside(ps[i], ps[j])
  /\ \A x \in hd : \E i \in 1 .. Len(ps) : x \in PoolRange(ps[i])

PoolRecord(k, u, g) == [base |-> k, used |-> u, free |-> g]
LEMMA PoolFields ==
  ASSUME NEW k \in Nat, NEW u \in Int, NEW g \in Seq(Nat)
  PROVE  /\ PoolRecord(k, u, g) \in Pool /\ PoolRecord(k, u, g).base = k
         /\ PoolRecord(k, u, g).used = u /\ PoolRecord(k, u, g).free = g
BY DEF PoolRecord, Pool

LEMMA PoolIs ==
  ASSUME NEW p \in Pool, NEW hd \in SUBSET Nat
  PROVE  /\ p.base \in Nat /\ p.free \in Seq(Nat) /\ p.used \in Int
         /\ PoolRange(p) \subseteq Nat /\ IsFiniteSet(PoolRange(p))
         /\ \A x \in Nat : pool_owns(p, x) <=> x \in PoolRange(p)
         /\ Own(p, hd) = hd \cap PoolRange(p) /\ IsFiniteSet(Own(p, hd))
<1>1. p.base \in Nat /\ p.free \in Seq(Nat) /\ p.used \in Int /\ PoolBlocks \in Nat /\ PoolBlocks > 0
  BY MemoryAssumption DEF Pool
<1>2. PoolRange(p) \subseteq Nat
  BY <1>1 DEF PoolRange
<1>3. IsFiniteSet(PoolRange(p))
  <2> DEFINE lo == p.base
             hi == p.base + PoolBlocks - 1
  <2>1. lo \in Int /\ hi \in Int
    BY <1>1
  <2> HIDE DEF lo, hi
  <2>2. IsFiniteSet(lo .. hi)
    BY <2>1, FS_Interval
  <2> QED
    BY <2>2 DEF PoolRange, lo, hi
<1>4. \A x \in Nat : pool_owns(p, x) <=> x \in PoolRange(p)
  BY <1>1 DEF pool_owns, PoolRange
<1>5. Own(p, hd) = hd \cap PoolRange(p)
  BY <1>2, <1>4 DEF Own
<1>6. IsFiniteSet(Own(p, hd))
  BY <1>3, <1>5, FS_Subset
<1> QED
  BY <1>1, <1>2, <1>3, <1>4, <1>5, <1>6

LEMMA NewPoolSound ==
  ASSUME NEW k \in Nat, NEW hd \in SUBSET Nat, \A x \in hd : x \notin k .. k + PoolBlocks - 1
  PROVE  PoolAt(NewPool(k), hd) /\ NewPool(k).base = k /\ NewPool(k).free # <<>>
<1> DEFINE N == PoolBlocks
           f == [i \in 1 .. N |-> k + N - i]
           p == NewPool(k)
<1>1. N \in Nat /\ N > 0
  BY MemoryAssumption
<1>2. \A i \in 1 .. N : f[i] = k + N - i /\ f[i] \in Nat
  BY <1>1
<1>3. f \in Seq(Nat) /\ DOMAIN f = 1 .. N
  <2>1. f \in [1 .. N -> Nat]
    BY <1>1
  <2> QED
    BY <1>1, <2>1, SeqDef
<1>4. p.base = k /\ p.free = f /\ p.used = 0 /\ p \in Pool
  <2>1. p = [base |-> k, used |-> 0, free |-> f]
    BY DEF NewPool
  <2> HIDE DEF f, p
  <2> QED
    BY <1>3, <2>1 DEF Pool
<1>5. f # <<>>
  BY <1>1, <1>3
<1> HIDE DEF f, p, N
<1>6. IsInjective(f)
  <2> SUFFICES ASSUME NEW i \in 1 .. N, NEW j \in 1 .. N, f[i] = f[j] PROVE i = j
    BY <1>3 DEF IsInjective
  <2> QED
    BY <1>1, <1>2
<1>7. ToSet(f) = k .. k + N - 1
  <2>1. \A i \in 1 .. N : f[i] \in k .. k + N - 1
    BY <1>1, <1>2
  <2>2. ASSUME NEW x \in k .. k + N - 1 PROVE x \in ToSet(f)
    <3>1. k + N - x \in 1 .. N /\ k + N - (k + N - x) = x
      BY <1>1
    <3>2. f[k + N - x] = x
      BY <1>2, <3>1
    <3> QED
      BY <1>3, <3>1, <3>2 DEF ToSet
  <2> QED
    BY <1>3, <2>1, <2>2 DEF ToSet
<1>8. PoolRange(p) = k .. k + N - 1
  BY <1>4 DEF PoolRange, N
<1>9. Own(p, hd) = {}
  <2>1. Own(p, hd) = hd \cap PoolRange(p)
    BY <1>4, PoolIs
  <2> QED
    BY <1>8, <2>1 DEF N
<1>10. Cardinality(Own(p, hd)) = 0
  BY <1>9, FS_EmptySet
<1>11. PoolAt(p, hd)
  BY <1>4, <1>6, <1>7, <1>8, <1>9, <1>10 DEF PoolAt
<1> QED
  BY <1>4, <1>5, <1>11 DEF p

\* The first free block is handed out.
HandedOut(hd, p, q) ==
  /\ Head(p.free) \in PoolRange(p) /\ Head(p.free) \notin hd /\ Head(p.free) \in Nat
  /\ q.base = p.base /\ PoolAt(q, hd \cup {Head(p.free)})
LEMMA PoolTakes ==
  ASSUME NEW hd \in SUBSET Nat, NEW p, PoolAt(p, hd), p.free # <<>>,
         NEW q, q = PoolRecord(p.base, p.used + 1, Tail(p.free))
  PROVE  HandedOut(hd, p, q)
<1> DEFINE f == p.free
           h == Head(f)
           hd2 == hd \cup {h}
<1>1. p \in Pool /\ f \in Seq(Nat) /\ IsInjective(f) /\ p.base \in Nat /\ p.used \in Int
  BY DEF PoolAt, Pool
<1>2. Tail(f) \in Seq(Nat) /\ h \in ToSet(f) /\ ToSet(Tail(f)) = ToSet(f) \ {h} /\ IsInjective(Tail(f))
  <2> HIDE DEF f
  <2>1. f # <<>>
    BY DEF f
  <2> QED
    BY <1>1, <2>1, TailElements
<1>3. /\ ToSet(f) \cup Own(p, hd) = PoolRange(p) /\ ToSet(f) \cap Own(p, hd) = {}
      /\ p.used = Cardinality(Own(p, hd)) /\ Own(p, hd) = hd \cap PoolRange(p)
      /\ PoolRange(p) \subseteq Nat /\ IsFiniteSet(Own(p, hd))
  BY <1>1, PoolIs DEF PoolAt
<1>4. q.base = p.base /\ q.free = Tail(f) /\ q.used = p.used + 1 /\ q \in Pool
  <2> DEFINE k == p.base
             u == p.used + 1
             g == Tail(f)
  <2>1. k \in Nat /\ u \in Int /\ g \in Seq(Nat)
    BY <1>1, <1>2
  <2>2. q = PoolRecord(k, u, g)
    OBVIOUS
  <2> HIDE DEF k, u, g
  <2>3. q.base = k /\ q.free = g /\ q.used = u /\ q \in Pool
    BY <2>1, <2>2, PoolFields
  <2> QED
    BY <2>3 DEF k, u, g
<1> HIDE DEF f, h
<1>5. PoolRange(q) = PoolRange(p)
  BY <1>4 DEF PoolRange
<1>6. h \in PoolRange(p) /\ h \notin hd /\ h \in Nat
  BY <1>2, <1>3
<1>7. hd2 \subseteq Nat
  BY <1>6
<1>8. Own(q, hd2) = Own(p, hd) \cup {h}
  <2>1. Own(q, hd2) = hd2 \cap PoolRange(q)
    BY <1>4, <1>7, PoolIs
  <2> QED
    BY <1>3, <1>5, <1>6, <2>1
<1>9. h \notin Own(p, hd)
  BY <1>3, <1>6
<1>10. Cardinality(Own(q, hd2)) = p.used + 1
  <2>1. Cardinality(Own(p, hd) \cup {h}) = Cardinality(Own(p, hd)) + 1
    BY <1>3, <1>9, FS_AddElement
  <2> QED
    BY <1>3, <1>8, <2>1
<1>11. PoolAt(q, hd2)
  BY <1>2, <1>3, <1>4, <1>5, <1>6, <1>8, <1>9, <1>10 DEF PoolAt
<1> QED
  BY <1>4, <1>6, <1>11 DEF h, f, HandedOut

\* A block comes back to its pool.
LEMMA PoolGets ==
  ASSUME NEW hd \in SUBSET Nat, NEW p, PoolAt(p, hd), NEW x \in hd, x \in PoolRange(p),
         NEW q, q = PoolRecord(p.base, p.used - 1, <<x>> \o p.free)
  PROVE  q.base = p.base /\ PoolAt(q, hd \ {x})
<1> DEFINE f == p.free
           hd2 == hd \ {x}
<1>1. p \in Pool /\ f \in Seq(Nat) /\ IsInjective(f) /\ p.base \in Nat /\ p.used \in Int /\ x \in Nat
  BY DEF PoolAt, Pool
<1>2. /\ ToSet(f) \cup Own(p, hd) = PoolRange(p) /\ ToSet(f) \cap Own(p, hd) = {}
      /\ p.used = Cardinality(Own(p, hd)) /\ Own(p, hd) = hd \cap PoolRange(p)
      /\ IsFiniteSet(Own(p, hd))
  BY <1>1, PoolIs DEF PoolAt
<1>3. x \notin ToSet(f) /\ x \in Own(p, hd)
  BY <1>2
<1>4. /\ <<x>> \o f \in Seq(Nat) /\ ToSet(<<x>> \o f) = ToSet(f) \cup {x} /\ IsInjective(<<x>> \o f)
  <2> HIDE DEF f
  <2> QED
    BY <1>1, <1>3, PushElements
<1>5. q.base = p.base /\ q.free = <<x>> \o f /\ q.used = p.used - 1 /\ q \in Pool
  <2> DEFINE k == p.base
             u == p.used - 1
             g == <<x>> \o f
  <2>1. k \in Nat /\ u \in Int /\ g \in Seq(Nat)
    BY <1>1, <1>4
  <2>2. q = PoolRecord(k, u, g)
    OBVIOUS
  <2> HIDE DEF k, u, g
  <2>3. q.base = k /\ q.free = g /\ q.used = u /\ q \in Pool
    BY <2>1, <2>2, PoolFields
  <2> QED
    BY <2>3 DEF k, u, g
<1> HIDE DEF f
<1>6. PoolRange(q) = PoolRange(p)
  BY <1>5 DEF PoolRange
<1>7. Own(q, hd2) = Own(p, hd) \ {x}
  <2>1. Own(q, hd2) = hd2 \cap PoolRange(q)
    BY <1>5, PoolIs
  <2> QED
    BY <1>2, <1>6, <2>1
<1>8. Cardinality(Own(q, hd2)) = p.used - 1
  <2>1. Cardinality(Own(p, hd) \ {x}) = Cardinality(Own(p, hd)) - 1
    BY <1>2, <1>3, SmallerByOne
  <2> QED
    BY <1>2, <1>7, <2>1
<1>9. PoolAt(q, hd2)
  <2> DEFINE g == q.free
             o == Own(q, hd2)
             range == PoolRange(q)
  <2>1. g \in Seq(Nat) /\ IsInjective(g) /\ ToSet(g) = ToSet(f) \cup {x}
    BY <1>4, <1>5
  <2>2. o = Own(p, hd) \ {x} /\ q.used = Cardinality(o) /\ range = PoolRange(p)
    BY <1>5, <1>6, <1>7, <1>8
  <2>3. ToSet(f) \cup Own(p, hd) = range /\ ToSet(f) \cap Own(p, hd) = {}
    BY <1>2, <1>6 DEF f
  <2> HIDE DEF g, o, range
  <2>4. ToSet(g) \cup o = range /\ ToSet(g) \cap o = {}
    BY <1>3, <2>1, <2>2, <2>3
  <2> QED
    BY <1>5, <2>1, <2>2, <2>4 DEF PoolAt, g, o, range
<1> QED
  BY <1>5, <1>9

LEMMA PoolElsewhere ==
  ASSUME NEW hd \in SUBSET Nat, NEW hd2 \in SUBSET Nat, NEW p, PoolAt(p, hd),
         NEW x, x \notin PoolRange(p), hd2 \ {x} = hd \ {x}
  PROVE  PoolAt(p, hd2)
<1>1. p \in Pool
  BY DEF PoolAt
<1>2. Own(p, hd2) = Own(p, hd)
  <2>1. Own(p, hd2) = hd2 \cap PoolRange(p) /\ Own(p, hd) = hd \cap PoolRange(p)
    BY <1>1, PoolIs
  <2> QED
    BY <2>1
<1> QED
  BY <1>2 DEF PoolAt

\* One pool takes or gives one block, the others keep theirs.
LEMMA PoolsChanged ==
  ASSUME NEW ps, NEW hd, PoolsSound(ps, hd), NEW i \in 1 .. Len(ps), NEW x \in PoolRange(ps[i]),
         NEW q, q.base = ps[i].base, NEW hd2 \in SUBSET Nat, PoolAt(q, hd2), hd2 \ {x} = hd \ {x}
  PROVE  PoolsSound([ps EXCEPT ![i] = q], hd2)
<1> DEFINE n == [ps EXCEPT ![i] = q]
<1>1. /\ ps \in Seq(Pool) /\ hd \subseteq Nat /\ q \in Pool /\ Len(ps) \in Nat /\ Len(ps) > 0
      /\ DOMAIN ps = 1 .. Len(ps)
  <2>1. ps \in Seq(Pool) /\ hd \subseteq Nat /\ q \in Pool /\ Len(ps) > 0
    BY DEF PoolsSound, PoolAt
  <2> QED
    BY <2>1, LenProperties
<1>2. n \in Seq(Pool) /\ Len(n) = Len(ps) /\ n[i] = q /\ \A j \in 1 .. Len(ps) : j # i => n[j] = ps[j]
  BY <1>1, ExceptSeq
<1> HIDE DEF n
<1>3. \A j \in 1 .. Len(ps) : n[j].base = ps[j].base /\ PoolRange(n[j]) = PoolRange(ps[j])
  BY <1>2 DEF PoolRange
<1>4. \A j, k \in 1 .. Len(ps) : j # k => Beside(n[j], n[k])
  BY <1>3 DEF PoolsSound, Beside
<1>5. ASSUME NEW j \in 1 .. Len(ps) PROVE PoolAt(n[j], hd2)
  <2>1. CASE j = i
    BY <1>2, <2>1
  <2>2. CASE j # i
    <3>1. PoolAt(ps[j], hd) /\ Beside(ps[j], ps[i]) /\ ps[j] \in Pool /\ ps[i] \in Pool
      BY <2>2 DEF PoolsSound, PoolAt
    <3>2. ps[j].base \in Nat /\ ps[i].base \in Nat /\ PoolBlocks \in Nat
      BY <3>1, MemoryAssumption DEF Pool
    <3>3. x \notin PoolRange(ps[j])
      <4> DEFINE a == ps[j].base
                 b == ps[i].base
      <4>1. a \in Nat /\ b \in Nat /\ PoolBlocks \in Nat
        BY <3>2
      <4>2. PoolRange(ps[j]) \cap PoolRange(ps[i]) = {}
        <5>1. (a + PoolBlocks <= b \/ b + PoolBlocks <= a)
          BY <3>1 DEF Beside
        <5>2. PoolRange(ps[j]) = a .. a + PoolBlocks - 1 /\ PoolRange(ps[i]) = b .. b + PoolBlocks - 1
          BY DEF PoolRange
        <5> HIDE DEF a, b
        <5> QED
          BY <4>1, <5>1, <5>2
      <4> QED
        BY <4>2
    <3>4. PoolAt(ps[j], hd2)
      BY <1>1, <3>1, <3>3, PoolElsewhere
    <3> QED
      BY <1>2, <2>2, <3>4
  <2> QED
    BY <2>1, <2>2
<1>6. \A j \in 1 .. Len(ps) : n[j].base + PoolBlocks <= PoolBlocks * Len(ps)
  <2>1. \A j \in 1 .. Len(ps) : ps[j].base + PoolBlocks <= PoolBlocks * Len(ps)
    BY DEF PoolsSound
  <2> QED
    BY <1>3, <2>1
<1>7. \A y \in hd2 : \E j \in 1 .. Len(ps) : y \in PoolRange(n[j])
  <2> SUFFICES ASSUME NEW y \in hd2 PROVE \E j \in 1 .. Len(ps) : y \in PoolRange(n[j])
    OBVIOUS
  <2>1. CASE y = x
    BY <1>3, <2>1
  <2>2. CASE y # x
    <3>1. y \in hd
      BY <2>2
    <3>2. PICK j \in 1 .. Len(ps) : y \in PoolRange(ps[j])
      BY <3>1 DEF PoolsSound
    <3> QED
      BY <1>3, <3>2
  <2> QED
    BY <2>1, <2>2
<1>8. PoolsSound(n, hd2)
  BY <1>1, <1>2, <1>4, <1>5, <1>6, <1>7 DEF PoolsSound
<1> QED
  BY <1>8 DEF n

LEMMA NextBase ==
  ASSUME NEW k \in Nat
  PROVE  PoolBlocks * k \in Nat /\ PoolBlocks * (k + 1) = PoolBlocks * k + PoolBlocks
BY MemoryAssumption

LEMMA PoolLinked ==
  ASSUME NEW ps, NEW hd, PoolsSound(ps, hd), NEW p, p = NewPool(PoolBlocks * Len(ps))
  PROVE  /\ PoolsSound(<<Head(ps), p>> \o Tail(ps), hd) /\ 2 \in 1 .. Len(<<Head(ps), p>> \o Tail(ps))
         /\ (<<Head(ps), p>> \o Tail(ps))[2] = p /\ p.free # <<>>
<1> DEFINE L == Len(ps)
           h == Head(ps)
           t == Tail(ps)
           n == <<h, p>> \o t
           from(j) == IF j = 1 THEN 1 ELSE j - 1
<1>1. /\ ps \in Seq(Pool) /\ hd \subseteq Nat /\ L \in Nat /\ L > 0 /\ ps # <<>>
      /\ \A j \in 1 .. L : ps[j] \in Pool
  <2>1. ps \in Seq(Pool) /\ hd \subseteq Nat /\ L > 0
    BY DEF PoolsSound
  <2> QED
    BY <2>1, LenProperties, ElementOfSeq, EmptySeq
<1>2. PoolBlocks * L \in Nat /\ PoolBlocks * (L + 1) = PoolBlocks * L + PoolBlocks /\ PoolBlocks \in Nat
  BY <1>1, NextBase, MemoryAssumption
<1>3. \A j \in 1 .. L : ps[j].base \in Nat /\ ps[j].base + PoolBlocks <= PoolBlocks * L
  BY <1>1 DEF PoolsSound, Pool
<1>4. PoolAt(p, hd) /\ p.base = PoolBlocks * L /\ p.free # <<>> /\ p \in Pool
  <2> DEFINE k == PoolBlocks * L
  <2>1. ASSUME NEW x \in hd PROVE x \notin k .. k + PoolBlocks - 1
    <3>1. PICK j \in 1 .. L : x \in PoolRange(ps[j])
      BY DEF PoolsSound
    <3>2. x <= ps[j].base + PoolBlocks - 1 /\ x \in Int
      BY <1>3, <3>1 DEF PoolRange
    <3>3. k \in Nat /\ ps[j].base \in Nat /\ ps[j].base + PoolBlocks <= k
      BY <1>2, <1>3
    <3> HIDE DEF k
    <3> QED
      BY <1>2, <3>2, <3>3
  <2>2. k \in Nat
    BY <1>2
  <2> HIDE DEF k
  <2>3. p = NewPool(k)
    BY DEF k
  <2>4. PoolAt(NewPool(k), hd) /\ NewPool(k).base = k /\ NewPool(k).free # <<>>
    BY <1>1, <2>1, <2>2, NewPoolSound
  <2> QED
    BY <2>3, <2>4 DEF k, PoolAt
<1>5. /\ h \in Pool /\ h = ps[1] /\ t \in Seq(Pool) /\ Len(t) = L - 1
      /\ \A j \in 1 .. L - 1 : t[j] = ps[j + 1]
  BY <1>1, HeadTailProperties
<1> HIDE DEF h, t, L
<1>6. /\ n \in Seq(Pool) /\ Len(n) = L + 1 /\ n[1] = ps[1] /\ n[2] = p
      /\ \A j \in 3 .. L + 1 : n[j] = ps[j - 1]
  <2> DEFINE s == <<h, p>>
  <2>1. s \in Seq(Pool) /\ Len(s) = 2 /\ s[1] = h /\ s[2] = p
    BY <1>4, <1>5
  <2> HIDE DEF s
  <2>2. /\ s \o t \in Seq(Pool) /\ Len(s \o t) = Len(s) + Len(t)
        /\ \A j \in 1 .. Len(s) + Len(t) : (s \o t)[j] = IF j <= Len(s) THEN s[j] ELSE t[j - Len(s)]
    BY <1>5, <2>1, ConcatProperties
  <2>3. Len(s) + Len(t) = L + 1
    BY <1>1, <1>5, <2>1 DEF L
  <2>4. \A j \in 1 .. L + 1 : (s \o t)[j] = IF j <= 2 THEN s[j] ELSE t[j - 2]
    BY <2>1, <2>2, <2>3
  <2>5. L \in Nat /\ L > 0
    BY <1>1 DEF L
  <2>6. (s \o t)[1] = s[1] /\ (s \o t)[2] = s[2]
    <3>1. 1 \in 1 .. L + 1 /\ 2 \in 1 .. L + 1 /\ 1 <= 2 /\ 2 <= 2
      BY <2>5
    <3>2. (s \o t)[1] = s[1]
      BY <2>4, <3>1
    <3>3. (s \o t)[2] = s[2]
      BY <2>4, <3>1
    <3> QED
      BY <3>2, <3>3
  <2>7. ASSUME NEW j \in 3 .. L + 1 PROVE (s \o t)[j] = ps[j - 1]
    <3>1. j \in 1 .. L + 1 /\ ~(j <= 2) /\ j - 2 \in 1 .. L - 1 /\ j - 2 + 1 = j - 1
      BY <2>5
    <3>2. (s \o t)[j] = t[j - 2] /\ t[j - 2] = ps[j - 2 + 1]
      BY <1>5, <2>4, <3>1
    <3> QED
      BY <3>1, <3>2
  <2>8. n = s \o t
    BY DEF s
  <2> HIDE DEF n
  <2> QED
    BY <1>5, <2>1, <2>2, <2>3, <2>6, <2>7, <2>8
<1> HIDE DEF n
<1>7. L \in Nat /\ L > 0
  BY <1>1 DEF L
<1>8. \A j \in 1 .. L + 1 : j # 2 => n[j] = ps[from(j)] /\ from(j) \in 1 .. L
  BY <1>6, <1>7
<1>9. \A j, k \in 1 .. L + 1 : j # 2 /\ k # 2 /\ j # k => from(j) # from(k)
  BY <1>7
<1>10. \A j \in 1 .. L + 1 : PoolAt(n[j], hd)
  <2>1. \A j \in 1 .. L : PoolAt(ps[j], hd)
    BY DEF PoolsSound, L
  <2> HIDE DEF from
  <2> QED
    BY <1>4, <1>6, <1>8, <2>1
<1>11. \A j \in 1 .. L + 1 : n[j].base + PoolBlocks <= PoolBlocks * (L + 1)
  <2> SUFFICES ASSUME NEW j \in 1 .. L + 1 PROVE n[j].base + PoolBlocks <= PoolBlocks * (L + 1)
    OBVIOUS
  <2> DEFINE m == PoolBlocks * L
  <2>1. m \in Nat /\ PoolBlocks * (L + 1) = m + PoolBlocks /\ PoolBlocks \in Nat
    BY <1>2 DEF L
  <2>2. CASE j = 2
    <3>1. n[j].base = m
      BY <1>4, <1>6, <2>2 DEF L
    <3> HIDE DEF m
    <3> QED
      BY <2>1, <3>1
  <2>3. CASE j # 2
    <3> DEFINE b == n[j].base
    <3>1. b \in Nat /\ b + PoolBlocks <= m
      <4> HIDE DEF from
      <4>1. n[j] = ps[from(j)] /\ from(j) \in 1 .. L
        BY <1>8, <2>3
      <4> QED
        BY <1>3, <4>1 DEF L
    <3> HIDE DEF m, b
    <3>2. b + PoolBlocks <= m + PoolBlocks
      BY <2>1, <3>1
    <3> QED
      BY <2>1, <3>2 DEF b
  <2> QED
    BY <2>2, <2>3
<1>12. ASSUME NEW j \in 1 .. L + 1, NEW k \in 1 .. L + 1, j # k PROVE Beside(n[j], n[k])
  <2> HIDE DEF from
  <2>1. \A i \in 1 .. L : ps[i].base + PoolBlocks <= p.base
    BY <1>3, <1>4 DEF L
  <2>2. CASE j = 2
    <3>1. n[j] = p /\ n[k] = ps[from(k)] /\ from(k) \in 1 .. L
      BY <1>6, <1>8, <1>12, <2>2
    <3> QED
      BY <2>1, <3>1 DEF Beside
  <2>3. CASE k = 2
    <3>1. n[k] = p /\ n[j] = ps[from(j)] /\ from(j) \in 1 .. L
      BY <1>6, <1>8, <1>12, <2>3
    <3> QED
      BY <2>1, <3>1 DEF Beside
  <2>4. CASE j # 2 /\ k # 2
    <3>1. /\ n[j] = ps[from(j)] /\ n[k] = ps[from(k)] /\ from(j) # from(k)
          /\ from(j) \in 1 .. L /\ from(k) \in 1 .. L
      BY <1>8, <1>9, <1>12, <2>4
    <3>2. Beside(ps[from(j)], ps[from(k)])
      BY <3>1 DEF PoolsSound, L
    <3> QED
      BY <3>1, <3>2
  <2> QED
    BY <2>2, <2>3, <2>4
<1>13. ASSUME NEW y \in hd PROVE \E j \in 1 .. L + 1 : y \in PoolRange(n[j])
  <2>1. PICK i \in 1 .. L : y \in PoolRange(ps[i])
    BY DEF PoolsSound, L
  <2>2. CASE i = 1
    <3>1. 1 \in 1 .. L + 1
      BY <1>7
    <3> QED
      BY <1>6, <2>1, <2>2, <3>1
  <2>3. CASE i # 1
    <3>1. i + 1 \in 3 .. L + 1 /\ i + 1 \in 1 .. L + 1 /\ i + 1 - 1 = i
      BY <1>7, <2>3
    <3> QED
      BY <1>6, <2>1, <3>1
  <2> QED
    BY <2>2, <2>3
<1>14. PoolsSound(n, hd)
  <2>1. Len(n) = L + 1 /\ Len(n) > 0
    BY <1>6, <1>7
  <2>2. n \in Seq(Pool) /\ hd \subseteq Nat
    BY <1>1, <1>6
  <2> QED
    BY <1>10, <1>11, <1>12, <1>13, <2>1, <2>2 DEF PoolsSound
<1>15. 2 \in 1 .. Len(n)
  BY <1>6, <1>7
<1> QED
  BY <1>4, <1>6, <1>14, <1>15 DEF n, h, t

\* A pool with a free block hands out the first.
LEMMA TakeSound ==
  ASSUME NEW ps, NEW hd, PoolsSound(ps, hd), NEW i \in 1 .. Len(ps), ps[i].free # <<>>
  PROVE  PoolsSound(Take(ps, i), hd \cup {Head(ps[i].free)})
<1> DEFINE p == ps[i]
           q == PoolRecord(p.base, p.used + 1, Tail(p.free))
           h == Head(p.free)
           hd2 == hd \cup {h}
<1>1. PoolAt(p, hd) /\ hd \subseteq Nat /\ p.free # <<>>
  BY DEF PoolsSound
<1>2. h \in PoolRange(p) /\ h \notin hd /\ h \in Nat /\ q.base = p.base /\ PoolAt(q, hd2)
  <2> HIDE DEF p, q
  <2>1. q = PoolRecord(p.base, p.used + 1, Tail(p.free))
    BY DEF q
  <2>2. hd \in SUBSET Nat
    BY <1>1
  <2>3. HandedOut(hd, p, q)
    BY <1>1, <2>1, <2>2, PoolTakes
  <2> QED
    BY <2>3 DEF HandedOut
<1>3. hd2 \subseteq Nat /\ hd2 \ {h} = hd \ {h}
  BY <1>1, <1>2
<1> HIDE DEF q, h, hd2
<1>4. PoolsSound([ps EXCEPT ![i] = q], hd2)
  BY <1>2, <1>3, PoolsChanged
<1> QED
  BY <1>4 DEF Take, PoolRecord, q, h, hd2

LEMMA AllocPool ==
  ASSUME PoolsSound(pools, held), pool_alloc
  PROVE  PoolsSound(pools', held')
<1>1. pools \in Seq(Pool) /\ Len(pools) \in Nat /\ DOMAIN pools = 1 .. Len(pools)
  <2>1. pools \in Seq(Pool)
    BY DEF PoolsSound
  <2> QED
    BY <2>1, LenProperties
<1>2. CASE WithRoom # {} /\ pools' = Take(pools, FirstPool) /\ held' = held \cup {Head(pools[FirstPool].free)}
  <2> DEFINE f == FirstPool
  <2>1. f \in WithRoom
    <3>1. WithRoom \subseteq Nat
      BY <1>1 DEF WithRoom
    <3>2. \E i \in WithRoom : \A j \in WithRoom : i <= j
      BY <1>2, <3>1, LeastNumber
    <3> QED
      BY <3>2 DEF FirstPool
  <2>2. pools' = Take(pools, f) /\ held' = held \cup {Head(pools[f].free)}
    BY <1>2
  <2> HIDE DEF f
  <2>3. f \in 1 .. Len(pools) /\ pools[f].free # <<>>
    BY <1>1, <2>1 DEF WithRoom
  <2>4. PoolsSound(Take(pools, f), held \cup {Head(pools[f].free)})
    BY <2>3, TakeSound
  <2> QED
    BY <2>2, <2>4
<1>3. ASSUME NEW p, p = NewPool(PoolBlocks * Len(pools)),
             pools' = Take(<<Head(pools), p>> \o Tail(pools), 2), held' = held \cup {Head(p.free)}
      PROVE  PoolsSound(pools', held')
  <2> DEFINE n == <<Head(pools), p>> \o Tail(pools)
  <2>1. PoolsSound(n, held) /\ 2 \in 1 .. Len(n) /\ n[2] = p /\ p.free # <<>>
    BY <1>3, PoolLinked
  <2>2. pools' = Take(n, 2)
    BY <1>3
  <2> HIDE DEF n
  <2>3. n[2].free # <<>>
    BY <2>1
  <2>4. PoolsSound(Take(n, 2), held \cup {Head(n[2].free)})
    BY <2>1, <2>3, TakeSound
  <2>5. held' = held \cup {Head(n[2].free)}
    BY <1>3, <2>1
  <2> QED
    BY <2>2, <2>4, <2>5
<1> QED
  BY <1>2, <1>3 DEF pool_alloc

LEMMA FreePool ==
  ASSUME PoolsSound(pools, held), NEW x \in held, pool_free(x)
  PROVE  PoolsSound(pools', held')
<1> DEFINE i == CHOOSE j \in DOMAIN pools : pool_owns(pools[j], x)
           p == pools[i]
           q == PoolRecord(p.base, p.used - 1, <<x>> \o p.free)
           hd2 == held \ {x}
<1>1. /\ pools \in Seq(Pool) /\ Len(pools) \in Nat /\ DOMAIN pools = 1 .. Len(pools)
      /\ held \subseteq Nat /\ x \in Nat /\ \A j \in 1 .. Len(pools) : pools[j] \in Pool
  <2>1. pools \in Seq(Pool) /\ held \subseteq Nat
    BY DEF PoolsSound
  <2> QED
    BY <2>1, LenProperties, ElementOfSeq
<1>2. \A j \in 1 .. Len(pools) : pool_owns(pools[j], x) <=> x \in PoolRange(pools[j])
  BY <1>1, PoolIs
<1>3. i \in 1 .. Len(pools) /\ x \in PoolRange(p)
  <2>1. \E j \in DOMAIN pools : pool_owns(pools[j], x)
    BY <1>1, <1>2 DEF PoolsSound
  <2>2. i \in DOMAIN pools /\ pool_owns(pools[i], x)
    BY <2>1
  <2> HIDE DEF i
  <2> QED
    BY <1>1, <1>2, <2>2
<1>4. pools' = [pools EXCEPT ![i] = q] /\ held' = hd2
  <2> HIDE DEF i
  <2>1. pools' = [pools EXCEPT ![i] = [base |-> pools[i].base, used |-> pools[i].used - 1,
                                       free |-> <<x>> \o pools[i].free]]
    BY DEF pool_free, i
  <2> QED
    BY <2>1 DEF PoolRecord, pool_free
<1> HIDE DEF i
<1>5. PoolAt(p, held)
  BY <1>3 DEF PoolsSound
<1>6. q.base = p.base /\ PoolAt(q, hd2)
  <2>1. q = PoolRecord(p.base, p.used - 1, <<x>> \o p.free)
    OBVIOUS
  <2>2. held \in SUBSET Nat /\ x \in PoolRange(p)
    BY <1>1, <1>3
  <2> HIDE DEF p, q
  <2>3. q.base = p.base /\ PoolAt(q, held \ {x})
    BY <1>5, <2>1, <2>2, PoolGets
  <2> QED
    BY <2>3
<1>7. hd2 \subseteq Nat /\ hd2 \ {x} = held \ {x}
  BY <1>1
<1> HIDE DEF q, hd2
<1>8. PoolsSound([pools EXCEPT ![i] = q], hd2)
  BY <1>3, <1>6, <1>7, PoolsChanged
<1> QED
  BY <1>4, <1>8

LEMMA ResetPools ==
  ASSUME PoolsSound(pools, held), pool_reset
  PROVE  PoolsSound(pools', held')
<1> DEFINE L == Len(pools)
           n == [i \in 1 .. L |-> NewPool(pools[i].base)]
<1>1. /\ pools \in Seq(Pool) /\ L \in Nat /\ L > 0 /\ DOMAIN pools = 1 .. L
      /\ \A j \in 1 .. L : pools[j] \in Pool /\ pools[j].base \in Nat
  <2>1. pools \in Seq(Pool) /\ L > 0
    BY DEF PoolsSound
  <2>2. \A j \in 1 .. L : pools[j] \in Pool
    BY <2>1, ElementOfSeq
  <2> QED
    BY <2>1, <2>2, LenProperties DEF Pool
<1>2. pools' = n /\ held' = {}
  BY <1>1 DEF pool_reset
<1>3. ASSUME NEW i \in 1 .. L PROVE n[i] = NewPool(pools[i].base) /\ PoolAt(n[i], {}) /\ n[i].base = pools[i].base
  <2> DEFINE k == pools[i].base
  <2>1. k \in Nat
    BY <1>1
  <2> HIDE DEF k
  <2>2. {} \in SUBSET Nat /\ \A x \in {} : x \notin k .. k + PoolBlocks - 1
    OBVIOUS
  <2>3. PoolAt(NewPool(k), {}) /\ NewPool(k).base = k
    BY <2>1, <2>2, NewPoolSound
  <2> QED
    BY <2>3 DEF k
<1>4. n \in Seq(Pool) /\ Len(n) = L
  <2>1. \A i \in 1 .. L : n[i] \in Pool
    BY <1>3 DEF PoolAt
  <2>2. n = [i \in 1 .. L |-> n[i]]
    BY <1>3
  <2> HIDE DEF n
  <2>3. n \in [1 .. L -> Pool]
    BY <2>1, <2>2
  <2>4. n \in Seq(Pool) /\ DOMAIN n = 1 .. L
    BY <1>1, <2>3, SeqDef
  <2> QED
    BY <1>1, <2>4, LenProperties
<1> HIDE DEF n
<1>5. \A i, j \in 1 .. L : i # j => Beside(n[i], n[j])
  BY <1>3 DEF PoolsSound, Beside
<1>6. \A i \in 1 .. L : n[i].base + PoolBlocks <= PoolBlocks * L
  <2>1. \A i \in 1 .. L : pools[i].base + PoolBlocks <= PoolBlocks * L
    BY DEF PoolsSound
  <2> QED
    BY <1>3, <2>1
<1>7. PoolsSound(n, {})
  BY <1>1, <1>3, <1>4, <1>5, <1>6 DEF PoolsSound
<1> QED
  BY <1>2, <1>7

-----------------------------------------------------------------------------
(* The invariant. *)

MemInv == SpaceInv /\ PoolsSound(pools, held)

LEMMA InitMem == session_memory_create => MemInv
<1> SUFFICES ASSUME session_memory_create PROVE MemInv
  OBVIOUS
<1> DEFINE one(a) == IF a = "session" THEN 1 ELSE 2
<1>0. 1 \in BlockId /\ 2 \in BlockId /\ BlockSize \in Nat /\ PoolBlocks \in Nat /\ PoolBlocks > 0
  BY MemoryAssumption
<1>1. /\ arena = [a \in Arenas |-> [chain |-> <<one(a)>>, cur |-> 1, total_used |-> 0,
                                    total_allocated |-> BlockSize, lost |-> {}]]
      /\ blk = [b \in BlockId |-> FreshBlock(BlockSize)]
      /\ pools = <<NewPool(0)>> /\ live = {} /\ held = {} /\ mark = NoMark
  BY DEF session_memory_create
<1>2. blk \in [BlockId -> Blk] /\ \A b \in BlockId : blk[b].used = 0 /\ blk[b].size = BlockSize
  <2> DEFINE y == FreshBlock(BlockSize)
  <2>1. y \in Blk /\ y.used = 0 /\ y.size = BlockSize
    BY <1>0 DEF FreshBlock, Blk
  <2>2. blk = [b \in BlockId |-> y]
    BY <1>1
  <2> HIDE DEF y
  <2> QED
    BY <2>1, <2>2
<1>3. ASSUME NEW a \in Arenas
      PROVE  arena[a] \in Arena /\ ArenaSound(arena[a], blk) /\ Blocks(arena[a]) = {one(a)}
  <2> DEFINE x == one(a)
             s == <<x>>
             ar == ArenaOf(s, 1, 0, BlockSize, {})
  <2>1. arena[a] = ar
    BY <1>1 DEF ArenaOf
  <2>2. x \in BlockId
    BY <1>0
  <2> HIDE DEF x
  <2>3. s \in Seq(BlockId) /\ Len(s) = 1 /\ s[1] = x /\ DOMAIN s = 1 .. 1
    BY <2>2
  <2>4. ToSet(s) = {x} /\ IsInjective(s)
    <3> HIDE DEF s
    <3> QED
      BY <2>3 DEF ToSet, IsInjective
  <2>5. /\ ar.chain = s /\ ar.cur = 1 /\ ar.total_used = 0 /\ ar.total_allocated = BlockSize
        /\ ar.lost = {} /\ ar \in Arena
    <3> HIDE DEF s
    <3> QED
      BY <1>0, <2>3 DEF ArenaOf, Arena
  <2> HIDE DEF s, ar
  <2>6. Blocks(ar) = {x}
    BY <2>4, <2>5 DEF Blocks
  <2>7. ChainSound(s, 1, blk)
    BY <2>3, <2>4 DEF ChainSound
  <2>8. /\ SumFunctionOnSet(UsedAt(blk), {x}) = 0
        /\ SumFunctionOnSet(SizeAtBlock(blk), {x}) = BlockSize
    <3> DEFINE f == UsedAt(blk)
               g == SizeAtBlock(blk)
    <3>1. f[x] = 0 /\ g[x] = BlockSize
      BY <1>2, <2>2, BlockAt
    <3> HIDE DEF f, g
    <3>2. IsFiniteSet({x}) /\ {x} \ {x} = {}
      BY FS_Singleton
    <3>3. SumFunctionOnSet(f, {x}) = f[x] + SumFunctionOnSet(f, {x} \ {x})
      BY <3>1, <3>2, SumTakesOut
    <3>4. SumFunctionOnSet(g, {x}) = g[x] + SumFunctionOnSet(g, {x} \ {x})
      BY <1>0, <3>1, <3>2, SumTakesOut
    <3>5. SumFunctionOnSet(f, {}) = 0 /\ SumFunctionOnSet(g, {}) = 0
      BY SumOfNone
    <3>6. SumFunctionOnSet(f, {x}) = 0
      BY <3>1, <3>2, <3>3, <3>5
    <3>7. SumFunctionOnSet(g, {x}) = BlockSize
      BY <1>0, <3>1, <3>2, <3>4, <3>5
    <3> QED
      BY <3>6, <3>7 DEF f, g
  <2>9. ArenaSound(ar, blk)
    BY <2>4, <2>5, <2>6, <2>7, <2>8 DEF ArenaSound
  <2> QED
    BY <2>1, <2>5, <2>6, <2>9 DEF x
<1>4. \A a, o \in Arenas : a # o => one(a) # one(o)
  BY DEF Arenas
<1>5. arena \in [Arenas -> Arena]
  <2>1. arena = [a \in Arenas |-> arena[a]]
    BY <1>1
  <2> QED
    BY <1>3, <2>1
<1>6. \A a, o \in Arenas : a # o => Blocks(arena[a]) \cap Blocks(arena[o]) = {}
  <2> HIDE DEF one
  <2> QED
    BY <1>3, <1>4
<1>7. Spaces(arena, blk)
  BY <1>2, <1>3, <1>5, <1>6 DEF Spaces
<1>8. LiveSound(arena, blk, live)
  BY <1>1 DEF LiveSound
<1>9. MarkSound(arena, mark)
  BY <1>1 DEF MarkSound, NoMark
<1>10. PoolsSound(pools, held)
  <2> DEFINE p == NewPool(0)
             s == <<p>>
  <2>1. {} \in SUBSET Nat /\ 0 \in Nat /\ \A x \in {} : x \notin 0 .. 0 + PoolBlocks - 1
    OBVIOUS
  <2>2. PoolAt(NewPool(0), {}) /\ NewPool(0).base = 0
    BY <2>1, NewPoolSound
  <2>3. p \in Pool
    BY <2>2 DEF PoolAt
  <2> HIDE DEF p
  <2>4. s \in Seq(Pool) /\ Len(s) = 1 /\ s[1] = p
    BY <2>3
  <2>5. PoolAt(p, {}) /\ p.base = 0
    BY <2>2 DEF p
  <2>6. p.base + PoolBlocks <= PoolBlocks * 1
    BY <1>0, <2>5
  <2> HIDE DEF s
  <2>7. \A i \in 1 .. 1 : i = 1
    OBVIOUS
  <2>8. PoolsSound(s, {})
    BY <2>4, <2>5, <2>6, <2>7 DEF PoolsSound
  <2> QED
    BY <1>1, <2>8 DEF s, p
<1> QED
  BY <1>7, <1>8, <1>9, <1>10 DEF MemInv, SpaceInv

LEMMA SessionAllocKeeps ==
  ASSUME MemInv, NEW n \in Size, session_alloc(n)
  PROVE  MemInv'
<1>1. n \in Nat /\ n > 0 /\ "session" \in Arenas
  BY MemoryAssumption DEF Arenas
<1>2. CASE pool_alloc /\ UNCHANGED <<arena, blk, live, mark>>
  <2>1. PoolsSound(pools', held')
    BY <1>2, AllocPool DEF MemInv
  <2> QED
    BY <1>2, <2>1 DEF MemInv, SpaceInv
<1>3. CASE arena_alloc("session", n) /\ UNCHANGED <<pools, held, mark>>
  <2>1. Spaces(arena', blk') /\ LiveSound(arena', blk', live') /\ MarkSound(arena', mark)
    BY <1>1, <1>3, ArenaAlloc DEF MemInv
  <2> QED
    BY <1>3, <2>1 DEF MemInv, SpaceInv
<1>4. CASE NoMemory
  BY <1>4 DEF NoMemory, MemInv, SpaceInv
<1> QED
  BY <1>2, <1>3, <1>4 DEF session_alloc

LEMMA QueryAllocKeeps ==
  ASSUME MemInv, NEW n \in Size, session_alloc_query(n)
  PROVE  MemInv'
<1>1. n \in Nat /\ n > 0 /\ "query" \in Arenas
  BY MemoryAssumption DEF Arenas
<1>2. CASE arena_alloc("query", n) /\ UNCHANGED <<pools, held, mark>>
  <2>1. Spaces(arena', blk') /\ LiveSound(arena', blk', live') /\ MarkSound(arena', mark)
    BY <1>1, <1>2, ArenaAlloc DEF MemInv
  <2> QED
    BY <1>2, <2>1 DEF MemInv, SpaceInv
<1>3. CASE NoMemory
  BY <1>3 DEF NoMemory, MemInv, SpaceInv
<1> QED
  BY <1>2, <1>3 DEF session_alloc_query

LEMMA NextMem == MemInv /\ [MemNext]_mvars => MemInv'
<1> SUFFICES ASSUME MemInv, [MemNext]_mvars PROVE MemInv'
  OBVIOUS
<1>0. SpaceInv /\ PoolsSound(pools, held) /\ "query" \in Arenas
  BY DEF MemInv, Arenas
<1>1. ASSUME NEW n \in Size, session_alloc(n) PROVE MemInv'
  BY <1>1, SessionAllocKeeps
<1>2. ASSUME NEW n \in Size, session_alloc_query(n) PROVE MemInv'
  BY <1>2, QueryAllocKeeps
<1>3. CASE session_memory_reset_query
  <2>1. arena_reset("query") /\ mark' = NoMark /\ UNCHANGED <<pools, held>>
    BY <1>3 DEF session_memory_reset_query
  <2>2. Spaces(arena', blk') /\ LiveSound(arena', blk', live') /\ MarkSound(arena', NoMark)
    BY <1>0, <2>1, ResetSpace
  <2> QED
    BY <1>0, <2>1, <2>2 DEF MemInv, SpaceInv
<1>4. CASE ClearSession
  <2>1. arena_clear("session") /\ UNCHANGED <<pools, held, mark>>
    BY <1>4 DEF ClearSession
  <2>2. Spaces(arena', blk') /\ LiveSound(arena', blk', live') /\ MarkSound(arena', mark)
    BY <1>0, <2>1, ClearSpace
  <2> QED
    BY <1>0, <2>1, <2>2 DEF MemInv, SpaceInv
<1>5. CASE arena_checkpoint
  <2>1. MarkSound(arena, mark')
    BY <1>0, <1>5, CheckpointSpace
  <2>2. UNCHANGED <<arena, blk, pools, live, held>>
    BY <1>5 DEF arena_checkpoint
  <2> QED
    BY <1>0, <2>1, <2>2 DEF MemInv, SpaceInv
<1>6. CASE arena_restore
  <2>1. Spaces(arena', blk') /\ LiveSound(arena', blk', live')
    BY <1>0, <1>6, RestoreSpace
  <2>2. mark' = NoMark /\ UNCHANGED <<pools, held>>
    BY <1>6 DEF arena_restore
  <2>3. MarkSound(arena', mark')
    BY <2>2 DEF MarkSound, NoMark
  <2> QED
    BY <1>0, <2>1, <2>2, <2>3 DEF MemInv, SpaceInv
<1>7. ASSUME NEW x \in held, pool_free(x) PROVE MemInv'
  <2>1. PoolsSound(pools', held')
    BY <1>0, <1>7, FreePool
  <2>2. UNCHANGED <<arena, blk, live, mark>>
    BY <1>7 DEF pool_free
  <2> QED
    BY <1>0, <2>1, <2>2 DEF MemInv, SpaceInv
<1>8. CASE pool_reset
  <2>1. PoolsSound(pools', held')
    BY <1>0, <1>8, ResetPools
  <2>2. UNCHANGED <<arena, blk, live, mark>>
    BY <1>8 DEF pool_reset
  <2> QED
    BY <1>0, <2>1, <2>2 DEF MemInv, SpaceInv
<1>9. CASE UNCHANGED mvars
  BY <1>0, <1>9 DEF mvars, MemInv, SpaceInv
<1> QED
  BY <1>1, <1>2, <1>3, <1>4, <1>5, <1>6, <1>7, <1>8, <1>9 DEF MemNext

LEMMA MemFollows == MemInv => MemorySound
<1> SUFFICES ASSUME MemInv PROVE MemorySound
  OBVIOUS
<1>0. /\ Spaces(arena, blk) /\ LiveSound(arena, blk, live) /\ PoolsSound(pools, held)
  BY DEF MemInv, SpaceInv
<1>1. ASSUME NEW x \in live
      PROVE  /\ x.block \in ToSet(arena[x.arena].chain)
             /\ x.from + x.len <= blk[x.block].used
             /\ \A y \in live : x.block = y.block /\ x # y
                                => x.from + x.len <= y.from \/ y.from + y.len <= x.from
  BY <1>0 DEF LiveSound, LiveAt, Apart
<1>2. ASSUME NEW a \in Arenas
      PROVE  /\ arena[a].total_used = UsedIn(arena[a], blk)
             /\ arena[a].total_allocated = SizeOf(ToSet(arena[a].chain) \cup arena[a].lost)
  <2>1. ArenaSound(arena[a], blk)
    BY <1>0 DEF Spaces
  <2> QED
    BY <2>1 DEF ArenaSound, UsedIn, UsedAt, SizeOf, SizeAtBlock, Blocks
<1>3. ASSUME NEW i \in DOMAIN pools
      PROVE  LET own == {x \in held : pool_owns(pools[i], x)}
             IN  /\ ToSet(pools[i].free) \cup own = pools[i].base .. pools[i].base + PoolBlocks - 1
                 /\ ToSet(pools[i].free) \cap own = {}
                 /\ pools[i].used = Cardinality(own)
  <2>1. DOMAIN pools = 1 .. Len(pools)
    <3>1. pools \in Seq(Pool)
      BY <1>0 DEF PoolsSound
    <3> QED
      BY <3>1, LenProperties
  <2>2. PoolAt(pools[i], held)
    BY <1>0, <2>1 DEF PoolsSound
  <2> QED
    BY <2>2 DEF PoolAt, Own, PoolRange
<1> QED
  BY <1>1, <1>2, <1>3 DEF MemorySound

\* Memory: whatever is live in an arena or a pool, or tracked by the checked
\* allocator, is handed out once, and the counters are those of what is held.
THEOREM MemoryCorrect == memory_init /\ [][MemoryNext]_allocvars => []MemoryAccounted
<1> DEFINE Both == MemInv /\ SafeInv
<1>1. memory_init => Both
  BY InitMem, InitSafe DEF memory_init
<1>2. Both /\ [MemoryNext]_allocvars => Both'
  <2> SUFFICES ASSUME Both, [MemoryNext]_allocvars PROVE Both'
    OBVIOUS
  <2>1. [MemNext]_mvars /\ [SafeNext]_svars
    BY DEF MemoryNext, allocvars
  <2>2. MemInv'
    BY <2>1, NextMem
  <2>3. SafeInv'
    BY <2>1, NextSafe
  <2> QED
    BY <2>2, <2>3
<1>3. Both => MemoryAccounted
  BY MemFollows, SafeFollows DEF MemoryAccounted
<1> HIDE DEF Both
<1> QED
  BY <1>1, <1>2, <1>3, PTL
=============================================================================
