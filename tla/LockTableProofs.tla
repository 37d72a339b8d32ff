--------------------------- MODULE LockTableProofs ---------------------------
(***************************************************************************)
(* Proofs about LockTable, for every set of transactions, resources and    *)
(* cells, every hash and with or without early releases: types, soundness  *)
(* of the chains, that an exclusive entry has its resource to itself, that *)
(* no entry outlives its transaction, and that granted locks are kept.     *)
(***************************************************************************)
EXTENDS LockTable, SequenceTheorems, TLAPS

Inv == TypeOK /\ ChainsSound /\ ExclusiveEntryAlone

-----------------------------------------------------------------------------
(* Sequences. *)

LEMMA UnlinkProperties ==
  ASSUME NEW S, NEW c \in Seq(S), NEW i \in 1 .. Len(c)
  PROVE  /\ Unlink(c, i) \in Seq(S)
         /\ Len(Unlink(c, i)) = Len(c) - 1
         /\ \A j \in 1 .. Len(c) - 1 :
              Unlink(c, i)[j] = c[IF j < i THEN j ELSE j + 1]
<1> DEFINE a == SubSeq(c, 1, i - 1)
           b == SubSeq(c, i + 1, Len(c))
<1>1. Len(c) \in Nat
  BY LenProperties
<1>2. a \in Seq(S) /\ Len(a) = i - 1 /\ \A j \in 1 .. i - 1 : a[j] = c[j]
  BY <1>1, SubSeqProperties
<1>3. /\ b \in Seq(S) /\ Len(b) = Len(c) - i
      /\ \A j \in 1 .. Len(c) - i : b[j] = c[i + j]
  BY <1>1, SubSeqProperties
<1>4. /\ a \o b \in Seq(S) /\ Len(a \o b) = Len(a) + Len(b)
      /\ \A j \in 1 .. Len(a) + Len(b) :
           (a \o b)[j] = IF j <= Len(a) THEN a[j] ELSE b[j - Len(a)]
  BY <1>2, <1>3, ConcatProperties
<1>5. Unlink(c, i) = a \o b
  BY DEF Unlink
<1> HIDE DEF a, b
<1>6. ASSUME NEW j \in 1 .. Len(c) - 1
      PROVE  (a \o b)[j] = c[IF j < i THEN j ELSE j + 1]
  <2>1. CASE j < i
    BY <1>1, <1>2, <1>3, <1>4, <2>1
  <2>2. CASE ~ (j < i)
    <3>1. /\ j - (i - 1) \in 1 .. Len(c) - i /\ i + (j - (i - 1)) = j + 1
          /\ j \in 1 .. Len(a) + Len(b) /\ ~ (j <= Len(a))
      BY <1>1, <1>2, <1>3, <2>2
    <3>2. (a \o b)[j] = b[j - (i - 1)]
      BY <1>2, <1>4, <3>1
    <3>3. b[j - (i - 1)] = c[j + 1]
      BY <1>3, <3>1
    <3> QED
      BY <2>2, <3>2, <3>3
  <2> QED
    BY <2>1, <2>2
<1>7. Len(a) + Len(b) = Len(c) - 1
  BY <1>1, <1>2, <1>3
<1> QED
  BY <1>4, <1>5, <1>6, <1>7

\* c with one element more, at place p, the others in their order.
Inserted(n, c, a, p, g) ==
  /\ p \in 1 .. Len(n) /\ n[p] = a
  /\ \A j \in 1 .. Len(n) : j # p => g[j] \in 1 .. Len(c) /\ n[j] = c[g[j]]
  /\ \A j, k \in 1 .. Len(n) : j # p /\ k # p /\ g[j] = g[k] => j = k

LEMMA AppendInserts ==
  ASSUME NEW S, NEW c \in Seq(S), NEW a \in S
  PROVE  /\ Append(c, a) \in Seq(S)
         /\ \E g : Inserted(Append(c, a), c, a, Len(c) + 1, g)
<1> DEFINE n == Append(c, a)
           g == [j \in 1 .. Len(c) + 1 |-> j]
<1>1. /\ n \in Seq(S) /\ Len(n) = Len(c) + 1 /\ n[Len(c) + 1] = a
      /\ \A j \in 1 .. Len(c) : n[j] = c[j]
      /\ Len(c) \in Nat
  BY AppendProperties, LenProperties
<1>2. ASSUME NEW j \in 1 .. Len(n), j # Len(c) + 1
      PROVE  g[j] \in 1 .. Len(c) /\ n[j] = c[g[j]]
  BY <1>1, <1>2
<1>3. ASSUME NEW j \in 1 .. Len(n), NEW k \in 1 .. Len(n), g[j] = g[k]
      PROVE  j = k
  BY <1>1, <1>3
<1> HIDE DEF n, g
<1>4. Inserted(n, c, a, Len(c) + 1, g)
  BY <1>1, <1>2, <1>3 DEF Inserted
<1> QED
  BY <1>1, <1>4 DEF n

LEMMA PrependInserts ==
  ASSUME NEW S, NEW c \in Seq(S), NEW a \in S
  PROVE  /\ <<a>> \o c \in Seq(S)
         /\ \E g : Inserted(<<a>> \o c, c, a, 1, g)
<1> DEFINE n == <<a>> \o c
           g == [j \in 1 .. Len(c) + 1 |-> j - 1]
<1>1. <<a>> \in Seq(S) /\ Len(<<a>>) = 1 /\ <<a>>[1] = a /\ Len(c) \in Nat
  BY LenProperties
<1>2. /\ n \in Seq(S) /\ Len(n) = 1 + Len(c)
      /\ \A j \in 1 .. 1 + Len(c) :
           n[j] = IF j <= 1 THEN <<a>>[j] ELSE c[j - 1]
  <2>1. /\ n \in Seq(S) /\ Len(n) = Len(<<a>>) + Len(c)
        /\ \A j \in 1 .. Len(<<a>>) + Len(c) :
             n[j] = IF j <= Len(<<a>>) THEN <<a>>[j] ELSE c[j - Len(<<a>>)]
    BY <1>1, ConcatProperties
  <2> QED
    BY <1>1, <2>1
<1> HIDE DEF n
<1>3. n[1] = a /\ \A j \in 2 .. 1 + Len(c) : n[j] = c[j - 1]
  BY <1>1, <1>2
<1>4. ASSUME NEW j \in 1 .. Len(n), j # 1
      PROVE  g[j] \in 1 .. Len(c) /\ n[j] = c[g[j]]
  BY <1>1, <1>2, <1>3, <1>4
<1>5. ASSUME NEW j \in 1 .. Len(n), NEW k \in 1 .. Len(n), g[j] = g[k]
      PROVE  j = k
  BY <1>1, <1>2, <1>5
<1> HIDE DEF g
<1>6. Inserted(n, c, a, 1, g)
  BY <1>1, <1>2, <1>3, <1>4, <1>5 DEF Inserted
<1> QED
  BY <1>2, <1>6 DEF n

-----------------------------------------------------------------------------
(* The table. *)

LEMMA CellOf ==
  ASSUME TypeOK, ChainsSound, NEW b \in Bucket, NEW i \in 1 .. Len(chain[b])
  PROVE  /\ chain[b][i] \in Addr
         /\ heap[chain[b][i]] \in LockEntry
         /\ Hash[heap[chain[b][i]].res] = b
<1>1. chain[b] \in Seq(Addr)
  BY DEF TypeOK
<1>2. chain[b][i] \in Addr
  BY <1>1
<1> QED
  BY <1>2 DEF TypeOK, ChainsSound

\* A cell of a chain is in no other chain and at no other place.
LEMMA OnePlace ==
  ASSUME TypeOK, ChainsSound, NEW b \in Bucket, NEW d \in Bucket,
         NEW i \in 1 .. Len(chain[b]), NEW j \in 1 .. Len(chain[d]),
         chain[b][i] = chain[d][j]
  PROVE  b = d /\ i = j
<1>1. b = d
  BY CellOf
<1> QED
  BY <1>1 DEF ChainsSound

LEMMA UnusedNowhere ==
  ASSUME NEW a \in Unused, NEW b \in Bucket, NEW i \in 1 .. Len(chain[b])
  PROVE  chain[b][i] # a
BY DEF Unused, Live, ElementsOf

LEMMA OnIs ==
  ASSUME NEW r \in Resource, NEW a
  PROVE  a \in On(r) <=> /\ \E i \in 1 .. Len(chain[Hash[r]]) :
                              chain[Hash[r]][i] = a
                         /\ heap[a].res = r
BY DEF On, ElementsOf

\* A cell is added for resource r. It may join others only if it and they
\* are all weak.
LEMMA AddCell ==
  ASSUME Inv, NEW r \in Resource, NEW a \in Unused, NEW e \in LockEntry,
         e.res = r, NEW n \in Seq(Addr), NEW p, NEW g,
         Inserted(n, chain[Hash[r]], a, p, g),
         heap' = [heap EXCEPT ![a] = e],
         chain' = [chain EXCEPT ![Hash[r]] = n],
         \/ On(r) = {}
         \/ /\ e.mode \in {SHARED, UPDATE}
            /\ \A x \in On(r) : heap[x].mode \in {SHARED, UPDATE}
  PROVE  /\ heap' \in [Addr -> LockEntry \cup {Free}]
         /\ chain' \in [Bucket -> Seq(Addr)]
         /\ ChainsSound' /\ ExclusiveEntryAlone'
<1> DEFINE b == Hash[r]
<1>1. /\ TypeOK /\ ChainsSound /\ ExclusiveEntryAlone
      /\ b \in Bucket /\ a \in Addr
      /\ Free \notin LockEntry
      /\ heap \in [Addr -> LockEntry \cup {Free}]
      /\ chain \in [Bucket -> Seq(Addr)]
  BY LockAssumption DEF Inv, Unused, TypeOK
<1>2. /\ heap' \in [Addr -> LockEntry \cup {Free}]
      /\ chain' \in [Bucket -> Seq(Addr)]
      /\ heap'[a] = e /\ chain'[b] = n
      /\ \A x \in Addr : x # a => heap'[x] = heap[x]
      /\ \A d \in Bucket : d # b => chain'[d] = chain[d]
  BY <1>1
<1>3. \A d \in Bucket : \A i \in 1 .. Len(chain[d]) :
        /\ chain[d][i] # a /\ chain[d][i] \in Addr
        /\ heap'[chain[d][i]] = heap[chain[d][i]]
        /\ heap[chain[d][i]] \in LockEntry
        /\ Hash[heap[chain[d][i]].res] = d
  BY <1>1, <1>2, CellOf, UnusedNowhere
<1>4. /\ p \in 1 .. Len(n) /\ n[p] = a
      /\ \A j \in 1 .. Len(n) :
           j # p => g[j] \in 1 .. Len(chain[b]) /\ n[j] = chain[b][g[j]]
      /\ \A j, k \in 1 .. Len(n) : j # p /\ k # p /\ g[j] = g[k] => j = k
  BY DEF Inserted
<1>5. ChainsSound'
  <2> SUFFICES ASSUME NEW d \in Bucket, NEW i \in 1 .. Len(chain'[d])
               PROVE  /\ heap'[chain'[d][i]] # Free
                      /\ Hash[heap'[chain'[d][i]].res] = d
                      /\ \A j \in 1 .. Len(chain'[d]) :
                           chain'[d][i] = chain'[d][j] => i = j
    BY DEF ChainsSound
  <2>1. CASE d # b
    <3>1. chain'[d] = chain[d]
      BY <1>2, <2>1
    <3>2. heap'[chain[d][i]] = heap[chain[d][i]]
      BY <1>3, <3>1
    <3>3. /\ heap[chain[d][i]] # Free
          /\ Hash[heap[chain[d][i]].res] = d
          /\ \A j \in 1 .. Len(chain[d]) : chain[d][i] = chain[d][j] => i = j
      BY <1>1, <3>1 DEF ChainsSound
    <3> QED
      BY <3>1, <3>2, <3>3
  <2>2. CASE d = b /\ i = p
    <3>1. ASSUME NEW j \in 1 .. Len(n), j # p PROVE n[j] # a
      <4>1. g[j] \in 1 .. Len(chain[b]) /\ n[j] = chain[b][g[j]]
        BY <1>4, <3>1
      <4>2. \A k \in 1 .. Len(chain[b]) : chain[b][k] # a
        BY <1>1, <1>3
      <4> QED
        BY <4>1, <4>2
    <3>2. chain'[d] = n /\ chain'[d][i] = a
      BY <1>2, <1>4, <2>2
    <3>3. \A j \in 1 .. Len(n) : a = n[j] => i = j
      BY <2>2, <3>1
    <3>4. heap'[a] # Free /\ Hash[heap'[a].res] = d
      BY <1>1, <1>2, <2>2
    <3> QED
      BY <3>2, <3>3, <3>4
  <2>3. CASE d = b /\ i # p
    <3>1. n[i] = chain[b][g[i]] /\ g[i] \in 1 .. Len(chain[b])
      BY <1>2, <1>4, <2>3
    <3>2. heap'[n[i]] # Free /\ Hash[heap'[n[i]].res] = b /\ n[i] # a
      BY <1>1, <1>3, <3>1
    <3>3. ASSUME NEW j \in 1 .. Len(n), n[i] = n[j] PROVE i = j
      <4>1. j # p
        BY <1>4, <3>2, <3>3
      <4>2. n[j] = chain[b][g[j]] /\ g[j] \in 1 .. Len(chain[b])
        BY <1>4, <4>1
      <4>3. g[i] = g[j]
        <5>1. \A k, l \in 1 .. Len(chain[b]) :
                chain[b][k] = chain[b][l] => k = l
          BY <1>1 DEF ChainsSound
        <5> QED
          BY <3>1, <3>3, <4>2, <5>1
      <4>4. i \in 1 .. Len(n) /\ i # p
        BY <1>2, <2>3
      <4> QED
        BY <1>4, <4>1, <4>3, <4>4
    <3> QED
      BY <1>2, <2>3, <3>2, <3>3
  <2> QED
    BY <2>1, <2>2, <2>3
<1>6. ASSUME NEW q \in Resource, NEW x \in On(q)'
      PROVE  \/ q = r /\ x = a
             \/ x \in On(q) /\ x # a /\ heap'[x] = heap[x]
  <2>1. PICK i \in 1 .. Len(chain'[Hash[q]]) :
               chain'[Hash[q]][i] = x /\ heap'[x].res = q
    BY DEF On, ElementsOf
  <2>2. Hash[q] \in Bucket
    BY LockAssumption
  <2>3. CASE Hash[q] # b
    <3>1. chain'[Hash[q]] = chain[Hash[q]]
      BY <1>2, <2>2, <2>3
    <3>2. x # a /\ heap'[x] = heap[x]
      BY <1>3, <2>1, <2>2, <3>1
    <3> QED
      BY <2>1, <3>1, <3>2, OnIs
  <2>4. CASE Hash[q] = b /\ i = p
    BY <1>2, <1>4, <2>1, <2>4
  <2>5. CASE Hash[q] = b /\ i # p
    <3>1. g[i] \in 1 .. Len(chain[b]) /\ x = chain[b][g[i]]
      BY <1>2, <1>4, <2>1, <2>5
    <3>2. x # a /\ heap'[x] = heap[x]
      BY <1>1, <1>3, <3>1
    <3> QED
      BY <2>1, <2>5, <3>1, <3>2, OnIs
  <2> QED
    BY <2>3, <2>4, <2>5
<1>7. ExclusiveEntryAlone'
  <2> SUFFICES ASSUME NEW q \in Resource, NEW x \in On(q)', NEW y \in On(q)',
                      heap'[x].mode \notin {SHARED, UPDATE}
               PROVE  x = y
    BY DEF ExclusiveEntryAlone
  <2>1. CASE q # r
    BY <1>1, <1>6, <2>1 DEF ExclusiveEntryAlone
  <2>2. CASE q = r
    <3>1. CASE On(r) = {}
      BY <1>6, <2>2, <3>1
    <3>2. CASE /\ e.mode \in {SHARED, UPDATE}
               /\ \A z \in On(r) : heap[z].mode \in {SHARED, UPDATE}
      BY <1>2, <1>6, <2>2, <3>2
    <3> QED
      BY <3>1, <3>2
  <2> QED
    BY <2>1, <2>2
<1> QED
  BY <1>2, <1>5, <1>7

\* A cell is unlinked and freed.
LEMMA RemoveCell ==
  ASSUME Inv, NEW b \in Bucket, NEW i \in 1 .. Len(chain[b]),
         heap' = [heap EXCEPT ![chain[b][i]] = Free],
         chain' = [chain EXCEPT ![b] = Unlink(chain[b], i)]
  PROVE  /\ heap' \in [Addr -> LockEntry \cup {Free}]
         /\ chain' \in [Bucket -> Seq(Addr)]
         /\ ChainsSound' /\ ExclusiveEntryAlone'
<1> DEFINE c == chain[b]
           a == chain[b][i]
           f(j) == IF j < i THEN j ELSE j + 1
<1>1. /\ TypeOK /\ ChainsSound /\ ExclusiveEntryAlone
      /\ heap \in [Addr -> LockEntry \cup {Free}]
      /\ chain \in [Bucket -> Seq(Addr)] /\ c \in Seq(Addr)
      /\ Len(c) \in Nat
  BY LenProperties DEF Inv, TypeOK
<1>2. /\ Unlink(c, i) \in Seq(Addr) /\ Len(Unlink(c, i)) = Len(c) - 1
      /\ \A j \in 1 .. Len(c) - 1 : Unlink(c, i)[j] = c[f(j)]
  BY <1>1, UnlinkProperties
<1>3. /\ heap' \in [Addr -> LockEntry \cup {Free}]
      /\ chain' \in [Bucket -> Seq(Addr)]
      /\ \A x \in Addr : x # a => heap'[x] = heap[x]
      /\ \A d \in Bucket : d # b => chain'[d] = chain[d]
      /\ Len(chain'[b]) = Len(c) - 1
      /\ \A j \in 1 .. Len(c) - 1 : chain'[b][j] = c[f(j)]
  BY <1>1, <1>2
\* Every place of a new chain is a place of the old one, other than b's i.
<1>4. ASSUME NEW d \in Bucket, NEW j \in 1 .. Len(chain'[d])
      PROVE  \E k \in 1 .. Len(chain[d]) :
                /\ chain'[d][j] = chain[d][k]
                /\ d = b => k = f(j) /\ k # i
                /\ d # b => k = j
  <2>1. CASE d = b
    <3>1. f(j) \in 1 .. Len(c) /\ f(j) # i
      BY <1>1, <1>3, <2>1
    <3> QED
      BY <1>3, <2>1, <3>1
  <2>2. CASE d # b
    BY <1>3, <2>2
  <2> QED
    BY <2>1, <2>2
<1> HIDE DEF f
<1>5. ASSUME NEW d \in Bucket, NEW j \in 1 .. Len(chain'[d])
      PROVE  /\ chain'[d][j] # a /\ chain'[d][j] \in Addr
             /\ heap'[chain'[d][j]] = heap[chain'[d][j]]
             /\ heap[chain'[d][j]] # Free
             /\ Hash[heap[chain'[d][j]].res] = d
  <2>1. PICK k \in 1 .. Len(chain[d]) : /\ chain'[d][j] = chain[d][k]
                                        /\ d = b => k # i
    BY <1>4
  <2>2. chain[d][k] # a
    BY <1>1, <2>1, OnePlace
  <2>3. chain[d][k] \in Addr
    BY <1>1, CellOf
  <2> QED
    BY <1>1, <1>3, <2>1, <2>2, <2>3 DEF ChainsSound
<1>6. ChainsSound'
  <2>1. ASSUME NEW d \in Bucket, NEW j \in 1 .. Len(chain'[d]),
               NEW k \in 1 .. Len(chain'[d]), chain'[d][j] = chain'[d][k]
        PROVE  j = k
    <3>1. PICK j2 \in 1 .. Len(chain[d]) :
                 /\ chain'[d][j] = chain[d][j2]
                 /\ d = b => j2 = f(j)
                 /\ d # b => j2 = j
      BY <1>4
    <3>2. PICK k2 \in 1 .. Len(chain[d]) :
                 /\ chain'[d][k] = chain[d][k2]
                 /\ d = b => k2 = f(k)
                 /\ d # b => k2 = k
      BY <1>4
    <3>3. j2 = k2
      BY <1>1, <2>1, <3>1, <3>2, OnePlace
    <3>4. j \in Int /\ k \in Int /\ (f(j) = f(k) => j = k)
      BY DEF f
    <3> QED
      BY <3>1, <3>2, <3>3, <3>4
  <2> QED
    BY <1>5, <2>1 DEF ChainsSound
<1>7. ASSUME NEW q \in Resource, NEW x \in On(q)'
      PROVE  x \in On(q) /\ heap'[x] = heap[x]
  <2>1. Hash[q] \in Bucket
    BY LockAssumption
  <2>2. PICK j \in 1 .. Len(chain'[Hash[q]]) :
               chain'[Hash[q]][j] = x /\ heap'[x].res = q
    BY DEF On, ElementsOf
  <2>3. heap'[x] = heap[x]
    BY <1>5, <2>1, <2>2
  <2>4. \E k \in 1 .. Len(chain[Hash[q]]) : chain[Hash[q]][k] = x
    BY <1>4, <2>1, <2>2
  <2> QED
    BY <2>2, <2>3, <2>4, OnIs
<1>8. ExclusiveEntryAlone'
  BY <1>1, <1>7 DEF ExclusiveEntryAlone
<1> QED
  BY <1>3, <1>6, <1>8

-----------------------------------------------------------------------------
(* The steps. *)

\* A step that leaves the table alone.
LEMMA TableSame ==
  ASSUME Inv, UNCHANGED <<heap, chain>>
  PROVE  ChainsSound' /\ ExclusiveEntryAlone'
BY DEF Inv, ChainsSound, ExclusiveEntryAlone, On, ElementsOf

LEMMA WaitingType ==
  ASSUME TypeOK, NEW t \in Txn, waiting[t] # Free
  PROVE  /\ waiting[t].res \in Resource /\ waiting[t].mode \in LockMode
         /\ Hash[waiting[t].res] \in Bucket
<1>1. waiting[t] \in Request
  BY DEF TypeOK
<1> QED
  BY <1>1, LockAssumption DEF Request

LEMMA GrantedType ==
  ASSUME TypeOK, NEW t \in Txn, waiting[t] # Free, Granted(t)
  PROVE  /\ waiting' \in [Txn -> Request \cup {Free}]
         /\ granted' \subseteq Txn \X Resource
         /\ early' \subseteq Txn
         /\ status' \in [Txn -> {"new", "active", "ending", "done"}]
         /\ mutex' \in Txn \cup {Free}
BY WaitingType DEF TypeOK, Granted

LEMMA NewCellType ==
  ASSUME TypeOK, NEW t \in Txn, waiting[t] # Free, NEW a \in Addr,
         NewCell(t, a)
  PROVE  /\ held' \in [Txn -> Seq(Addr)]
         /\ \E e \in LockEntry : /\ e.res = waiting[t].res
                                 /\ e.mode = waiting[t].mode
                                 /\ heap' = [heap EXCEPT ![a] = e]
<1> DEFINE e == [res |-> waiting[t].res, mode |-> waiting[t].mode, holder |-> t]
<1>1. e \in LockEntry
  BY WaitingType DEF LockEntry
<1>2. held[t] \in Seq(Addr) /\ held \in [Txn -> Seq(Addr)]
  BY DEF TypeOK
<1>3. Append(held[t], a) \in Seq(Addr)
  BY <1>2, AppendProperties
<1>4. held' \in [Txn -> Seq(Addr)]
  BY <1>2, <1>3 DEF NewCell
<1> QED
  BY <1>1, <1>4 DEF NewCell

LEMMA GrantNewInv ==
  ASSUME Inv, NEW t \in Txn, waiting[t] # Free, GrantNew(t)
  PROVE  Inv'
<1> DEFINE r == waiting[t].res
<1>1. TypeOK /\ r \in Resource /\ Hash[r] \in Bucket /\ chain[Hash[r]] \in Seq(Addr)
  BY WaitingType DEF Inv, TypeOK
<1>2. PICK a \in Unused :
        NewCell(t, a) /\ chain' = [chain EXCEPT ![Hash[r]] = <<a>> \o @]
  BY DEF GrantNew
<1>3. a \in Addr
  BY DEF Unused
<1>4. PICK e \in LockEntry : e.res = r /\ heap' = [heap EXCEPT ![a] = e]
  BY <1>1, <1>2, <1>3, NewCellType
<1>5. /\ <<a>> \o chain[Hash[r]] \in Seq(Addr)
      /\ \E g : Inserted(<<a>> \o chain[Hash[r]], chain[Hash[r]], a, 1, g)
  BY <1>1, <1>3, PrependInserts
<1>6. On(r) = {}
  BY DEF GrantNew
<1>7. /\ heap' \in [Addr -> LockEntry \cup {Free}]
      /\ chain' \in [Bucket -> Seq(Addr)]
      /\ ChainsSound' /\ ExclusiveEntryAlone'
  BY <1>1, <1>2, <1>4, <1>5, <1>6, AddCell
<1>8. TypeOK'
  BY <1>1, <1>2, <1>3, <1>7, GrantedType, NewCellType DEF TypeOK, GrantNew
<1> QED
  BY <1>7, <1>8 DEF Inv

LEMMA WeakResource ==
  ASSUME Inv, NEW r \in Resource, NEW a \in On(r), NEW m,
         ~ Conflict(heap[a].mode, m)
  PROVE  /\ m \in {SHARED, UPDATE}
         /\ \A x \in On(r) : heap[x].mode \in {SHARED, UPDATE}
<1>1. m \in {SHARED, UPDATE} /\ heap[a].mode \in {SHARED, UPDATE}
  BY DEF Conflict, Compatible
<1> QED
  BY <1>1 DEF Inv, ExclusiveEntryAlone

LEMMA GrantSharedInv ==
  ASSUME Inv, NEW t \in Txn, waiting[t] # Free, GrantShared(t)
  PROVE  Inv'
<1> DEFINE r == waiting[t].res
<1>1. TypeOK /\ r \in Resource /\ Hash[r] \in Bucket /\ chain[Hash[r]] \in Seq(Addr)
  BY WaitingType DEF Inv, TypeOK
<1>2. PICK a \in Unused :
        NewCell(t, a) /\ chain' = [chain EXCEPT ![Hash[r]] = Append(@, a)]
  BY DEF GrantShared
<1>3. a \in Addr
  BY DEF Unused
<1>4. PICK e \in LockEntry : /\ e.res = r /\ e.mode = waiting[t].mode
                             /\ heap' = [heap EXCEPT ![a] = e]
  BY <1>1, <1>2, <1>3, NewCellType
<1>5. /\ Append(chain[Hash[r]], a) \in Seq(Addr)
      /\ \E g : Inserted(Append(chain[Hash[r]], a), chain[Hash[r]], a,
                         Len(chain[Hash[r]]) + 1, g)
  BY <1>1, <1>3, AppendInserts
<1>6. /\ e.mode \in {SHARED, UPDATE}
      /\ \A x \in On(r) : heap[x].mode \in {SHARED, UPDATE}
  BY <1>1, <1>4, WeakResource DEF GrantShared
<1>7. /\ heap' \in [Addr -> LockEntry \cup {Free}]
      /\ chain' \in [Bucket -> Seq(Addr)]
      /\ ChainsSound' /\ ExclusiveEntryAlone'
  BY <1>1, <1>2, <1>4, <1>5, <1>6, AddCell
<1>8. TypeOK'
  BY <1>1, <1>2, <1>3, <1>7, GrantedType, NewCellType DEF TypeOK, GrantShared
<1> QED
  BY <1>7, <1>8 DEF Inv

LEMMA GrantUpgradeInv ==
  ASSUME Inv, NEW t \in Txn, waiting[t] # Free, GrantUpgrade(t)
  PROVE  Inv'
<1> DEFINE r == waiting[t].res
           m == waiting[t].mode
<1>1. TypeOK /\ r \in Resource /\ m \in LockMode /\ Hash[r] \in Bucket
  BY WaitingType DEF Inv
<1>2. PICK a \in On(r) : /\ ~ Conflict(heap[a].mode, m)
                         /\ heap' = [heap EXCEPT ![a].mode = m]
  BY DEF GrantUpgrade
<1>3. /\ m \in {SHARED, UPDATE}
      /\ \A x \in On(r) : heap[x].mode \in {SHARED, UPDATE}
  BY <1>1, <1>2, WeakResource
<1>4. PICK i \in 1 .. Len(chain[Hash[r]]) : chain[Hash[r]][i] = a
  BY DEF On, ElementsOf
<1>5. a \in Addr /\ heap[a] \in LockEntry
  BY <1>1, <1>4, CellOf DEF Inv
<1>6. /\ chain' = chain /\ heap \in [Addr -> LockEntry \cup {Free}]
      /\ heap' = [heap EXCEPT ![a] = [heap[a] EXCEPT !.mode = m]]
  BY <1>1, <1>2, <1>5 DEF GrantUpgrade, TypeOK
<1>7. /\ [heap[a] EXCEPT !.mode = m] \in LockEntry
      /\ [heap[a] EXCEPT !.mode = m].res = heap[a].res
      /\ [heap[a] EXCEPT !.mode = m].mode = m
  BY <1>1, <1>5 DEF LockEntry
<1>8. /\ heap' \in [Addr -> LockEntry \cup {Free}]
      /\ heap'[a] \in LockEntry /\ heap'[a].res = heap[a].res
      /\ heap'[a].mode = m
      /\ \A x \in Addr : x # a => heap'[x] = heap[x]
  BY <1>5, <1>6, <1>7
<1>9. TypeOK'
  BY <1>1, <1>6, <1>8, GrantedType DEF TypeOK, GrantUpgrade
<1>10. \A d \in Bucket : \A j \in 1 .. Len(chain[d]) :
         /\ chain[d][j] \in Addr
         /\ heap'[chain[d][j]] # Free
         /\ heap'[chain[d][j]].res = heap[chain[d][j]].res
  <2> SUFFICES ASSUME NEW d \in Bucket, NEW j \in 1 .. Len(chain[d])
               PROVE  /\ chain[d][j] \in Addr
                      /\ heap'[chain[d][j]] # Free
                      /\ heap'[chain[d][j]].res = heap[chain[d][j]].res
    OBVIOUS
  <2>1. chain[d][j] \in Addr /\ heap[chain[d][j]] \in LockEntry
    BY <1>1, CellOf DEF Inv
  <2> QED
    BY <1>8, <2>1, LockAssumption
<1>11. ChainsSound'
  BY <1>6, <1>10 DEF Inv, ChainsSound
<1>12. ASSUME NEW q \in Resource, NEW x \in On(q)'
       PROVE  x \in On(q) /\ x \in Addr
  <2>1. Hash[q] \in Bucket
    BY LockAssumption
  <2>2. PICK j \in 1 .. Len(chain[Hash[q]]) :
               chain[Hash[q]][j] = x /\ heap'[x].res = q
    BY <1>6 DEF On, ElementsOf
  <2>3. heap[x].res = q /\ x \in Addr
    BY <1>10, <2>1, <2>2
  <2> QED
    BY <2>2, <2>3, OnIs
<1>13. ExclusiveEntryAlone'
  <2> SUFFICES ASSUME NEW q \in Resource, NEW x \in On(q)', NEW y \in On(q)',
                      heap'[x].mode \notin {SHARED, UPDATE}
               PROVE  x = y
    BY DEF ExclusiveEntryAlone
  <2>1. x # a /\ heap'[x] = heap[x]
    BY <1>3, <1>8, <1>12
  <2> QED
    BY <1>12, <2>1 DEF Inv, ExclusiveEntryAlone
<1> QED
  BY <1>9, <1>11, <1>13 DEF Inv

LEMMA LookInv ==
  ASSUME Inv, NEW t \in Txn, Look(t)
  PROVE  Inv'
<1>1. waiting[t] # Free /\ TypeOK
  BY DEF Look, Inv
<1>2. CASE GrantNew(t)
  BY <1>1, <1>2, GrantNewInv
<1>3. CASE GrantShared(t)
  BY <1>1, <1>3, GrantSharedInv
<1>4. CASE GrantUpgrade(t)
  BY <1>1, <1>4, GrantUpgradeInv
<1>5. CASE GrantSufficient(t)
  <2>1. TypeOK'
    BY <1>1, <1>5, GrantedType DEF TypeOK, GrantSufficient
  <2> QED
    BY <1>5, <2>1, TableSame DEF GrantSufficient, Inv
<1>6. CASE Timeout(t)
  <2>1. TypeOK'
    BY <1>1, <1>6 DEF TypeOK, Timeout
  <2> QED
    BY <1>6, <2>1, TableSame DEF Timeout, Inv
<1> QED
  BY <1>2, <1>3, <1>4, <1>5, <1>6 DEF Look

LEMMA ReleaseLockInv ==
  ASSUME Inv, NEW t \in Txn, NEW r \in Resource, ReleaseLock(t, r)
  PROVE  Inv'
<1>1. TypeOK /\ Hash[r] \in Bucket
  BY LockAssumption DEF Inv
<1>2. PICK i \in 1 .. Len(chain[Hash[r]]) :
        /\ chain' = [chain EXCEPT ![Hash[r]] = Unlink(chain[Hash[r]], i)]
        /\ heap' = [heap EXCEPT ![chain[Hash[r]][i]] = Free]
  BY DEF ReleaseLock
<1>3. /\ heap' \in [Addr -> LockEntry \cup {Free}]
      /\ chain' \in [Bucket -> Seq(Addr)]
      /\ ChainsSound' /\ ExclusiveEntryAlone'
  BY <1>1, <1>2, RemoveCell
<1>4. TypeOK'
  BY <1>1, <1>3 DEF TypeOK, ReleaseLock
<1> QED
  BY <1>3, <1>4 DEF Inv

LEMMA ReleaseNextInv ==
  ASSUME Inv, NEW t \in Txn, ReleaseNext(t)
  PROVE  Inv'
<1> DEFINE a == Head(held[t])
<1>1. TypeOK /\ held[t] \in Seq(Addr) /\ held[t] # <<>>
  BY DEF Inv, TypeOK, ReleaseNext
<1>2. held' \in [Txn -> Seq(Addr)]
  <2>1. Tail(held[t]) \in Seq(Addr)
    BY <1>1, HeadTailProperties
  <2> QED
    BY <1>1, <2>1 DEF ReleaseNext, TypeOK
<1>3. CASE a \in Live
  <2>1. PICK b \in Bucket : \E i \in 1 .. Len(chain[b]) :
          /\ chain[b][i] = a
          /\ chain' = [chain EXCEPT ![b] = Unlink(chain[b], i)]
          /\ heap' = [heap EXCEPT ![a] = Free]
    BY <1>3 DEF ReleaseNext
  <2>2. PICK i \in 1 .. Len(chain[b]) :
          /\ chain' = [chain EXCEPT ![b] = Unlink(chain[b], i)]
          /\ heap' = [heap EXCEPT ![chain[b][i]] = Free]
    BY <2>1
  <2>3. /\ heap' \in [Addr -> LockEntry \cup {Free}]
        /\ chain' \in [Bucket -> Seq(Addr)]
        /\ ChainsSound' /\ ExclusiveEntryAlone'
    BY <2>2, RemoveCell
  <2>4. TypeOK'
    BY <1>1, <1>2, <2>3 DEF TypeOK, ReleaseNext
  <2> QED
    BY <2>3, <2>4 DEF Inv
<1>4. CASE a \notin Live
  <2>1. UNCHANGED <<heap, chain>>
    BY <1>4 DEF ReleaseNext
  <2>2. TypeOK'
    BY <1>1, <1>2, <2>1 DEF TypeOK, ReleaseNext
  <2> QED
    BY <2>1, <2>2, TableSame DEF Inv
<1> QED
  BY <1>3, <1>4

LEMMA QuietInv ==
  ASSUME Inv, NEW t \in Txn,
         \/ Begin(t) \/ StartEnd(t) \/ FinishEnd(t)
         \/ \E r \in Resource, m \in Mode : Acquire(t, r, m)
  PROVE  Inv'
<1>1. TypeOK
  BY DEF Inv
<1>2. CASE Begin(t)
  <2>1. TypeOK'
    BY <1>1, <1>2 DEF TypeOK, Begin
  <2> QED
    BY <1>2, <2>1, TableSame DEF Begin, Inv
<1>3. CASE StartEnd(t)
  <2>1. TypeOK'
    BY <1>1, <1>3 DEF TypeOK, StartEnd
  <2> QED
    BY <1>3, <2>1, TableSame DEF StartEnd, Inv
<1>4. CASE FinishEnd(t)
  <2>1. TypeOK'
    BY <1>1, <1>4 DEF TypeOK, FinishEnd
  <2> QED
    BY <1>4, <2>1, TableSame DEF FinishEnd, Inv
<1>5. CASE \E r \in Resource, m \in Mode : Acquire(t, r, m)
  <2>1. PICK r \in Resource, m \in Mode : Acquire(t, r, m)
    BY <1>5
  <2>2. [res |-> r, mode |-> m] \in Request
    BY DEF Request
  <2>3. TypeOK'
    BY <1>1, <2>1, <2>2 DEF TypeOK, Acquire
  <2> QED
    BY <2>1, <2>3, TableSame DEF Acquire, Inv
<1> QED
  BY <1>2, <1>3, <1>4, <1>5

-----------------------------------------------------------------------------
(* Who owns the cells.  That no entry outlives its transaction needs only   *)
(* that waiting and ending callers are what their status says.  That a      *)
(* granted lock stays needs the lock lists as well: as long as no early     *)
(* releaser has begun to end, the list of a transaction that never called   *)
(* mvcc_release_lock holds live cells of its own, each once, so the loop    *)
(* of mvcc_release_all_locks frees nobody else's.                           *)

\* What a caller is doing agrees with its transaction's status.
Callers ==
  /\ \A t \in Txn : waiting[t] # Free => status[t] = "active"
  /\ mutex # Free => status[mutex] = "ending"
  /\ \A t \in early : status[t] # "new"
  /\ \A g \in granted : status[g[1]] = "active"

Undisturbed == \A t \in early : status[t] = "active"

\* The lock list of a transaction that released nothing early.
OwnList(t) ==
  \A i \in 1 .. Len(held[t]) :
    /\ held[t][i] \in Live /\ heap[held[t][i]].holder = t
    /\ \A j \in 1 .. Len(held[t]) : held[t][i] = held[t][j] => i = j

OwnLists == Undisturbed => \A t \in Txn \ early : OwnList(t)

\* GrantedLocksKept, over the live cells.
Kept ==
  Undisturbed =>
    \A g \in granted : \E a \in Live : heap[a].res = g[2] /\ heap[a].holder = g[1]

Ownership == Callers /\ NoOrphanLocks /\ OwnLists /\ Kept

LEMMA ElementsAppended ==
  ASSUME NEW S, NEW c \in Seq(S), NEW a \in S
  PROVE  ElementsOf(Append(c, a)) = ElementsOf(c) \cup {a}
<1> DEFINE n == Append(c, a)
<1>1. /\ Len(n) = Len(c) + 1 /\ n[Len(c) + 1] = a
      /\ \A j \in 1 .. Len(c) : n[j] = c[j]
      /\ Len(c) \in Nat
  BY AppendProperties, LenProperties
<1> HIDE DEF n
<1>2. \A i \in 1 .. Len(n) : i \in 1 .. Len(c) \/ i = Len(c) + 1
  BY <1>1
<1>3. Len(c) + 1 \in 1 .. Len(n) /\ \A i \in 1 .. Len(c) : i \in 1 .. Len(n)
  BY <1>1
<1> QED
  BY <1>1, <1>2, <1>3 DEF ElementsOf, n

LEMMA ElementsPrepended ==
  ASSUME NEW S, NEW c \in Seq(S), NEW a \in S
  PROVE  ElementsOf(<<a>> \o c) = ElementsOf(c) \cup {a}
<1> DEFINE n == <<a>> \o c
<1>1. /\ Len(n) = Len(c) + 1 /\ n[1] = a /\ Len(c) \in Nat
      /\ \A j \in 1 .. Len(c) : n[j + 1] = c[j]
  <2>1. <<a>> \in Seq(S) /\ Len(<<a>>) = 1 /\ <<a>>[1] = a /\ Len(c) \in Nat
    BY LenProperties
  <2>2. /\ Len(<<a>> \o c) = Len(<<a>>) + Len(c)
        /\ \A j \in 1 .. Len(<<a>>) + Len(c) :
             (<<a>> \o c)[j] = IF j <= Len(<<a>>) THEN <<a>>[j] ELSE c[j - Len(<<a>>)]
    BY <2>1, ConcatProperties
  <2> QED
    BY <2>1, <2>2
<1> HIDE DEF n
<1>2. \A i \in 1 .. Len(n) : i = 1 \/ (i - 1 \in 1 .. Len(c) /\ i = (i - 1) + 1)
  BY <1>1
<1>3. 1 \in 1 .. Len(n) /\ \A i \in 1 .. Len(c) : i + 1 \in 1 .. Len(n)
  BY <1>1
<1>4. \A i \in 1 .. Len(n) : n[i] = a \/ \E j \in 1 .. Len(c) : n[i] = c[j]
  BY <1>1, <1>2
<1>5. \A j \in 1 .. Len(c) : \E i \in 1 .. Len(n) : n[i] = c[j]
  BY <1>1, <1>3
<1>6. ElementsOf(n) \subseteq ElementsOf(c) \cup {a}
  BY <1>4 DEF ElementsOf
<1>7. ElementsOf(c) \cup {a} \subseteq ElementsOf(n)
  BY <1>1, <1>3, <1>5 DEF ElementsOf
<1> QED
  BY <1>6, <1>7 DEF n

LEMMA ElementsUnlinked ==
  ASSUME NEW S, NEW c \in Seq(S), NEW i \in 1 .. Len(c),
         \A j, k \in 1 .. Len(c) : c[j] = c[k] => j = k
  PROVE  ElementsOf(Unlink(c, i)) = ElementsOf(c) \ {c[i]}
<1> DEFINE n == Unlink(c, i)
<1>1. /\ Len(n) = Len(c) - 1 /\ Len(c) \in Nat
      /\ \A j \in 1 .. Len(c) - 1 : n[j] = c[IF j < i THEN j ELSE j + 1]
  BY UnlinkProperties, LenProperties
<1> HIDE DEF n
<1>2. ASSUME NEW j \in 1 .. Len(n)
      PROVE  \E k \in 1 .. Len(c) : k # i /\ n[j] = c[k]
  <2>1. CASE j < i
    BY <1>1, <2>1
  <2>2. CASE ~ (j < i)
    <3>1. j + 1 \in 1 .. Len(c) /\ j + 1 # i /\ j \in 1 .. Len(c) - 1
      BY <1>1, <2>2
    <3>2. n[j] = c[j + 1]
      BY <1>1, <2>2, <3>1
    <3> QED
      BY <3>1, <3>2
  <2> QED
    BY <2>1, <2>2
<1>3. ASSUME NEW k \in 1 .. Len(c), k # i
      PROVE  \E j \in 1 .. Len(n) : n[j] = c[k]
  <2>1. CASE k < i
    <3>1. k \in 1 .. Len(n) /\ n[k] = c[k]
      BY <1>1, <2>1
    <3> QED
      BY <3>1
  <2>2. CASE ~ (k < i)
    <3>1. k - 1 \in 1 .. Len(n) /\ ~ (k - 1 < i) /\ (k - 1) + 1 = k
      BY <1>1, <1>3, <2>2
    <3>2. n[k - 1] = c[k]
      BY <1>1, <3>1
    <3> QED
      BY <3>1, <3>2
  <2> QED
    BY <2>1, <2>2
<1>4. ElementsOf(n) \subseteq ElementsOf(c) \ {c[i]}
  BY <1>2 DEF ElementsOf
<1>5. ElementsOf(c) \ {c[i]} \subseteq ElementsOf(n)
  BY <1>3 DEF ElementsOf
<1> QED
  BY <1>4, <1>5 DEF n

\* The cells of a resource are the live cells with its name.
LEMMA OnLive ==
  ASSUME Inv, NEW r \in Resource
  PROVE  On(r) = {a \in Live : heap[a].res = r}
<1>1. TypeOK /\ ChainsSound /\ Hash[r] \in Bucket
  BY LockAssumption DEF Inv
<1>2. \A d \in Bucket : \A i \in 1 .. Len(chain[d]) : Hash[heap[chain[d][i]].res] = d
  BY <1>1, CellOf
<1>3. On(r) \subseteq {a \in Live : heap[a].res = r}
  BY <1>1 DEF On, Live
<1>4. ASSUME NEW a \in Live, heap[a].res = r
      PROVE  a \in On(r)
  <2>1. PICK d \in Bucket : \E i \in 1 .. Len(chain[d]) : chain[d][i] = a
    BY DEF Live, ElementsOf
  <2>2. d = Hash[r]
    BY <1>2, <1>4, <2>1
  <2> QED
    BY <1>4, <2>1, <2>2 DEF On, ElementsOf
<1> QED
  BY <1>3, <1>4

LEMMA KeptIs ==
  ASSUME Inv
  PROVE  Kept <=> GrantedLocksKept
<1>1. \A g \in granted : g[2] \in Resource
  BY DEF Inv, TypeOK
<1>2. \A r \in Resource : On(r) = {a \in Live : heap[a].res = r}
  BY OnLive
<1>3. \A g \in granted :
        (\E a \in Live : heap[a].res = g[2] /\ heap[a].holder = g[1])
        <=> (\E a \in On(g[2]) : heap[a].holder = g[1])
  BY <1>1, <1>2
<1> QED
  BY <1>3 DEF Kept, GrantedLocksKept, Undisturbed

\* A live cell is an allocated one.
LEMMA LiveCell ==
  ASSUME Inv, NEW a \in Live
  PROVE  a \in Addr /\ heap[a] \in LockEntry /\ heap[a].holder \in Txn
<1>1. PICK d \in Bucket : \E i \in 1 .. Len(chain[d]) : chain[d][i] = a
  BY DEF Live, ElementsOf
<1>2. a \in Addr /\ heap[a] \in LockEntry
  BY <1>1, CellOf DEF Inv
<1> QED
  BY <1>2 DEF LockEntry

\* What RemoveCell leaves.
LEMMA RemoveLive ==
  ASSUME Inv, NEW b \in Bucket, NEW i \in 1 .. Len(chain[b]),
         heap' = [heap EXCEPT ![chain[b][i]] = Free],
         chain' = [chain EXCEPT ![b] = Unlink(chain[b], i)]
  PROVE  /\ chain[b][i] \in Live
         /\ Live' = Live \ {chain[b][i]}
         /\ \A x \in Live' : heap'[x] = heap[x]
<1> DEFINE a == chain[b][i]
<1>1. /\ TypeOK /\ ChainsSound /\ chain \in [Bucket -> Seq(Addr)]
      /\ heap \in [Addr -> LockEntry \cup {Free}]
  BY DEF Inv, TypeOK
<1>2. ElementsOf(chain'[b]) = ElementsOf(chain[b]) \ {a}
  <2>1. \A j, k \in 1 .. Len(chain[b]) : chain[b][j] = chain[b][k] => j = k
    BY <1>1 DEF ChainsSound
  <2>2. chain'[b] = Unlink(chain[b], i) /\ chain[b] \in Seq(Addr)
    BY <1>1
  <2> QED
    BY <2>1, <2>2, ElementsUnlinked
<1>3. \A d \in Bucket : d # b => chain'[d] = chain[d] /\ a \notin ElementsOf(chain[d])
  BY <1>1, OnePlace DEF ElementsOf
<1>4. \A d \in Bucket : ElementsOf(chain'[d]) = ElementsOf(chain[d]) \ {a}
  BY <1>2, <1>3
<1>5. Live' = Live \ {a}
  <2>1. \A x : x \in Live' <=> \E d \in Bucket : x \in ElementsOf(chain'[d])
    BY DEF Live
  <2>2. \A x : x \in Live <=> \E d \in Bucket : x \in ElementsOf(chain[d])
    BY DEF Live
  <2> HIDE DEF a
  <2> QED
    BY <1>4, <2>1, <2>2
<1>6. a \in Live
  BY DEF Live, ElementsOf
<1>7. \A x \in Live' : heap'[x] = heap[x]
  <2>1. \A x \in Live : x \in Addr
    BY LiveCell
  <2> QED
    BY <1>1, <1>5, <2>1
<1> QED
  BY <1>5, <1>6, <1>7

\* What AddCell leaves: a new cell of t, listed by t.
LEMMA AddLive ==
  ASSUME Inv, NEW t \in Txn, waiting[t] # Free, NEW a \in Unused, NewCell(t, a),
         NEW n, chain' = [chain EXCEPT ![Hash[waiting[t].res]] = n],
         ElementsOf(n) = ElementsOf(chain[Hash[waiting[t].res]]) \cup {a}
  PROVE  /\ a \notin Live /\ Live' = Live \cup {a}
         /\ heap'[a].res = waiting[t].res /\ heap'[a].holder = t
         /\ \A x \in Live : heap'[x] = heap[x]
         /\ ElementsOf(held'[t]) = ElementsOf(held[t]) \cup {a}
         /\ \A u \in Txn : u # t => held'[u] = held[u]
<1> DEFINE b == Hash[waiting[t].res]
<1>1. /\ TypeOK /\ b \in Bucket /\ chain \in [Bucket -> Seq(Addr)]
      /\ heap \in [Addr -> LockEntry \cup {Free}]
      /\ held \in [Txn -> Seq(Addr)] /\ held[t] \in Seq(Addr)
  BY WaitingType DEF Inv, TypeOK
<1>2. a \in Addr /\ a \notin Live
  BY DEF Unused
<1>3. \A d \in Bucket : d # b => chain'[d] = chain[d]
  BY <1>1
<1>4. chain'[b] = n
  BY <1>1
<1>5. Live' = Live \cup {a}
  <2>1. \A x : x \in Live' <=> \E d \in Bucket : x \in ElementsOf(chain'[d])
    BY DEF Live
  <2>2. \A x : x \in Live <=> \E d \in Bucket : x \in ElementsOf(chain[d])
    BY DEF Live
  <2>3. /\ ElementsOf(chain'[b]) = ElementsOf(chain[b]) \cup {a}
        /\ \A d \in Bucket : d # b => ElementsOf(chain'[d]) = ElementsOf(chain[d])
    BY <1>3, <1>4
  <2> HIDE DEF b
  <2> QED
    BY <1>1, <2>1, <2>2, <2>3
<1>6. heap'[a].res = waiting[t].res /\ heap'[a].holder = t
  BY <1>1, <1>2 DEF NewCell
<1>7. \A x \in Live : x \in Addr /\ heap'[x] = heap[x]
  BY <1>1, <1>2, LiveCell DEF NewCell
<1>8. held'[t] = Append(held[t], a) /\ \A u \in Txn : u # t => held'[u] = held[u]
  BY <1>1 DEF NewCell
<1>9. ElementsOf(held'[t]) = ElementsOf(held[t]) \cup {a}
  <2>1. held[t] \in Seq(Addr) /\ a \in Addr
    BY <1>1, <1>2
  <2>2. ElementsOf(Append(held[t], a)) = ElementsOf(held[t]) \cup {a}
    BY <2>1, ElementsAppended
  <2> QED
    BY <1>8, <2>2
<1> QED
  BY <1>2, <1>5, <1>6, <1>7, <1>8, <1>9

\* A new cell joins the table and the list of its transaction, which was
\* waiting and so is active.
LEMMA AddOwned ==
  ASSUME Inv, Ownership, NEW t \in Txn, waiting[t] # Free, NEW a \in Unused,
         NewCell(t, a), Granted(t),
         NEW n, chain' = [chain EXCEPT ![Hash[waiting[t].res]] = n],
         ElementsOf(n) = ElementsOf(chain[Hash[waiting[t].res]]) \cup {a}
  PROVE  Ownership'
<1>1. /\ a \notin Live /\ Live' = Live \cup {a}
      /\ heap'[a].res = waiting[t].res /\ heap'[a].holder = t
      /\ \A x \in Live : heap'[x] = heap[x]
      /\ ElementsOf(held'[t]) = ElementsOf(held[t]) \cup {a}
      /\ \A u \in Txn : u # t => held'[u] = held[u]
  BY AddLive
<1>2. /\ UNCHANGED <<status, mutex, early>>
      /\ granted' = granted \cup {<<t, waiting[t].res>>}
      /\ waiting' = [waiting EXCEPT ![t] = Free]
      /\ waiting \in [Txn -> Request \cup {Free}]
      /\ held[t] \in Seq(Addr) /\ a \in Addr
      /\ held' = [held EXCEPT ![t] = Append(@, a)] /\ held \in [Txn -> Seq(Addr)]
  BY DEF Granted, NewCell, Inv, TypeOK, Unused
<1>3. status[t] = "active"
  BY DEF Ownership, Callers
<1>4. Callers'
  BY <1>2, <1>3 DEF Ownership, Callers
<1>5. NoOrphanLocks'
  <2> SUFFICES ASSUME NEW x \in Live'
               PROVE  /\ status'[heap'[x].holder] \in {"active", "ending"}
                      /\ x \in ElementsOf(held'[heap'[x].holder])
    BY DEF NoOrphanLocks
  <2>1. CASE x = a
    BY <1>1, <1>2, <1>3, <2>1
  <2>2. CASE x # a
    <3>1. x \in Live /\ heap'[x] = heap[x] /\ heap[x].holder \in Txn
      BY <1>1, <2>2, LiveCell
    <3>2. /\ status[heap[x].holder] \in {"active", "ending"}
          /\ x \in ElementsOf(held[heap[x].holder])
      BY <3>1 DEF Ownership, NoOrphanLocks
    <3> QED
      BY <1>1, <1>2, <3>1, <3>2
  <2> QED
    BY <2>1, <2>2
<1>6. Undisturbed' <=> Undisturbed
  BY <1>2 DEF Undisturbed
<1>7. OwnLists'
  <2> SUFFICES ASSUME Undisturbed, NEW u \in Txn \ early
               PROVE  OwnList(u)'
    BY <1>2, <1>6 DEF OwnLists
  <2>1. OwnList(u)
    BY DEF Ownership, OwnLists
  <2>2. CASE u # t
    <3>1. held'[u] = held[u]
      BY <1>1, <2>2
    <3> QED
      BY <1>1, <2>1, <3>1 DEF OwnList
  <2>3. CASE u = t
    <3> DEFINE h == held[t]
    <3>1. /\ held'[t] = Append(h, a) /\ Len(h) \in Nat
          /\ Len(Append(h, a)) = Len(h) + 1 /\ Append(h, a)[Len(h) + 1] = a
          /\ \A i \in 1 .. Len(h) : Append(h, a)[i] = h[i]
      BY <1>2, AppendProperties, LenProperties
    <3> HIDE DEF h
    <3>2. \A i \in 1 .. Len(h) : /\ h[i] \in Live /\ heap[h[i]].holder = t
                                 /\ \A j \in 1 .. Len(h) : h[i] = h[j] => i = j
      BY <2>1, <2>3 DEF OwnList, h
    <3>3. \A i \in 1 .. Len(h) : h[i] # a
      BY <1>1, <3>2
    <3>4. \A i \in 1 .. Len(held'[t]) : \/ i = Len(h) + 1 /\ held'[t][i] = a
                                        \/ i \in 1 .. Len(h) /\ held'[t][i] = h[i]
      BY <3>1
    <3> QED
      BY <1>1, <2>3, <3>2, <3>3, <3>4 DEF OwnList
  <2> QED
    BY <2>2, <2>3
<1>8. Kept'
  <2> SUFFICES ASSUME Undisturbed, NEW g \in granted'
               PROVE  \E x \in Live' : heap'[x].res = g[2] /\ heap'[x].holder = g[1]
    BY <1>6 DEF Kept
  <2>1. CASE g = <<t, waiting[t].res>>
    BY <1>1, <2>1
  <2>2. CASE g \in granted
    <3>1. PICK x \in Live : heap[x].res = g[2] /\ heap[x].holder = g[1]
      BY <2>2 DEF Ownership, Kept
    <3> QED
      BY <1>1, <3>1
  <2> QED
    BY <1>2, <2>1, <2>2
<1> QED
  BY <1>4, <1>5, <1>7, <1>8 DEF Ownership

\* A step that neither links nor frees a cell nor changes a lock list keeps
\* resources and holders, and so who owns what.
LEMMA QuietOwned ==
  ASSUME Inv, Ownership, UNCHANGED <<chain, held>>,
         \A x \in Live : heap'[x].res = heap[x].res /\ heap'[x].holder = heap[x].holder,
         Callers', early' = early,
         Undisturbed' => Undisturbed,
         \A t \in Txn : status[t] \in {"active", "ending"} =>
                          \/ status'[t] \in {"active", "ending"}
                          \/ held[t] = <<>>,
         \A g \in granted' : \/ g \in granted
                             \/ \E x \in Live : heap[x].res = g[2] /\ heap[x].holder = g[1]
  PROVE  Ownership'
<1>1. Live' = Live
  BY DEF Live
<1>2. NoOrphanLocks'
  <2> SUFFICES ASSUME NEW x \in Live
               PROVE  /\ status'[heap[x].holder] \in {"active", "ending"}
                      /\ x \in ElementsOf(held[heap[x].holder])
    BY <1>1 DEF NoOrphanLocks
  <2>1. heap[x].holder \in Txn
    BY LiveCell
  <2>2. /\ status[heap[x].holder] \in {"active", "ending"}
        /\ x \in ElementsOf(held[heap[x].holder])
    BY DEF Ownership, NoOrphanLocks
  <2>3. held[heap[x].holder] # <<>>
    BY <2>2 DEF ElementsOf
  <2> QED
    BY <2>1, <2>2, <2>3
<1>3. OwnLists'
  BY <1>1 DEF Ownership, OwnLists, OwnList
<1>4. Kept'
  BY <1>1 DEF Ownership, Kept
<1> QED
  BY <1>2, <1>3, <1>4 DEF Ownership

LEMMA LookOwned ==
  ASSUME Inv, Ownership, NEW t \in Txn, Look(t)
  PROVE  Ownership'
<1> DEFINE r == waiting[t].res
<1>1. /\ TypeOK /\ waiting[t] # Free /\ r \in Resource /\ Hash[r] \in Bucket
      /\ chain[Hash[r]] \in Seq(Addr) /\ waiting \in [Txn -> Request \cup {Free}]
  BY WaitingType DEF Look, Inv, TypeOK
<1>2. CASE GrantNew(t)
  <2>1. PICK a \in Unused :
          NewCell(t, a) /\ chain' = [chain EXCEPT ![Hash[r]] = <<a>> \o @]
    BY <1>2 DEF GrantNew
  <2>2. a \in Addr
    BY DEF Unused
  <2>3. ElementsOf(<<a>> \o chain[Hash[r]]) = ElementsOf(chain[Hash[r]]) \cup {a}
    BY <1>1, <2>2, ElementsPrepended
  <2> QED
    BY <1>1, <1>2, <2>1, <2>3, AddOwned DEF GrantNew
<1>3. CASE GrantShared(t)
  <2>1. PICK a \in Unused :
          NewCell(t, a) /\ chain' = [chain EXCEPT ![Hash[r]] = Append(@, a)]
    BY <1>3 DEF GrantShared
  <2>2. a \in Addr
    BY DEF Unused
  <2>3. ElementsOf(Append(chain[Hash[r]], a)) = ElementsOf(chain[Hash[r]]) \cup {a}
    BY <1>1, <2>2, ElementsAppended
  <2> QED
    BY <1>1, <1>3, <2>1, <2>3, AddOwned DEF GrantShared
<1>4. CASE GrantSufficient(t) \/ GrantUpgrade(t)
  <2>1. /\ UNCHANGED <<chain, held, status, mutex, early>>
        /\ granted' = granted \cup {<<t, r>>}
        /\ waiting' = [waiting EXCEPT ![t] = Free]
    BY <1>4 DEF GrantSufficient, GrantUpgrade, Granted
  <2>2. PICK a \in On(r) : /\ heap[a].holder = t
                           /\ \/ heap' = heap
                              \/ heap' = [heap EXCEPT ![a].mode = waiting[t].mode]
    BY <1>4 DEF GrantSufficient, GrantUpgrade
  <2>3. a \in Live /\ heap[a].res = r
    BY <1>1, OnLive
  <2>4. \A x \in Live : x \in Addr /\ heap[x] \in LockEntry
    BY LiveCell
  <2>5. \A x \in Live : heap'[x].res = heap[x].res /\ heap'[x].holder = heap[x].holder
    <3>1. heap \in [Addr -> LockEntry \cup {Free}]
      BY <1>1 DEF TypeOK
    <3>2. CASE heap' = heap
      BY <3>2
    <3>3. CASE heap' = [heap EXCEPT ![a].mode = waiting[t].mode]
      <4>1. heap' = [heap EXCEPT ![a] = [heap[a] EXCEPT !.mode = waiting[t].mode]]
        BY <2>3, <2>4, <3>1, <3>3
      <4>2. \A x \in Live : x # a => heap'[x] = heap[x]
        BY <2>4, <3>1, <4>1
      <4>3. heap'[a] = [heap[a] EXCEPT !.mode = waiting[t].mode]
        BY <2>3, <2>4, <3>1, <4>1
      <4>4. heap[a] \in LockEntry
        BY <2>3, <2>4
      <4>5. heap'[a].res = heap[a].res /\ heap'[a].holder = heap[a].holder
        BY <4>3, <4>4 DEF LockEntry
      <4> QED
        BY <4>2, <4>5
    <3> QED
      BY <2>2, <3>2, <3>3
  <2>6. status[t] = "active"
    BY <1>1 DEF Ownership, Callers
  <2>7. Callers'
    BY <1>1, <2>1, <2>6 DEF Ownership, Callers
  <2>8. \A g \in granted' : \/ g \in granted
                            \/ \E x \in Live : heap[x].res = g[2] /\ heap[x].holder = g[1]
    BY <2>1, <2>2, <2>3
  <2>9. Undisturbed' => Undisturbed
    BY <2>1 DEF Undisturbed
  <2> QED
    BY <2>1, <2>5, <2>7, <2>8, <2>9, QuietOwned
<1>5. CASE Timeout(t)
  <2>1. /\ UNCHANGED <<heap, chain, held, status, mutex, granted, early>>
        /\ waiting' = [waiting EXCEPT ![t] = Free]
    BY <1>5 DEF Timeout
  <2>2. Callers'
    BY <1>1, <2>1 DEF Ownership, Callers
  <2>3. Undisturbed' => Undisturbed
    BY <2>1 DEF Undisturbed
  <2> QED
    BY <2>1, <2>2, <2>3, QuietOwned
<1> QED
  BY <1>2, <1>3, <1>4, <1>5 DEF Look

LEMMA ReleaseLockOwned ==
  ASSUME Inv, Ownership, NEW t \in Txn, NEW r \in Resource, ReleaseLock(t, r)
  PROVE  Ownership'
<1>1. Hash[r] \in Bucket
  BY LockAssumption
<1>2. PICK i \in 1 .. Len(chain[Hash[r]]) :
        /\ heap[chain[Hash[r]][i]].res = r /\ heap[chain[Hash[r]][i]].holder = t
        /\ chain' = [chain EXCEPT ![Hash[r]] = Unlink(chain[Hash[r]], i)]
        /\ heap' = [heap EXCEPT ![chain[Hash[r]][i]] = Free]
  BY DEF ReleaseLock
<1> DEFINE a == chain[Hash[r]][i]
<1>3. /\ a \in Live /\ Live' = Live \ {a}
      /\ \A x \in Live' : heap'[x] = heap[x]
  BY <1>1, <1>2, RemoveLive
<1>4. heap[a].res = r /\ heap[a].holder = t
  BY <1>2
<1> HIDE DEF a
<1>5. /\ granted' = granted \ {<<t, r>>} /\ early' = early \cup {t}
      /\ UNCHANGED <<held, status, waiting, mutex>>
  BY DEF ReleaseLock
<1>6. status[t] \in {"active", "ending"}
  BY <1>3, <1>4 DEF Ownership, NoOrphanLocks
<1>7. Callers'
  BY <1>5, <1>6 DEF Ownership, Callers
<1>8. NoOrphanLocks'
  BY <1>3, <1>5 DEF Ownership, NoOrphanLocks
<1>9. Undisturbed' => Undisturbed
  BY <1>5 DEF Undisturbed
<1>10. OwnLists'
  <2> SUFFICES ASSUME Undisturbed, NEW u \in Txn \ early, u # t
               PROVE  OwnList(u)'
    BY <1>5, <1>9 DEF OwnLists
  <2>1. OwnList(u)
    BY DEF Ownership, OwnLists
  <2> QED
    BY <1>3, <1>4, <1>5, <2>1 DEF OwnList
<1>11. Kept'
  <2> SUFFICES ASSUME Undisturbed, NEW g \in granted'
               PROVE  \E x \in Live' : heap'[x].res = g[2] /\ heap'[x].holder = g[1]
    BY <1>9 DEF Kept
  <2>1. g \in granted /\ g # <<t, r>> /\ g \in Txn \X Resource
    BY <1>5 DEF Inv, TypeOK
  <2>2. PICK x \in Live : heap[x].res = g[2] /\ heap[x].holder = g[1]
    BY <2>1 DEF Ownership, Kept
  <2>3. x # a
    BY <1>4, <2>1, <2>2
  <2> QED
    BY <1>3, <2>2, <2>3
<1> QED
  BY <1>7, <1>8, <1>10, <1>11 DEF Ownership

\* The release loop takes the head of its list.  While nothing is disturbed
\* the loop is that of a transaction that released nothing early, and the
\* cell is its own.
LEMMA ReleaseNextOwned ==
  ASSUME Inv, Ownership, NEW t \in Txn, ReleaseNext(t)
  PROVE  Ownership'
<1> DEFINE h == held[t]
           a == Head(h)
<1>1. /\ h \in Seq(Addr) /\ h # <<>> /\ held \in [Txn -> Seq(Addr)]
      /\ held' = [held EXCEPT ![t] = Tail(@)] /\ mutex = t /\ t # Free
      /\ UNCHANGED <<status, waiting, mutex, granted, early>>
  BY LockAssumption DEF Inv, TypeOK, ReleaseNext
<1>2. /\ held'[t] = Tail(h) /\ \A u \in Txn : u # t => held'[u] = held[u]
      /\ Len(h) \in Nat \ {0} /\ a = h[1] /\ Len(Tail(h)) = Len(h) - 1
      /\ \A i \in 1 .. Len(h) - 1 : Tail(h)[i] = h[i + 1]
  BY <1>1, HeadTailProperties, LenProperties
<1>3. /\ Live' = Live \ {a}
      /\ \A x \in Live' : heap'[x] = heap[x]
  <2>1. CASE a \in Live
    <3>1. PICK b \in Bucket : \E i \in 1 .. Len(chain[b]) :
            /\ chain[b][i] = a
            /\ chain' = [chain EXCEPT ![b] = Unlink(chain[b], i)]
            /\ heap' = [heap EXCEPT ![a] = Free]
      BY <2>1 DEF ReleaseNext
    <3>2. PICK i \in 1 .. Len(chain[b]) :
            /\ chain[b][i] = a
            /\ chain' = [chain EXCEPT ![b] = Unlink(chain[b], i)]
            /\ heap' = [heap EXCEPT ![chain[b][i]] = Free]
      BY <3>1
    <3> HIDE DEF a
    <3>3. /\ Live' = Live \ {chain[b][i]}
          /\ \A x \in Live' : heap'[x] = heap[x]
      BY <3>2, RemoveLive
    <3> QED
      BY <3>2, <3>3
  <2>2. CASE a \notin Live
    <3>1. UNCHANGED <<heap, chain>>
      BY <2>2 DEF ReleaseNext
    <3> HIDE DEF a
    <3> QED
      BY <2>2, <3>1 DEF Live
  <2> QED
    BY <2>1, <2>2
<1> HIDE DEF h, a
<1>4. status[t] = "ending"
  BY <1>1 DEF Ownership, Callers
<1>5. Callers'
  BY <1>1 DEF Ownership, Callers
<1>6. NoOrphanLocks'
  <2> SUFFICES ASSUME NEW x \in Live'
               PROVE  /\ status'[heap'[x].holder] \in {"active", "ending"}
                      /\ x \in ElementsOf(held'[heap'[x].holder])
    BY DEF NoOrphanLocks
  <2>1. x \in Live /\ x # a /\ heap'[x] = heap[x] /\ heap[x].holder \in Txn
    BY <1>3, LiveCell
  <2>2. /\ status[heap[x].holder] \in {"active", "ending"}
        /\ x \in ElementsOf(held[heap[x].holder])
    BY <2>1 DEF Ownership, NoOrphanLocks
  <2>3. CASE heap[x].holder # t
    BY <1>1, <1>2, <2>1, <2>2, <2>3
  <2>4. CASE heap[x].holder = t
    <3>1. PICK i \in 1 .. Len(h) : h[i] = x
      BY <2>2, <2>4 DEF ElementsOf, h
    <3>2. i # 1 /\ i - 1 \in 1 .. Len(h) - 1 /\ (i - 1) + 1 = i
      BY <1>2, <2>1, <3>1
    <3>3. Tail(h)[i - 1] = x
      BY <1>2, <3>1, <3>2
    <3>4. x \in ElementsOf(Tail(h))
      BY <1>2, <3>2, <3>3 DEF ElementsOf
    <3> QED
      BY <1>1, <1>2, <2>1, <2>2, <2>4, <3>4
  <2> QED
    BY <2>3, <2>4
<1>7. Undisturbed' <=> Undisturbed
  BY <1>1 DEF Undisturbed
<1>8. Undisturbed => /\ t \notin early /\ OwnList(t)
                     /\ a \in Live /\ heap[a].holder = t
  <2>1. Undisturbed => t \notin early
    BY <1>4 DEF Undisturbed
  <2>2. 1 \in 1 .. Len(h)
    BY <1>2
  <2> QED
    BY <1>2, <2>1, <2>2 DEF Ownership, OwnLists, OwnList, h
<1>9. OwnLists'
  <2> SUFFICES ASSUME Undisturbed, NEW u \in Txn \ early
               PROVE  OwnList(u)'
    BY <1>1, <1>7 DEF OwnLists
  <2>1. OwnList(u)
    BY DEF Ownership, OwnLists
  <2>2. CASE u # t
    <3>1. held'[u] = held[u]
      BY <1>2, <2>2
    <3> QED
      BY <1>3, <1>8, <2>1, <2>2, <3>1 DEF OwnList
  <2>3. CASE u = t
    <3>1. \A i \in 1 .. Len(h) : /\ h[i] \in Live /\ heap[h[i]].holder = t
                                 /\ \A j \in 1 .. Len(h) : h[i] = h[j] => i = j
      BY <2>1, <2>3 DEF OwnList, h
    <3>2. \A i \in 1 .. Len(held'[t]) :
            i \in Int /\ i + 1 \in 1 .. Len(h) /\ i + 1 # 1 /\ held'[t][i] = h[i + 1]
      BY <1>2
    <3>3. 1 \in 1 .. Len(h)
      BY <1>2
    <3>4. \A i \in 1 .. Len(held'[t]) : held'[t][i] \in Live' /\ heap'[held'[t][i]].holder = t
      BY <1>2, <1>3, <3>1, <3>2, <3>3
    <3>5. \A i, j \in 1 .. Len(held'[t]) : held'[t][i] = held'[t][j] => i = j
      <4> SUFFICES ASSUME NEW i \in 1 .. Len(held'[t]), NEW j \in 1 .. Len(held'[t]),
                          held'[t][i] = held'[t][j]
                   PROVE  i = j
        OBVIOUS
      <4>1. i + 1 = j + 1
        BY <3>1, <3>2
      <4> QED
        BY <3>2, <4>1
    <3> QED
      BY <2>3, <3>4, <3>5 DEF OwnList
  <2> QED
    BY <2>2, <2>3
<1>10. Kept'
  <2> SUFFICES ASSUME Undisturbed, NEW g \in granted
               PROVE  \E x \in Live' : heap'[x].res = g[2] /\ heap'[x].holder = g[1]
    BY <1>1, <1>7 DEF Kept
  <2>1. PICK x \in Live : heap[x].res = g[2] /\ heap[x].holder = g[1]
    BY DEF Ownership, Kept
  <2>2. status[g[1]] = "active"
    BY DEF Ownership, Callers
  <2>3. x # a
    BY <1>4, <1>8, <2>1, <2>2
  <2> QED
    BY <1>3, <2>1, <2>3
<1> QED
  BY <1>5, <1>6, <1>9, <1>10 DEF Ownership

LEMMA CallOwned ==
  ASSUME Inv, Ownership, NEW t \in Txn,
         \/ Begin(t) \/ StartEnd(t) \/ FinishEnd(t)
         \/ \E r \in Resource, m \in Mode : Acquire(t, r, m)
  PROVE  Ownership'
<1>1. /\ Callers /\ status \in [Txn -> {"new", "active", "ending", "done"}]
      /\ waiting \in [Txn -> Request \cup {Free}] /\ early \subseteq Txn
      /\ granted \subseteq Txn \X Resource /\ Free \notin Txn /\ mutex \in Txn \cup {Free}
  BY LockAssumption DEF Ownership, Inv, TypeOK
<1>2. CASE Begin(t)
  <2>1. /\ status[t] = "new" /\ status' = [status EXCEPT ![t] = "active"]
        /\ UNCHANGED <<heap, chain, held, waiting, mutex, granted, early>>
    BY <1>2 DEF Begin
  <2>2. Callers'
    BY <1>1, <2>1 DEF Callers
  <2>3. Undisturbed' => Undisturbed
    BY <1>1, <2>1 DEF Callers, Undisturbed
  <2> QED
    BY <1>1, <2>1, <2>2, <2>3, QuietOwned
<1>3. CASE StartEnd(t)
  <2>1. /\ status[t] = "active" /\ waiting[t] = Free /\ mutex' = t
        /\ status' = [status EXCEPT ![t] = "ending"]
        /\ granted' = {g \in granted : g[1] # t}
        /\ UNCHANGED <<heap, chain, held, waiting, early>>
    BY <1>3 DEF StartEnd
  <2>2. Callers'
    BY <1>1, <2>1 DEF Callers
  <2>3. Undisturbed' => Undisturbed
    BY <1>1, <2>1 DEF Undisturbed
  <2> QED
    BY <1>1, <2>1, <2>2, <2>3, QuietOwned
<1>4. CASE FinishEnd(t)
  <2>1. /\ mutex = t /\ held[t] = <<>> /\ mutex' = Free
        /\ status' = [status EXCEPT ![t] = "done"]
        /\ UNCHANGED <<heap, chain, held, waiting, granted, early>>
    BY <1>4 DEF FinishEnd
  <2>2. status[t] = "ending"
    BY <1>1, <2>1 DEF Callers
  <2>3. Callers'
    BY <1>1, <2>1, <2>2 DEF Callers
  <2>4. Undisturbed' => Undisturbed
    BY <1>1, <2>1 DEF Undisturbed
  <2> QED
    BY <1>1, <2>1, <2>3, <2>4, QuietOwned
<1>5. CASE \E r \in Resource, m \in Mode : Acquire(t, r, m)
  <2>1. /\ status[t] = "active"
        /\ \E e : waiting' = [waiting EXCEPT ![t] = e]
        /\ UNCHANGED <<heap, chain, held, status, mutex, granted, early>>
    BY <1>5 DEF Acquire
  <2>2. Callers'
    BY <1>1, <2>1 DEF Callers
  <2>3. Undisturbed' => Undisturbed
    BY <2>1 DEF Undisturbed
  <2> QED
    BY <2>1, <2>2, <2>3, QuietOwned
<1> QED
  BY <1>2, <1>3, <1>4, <1>5

-----------------------------------------------------------------------------
(* The theorems. *)

LEMMA InitInv == Init => Inv
<1> SUFFICES ASSUME Init PROVE Inv
  OBVIOUS
<1>1. TypeOK
  BY DEF Init, TypeOK
<1>2. \A b \in Bucket : Len(chain[b]) = 0
  BY DEF Init
<1>3. ChainsSound
  BY <1>2 DEF ChainsSound
<1>4. \A r \in Resource : On(r) = {}
  BY <1>2, LockAssumption DEF On, ElementsOf
<1> QED
  BY <1>1, <1>3, <1>4 DEF Inv, ExclusiveEntryAlone

LEMMA NextInv == Inv /\ [Next]_vars => Inv'
<1> SUFFICES ASSUME Inv, [Next]_vars PROVE Inv'
  OBVIOUS
<1>1. CASE Next
  <2>1. PICK t \in Txn : Step(t)
    BY <1>1 DEF Next
  <2>2. CASE Look(t)
    BY <2>2, LookInv
  <2>3. CASE \E r \in Resource : ReleaseLock(t, r)
    BY <2>3, ReleaseLockInv
  <2>4. CASE ReleaseNext(t)
    BY <2>4, ReleaseNextInv
  <2>5. CASE \/ Begin(t) \/ StartEnd(t) \/ FinishEnd(t)
             \/ \E r \in Resource, m \in Mode : Acquire(t, r, m)
    BY <2>5, QuietInv
  <2> QED
    BY <2>1, <2>2, <2>3, <2>4, <2>5 DEF Step
<1>2. CASE UNCHANGED vars
  <2>1. TypeOK' /\ UNCHANGED <<heap, chain>>
    BY <1>2 DEF Inv, TypeOK, vars
  <2> QED
    BY <2>1, TableSame DEF Inv
<1> QED
  BY <1>1, <1>2

\* The chains of the lock table hold allocated cells, each once and in its
\* own bucket, through every acquire, release and end of transactions.
THEOREM ChainsCorrect == Spec => [](TypeOK /\ ChainsSound)
<1>1. Inv => TypeOK /\ ChainsSound
  BY DEF Inv
<1> QED
  BY <1>1, InitInv, NextInv, PTL DEF Spec

\* An exclusive entry has its resource to itself, although mvcc_acquire_lock
\* compares a request with the first entry only.
THEOREM ExclusiveCorrect == Spec => []ExclusiveEntryAlone
<1>1. Inv => ExclusiveEntryAlone
  BY DEF Inv
<1> QED
  BY <1>1, InitInv, NextInv, PTL DEF Spec

LEMMA InitOwned == Init => Ownership
<1> SUFFICES ASSUME Init PROVE Ownership
  OBVIOUS
<1>1. Live = {}
  BY DEF Init, Live, ElementsOf
<1>2. \A t \in Txn : Len(held[t]) = 0
  BY DEF Init
<1>3. Callers
  BY DEF Init, Callers
<1>4. NoOrphanLocks
  BY <1>1 DEF NoOrphanLocks
<1>5. OwnLists
  BY <1>2 DEF OwnLists, OwnList
<1>6. Kept
  BY DEF Init, Kept
<1> QED
  BY <1>3, <1>4, <1>5, <1>6 DEF Ownership

LEMMA NextOwned == Inv /\ Ownership /\ [Next]_vars => Ownership'
<1> SUFFICES ASSUME Inv, Ownership, [Next]_vars PROVE Ownership'
  OBVIOUS
<1>1. CASE Next
  <2>1. PICK t \in Txn : Step(t)
    BY <1>1 DEF Next
  <2>2. CASE Look(t)
    BY <2>2, LookOwned
  <2>3. CASE \E r \in Resource : ReleaseLock(t, r)
    BY <2>3, ReleaseLockOwned
  <2>4. CASE ReleaseNext(t)
    BY <2>4, ReleaseNextOwned
  <2>5. CASE \/ Begin(t) \/ StartEnd(t) \/ FinishEnd(t)
             \/ \E r \in Resource, m \in Mode : Acquire(t, r, m)
    BY <2>5, CallOwned
  <2> QED
    BY <2>1, <2>2, <2>3, <2>4, <2>5 DEF Step
<1>2. CASE UNCHANGED vars
  BY <1>2 DEF vars, Ownership, Callers, NoOrphanLocks, OwnLists, OwnList, Kept,
              Undisturbed, Live
<1> QED
  BY <1>1, <1>2

\* No lock table entry outlives its transaction, whatever mvcc_release_lock
\* freed before the end: every entry's holder has not ended and still lists
\* the entry.
THEOREM NoOrphansCorrect == Spec => []NoOrphanLocks
<1>1. Ownership => NoOrphanLocks
  BY DEF Ownership
<1> QED
  BY <1>1, InitInv, NextInv, InitOwned, NextOwned, PTL DEF Spec

\* Strict two-phase locking: a granted lock stays in the table until its
\* holder releases it or ends, as long as no transaction that called
\* mvcc_release_lock has gone through mvcc_release_all_locks with the stale
\* pointer that call left it.
THEOREM GrantedCorrect == Spec => []GrantedLocksKept
<1>1. Inv /\ Ownership => GrantedLocksKept
  BY KeptIs DEF Ownership
<1> QED
  BY <1>1, InitInv, NextInv, InitOwned, NextOwned, PTL DEF Spec
=============================================================================
