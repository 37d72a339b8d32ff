---------------------------- MODULE SlottedPage ----------------------------
(***************************************************************************)
(* The slotted page of src/storage_engine.c: a directory of slots that     *)
(* grows up from the header and records that grow down from the end of the *)
(* page.  One call is one step.  The page's bytes are kept one by one,     *)
(* because the question is whether a record is ever overwritten by another *)
(* record, by the directory or by compaction.                              *)
(***************************************************************************)
EXTENDS Integers, Sequences, Functions

CONSTANTS PAGE_SIZE_SE, MAX_SLOT_COUNT,
          HeaderSize, SlotSize,   \* sizeof(SlottedPageHeader), sizeof(SlotEntry)
          SizeModulus,            \* size_t counts modulo this
          RecVal, MaxLen          \* contents and bound on lengths of records

ASSUME PageAssumption ==
  /\ PAGE_SIZE_SE \in Nat /\ HeaderSize \in Nat /\ SlotSize \in Nat \ {0} /\ MaxLen \in Nat
  /\ HeaderSize + SlotSize <= PAGE_SIZE_SE
  /\ SizeModulus \in Nat /\ PAGE_SIZE_SE < SizeModulus

VARIABLES slots,    \* the slots in use: offset, length (0 when deleted)
          end,      \* header.free_space_end
          bytes,    \* the page's bytes
          wrote     \* ghost: slot -> the record last stored there, or <<>>

pagevars == <<slots, end, bytes, wrote>>

SlotEntry == [offset : 0 .. PAGE_SIZE_SE, length : 0 .. MaxLen]
Pos == 0 .. PAGE_SIZE_SE - 1

\* The bytes of a record of length n: every byte is told apart, so that a
\* shifted copy differs from the original.
Rec(v, n) == [i \in 1 .. n |-> <<v, i>>]
Records == {Rec(v, n) : v \in RecVal, n \in 1 .. MaxLen}

Write(b, off, rec) ==
  [p \in Pos |-> IF p \in off .. off + Len(rec) - 1 THEN rec[p - off + 1] ELSE b[p]]
Read(b, off, n) == [i \in 1 .. n |-> IF off + i - 1 \in Pos THEN b[off + i - 1] ELSE <<>>]

slotted_page_init ==
  /\ slots = <<>>
  /\ end = PAGE_SIZE_SE
  /\ bytes = [p \in Pos |-> <<>>]
  /\ wrote = <<>>

-----------------------------------------------------------------------------

\* The subtraction is unsigned: between one and SlotSize - 1 bytes above the
\* directory would count as a huge free space.
slotted_page_free_space(n, e) ==
  LET header_size == HeaderSize + n * SlotSize
  IN  IF e <= header_size THEN 0 ELSE (e - header_size - SlotSize) % SizeModulus

\* Records move to the end of the page, the last slot's first.
SumLen(s, i) == SumFunctionOnSet([j \in 1 .. Len(s) |-> s[j].length], i .. Len(s))
slotted_page_compact(s, e, b) ==
  IF s = <<>> THEN [slots |-> s, end |-> e, bytes |-> b] ELSE
  LET off == [i \in 1 .. Len(s) |-> PAGE_SIZE_SE - SumLen(s, i)]
      moved == {i \in 1 .. Len(s) : s[i].length > 0}
      From(p) == {s[i].offset + p - off[i] :
                    i \in {j \in moved : p \in off[j] .. off[j] + s[j].length - 1}} \cap Pos
  IN  [slots |-> [i \in 1 .. Len(s) |-> IF i \in moved THEN [s[i] EXCEPT !.offset = off[i]] ELSE s[i]],
       end   |-> off[1],
       bytes |-> [p \in Pos |-> IF From(p) = {} THEN b[p] ELSE b[CHOOSE q \in From(p) : TRUE]]]

\* The page a caller that needs n bytes works on: as it is when they fit,
\* compacted when they do not.
Roomy(s, n) ==
  IF slotted_page_free_space(Len(s), end) < n
  THEN slotted_page_compact(s, end, bytes)
  ELSE [slots |-> s, end |-> end, bytes |-> bytes]

\* Store a record in slot i of page pg (i may be one past the last).
Place(pg, i, rec) ==
  LET off == pg.end - Len(rec)
      ent == [offset |-> off, length |-> Len(rec)]
  IN  /\ slots' = IF i > Len(pg.slots) THEN Append(pg.slots, ent) ELSE [pg.slots EXCEPT ![i] = ent]
      /\ bytes' = Write(pg.bytes, off, rec)
      /\ end' = off

Deleted(s) == {i \in 1 .. Len(s) : s[i].length = 0}
FirstFree(s) == IF Deleted(s) = {} THEN Len(s) + 1
                ELSE CHOOSE i \in Deleted(s) : \A j \in Deleted(s) : i <= j

(* Mutant: the room for the new slot is not asked for. *)
InsertNeedsRecord(n) == n
InsertNeeds(n) == n + SlotSize
slotted_page_insert(rec) ==
  LET pg == Roomy(slots, InsertNeeds(Len(rec)))
      i == FirstFree(pg.slots)
  IN  IF slotted_page_free_space(Len(pg.slots), pg.end) < InsertNeeds(Len(rec)) \/ i > MAX_SLOT_COUNT
      THEN /\ slots' = pg.slots /\ end' = pg.end /\ bytes' = pg.bytes
           /\ UNCHANGED wrote
      ELSE /\ Place(pg, i, rec)
           /\ wrote' = IF i > Len(wrote) THEN Append(wrote, rec) ELSE [wrote EXCEPT ![i] = rec]

slotted_page_get(i) == Read(bytes, slots[i].offset, slots[i].length)

slotted_page_delete(i) ==
  /\ slots[i].length # 0
  /\ slots' = [slots EXCEPT ![i].length = 0]
  /\ wrote' = [wrote EXCEPT ![i] = <<>>]
  /\ UNCHANGED <<end, bytes>>

\* A shorter record is written in place.  A longer one first frees the slot,
\* and when it does not fit even after compaction the record is gone.
UpdateNeeds(n) == n
slotted_page_update(i, rec) ==
  /\ slots[i].length # 0
  /\ IF Len(rec) <= slots[i].length
     THEN /\ bytes' = Write(bytes, slots[i].offset, rec)
          /\ slots' = [slots EXCEPT ![i].length = Len(rec)]
          /\ wrote' = [wrote EXCEPT ![i] = rec]
          /\ UNCHANGED end
     ELSE LET pg == Roomy([slots EXCEPT ![i].length = 0], UpdateNeeds(Len(rec)))
          IN  IF slotted_page_free_space(Len(pg.slots), pg.end) < UpdateNeeds(Len(rec))
              THEN /\ slots' = pg.slots /\ end' = pg.end /\ bytes' = pg.bytes
                   /\ wrote' = [wrote EXCEPT ![i] = <<>>]
              ELSE /\ Place(pg, i, rec)
                   /\ wrote' = [wrote EXCEPT ![i] = rec]

PageNext ==
  \/ \E rec \in Records : slotted_page_insert(rec)
  \/ \E i \in 1 .. Len(slots) : slotted_page_delete(i)
  \/ \E i \in 1 .. Len(slots), rec \in Records : slotted_page_update(i, rec)

-----------------------------------------------------------------------------

(* Whatever inserts, deletions, updates and compactions went before, every
   live slot reads back exactly the record last stored in it, and a page with
   a deleted or failed record forgets only that one.  The free-space
   subtraction never wraps around: there is always room for one more slot
   entry between the directory and the lowest record, so no insert or update
   is let in by a huge unsigned value. *)
RecordsReadBack ==
  /\ Len(wrote) = Len(slots)
  /\ \A i \in 1 .. Len(slots) : slotted_page_get(i) = wrote[i]
  /\ HeaderSize + (Len(slots) + 1) * SlotSize <= end
=============================================================================
