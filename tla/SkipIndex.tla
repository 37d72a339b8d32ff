----------------------------- MODULE SkipIndex -----------------------------
(***************************************************************************)
(* The column indexes of src/storage.c: skip lists whose levels are drawn  *)
(* with rand(), filled by kv_update_indexes as rows are inserted and read  *)
(* by kv_search_index and kv_scan_index_range.  Values are compared with   *)
(* strcmp: a value is its place in that order.  Nothing refuses a second   *)
(* index on the same column; the new one is at the head of the list and    *)
(* starts empty.  (executor.c registers "DB:<db>:TBL:<table>" and looks up *)
(* "<table>": its own statements never reach an index.)                    *)
(***************************************************************************)
EXTENDS Integers, Sequences, SequencesExt

CONSTANTS IxColumn,       \* columns of the indexed table
          IxValue,        \* values of a cell, a set of naturals
          MAX_LEVEL,
          MaxIndexes, MaxRows   \* bounds: kv_create_index calls, inserted rows

VARIABLES ilist,          \* store->indexes, newest first
          inserted        \* ghost: the rows inserted so far, row i has key i

ixlvars == <<ilist, inserted>>

ASSUME SkipAssumption == IxValue \subseteq Nat /\ MAX_LEVEL \in Nat

\* Node 1 is the header; forward[l] = 0 is NULL; levels are 0 .. MAX_LEVEL.
create_skip_node(lvl, value, pk) ==
  [value |-> value, pk |-> pk, forward |-> [l \in 0 .. lvl |-> 0]]

skip_init == ilist = <<>> /\ inserted = <<>>

kv_create_index(col) ==
  /\ Len(ilist) < MaxIndexes
  /\ ilist' = <<[column |-> col, level |-> 0, since |-> Len(inserted),
                 nodes |-> <<create_skip_node(MAX_LEVEL, 0, 0)>>]>> \o ilist
  /\ UNCHANGED inserted

\* The while loop of a search on level i, from node x: it ends before it has
\* made a round for every node.
AdvanceOne(nodes, x, i, val) ==
  LET n == nodes[x].forward[i] IN IF n # 0 /\ nodes[n].value < val THEN n ELSE x
Advance(nodes, x, i, val) ==
  LET at[k \in 0 .. Len(nodes)] == IF k = 0 THEN x ELSE AdvanceOne(nodes, at[k - 1], i, val)
  IN  at[Len(nodes)]

\* update[i]: the search goes down from the header and the index's level to i.
Predecessor(idx, i, val) ==
  LET from[k \in 0 .. idx.level + 1] ==
        IF k = 0 THEN 1 ELSE Advance(idx.nodes, from[k - 1], idx.level + 1 - k, val)
  IN  from[idx.level + 1 - i]

(* Mutant: the new node is linked on its top level only. *)
AddOnTop(idx, val, pk, lvl) ==
  LET top == IF lvl > idx.level THEN 1 ELSE Predecessor(idx, lvl, val)
      new == Len(idx.nodes) + 1
      node == [create_skip_node(lvl, val, pk) EXCEPT
                 !.forward[lvl] = idx.nodes[top].forward[lvl]]
  IN  [idx EXCEPT !.level = IF lvl > @ THEN lvl ELSE @,
                  !.nodes = Append([idx.nodes EXCEPT ![top].forward[lvl] = new], node)]

kv_add_to_index(idx, val, pk, lvl) ==
  LET update == [i \in 0 .. lvl |-> IF i > idx.level THEN 1 ELSE Predecessor(idx, i, val)]
      new == Len(idx.nodes) + 1
      node == [create_skip_node(lvl, val, pk) EXCEPT
                 !.forward = [i \in 0 .. lvl |-> idx.nodes[update[i]].forward[i]]]
      Relink(x) == [idx.nodes[x] EXCEPT !.forward =
                      [i \in DOMAIN @ |-> IF i <= lvl /\ update[i] = x THEN new ELSE @[i]]]
  IN  [idx EXCEPT !.level = IF lvl > @ THEN lvl ELSE @,
                  !.nodes = Append([x \in DOMAIN idx.nodes |-> Relink(x)], node)]

\* An inserted row: every index takes the value of its column, each with a
\* level of its own.
kv_update_indexes(row, lvl) ==
  /\ Len(inserted) < MaxRows
  /\ inserted' = Append(inserted, row)
  /\ ilist' = [k \in DOMAIN ilist |->
       kv_add_to_index(ilist[k], row[ilist[k].column], Len(inserted'), lvl[k])]

SkipNext == \/ \E c \in IxColumn : kv_create_index(c)
            \/ \E row \in [IxColumn -> IxValue], lvl \in [DOMAIN ilist -> 0 .. MAX_LEVEL] :
                 kv_update_indexes(row, lvl)

\* The first index of the list that matches; 0 when there is none.
Matching(col) == {k \in DOMAIN ilist : ilist[k].column = col}
FindIndex(col) == CHOOSE k \in Matching(col) : \A j \in Matching(col) : k <= j
kv_has_index(col) == Matching(col) # {}

kv_search_index_range(idx, val) == idx.nodes[Predecessor(idx, 0, val)].forward[0]

\* NoPk is the NULL of a search that finds nothing.
NoPk == 0
kv_search_index(col, val) ==
  LET idx == ilist[FindIndex(col)]
      n == kv_search_index_range(idx, val)
  IN  IF n # 0 /\ idx.nodes[n].value = val THEN idx.nodes[n].pk ELSE NoPk

\* The keys the callback receives; with `equal` it stops at the first value
\* other than val (scan_stop_val), without it the loop skips val itself.
ScanOne(nodes, s, val, equal) ==
  IF s.node = 0 THEN s
  ELSE LET n == nodes[s.node]
       IN  IF equal = (n.value = val) THEN [node |-> n.forward[0], keys |-> Append(s.keys, n.pk)]
           ELSE [s EXCEPT !.node = IF equal THEN 0 ELSE n.forward[0]]
kv_scan_index_range(col, val, equal) ==
  LET idx == ilist[FindIndex(col)]
      scan[k \in 0 .. Len(idx.nodes)] ==
        IF k = 0 THEN [node |-> kv_search_index_range(idx, val), keys |-> <<>>]
        ELSE ScanOne(idx.nodes, scan[k - 1], val, equal)
  IN  scan[Len(idx.nodes)].keys

\* Whatever levels rand() drew, a scan of an index returns exactly the rows
\* inserted since the newest index of that column was created whose value is
\* in the range, each once and in value order, and a search finds one of them.
IndexScansAll ==
  \A c \in IxColumn, v \in IxValue : kv_has_index(c) =>
    LET since == ilist[FindIndex(c)].since
        Rows(equal) == {p \in since + 1 .. Len(inserted) :
                          IF equal THEN inserted[p][c] = v ELSE inserted[p][c] > v}
        Exact(equal) == LET s == kv_scan_index_range(c, v, equal)
                        IN  /\ ToSet(s) = Rows(equal)
                            /\ IsInjective(s)
                            /\ \A i \in 1 .. Len(s) - 1 :
                                 inserted[s[i]][c] <= inserted[s[i + 1]][c]
        found == kv_search_index(c, v)
    IN  /\ Exact(TRUE) /\ Exact(FALSE)
        /\ IF Rows(TRUE) = {} THEN found = NoPk ELSE found \in Rows(TRUE)
===============================================================================
