------------------------------ MODULE LeafPage ------------------------------
(***************************************************************************)
(* The leaf page of src/btree.c: its cells are kept in key order, the      *)
(* place of a new one being found by binary search.  The pool that holds   *)
(* the page while it is changed is module BufferPool, which extends this.  *)
(***************************************************************************)
EXTENDS Integers, Sequences, SequencesExt

\* One round of the search in the cells min_index .. one_past_max_index - 1,
\* counted from 0; both are the place of the key once it was met.
SearchRound(cells, k, s) ==
  LET index == (s.min_index + s.one_past_max_index) \div 2
      key == cells[index + 1]
  IN  IF s.min_index = s.one_past_max_index THEN s
      ELSE IF k = key THEN [min_index |-> index, one_past_max_index |-> index]
      ELSE IF k < key THEN [s EXCEPT !.one_past_max_index = index]
      ELSE [s EXCEPT !.min_index = index + 1]
table_find(cells, k) ==
  LET search[i \in 0 .. Len(cells)] ==
        IF i = 0 THEN [min_index |-> 0, one_past_max_index |-> Len(cells)]
        ELSE SearchRound(cells, k, search[i - 1])
  IN  search[Len(cells)].min_index

\* What leaf_node_insert makes of the cells: those from the cursor on move up.
LeafCells(cells, k) == InsertAt(cells, table_find(cells, k) + 1, k)

InKeyOrder(cells) == \A i, j \in 1 .. Len(cells) : i < j => cells[i] <= cells[j]
=============================================================================
