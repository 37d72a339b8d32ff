-------------------------------- MODULE Select --------------------------------
(***************************************************************************)
(* SELECT: execute_select of src/executor.c (lookup or scan, projection,   *)
(* buckets, buffered output) and the result sets of src/query_result.c     *)
(* (columns, rows, ORDER BY, LIMIT and OFFSET).  A cell is the name of a   *)
(* text; NumOf is its atof and LexOf its place in the order of strcmp.  A  *)
(* row is [key, cells], key being the text the row was stored under; the   *)
(* sequence of rows is the order kv_iterate meets them in.  Layout and     *)
(* colours are left out; a printed cell is a tagged tuple.                 *)
(***************************************************************************)
EXTENDS Conditions, Integers, SequencesExt

CONSTANTS NumOf, LexOf, Numeric, \* atof, strcmp order, the texts is_numeric_string accepts
          NullText,           \* the text "NULL"
          Big,                \* 999999999, where min_val and max_val start
          RESULT_MAX_COLUMNS

Texts == DOMAIN NumOf

(* What a statement says.  A comparison's right side is a text, or a       *)
(* subquery <<column, where>> while `sub` is not empty.                    *)
NoWhere == <<"none">>
Cmp(col, op, text) == [col |-> col, op |-> op, text |-> text, sub |-> <<>>]
SubCmp(col, op, column, where) ==
  [col |-> col, op |-> op, text |-> NullText, sub |-> <<column, where>>]

\* Functions of a projected column, 0 for a plain one.
COUNT == 1
SUM == 2
AVG == 3
MAX == 4
MIN == 5

(* Conditions. *)

Positions(schema, name) == {i \in DOMAIN schema : schema[i].name = name}
\* 0 is the code's -1.
get_col_index(schema, name) ==
  LET p == Positions(schema, name)
  IN  IF p = {} THEN 0 ELSE CHOOSE i \in p : \A j \in p : i <= j

Compared(op, a, b) == CASE op = "=" -> a = b [] op = ">" -> a > b
                        [] op = "<" -> a < b [] OTHER -> FALSE

\* A comparison of one row; an unresolved subquery is false.
CmpHolds(c, schema, cells) ==
  LET i == get_col_index(schema, c.col)
  IN  /\ i \in DOMAIN cells
      /\ c.sub = <<>>
      /\ IF schema[i].numeric THEN Compared(c.op, NumOf[cells[i]], NumOf[c.text])
                              ELSE Compared(c.op, LexOf[cells[i]], LexOf[c.text])

RECURSIVE Comparisons(_)
Comparisons(cond) == CASE cond[1] = "cmp"  -> {cond[2]}
                       [] cond[1] = "none" -> {}
                       [] OTHER -> Comparisons(cond[2]) \cup Comparisons(cond[3])

Satisfies(cond, schema, cells) ==
  \/ cond = NoWhere
  \/ evaluate_condition(cond, {c \in Comparisons(cond) : CmpHolds(c, schema, cells)})

\* The texts a scalar subquery over the same table can give: the projected cell
\* of the first row that satisfies its condition, or "NULL".  Its col_types are
\* never set, so a comparison may go either way; an unknown column reads before
\* the row.  Its own condition is resolved first.
RECURSIVE resolve_where_clause(_, _, _)
execute_scalar_subquery(sub, schema, table) ==
  LET Typed(f) == [i \in DOMAIN schema |-> [schema[i] EXCEPT !.numeric = f[i]]]
      Hits(cond, f) == SelectSeq(table, LAMBDA r : Satisfies(cond, Typed(f), r.cells))
      i == get_col_index(schema, sub[1])
      Answer(hits) == IF hits = <<>> THEN {NullText}
                      ELSE IF i = 0 THEN Texts
                      ELSE IF i > Len(hits[1].cells) THEN {NullText}
                      ELSE {hits[1].cells[i]}
  IN  UNION {Answer(Hits(cond, f)) : cond \in resolve_where_clause(sub[2], schema, table),
                                     f \in [DOMAIN schema -> BOOLEAN]}

\* Only the comparison at the top of the tree is looked at.
resolve_where_clause(cond, schema, table) ==
  IF cond[1] = "cmp" /\ cond[2].sub # <<>>
  THEN {Comparison(Cmp(cond[2].col, cond[2].op, v)) :
          v \in execute_scalar_subquery(cond[2].sub, schema, table)}
  ELSE {cond}

(* Buckets, newest first. *)

NewBucket(key) == [key |-> key, count |-> 0, sum_val |-> 0, min_val |-> Big, max_val |-> -Big]
Aggregated(proj, schema) == {k \in DOMAIN proj : proj[k].func >= SUM /\ proj[k].index <= Len(schema)}

\* Of several aggregated columns the last one is summed.
update_bucket(groups, key, cells, proj, schema) ==
  LET old == SelectSeq(groups, LAMBDA b : b.key = key)
      all == IF old = <<>> THEN <<NewBucket(key)>> \o groups ELSE groups
      agg == Aggregated(proj, schema)
      val == NumOf[cells[proj[CHOOSE k \in agg : \A j \in agg : j <= k].index]]
      Counted(b) == [b EXCEPT !.count = @ + 1]
      Summed(b) == [Counted(b) EXCEPT !.sum_val = @ + val,
                                      !.min_val = IF val < @ THEN val ELSE @,
                                      !.max_val = IF val > @ THEN val ELSE @]
  IN  [i \in DOMAIN all |-> IF all[i].key # key THEN all[i]
                            ELSE IF agg = {} THEN Counted(all[i]) ELSE Summed(all[i])]

\* group_col_idx: the column, or 0 for the implicit group "ALL".
AllRows == <<"ALL">>
GroupKey(g, cells) == IF g \in DOMAIN cells THEN <<"key", cells[g]>> ELSE AllRows
RECURSIVE Buckets(_, _, _, _)
Buckets(rows, g, proj, schema) ==
  IF rows = <<>> THEN <<>>
  ELSE update_bucket(Buckets(Front(rows), g, proj, schema), GroupKey(g, Last(rows).cells),
                     Last(rows).cells, proj, schema)

Text(v) == <<"text", v>>
print_groups(groups, g, proj) ==
  LET Cell(b, p) == CASE p.func = COUNT -> <<"num", b.count>>
                      [] p.func = SUM   -> <<"num", b.sum_val>>
                      [] p.func = AVG   -> <<"quotient", b.sum_val, b.count>>
                      [] p.func = MAX   -> <<"num", b.max_val>>
                      [] p.func = MIN   -> <<"num", b.min_val>>
                      [] OTHER -> IF p.index = g THEN b.key ELSE <<"...">>
  IN  [i \in DOMAIN groups |-> [k \in DOMAIN proj |-> Cell(groups[i], proj[k])]]

(* Result sets: column names and types, rows, and the count kept beside    *)
(* the list.                                                               *)

NoName == "NULL"
result_set_create(n) ==
  LET known == IF n > 0 /\ n <= RESULT_MAX_COLUMNS THEN n ELSE 0
  IN  [column_names |-> [i \in 1 .. known |-> NoName],
       column_types |-> [i \in 1 .. known |-> FALSE], rows |-> <<>>, row_count |-> 0]
\* Adds after the columns result_set_create already counts.
result_set_add_column(rs, name, numeric) ==
  IF Len(rs.column_names) >= RESULT_MAX_COLUMNS THEN rs
  ELSE [rs EXCEPT !.column_names = Append(@, name), !.column_types = Append(@, numeric)]
result_set_set_columns(rs, names, types) ==
  IF Len(names) > RESULT_MAX_COLUMNS THEN rs
  ELSE [rs EXCEPT !.column_names = names, !.column_types = types]
result_set_add_row(rs, values) ==
  IF values = <<>> THEN rs ELSE [rs EXCEPT !.rows = Append(@, values), !.row_count = @ + 1]
RECURSIVE AddRows(_, _)
AddRows(rs, rows) ==
  IF rows = <<>> THEN rs ELSE AddRows(result_set_add_row(rs, Head(rows)), Tail(rows))
result_set_get_value(rs, row, col) ==
  IF row \in 1 .. rs.row_count /\ row \in DOMAIN rs.rows /\ col \in DOMAIN rs.rows[row]
  THEN rs.rows[row][col] ELSE NullText

\* parse_order_by: the column's place (0: not found) and how it is compared.
SortSpec(rs, column, descending) ==
  LET p == {i \in DOMAIN rs.column_names : rs.column_names[i] = column}
      c == IF p = {} THEN 0 ELSE CHOOSE i \in p : \A j \in p : i <= j
  IN  [column_index |-> c, descending |-> descending,
       is_numeric |-> c # 0 /\ rs.column_types[c]]

Sign(a, b) == IF a > b THEN 1 ELSE IF a < b THEN -1 ELSE 0
\* Two texts that both look like numbers are compared as numbers.
CompareCells(spec, a, b) ==
  LET cmp == IF spec.is_numeric /\ a \in Numeric /\ b \in Numeric
             THEN Sign(NumOf[a], NumOf[b]) ELSE Sign(LexOf[a], LexOf[b])
  IN  IF spec.descending THEN -cmp ELSE cmp
RECURSIVE compare_rows(_, _, _)
compare_rows(specs, a, b) ==
  IF specs = <<>> THEN 0
  ELSE LET c == Head(specs).column_index
           cmp == IF c > Len(a) \/ c > Len(b) THEN 0 ELSE CompareCells(Head(specs), a[c], b[c])
       IN  IF cmp # 0 THEN cmp ELSE compare_rows(Tail(specs), a, b)

\* The C library's qsort: a merge sort that keeps equal rows in order.
RECURSIVE Merge(_, _, _)
Merge(specs, s, t) ==
  IF s = <<>> THEN t ELSE IF t = <<>> THEN s
  ELSE IF compare_rows(specs, s[1], t[1]) <= 0
       THEN <<s[1]>> \o Merge(specs, Tail(s), t) ELSE <<t[1]>> \o Merge(specs, s, Tail(t))
RECURSIVE qsort(_, _)
qsort(specs, s) ==
  LET h == Len(s) \div 2
  IN  IF Len(s) < 2 THEN s
      ELSE Merge(specs, qsort(specs, SubSeq(s, 1, h)), qsort(specs, SubSeq(s, h + 1, Len(s))))

result_set_sort_multi(rs, specs) ==
  IF specs = <<>> \/ rs.row_count < 2 THEN rs ELSE [rs EXCEPT !.rows = qsort(specs, @)]
\* 0 and no change when the column is not known.
result_set_sort(rs, column, descending) ==
  LET spec == SortSpec(rs, column, descending)
  IN  IF spec.column_index = 0 THEN rs ELSE result_set_sort_multi(rs, <<spec>>)

\* The rows before the offset are freed one by one, then those past the limit.
RECURSIVE Skip(_, _)
Skip(rs, n) == IF n <= 0 \/ rs.rows = <<>> THEN rs
               ELSE Skip([rs EXCEPT !.rows = Tail(@), !.row_count = @ - 1], n - 1)
RECURSIVE Cut(_, _)
Cut(rs, limit) == IF Len(rs.rows) <= limit THEN rs
                  ELSE Cut([rs EXCEPT !.rows = Front(@), !.row_count = @ - 1], limit)
result_set_limit(rs, limit, offset) ==
  LET rest == Skip(rs, offset) IN IF limit > 0 THEN Cut(rest, limit) ELSE rest

RECURSIVE SliceFrom(_, _, _, _, _)
SliceFrom(slice, rs, index, limit, offset) ==
  IF index > Len(rs.rows) THEN slice
  ELSE IF index <= offset THEN SliceFrom(slice, rs, index + 1, limit, offset)
  ELSE IF limit <= 0 \/ slice.row_count < limit
       THEN SliceFrom(result_set_add_row(slice, rs.rows[index]), rs, index + 1, limit, offset)
       ELSE slice
result_set_slice(rs, limit, offset) ==
  SliceFrom(result_set_set_columns(result_set_create(Len(rs.column_names)),
                                   rs.column_names, rs.column_types), rs, 1, limit, offset)

(* execute_select. *)

\* COUNT(*) counts any column; an unknown column gets the index 999, here one
\* past every column.
Projection(stmt, schema) ==
  LET Index(c) == IF c.value = "*" /\ c.func = COUNT THEN 1
                  ELSE IF Positions(schema, c.value) = {} THEN RESULT_MAX_COLUMNS + 1
                  ELSE get_col_index(schema, c.value)
  IN  IF stmt.columns[1].value = "*" /\ stmt.columns[1].func = 0 THEN <<>>
      ELSE [k \in DOMAIN stmt.columns |->
              [index |-> Index(stmt.columns[k]), func |-> stmt.columns[k].func,
               name |-> stmt.columns[k].value]]

\* An unknown GROUP BY column turns grouping off.
Grouping(stmt, schema, proj) ==
  LET g == get_col_index(schema, stmt.group_by)
  IN  IF stmt.group_by = "" THEN [active |-> \E k \in DOMAIN proj : proj[k].func > 0, col |-> 0]
      ELSE [active |-> g # 0, col |-> g]

(* Mutant: any comparison with id is taken for a lookup. *)
LookupAnyOperator(cond) == cond[1] = "cmp" /\ cond[2].col = "id" /\ cond[2].sub = <<>>

\* `id = literal` reads one key instead of scanning.
DistinctLookup(cond) == cond[1] = "cmp" /\ cond[2].col = "id" /\ cond[2].op = "=" /\ cond[2].sub = <<>>
Source(cond, table) == IF DistinctLookup(cond)
                       THEN SelectSeq(table, LAMBDA r : r.key = cond[2].text) ELSE table

ProjectRow(proj, cells) ==
  LET Cell(i) == IF i \in DOMAIN cells THEN cells[i] ELSE NullText
  IN  IF proj = <<>> THEN cells ELSE [k \in DOMAIN proj |-> Cell(proj[k].index)]

\* The result set of the buffered mode, with the columns counted twice.
RECURSIVE AddColumns(_, _, _, _)
AddColumns(rs, proj, schema, i) ==
  LET n == IF proj = <<>> THEN Len(schema) ELSE Len(proj)
      c == IF proj = <<>> THEN i ELSE proj[i].index
      name == IF proj = <<>> THEN schema[i].name ELSE proj[i].name
      numeric == c <= Len(schema) /\ schema[c].numeric
  IN  IF i > n THEN rs
      ELSE AddColumns(result_set_add_column(rs, name, numeric), proj, schema, i + 1)

PrintedRow(cells, n) == [i \in 1 .. n |-> Text(IF i \in DOMAIN cells THEN cells[i] ELSE NullText)]

\* The printed rows, or a crash: ORDER BY compares its column with the names
\* result_set_create left NULL.
execute_select(stmt, cond, schema, table) ==
  LET proj == Projection(stmt, schema)
      grouping == Grouping(stmt, schema, proj)
      hits == SelectSeq(Source(cond, table), LAMBDA r : Satisfies(cond, schema, r.cells))
      plain == [i \in DOMAIN hits |-> ProjectRow(proj, hits[i].cells)]
      empty == AddColumns(result_set_create(IF proj = <<>> THEN Len(schema) ELSE Len(proj)),
                          proj, schema, 1)
      limited == result_set_limit(IF grouping.active THEN empty ELSE AddRows(empty, plain),
                                  stmt.limit, stmt.offset)
  IN  IF stmt.order_by # <<>>
      THEN [status |-> "crash", rows |-> <<>>]
      ELSE IF stmt.limit > 0
      THEN [status |-> "ok", rows |-> [i \in DOMAIN limited.rows |->
              PrintedRow(limited.rows[i], Len(empty.column_names))]]
      ELSE IF grouping.active
      THEN [status |-> "ok",
            rows |-> print_groups(Buckets(hits, grouping.col, proj, schema), grouping.col, proj)]
      ELSE [status |-> "ok", rows |-> [i \in DOMAIN plain |-> PrintedRow(plain[i], Len(plain[i]))]]

(* What the statement asks for, over the whole table and its matching rows. *)

RECURSIVE SumOver(_, _, _)
SumOver(matching, members, c) ==
  IF members = {} THEN 0
  ELSE LET m == CHOOSE m \in members : TRUE
       IN  NumOf[matching[m].cells[c]] + SumOver(matching, members \ {m}, c)
WantedCell(matching, members, p, g) ==
  LET Values == {NumOf[matching[m].cells[p.index]] : m \in members}
  IN  CASE p.func = COUNT -> <<"num", Cardinality(members)>>
        [] p.func = SUM   -> <<"num", SumOver(matching, members, p.index)>>
        [] p.func = AVG   -> <<"quotient", SumOver(matching, members, p.index), Cardinality(members)>>
        [] p.func = MAX   -> <<"num", CHOOSE v \in Values : \A w \in Values : w <= v>>
        [] p.func = MIN   -> <<"num", CHOOSE v \in Values : \A w \in Values : v <= w>>
        [] OTHER -> IF p.index = g THEN GroupKey(g, matching[CHOOSE m \in members : TRUE].cells)
                    ELSE <<"...">>

\* One bucket keeps one sum: statements that aggregate two columns are left out.
OneAggregate(proj, schema) ==
  \A j, k \in {i \in DOMAIN proj : proj[i].func >= SUM} :
    proj[j].index = proj[k].index /\ proj[k].index <= Len(schema)

\* A SELECT prints what it asks for, whichever way execute_select finds the
\* rows (one key for `id =`, or a scan) and lists them (at once, through the
\* buckets, or through a result set cut by LIMIT and OFFSET): the matching rows
\* in scan order, each group once with its own aggregates.  Left out: ORDER BY
\* (a crash), groups with LIMIT (nothing is printed), two aggregated columns.
SelectAnswers(stmt, schema, table) ==
  \A cond \in resolve_where_clause(stmt.where, schema, table) :
    LET out == execute_select(stmt, cond, schema, table)
        proj == Projection(stmt, schema)
        grouping == Grouping(stmt, schema, proj)
        matching == SelectSeq(table, LAMBDA r : Satisfies(cond, schema, r.cells))
        Plain(i) == LET cells == ProjectRow(proj, matching[i].cells)
                    IN  [k \in DOMAIN cells |-> Text(cells[k])]
        Key(i) == GroupKey(grouping.col, matching[i].cells)
        Groups == {{j \in DOMAIN matching : Key(j) = Key(i)} : i \in DOMAIN matching}
        Rest == IF Len(matching) > stmt.offset THEN Len(matching) - stmt.offset ELSE 0
    IN  stmt.order_by = <<>> =>
        CASE grouping.active /\ stmt.limit = 0 /\ OneAggregate(proj, schema) ->
               /\ Len(out.rows) = Cardinality(Groups)
               /\ ToSet(out.rows) = {[k \in DOMAIN proj |->
                    WantedCell(matching, members, proj[k], grouping.col)] : members \in Groups}
          [] ~ grouping.active /\ stmt.limit = 0 ->
               out.rows = [i \in DOMAIN matching |-> Plain(i)]
          [] ~ grouping.active /\ stmt.limit > 0 ->
               /\ Len(out.rows) = IF Rest < stmt.limit THEN Rest ELSE stmt.limit
               /\ \A i \in DOMAIN out.rows : IsPrefix(Plain(stmt.offset + i), out.rows[i])
          [] OTHER -> TRUE

\* ORDER BY, LIMIT and OFFSET on a result set: unless a numeric column mixes
\* numbers and other texts, the sorted rows are a permutation in which no row
\* comes before a smaller one and equal rows keep their order; result_set_limit
\* leaves the rows result_set_slice copies, and row_count counts the rows.
ResultSetSound(rs, column, descending, limit, offset) ==
  LET sorted == result_set_sort(rs, column, descending)
      spec == SortSpec(rs, column, descending)
      limited == result_set_limit(sorted, limit, offset)
      Value(i) == sorted.rows[i][spec.column_index]
      unmixed == \/ ~ spec.is_numeric
                 \/ \A i \in DOMAIN rs.rows : rs.rows[i][spec.column_index] \in Numeric
      Place(i) == CHOOSE k \in DOMAIN rs.rows : rs.rows[k] = sorted.rows[i]
      Ordered(i, j) ==
        /\ CompareCells(spec, Value(i), Value(j)) <= 0
        /\ CompareCells(spec, Value(i), Value(j)) = 0 => Place(i) <= Place(j)
  IN  /\ ToSet(sorted.rows) = ToSet(rs.rows) /\ Len(sorted.rows) = Len(rs.rows)
      /\ unmixed /\ spec.column_index # 0 =>
           \A i, j \in DOMAIN sorted.rows : i < j => Ordered(i, j)
      /\ limited.rows = result_set_slice(sorted, limit, offset).rows
      /\ limited.row_count = Len(limited.rows)
===============================================================================
