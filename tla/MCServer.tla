------------------------------- MODULE MCServer -------------------------------
(***************************************************************************)
(* The server from the socket to the answer: message framing, users and    *)
(* sessions, prepared statements, SELECT, the result cache, and the pool   *)
(* of connections a master keeps to a worker: two threads and the health   *)
(* check on a pool of one connection.                                      *)
(* These parts share no state; a behaviour exercises one of them (part),   *)
(* and the others keep their initial state.                                *)
(***************************************************************************)
EXTENDS ConnPool, Framing, QueryCache, Sessions, Statements, TLC

VARIABLES part,
          question   \* the table and the statement asked of it, or <<>>

\* One spare user and one spare role, two connections of one address, two
\* sessions, tokens that expire, one failure before a lock; messages from empty
\* to larger than the receive buffer, and one the sender refuses.
OneAddress == <<1, 1>>

\* The result cache: two of three queries share a hash; two places; counters
\* modulo 16.
QueryHash == <<1, 1, 2>>
QueryTables == <<{"t"}, {"t"}, {"u"}>>

\* Prepared statements: a template with a quoted question mark, one with more
\* placeholders than are bound, a parameter that holds one; one place in the cache.
Templates == {<<"a", "?">>, <<"?", "'", "?", "'", "?">>, <<"?", "?", "?">>}
ParamValues == {<<"1">>, <<"'", "?", "'">>}
KeyIndex == [k |-> 0, l |-> 0]
KeySize == [k |-> 1, l |-> 2]

\* SELECT over two columns and three rows.  The texts 1 .. 5 stand for "1", "2",
\* "10", "x" and "NULL", given by their atof and their place in strcmp's order.
Rows == INSTANCE Select
  WITH NumOf <- <<1, 2, 10, 0, 0>>, LexOf <- <<1, 3, 2, 5, 4>>, Numeric <- 1 .. 3,
       NullText <- 5, Big <- 99, RESULT_MAX_COLUMNS <- 8

Schemas == {<<[name |-> "id", numeric |-> TRUE], [name |-> "a", numeric |-> n]>> : n \in BOOLEAN}
Tables == {<<>>} \cup {[i \in 1 .. 3 |-> [key |-> <<1, 3, 2>>[i], cells |-> <<<<1, 3, 2>>[i], a[i]>>]] :
                        a \in [1 .. 3 -> 1 .. 4]}
Comparisons == {Rows!Cmp("id", "=", 1), Rows!Cmp("id", ">", 2), Rows!Cmp("a", "<", 3),
                Rows!Cmp("a", "=", 3), Rows!Cmp("z", "=", 1)}
Wheres ==
  {Rows!NoWhere} \cup {Rows!Comparison(c) : c \in Comparisons}
  \cup {Rows!Logical(op, Rows!Comparison(Rows!Cmp("id", "=", 3)), Rows!Comparison(c)) :
          op \in {"AND", "OR"}, c \in Comparisons}
  \cup {Rows!Comparison(Rows!SubCmp("a", "=", "a", w)) :
          w \in {Rows!NoWhere, Rows!Comparison(Rows!Cmp("a", ">", 2)),
                 Rows!Comparison(Rows!SubCmp("id", "=", "id", Rows!NoWhere))}}
  \cup {Rows!Comparison(Rows!SubCmp("id", "=", "z", Rows!NoWhere))}
Col(name, func) == [value |-> name, func |-> func]
ColumnLists == {<<Col("*", 0)>>, <<Col("a", 0), Col("id", 0)>>, <<Col("z", 0)>>,
                <<Col("*", Rows!COUNT), Col("a", 0)>>,
                <<Col("id", Rows!AVG), Col("id", Rows!MIN), Col("a", 0)>>,
                <<Col("a", Rows!SUM), Col("id", Rows!MAX)>>}
Asked(columns, where, group_by, order_by, limit, offset) ==
  [columns |-> columns, where |-> where, group_by |-> group_by, order_by |-> order_by,
   limit |-> limit, offset |-> offset]
Stmts ==
  {Asked(c, w, g, <<>>, 0, 0) : c \in ColumnLists, w \in Wheres, g \in {"", "a", "z"}}
  \cup {Asked(c, Rows!NoWhere, "", o, l, s) :
          c \in ColumnLists, o \in {<<>>, <<"a">>}, l \in 0 .. 2, s \in 0 .. 3}
Results(table) == Rows!AddRows(Rows!result_set_set_columns(Rows!result_set_create(0),
                                  <<"id", "a">>, <<TRUE, TRUE>>),
                                [i \in DOMAIN table |-> table[i].cells])

allvars == <<part, sessvars, qcvars, stvars, pvars, fvars, question>>

Init ==
  /\ part \in {"security", "cache", "prepared", "workers", "frames", "select"}
  /\ security_init /\ query_cache_init /\ prepared_init
  /\ conn_pool_create /\ framing_init /\ question = <<>>
  /\ part # "frames" => mode = "sync"

Ask == /\ question = <<>>
       /\ question' \in {<<table, schema, stmt>> : table \in Tables, schema \in Schemas, stmt \in Stmts}

Next ==
  /\ UNCHANGED part
  /\ \/ /\ part = "security" /\ SecNext
        /\ UNCHANGED <<qcvars, stvars, pvars, fvars, question>>
     \/ /\ part = "cache" /\ QueryCacheNext
        /\ UNCHANGED <<sessvars, stvars, pvars, fvars, question>>
     \/ /\ part = "prepared" /\ StatementsNext
        /\ UNCHANGED <<sessvars, qcvars, pvars, fvars, question>>
     \/ /\ part = "workers" /\ PoolUseNext
        /\ UNCHANGED <<sessvars, qcvars, stvars, fvars, question>>
     \/ /\ part = "frames" /\ FramingNext
        /\ UNCHANGED <<sessvars, qcvars, stvars, pvars, question>>
     \/ /\ part = "select" /\ Ask
        /\ UNCHANGED <<sessvars, qcvars, stvars, pvars, fvars>>

Spec == Init /\ [][Next]_allvars

\* A SELECT prints what it asks for, whichever way execute_select finds and
\* lists the rows; sorting, LIMIT and OFFSET of a result set keep, order and
\* count its rows.
SelectAnswers ==
  question # <<>> =>
    /\ Rows!SelectAnswers(question[3], question[2], question[1])
    /\ question[3].order_by # <<>> => \A column \in {"a", "z"}, descending \in BOOLEAN :
         Rows!ResultSetSound(Results(question[1]), column, descending,
                              question[3].limit, question[3].offset)
===============================================================================
