-------------------------------- MODULE Parser --------------------------------
(***************************************************************************)
(* The recursive-descent parser of parser.c as a pushdown machine.         *)
(*                                                                         *)
(* ParserContext is the position in a token list; here the list is read as *)
(* the parser asks for it: `seen` holds the tokens consumed, `ahead` is    *)
(* current_token, and every advance draws the next token from the alphabet *)
(* of the input, so one behaviour exists for every token list.  The C call *)
(* stack is `todo`: each parse_X function is the sequence of things it     *)
(* does (the operators named parse_X), and a loop of the code is a rule    *)
(* that calls itself.  Where the code looks at the token after the current *)
(* one, it consumes the current one in both cases, so the look is written  *)
(* as a branch after it.                                                   *)
(*                                                                         *)
(* Token values are left out, except that a keyword token has none: where  *)
(* the code copies the value of such a token it dereferences NULL.  Of an  *)
(* AST node the model keeps its type, the fields that were set and, for a  *)
(* WHERE clause, the tree.                                                 *)
(***************************************************************************)
EXTENDS Conditions, FiniteSets

CONSTANT Inputs     \* the alphabets: [tokens: a set of token types, max: a bound]

VARIABLES
  input,    \* the alphabet of this input and the bound on its length
  seen,     \* the tokens consumed so far
  ahead,    \* current_token
  todo,     \* what the active functions still have to do, innermost first
  node,     \* the type of the statement's node, "" before create_node
  fields,   \* the fields of the node that have a value
  trees,    \* the operands and finished trees of the condition being parsed
  leaves,   \* how many comparisons were parsed
  outcome   \* "parsing", "node" (returned), "NULL" (syntax error), "exit"
            \* (exit(1) in the middle of a condition) or "crash"

parser == <<input, seen, ahead, todo, node, fields, trees, leaves, outcome>>

-------------------------------------------------------------------------------
\* What a parse function can do.  Every item has the same shape: what to do,
\* the token types it is about, a name, and two continuations.
Item(op, T, name, yes, no) ==
  [op |-> op, toks |-> T, name |-> name, yes |-> yes, no |-> no]

\* consume(ctx, t): the value is stored in field f.
Keep(t, f) == <<Item("consume", {t}, f, <<>>, <<>>)>>
\* consume(ctx, t) where the value is not used.
Eat(t) == Keep(t, "")
\* One of several types, tested in turn; otherwise an error message and longjmp.
KeepOne(T, f) == <<Item("consume", T, f, <<>>, <<>>)>>
\* advance(ctx) whatever the token is.
Advance == <<Item("advance", {}, "", <<>>, <<>>)>>
\* strdup of the value of the current token.
Copy(f) == <<Item("copy", {}, f, <<>>, <<>>)>>
When(T, yes, no) == <<Item("branch", T, "", yes, no)>>
\* if (match(ctx, t)) { ... }
Opt(t, body) == When({t}, Eat(t) \o body, <<>>)
create_node(kind) == <<Item("create", {}, kind, <<>>, <<>>)>>
Call(rule) == <<Item("call", {}, rule, <<>>, <<>>)>>
Fail(how) == <<Item("fail", {}, how, <<>>, <<>>)>>
\* A comparison is complete; op joins the last two operands; the tree of a
\* subquery's own condition is put away.
Leaf == <<Item("leaf", {}, "", <<>>, <<>>)>>
Join(op) == <<Item("join", {}, op, <<>>, <<>>)>>
PutAway == <<Item("drop", {}, "", <<>>, <<>>)>>

Semicolon == Eat("SEMICOLON")
OptSemicolon == Opt("SEMICOLON", <<>>)
Name(f) == Keep("IDENTIFIER", f)
Word(t) == Eat(t)
ColumnType == {"KW_INT", "KW_FLOAT", "KW_STRING_TYPE", "KW_TEXT_TYPE", "KW_BOOL_TYPE"}
Literal == {"STRING", "INT_LITERAL", "FLOAT_LITERAL"}
Id == {"STRING", "INT_LITERAL"}
Symbol == {"LPAREN", "RPAREN", "LBRACE", "RBRACE", "LBRACKET", "RBRACKET", "COMMA",
           "SEMICOLON", "EQUALS", "COLON", "GT", "LT", "STAR"}
\* The token types whose value is not NULL.
HasValue == Symbol \cup Literal \cup {"IDENTIFIER"}

-------------------------------------------------------------------------------
(* Definitions of data: databases, users, tables, indexes.                 *)

parse_create_user ==
  Word("KW_USER") \o Opt("KW_BANAO", <<>>) \o Name("username") \o
  Word("KW_PASSWORD") \o Keep("STRING", "password") \o
  create_node("CREATE_USER") \o Semicolon

parse_create_db ==
  Word("KW_DATABASE") \o Opt("KW_BANAO", <<>>) \o Name("db_name") \o
  create_node("CREATE_DB") \o Semicolon

parse_drop_db ==
  Opt("KW_DATABASE", <<>>) \o Opt("KW_HATAO", <<>>) \o Name("db_name") \o
  create_node("DROP_DB") \o Semicolon

parse_show_dbs == Word("KW_DATABASE") \o create_node("SHOW_DBS") \o Semicolon

parse_show_tables == Word("KW_TABLES") \o create_node("SHOW_TABLES") \o Semicolon

parse_create_index ==
  Word("KW_INDEX") \o Word("KW_ON") \o create_node("CREATE_INDEX") \o
  Name("table_name") \o Eat("LPAREN") \o Name("col_name") \o Eat("RPAREN") \o Semicolon

\* One column definition and, after a comma, the next.
ColumnDefs ==
  Name("columns") \o KeepOne(ColumnType, "") \o
  Opt("KW_PRIMARY", Opt("KW_KEY", <<>>)) \o Opt("COMMA", Call("column_defs"))

parse_create_table ==
  Opt("KW_TABLE", <<>>) \o Opt("KW_BANAO", <<>>) \o create_node("CREATE_TABLE") \o
  Name("table_name") \o Eat("LPAREN") \o Call("column_defs") \o Eat("RPAREN") \o Semicolon

parse_drop_table ==
  When({"KW_TABLE"},
       Eat("KW_TABLE") \o When({"KW_GIRAO", "KW_DROP"}, Advance, <<>>),
       When({"KW_DROP"}, Eat("KW_DROP"), Eat("KW_GIRAO")) \o Eat("KW_TABLE")) \o
  create_node("DROP_TABLE") \o Name("table_name") \o Semicolon

\* USE copies the token's value before it tests the type.
parse_use_db ==
  Word("KW_USE") \o create_node("USE_DB") \o Opt("KW_DATABASE", <<>>) \o
  Copy("db_name") \o Eat("IDENTIFIER") \o OptSemicolon

\* NOT NULL, DEFAULT and UNIQUE in any order; DEFAULT without a literal is
\* accepted.
ColumnConstraints ==
  When({"KW_NOT"}, Eat("KW_NOT") \o Eat("KW_NULL") \o Call("column_constraints"),
  When({"KW_DEFAULT"}, Eat("KW_DEFAULT") \o
         When(Literal, Copy("default_value") \o Advance, <<>>) \o Call("column_constraints"),
  When({"KW_UNIQUE"}, Eat("KW_UNIQUE") \o Call("column_constraints"), <<>>)))

\* ON DELETE and ON UPDATE; a lone ON, or one without an action, is skipped.
ReferenceActions ==
  Opt("KW_ON",
      When({"KW_DELETE", "KW_UPDATE"},
           Advance \o When({"KW_CASCADE", "KW_RESTRICT"}, Advance, <<>>), <<>>) \o
      Call("reference_actions"))

AddColumn ==
  Opt("KW_COLUMN", <<>>) \o create_node("ADD_COLUMN") \o Name("column_name") \o
  Call("column_type") \o Call("column_constraints")

AddConstraint ==
  Eat("KW_CONSTRAINT") \o create_node("ADD_CONSTRAINT") \o Name("fk_constraint_name") \o
  Eat("KW_FOREIGN") \o Eat("KW_KEY") \o Eat("LPAREN") \o Name("column_name") \o
  Eat("RPAREN") \o Eat("KW_REFERENCES") \o Name("fk_ref_table") \o Eat("LPAREN") \o
  Name("fk_ref_column") \o Eat("RPAREN") \o Call("reference_actions")

DropPart ==
  When({"KW_COLUMN"}, Eat("KW_COLUMN") \o create_node("DROP_COLUMN") \o Name("column_name"),
  When({"KW_CONSTRAINT"}, Eat("KW_CONSTRAINT") \o create_node("DROP_CONSTRAINT") \o
                          Name("fk_constraint_name"), <<>>))

RenameColumn ==
  Eat("KW_RENAME") \o Eat("KW_COLUMN") \o create_node("RENAME_COLUMN") \o
  Name("column_name") \o Eat("KW_TO") \o Name("new_name")

ModifyColumn ==
  Eat("KW_MODIFY") \o Opt("KW_COLUMN", <<>>) \o create_node("MODIFY_COLUMN") \o
  Name("column_name") \o Call("column_type")

\* The new type of a column is a keyword, which has no value to copy.
ColumnTypeOfAlter == When(ColumnType, Copy("column_type") \o Advance, Fail("NULL"))

parse_alter_table ==
  Word("KW_ALTER") \o Word("KW_TABLE") \o Name("table_name") \o
  When({"KW_ADD"}, Eat("KW_ADD") \o
         When({"KW_COLUMN", "IDENTIFIER"}, AddColumn,
         When({"KW_CONSTRAINT"}, AddConstraint, <<>>)),
  When({"KW_DROP"}, Eat("KW_DROP") \o DropPart,
  When({"KW_RENAME"}, RenameColumn,
  When({"KW_MODIFY"}, ModifyColumn, <<>>)))) \o Semicolon

-------------------------------------------------------------------------------
(* Rows: INSERT, SELECT, UPDATE, DELETE and their conditions.              *)

\* One row's values, and the next row after a comma.
RowValues ==
  KeepOne(Literal \cup {"KW_AUTO", "IDENTIFIER"}, "rows") \o Opt("COMMA", Call("row_values"))
InsertRows ==
  Eat("LPAREN") \o Call("row_values") \o Eat("RPAREN") \o Opt("COMMA", Call("insert_rows"))

parse_insert ==
  Word("KW_INSERT") \o When({"KW_KARO", "KW_INTO"}, Advance, <<>>) \o
  create_node("INSERT") \o Name("table_name") \o Word("KW_VALUES") \o
  Call("insert_rows") \o Semicolon

\* The projection: columns and aggregates, COUNT alone takes a star.
SelectColumns ==
  When({"KW_COUNT"},
       Eat("KW_COUNT") \o Eat("LPAREN") \o KeepOne({"STAR", "IDENTIFIER"}, "columns") \o Eat("RPAREN"),
  When({"KW_SUM", "KW_AVG", "KW_MAX", "KW_MIN"},
       Advance \o Eat("LPAREN") \o Name("columns") \o Eat("RPAREN"),
       Name("columns"))) \o Opt("COMMA", Call("select_columns"))

OrderColumns ==
  Name("order_columns") \o When({"KW_DESC", "KW_ASC"}, Advance, <<>>) \o
  Opt("COMMA", Call("order_columns"))

\* A subquery's select fills a node of its own, which is not followed here: the
\* fields it sets are not told apart from those of the statement around it.
parse_select(sub) ==
  Word("KW_SELECT") \o Opt("KW_KARO", <<>>) \o
  (IF sub THEN <<>> ELSE create_node("SELECT")) \o
  When({"STAR"}, Keep("STAR", "columns"), Call("select_columns")) \o
  Word("KW_FROM") \o Name("table_name") \o
  Opt("KW_JAHAN", Call("expression") \o (IF sub THEN PutAway ELSE <<>>)) \o
  Opt("KW_GROUP", Eat("KW_BY") \o Name("group_by")) \o
  Opt("KW_ORDER", Eat("KW_BY") \o Call("order_columns")) \o
  Opt("KW_LIMIT", Eat("INT_LITERAL") \o Opt("KW_OFFSET", Eat("INT_LITERAL"))) \o
  (IF sub THEN <<>> ELSE Semicolon)

parse_expression == Call("logical_or")

\* The loop of parse_logical_or joins what it has with the next operand of
\* higher precedence, from left to right.
OrMore == Opt("KW_OR", Call("logical_and") \o Join("OR") \o Call("or_more"))
parse_logical_or == Call("logical_and") \o Call("or_more")

(* Mutant: the right side of AND is a whole expression. *)
AndThenOr == Opt("KW_AND", Call("logical_or") \o Join("AND") \o Call("and_more"))

AndMore == Opt("KW_AND", Call("comparison") \o Join("AND") \o Call("and_more"))
parse_logical_and == Call("comparison") \o Call("and_more")

Subquery == When({"KW_SELECT"}, Call("subselect") \o Eat("RPAREN"), Fail("exit"))

\* A parenthesised expression, or column op value; a wrong operator or value
\* ends the process.
parse_comparison ==
  When({"LPAREN"}, Eat("LPAREN") \o Call("expression") \o Eat("RPAREN"),
       Eat("IDENTIFIER") \o
       When({"EQUALS", "GT", "LT"}, Advance, Fail("exit")) \o
       When({"LPAREN"}, Eat("LPAREN") \o Call("subquery"),
            When(Literal, Advance, Fail("exit"))) \o Leaf)

parse_delete ==
  Word("KW_NIKALO") \o Opt("KW_FROM", <<>>) \o create_node("DELETE") \o
  Name("table_name") \o Opt("KW_JAHAN", Call("expression")) \o Semicolon

\* A wrong value in SET returns NULL at once.
Assignments ==
  Name("set_columns") \o Eat("EQUALS") \o
  When(Literal \cup {"IDENTIFIER"}, Copy("set_values") \o Advance, Fail("NULL")) \o
  Opt("COMMA", Call("assignments"))

parse_update ==
  Word("KW_UPDATE") \o create_node("UPDATE") \o Name("table_name") \o Word("KW_SET") \o
  Call("assignments") \o
  When({"KW_JAHAN", "KW_WHERE"}, Advance \o Call("expression"), <<>>) \o Semicolon

-------------------------------------------------------------------------------
(* Documents.                                                              *)

\* The loops that copy token values until the brace closes: RAKHO stops at
\* the first closing brace, the others count depth.  The brace that closes is
\* skipped by the loops that count and consumed by RAKHO.
FlatBody ==
  When({"RBRACE", "EOF"}, <<>>, Copy("json_body") \o Advance \o Call("flat_body"))
NestedBody ==
  When({"EOF"}, <<>>,
  When({"LBRACE"}, Advance \o Call("nested_body") \o Call("nested_body"),
  When({"RBRACE"}, Advance,
       Copy("json_body") \o Advance \o Call("nested_body"))))

parse_doc_insert ==
  Word("KW_RAKHO") \o create_node("DOC_INSERT") \o Name("collection") \o
  When({"LBRACE"}, Keep("LBRACE", "json_body") \o Call("flat_body") \o Eat("RBRACE"),
       Keep("STRING", "json_body")) \o Semicolon

parse_doc_get ==
  Word("KW_MANGWAO") \o create_node("DOC_GET") \o Name("collection") \o
  When(Id, Copy("doc_id") \o Advance, <<>>) \o Semicolon

\* Whatever column JAHAN names, its value is taken for the id.
parse_dhundo ==
  Word("KW_DHUNDO") \o create_node("DOC_GET") \o Name("collection") \o
  When({"KW_JAHAN"},
       Eat("KW_JAHAN") \o Eat("IDENTIFIER") \o Eat("EQUALS") \o
       KeepOne(Id \cup {"IDENTIFIER"}, "doc_id"),
       When(Id, Copy("doc_id") \o Advance, <<>>)) \o Semicolon

parse_doc_remove ==
  Word("KW_HATAO") \o create_node("DOC_REMOVE") \o Name("collection") \o
  KeepOne(Id, "doc_id") \o Semicolon

parse_create_collection ==
  Word("KW_COLLECTION") \o create_node("CREATE_COLLECTION") \o Name("collection") \o Semicolon

parse_find ==
  Word("KW_FIND") \o create_node("DOC_GET") \o Name("collection") \o
  When({"LBRACE"}, Keep("LBRACE", "doc_id") \o Call("nested_body"), <<>>) \o Semicolon

parse_upsert ==
  Word("KW_UPSERT") \o create_node("DOC_UPSERT") \o Name("collection") \o
  When({"LBRACE"}, Keep("LBRACE", "json_body") \o Call("nested_body"),
       Keep("STRING", "json_body")) \o Semicolon

(* Mutant: the loop over the stages does not stop at the end of the input. *)
StagesPastEnd ==
  When({"RBRACKET"}, <<>>,
       When({"LBRACE"}, Eat("LBRACE") \o Call("nested_body"), <<>>) \o
       Opt("COMMA", <<>>) \o Call("stages"))

\* The stages between the brackets: a token that is neither a brace nor a
\* comma is never passed, and the loop comes round to it again.
Stages ==
  When({"RBRACKET", "EOF"}, <<>>,
       When({"LBRACE"}, Eat("LBRACE") \o Call("nested_body"), <<>>) \o
       Opt("COMMA", <<>>) \o Call("stages"))

parse_aggregate ==
  Word("KW_AGGREGATE") \o create_node("DOC_AGGREGATE") \o Name("collection") \o
  When({"LBRACKET"}, Eat("LBRACKET") \o Call("stages") \o Eat("RBRACKET"), <<>>) \o Semicolon

-------------------------------------------------------------------------------
(* Transactions, checkpoint, backup.                                       *)

parse_checkpoint == Word("KW_CHECKPOINT") \o create_node("CHECKPOINT") \o Semicolon

parse_begin ==
  When({"KW_BEGIN"}, Eat("KW_BEGIN"), Eat("KW_START") \o Eat("KW_TRANSACTION")) \o
  Opt("KW_TRANSACTION", <<>>) \o create_node("BEGIN") \o OptSemicolon

parse_commit ==
  Word("KW_COMMIT") \o Opt("KW_TRANSACTION", <<>>) \o create_node("COMMIT") \o OptSemicolon

parse_rollback ==
  Word("KW_ROLLBACK") \o
  When({"KW_TO"},
       Eat("KW_TO") \o Opt("KW_SAVEPOINT", <<>>) \o Name("savepoint_name") \o
       create_node("ROLLBACK_TO"),
       Opt("KW_TRANSACTION", <<>>) \o create_node("ROLLBACK")) \o OptSemicolon

parse_savepoint ==
  Word("KW_SAVEPOINT") \o Name("savepoint_name") \o create_node("SAVEPOINT") \o OptSemicolon

parse_release_savepoint ==
  Word("KW_RELEASE") \o Opt("KW_SAVEPOINT", <<>>) \o Name("savepoint_name") \o
  create_node("RELEASE_SAVEPOINT") \o OptSemicolon

OptDatabase ==
  Opt("KW_DATABASE", When({"IDENTIFIER"}, Name("db_name"), <<>>))

parse_backup ==
  Word("KW_BACKUP") \o create_node("BACKUP") \o OptDatabase \o
  Eat("KW_TO") \o Keep("STRING", "path") \o
  Opt("KW_FORMAT", Eat("IDENTIFIER")) \o Semicolon

parse_restore ==
  Word("KW_RESTORE") \o create_node("RESTORE") \o OptDatabase \o
  Eat("KW_FROM") \o Keep("STRING", "path") \o Semicolon

parse_export ==
  Word("KW_EXPORT") \o Word("KW_TABLE") \o create_node("EXPORT") \o Name("table_name") \o
  Eat("KW_TO") \o Keep("STRING", "path") \o
  Opt("KW_FORMAT", Eat("IDENTIFIER")) \o Semicolon

parse_import ==
  Word("KW_IMPORT") \o Word("KW_TABLE") \o create_node("IMPORT") \o Name("table_name") \o
  Eat("KW_FROM") \o Keep("STRING", "path") \o Semicolon

-------------------------------------------------------------------------------
(* The rules that call themselves or each other, and the dispatch of parse.*)

Rule == [
  column_defs |-> ColumnDefs, column_constraints |-> ColumnConstraints,
  column_type |-> ColumnTypeOfAlter, reference_actions |-> ReferenceActions,
  row_values |-> RowValues, insert_rows |-> InsertRows,
  select_columns |-> SelectColumns, order_columns |-> OrderColumns,
  subselect |-> parse_select(TRUE), subquery |-> Subquery,
  expression |-> parse_expression, logical_or |-> parse_logical_or, or_more |-> OrMore,
  logical_and |-> parse_logical_and, and_more |-> AndMore,
  comparison |-> parse_comparison, assignments |-> Assignments,
  flat_body |-> FlatBody, nested_body |-> NestedBody, stages |-> Stages]

\* CREATE or BANAO, then what to create.
CreateWhat ==
  Advance \o
  When({"KW_INDEX"}, parse_create_index,
  When({"KW_USER"}, parse_create_user,
  When({"KW_DATABASE"}, parse_create_db,
  When({"KW_COLLECTION"}, parse_create_collection,
  When({"KW_TABLE"}, parse_create_table, Fail("NULL"))))))

\* DROP or GIRAO: a database, or else a table.
DropWhat == Advance \o When({"KW_DATABASE"}, parse_drop_db, parse_drop_table)

\* SHOW and DATABASE look one token further; TABLE does too, and both of its
\* branches begin with that token.
ShowWhat == Eat("KW_show") \o When({"KW_DATABASE"}, parse_show_dbs, parse_show_tables)
DatabaseWhat ==
  Eat("KW_DATABASE") \o
  When({"KW_HATAO", "KW_GIRAO"}, parse_drop_db, Tail(parse_create_db))
TableWhat ==
  Eat("KW_TABLE") \o
  When({"KW_GIRAO"},
       Eat("KW_GIRAO") \o create_node("DROP_TABLE") \o Name("table_name") \o Semicolon,
       Tail(parse_create_table))

\* The statement a first token stands for; every other first token is refused.
Statement == [
  KW_USE |-> parse_use_db, KW_CREATE |-> CreateWhat, KW_BANAO |-> CreateWhat,
  KW_show |-> ShowWhat, KW_USER |-> parse_create_user, KW_DATABASE |-> DatabaseWhat,
  KW_TABLE |-> TableWhat, KW_INSERT |-> parse_insert, KW_SELECT |-> parse_select(FALSE),
  KW_DHUNDO |-> parse_dhundo, KW_RAKHO |-> parse_doc_insert,
  KW_MANGWAO |-> parse_doc_get, KW_HATAO |-> parse_doc_remove,
  KW_NIKALO |-> parse_delete, KW_UPDATE |-> parse_update,
  KW_DROP |-> DropWhat, KW_GIRAO |-> DropWhat,
  KW_DELETE |-> Advance \o When({"KW_DATABASE"}, parse_drop_db, Fail("NULL")),
  KW_CHECKPOINT |-> parse_checkpoint, KW_INDEX |-> parse_create_index,
  KW_BEGIN |-> parse_begin, KW_START |-> parse_begin, KW_COMMIT |-> parse_commit,
  KW_ROLLBACK |-> parse_rollback, KW_SAVEPOINT |-> parse_savepoint,
  KW_RELEASE |-> parse_release_savepoint, KW_ALTER |-> parse_alter_table,
  KW_BACKUP |-> parse_backup, KW_RESTORE |-> parse_restore,
  KW_EXPORT |-> parse_export, KW_IMPORT |-> parse_import, KW_FIND |-> parse_find,
  KW_UPSERT |-> parse_upsert, KW_AGGREGATE |-> parse_aggregate]

-------------------------------------------------------------------------------
\* The tokens that may follow n others: any of the alphabet, or the end.
Following(n) == IF n < input.max THEN input.tokens \cup {"EOF"} ELSE {"EOF"}

parser_init ==
  /\ input \in Inputs
  /\ seen = <<>>
  /\ ahead \in Following(0)
  /\ todo = <<>>
  /\ node = ""
  /\ fields = {}
  /\ trees = <<>>
  /\ leaves = 0
  /\ outcome = "parsing"

current_token == ahead

\* advance stays on the EOF token once it is there.
advance ==
  IF ahead = "EOF" THEN UNCHANGED <<seen, ahead>>
  ELSE seen' = Append(seen, ahead) /\ ahead' \in Following(Len(seen) + 1)

\* The function returns without a node: its context is gone.
Abandon(how) ==
  /\ outcome' = how
  /\ seen' = <<>> /\ ahead' = "EOF" /\ todo' = <<>> /\ node' = "" /\ fields' = {}
  /\ trees' = <<>> /\ leaves' = 0
  /\ UNCHANGED input

\* parse: the statement is chosen by the first token.
parse ==
  /\ outcome = "parsing" /\ todo = <<>> /\ seen = <<>> /\ node = ""
  /\ IF ahead \in DOMAIN Statement
     THEN /\ todo' = Statement[ahead]
          /\ UNCHANGED <<input, seen, ahead, node, fields, trees, leaves, outcome>>
     ELSE Abandon("NULL")

Doing(op) == outcome = "parsing" /\ todo # <<>> /\ Head(todo).op = op
Now == Head(todo)
Stored(f) == IF f = "" THEN fields ELSE fields \cup {f}

\* consume: the token must be of the wanted type, or longjmp leads back to parse.
consume ==
  /\ Doing("consume")
  /\ IF current_token \in Now.toks
     THEN /\ advance
          /\ fields' = Stored(Now.name)
          /\ todo' = Tail(todo)
          /\ UNCHANGED <<input, node, trees, leaves, outcome>>
     ELSE Abandon("NULL")

SkipToken ==
  /\ Doing("advance")
  /\ advance
  /\ todo' = Tail(todo)
  /\ UNCHANGED <<input, node, fields, trees, leaves, outcome>>

\* strdup or strcat of the value of the current token.
CopyValue ==
  /\ Doing("copy")
  /\ IF current_token \in HasValue
     THEN /\ fields' = Stored(Now.name)
          /\ todo' = Tail(todo)
          /\ UNCHANGED <<input, seen, ahead, node, trees, leaves, outcome>>
     ELSE Abandon("crash")

\* A test of the current token's type, match included.
match ==
  /\ Doing("branch")
  /\ todo' = (IF current_token \in Now.toks THEN Now.yes ELSE Now.no) \o Tail(todo)
  /\ UNCHANGED <<input, seen, ahead, node, fields, trees, leaves, outcome>>

Enter ==
  /\ Doing("call")
  /\ todo' = Rule[Now.name] \o Tail(todo)
  /\ UNCHANGED <<input, seen, ahead, node, fields, trees, leaves, outcome>>

Create ==
  /\ Doing("create")
  /\ node' = Now.name
  /\ todo' = Tail(todo)
  /\ UNCHANGED <<input, seen, ahead, fields, trees, leaves, outcome>>

GiveUp == Doing("fail") /\ Abandon(Now.name)

\* The tree of a condition grows: a comparison, a logical node, or the tree
\* of a subquery that goes to the subquery's own node.
BuildLeaf ==
  /\ Doing("leaf")
  /\ leaves' = leaves + 1
  /\ trees' = Append(trees, Comparison(leaves + 1))
  /\ todo' = Tail(todo)
  /\ UNCHANGED <<input, seen, ahead, node, fields, outcome>>

Drop(s, n) == SubSeq(s, 1, Len(s) - n)

BuildNode ==
  /\ Doing("join")
  /\ trees' = Append(Drop(trees, 2),
                     Logical(Now.name, trees[Len(trees) - 1], trees[Len(trees)]))
  /\ todo' = Tail(todo)
  /\ UNCHANGED <<input, seen, ahead, node, fields, leaves, outcome>>

CloseSubquery ==
  /\ Doing("drop")
  /\ trees' = Drop(trees, 1)
  /\ todo' = Tail(todo)
  /\ UNCHANGED <<input, seen, ahead, node, fields, leaves, outcome>>

\* The statement's function returns: its node, or NULL when no branch made one.
Return ==
  /\ outcome = "parsing" /\ todo = <<>> /\ seen # <<>>
  /\ IF node = "" THEN Abandon("NULL")
     ELSE /\ outcome' = "node"
          /\ UNCHANGED <<input, seen, ahead, todo, node, fields, trees, leaves>>

ParserNext ==
  \/ parse \/ consume \/ SkipToken \/ CopyValue \/ match \/ Enter \/ Create
  \/ GiveUp \/ BuildLeaf \/ BuildNode \/ CloseSubquery \/ Return

-------------------------------------------------------------------------------
\* The condition as written: the tokens after JAHAN up to the semicolon.
WhereAt == {k \in 1..Len(seen) : seen[k] \in {"KW_JAHAN", "KW_WHERE"}}
Nested(i, k) ==
  Cardinality({m \in i..k : seen[m] = "LPAREN"}) - Cardinality({m \in i..(k - 1) : seen[m] = "RPAREN"})
\* The positions between i and j where op stands outside all parentheses.
Outside(op, i, j) == {k \in i..j : seen[k] = op /\ Nested(i, k) = 0}
\* Which comparison begins at position i.
Nth(i) == Cardinality({m \in 1..i : seen[m] \in {"EQUALS", "GT", "LT"}}) + 1

\* What the tokens i..j mean when the comparisons in T hold: OR separates
\* alternatives, AND what each of them requires.
RECURSIVE Meaning(_, _, _)
Meaning(i, j, T) ==
  LET ors == Outside("KW_OR", i, j)
      ands == Outside("KW_AND", i, j)
      At(S) == CHOOSE k \in S : TRUE
  IN IF ors # {} THEN Meaning(i, At(ors) - 1, T) \/ Meaning(At(ors) + 1, j, T)
     ELSE IF ands # {} THEN Meaning(i, At(ands) - 1, T) /\ Meaning(At(ands) + 1, j, T)
     ELSE IF seen[i] = "LPAREN" THEN Meaning(i + 1, j - 1, T)
     ELSE Nth(i) \in T

\* The tree of an accepted DELETE evaluates to what its tokens say, whichever
\* comparisons hold: precedence, grouping and the order of the operands
\* survive the two loops that build it (parse_logical_or, parse_logical_and).
ConditionMeansTokens ==
  outcome = "node" /\ node = "DELETE" /\ trees # <<>> =>
    \A i \in WhereAt : \A T \in SUBSET (1..leaves) :
      /\ Len(trees) = 1
      /\ evaluate_condition(trees[1], T) = Meaning(i + 1, Len(seen) - 1, T)

\* Fields the executor dereferences without a test.
Needed == [
  CREATE_USER |-> {"username", "password"}, CREATE_DB |-> {"db_name"}, DROP_DB |-> {"db_name"},
  SHOW_DBS |-> {}, SHOW_TABLES |-> {}, CREATE_INDEX |-> {"table_name", "col_name"},
  CREATE_TABLE |-> {"table_name", "columns"}, DROP_TABLE |-> {"table_name"},
  USE_DB |-> {"db_name"}, ADD_COLUMN |-> {"table_name", "column_name", "column_type"},
  ADD_CONSTRAINT |-> {"table_name", "column_name", "fk_constraint_name", "fk_ref_table",
                      "fk_ref_column"},
  DROP_COLUMN |-> {"table_name", "column_name"}, DROP_CONSTRAINT |-> {"table_name", "fk_constraint_name"},
  RENAME_COLUMN |-> {"table_name", "column_name", "new_name"},
  MODIFY_COLUMN |-> {"table_name", "column_name", "column_type"},
  INSERT |-> {"table_name", "rows"}, SELECT |-> {"table_name", "columns"},
  DELETE |-> {"table_name"}, UPDATE |-> {"table_name", "set_columns", "set_values"},
  DOC_INSERT |-> {"collection", "json_body"}, DOC_GET |-> {"collection"},
  DOC_REMOVE |-> {"collection", "doc_id"}, CREATE_COLLECTION |-> {"collection"},
  DOC_UPSERT |-> {"collection", "json_body"}, DOC_AGGREGATE |-> {"collection"},
  CHECKPOINT |-> {}, BEGIN |-> {}, COMMIT |-> {}, ROLLBACK |-> {},
  ROLLBACK_TO |-> {"savepoint_name"}, SAVEPOINT |-> {"savepoint_name"},
  RELEASE_SAVEPOINT |-> {"savepoint_name"}, BACKUP |-> {"path"}, RESTORE |-> {"path"},
  EXPORT |-> {"table_name", "path"}, IMPORT |-> {"table_name", "path"}]
NeedsNoSemicolon == {"USE_DB", "BEGIN", "COMMIT", "ROLLBACK", "ROLLBACK_TO", "SAVEPOINT",
                     "RELEASE_SAVEPOINT"}

\* A node is returned only for a whole statement: its semicolon was consumed,
\* every parenthesis and brace opened in it is closed, and the fields that
\* executor.c uses without a test have a value, on every path through the
\* optional parts.
StatementsWhole ==
  LET count(t) == Cardinality({k \in 1..Len(seen) : seen[k] = t}) IN
  outcome = "node" =>
    /\ node \in NeedsNoSemicolon \/ seen[Len(seen)] = "SEMICOLON"
    /\ Needed[node] \subseteq fields
    /\ count("LPAREN") = count("RPAREN") \/ node \in {"DOC_INSERT", "DOC_GET", "DOC_UPSERT", "DOC_AGGREGATE"}
    /\ count("LBRACE") = count("RBRACE") \/ node = "DOC_INSERT"

\* The parser waits for ever at a token between the stages of a pipeline that
\* is neither a stage nor a comma.
StrayStage ==
  /\ node = "DOC_AGGREGATE" /\ Doing("call") /\ Now.name = "stages"
  /\ ahead \notin {"LBRACE", "COMMA", "RBRACKET", "EOF"}

\* Every token list is parsed to an end: a node, an error, or the end of the
\* process; the one exception is a stray token in an aggregation pipeline.
ParserEnds == outcome = "parsing" ~> (outcome # "parsing" \/ StrayStage)
===============================================================================
