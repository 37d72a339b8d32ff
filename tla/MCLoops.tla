------------------------------- MODULE MCLoops -------------------------------
(***************************************************************************)
(* The loops that must come to an end: the parser of the query language,   *)
(* and the redistribution of partitions when a cluster node joins, leaves  *)
(* or dies, with that node's pool of clients.  The parts share no state; a *)
(* behaviour exercises one of them (part).  Three nodes, three partitions, *)
(* one replica; two client ids, a limit of three, one slot that doubles    *)
(* twice, one stray disconnection.                                         *)
(***************************************************************************)
EXTENDS ClusterNode, TLC

VARIABLES part,
          input, seen, ahead, todo, node, fields, trees, leaves, outcome

\* One alphabet per family of statements; in each, every token list of at most
\* max tokens that the parser reads to its end or to its first error.
Deletes == [tokens |-> {"KW_NIKALO", "IDENTIFIER", "KW_JAHAN", "EQUALS", "INT_LITERAL", "KW_AND",
              "KW_OR", "LPAREN", "RPAREN", "SEMICOLON"}, max |-> 17]
Alters == [tokens |-> {"KW_ALTER", "KW_TABLE", "IDENTIFIER", "KW_ADD", "KW_COLUMN", "KW_CONSTRAINT",
             "KW_FOREIGN", "KW_KEY", "LPAREN", "RPAREN", "KW_REFERENCES", "KW_ON", "KW_DELETE",
             "KW_CASCADE", "KW_DROP", "KW_RENAME", "KW_TO", "KW_MODIFY", "KW_INT", "SEMICOLON"},
           max |-> 20]
Selects == [tokens |-> {"KW_SELECT", "KW_COUNT", "STAR", "IDENTIFIER", "KW_FROM", "KW_JAHAN", "EQUALS",
              "INT_LITERAL", "LPAREN", "RPAREN", "KW_GROUP", "KW_BY", "KW_ORDER", "KW_LIMIT", "COMMA",
              "SEMICOLON"}, max |-> 12]
Updates == [tokens |-> {"KW_INSERT", "KW_INTO", "KW_VALUES", "KW_UPDATE", "KW_SET", "EQUALS", "KW_WHERE",
              "STRING", "IDENTIFIER", "LPAREN", "RPAREN", "COMMA", "SEMICOLON"}, max |-> 9]
Documents == [tokens |-> {"KW_RAKHO", "KW_FIND", "KW_UPSERT", "KW_AGGREGATE", "IDENTIFIER", "LBRACE",
                "RBRACE", "LBRACKET", "RBRACKET", "COMMA", "SEMICOLON"}, max |-> 7]
Lookups == [tokens |-> {"KW_MANGWAO", "KW_DHUNDO", "KW_HATAO", "KW_JAHAN", "EQUALS", "INT_LITERAL",
              "STRING", "IDENTIFIER", "SEMICOLON"}, max |-> 7]
Controls == [tokens |-> {"KW_BEGIN", "KW_START", "KW_TRANSACTION", "KW_COMMIT", "KW_ROLLBACK", "KW_TO",
               "KW_SAVEPOINT", "KW_RELEASE", "KW_CHECKPOINT", "KW_BACKUP", "KW_RESTORE", "KW_EXPORT",
               "KW_IMPORT", "KW_TABLE", "KW_DATABASE", "KW_FROM", "KW_FORMAT", "STRING", "IDENTIFIER",
               "SEMICOLON", "KW_USE", "KW_show", "KW_TABLES", "KW_DROP", "KW_GIRAO", "KW_HATAO",
               "KW_DELETE"}, max |-> 9]
Creates == [tokens |-> {"KW_CREATE", "KW_BANAO", "KW_USER", "KW_PASSWORD", "STRING", "KW_DATABASE",
              "KW_TABLE", "KW_INDEX", "KW_ON", "KW_COLLECTION", "IDENTIFIER", "LPAREN", "RPAREN",
              "COMMA", "KW_INT", "KW_PRIMARY", "KW_KEY", "SEMICOLON"}, max |-> 10]

Statements == INSTANCE Parser
  WITH Inputs <- {Deletes, Alters, Selects, Updates, Documents, Lookups, Controls, Creates}

parsevars == <<input, seen, ahead, todo, node, fields, trees, leaves, outcome>>
allvars == <<part, parsevars, ptvars, cpvars>>

Init ==
  /\ part \in {"parser", "table", "clients"}
  /\ Statements!parser_init /\ NodeInit
  /\ part # "parser" => input = Deletes /\ ahead = "EOF"

Next ==
  /\ UNCHANGED part
  /\ \/ part = "parser" /\ Statements!ParserNext /\ UNCHANGED <<ptvars, cpvars>>
     \/ part = "table" /\ TableNext /\ UNCHANGED <<parsevars, cpvars>>
     \/ part = "clients" /\ ClientsNext /\ UNCHANGED <<parsevars, ptvars>>

\* A parse goes on until it returns, and a rebalance that can go on does: the
\* threads that run them wait for nothing.
FairSpec == /\ Init /\ [][Next]_allvars
            /\ WF_parsevars(part = "parser" /\ Statements!ParserNext)
            /\ WF_ptvars(part = "table" /\ rebalance_partitions)

\* An accepted statement is whole, and the tree of its condition means what its
\* tokens say: precedence and grouping survive the descent.
ParsedAsWritten ==
  part = "parser" => Statements!ConditionMeansTokens /\ Statements!StatementsWhole

\* Every token list is parsed to an end; the one exception is a stray token in
\* an aggregation pipeline.
ParserEnds == part = "parser" => Statements!ParserEnds
===============================================================================
