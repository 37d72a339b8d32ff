------------------------------ MODULE Conditions ------------------------------
(***************************************************************************)
(* WHERE trees: NODE_EXPR_BINARY nodes as parser.c builds them and as      *)
(* evaluate_condition of executor.c walks them.  A tree is a tuple         *)
(* <<op, left, right>> for AND and OR and <<"cmp", c>> for a comparison,   *)
(* where c is whatever the user of the module compares.                    *)
(***************************************************************************)
EXTENDS Naturals, Sequences

\* A comparison node, and the logical node made of two finished operands.
Comparison(c) == <<"cmp", c>>
Logical(op, l, r) == <<op, l, r>>

\* evaluate_condition: the logical operators recurse; `holds` are the
\* comparisons that are true of the row.
RECURSIVE evaluate_condition(_, _)
evaluate_condition(cond, holds) ==
  CASE cond[1] = "AND" -> /\ evaluate_condition(cond[2], holds)
                          /\ evaluate_condition(cond[3], holds)
    [] cond[1] = "OR"  -> \/ evaluate_condition(cond[2], holds)
                          \/ evaluate_condition(cond[3], holds)
    [] OTHER           -> cond[2] \in holds
===============================================================================
