-------------------------------- MODULE Lexer --------------------------------
(***************************************************************************)
(* tokenize of lexer.c over character classes: a text is a sequence of the *)
(* characters of Char, where "a" and "n" stand for letters (n is also the  *)
(* letter of the escape for a new line, "nl"), "1" for digits and "#" for  *)
(* a character no token begins with.  Keywords are told from identifiers   *)
(* by the table KeywordRows, in the order check_keyword compares it.       *)
(***************************************************************************)
EXTENDS Integers, Sequences

CONSTANT KeywordRows    \* check_keyword: <<word, token type>>, first match counts

DoubleQuote == "\""
Backslash == "\\"
Quote == {"'", DoubleQuote}
Letter == {"a", "n", "t", "r", "_"}
Digit == {"1"}
Punctuation == {"(", ")", ",", ";", "="}
Space == {" ", "nl", "cr"}
Char == Quote \cup Letter \cup Digit \cup Punctuation \cup Space \cup {Backslash, ".", "#", "tab"}

Token(type, value) == [type |-> type, value |-> value]
EOFToken == Token("EOF", <<>>)

\* input[i], with the terminating zero behind the last character.
CharAt(s, i) == IF i <= Len(s) THEN s[i] ELSE "NUL"

\* check_keyword: the first row that compares equal.
check_keyword(word) ==
  LET rows == {k \in 1..Len(KeywordRows) : KeywordRows[k][1] = word}
  IN IF rows = {} THEN "IDENTIFIER"
     ELSE KeywordRows[CHOOSE k \in rows : \A l \in rows : k <= l][2]

\* The first pass over a string literal: how much to allocate for the text
\* that starts at i.  The loops are functions of the number of their rounds.
CountRound(s, q, p) ==
  IF CharAt(s, p.next) \in {"NUL", q} THEN p
  ELSE [next |-> p.next + (IF s[p.next] = Backslash /\ CharAt(s, p.next + 1) # "NUL" THEN 2 ELSE 1),
        len |-> p.len + 1]
LiteralLength(s, i, q) ==
  LET count[k \in 0 .. Len(s)] ==
        IF k = 0 THEN [next |-> i, len |-> 0] ELSE CountRound(s, q, count[k - 1])
  IN  count[Len(s)].len

Unescaped(c) == CASE c = "n" -> "nl" [] c = "t" -> "tab" [] OTHER -> c

\* The second pass: the characters written to the buffer, and where it stops.
CopyRound(s, q, p) ==
  IF CharAt(s, p.next) \in {"NUL", q} THEN p
  ELSE IF s[p.next] = Backslash /\ CharAt(s, p.next + 1) # "NUL"
       THEN [next |-> p.next + 2, text |-> Append(p.text, Unescaped(s[p.next + 1]))]
       ELSE [next |-> p.next + 1, text |-> Append(p.text, s[p.next])]
Literal(s, i, q) ==
  LET copy[k \in 0 .. Len(s)] ==
        IF k = 0 THEN [next |-> i, text |-> <<>>] ELSE CopyRound(s, q, copy[k - 1])
  IN  copy[Len(s)]

\* Where the run of characters in C that starts at i ends.
RunEnd(s, i, C) ==
  LET stop == {k \in i .. Len(s) : s[k] \notin C}
  IN IF stop = {} THEN Len(s) + 1 ELSE CHOOSE k \in stop : \A l \in stop : k <= l

\* One round of the loop of tokenize: skip a character, or add a token.
LexRound(s, p) ==
  LET c == CharAt(s, p.at)
      Add(type, value, next) == [at |-> next, tokens |-> Append(p.tokens, Token(type, value))]
  IN
  CASE c = "NUL" -> p
    [] c \in Space \cup {"tab"} -> [p EXCEPT !.at = @ + 1]
    [] c \in Punctuation -> Add(c, <<c>>, p.at + 1)
    [] c \in Quote ->
         LET lit == Literal(s, p.at + 1, c)
         IN  Add("STRING", lit.text, IF CharAt(s, lit.next) = c THEN lit.next + 1 ELSE lit.next)
    [] c \in Digit ->
         LET e == RunEnd(s, p.at, Digit \cup {"."})
             num == SubSeq(s, p.at, e - 1)
         IN  Add(IF "." \in {num[k] : k \in 1..Len(num)} THEN "FLOAT_LITERAL" ELSE "INT_LITERAL", num, e)
    [] c \in Letter ->
         LET e == RunEnd(s, p.at, Letter \cup Digit)
             word == SubSeq(s, p.at, e - 1)
             type == check_keyword(word)
         IN  Add(type, IF type = "IDENTIFIER" THEN word ELSE <<>>, e)
    [] OTHER -> [p EXCEPT !.at = @ + 1]

tokenize(s) ==
  LET lex[k \in 0 .. Len(s)] ==
        IF k = 0 THEN [at |-> 1, tokens |-> <<>>] ELSE LexRound(s, lex[k - 1])
  IN  Append(lex[Len(s)].tokens, EOFToken)

\* escape_json_string of backup.c: the text in double quotes.
Escaped(c) == CASE c \in {DoubleQuote, Backslash} -> <<Backslash, c>>
                [] c = "nl" -> <<Backslash, "n">> [] c = "cr" -> <<Backslash, "r">>
                [] c = "tab" -> <<Backslash, "t">> [] OTHER -> <<c>>
escape_json_string(s) ==
  LET out[k \in 0..Len(s)] == IF k = 0 THEN <<>> ELSE out[k - 1] \o Escaped(s[k])
  IN <<DoubleQuote>> \o out[Len(s)] \o <<DoubleQuote>>

-------------------------------------------------------------------------------
\* What backup.c writes for a string, the lexer reads back as that string: the
\* escapes one side produces are the escapes the other undoes, also at the end
\* of the text and next to one another.  The one exception is a carriage
\* return, for which the lexer knows no escape: it comes back as the letter r.
EscapedReadsBack(s) ==
  LET kept == [k \in 1..Len(s) |-> IF s[k] = "cr" THEN "r" ELSE s[k]]
  IN  tokenize(escape_json_string(s)) = <<Token("STRING", kept), EOFToken>>

\* Wherever a literal starts, the second pass writes no more than the first
\* one counted, so the buffer of len + 1 bytes holds it and its zero.
PassesAgree(s) ==
  \A i \in 1..Len(s) : s[i] \in Quote =>
    Len(Literal(s, i + 1, s[i]).text) = LiteralLength(s, i + 1, s[i])

LexerSound(s) == EscapedReadsBack(s) /\ PassesAgree(s)
===============================================================================
