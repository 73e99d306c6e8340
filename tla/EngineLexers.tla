---------------------------- MODULE EngineLexers ----------------------------
(***************************************************************************)
(* External: how an engine may read a text.  No lexer of the three is fully  *)
(* documented, so there is not one reading but a set of them, which differ   *)
(* in the five points sql_scope.py names as uncertain (lines 10-18, 39-55).  *)
(* What is certain is the dialect table of module SqlLexer.                  *)
(***************************************************************************)
EXTENDS SqlLexer, SequencesExt

\* The readings of a text; a point it does not touch on is not varied.
Readings(sql, dialect) ==
  LET Varies(symbol) == {b \in BOOLEAN : b => Contains(sql, symbol)}
  IN [ends : {dialect.terminators \cup more :                  \* ends a line comment
                more \in SUBSET {s \in {"CR", "SEP"} : Contains(sql, s)}},
      continues : Varies("backslash"),  \* ... unless a backslash is right before
      nests     : Varies("/*"),         \* block comments nest
      escapes   : Varies("backslash")]  \* a backslash protects a quote everywhere

LineCommentEndAs(sql, i, reading) ==
  LET continued(j) ==
        /\ reading.continues
        /\ \/ sql[j - 1] = "backslash"
           \/ sql[j] = "LF" /\ sql[j - 1] = "CR" /\ j - 2 > i /\ sql[j - 2] = "backslash"
      ends == {j \in (i + 1)..Len(sql) : sql[j] \in reading.ends /\ ~continued(j)}
  IN IF ends = {} THEN Len(sql) + 1 ELSE Min(ends) + 1

\* At the first "*/" that closes what is open: the comment, and those nested in it.
BlockCommentEndAs(sql, i, reading) ==
  LET count(symbol, j) == Cardinality({k \in (i + 1)..j : sql[k] = symbol})
      opened(j) == IF reading.nests THEN 1 + count("/*", j) ELSE 1
      closes    == {j \in (i + 1)..Len(sql) : count("*/", j) >= opened(j)}
  IN IF closes = {} THEN Refused ELSE Min(closes) + 1

BodyEndAs(sql, body, delimiter, protects) ==
  LET end[j \in Nat] ==
        IF j > Len(sql) THEN Refused
        ELSE IF (protects /\ sql[j] = "backslash") \/ Doubled(sql, j, delimiter) THEN end[j + 2]
        ELSE IF At(sql, j, delimiter) THEN j + Len(delimiter) ELSE end[j + 1]
  IN end[body]

\* A prefix the table does not know selects one of the two rules.
LiteralEndAs(sql, i, dialect, reading) ==
  LET prefix    == PrefixBefore(sql, i)
      three     == <<sql[i], sql[i], sql[i]>>
      delimiter == IF sql[i] \in {"quote", "dquote"} /\ dialect.triple /\ At(sql, i, three)
                   THEN three ELSE <<sql[i]>>
      cooked    == \/ prefix \in dialect.cooked
                   \/ prefix = <<>> /\ sql[i] = "quote"
                   \/ prefix = <<>> /\ sql[i] = "dquote" /\ dialect.quoteIsString
  IN BodyEndAs(sql, i + Len(delimiter), delimiter, cooked \/ reading.escapes)

OpensLiteral(sql, i, dialect) ==
  \/ sql[i] \in {"quote", "dquote"}
  \/ sql[i] = "backtick" /\ dialect.backtick
  \/ sql[i] = "$$" /\ dialect.dollar

\* The lexeme that starts at a position.  One that is not closed runs to the end
\* of the text.
Lexeme(sql, kind, i, end) ==
  IF end = Refused THEN [kind |-> "open", first |-> i, last |-> Len(sql)]
  ELSE [kind |-> kind, first |-> i, last |-> end - 1]

LexemeAt(sql, i, dialect, reading) ==
  CASE sql[i] \in dialect.lineComments ->
         Lexeme(sql, "comment", i, LineCommentEndAs(sql, i, reading))
    [] sql[i] = "/*" -> Lexeme(sql, "comment", i, BlockCommentEndAs(sql, i, reading))
    [] OpensLiteral(sql, i, dialect) ->
         Lexeme(sql, "literal", i, LiteralEndAs(sql, i, dialect, reading))
    [] sql[i] \in Spaces -> Lexeme(sql, "space", i, i + 1)
    [] OTHER             -> Lexeme(sql, "code", i, i + 1)

\* The lexemes of a text: comments, literals and single symbols of code.
LexemesFrom(sql, start, dialect, reading) ==
  LET from[i \in Nat \ {0}] ==
        IF i > Len(sql) THEN {}
        ELSE LET lexeme == LexemeAt(sql, i, dialect, reading)
             IN {lexeme} \cup from[lexeme.last + 1]
  IN from[start]

Lexemes(sql, dialect, reading) == LexemesFrom(sql, 1, dialect, reading)

-----------------------------------------------------------------------------
Closed(lexemes) == \A l \in lexemes : l.kind # "open"

Terminators(sql, lexemes) == {l.first : l \in {m \in lexemes : m.kind = "code" /\ sql[m.first] = ";"}}

\* The positions statements consist of.
Substance(sql, lexemes) ==
  (UNION {l.first..l.last : l \in {m \in lexemes : m.kind \in {"code", "literal", "open"}}})
    \ Terminators(sql, lexemes)

\* One statement, all of it before any ";".
IsOneStatement(sql, lexemes) ==
  /\ Closed(lexemes)
  /\ Substance(sql, lexemes) # {}
  /\ \A t \in Terminators(sql, lexemes) : \A i \in Substance(sql, lexemes) : i < t

=============================================================================
