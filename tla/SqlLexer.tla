------------------------------ MODULE SqlLexer ------------------------------
(***************************************************************************)
(* The lexer of sql_scope.py that both statement gates share: where the      *)
(* comment or the literal that opens at a position ends, per dialect, or     *)
(* that the text is refused because two readings of it could disagree.       *)
(*                                                                         *)
(* A text is a sequence of symbols, a symbol being what the lexer tells      *)
(* apart: a delimiter of one or two characters, a backslash, the characters  *)
(* at which somebody ends a line, or a whole run of letters.  Positions      *)
(* count symbols from 1; an end is the position after the last symbol.       *)
(***************************************************************************)
EXTENDS Integers, Sequences, FiniteSetsExt

None    == 0   \* nothing opens here
Refused == -1  \* UserVisibleError

Keywords == {"SELECT", "WITH", "VALUES", "SHOW", "RECURSIVE", "AS", "INSERT"}
Letters  == {"word", "r", "b", "rb", "x"}
Words    == Keywords \cup Letters

\* _is_identifier_char: "$" belongs to identifiers.
IdentifierSymbols == Words \cup {"$$"}

\* str.isspace; SEP is any of the eight separators only some lexers know.
Spaces == {" ", "LF", "CR", "SEP"}

Symbols == IdentifierSymbols \cup Spaces
  \cup {"--", "#", "//", "/*", "*/", "quote", "dquote", "backtick", "backslash",
        ";", "(", ")", ","}

\* _DIALECTS; an engine that it does not list is rejected by both tools.
Dialects ==
  [engine \in {"bigquery", "snowflake", "databricks"} |->
    [quoteIsString |-> engine # "snowflake",  \* double_quote_is_escaped_string
     backtick      |-> engine # "snowflake",
     lineComments  |-> {"--"} \cup (CASE engine = "bigquery"   -> {"#"}
                                      [] engine = "snowflake"  -> {"//"}
                                      [] engine = "databricks" -> {}),
     dollar        |-> engine = "snowflake",
     triple        |-> engine = "bigquery",
     raw           |-> CASE engine = "bigquery"   -> {<<"r">>, <<"rb">>}
                         [] engine = "databricks" -> {<<"r">>}
                         [] engine = "snowflake"  -> {},
     cooked        |-> IF engine = "bigquery" THEN {<<"b">>} ELSE {},
     hex           |-> IF engine = "databricks" THEN {<<"x">>} ELSE {},
     terminators   |-> IF engine = "databricks" THEN {"CR", "LF"} ELSE {"LF"}]]

-----------------------------------------------------------------------------
\* Comments.

\* Mutant: before #104, a comment ended at every boundary of str.splitlines().
EarlyLineCommentEnd(sql, i, dialect) ==
  LET ends == {j \in i..Len(sql) : sql[j] \in {"LF", "CR", "SEP"}}
  IN IF ends = {} THEN Len(sql) + 1 ELSE Min(ends) + 1

\* Rules A to C of _line_comment_end.
LineCommentEnd(sql, i, dialect) ==
  LET ends   == {j \in i..Len(sql) : sql[j] \in dialect.terminators}
      last   == IF ends = {} THEN Len(sql) ELSE Min(ends)
      before == IF sql[last] = "LF" /\ sql[last - 1] = "CR" THEN last - 2 ELSE last - 1
      bareCR == {j \in i..last : sql[j] = "CR" /\ (j = last \/ sql[j + 1] # "LF")}
  IN IF \/ \E j \in i..last : sql[j] = "SEP"
        \/ "CR" \notin dialect.terminators /\ bareCR # {}
        \/ ends # {} /\ before > i /\ sql[before] = "backslash"
     THEN Refused
     ELSE last + 1

\* Mutant: the comment ends at the first "*/", whatever is inside.
FlatCommentEnd(sql, i) ==
  LET closes == {j \in (i + 1)..Len(sql) : sql[j] = "*/"}
  IN IF closes = {} THEN Refused ELSE Min(closes) + 1

BlockCommentEnd(sql, i) ==
  LET closes == {j \in (i + 1)..Len(sql) : sql[j] = "*/"}
  IN IF closes = {} \/ \E j \in (i + 1)..Min(closes) : sql[j] = "/*"
     THEN Refused
     ELSE Min(closes) + 1

\* comment_end
CommentEnd(sql, i, dialect) ==
  CASE sql[i] \in dialect.lineComments -> LineCommentEnd(sql, i, dialect)
    [] sql[i] = "/*"                   -> BlockCommentEnd(sql, i)
    [] OTHER                           -> None

-----------------------------------------------------------------------------
\* Literals and quoted identifiers.

At(sql, j, delimiter) ==
  /\ j + Len(delimiter) - 1 <= Len(sql)
  /\ SubSeq(sql, j, j + Len(delimiter) - 1) = delimiter

\* A one-character delimiter, twice ("$$" is two characters, and one symbol).
Doubled(sql, j, delimiter) ==
  delimiter \in {<<"quote">>, <<"dquote">>, <<"backtick">>} /\ At(sql, j, delimiter \o delimiter)

\* _escaped_literal_end: a backslash protects what follows it.
EscapedLiteralEnd(sql, body, delimiter) ==
  LET end[j \in Nat] ==
        IF j > Len(sql) THEN Refused
        ELSE IF sql[j] = "backslash" \/ Doubled(sql, j, delimiter) THEN end[j + 2]
        ELSE IF At(sql, j, delimiter) THEN j + Len(delimiter) ELSE end[j + 1]
  IN end[body]

\* The symbols from body to j - 1 end in an odd run of backslashes.
BehindBackslash(sql, body, j) ==
  Max({n \in 0..(j - body) : \A k \in 1..n : sql[j - k] = "backslash"}) % 2 = 1

\* Mutant: the doubled delimiter is looked at before the backslash.
DoubledFirst(sql, body, delimiter) ==
  LET end[j \in Nat] ==
        IF j > Len(sql) THEN Refused
        ELSE IF ~At(sql, j, delimiter) THEN end[j + 1]
        ELSE IF Doubled(sql, j, delimiter) THEN end[j + 2]
        ELSE IF BehindBackslash(sql, body, j) THEN Refused ELSE j + Len(delimiter)
  IN end[body]

\* _unescaped_literal_end: a candidate behind a backslash is refused, before
\* it may count as doubled.
UnescapedLiteralEnd(sql, body, delimiter) ==
  LET end[j \in Nat] ==
        IF j > Len(sql) THEN Refused
        ELSE IF ~At(sql, j, delimiter) THEN end[j + 1]
        ELSE IF BehindBackslash(sql, body, j) THEN Refused
        ELSE IF Doubled(sql, j, delimiter) THEN end[j + 2] ELSE j + Len(delimiter)
  IN end[body]

\* _prefix_before
PrefixBefore(sql, i) ==
  LET start == Min({j \in 1..i : \A k \in j..(i - 1) : sql[k] \in IdentifierSymbols})
  IN SubSeq(sql, start, i - 1)

\* _quoted_end: the prefix glued to the quote selects the rules of the body.
QuotedEnd(sql, i, dialect) ==
  LET quote     == sql[i]
      prefix    == PrefixBefore(sql, i)
      three     == <<quote, quote, quote>>
      delimiter == IF dialect.triple /\ At(sql, i, three) THEN three ELSE <<quote>>
      body      == i + Len(delimiter)
      cooked    == \/ prefix = <<>> /\ (quote = "quote" \/ dialect.quoteIsString)
                   \/ prefix \in dialect.cooked
      plain     == \/ prefix = <<>> /\ quote = "dquote" /\ ~dialect.quoteIsString
                   \/ prefix \in dialect.raw
                   \/ prefix \in dialect.hex /\ delimiter = <<"quote">>
  IN CASE cooked -> EscapedLiteralEnd(sql, body, delimiter)
       [] plain  -> UnescapedLiteralEnd(sql, body, delimiter)
       [] OTHER  -> Refused

\* literal_end
LiteralEnd(sql, i, dialect) ==
  CASE sql[i] \in {"quote", "dquote"}            -> QuotedEnd(sql, i, dialect)
    [] sql[i] = "backtick" /\ dialect.backtick  -> UnescapedLiteralEnd(sql, i + 1, <<"backtick">>)
    [] sql[i] = "$$" /\ dialect.dollar   ->
         IF PrefixBefore(sql, i) # <<>> THEN Refused
         ELSE UnescapedLiteralEnd(sql, i + 1, <<"$$">>)
    [] OTHER                             -> None

=============================================================================
