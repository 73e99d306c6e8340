------------------------------ MODULE ReadGate ------------------------------
(***************************************************************************)
(* sql_scope_keywords.py: the walk over a text that decides whether every    *)
(* statement of it is a read, and whether an engine may enclose it in its    *)
(* LIMIT wrap.  Parts of a text are walked as slices, as in the code.        *)
(*                                                                         *)
(* A keyword is None ("none") also where the walk raises: both its callers   *)
(* answer the two alike.                                                     *)
(***************************************************************************)
EXTENDS SqlLexer

CONSTANT MaxCteNesting   \* _MAX_CTE_NESTING

ASSUME ReadGateAssumption == MaxCteNesting \in Nat \ {0}

ReadStatementKeywords == {"SELECT", "WITH", "VALUES", "SHOW"}
QueryKeywords == {"SELECT", "VALUES"}

\* Mutant: the table misses an opener that only one dialect has.
OpenersWithoutHash == {"--", "//", "/*", "quote", "dquote", "backtick", "$$"}

\* LEXER_OPENERS
LexerOpeners == {"--", "#", "//", "/*", "quote", "dquote", "backtick", "$$"}

\* _lexeme_end
LexemeEnd(sql, i, dialect) ==
  IF sql[i] \notin LexerOpeners THEN None
  ELSE LET comment == CommentEnd(sql, i, dialect)
       IN IF comment = None THEN LiteralEnd(sql, i, dialect) ELSE comment

From(sql, i)     == SubSeq(sql, i, Len(sql))
StartsWith(sql, i, symbol) == i \in 1..Len(sql) /\ sql[i] = symbol

\* _skip_trivia; Refused where a comment is.
SkipTrivia(sql, i, dialect, parens) ==
  LET skip[j \in Int] ==
        IF j \notin 1..Len(sql) THEN j
        ELSE IF sql[j] \in Spaces \/ (parens /\ sql[j] = "(") THEN skip[j + 1]
        ELSE LET comment == IF sql[j] \in LexerOpeners THEN CommentEnd(sql, j, dialect) ELSE None
             IN IF comment = None THEN j ELSE skip[comment]
  IN skip[i]

\* _word_at: "$" ends a keyword.
WordAt(sql, i) == IF i \in 1..Len(sql) /\ sql[i] \in Words THEN sql[i] ELSE "none"

FirstOffset(sql, dialect)  == SkipTrivia(sql, 1, dialect, TRUE)
FirstKeyword(sql, dialect) == WordAt(sql, FirstOffset(sql, dialect))

\* _group_end
GroupEnd(sql, i, dialect) ==
  LET end[j \in Nat, depth \in Nat] ==
        IF j > Len(sql) THEN Refused
        ELSE LET skipped == LexemeEnd(sql, j, dialect)
             IN CASE skipped = Refused             -> Refused
                  [] skipped > 0                   -> end[skipped, depth]
                  [] sql[j] = "("                  -> end[j + 1, depth + 1]
                  [] sql[j] = ")" /\ depth = 1     -> j + 1
                  [] sql[j] = ")" /\ depth > 1     -> end[j + 1, depth - 1]
                  [] OTHER                         -> end[j + 1, depth]
  IN end[i, 0]

\* _cte_name_end; a name may hold a "$".
CteNameEnd(sql, i, dialect) ==
  CASE WordAt(sql, i) # "none" ->
         LET rest == {j \in i..Len(sql) : \A k \in i..j : sql[k] \in IdentifierSymbols}
         IN i + Cardinality(rest)
    [] StartsWith(sql, i, "dquote") /\ ~dialect.quoteIsString -> LiteralEnd(sql, i, dialect)
    [] StartsWith(sql, i, "backtick") /\ dialect.backtick     -> LiteralEnd(sql, i, dialect)
    [] OTHER -> None

-----------------------------------------------------------------------------
\* The parts of "WITH [RECURSIVE] name [(columns)] AS (body)", and what comes after each;
\* behind a body comes "," and another name, or the main statement.
PartAfter == [with |-> "name", name |-> "columns", columns |-> "as", as |-> "body",
              body |-> "comma", comma |-> "name"]

\* Where a part ends; None where the text has something else.
PartEnd(sql, part, i, dialect) ==
  CASE part = "with"    -> IF WordAt(sql, i) = "RECURSIVE" THEN i + 1 ELSE i
    [] part = "name"    -> CteNameEnd(sql, i, dialect)
    [] part = "columns" -> IF StartsWith(sql, i, "(") THEN GroupEnd(sql, i, dialect) ELSE i
    [] part = "as"      -> IF WordAt(sql, i) = "AS" THEN i + 1 ELSE None
    [] part = "body"    -> IF StartsWith(sql, i, "(") THEN GroupEnd(sql, i, dialect) ELSE None
    [] part = "comma"   -> i + 1

\* _resolve_query_keyword and the walk of _main_keyword_after_ctes over the CTEs, from a
\* part of the text at i on: "keyword" is where a statement begins, with depth WITHs
\* around it, its own included.
KeywordFrom(dialect) ==
  LET keyword[sql \in Seq(Symbols), part \in STRING, i \in Int, depth \in Nat] ==
        LET ResumeAt(end) ==
              keyword[sql, PartAfter[part], SkipTrivia(sql, end, dialect, FALSE), depth]
            Inner(text) == keyword[text, "keyword", FirstOffset(text, dialect), depth + 1]
            AfterPart(end) ==
              IF \/ end \in {None, Refused}
                 \/ part = "body" /\ Inner(SubSeq(sql, i + 1, end - 2)) \notin QueryKeywords
              THEN "none" ELSE ResumeAt(end)
        IN CASE part = "keyword" ->
                  IF WordAt(sql, i) # "WITH" THEN WordAt(sql, i)
                  ELSE IF depth > MaxCteNesting THEN "none"
                  ELSE keyword[sql, "with", SkipTrivia(sql, i + 1, dialect, FALSE), depth]
             [] part = "comma" /\ ~StartsWith(sql, i, ",") ->
                  IF StartsWith(sql, i, "(") THEN Inner(From(sql, i)) ELSE WordAt(sql, i)
             [] OTHER -> AfterPart(PartEnd(sql, part, i, dialect))
  IN keyword

ResolveQueryKeyword(sql, dialect) ==
  KeywordFrom(dialect)[sql, "keyword", FirstOffset(sql, dialect), 1]

-----------------------------------------------------------------------------
\* Where the segments of a text end from a position on: at every top-level ";" and behind
\* the text, or <<>> where the lexer refuses it.
SegmentEnds(sql, start, dialect) ==
  LET ends[j \in Nat \ {0}] ==
        IF j > Len(sql) THEN <<Len(sql) + 1>>
        ELSE LET skipped == LexemeEnd(sql, j, dialect)
             IN CASE skipped = Refused -> <<>>
                  [] skipped > 0       -> ends[skipped]
                  [] skipped = None /\ sql[j] = ";" ->
                       IF ends[j + 1] = <<>> THEN <<>> ELSE <<j>> \o ends[j + 1]
                  [] OTHER             -> ends[j + 1]
  IN ends[start]

\* _statement_segments
StatementSegments(sql, dialect) ==
  LET ends == SegmentEnds(sql, 1, dialect)
  IN [k \in DOMAIN ends |-> SubSeq(sql, IF k = 1 THEN 1 ELSE ends[k - 1] + 1, ends[k] - 1)]

\* Which of the segments hold a statement.
IsBlank(segment, dialect) == SkipTrivia(segment, 1, dialect, FALSE) > Len(segment)

NonBlankSegments(sql, dialect) ==
  LET segments == StatementSegments(sql, dialect)
  IN {k \in DOMAIN segments : ~IsBlank(segments[k], dialect)}

\* Mutant: a WITH is a read, whatever it leads to.
FirstKeywordOnly(segment, dialect) == FirstKeyword(segment, dialect) \in ReadStatementKeywords

\* _check_statement
CheckStatement(segment, dialect) ==
  LET keyword == FirstKeyword(segment, dialect)
  IN IF keyword = "WITH" THEN ResolveQueryKeyword(segment, dialect) \in QueryKeywords
     ELSE keyword \in ReadStatementKeywords

\* _check_every_statement
ReadsOnly(sql, dialect) ==
  LET segments == StatementSegments(sql, dialect)
      held     == NonBlankSegments(sql, dialect)
  IN held # {} /\ \A k \in held : CheckStatement(segments[k], dialect)

\* Mutant: the wrap takes recursive CTEs, which BigQuery refuses in a derived
\* table (#124).
NeverRecursive(sql, dialect) == FALSE

\* _is_recursive_with
IsRecursiveWith(sql, dialect) ==
  /\ FirstKeyword(sql, dialect) = "WITH"
  /\ WordAt(sql, SkipTrivia(sql, FirstOffset(sql, dialect) + 1, dialect, FALSE)) = "RECURSIVE"

\* is_single_query_statement, of a text that is a single statement.
IsQuery(sql, dialect) ==
  /\ ~IsRecursiveWith(sql, dialect)
  /\ ResolveQueryKeyword(sql, dialect) \in QueryKeywords

=============================================================================
