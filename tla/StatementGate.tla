--------------------------- MODULE StatementGate ---------------------------
(***************************************************************************)
(* What tools/run_query_bounded.py and tools/estimate_query_cost.py do with  *)
(* a text before anything else sees it: assert_single_statement (module      *)
(* SqlScope), assert_read_statement and, to run it, the decision to enclose  *)
(* it in "SELECT * FROM (...) LIMIT n" (module ReadGate).  The properties    *)
(* compare their verdicts with the readings of a text an engine may have     *)
(* (module EngineLexers) and with what a statement is known to be.           *)
(***************************************************************************)
EXTENDS SqlScope, ReadGate, EngineLexers

AssertReadStatement ==
  /\ pc = "read"
  /\ IF "write" \in request.optouts \/ ReadsOnly(sql, dialect)
     THEN pc' = "wrap" /\ UNCHANGED answer
     ELSE pc' = "done" /\ answer' = "notRead"
  /\ UNCHANGED <<request, index, seen, end>>

WrapInLimit ==
  /\ pc = "wrap"
  /\ answer' = IF IsSingleStatement /\ IsQuery(sql, dialect) THEN "wrapped" ELSE "plain"
  /\ pc' = "done"
  /\ UNCHANGED <<request, index, seen, end>>

Next ==
  \/ SkipComment \/ SkipSpace \/ Terminator \/ TakeLiteral \/ TakeSymbol
  \/ ScanRefuses \/ ScanEnds
  \/ AssertSingleStatement \/ AssertReadStatement \/ WrapInLimit

Spec == Init /\ [][Next]_vars

-----------------------------------------------------------------------------
Accepted == answer \in {"wrapped", "plain"}
Checked  == Accepted /\ "multi" \notin request.optouts
Known    == request.statements # <<>>

\* However the engine reads a text that passed as one statement - wherever it
\* ends a line comment, nests a block comment or honours a backslash -, it is
\* one statement there as well, of the same symbols (sql_scope.py:10-16).
OneStatementInEveryReading ==
  Checked =>
    LET readings == {Lexemes(sql, dialect, r) : r \in Readings(sql, dialect)}
    IN /\ \A lexemes \in readings : IsOneStatement(sql, lexemes)
       /\ \A one, other \in readings : Substance(sql, one) = Substance(sql, other)

\* The parenthesis the wrap closes a statement with is code in every reading,
\* and no ";" is left before it: no comment at the end of a text swallows it,
\* and nothing of the statement is cut off (sql_scope.py:369-381).
WrapEndsInCode ==
  answer = "wrapped" =>
    LET wrapped == Append(Body, ")")
    IN \A r \in Readings(sql, dialect) :
         LET lexemes == Lexemes(wrapped, dialect, r)
         IN /\ [kind |-> "code", first |-> end, last |-> end] \in lexemes
            /\ Terminators(wrapped, lexemes) = {}
            /\ Substance(wrapped, lexemes) = Substance(sql, Lexemes(sql, dialect, r)) \cup {end}

\* The gates agree on where comments and literals end: the read gate finds
\* exactly one statement in a text the first one passed (sql_scope_keywords.py:
\* 13-15, 310-311).
GatesAgree ==
  pc = "done" /\ answer # "notSingle" /\ "multi" \notin request.optouts =>
    Cardinality(NonBlankSegments(sql, dialect)) = 1

\* Refusing what is uncertain costs nothing else: a text with no backslash, no
\* glued prefix, no line end but LF and one block comment at most passes if it
\* is one statement.
OrdinaryTextPasses ==
  answer = "notSingle" =>
    LET reading == [ends |-> dialect.terminators, continues |-> FALSE,
                    nests |-> FALSE, escapes |-> FALSE]
        lexemes == Lexemes(sql, dialect, reading)
    IN ~ /\ \A i \in DOMAIN sql :
              /\ sql[i] \notin {"backslash", "CR", "SEP"}
              /\ sql[i] \in {"quote", "dquote", "$$"} => PrefixBefore(sql, i) = <<>>
         /\ Cardinality({i \in DOMAIN sql : sql[i] = "/*"}) <= 1
         /\ Cardinality(Terminators(sql, lexemes)) <= 1
         /\ IsOneStatement(sql, lexemes)

\* No write passes, behind whatever CTEs, parentheses or other statements, and
\* every read does whose WITHs nest no deeper than the walk goes.
ReadsAndOnlyReadsPass ==
  Known /\ pc = "done" /\ answer # "notSingle" /\ "write" \notin request.optouts =>
    IF Accepted THEN \A k \in DOMAIN request.statements : ~request.statements[k].writes
    ELSE \E k \in DOMAIN request.statements :
           request.statements[k].writes \/ request.statements[k].depth > MaxCteNesting

\* What is wrapped is valid as a derived table on every engine: one query, not
\* recursive (#94, #124); and every such query is, that the walk can follow.
OnlyQueriesAreWrapped ==
  Known /\ Accepted =>
    LET s == request.statements[1]
    IN answer = "wrapped" <=>
         Len(request.statements) = 1 /\ s.query /\ ~s.recursive /\ s.depth <= MaxCteNesting

=============================================================================
