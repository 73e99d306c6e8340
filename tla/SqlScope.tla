------------------------------ MODULE SqlScope ------------------------------
(***************************************************************************)
(* sql_scope.py, _scan and assert_single_statement: one pass over a text,    *)
(* with the lexer of module SqlLexer, that refuses anything but one          *)
(* statement and remembers where that statement ends.  One action per turn   *)
(* of the loop and kind of turn.                                             *)
(***************************************************************************)
EXTENDS SqlLexer

CONSTANT Families   \* sets of requests [engine, sql, optouts, statements]: a text, with
                    \* the statements it is made of, or <<>> where nobody knows

ASSUME FamiliesAssumption ==
  \A family \in Families : \A r \in family :
    r.engine \in DOMAIN Dialects /\ r.sql \in Seq(Symbols)

VARIABLES
  request,
  pc,        \* "scan", "single", "read", "wrap" or "done"
  index,
  seen,      \* terminator_seen
  end,       \* statement_end + 1, None before any statement, or Refused
  answer     \* "none", "notSingle", "notRead", "wrapped" or "plain"

vars == <<request, pc, index, seen, end, answer>>

Init ==
  /\ \E family \in Families : request \in family
  /\ pc = "scan"
  /\ index = 1
  /\ seen = FALSE
  /\ end = None
  /\ answer = "none"

sql     == request.sql
dialect == Dialects[request.engine]

Comment == CommentEnd(sql, index, dialect)
Literal == LiteralEnd(sql, index, dialect)

Scanning == pc = "scan" /\ index <= Len(sql)

\* A symbol the statement consists of.
Significant == Scanning /\ Comment = None /\ sql[index] \notin Spaces

\* Mutant: a trailing comment counts into the statement.
EndAfterComment ==
  /\ Scanning /\ Comment \notin {None, Refused}
  /\ index' = Comment
  /\ end' = IF end = None THEN None ELSE Comment
  /\ UNCHANGED <<request, pc, seen, answer>>

SkipComment ==
  /\ Scanning /\ Comment \notin {None, Refused}
  /\ index' = Comment
  /\ UNCHANGED <<request, pc, seen, end, answer>>

SkipSpace ==
  /\ Scanning /\ Comment = None /\ sql[index] \in Spaces
  /\ index' = index + 1
  /\ UNCHANGED <<request, pc, seen, end, answer>>

Terminator ==
  /\ Significant /\ ~seen /\ sql[index] = ";"
  /\ seen' = TRUE
  /\ index' = index + 1
  /\ UNCHANGED <<request, pc, end, answer>>

TakeLiteral ==
  /\ Significant /\ ~seen /\ Literal \notin {None, Refused}
  /\ index' = Literal
  /\ end' = Literal
  /\ UNCHANGED <<request, pc, seen, answer>>

TakeSymbol ==
  /\ Significant /\ ~seen /\ sql[index] # ";" /\ Literal = None
  /\ index' = index + 1
  /\ end' = index + 1
  /\ UNCHANGED <<request, pc, seen, answer>>

\* Mutant: a comment behind the ";" counts as more SQL.
RefuseTrailingComment ==
  /\ Scanning /\ seen /\ sql[index] \notin Spaces
  /\ end' = Refused
  /\ pc' = "single"
  /\ UNCHANGED <<request, index, seen, answer>>

\* More SQL behind the ";", or a comment or a literal whose end is not certain.
ScanRefuses ==
  /\ Scanning
  /\ \/ Comment = Refused
     \/ Significant /\ (seen \/ (sql[index] # ";" /\ Literal = Refused))
  /\ end' = Refused
  /\ pc' = "single"
  /\ UNCHANGED <<request, index, seen, answer>>

ScanEnds ==
  /\ pc = "scan" /\ index > Len(sql)
  /\ pc' = "single"
  /\ UNCHANGED <<request, index, seen, end, answer>>

\* is_single_statement
IsSingleStatement == end \notin {None, Refused}

\* assert_single_statement, the verdict of the scan being known.
AssertSingleStatement ==
  /\ pc = "single"
  /\ IF "multi" \in request.optouts \/ IsSingleStatement
     THEN pc' = "read" /\ UNCHANGED answer
     ELSE pc' = "done" /\ answer' = "notSingle"
  /\ UNCHANGED <<request, index, seen, end>>

\* single_statement_body, which the engines call for a text they are to enclose;
\* its best effort for any other text is out of reach there.
Body == SubSeq(sql, 1, end - 1)

=============================================================================
