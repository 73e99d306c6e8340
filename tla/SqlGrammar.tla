----------------------------- MODULE SqlGrammar -----------------------------
(***************************************************************************)
(* External: statements of the three grammars as far as the read gate tells  *)
(* them apart, each with what it is: a text and, known from its derivation,  *)
(* whether it writes, whether it is a query (what a derived table may be),   *)
(* whether its own WITH is recursive and how deep its WITHs nest.            *)
(***************************************************************************)
EXTENDS Naturals, Sequences

Statement(text, writes, query, recursive, depth) ==
  [text |-> text, writes |-> writes, query |-> query, recursive |-> recursive, depth |-> depth]

Word(keyword) == <<keyword, " ">>

\* Statements without parts.  A literal and a comment may hold a parenthesis.
Selects ==
  {Statement(text, FALSE, TRUE, FALSE, 0) : text \in
     { Word("SELECT") \o <<"word">>,
       Word("SELECT") \o <<"quote", ")", "quote">>,
       <<"/*", "(", "*/">> \o Word("SELECT") \o <<"word">>,
       Word("VALUES") \o <<"(", "word", ")">> }}
Show   == Statement(Word("SHOW") \o <<"word">>, FALSE, FALSE, FALSE, 0)
Insert == Statement(Word("INSERT") \o <<"word">>, TRUE, FALSE, FALSE, 0)
Select == Statement(Word("SELECT") \o <<"word">>, FALSE, TRUE, FALSE, 0)

InParentheses(s) == [s EXCEPT !.text = <<"(">> \o @ \o <<")">>]

\* name [(columns)] AS (body)
Cte(name, columns, body) ==
  [head |-> name \o (IF columns THEN <<"(", "word", ",", "word", ")">> ELSE <<>>)
            \o <<" ">> \o Word("AS"),
   body |-> body]

CteText(cte) == cte.head \o InParentheses(cte.body).text

\* WITH [RECURSIVE] cte [, cte] main
With(recursive, ctes, main) ==
  LET bodies == {ctes[k].body : k \in DOMAIN ctes}
      parts  == bodies \cup {main}
  IN Statement(
       Word("WITH") \o (IF recursive THEN Word("RECURSIVE") ELSE <<>>)
         \o CteText(ctes[1]) \o (IF Len(ctes) = 2 THEN <<",", " ">> \o CteText(ctes[2]) ELSE <<>>)
         \o <<" ">> \o main.text,
       \E s \in parts : s.writes,
       \A s \in parts : s.query,
       recursive,
       1 + (CHOOSE d \in {s.depth : s \in parts} : \A s \in parts : s.depth <= d))

Names(engine) == { <<"word">>,
  IF engine = "snowflake" THEN <<"dquote", "word", "dquote">> ELSE <<"backtick", "word", "backtick">> }

-----------------------------------------------------------------------------
Flat == Selects \cup {Show, Insert}

\* Every header over every body, and every main statement after a plain header.
WithLists(engine) ==
  {With(recursive, <<Cte(name, columns, body)>>, Select) :
     recursive \in BOOLEAN, name \in Names(engine), columns \in BOOLEAN,
     body \in Selects \cup {Insert}}
  \cup {With(FALSE, <<Cte(<<"word">>, FALSE, first), Cte(<<"word">>, FALSE, second)>>, main) :
          first \in {Select, Insert}, second \in {Select, Insert},
          main \in {Select, Insert, InParentheses(Select)}}

\* One WITH deeper: in the body of a CTE, or as a main statement in parentheses.
Deeper(statements) ==
  {With(FALSE, <<Cte(<<"word">>, FALSE, s)>>, Select) : s \in statements}
  \cup {With(FALSE, <<Cte(<<"word">>, FALSE, Select)>>, InParentheses(s)) : s \in statements}

Plain == {With(recursive, <<Cte(<<"word">>, FALSE, body)>>, Select) :
            recursive \in BOOLEAN, body \in {Select, Insert}}

Statements(engine) ==
  LET all == Flat \cup WithLists(engine) \cup Deeper(Plain) \cup Deeper(Deeper(Plain))
  IN all \cup {InParentheses(s) : s \in all \ {Show}}

=============================================================================
