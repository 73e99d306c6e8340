-------------------------- MODULE MCStatementGate --------------------------
EXTENDS StatementGate, SqlGrammar

CONSTANTS Longest, LongestOfQuotes

\* All texts of a few symbols, with no two runs of letters side by side.
Texts(symbols, longest) ==
  {text \in UNION {[1..n -> symbols] : n \in 1..longest} :
     \A i \in 1..(Len(text) - 1) : text[i] \notin Words \/ text[i + 1] \notin Words}

\* Where a line comment, a block comment and each kind of literal ends.
Lexical(engine) ==
  LET opener == CASE engine = "bigquery" -> "#" [] engine = "snowflake" -> "//" [] OTHER -> "--"
      prefix == CASE engine = "bigquery" -> {"r", "rb", "b"} [] engine = "databricks" -> {"r", "x"}
                  [] OTHER -> {"r"}
      other  == IF engine = "snowflake" THEN "$$" ELSE "backtick"
  IN Texts({"quote", ";", opener, "LF", "CR", "SEP", "backslash"}, Longest)
     \cup Texts({"quote", ";", "/*", "*/", opener, "LF"}, Longest)
     \cup Texts({"quote", ";", "backslash"} \cup prefix, Longest)
     \cup Texts({"dquote", other, ";", "r", "backslash"}, Longest)
     \cup Texts({"quote", ";", "backslash"}, LongestOfQuotes)

Joined(one, other) == one.text \o <<";", " ">> \o other.text

Request(engine, text, optouts, statements) ==
  [engine |-> engine, sql |-> text, optouts |-> optouts, statements |-> statements]

OptOuts == SUBSET {"multi", "write"}

RequestsTo(engine) == {
  {Request(engine, <<"SELECT", " ">> \o text, {}, <<>>) : text \in Lexical(engine)},
  {Request(engine, text, optouts, <<>>) :
     text \in Texts({"SELECT", ";", "LF", "/*", "*/"}, 3), optouts \in OptOuts},
  {Request(engine, s.text, optouts, <<s>>) : s \in Statements(engine), optouts \in OptOuts},
  {Request(engine, Joined(s, t), optouts, <<s, t>>) :
     s \in Flat \cup Plain, t \in Flat \cup Plain, optouts \in OptOuts} }

MCFamilies == RequestsTo("bigquery") \cup RequestsTo("snowflake") \cup RequestsTo("databricks")

=============================================================================
