------------------------- MODULE ReadOnlyToolsProofs -------------------------
(***************************************************************************)
(* Proofs about ReadOnlyTools, for every set of warehouses, sizes, editions, *)
(* scans and histories.                                                      *)
(***************************************************************************)
EXTENDS ReadOnlyTools, FiniteSums, FunctionTheorems, TLAPS

SnowflakeSteps  == {"connect", "use", "explain", "show", "region", "history", "context", "done"}
DatabricksSteps == {"connect", "lookup", "session", "statement", "done"}
BeforeIssue     == {"connect", "use", "explain", "show", "lookup", "session"}

Facts == [kind : {"row", "unresolved", "unsafe", "failed", "region"},
          up : BOOLEAN, size : Sizes \cup {0}, gen2 : BOOLEAN, cloud : BOOLEAN]

TypeOK ==
  /\ engine \in {"snowflake", "databricks"}
  /\ engine = "snowflake"  => call \in Snowflake!Calls /\ pc \in SnowflakeSteps
  /\ engine = "databricks" => /\ call \in Databricks!Calls /\ call.pinned \in Names
                              /\ pc \in DatabricksSteps
  /\ wh \in [Names -> Kinds]
  /\ conn \in {"none", "open", "closed"}
  /\ seen \in Facts
  /\ moved \in BOOLEAN /\ woken \in BOOLEAN
  /\ issued \subseteq {"region", "history", "context", "session"}
  /\ work \in [plan : SUBSET (Scans \cup {UnknownSize}), runs : Histories \cup {{}}]
  /\ engine = "snowflake" => work.plan = {} \/ \E b \in Scans : work.plan = {b}
  /\ engine = "databricks" => work.runs = {} /\ seen.kind \in {"failed", "row"}
  /\ result \in {"none", "estimate", "refused", "ok", "not_ok", "raised"}

\* The session and the answer, by the step.
SessionInv ==
  /\ pc \in {"connect", "lookup", "session"} => conn = "none"
  /\ pc \in {"use", "explain", "show", "region", "history", "context", "statement"} => conn = "open"
  /\ pc = "done" => conn # "open"
  /\ pc = "done" <=> result # "none"
  /\ pc \in BeforeIssue => issued = {}
  /\ pc = "statement" => "session" \in issued
  /\ pc \in {"explain", "region", "history"} => call.tool # "check"
  /\ result = "ok" => conn = "closed" /\ (engine = "databricks" => "session" \in issued)
  /\ result = "refused" => conn = "none" /\ issued = {}

\* What was seen is of the pinned warehouse, and still so unless it has moved.
BindInv ==
  /\ seen.kind \in {"row", "region"} =>
       /\ call.pinned \in Names
       /\ seen.size \in {wh[call.pinned].size, 0}
  /\ seen.up => seen.kind \in {"row", "region"} /\ (moved \/ wh[call.pinned].up)

\* Why a gated statement may be issued, and why it was.
GuardInv ==
  /\ pc = "region" => seen.kind = "row"
  /\ pc \in {"region", "context", "session", "statement"} /\ ~Bypass => seen.kind = "row" /\ seen.up
  /\ issued # {} /\ ~Bypass => seen.kind \in {"row", "region"} /\ seen.up
  /\ woken => issued # {}
  /\ woken /\ ~Bypass => moved

\* The figure is the product for what is known at the end.
FigureInv ==
  figure # None =>
    /\ result = "estimate" /\ call.tool # "check"
    /\ figure = IF engine = "snowflake" THEN Snowflake!Figure(seen, work.plan, work.runs)
                ELSE Databricks!Figure(seen, work.plan)

IndInv == TypeOK /\ SessionInv /\ BindInv /\ GuardInv /\ FigureInv

-----------------------------------------------------------------------------
LEMMA IndInvInit == Init => IndInv
  <1> SUFFICES ASSUME Init PROVE IndInv
    OBVIOUS
  <1>1. /\ InitCall /\ pc = "connect" /\ wh \in [Names -> Kinds]
        /\ \/ engine = "snowflake" /\ call \in Snowflake!Calls
           \/ engine = "databricks" /\ call \in Databricks!Calls /\ call.pinned \in Names
    <2>1. CASE engine = "snowflake" /\ Snowflake!Init
      BY <2>1 DEF Snowflake!Init, Snowflake!InitCall, InitCall, Snowflake!Unseen, Unseen,
         Snowflake!Kinds, Kinds
    <2>2. CASE engine = "databricks" /\ Databricks!Init
      BY <2>2 DEF Databricks!Init, Databricks!InitCall, InitCall, Databricks!Unseen, Unseen,
         Databricks!Kinds, Kinds, Databricks!Calls, Databricks!Checks
    <2> QED
      BY <2>1, <2>2 DEF Init
  <1>2. TypeOK
    BY <1>1 DEF InitCall, Unseen, TypeOK, SnowflakeSteps, DatabricksSteps, Facts
  <1>3. SessionInv /\ BindInv /\ GuardInv /\ FigureInv
    BY <1>1 DEF InitCall, Unseen, SessionInv, BindInv, GuardInv, FigureInv
  <1> QED
    BY <1>2, <1>3 DEF IndInv

\* A gated statement and the moves of others leave the warehouses what they are.
LEMMA SwitchedKind ==
  ASSUME NEW kind \in Kinds, NEW up \in BOOLEAN
  PROVE  /\ [kind EXCEPT !.up = up] \in Kinds
         /\ [kind EXCEPT !.up = up].size = kind.size
         /\ [kind EXCEPT !.up = up].up = up
  BY DEF Kinds

LEMMA IssueEffect ==
  ASSUME wh \in [Names -> Kinds], NEW statement,
         Snowflake!Issue(statement) \/ Databricks!Issue(statement)
  PROVE  /\ wh' \in [Names -> Kinds]
         /\ \A n \in Names : wh'[n].size = wh[n].size
         /\ call.pinned \in Names => wh'[call.pinned].up
         /\ issued' = issued \cup {statement}
         /\ woken' \in BOOLEAN
         /\ woken' => woken \/ (call.pinned \in Names /\ ~wh[call.pinned].up)
  <1>1. wh' = [n \in Names |-> [wh[n] EXCEPT !.up = wh[n].up \/ n = call.pinned]]
    BY DEF Snowflake!Issue, Databricks!Issue
  <1>2. ASSUME NEW n \in Names
        PROVE  /\ wh'[n] \in Kinds /\ wh'[n].size = wh[n].size
               /\ wh'[n].up = (wh[n].up \/ n = call.pinned)
    <2>1. wh[n] \in Kinds /\ (wh[n].up \/ n = call.pinned) \in BOOLEAN
      OBVIOUS
    <2>2. wh'[n] = [wh[n] EXCEPT !.up = wh[n].up \/ n = call.pinned]
      BY <1>1
    <2> QED
      BY <2>1, <2>2, SwitchedKind
  <1>3. wh' \in [Names -> Kinds]
    BY <1>1, <1>2
  <1>4. /\ issued' = issued \cup {statement}
        /\ woken' = (woken \/ \E n \in Names : n = call.pinned /\ ~wh[n].up)
    BY DEF Snowflake!Issue, Databricks!Issue
  <1> QED
    BY <1>2, <1>3, <1>4

LEMMA MoveEffect ==
  ASSUME wh \in [Names -> Kinds], Snowflake!WarehouseMoves \/ Databricks!WarehouseMoves
  PROVE  /\ wh' \in [Names -> Kinds]
         /\ \A n \in Names : wh'[n].size = wh[n].size
         /\ pc # "done" /\ moved' = TRUE
         /\ UNCHANGED <<pc, call, conn, seen, issued, woken, work, figure, result>>
  <1>1. PICK n \in Names : wh' = [wh EXCEPT ![n] = [wh[n] EXCEPT !.up = ~wh[n].up]]
    BY DEF Snowflake!WarehouseMoves, Databricks!WarehouseMoves
  <1>2. /\ [wh[n] EXCEPT !.up = ~wh[n].up] \in Kinds
        /\ [wh[n] EXCEPT !.up = ~wh[n].up].size = wh[n].size
    <2>1. wh[n] \in Kinds /\ (~wh[n].up) \in BOOLEAN
      OBVIOUS
    <2> QED
      BY <2>1, SwitchedKind
  <1>3. wh' \in [Names -> Kinds] /\ \A m \in Names : wh'[m].size = wh[m].size
    BY <1>1, <1>2
  <1> QED
    BY <1>3 DEF Snowflake!WarehouseMoves, Databricks!WarehouseMoves

\* The row that binds is the pinned warehouse's own.
Binds(facts) ==
  /\ facts.kind = "row" => call.pinned \in Names /\ facts.size \in {wh[call.pinned].size, 0}
  /\ facts.up => facts.kind = "row" /\ wh[call.pinned].up

LEMMA RowBinds ==
  ASSUME wh \in [Names -> Kinds], NEW facts \in Snowflake!Row
  PROVE  facts \in Facts /\ facts.kind # "region" /\ Binds(facts)
  <1>1. CASE \E kind \in {"failed", "unsafe", "unresolved"} :
               facts = [kind |-> kind, up |-> FALSE, size |-> 0, gen2 |-> FALSE, cloud |-> FALSE]
    BY <1>1 DEF Facts, Binds
  <1>2. CASE call.pinned \in Names /\ facts \in Snowflake!RowOf(call.pinned)
    <2>1. PICK u \in {wh[call.pinned].up, FALSE}, z \in {wh[call.pinned].size, 0},
               g \in {wh[call.pinned].gen2, FALSE} :
            facts = [kind |-> "row", up |-> u, size |-> z, gen2 |-> g, cloud |-> FALSE]
      BY <1>2 DEF Snowflake!RowOf
    <2>2. wh[call.pinned] \in Kinds
      BY <1>2
    <2>3. u \in BOOLEAN /\ z \in Sizes \cup {0} /\ g \in BOOLEAN
      BY <2>2 DEF Kinds
    <2> QED
      BY <1>2, <2>1, <2>3 DEF Facts, Binds
  <1>3. \/ facts = Snowflake!Unseen
        \/ facts = [Snowflake!Unseen EXCEPT !.kind = "unsafe"]
        \/ facts = [Snowflake!Unseen EXCEPT !.kind = "unresolved"]
        \/ call.pinned \in Names /\ facts \in Snowflake!RowOf(call.pinned)
    BY DEF Snowflake!Row, Snowflake!Listed
  <1> QED
    BY <1>1, <1>2, <1>3 DEF Snowflake!Unseen

LEMMA AnswerBinds ==
  ASSUME wh \in [Names -> Kinds], call.pinned \in Names, NEW facts \in Databricks!Answers
  PROVE  facts \in Facts /\ facts.kind \in {"failed", "row"} /\ Binds(facts)
  <1>1. CASE facts = Databricks!Unseen
    BY <1>1 DEF Databricks!Unseen, Facts, Binds
  <1>2. CASE facts # Databricks!Unseen
    <2>1. PICK u \in {wh[call.pinned].up, FALSE}, z \in {wh[call.pinned].size, 0} :
            facts = [kind |-> "row", up |-> u, size |-> z, gen2 |-> FALSE, cloud |-> FALSE]
      BY <1>2 DEF Databricks!Answers
    <2>2. wh[call.pinned] \in Kinds
      OBVIOUS
    <2>3. u \in BOOLEAN /\ z \in Sizes \cup {0}
      BY <2>2 DEF Kinds
    <2> QED
      BY <2>1, <2>3 DEF Facts, Binds
  <1> QED
    BY <1>1, <1>2

LEMMA TypeNext == TypeOK /\ [Next]_allVars => TypeOK'
  <1> SUFFICES ASSUME TypeOK, [Next]_allVars PROVE TypeOK'
    OBVIOUS
  <1> USE DEF TypeOK, SnowflakeSteps, DatabricksSteps
  <1>1. ASSUME engine = "snowflake", engine' = engine, Snowflake!Next PROVE TypeOK'
    <2> USE <1>1 DEF Snowflake!End, Snowflake!Failure
    <2>1. CASE Snowflake!Connect \/ Snowflake!UseWarehouse
      BY <2>1 DEF Snowflake!Connect, Snowflake!UseWarehouse
    <2>2. CASE Snowflake!Explain
      BY <2>2 DEF Snowflake!Explain
    <2>3. CASE Snowflake!ShowWarehouse
      BY <2>3, RowBinds DEF Snowflake!ShowWarehouse
    <2>4. CASE Snowflake!Region
      <3>1. seen' \in Facts
        BY <2>4 DEF Snowflake!Region, Facts
      <3>2. Snowflake!Issue("region")
        BY <2>4 DEF Snowflake!Region
      <3>3. wh' \in [Names -> Kinds] /\ woken' \in BOOLEAN /\ issued' = issued \cup {"region"}
        BY <3>2, IssueEffect
      <3> QED
        BY <2>4, <3>1, <3>3 DEF Snowflake!Region
    <2>5. CASE Snowflake!History
      BY <2>5, IssueEffect DEF Snowflake!History
    <2>6. CASE Snowflake!Context
      <3>1. Snowflake!Issue("context")
        BY <2>6 DEF Snowflake!Context
      <3>2. wh' \in [Names -> Kinds] /\ woken' \in BOOLEAN /\ issued' = issued \cup {"context"}
        BY <3>1, IssueEffect
      <3> QED
        BY <2>6, <3>2 DEF Snowflake!Context
    <2>7. CASE Snowflake!WarehouseMoves
      BY <2>7, MoveEffect
    <2> QED
      BY <2>1, <2>2, <2>3, <2>4, <2>5, <2>6, <2>7 DEF Snowflake!Next
  <1>2. ASSUME engine = "databricks", engine' = engine, Databricks!Next PROVE TypeOK'
    <2> USE <1>2 DEF Databricks!End, Databricks!Failure
    <2>1. CASE Databricks!Begin
      BY <2>1 DEF Databricks!Begin
    <2>2. CASE Databricks!Lookup
      BY <2>2, AnswerBinds DEF Databricks!Lookup
    <2>3. CASE Databricks!OpenSession
      <3>1. Databricks!Issue("session")
        BY <2>3 DEF Databricks!OpenSession
      <3>2. wh' \in [Names -> Kinds] /\ woken' \in BOOLEAN /\ issued' = issued \cup {"session"}
        BY <3>1, IssueEffect
      <3> QED
        BY <2>3, <3>2 DEF Databricks!OpenSession
    <2>4. CASE Databricks!Statement
      BY <2>4 DEF Databricks!Statement
    <2>5. CASE Databricks!WarehouseMoves
      BY <2>5, MoveEffect
    <2> QED
      BY <2>1, <2>2, <2>3, <2>4, <2>5 DEF Databricks!Next
  <1>3. CASE UNCHANGED allVars
    BY <1>3 DEF allVars, vars
  <1> QED
    BY <1>1, <1>2, <1>3 DEF Next

LEMMA SessionNext == TypeOK /\ SessionInv /\ [Next]_allVars => SessionInv'
  <1> SUFFICES ASSUME TypeOK, SessionInv, [Next]_allVars PROVE SessionInv'
    OBVIOUS
  <1> USE DEF TypeOK, SnowflakeSteps, DatabricksSteps, SessionInv, BeforeIssue
  <1>1. ASSUME engine = "snowflake", engine' = engine, Snowflake!Next PROVE SessionInv'
    <2> USE <1>1 DEF Snowflake!End, Snowflake!Failure
    <2>1. CASE Snowflake!Connect
      BY <2>1 DEF Snowflake!Connect
    <2>2. CASE Snowflake!UseWarehouse
      BY <2>2 DEF Snowflake!UseWarehouse
    <2>3. CASE Snowflake!Explain
      BY <2>3 DEF Snowflake!Explain
    <2>4. CASE Snowflake!ShowWarehouse
      BY <2>4 DEF Snowflake!ShowWarehouse
    <2>5. CASE Snowflake!Region
      BY <2>5 DEF Snowflake!Region
    <2>6. CASE Snowflake!History
      BY <2>6 DEF Snowflake!History
    <2>7. CASE Snowflake!Context
      BY <2>7 DEF Snowflake!Context
    <2>8. CASE Snowflake!WarehouseMoves
      BY <2>8, MoveEffect
    <2> QED
      BY <2>1, <2>2, <2>3, <2>4, <2>5, <2>6, <2>7, <2>8 DEF Snowflake!Next
  <1>2. ASSUME engine = "databricks", engine' = engine, Databricks!Next PROVE SessionInv'
    <2> USE <1>2 DEF Databricks!End, Databricks!Failure
    <2>1. CASE Databricks!Begin
      BY <2>1 DEF Databricks!Begin
    <2>2. CASE Databricks!Lookup
      BY <2>2 DEF Databricks!Lookup
    <2>3. CASE Databricks!OpenSession
      <3>1. Databricks!Issue("session")
        BY <2>3 DEF Databricks!OpenSession
      <3>2. issued' = issued \cup {"session"}
        BY <3>1, IssueEffect
      <3> QED
        BY <2>3, <3>2 DEF Databricks!OpenSession
    <2>4. CASE Databricks!Statement
      BY <2>4 DEF Databricks!Statement
    <2>5. CASE Databricks!WarehouseMoves
      BY <2>5, MoveEffect
    <2> QED
      BY <2>1, <2>2, <2>3, <2>4, <2>5 DEF Databricks!Next
  <1>3. CASE UNCHANGED allVars
    BY <1>3 DEF allVars, vars
  <1> QED
    BY <1>1, <1>2, <1>3 DEF Next

\* Only a lookup binds the facts to the warehouse; others' moves are noted, and
\* a gated statement starts the warehouse without changing what it is.
LEMMA BindNext == TypeOK /\ BindInv /\ GuardInv /\ [Next]_allVars => BindInv'
  <1> SUFFICES ASSUME TypeOK, BindInv, GuardInv, [Next]_allVars PROVE BindInv'
    OBVIOUS
  <1>0. seen.up \in BOOLEAN /\ wh \in [Names -> Kinds] /\ moved \in BOOLEAN
    BY DEF TypeOK, Facts
  <1>1. CASE UNCHANGED <<call, wh, seen, moved>>
    BY <1>1 DEF BindInv
  <1>2. ASSUME UNCHANGED <<call, wh>>, Binds(seen'), seen'.kind # "region", moved' \in BOOLEAN
        PROVE  BindInv'
    BY <1>2 DEF BindInv, Binds
  <1>3. ASSUME UNCHANGED <<call, moved>>, NEW statement,
               Snowflake!Issue(statement) \/ Databricks!Issue(statement),
               seen'.size = seen.size, seen'.up = seen.up,
               UNCHANGED seen \/ (seen.kind = "row" /\ seen'.kind \in {"row", "region"})
        PROVE  BindInv'
    <2>1. /\ \A n \in Names : wh'[n].size = wh[n].size
          /\ call.pinned \in Names => wh'[call.pinned].up
      BY <1>0, <1>3, IssueEffect
    <2>2. seen'.kind \in {"row", "region"} <=> seen.kind \in {"row", "region"}
      BY <1>3
    <2> QED
      BY <1>3, <2>1, <2>2 DEF BindInv
  <1>4. ASSUME Snowflake!WarehouseMoves \/ Databricks!WarehouseMoves PROVE BindInv'
    BY <1>0, <1>4, MoveEffect DEF BindInv
  <1>5. ASSUME engine = "snowflake", Snowflake!Next PROVE BindInv'
    <2>1. CASE Snowflake!Connect \/ Snowflake!UseWarehouse \/ Snowflake!Explain
      BY <1>1, <2>1 DEF Snowflake!Connect, Snowflake!UseWarehouse, Snowflake!Explain
    <2>2. CASE Snowflake!ShowWarehouse
      <3>1. Binds(seen') /\ seen'.kind # "region"
        BY <1>0, <2>2, RowBinds DEF Snowflake!ShowWarehouse
      <3> QED
        BY <1>2, <2>2, <3>1 DEF Snowflake!ShowWarehouse
    <2>3. CASE Snowflake!Region
      <3>1. /\ Snowflake!Issue("region") /\ UNCHANGED <<call, moved>>
            /\ seen' \in {[seen EXCEPT !.cloud = TRUE], seen, [seen EXCEPT !.kind = "region"]}
        BY <2>3 DEF Snowflake!Region
      <3>2. seen.kind = "row" /\ seen \in Facts
        BY <2>3 DEF Snowflake!Region, GuardInv, TypeOK
      <3>3. /\ seen'.size = seen.size /\ seen'.up = seen.up
            /\ seen'.kind \in {"row", "region"}
        BY <3>1, <3>2 DEF Facts
      <3> QED
        BY <1>3, <3>1, <3>2, <3>3
    <2>4. CASE Snowflake!History
      BY <1>1, <1>3, <2>4 DEF Snowflake!History
    <2>5. CASE Snowflake!Context
      BY <1>3, <2>5 DEF Snowflake!Context
    <2> QED
      BY <1>4, <1>5, <2>1, <2>2, <2>3, <2>4, <2>5 DEF Snowflake!Next
  <1>6. ASSUME engine = "databricks", Databricks!Next PROVE BindInv'
    <2>1. CASE Databricks!Begin \/ Databricks!Statement
      BY <1>1, <2>1 DEF Databricks!Begin, Databricks!Statement
    <2>2. CASE Databricks!Lookup
      <3>1. Binds(seen') /\ seen'.kind # "region"
        BY <1>0, <1>6, <2>2, AnswerBinds DEF Databricks!Lookup, TypeOK
      <3> QED
        BY <1>2, <2>2, <3>1 DEF Databricks!Lookup
    <2>3. CASE Databricks!OpenSession
      BY <1>3, <2>3 DEF Databricks!OpenSession
    <2> QED
      BY <1>4, <1>6, <2>1, <2>2, <2>3 DEF Databricks!Next
  <1>7. CASE UNCHANGED allVars
    BY <1>1, <1>7 DEF allVars, vars
  <1> QED
    BY <1>5, <1>6, <1>7 DEF Next

\* A gated statement wakes only a warehouse that has stopped since it was seen
\* running; a lookup comes before the first of them.
LEMMA GuardNext ==
  TypeOK /\ SessionInv /\ BindInv /\ GuardInv /\ [Next]_allVars => GuardInv'
  <1> SUFFICES ASSUME TypeOK, SessionInv, BindInv, GuardInv, [Next]_allVars PROVE GuardInv'
    OBVIOUS
  <1>0. seen \in Facts /\ wh \in [Names -> Kinds] /\ moved \in BOOLEAN /\ woken \in BOOLEAN
    BY DEF TypeOK
  <1>1. ASSUME NEW statement, Snowflake!Issue(statement) \/ Databricks!Issue(statement),
               UNCHANGED <<call, moved>>, seen'.up = seen.up,
               ~Bypass => seen.up /\ seen.kind = "row" /\ seen'.kind \in {"row", "region"},
               pc' \in {"history", "done", "statement"},
               pc' = "statement" => UNCHANGED seen
        PROVE  GuardInv'
    <2>1. issued' = issued \cup {statement} /\ woken' \in BOOLEAN
      BY <1>0, <1>1, IssueEffect
    <2>2. ASSUME woken', ~Bypass PROVE moved
      <3>1. woken \/ (call.pinned \in Names /\ ~wh[call.pinned].up)
        BY <1>0, <1>1, <2>2, IssueEffect
      <3>2. seen.up
        BY <1>1, <2>2
      <3> QED
        BY <2>2, <3>1, <3>2 DEF BindInv, GuardInv
    <2>3. Bypass' = Bypass
      BY <1>1 DEF Bypass
    <2>4. issued' # {}
      BY <2>1
    <2> QED
      BY <1>1, <2>2, <2>3, <2>4 DEF GuardInv
  <1>2. ASSUME UNCHANGED <<call, issued, woken>>, issued = {},
               pc' = "region" => seen'.kind = "row",
               pc' \in {"region", "context", "session", "statement"} /\ ~Bypass =>
                 seen'.kind = "row" /\ seen'.up
        PROVE  GuardInv'
    BY <1>2 DEF GuardInv, Bypass
  <1>3. CASE Snowflake!WarehouseMoves \/ Databricks!WarehouseMoves
    <2>1. moved' = TRUE /\ UNCHANGED <<pc, call, seen, issued, woken>>
      BY <1>0, <1>3, MoveEffect
    <2>2. Bypass' = Bypass
      BY <2>1 DEF Bypass
    <2> QED
      BY <1>0, <2>1, <2>2 DEF GuardInv
  <1>4. ASSUME engine = "snowflake", Snowflake!Next PROVE GuardInv'
    <2>1. CASE Snowflake!Connect \/ Snowflake!Explain
      <3>1. pc' \in {"use", "show", "done"} /\ issued = {}
        BY <2>1 DEF Snowflake!Connect, Snowflake!Explain, Snowflake!End, SessionInv, BeforeIssue
      <3> QED
        BY <1>2, <2>1, <3>1 DEF Snowflake!Connect, Snowflake!Explain
    <2>2. CASE Snowflake!UseWarehouse
      <3>1. pc' \in {"explain", "show", "done"} \/ (pc' = "context" /\ Bypass)
        BY <2>2 DEF Snowflake!UseWarehouse, Snowflake!End, Bypass
      <3>2. issued = {}
        BY <2>2 DEF Snowflake!UseWarehouse, SessionInv, BeforeIssue
      <3> QED
        BY <1>2, <2>2, <3>1, <3>2 DEF Snowflake!UseWarehouse
    <2>3. CASE Snowflake!ShowWarehouse
      <3>1. issued = {} /\ UNCHANGED <<call, issued, woken>>
        BY <2>3 DEF Snowflake!ShowWarehouse, SessionInv, BeforeIssue
      <3>2. /\ pc' \in {"region", "history", "context", "done"}
            /\ pc' = "context" => Snowflake!Started(seen')
            /\ pc' = "region" => Snowflake!Started(seen') \/ (Bypass /\ seen'.kind = "row")
        BY <2>3 DEF Snowflake!ShowWarehouse, Snowflake!End, Snowflake!Bypass, Bypass
      <3> QED
        BY <1>2, <3>1, <3>2 DEF Snowflake!Started
    <2>4. CASE Snowflake!Region
      <3>1. /\ Snowflake!Issue("region") /\ pc' = "history" /\ UNCHANGED <<call, moved>>
            /\ seen' \in {[seen EXCEPT !.cloud = TRUE], seen, [seen EXCEPT !.kind = "region"]}
        BY <2>4 DEF Snowflake!Region
      <3>2. seen.kind = "row" /\ (~Bypass => seen.up)
        BY <2>4 DEF Snowflake!Region, GuardInv
      <3>3. seen'.up = seen.up /\ seen'.kind \in {"row", "region"}
        BY <1>0, <3>1, <3>2 DEF Facts
      <3> QED
        BY <1>1, <3>1, <3>2, <3>3
    <2>5. CASE Snowflake!History
      <3>1. pc' = "done" /\ UNCHANGED <<call, seen, moved>>
        BY <2>5 DEF Snowflake!History, Snowflake!End
      <3>2. CASE Snowflake!HistoryAllowed
        <4>1. Snowflake!Issue("history")
          BY <2>5, <3>2 DEF Snowflake!History
        <4>2. ~Bypass => seen.up /\ seen.kind = "row"
          BY <3>2 DEF Snowflake!HistoryAllowed, Snowflake!Bypass, Bypass
        <4> QED
          BY <1>1, <3>1, <4>1, <4>2
      <3>3. CASE ~Snowflake!HistoryAllowed
        BY <2>5, <3>1, <3>3 DEF Snowflake!History, GuardInv, Bypass
      <3> QED
        BY <3>2, <3>3
    <2>6. CASE Snowflake!Context
      <3>1. Snowflake!Issue("context") /\ pc' = "done" /\ UNCHANGED <<call, seen, moved>>
        BY <2>6 DEF Snowflake!Context, Snowflake!End
      <3>2. ~Bypass => seen.up /\ seen.kind = "row"
        BY <2>6 DEF Snowflake!Context, GuardInv
      <3> QED
        BY <1>1, <3>1, <3>2
    <2> QED
      BY <1>3, <1>4, <2>1, <2>2, <2>3, <2>4, <2>5, <2>6 DEF Snowflake!Next
  <1>5. ASSUME engine = "databricks", Databricks!Next PROVE GuardInv'
    <2>1. CASE Databricks!Begin
      <3>1. pc' \in {"lookup", "done"} \/ (pc' = "session" /\ Bypass)
        BY <2>1 DEF Databricks!Begin, Databricks!End, Bypass
      <3>2. issued = {}
        BY <2>1 DEF Databricks!Begin, SessionInv, BeforeIssue
      <3> QED
        BY <1>2, <2>1, <3>1, <3>2 DEF Databricks!Begin
    <2>2. CASE Databricks!Lookup
      <3>1. issued = {} /\ UNCHANGED <<call, issued, woken>>
        BY <2>2 DEF Databricks!Lookup, SessionInv, BeforeIssue
      <3>2. pc' = "done" \/ (pc' = "session" /\ (Bypass \/ Databricks!Running(seen')))
        BY <2>2 DEF Databricks!Lookup, Databricks!End, Databricks!Bypass, Bypass
      <3> QED
        BY <1>2, <3>1, <3>2 DEF Databricks!Running
    <2>3. CASE Databricks!OpenSession
      <3>1. /\ Databricks!Issue("session") /\ UNCHANGED <<call, seen, moved>>
            /\ pc' \in {"statement", "done"}
        BY <2>3 DEF Databricks!OpenSession, Databricks!End
      <3>2. ~Bypass => seen.up /\ seen.kind = "row"
        BY <2>3 DEF Databricks!OpenSession, GuardInv
      <3> QED
        BY <1>1, <3>1, <3>2
    <2>4. CASE Databricks!Statement
      <3>1. pc' = "done" /\ UNCHANGED <<call, seen, moved, issued, woken>>
        BY <2>4 DEF Databricks!Statement, Databricks!End
      <3> QED
        BY <3>1 DEF GuardInv, Bypass
    <2> QED
      BY <1>3, <1>5, <2>1, <2>2, <2>3, <2>4 DEF Databricks!Next
  <1>6. CASE UNCHANGED allVars
    BY <1>6 DEF allVars, vars, GuardInv, Bypass
  <1> QED
    BY <1>4, <1>5, <1>6 DEF Next

LEMMA FigureNext ==
  TypeOK /\ SessionInv /\ FigureInv /\ [Next]_allVars => FigureInv'
  <1> SUFFICES ASSUME TypeOK, SessionInv, FigureInv, [Next]_allVars PROVE FigureInv'
    OBVIOUS
  <1>1. ASSUME result = "none", UNCHANGED figure PROVE FigureInv'
    BY <1>1 DEF FigureInv
  <1>2. CASE Snowflake!WarehouseMoves \/ Databricks!WarehouseMoves
    <2>1. pc # "done"
      BY <1>2 DEF Snowflake!WarehouseMoves, Databricks!WarehouseMoves
    <2>2. result = "none" /\ UNCHANGED figure
      BY <1>2, <2>1 DEF SessionInv, Snowflake!WarehouseMoves, Databricks!WarehouseMoves
    <2> QED
      BY <1>1, <2>2
  <1>3. ASSUME engine = "snowflake", engine' = engine, Snowflake!Next PROVE FigureInv'
    <2>1. CASE Snowflake!History
      <3>1. PICK runs \in Histories \cup {{}} :
              /\ work' = [work EXCEPT !.runs = runs]
              /\ figure' = Snowflake!Figure(seen, work.plan, runs)
        BY <2>1 DEF Snowflake!History
      <3>2. work'.plan = work.plan /\ work'.runs = runs
        BY <3>1 DEF TypeOK
      <3>3. result' = "estimate" /\ call' = call /\ seen' = seen /\ call.tool # "check"
        BY <2>1 DEF Snowflake!History, Snowflake!End, SessionInv
      <3>4. Snowflake!Figure(seen, work.plan, work.runs)'
              = Snowflake!Figure(seen, work.plan, runs)
        BY <3>2, <3>3 DEF Snowflake!Figure
      <3> QED
        BY <1>3, <3>1, <3>3, <3>4 DEF FigureInv
    <2>2. CASE pc \in {"connect", "use", "explain", "show", "region", "context"}
                 /\ UNCHANGED figure
      BY <1>1, <2>2 DEF SessionInv
    <2> QED
      BY <1>2, <1>3, <2>1, <2>2 DEF Snowflake!Next, Snowflake!Connect, Snowflake!UseWarehouse,
         Snowflake!Explain, Snowflake!ShowWarehouse, Snowflake!Region, Snowflake!Context
  <1>4. ASSUME engine = "databricks", engine' = engine, Databricks!Next PROVE FigureInv'
    <2>1. CASE Databricks!Statement
      <3>1. call' = call /\ seen' = seen /\ figure = None
        <4>1. result = "none"
          BY <2>1 DEF Databricks!Statement, SessionInv
        <4> QED
          BY <2>1, <4>1 DEF Databricks!Statement, FigureInv
      <3>2. CASE UNCHANGED figure
        BY <3>1, <3>2 DEF FigureInv
      <3>3. ASSUME NEW plan \in SUBSET (Scans \cup {UnknownSize}), call.tool # "check",
                   work' = [work EXCEPT !.plan = plan],
                   figure' = Databricks!Figure(seen, plan),
                   Databricks!End("estimate")
            PROVE  FigureInv'
        <4>1. work'.plan = plan
          BY <3>3 DEF TypeOK
        <4>2. Databricks!Figure(seen, work.plan)' = Databricks!Figure(seen, plan)
          BY <3>1, <4>1 DEF Databricks!Figure
        <4> QED
          BY <1>4, <3>1, <3>3, <4>2 DEF FigureInv, Databricks!End
      <3> QED
        BY <2>1, <3>2, <3>3 DEF Databricks!Statement
    <2>2. CASE pc \in {"connect", "lookup", "session"} /\ UNCHANGED figure
      BY <1>1, <2>2 DEF SessionInv
    <2> QED
      BY <1>2, <1>4, <2>1, <2>2 DEF Databricks!Next, Databricks!Begin, Databricks!Lookup,
         Databricks!OpenSession
  <1>5. CASE UNCHANGED allVars
    BY <1>5 DEF allVars, vars, FigureInv, Snowflake!Figure, Databricks!Figure
  <1> QED
    BY <1>3, <1>4, <1>5 DEF Next

-----------------------------------------------------------------------------
\* The strengthening that carries the properties is an invariant.
THEOREM Inductive == Spec => []IndInv
  <1>1. IndInv /\ [Next]_allVars => IndInv'
    BY TypeNext, SessionNext, BindNext, GuardNext, FigureNext DEF IndInv
  <1> QED
    BY IndInvInit, <1>1, PTL DEF Spec

\* OnlyARaceWakes, for any warehouses: estimate_query_cost and check_credentials
\* start a stopped warehouse only if they saw it running and it has stopped since.
THEOREM OnlyARace == Spec => []OnlyARaceWakes
  <1>1. IndInv => OnlyARaceWakes
    BY DEF IndInv, GuardInv, OnlyARaceWakes
  <1> QED
    BY Inductive, <1>1, PTL

\* FailedLookupIsFinal: after a lookup that failed on this session no gated
\* statement follows, without the operator's opt-in.
THEOREM FailedIsFinal == Spec => FailedLookupIsFinal
  <1>1. ASSUME IndInv, Next, issued' # issued, ~Bypass PROVE seen.kind = "row"
    <2>1. CASE engine = "snowflake" /\ Snowflake!Next
      <3>1. CASE pc \in {"region", "context"}
        BY <1>1, <3>1 DEF IndInv, GuardInv
      <3>2. CASE Snowflake!History
        BY <1>1, <3>2 DEF Snowflake!History, Snowflake!HistoryAllowed, Snowflake!Bypass, Bypass
      <3> QED
        BY <1>1, <2>1, <3>1, <3>2 DEF Snowflake!Next, Snowflake!Connect, Snowflake!UseWarehouse,
           Snowflake!Explain, Snowflake!ShowWarehouse, Snowflake!Region, Snowflake!Context,
           Snowflake!WarehouseMoves
    <2>2. CASE engine = "databricks" /\ Databricks!Next
      <3>1. CASE pc = "session"
        BY <1>1, <3>1 DEF IndInv, GuardInv
      <3> QED
        BY <1>1, <2>2, <3>1 DEF Databricks!Next, Databricks!Begin, Databricks!Lookup,
           Databricks!OpenSession, Databricks!Statement, Databricks!WarehouseMoves
    <2> QED
      BY <1>1, <2>1, <2>2 DEF Next
  <1>2. IndInv /\ [Next]_allVars =>
          [issued' # issued /\ ~Bypass => seen.kind = "row"]_allVars
    BY <1>1
  <1> QED
    BY Inductive, <1>2, PTL DEF Spec, FailedLookupIsFinal

\* AnswersTellTheTruth: no exit leaves a session open, and a check that answers
\* ok has logged in.
THEOREM AnswersTrue == Spec => []AnswersTellTheTruth
  <1>1. IndInv => AnswersTellTheTruth
    BY DEF IndInv, SessionInv, FigureInv, AnswersTellTheTruth
  <1> QED
    BY Inductive, <1>1, PTL

-----------------------------------------------------------------------------
(***************************************************************************)
(* The figure.  A rate, the price of a credit and a runtime, each no lower   *)
(* than the floor's: the credits of a size are a power of two, the runtime    *)
(* an average of past runs or a tier of the bytes scanned.                    *)
(***************************************************************************)
\* Products and whole quotients keep the order.
LEMMA ProductMonotone ==
  ASSUME NEW a \in Nat, NEW b \in Nat, NEW c \in Nat, NEW d \in Nat, a <= b, c <= d
  PROVE  a * c \in Nat /\ a * c <= b * d
  <1>1. a * c <= b * c /\ b * c <= b * d
    OBVIOUS
  <1> QED
    BY <1>1

LEMMA QuotientAtLeast ==
  ASSUME NEW total \in Nat, NEW n \in Nat \ {0}, NEW least \in Nat, n * least <= total
  PROVE  total \div n \in Nat /\ least <= total \div n
  <1> DEFINE q == total \div n
  <1>1. q \in Nat /\ total < n * (q + 1)
    OBVIOUS
  <1> HIDE DEF q
  <1>2. q + 1 <= least => n * (q + 1) <= n * least
    BY <1>1, ProductMonotone
  <1>3. n * (q + 1) \in Nat /\ n * least \in Nat
    BY <1>1
  <1> QED
    BY <1>1, <1>2, <1>3 DEF q

\* The sums that MapThenSumSet takes of the seconds of runs.
SecondsSum(f, S) ==
  f = [s \in SUBSET S |-> IF s = {} THEN 0 ELSE OneOf(s).seconds + f[Others(s)]]

LEMMA SecondsSumIsSum ==
  ASSUME NEW S, NEW f
  PROVE  SecondsSum(f, S) <=> IsSum(f, [r \in S |-> r.seconds], S)
  <1> DEFINE w == [r \in S |-> r.seconds]
  <1>1. \A s \in SUBSET S : s # {} => w[OneOf(s)] = OneOf(s).seconds
    BY OthersAreFewer
  <1> HIDE DEF w
  <1>2. [s \in SUBSET S |-> IF s = {} THEN 0 ELSE OneOf(s).seconds + f[Others(s)]]
          = [s \in SUBSET S |-> IF s = {} THEN 0 ELSE w[OneOf(s)] + f[Others(s)]]
    BY <1>1
  <1>3. SecondsSum(f, S) <=> IsSum(f, w, S)
    BY <1>2, Zenon DEF SecondsSum, IsSum
  <1> QED
    BY <1>3 DEF w

\* The average of the billed runs is at least the quickest of them.
LEMMA AverageAtLeast ==
  ASSUME NEW runs \in Histories \cup {{}}, Snowflake!RunsOf(runs) # {}
  PROVE  \E r \in Snowflake!RunsOf(runs) :
           /\ r.seconds \in Nat /\ Snowflake!HistoricalRuntime(runs) \in Nat
           /\ r.seconds <= Snowflake!HistoricalRuntime(runs)
  <1> DEFINE S == Snowflake!RunsOf(runs)
             w == [r \in S |-> r.seconds]
             seconds == {r.seconds : r \in S}
             f == CHOOSE it : SecondsSum(it, S)
  <1>1. IsFiniteSet(S) /\ \A r \in S : r.seconds \in Nat
    <2>1. /\ runs \subseteq [same : BOOLEAN, cached : BOOLEAN, seconds : Nat]
          /\ IsFiniteSet(runs)
      BY WarehousesAssumption, FS_EmptySet
    <2> QED
      BY <2>1, FS_Subset DEF Snowflake!RunsOf
  <1>2. \E least \in seconds : \A y \in seconds : least <= y
    <2>1. seconds \in SUBSET Nat /\ seconds # {}
      BY <1>1
    <2> HIDE DEF seconds
    <2> QED
      BY <2>1, LeastNat
  <1>3. PICK r \in S : \A x \in S : r.seconds <= x.seconds
    BY <1>2
  <1>4. Snowflake!HistoricalRuntime(runs) = f[S] \div Cardinality(S)
    <2>1. Snowflake!MapThenSumSet(LAMBDA x : x.seconds, S) = f[S]
      BY DEF Snowflake!MapThenSumSet, Snowflake!MapThenFoldSet, SecondsSum, OneOf, Others
    <2>2. Snowflake!Cardinality(S) = Cardinality(S)
      BY DEF Snowflake!Cardinality, Cardinality, Snowflake!IsFiniteSet, IsFiniteSet
    <2> QED
      BY <2>1, <2>2 DEF Snowflake!HistoricalRuntime
  <1> HIDE DEF S
  <1>5. IsSum(f, w, S)
    <2>1. \E it : IsSum(it, w, S)
      BY <1>1, SumExists
    <2>2. \E it : SecondsSum(it, S)
      BY <2>1, SecondsSumIsSum
    <2> QED
      BY <2>2, SecondsSumIsSum
  <1>6. \A x \in S : w[x] \in Nat /\ r.seconds <= w[x]
    BY <1>1, <1>3
  <1> HIDE DEF f, w
  <1>7. f[S] \in Nat /\ Cardinality(S) * r.seconds <= f[S]
    <2>1. r.seconds \in Nat
      BY <1>1, <1>3
    <2> QED
      BY <1>1, <1>5, <1>6, <2>1, SumType, SumAtLeast
  <1>8. Cardinality(S) \in Nat \ {0}
    BY <1>1, <1>3, FS_CardinalityType, FS_EmptySet
  <1>9. f[S] \div Cardinality(S) \in Nat /\ r.seconds <= f[S] \div Cardinality(S)
    BY <1>1, <1>3, <1>7, <1>8, QuotientAtLeast
  <1> QED
    BY <1>1, <1>3, <1>4, <1>9 DEF S

\* Powers of two, by counting subsets: they grow with the exponent, and double.
LEMMA SubsetsOfAnInterval ==
  ASSUME NEW n \in Nat
  PROVE  /\ IsFiniteSet(SUBSET (1..n))
         /\ Cardinality(SUBSET (1..n)) = 2^n
         /\ 2^n \in Nat \ {0}
  <1>1. IsFiniteSet(1..n) /\ Cardinality(1..n) = n
    BY FS_Interval
  <1>2. IsFiniteSet(SUBSET (1..n)) /\ Cardinality(SUBSET (1..n)) = 2^n
    BY <1>1, FS_SUBSET
  <1>3. {} \in SUBSET (1..n)
    OBVIOUS
  <1>4. Cardinality(SUBSET (1..n)) \in Nat /\ Cardinality(SUBSET (1..n)) # 0
    BY <1>2, <1>3, FS_CardinalityType, FS_EmptySet
  <1> QED
    BY <1>2, <1>4

LEMMA PowersGrow ==
  ASSUME NEW n \in Nat, NEW m \in Nat, n <= m
  PROVE  2^n <= 2^m
  <1>1. SUBSET (1..n) \subseteq SUBSET (1..m)
    OBVIOUS
  <1>2. Cardinality(SUBSET (1..n)) <= Cardinality(SUBSET (1..m))
    BY <1>1, SubsetsOfAnInterval, FS_Subset, Zenon
  <1> QED
    BY <1>2, SubsetsOfAnInterval

LEMMA PowersDouble ==
  ASSUME NEW n \in Nat
  PROVE  2 * 2^n <= 2^(n + 1)
  <1> DEFINE A == SUBSET (1..n)
             B == {s \cup {n + 1} : s \in A}
             f == [s \in A |-> s \cup {n + 1}]
  <1>1. IsFiniteSet(A) /\ Cardinality(A) = 2^n /\ 2^n \in Nat
    BY SubsetsOfAnInterval
  <1>2. f \in Bijection(A, B)
    <2>1. ASSUME NEW s \in A, NEW t \in A, f[s] = f[t] PROVE s = t
      <3>1. n + 1 \notin s /\ n + 1 \notin t
        OBVIOUS
      <3>2. s \cup {n + 1} = t \cup {n + 1}
        BY <2>1
      <3> QED
        BY <3>1, <3>2
    <2>2. f \in [A -> B] /\ \A t \in B : \E s \in A : f[s] = t
      OBVIOUS
    <2> HIDE DEF f, A, B
    <2> QED
      BY <2>1, <2>2, Fun_IsBij
  <1>3. IsFiniteSet(B) /\ Cardinality(B) = 2^n
    <2>1. ExistsBijection(A, B)
      BY <1>2 DEF ExistsBijection
    <2> HIDE DEF A, B
    <2> QED
      BY <1>1, <2>1, FS_Bijection
  <1>4. A \cap B = {} /\ A \cup B \subseteq SUBSET (1..(n + 1))
    <2>1. ASSUME NEW s \in A PROVE n + 1 \notin s /\ s \cup {n + 1} \in SUBSET (1..(n + 1))
      OBVIOUS
    <2>2. A \subseteq SUBSET (1..(n + 1))
      OBVIOUS
    <2>3. ASSUME NEW s \in A PROVE s \notin B
      <3>1. n + 1 \notin s /\ \A t \in B : n + 1 \in t
        BY <2>1
      <3> QED
        BY <3>1
    <2>4. B \subseteq SUBSET (1..(n + 1))
      BY <2>1
    <2> HIDE DEF A, B
    <2> QED
      BY <2>2, <2>3, <2>4
  <1> HIDE DEF A, B
  <1>5. Cardinality(A \cup B) = 2^n + 2^n
    <2>1. Cardinality(A \cup B) = Cardinality(A) + Cardinality(B) - Cardinality(A \cap B)
      BY <1>1, <1>3, FS_Union
    <2>2. Cardinality(A \cap B) = 0
      BY <1>4, FS_EmptySet
    <2> QED
      BY <1>1, <1>3, <2>1, <2>2
  <1>6. Cardinality(A \cup B) <= 2^(n + 1) /\ 2^(n + 1) \in Nat
    <2> DEFINE C == SUBSET (1..(n + 1))
    <2>1. n + 1 \in Nat
      OBVIOUS
    <2>2. IsFiniteSet(C) /\ Cardinality(C) = 2^(n + 1) /\ 2^(n + 1) \in Nat
      BY <2>1, SubsetsOfAnInterval
    <2> HIDE DEF C
    <2>3. A \cup B \in SUBSET C
      BY <1>4 DEF C
    <2> QED
      BY <2>2, <2>3, FS_Subset
  <1> QED
    BY <1>1, <1>5, <1>6

LEMMA PowersInOrder ==
  ASSUME NEW n \in Nat, NEW m \in Nat, n <= m
  PROVE  /\ 2^n \in Nat /\ 2^m \in Nat /\ 2^n <= 2^m
         /\ n < m => 2 * 2^n <= 2^m
  <1>1. 2^n \in Nat /\ 2^m \in Nat
    BY SubsetsOfAnInterval
  <1>2. 2^n <= 2^m
    BY PowersGrow
  <1>3. ASSUME n < m PROVE 2 * 2^n <= 2^m
    <2>1. n + 1 \in Nat /\ n + 1 <= m
      BY <1>3
    <2>2. 2^(n + 1) <= 2^m /\ 2^(n + 1) \in Nat
      BY <2>1, PowersGrow, SubsetsOfAnInterval
    <2>3. 2 * 2^n <= 2^(n + 1)
      BY PowersDouble
    <2> QED
      BY <1>1, <2>2, <2>3
  <1> QED
    BY <1>1, <1>2, <1>3

\* The rates and runtimes keep the order of what they are taken for, Gen2's rate
\* of a size and Gen1's of a larger one that has no Gen2 included.
LEMMA CreditsMonotone ==
  ASSUME NEW size \in Sizes, NEW larger \in Sizes, size <= larger, NEW gen2 \in BOOLEAN
  PROVE  /\ Snowflake!CreditsPerHour(size, gen2) \in Nat
         /\ Snowflake!CreditsPerHour(larger, gen2) \in Nat
         /\ Snowflake!CreditsPerHour(size, gen2) <= Snowflake!CreditsPerHour(larger, gen2)
  <1> DEFINE p == size - 1
             q == larger - 1
             m == 2^p
             n == 2^q
  <1>1. p \in Nat /\ q \in Nat /\ p <= q /\ (p < q \/ size = larger)
    BY WarehousesAssumption
  <1>2. /\ Snowflake!CreditsPerHour(size, gen2) = IF gen2 /\ size \in Gen2Sizes THEN 27 * m ELSE 20 * m
        /\ Snowflake!CreditsPerHour(larger, gen2) = IF gen2 /\ larger \in Gen2Sizes THEN 27 * n ELSE 20 * n
    BY DEF Snowflake!CreditsPerHour
  <1>3. size = larger => m = n
    OBVIOUS
  <1> HIDE DEF p, q
  <1>4. m \in Nat /\ n \in Nat /\ m <= n /\ (p < q => 2 * m <= n)
    BY <1>1, PowersInOrder
  <1> HIDE DEF m, n
  <1> QED
    BY <1>1, <1>2, <1>3, <1>4

LEMMA RuntimesMonotone ==
  ASSUME NEW a \in Nat, NEW b \in Nat, a <= b
  PROVE  ScaleRuntime(a) \in Nat /\ ScaleRuntime(a) <= ScaleRuntime(b)
  <1>1. ASSUME NEW n \in Nat
        PROVE  ScaleRuntime(n) = 30 * (IF n < 10 THEN 1 ELSE IF n < 100 THEN 4
                                       ELSE IF n < 1024 THEN 20 ELSE 100)
    <2>1. CASE n \in 0..9
      BY <2>1 DEF ScaleRuntime, Baseline
    <2>2. CASE n \in 10..99
      BY <2>2 DEF ScaleRuntime, Baseline
    <2>3. CASE n \in 100..1023
      BY <2>3 DEF ScaleRuntime, Baseline
    <2>4. CASE n >= 1024
      BY <2>4 DEF ScaleRuntime, Baseline
    <2> QED
      BY <2>1, <2>2, <2>3, <2>4
  <1> QED
    BY <1>1

\* A bounded set of sizes has a largest member, which Max is.
LEMMA LargestSize ==
  ASSUME NEW known \in SUBSET Nat, known # {}, NEW bound \in Nat, \A b \in known : b < bound
  PROVE  /\ Databricks!Max(known) \in known
         /\ \A b \in known : b <= Databricks!Max(known)
  <1>1. \A b \in known : b <= bound
    OBVIOUS
  <1>2. \E x \in known : \A y \in known : x >= y
    BY <1>1, GreatestNat
  <1> QED
    BY <1>2 DEF Databricks!Max

\* A figure on Snowflake: a rate and a price no lower than the floor's, times
\* the runtime.
LEMMA SnowflakeFloor ==
  ASSUME IndInv, engine = "snowflake", figure # None
  PROVE  /\ Snowflake!RuntimeFor(work.plan, work.runs) # None
         /\ seen.kind \notin {"failed", "region"} => wh[call.pinned].size # 0
         /\ RateFloor \in Nat
         /\ \A seconds \in Nat :
              /\ Snowflake!RuntimeFor(work.plan, work.runs) \in Nat
              /\ seconds <= Snowflake!RuntimeFor(work.plan, work.runs)
              => figure >= RateFloor * seconds
  <1> DEFINE rate    == Snowflake!RateFor(seen, call.asserted)
             price   == Snowflake!PriceFor(call.configured, call.edition)
             runtime == Snowflake!RuntimeFor(work.plan, work.runs)
             size    == IF seen.kind \in {"failed", "region"} THEN call.asserted
                        ELSE wh[call.pinned].size
             gen2    == seen.gen2 /\ seen.cloud /\ seen.kind = "row"
             credits == Snowflake!CreditsPerHour(size, gen2)
  <1>0. \A z \in Sizes : z \in Nat /\ z # 0
    BY WarehousesAssumption
  <1>1. /\ call.asserted \in Sizes
        /\ call.edition \in Nat /\ call.configured \in Nat
    <2>1. call \in Snowflake!Calls /\ call.tool # "check"
      BY DEF IndInv, TypeOK, FigureInv
    <2>2. /\ call.asserted \in Sizes /\ call.edition \in Editions
          /\ call.configured \in Editions
      BY <2>1 DEF Snowflake!Calls, Snowflake!Checks
    <2> QED
      BY <2>2, WarehousesAssumption
  <1>2. rate # None /\ runtime # None /\ figure = rate * price * runtime
    BY DEF IndInv, FigureInv, Snowflake!Figure
  <1>3. price \in Nat /\ call.configured <= price
    BY <1>1 DEF Snowflake!PriceFor
  <1>4. RateFloor = credits * call.configured
    BY DEF RateFloor
  <1>5. seen \in Facts
    BY DEF IndInv, TypeOK
  <1>6. size \in Sizes /\ credits \in Nat /\ rate \in Nat /\ credits <= rate
    <2>1. CASE seen.kind \in {"failed", "region"}
      <3>1. rate = Snowflake!CreditsPerHour(call.asserted, FALSE)
        BY <2>1 DEF Snowflake!RateFor
      <3>2. size = call.asserted /\ gen2 = FALSE
        BY <2>1
      <3>3. Snowflake!CreditsPerHour(call.asserted, FALSE) \in Nat
        <4>1. call.asserted <= call.asserted /\ FALSE \in BOOLEAN
          BY <1>0, <1>1
        <4> QED
          BY <1>1, <4>1, CreditsMonotone
      <3>4. credits = rate
        BY <3>1, <3>2
      <3>5. size \in Sizes /\ rate \in Nat
        BY <1>1, <3>1, <3>2, <3>3
      <3> HIDE DEF size, rate, credits
      <3> QED
        BY <3>4, <3>5
    <2>2. CASE seen.kind \notin {"failed", "region"}
      <3> DEFINE larger == IF seen.size > call.asserted THEN seen.size ELSE call.asserted
      <3>1. seen.kind = "row" /\ seen.size # 0
        BY <1>2, <1>5, <2>2 DEF Snowflake!RateFor, Facts
      <3>2. rate = Snowflake!CreditsPerHour(larger, gen2)
        BY <2>2, <3>1 DEF Snowflake!RateFor
      <3>3. size = seen.size /\ seen.size \in Sizes /\ gen2 \in BOOLEAN
        <4>1. seen.size \in Sizes /\ seen.gen2 \in BOOLEAN /\ seen.cloud \in BOOLEAN
          BY <1>5, <3>1 DEF Facts
        <4>2. wh[call.pinned].size = seen.size
          BY <3>1 DEF IndInv, BindInv
        <4> QED
          BY <2>2, <3>1, <4>1, <4>2
      <3>4. larger \in Sizes /\ seen.size <= larger
        BY <1>0, <1>1, <3>3
      <3> HIDE DEF size, gen2, rate, larger
      <3> QED
        BY <3>2, <3>3, <3>4, CreditsMonotone
    <2> QED
      BY <2>1, <2>2
  <1>7. seen.kind \notin {"failed", "region"} => wh[call.pinned].size # 0
    BY <1>0, <1>6
  <1> HIDE DEF rate, price, runtime, size, gen2, credits
  <1>8. RateFloor \in Nat /\ rate * price \in Nat /\ RateFloor <= rate * price
    BY <1>1, <1>3, <1>4, <1>6, ProductMonotone
  <1>9. ASSUME NEW seconds \in Nat, runtime \in Nat, seconds <= runtime
        PROVE  figure >= RateFloor * seconds
    <2>1. RateFloor * seconds \in Nat /\ RateFloor * seconds <= rate * price * runtime
      BY <1>8, <1>9, ProductMonotone
    <2>2. rate * price * runtime \in Nat
      BY <1>8, <1>9
    <2> QED
      BY <1>2, <2>1, <2>2
  <1> QED
    BY <1>2, <1>7, <1>8, <1>9 DEF runtime

LEMMA SnowflakeNeverBelow ==
  IndInv /\ engine = "snowflake" => NeverPricedBelowPinned
  <1> SUFFICES ASSUME IndInv, engine = "snowflake", figure # None
               PROVE  /\ seen.kind \notin {"failed", "region"} => wh[call.pinned].size # 0
                      /\ RealRuns # {} \/ KnownSizes # {}
                      /\ IF RealRuns # {} THEN \E r \in RealRuns : figure >= RateFloor * r.seconds
                         ELSE \A b \in KnownSizes : figure >= RateFloor * ScaleRuntime(b)
    BY DEF NeverPricedBelowPinned
  <1> DEFINE runtime == Snowflake!RuntimeFor(work.plan, work.runs)
  <1>1. RealRuns = Snowflake!RunsOf(work.runs) /\ work.runs \in Histories \cup {{}}
    BY DEF RealRuns, Snowflake!RunsOf, IndInv, TypeOK
  <1>2. CASE RealRuns # {}
    <2>1. PICK r \in RealRuns :
            /\ r.seconds \in Nat /\ Snowflake!HistoricalRuntime(work.runs) \in Nat
            /\ r.seconds <= Snowflake!HistoricalRuntime(work.runs)
      BY <1>1, <1>2, AverageAtLeast
    <2>2. runtime = Snowflake!HistoricalRuntime(work.runs)
      BY <2>1, WarehousesAssumption DEF Snowflake!RuntimeFor
    <2> QED
      BY <1>2, <2>1, <2>2, SnowflakeFloor
  <1>3. CASE RealRuns = {}
    <2>1. runtime = IF work.plan = {} THEN None
                    ELSE Snowflake!ScaleRuntime(CHOOSE b \in work.plan : TRUE)
      BY <1>1, <1>3 DEF Snowflake!RuntimeFor, Snowflake!HistoricalRuntime
    <2>2. work.plan # {}
      BY <2>1, SnowflakeFloor
    <2>3. PICK b \in Scans : work.plan = {b}
      BY <2>2 DEF IndInv, TypeOK
    <2>4. runtime = ScaleRuntime(b)
      BY <2>1, <2>3 DEF Snowflake!ScaleRuntime, ScaleRuntime, Snowflake!Baseline, Baseline
    <2>5. KnownSizes = {b} /\ b \in Nat
      BY <2>3, WarehousesAssumption DEF KnownSizes
    <2>6. runtime \in Nat
      BY <2>4, <2>5, RuntimesMonotone
    <2>7. figure >= RateFloor * ScaleRuntime(b)
      BY <2>4, <2>6, SnowflakeFloor
    <2> QED
      BY <1>3, <2>5, <2>7, SnowflakeFloor
  <1> QED
    BY <1>2, <1>3

LEMMA DatabricksNeverBelow ==
  IndInv /\ engine = "databricks" => NeverPricedBelowPinned
  <1> SUFFICES ASSUME IndInv, engine = "databricks", figure # None
               PROVE  /\ seen.kind \notin {"failed", "region"} => wh[call.pinned].size # 0
                      /\ RealRuns # {} \/ KnownSizes # {}
                      /\ IF RealRuns # {} THEN \E r \in RealRuns : figure >= RateFloor * r.seconds
                         ELSE \A b \in KnownSizes : figure >= RateFloor * ScaleRuntime(b)
    BY DEF NeverPricedBelowPinned
  <1>0. (\A z \in Sizes : z \in Nat /\ z # 0) /\ None \notin Nat
    BY WarehousesAssumption
  <1> DEFINE rate    == Databricks!RateFor(seen, call.asserted)
             largest == Databricks!MaxSize(work.plan)
             size    == IF seen.kind \in {"failed", "region"} THEN call.asserted
                        ELSE wh[call.pinned].size
  <1>1. call.asserted \in Sizes /\ seen \in Facts /\ seen.kind \in {"failed", "row"}
    <2>1. call \in Databricks!Calls /\ call.tool # "check"
      BY DEF IndInv, TypeOK, FigureInv
    <2>2. call.asserted \in Sizes
      BY <2>1 DEF Databricks!Calls, Databricks!Checks
    <2> QED
      BY <2>2 DEF IndInv, TypeOK
  <1>2. /\ rate # None /\ largest # None
        /\ figure = rate * 7 * Databricks!ScaleRuntime(largest)
    BY DEF IndInv, FigureInv, Databricks!Figure, Databricks!UsdPerDbu
  <1>3. RateFloor = size * 7
    BY DEF RateFloor, Databricks!DbusPerHour, Databricks!UsdPerDbu
  <1>4. size \in Sizes /\ rate \in Nat /\ size <= rate
    <2>1. CASE seen.kind = "failed"
      BY <1>0, <1>1, <2>1 DEF Databricks!RateFor, Databricks!DbusPerHour
    <2>2. CASE seen.kind = "row"
      <3>1. seen.size # 0
        BY <1>2, <2>2 DEF Databricks!RateFor
      <3>2. seen.size \in Sizes
        BY <1>1, <3>1 DEF Facts
      <3>3. wh[call.pinned].size = seen.size
        BY <2>2, <3>1 DEF IndInv, BindInv
      <3>4. rate = IF seen.size > call.asserted THEN seen.size ELSE call.asserted
        BY <2>2, <3>1 DEF Databricks!RateFor, Databricks!DbusPerHour
      <3> QED
        BY <1>0, <1>1, <2>2, <3>2, <3>3, <3>4
    <2> QED
      BY <1>1, <2>1, <2>2
  <1>5. work.plan \subseteq Scans \cup {UnknownSize} /\ work.runs = {}
    BY DEF IndInv, TypeOK
  <1>6. KnownSizes = {b \in work.plan : b < UnknownSize} /\ KnownSizes \subseteq Nat
    <2>1. UnknownSize \in Nat /\ \A b \in Scans : b \in Nat /\ b < UnknownSize
      BY WarehousesAssumption
    <2>2. \A b \in work.plan : (b # UnknownSize <=> b < UnknownSize) /\ b \in Nat
      BY <1>5, <2>1
    <2> QED
      BY <2>2 DEF KnownSizes
  <1>7. KnownSizes # {} /\ largest = Databricks!Max(KnownSizes)
    BY <1>2, <1>6 DEF Databricks!MaxSize
  <1>8. largest \in KnownSizes /\ \A b \in KnownSizes : b <= largest
    <2>1. UnknownSize \in Nat /\ \A b \in KnownSizes : b < UnknownSize
      BY <1>6, WarehousesAssumption
    <2> QED
      BY <1>6, <1>7, <2>1, LargestSize
  <1>9. Databricks!ScaleRuntime(largest) = ScaleRuntime(largest)
    BY DEF Databricks!ScaleRuntime, ScaleRuntime, Databricks!Baseline, Baseline
  <1>10. RealRuns = {}
    BY <1>5 DEF RealRuns
  <1>11. seen.kind \notin {"failed", "region"} => wh[call.pinned].size # 0
    BY <1>0, <1>4
  <1> HIDE DEF rate, largest, size
  <1>12. ASSUME NEW b \in KnownSizes PROVE figure >= RateFloor * ScaleRuntime(b)
    <2>1. /\ ScaleRuntime(b) \in Nat /\ ScaleRuntime(largest) \in Nat
          /\ ScaleRuntime(b) <= ScaleRuntime(largest)
      BY <1>6, <1>8, RuntimesMonotone
    <2>2. size * 7 \in Nat /\ rate * 7 \in Nat /\ size * 7 <= rate * 7
      BY <1>0, <1>4
    <2>3. size * 7 * ScaleRuntime(b) <= rate * 7 * ScaleRuntime(largest)
      BY <2>1, <2>2, ProductMonotone
    <2>4. size * 7 * ScaleRuntime(b) \in Nat /\ rate * 7 * ScaleRuntime(largest) \in Nat
      BY <2>1, <2>2
    <2> QED
      BY <1>2, <1>3, <1>9, <2>3, <2>4
  <1> QED
    BY <1>7, <1>10, <1>11, <1>12

\* NeverPricedBelowPinned, for every rate-table size, edition, history and plan: a
\* dollar figure of explain_estimate is never below the pinned warehouse's cost.
THEOREM NeverBelowPinned == Spec => []NeverPricedBelowPinned
  <1>1. IndInv => NeverPricedBelowPinned
    BY SnowflakeNeverBelow, DatabricksNeverBelow DEF IndInv, TypeOK
  <1> QED
    BY Inductive, <1>1, PTL

=============================================================================
