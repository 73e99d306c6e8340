----------------------------- MODULE Warehouses -----------------------------
(***************************************************************************)
(* What the estimates and credential checks of Snowflake and Databricks      *)
(* share: the warehouses, which start and stop whenever somebody else says   *)
(* so, the call, what it has observed of its warehouse, and what it has done *)
(* to it.  A statement that needs compute starts a stopped warehouse; which  *)
(* statements those are is the code's own list (DECISIONS.md 20).            *)
(***************************************************************************)
EXTENDS Naturals, FiniteSetsExt

CONSTANTS
  Sizes,       \* the sizes the rate tables know, as 1..n in their order
  Gen2Sizes,   \* those that Snowflake's Gen2 table has
  Names,       \* warehouse names
  Stored,      \* the stored name each unquoted spelling resolves to
  Unsafe,      \* names outside the allowlist of names (_WAREHOUSE_NAME_RE)
  None,        \* no name, no figure, or no runtime
  Scans,       \* sizes of a scan that a plan may state, in GiB
  UnknownSize, \* what a plan states for a relation without statistics: 2^63 - 1
  Histories,   \* what QUERY_HISTORY may list
  Editions     \* the editions, as USD per credit

ASSUME WarehousesAssumption ==
  /\ Scans \subseteq Nat /\ UnknownSize \in Nat /\ \A b \in Scans : b < UnknownSize
  /\ \A runs \in Histories :
       IsFiniteSet(runs) /\ runs \subseteq [same : BOOLEAN, cached : BOOLEAN, seconds : Nat]
  /\ Editions \subseteq Nat \ {0}
  /\ Sizes \subseteq Nat \ {0} /\ Gen2Sizes \subseteq Sizes
  /\ None \notin Names \cup Nat /\ Unsafe \subseteq Names
  /\ Stored \in [Names -> Names]

VARIABLES
  pc,      \* the next step of the call
  call,    \* its arguments and the operator's opt-in
  wh,      \* the warehouses
  conn,    \* the connection: "none", "open" or "closed"
  seen,    \* what the lookup returned
  moved,   \* the warehouse started or stopped after it was looked up
  issued,  \* the gated statements issued so far: "region", "history", "context", "session"
  woken,   \* one of them started a stopped warehouse
  work,    \* what is known of the query: the sizes in its plan, and its past runs
  figure,  \* the dollar figure, or None
  result   \* "none", "estimate", "refused", "ok", "not_ok" or "raised"

vars == <<pc, call, wh, conn, seen, moved, issued, woken, work, figure, result>>

-----------------------------------------------------------------------------
\* A call's tool: "estimate" and "check" are the read-only tools, "run" is the
\* estimate that run_query_bounded takes with allow_warehouse_wake.  named: the
\* caller gave the warehouse argument.  pinned: the warehouse the session will
\* use.  A check has no size and no edition.
Checks == [tool : {"check"}, named : BOOLEAN, pinned : Names \cup {None}, optin : BOOLEAN]

\* size 0: a type or a size no rate table has.  visible: to the caller's role.
Kinds == [up : BOOLEAN, visible : BOOLEAN, size : Sizes \cup {0}, gen2 : BOOLEAN]

\* A warehouse that no lookup of this call can list.
Elsewhere == [up |-> TRUE, visible |-> TRUE, size |-> 0, gen2 |-> FALSE]

\* The lookup's outcomes: a "row"; "unresolved" and "unsafe", which name another
\* warehouse or none; "failed"; and "region", a row whose region lookup failed.
Unseen == [kind |-> "failed", up |-> FALSE, size |-> 0, gen2 |-> FALSE, cloud |-> FALSE]

\* allow_resume, or not (allow_warehouse_wake or env_opt_in) in the guard
Bypass == call.tool = "run" \/ call.optin

InitCall ==
  /\ conn = "none"
  /\ seen = Unseen
  /\ moved = FALSE
  /\ issued = {}
  /\ woken = FALSE
  /\ work = [plan |-> {}, runs |-> {}]
  /\ figure = None
  /\ result = "none"

-----------------------------------------------------------------------------
\* _ASSUMED_RUNTIME_HOURS, in seconds, of both engines
Baseline == 30

\* pricing/runtime_scaling.py, scale_runtime_hours
ScaleRuntime(gib) ==
  Baseline * CASE gib \in 0..9      -> 1
               [] gib \in 10..99    -> 4
               [] gib \in 100..1023 -> 20
               [] OTHER            -> 100

-----------------------------------------------------------------------------
\* A gated statement reaches the warehouse, whatever becomes of its answer.
Issue(statement) ==
  /\ issued' = issued \cup {statement}
  /\ woken' = (woken \/ \E n \in Names : n = call.pinned /\ ~wh[n].up)
  /\ wh' = [n \in Names |-> [wh[n] EXCEPT !.up = @ \/ n = call.pinned]]

\* Mutant: an exception skips the close.
EndLeaking(r) ==
  /\ pc' = "done"
  /\ result' = r
  /\ conn' = IF conn = "open" /\ r # "raised" THEN "closed" ELSE conn

\* The call ends and its finally clause closes the connection it opened.
End(r) ==
  /\ pc' = "done"
  /\ result' = r
  /\ conn' = IF conn = "open" THEN "closed" ELSE conn

\* Mutant: the handler of check_credentials answers ok.
SwallowedFailure == IF call.tool = "check" THEN "ok" ELSE "raised"

\* What an exception is to the caller: check_credentials reports it as data.
Failure == IF call.tool = "check" THEN "not_ok" ELSE "raised"

\* Auto-suspend, auto-resume by somebody else's query, an operator.
WarehouseMoves ==
  /\ pc # "done"
  /\ \E n \in Names :
       /\ n = call.pinned
       /\ wh' = [wh EXCEPT ![n].up = ~@]
  /\ moved' = TRUE
  /\ UNCHANGED <<pc, call, conn, seen, issued, woken, work, figure, result>>

=============================================================================
