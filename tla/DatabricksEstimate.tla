------------------------- MODULE DatabricksEstimate -------------------------
(***************************************************************************)
(* engines/databricks.py, explain_estimate and check_credentials: the        *)
(* warehouse of DATABRICKS_HTTP_PATH is looked up through the control plane,  *)
(* and a session, which starts it, is only opened when it is running.         *)
(***************************************************************************)
EXTENDS Warehouses

\* pricing/databricks_pricing.py, dbus_per_hour, by the order of the sizes.
DbusPerHour(size) == size

\* _rate_for: no rate for a warehouse that is not Serverless or whose size the
\* table lacks; the asserted rate if the lookup failed; otherwise the larger.
RateFor(facts, asserted) ==
  CASE facts.kind = "failed" -> DbusPerHour(asserted)
    [] facts.kind = "row" /\ facts.size = 0 -> None
    [] OTHER -> IF DbusPerHour(facts.size) > DbusPerHour(asserted)
                THEN DbusPerHour(facts.size) ELSE DbusPerHour(asserted)

\* SERVERLESS_USD_PER_DBU, in tenths of a dollar
UsdPerDbu == 7

\* Mutant: a relation without statistics counts as one with.
SizeOfAnyLeaf(plan) == IF plan = {} THEN None ELSE Max(plan)

\* _parse_max_size_in_bytes: the largest size in the plan that is known.
MaxSize(plan) ==
  LET known == {b \in plan : b < UnknownSize}
  IN IF known = {} THEN None ELSE Max(known)

\* explain_estimate's product
Figure(facts, plan) ==
  LET rate == RateFor(facts, call.asserted)
  IN IF rate = None \/ MaxSize(plan) = None THEN None
     ELSE rate * UsdPerDbu * ScaleRuntime(MaxSize(plan))

\* Mutant: a warehouse that could not be looked up passes for running.
NotKnownStopped(facts) == facts.kind = "failed" \/ facts.up

\* _warehouse_is_running
Running(facts) == facts.kind = "row" /\ facts.up

-----------------------------------------------------------------------------
\* The arguments and the configuration; an opted-in check skips the lookup.
Begin ==
  /\ pc = "connect"
  /\ \/ pc' = (IF call.tool = "check" /\ call.optin THEN "session" ELSE "lookup")
        /\ UNCHANGED <<conn, result>>
     \/ End(Failure)
  /\ UNCHANGED <<call, wh, seen, moved, issued, woken, work, figure>>

\* What GET /api/2.0/sql/warehouses/{id} answers: nothing, or a row, whose
\* state and size may be missing.
Answers ==
  {Unseen} \cup
  {[kind |-> "row", up |-> u, size |-> s, gen2 |-> FALSE, cloud |-> FALSE] :
     u \in {wh[call.pinned].up, FALSE}, s \in {wh[call.pinned].size, 0}}

\* Mutant: the refusal is built and not returned.
RefuseAndContinue ==
  /\ pc = "lookup"
  /\ seen' \in Answers
  /\ moved' = FALSE
  /\ pc' = "session"
  /\ result' = IF Bypass \/ Running(seen') THEN result ELSE "refused"
  /\ UNCHANGED <<call, wh, conn, issued, woken, work, figure>>

\* _lookup_warehouse and the guard.  A refusal opens no session.
Lookup ==
  /\ pc = "lookup"
  /\ seen' \in Answers
  /\ moved' = FALSE
  /\ IF Bypass \/ Running(seen')
     THEN pc' = "session" /\ UNCHANGED <<conn, result>>
     ELSE End(IF call.tool = "check" THEN "not_ok" ELSE "refused")
  /\ UNCHANGED <<call, wh, issued, woken, work, figure>>

\* _connect: the session starts the warehouse, even if it fails to open.
OpenSession ==
  /\ pc = "session"
  /\ Issue("session")
  /\ \/ pc' = "statement" /\ conn' = "open" /\ UNCHANGED result
     \/ End(Failure)
  /\ UNCHANGED <<call, seen, moved, work, figure>>

\* EXPLAIN COST, whose plan may have no size, or SELECT current_user().
Statement ==
  /\ pc = "statement"
  /\ \/ /\ call.tool # "check"
        /\ \E plan \in SUBSET (Scans \cup {UnknownSize}) :
             /\ work' = [work EXCEPT !.plan = plan]
             /\ figure' = Figure(seen, plan)
        /\ End("estimate")
     \/ call.tool = "check" /\ End("ok") /\ UNCHANGED <<work, figure>>
     \/ End(Failure) /\ UNCHANGED <<work, figure>>
  /\ UNCHANGED <<call, wh, seen, moved, issued, woken>>

-----------------------------------------------------------------------------
\* The warehouse argument is a no-op: there is one warehouse, the configured one.
Calls == {c \in Checks : ~c.named} \cup
  [tool : {"estimate", "run"}, named : {FALSE}, pinned : Names, asserted : Sizes, optin : BOOLEAN]

Init ==
  /\ pc = "connect"
  /\ call \in {c \in Calls : c.pinned # None /\ (c.tool = "run" => ~c.optin)}
  /\ wh \in {w \in [Names -> Kinds] : \A n \in Names :
               /\ ~w[n].gen2 /\ w[n].visible
               /\ n # call.pinned => w[n] = Elsewhere}
  /\ InitCall

Next == Begin \/ Lookup \/ OpenSession \/ Statement \/ WarehouseMoves

=============================================================================
