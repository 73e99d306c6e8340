-------------------------- MODULE SnowflakeEstimate --------------------------
(***************************************************************************)
(* engines/snowflake.py, explain_estimate and check_credentials: the session,*)
(* the SHOW WAREHOUSES lookup that binds the rate to the pinned warehouse,    *)
(* the guard that keeps the read-only tools from resuming it, and the figure. *)
(***************************************************************************)
EXTENDS Warehouses

-----------------------------------------------------------------------------
\* pricing/snowflake_pricing.py, credits_per_hour, in twentieths of a credit:
\* each size doubles the one before it, and Gen2 is 1.35 times Gen1 where it
\* exists.
CreditsPerHour(size, gen2) ==
  IF gen2 /\ size \in Gen2Sizes THEN 27 * 2^(size - 1) ELSE 20 * 2^(size - 1)

\* _rate_for: None where a row answered that is not the priceable pinned
\* warehouse; the asserted size at Gen1 where the lookup failed; otherwise the
\* larger size, at the observed generation when the provider is known too.
RateFor(facts, asserted) ==
  CASE facts.kind \in {"failed", "region"} -> CreditsPerHour(asserted, FALSE)
    [] facts.kind \in {"unsafe", "unresolved"} \/ (facts.kind = "row" /\ facts.size = 0) -> None
    [] OTHER -> CreditsPerHour(IF facts.size > asserted THEN facts.size ELSE asserted,
                               facts.gen2 /\ facts.cloud)

\* Mutant: the caller's edition is taken at its word.
AssertedPrice(configured, asserted) == asserted

\* _price_for: the edition argument can only raise the configured price.
PriceFor(configured, asserted) == IF configured > asserted THEN configured ELSE asserted

\* Mutant: results from the cache are averaged in.
AllRunsOf(runs) == {r \in runs : r.same}

\* The rows of QUERY_HISTORY that count: this text, and not from the cache.
RunsOf(runs) == {r \in runs : r.same /\ ~r.cached}

\* _lookup_historical_runtime, in whole seconds
HistoricalRuntime(runs) ==
  IF RunsOf(runs) = {} THEN None
  ELSE MapThenSumSet(LAMBDA r : r.seconds, RunsOf(runs)) \div Cardinality(RunsOf(runs))

\* Mutant: a missing size stands for the baseline.
RuntimeOrBaseline(plan, runs) ==
  IF HistoricalRuntime(runs) # None THEN HistoricalRuntime(runs)
  ELSE IF plan = {} THEN Baseline ELSE ScaleRuntime(CHOOSE b \in plan : TRUE)

\* _runtime_for: a past run of the same text, or else the plan's one size; a
\* size that is no count of bytes (plan = {}) gives none.
RuntimeFor(plan, runs) ==
  IF HistoricalRuntime(runs) # None THEN HistoricalRuntime(runs)
  ELSE IF plan = {} THEN None ELSE ScaleRuntime(CHOOSE b \in plan : TRUE)

\* Mutant: a failed region lookup is followed by the history read.
HistoryAfterFailure ==
  Bypass \/ (seen.kind \in {"row", "region"} /\ seen.up /\ call.named)

\* _estimate_guard's history_allowed
HistoryAllowed ==
  Bypass \/ (seen.kind = "row" /\ seen.up /\ call.named)

-----------------------------------------------------------------------------
\* explain_estimate starts here; the session, its role and its statement
\* timeout are _connect's.  Arguments that do not validate end the call too.
Connect ==
  /\ pc = "connect"
  /\ \/ pc' = "use" /\ conn' = "open" /\ UNCHANGED result
     \/ End(Failure)
  /\ UNCHANGED <<call, wh, seen, moved, issued, woken, work, figure>>

\* USE WAREHOUSE, then EXPLAIN or straight to the credentials detail, whose
\* opt-in skips the lookup.  None of these is gated.
UseWarehouse ==
  /\ pc = "use"
  /\ \/ /\ pc' = CASE call.tool # "check"              -> "explain"
                   [] call.tool = "check" /\ call.optin -> "context"
                   [] OTHER                            -> "show"
        /\ UNCHANGED <<conn, result>>
     \/ End(Failure)
  /\ UNCHANGED <<call, wh, seen, moved, issued, woken, work, figure>>

Explain ==
  /\ pc = "explain"
  /\ \/ /\ \E plan \in {{}} \cup {{b} : b \in Scans} : work' = [work EXCEPT !.plan = plan]
        /\ pc' = "show"
        /\ UNCHANGED <<conn, result>>
     \/ End(Failure) /\ UNCHANGED work
  /\ UNCHANGED <<call, wh, seen, moved, issued, woken, figure>>

\* What SHOW WAREHOUSES LIKE lists: every spelling of the name it may see.
Listed == {n \in Names : wh[n].visible /\ Stored[n] = Stored[call.pinned]}

\* The row of a warehouse; a column may be NULL or hold unknown text.
RowOf(n) ==
  {[kind |-> "row", up |-> u, size |-> s, gen2 |-> g, cloud |-> FALSE] :
     u \in {wh[n].up, FALSE}, s \in {wh[n].size, 0}, g \in {wh[n].gen2, FALSE}}

\* Mutant: the row is matched without regard to case.
MatchAnySpelling ==
  IF call.pinned \in Unsafe THEN {[Unseen EXCEPT !.kind = "unsafe"]}
  ELSE IF call.pinned = None THEN {Unseen}
  ELSE IF Listed = {} THEN {Unseen}
  ELSE {Unseen} \cup UNION {RowOf(n) : n \in Listed}

\* _show_warehouse_row, with CURRENT_WAREHOUSE() when no argument names the
\* warehouse.  Exactly the row with the pinned warehouse's stored name binds.
Row ==
  IF call.pinned \in Unsafe THEN {Unseen, [Unseen EXCEPT !.kind = "unsafe"]}
  ELSE IF call.pinned = None \/ Listed = {} THEN {Unseen}
  ELSE IF call.pinned \in Listed THEN {Unseen} \cup RowOf(call.pinned)
  ELSE {Unseen, [Unseen EXCEPT !.kind = "unresolved"]}

\* _compute_lookups_allowed on the row's state
Started(facts) == facts.kind = "row" /\ facts.up

\* The lookup, and where its outcome sends the call: an estimate looks up the
\* region of a row that passes the guard, a check runs its context SELECT.
ShowWarehouse ==
  /\ pc = "show"
  /\ seen' \in Row
  /\ moved' = FALSE
  /\ IF call.tool = "check"
     THEN IF Started(seen') THEN pc' = "context" /\ UNCHANGED <<conn, result>>
                            ELSE End("ok")
     ELSE /\ pc' = IF Started(seen') \/ (Bypass /\ seen'.kind = "row")
                   THEN "region" ELSE "history"
          /\ UNCHANGED <<conn, result>>
  /\ UNCHANGED <<call, wh, issued, woken, work, figure>>

\* SELECT CURRENT_REGION(); a failure discards the row for pricing.
Region ==
  /\ pc = "region"
  /\ Issue("region")
  /\ seen' \in {[seen EXCEPT !.cloud = TRUE], seen, [seen EXCEPT !.kind = "region"]}
  /\ pc' = "history"
  /\ UNCHANGED <<call, conn, moved, work, figure, result>>

\* explain_estimate's product; None where there is no rate or no runtime.
Figure(facts, plan, runs) ==
  LET rate    == RateFor(facts, call.asserted)
      seconds == RuntimeFor(plan, runs)
  IN IF rate = None \/ seconds = None THEN None
     ELSE rate * PriceFor(call.configured, call.edition) * seconds

\* The QUERY_HISTORY read, if allowed, may list runs, or fail and list none.
History ==
  /\ pc = "history"
  /\ \E runs \in Histories \cup {{}} :
       /\ IF HistoryAllowed THEN Issue("history")
                            ELSE runs = {} /\ UNCHANGED <<wh, issued, woken>>
       /\ work' = [work EXCEPT !.runs = runs]
       /\ figure' = Figure(seen, work.plan, runs)
  /\ End("estimate")
  /\ UNCHANGED <<call, seen, moved>>

\* _session_context_detail
Context ==
  /\ pc = "context"
  /\ Issue("context")
  /\ End("ok") \/ End("not_ok")
  /\ UNCHANGED <<call, seen, moved, work, figure>>

-----------------------------------------------------------------------------
\* edition: the argument; configured: SNOWFLAKE_EDITION.  A run does not read the
\* opt-in.
Calls == Checks \cup
  [tool : {"estimate", "run"}, named : BOOLEAN, pinned : Names \cup {None},
   asserted : Sizes, edition : Editions, configured : Editions, optin : BOOLEAN]

\* Another spelling of the pinned name; the LIKE of the lookup lists it too.
Siblings == IF call.pinned = None THEN {}
            ELSE {n \in Names \ {call.pinned} : Stored[n] = Stored[call.pinned]}

\* The pinned warehouse is the upper-cased argument, or whatever the session's
\* default is.  A sibling is running: the case in which taking it for the pinned
\* warehouse would do most harm.
Init ==
  /\ pc = "connect"
  /\ call \in {c \in Calls :
                /\ c.named => c.pinned \in Names \ Unsafe /\ Stored[c.pinned] = c.pinned
                /\ c.tool = "run" => ~c.optin}
  /\ wh \in {w \in [Names -> Kinds] :
               /\ \A n \in Names : w[n].gen2 => w[n].size \in Gen2Sizes
               /\ \A n \in Siblings : w[n].up /\ ~w[n].gen2 /\ w[n].size # 0
               /\ \A n \in Names \ Siblings : n # call.pinned => w[n] = Elsewhere
               /\ \A n \in Unsafe : w[n].visible}
  /\ InitCall

Next ==
  \/ Connect \/ UseWarehouse \/ Explain \/ ShowWarehouse \/ Region \/ History
  \/ Context \/ WarehouseMoves

=============================================================================
