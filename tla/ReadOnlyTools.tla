---------------------------- MODULE ReadOnlyTools ----------------------------
(***************************************************************************)
(* estimate_query_cost and check_credentials on the two engines whose         *)
(* sessions run on a warehouse: one call on either of them.                   *)
(***************************************************************************)
EXTENDS Warehouses

VARIABLE engine   \* the argument of the tool

Snowflake  == INSTANCE SnowflakeEstimate
Databricks == INSTANCE DatabricksEstimate

allVars == <<engine, vars>>

Init ==
  \/ engine = "snowflake"  /\ Snowflake!Init
  \/ engine = "databricks" /\ Databricks!Init

Next ==
  /\ UNCHANGED engine
  /\ \/ engine = "snowflake"  /\ Snowflake!Next
     \/ engine = "databricks" /\ Databricks!Next

Spec == Init /\ [][Next]_allVars

-----------------------------------------------------------------------------
\* DECISIONS.md 20: a read-only tool starts no warehouse.  It may only happen in
\* the window between the state's read and its use: the warehouse was observed
\* running, and has stopped since.  Neither an unreadable state nor a sibling's
\* will do.
OnlyARaceWakes == woken /\ ~Bypass => seen.kind \in {"row", "region"} /\ seen.up /\ moved

\* DECISIONS.md 20: a lookup that failed on this session is not followed by
\* another gated statement, unless the operator opted in.
FailedLookupIsFinal ==
  [][issued' # issued /\ ~Bypass => seen.kind = "row"]_allVars

\* The rate that a warehouse of this size has to be priced at: Gen2's when the
\* call knew the generation and the provider; the caller's word for a lookup that
\* failed as a whole.
RateFloor ==
  LET size == IF seen.kind \in {"failed", "region"} THEN call.asserted
              ELSE wh[call.pinned].size
  IN IF engine = "databricks" THEN Databricks!DbusPerHour(size) * Databricks!UsdPerDbu
     ELSE Snowflake!CreditsPerHour(size, seen.gen2 /\ seen.cloud /\ seen.kind = "row")
            * call.configured

\* The sizes the plan knows, and the runs that were billed.
KnownSizes == work.plan \ {UnknownSize}
RealRuns   == {r \in work.runs : r.same /\ ~r.cached}

\* DECISIONS.md 5 and 19: whatever the caller asserts, and whichever other
\* warehouses the lookup lists, a dollar figure is never below what the pinned
\* warehouse costs, in the operator's edition, for the quickest billed run of the
\* query or for the largest scan in its plan.  There is none for a warehouse
\* nobody has a rate for, nor for a query nothing is known about.
NeverPricedBelowPinned ==
  figure # None =>
    /\ seen.kind \notin {"failed", "region"} => wh[call.pinned].size # 0
    /\ RealRuns # {} \/ KnownSizes # {}
    /\ IF RealRuns # {} THEN \E r \in RealRuns : figure >= RateFloor * r.seconds
       ELSE \A b \in KnownSizes : figure >= RateFloor * ScaleRuntime(b)

\* A check answers ok only if it logged in, and a refusal of the guard comes
\* without a session and without a figure.  No exit, by an exception at any step
\* or by a refusal, leaves a session open to keep the warehouse from suspending.
AnswersTellTheTruth ==
  /\ pc = "done" => conn # "open"
  /\ result = "ok" => conn = "closed" /\ (engine = "databricks" => "session" \in issued)
  /\ result = "refused" => conn = "none" /\ issued = {} /\ figure = None

=============================================================================
