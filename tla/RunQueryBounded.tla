-------------------------- MODULE RunQueryBounded --------------------------
(***************************************************************************)
(* One call of tools/run_query_bounded.py: the gates, the estimate, the two *)
(* caps checked against it, the cap BigQuery is asked to enforce, the        *)
(* dispatch and the answer.  The estimate is that of the engine; BigQuery's  *)
(* dry run is modelled in full, those of Snowflake and Databricks by the     *)
(* figures they may come up with.                                            *)
(*                                                                         *)
(* Money is counted in the price of one byte, so a dollar cap and a byte     *)
(* count are compared directly; a dollar figure is rounded to a multiple of  *)
(* MicroUsd, as round(..., 6) does.  The data behind the query may change    *)
(* between the estimate and the run.                                         *)
(***************************************************************************)
EXTENDS Integers, FiniteSetsExt

CONSTANTS
  Sizes,        \* what a query may process, in bytes
  UsdCaps,      \* the finite values of max_estimated_cost_usd
  ByteCaps,     \* the values of max_bytes_billed, in range or not
  Figures,      \* the dollar figures of the Snowflake and Databricks estimates
  MicroUsd,     \* a millionth of a dollar, in bytes
  MiB,          \* the step of totalBytesBilled
  MinBilled,    \* _MIN_MAXIMUM_BYTES_BILLED: ten MiB
  Int64Max,     \* _INT64_MAX
  None,         \* Python's None
  NaN, Inf      \* float("nan"), float("inf")

ASSUME RunQueryBoundedAssumption ==
  /\ Sizes \subseteq Nat /\ UsdCaps \subseteq Nat
  /\ ByteCaps \subseteq Nat /\ Figures \subseteq Nat
  /\ MicroUsd \in Nat /\ MicroUsd % 2 = 1  \* no figure is half way between two
  /\ MiB \in Nat \ {0}
  /\ MinBilled \in Nat \ {0} /\ MinBilled % MiB = 0
  /\ Int64Max \in Nat /\ Int64Max >= MinBilled
  /\ None \notin Nat /\ NaN \notin Nat /\ Inf \notin Nat

VARIABLES
  pc,         \* the next step of run_query_bounded
  call,       \* its arguments
  processes,  \* what the query would process if it ran now
  estimate,   \* the CostEstimate
  attached,   \* effective_max_bytes_billed
  derived,    \* byte_cap_derived_from_cost_cap
  ran,        \* the warehouse ran the statement
  billed,     \* totalBytesBilled, on BigQuery
  answer      \* the BoundedQueryResult, or the exception

vars == <<pc, call, processes, estimate, attached, derived, ran, billed, answer>>

-----------------------------------------------------------------------------
RoundUp(n) == ((n + MiB - 1) \div MiB) * MiB

\* totalBytesBilled, like every count of the API, is an int64.
ASSUME BilledFitsInt64 == \A bytes \in Sizes : RoundUp(bytes) <= Int64Max

\* totalBytesBilled: whole MiB, ten at least, nothing for a query that reads
\* nothing.
Billed(bytes) == IF bytes = 0 THEN 0 ELSE Max({RoundUp(bytes), MinBilled})

\* round(usd, 6)
RoundUsd(usd) == ((usd + MicroUsd \div 2) \div MicroUsd) * MicroUsd

\* Mutant: no clamp to what the API accepts.
UnclampedDerivedCap(usd) == Max({RoundUp(usd), MinBilled})

\* Mutant: the derived cap is not rounded up.
UnroundedDerivedCap(usd) == Min({Max({usd, MinBilled}), Int64Max})

\* cost_cap_to_max_bytes_billed
CostCapToMaxBytesBilled(usd) ==
  IF usd >= Int64Max THEN Int64Max
  ELSE Min({Max({RoundUp(usd), MinBilled}), Int64Max})

-----------------------------------------------------------------------------
Arguments ==
  [engine : {"bigquery", "snowflake", "databricks"},
   textPasses : BOOLEAN,    \* the statement and read gates, max_rows in range
   usdCap : UsdCaps \cup {None, NaN, Inf},
   byteCap : ByteCaps \cup {None}]

NoEstimate == [bytes |-> None, usd |-> None, tier |-> "HEURISTIC"]
NoAnswer   == [status |-> "none"]

Init ==
  /\ pc = "validate"
  /\ call \in Arguments
  /\ processes \in Sizes
  /\ estimate = NoEstimate
  /\ attached = None
  /\ derived = FALSE
  /\ ran = FALSE
  /\ billed = 0
  /\ answer = NoAnswer

\* Somebody writes to the tables the query reads, or changes a policy on them.
DataChange ==
  /\ pc # "done"
  /\ processes' \in Sizes
  /\ UNCHANGED <<pc, call, estimate, attached, derived, ran, billed, answer>>

Raise(error) ==
  /\ pc' = "done"
  /\ answer' = [status |-> "raised", error |-> error]

Refuse(reason, by) ==
  /\ pc' = "done"
  /\ answer' = [status |-> "refused", executed |-> FALSE, reason |-> reason, by |-> by]

-----------------------------------------------------------------------------
\* Everything that raises before the estimate.
Validate ==
  /\ pc = "validate"
  /\ IF /\ call.textPasses
        /\ call.usdCap # NaN
        /\ call.byteCap # None => call.byteCap \in 1..Int64Max
     THEN pc' = "estimate" /\ UNCHANGED answer
     ELSE Raise("invalid")
  /\ UNCHANGED <<call, processes, estimate, attached, derived, ran, billed>>

\* What BigQuery may report for a dry run, by its own word on the accuracy.
\* Row-level security reports 0 whatever the query processes.
DryRunReports ==
  [bytes : {processes}, accuracy : {"PRECISE"}, tables : {TRUE}]
    \cup [bytes : {s \in Sizes : s >= processes}, accuracy : {"UPPER_BOUND"}, tables : {TRUE}]
    \cup [bytes : {s \in Sizes : s <= processes}, accuracy : {"LOWER_BOUND"}, tables : {TRUE}]
    \cup [bytes : Sizes, accuracy : {"UNKNOWN"}, tables : {TRUE}]
    \cup [bytes : {0}, accuracy : {"PRECISE"}, tables : {TRUE}]
    \cup {[bytes |-> 0, accuracy |-> "PRECISE", tables |-> FALSE] : s \in {processes} \cap {0}}

\* The figure promises no bound: BigQuery calls it a floor, or it is the 0 of a
\* statement that reads tables, as row-level security reports it.
Uninformative(report) ==
  report.accuracy = "LOWER_BOUND" \/ (report.bytes = 0 /\ report.tables)

\* BQ_ACCURACY_TO_TIER, and what dry_run makes of it.
Tier(report) ==
  IF Uninformative(report) THEN "HEURISTIC"
  ELSE IF report.accuracy = "PRECISE" THEN "PRECISE" ELSE "UPPER_BOUND"

\* Mutant: dry_run before #96, which priced whatever figure came back.
PricedDryRun(report, billing) ==
  [bytes |-> report.bytes, tier |-> Tier(report),
   usd |-> IF billing = "on_demand" THEN RoundUsd(report.bytes) ELSE None]

\* dry_run: an uninformative figure is not priced, nor is one for a project with
\* reservations or whose reservations could not be read.
DryRun(report, billing) ==
  [bytes |-> report.bytes, tier |-> Tier(report),
   usd |-> IF ~Uninformative(report) /\ billing = "on_demand"
           THEN RoundUsd(report.bytes) ELSE None]

\* estimate_query_cost, or the error of its engine.
EstimateQueryCost ==
  /\ pc = "estimate"
  /\ \/ /\ call.engine = "bigquery"
        /\ \E report \in DryRunReports, billing \in {"on_demand", "capacity", "check_failed"} :
             estimate' = DryRun(report, billing)
        /\ pc' = "costGate"
        /\ UNCHANGED answer
     \/ /\ call.engine # "bigquery"
        /\ estimate' \in [bytes : Sizes \cup {None}, usd : Figures \cup {None},
                         tier : {IF call.engine = "snowflake" THEN "UPPER_BOUND" ELSE "HEURISTIC"}]
        /\ pc' = "costGate"
        /\ UNCHANGED answer
     \/ Raise("estimate") /\ UNCHANGED estimate
  /\ UNCHANGED <<call, processes, attached, derived, ran, billed>>

\* estimate > cap, for every cap a call may carry; a comparison with NaN is
\* false and no figure is over infinity.
Over(figure, cap) == cap \notin {NaN, Inf} /\ figure > cap

\* The dollar gate refuses without a figure and above the cap.
CostGate ==
  /\ pc = "costGate"
  /\ IF call.usdCap # None /\ (estimate.usd = None \/ Over(estimate.usd, call.usdCap))
     THEN Refuse("cost_cap_exceeded", "gate")
     ELSE pc' = "byteGate" /\ UNCHANGED answer
  /\ UNCHANGED <<call, processes, estimate, attached, derived, ran, billed>>

\* The byte gate, likewise.
ByteGate ==
  /\ pc = "byteGate"
  /\ IF call.byteCap # None /\ (estimate.bytes = None \/ estimate.bytes > call.byteCap)
     THEN Refuse("byte_cap_exceeded", "gate")
     ELSE pc' = "derive" /\ UNCHANGED answer
  /\ UNCHANGED <<call, processes, estimate, attached, derived, ran, billed>>

\* Mutant: the caller's byte cap is raised to the derived one.
RaiseCap ==
  /\ pc = "derive"
  /\ LET usd == call.usdCap
     IN IF call.engine = "bigquery" /\ usd \notin {None, NaN, Inf}
        THEN attached' = CostCapToMaxBytesBilled(usd) /\ derived' = TRUE
        ELSE attached' = call.byteCap /\ derived' = FALSE
  /\ pc' = "beforeExecute"
  /\ UNCHANGED <<call, processes, estimate, ran, billed, answer>>

\* Mutant: the origin of the effective cap is not tracked when it is lowered.
ForgetOrigin ==
  /\ pc = "derive"
  /\ LET usd == call.usdCap
         cap == CostCapToMaxBytesBilled(usd)
     IN IF call.engine = "bigquery" /\ usd \notin {None, NaN, Inf}
        THEN /\ attached' = IF call.byteCap = None THEN cap ELSE Min({cap, call.byteCap})
             /\ derived' = TRUE
        ELSE attached' = call.byteCap /\ derived' = FALSE
  /\ pc' = "beforeExecute"
  /\ UNCHANGED <<call, processes, estimate, ran, billed, answer>>

\* effective_max_bytes_billed: a finite dollar cap on BigQuery lowers it.
DeriveCap ==
  /\ pc = "derive"
  /\ LET usd == call.usdCap
     IN IF /\ call.engine = "bigquery"
           /\ usd \notin {None, NaN, Inf}
           /\ call.byteCap = None \/ CostCapToMaxBytesBilled(usd) <= call.byteCap
        THEN attached' = CostCapToMaxBytesBilled(usd) /\ derived' = TRUE
        ELSE attached' = call.byteCap /\ derived' = FALSE
  /\ pc' = "beforeExecute"
  /\ UNCHANGED <<call, processes, estimate, ran, billed, answer>>

\* before_execute(): goes on, or raises for a call that was cancelled.
BeforeExecute ==
  /\ pc = "beforeExecute"
  /\ \/ pc' = "dispatch" /\ UNCHANGED answer
     \/ Raise("cancelled")
  /\ UNCHANGED <<call, processes, estimate, attached, derived, ran, billed>>

-----------------------------------------------------------------------------
\* Dispatch: the provider enforces a limit before it runs the job.  Without one
\* of ours, a limit of the project or organisation may be in force.
ProviderRefuses ==
  /\ pc = "dispatch" /\ call.engine = "bigquery"
  /\ IF attached = None THEN Raise("providerLimit")
     ELSE /\ Billed(processes) > attached
          /\ Refuse(IF derived THEN "cost_cap_exceeded" ELSE "byte_cap_exceeded", "provider")
  /\ UNCHANGED <<call, processes, estimate, attached, derived, ran, billed>>

\* The engine fails before the statement runs.
DispatchFails ==
  /\ pc = "dispatch"
  /\ Raise("engine")
  /\ UNCHANGED <<call, processes, estimate, attached, derived, ran, billed>>

\* The statement runs, under the attached cap if there is one.
Runs ==
  /\ pc = "dispatch"
  /\ call.engine = "bigquery" /\ attached # None => Billed(processes) <= attached
  /\ ran' = TRUE
  /\ billed' = IF call.engine = "bigquery" THEN Billed(processes) ELSE 0
  /\ pc' = "answer"
  /\ UNCHANGED <<call, processes, estimate, attached, derived, answer>>

\* Mutant: the refusals that follow a run forget that it happened.
ForgetfulAnswer ==
  /\ pc = "answer"
  /\ \/ Raise("engine")
     \/ /\ pc' = "done"
        /\ answer' = [status |-> "ok", executed |-> TRUE]
     \/ \E reason \in {"row_cap_exceeded", "result_size_exceeded"} : Refuse(reason, "fetch")
  /\ UNCHANGED <<call, processes, estimate, attached, derived, ran, billed>>

\* The result, one of the two truncating refusals, or a failure of the wait or
\* of the fetch (module BoundedFetch).
Answer ==
  /\ pc = "answer"
  /\ \/ Raise("engine")
     \/ /\ pc' = "done"
        /\ answer' = [status |-> "ok", executed |-> TRUE]
     \/ \E reason \in {"row_cap_exceeded", "result_size_exceeded"} :
          /\ pc' = "done"
          /\ answer' = [status |-> "refused", executed |-> TRUE, reason |-> reason, by |-> "fetch"]
  /\ UNCHANGED <<call, processes, estimate, attached, derived, ran, billed>>

Next ==
  \/ DataChange \/ Validate \/ EstimateQueryCost \/ CostGate \/ ByteGate \/ DeriveCap
  \/ BeforeExecute \/ ProviderRefuses \/ DispatchFails \/ Runs \/ Answer

Spec == Init /\ [][Next]_vars

-----------------------------------------------------------------------------
FiniteUsdCap == call.usdCap \notin {None, NaN, Inf}

\* Whatever the dry run said and whatever happened to the data since, a
\* BigQuery run never bills more than the caller's byte cap, nor more than its
\* dollar cap buys in whole billing steps.  The cap that enforces this is one
\* the API accepts: a positive int64.
BillStaysUnderCaps ==
  /\ attached # None => attached \in 1..Int64Max
  /\ ran /\ call.engine = "bigquery" =>
       /\ call.byteCap # None => billed <= call.byteCap
       /\ FiniteUsdCap => billed <= Max({Billed(call.usdCap), MinBilled})

\* The executed field tells whether the warehouse ran the statement, on every
\* path that returns a result (types.py:72-79); a refusal by a gate or by the
\* provider has billed nothing.
ExecutedIsTruthful ==
  answer.status \in {"ok", "refused"} => answer.executed = ran /\ (~ran => billed = 0)

\* No statement runs under a dollar cap, infinite ones included, that was not
\* compared with a dollar figure; on BigQuery never with one that rests on a
\* floor or on the 0 of a table with row-level security (DECISIONS.md #5, #22).
DollarCapNeverUnchecked ==
  ran /\ call.usdCap # None =>
    /\ estimate.usd # None
    /\ call.usdCap # NaN
    /\ call.usdCap # Inf => estimate.usd <= call.usdCap
    /\ call.engine = "bigquery" => estimate.tier # "HEURISTIC"

\* A cap refusal names a cap that the caller gave and that stands in the way:
\* one the estimate is over or cannot be compared with or, when the provider
\* refused, one that the price of the run is really over.
BlameIsTrue ==
  answer.status = "refused" =>
    CASE answer.reason = "cost_cap_exceeded" ->
           /\ call.usdCap # None
           /\ answer.by = "gate" => estimate.usd = None \/ Over(estimate.usd, call.usdCap)
           /\ answer.by = "provider" => FiniteUsdCap /\ CostCapToMaxBytesBilled(call.usdCap) < Billed(processes)
      [] answer.reason = "byte_cap_exceeded" ->
           /\ call.byteCap # None
           /\ answer.by = "gate" => estimate.bytes = None \/ estimate.bytes > call.byteCap
           /\ answer.by = "provider" => Billed(processes) > call.byteCap
      [] OTHER -> answer.by = "fetch"

\* A provider refusal under a derived cap means that the run really costs more
\* than the dollar cap: the rounding of the billed bytes alone never refuses a
\* query whose exact price is within it.
RoundingNeverRefuses ==
  answer.status = "refused" /\ answer.by = "provider" /\ derived => processes > call.usdCap

\* What the docstring of cost_cap_to_max_bytes_billed says (bigquery.py:228-234):
\* when the gate admits a query on a right estimate, so does the provider.
GateAdmitsProviderAdmits ==
  answer.status = "refused" /\ answer.by = "provider" /\ derived => processes # estimate.bytes

=============================================================================
