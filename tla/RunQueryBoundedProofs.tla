----------------------- MODULE RunQueryBoundedProofs -----------------------
(***************************************************************************)
(* Proofs about RunQueryBounded, for every price of a byte, every step and   *)
(* minimum of the bill, all caps and all sizes that fit an int64.            *)
(***************************************************************************)
EXTENDS RunQueryBounded, TLAPS

-----------------------------------------------------------------------------
(* The arithmetic of the bill.                                             *)

LEMMA MaxOfTwo ==
  ASSUME NEW a \in Int, NEW b \in Int
  PROVE  Max({a, b}) = IF a >= b THEN a ELSE b
  <1> DEFINE m == IF a >= b THEN a ELSE b
  <1>1. m \in {a, b} /\ \A y \in {a, b} : m >= y
    OBVIOUS
  <1>2. \A x \in {a, b} : (\A y \in {a, b} : x >= y) => x = m
    OBVIOUS
  <1> QED
    BY <1>1, <1>2 DEF Max

LEMMA MinOfTwo ==
  ASSUME NEW a \in Int, NEW b \in Int
  PROVE  Min({a, b}) = IF a <= b THEN a ELSE b
  <1> DEFINE m == IF a <= b THEN a ELSE b
  <1>1. m \in {a, b} /\ \A y \in {a, b} : m <= y
    OBVIOUS
  <1>2. \A x \in {a, b} : (\A y \in {a, b} : x <= y) => x = m
    OBVIOUS
  <1> QED
    BY <1>1, <1>2 DEF Min

LEMMA WholeSteps ==
  ASSUME NEW n \in Nat, NEW step \in Nat \ {0}
  PROVE  /\ (n \div step) * step \in Nat
         /\ (n \div step) * step <= n
         /\ n < (n \div step) * step + step
  OBVIOUS

LEMMA WholeStepsMonotone ==
  ASSUME NEW n \in Nat, NEW k \in Nat, n <= k, NEW step \in Nat \ {0}
  PROVE  (n \div step) * step <= (k \div step) * step
  OBVIOUS

\* Rounding up to the step of the bill does not lower, and keeps the order.
LEMMA RoundUpBounds ==
  ASSUME NEW n \in Nat
  PROVE  RoundUp(n) \in Nat /\ n <= RoundUp(n)
  <1>1. MiB \in Nat \ {0} /\ n + MiB - 1 \in Nat
    BY RunQueryBoundedAssumption
  <1> QED
    BY <1>1, WholeSteps DEF RoundUp

LEMMA RoundUpMonotone ==
  ASSUME NEW n \in Nat, NEW k \in Nat, n <= k
  PROVE  RoundUp(n) <= RoundUp(k)
  <1>1. /\ MiB \in Nat \ {0}
        /\ n + MiB - 1 \in Nat /\ k + MiB - 1 \in Nat /\ n + MiB - 1 <= k + MiB - 1
    BY RunQueryBoundedAssumption
  <1> QED
    BY <1>1, WholeStepsMonotone DEF RoundUp

LEMMA RoundUsdType ==
  ASSUME NEW n \in Nat
  PROVE  RoundUsd(n) \in Nat
  <1>1. MicroUsd \in Nat \ {0} /\ n + MicroUsd \div 2 \in Nat
    BY RunQueryBoundedAssumption
  <1> QED
    BY <1>1, WholeSteps DEF RoundUsd

LEMMA BilledValue ==
  ASSUME NEW n \in Nat
  PROVE  /\ Billed(n) \in Nat
         /\ Billed(n) = IF n = 0 THEN 0
                        ELSE IF RoundUp(n) >= MinBilled THEN RoundUp(n) ELSE MinBilled
  BY RunQueryBoundedAssumption, RoundUpBounds, MaxOfTwo DEF Billed

\* The derived cap: what the dollar cap buys in whole steps, the minimum at
\* least, an int64 at most.
LEMMA DerivedCapValue ==
  ASSUME NEW usd \in Nat
  PROVE  LET bought == IF RoundUp(usd) >= MinBilled THEN RoundUp(usd) ELSE MinBilled
         IN CostCapToMaxBytesBilled(usd) =
              IF usd >= Int64Max \/ bought > Int64Max THEN Int64Max ELSE bought
  <1>1. RoundUp(usd) \in Int /\ MinBilled \in Int /\ Int64Max \in Int
    BY RunQueryBoundedAssumption, RoundUpBounds
  <1> DEFINE bought == IF RoundUp(usd) >= MinBilled THEN RoundUp(usd) ELSE MinBilled
  <1>2. Max({RoundUp(usd), MinBilled}) = bought /\ bought \in Int
    BY <1>1, MaxOfTwo
  <1>3. Min({bought, Int64Max}) = IF bought <= Int64Max THEN bought ELSE Int64Max
    BY <1>1, <1>2, MinOfTwo
  <1> QED
    BY <1>1, <1>2, <1>3 DEF CostCapToMaxBytesBilled

\* The API accepts the derived cap ...
LEMMA DerivedCapAccepted ==
  ASSUME NEW usd \in Nat
  PROVE  CostCapToMaxBytesBilled(usd) \in 1..Int64Max
  BY RunQueryBoundedAssumption, DerivedCapValue, RoundUpBounds

\* ... it lets nothing through that costs more than the dollar cap buys ...
LEMMA DerivedCapHolds ==
  ASSUME NEW usd \in Nat
  PROVE  CostCapToMaxBytesBilled(usd) <= Max({Billed(usd), MinBilled})
  <1>1. MinBilled \in Nat /\ Int64Max \in Nat
    BY RunQueryBoundedAssumption
  <1>2. Max({Billed(usd), MinBilled}) = IF Billed(usd) >= MinBilled THEN Billed(usd) ELSE MinBilled
    BY <1>1, BilledValue, MaxOfTwo
  <1>3. RoundUp(0) = 0
    <2>1. MiB \in Nat \ {0} /\ MiB - 1 \in Nat
      BY RunQueryBoundedAssumption
    <2>2. (MiB - 1) \div MiB = 0
      BY <2>1
    <2> QED
      BY <2>1, <2>2 DEF RoundUp
  <1> QED
    BY <1>1, <1>2, <1>3, BilledValue, DerivedCapValue, RoundUpBounds

\* ... and everything whose exact price is within it.
LEMMA DerivedCapAdmits ==
  ASSUME NEW usd \in Nat, NEW bytes \in Sizes, bytes <= usd
  PROVE  Billed(bytes) <= CostCapToMaxBytesBilled(usd)
  <1>1. /\ MinBilled \in Nat /\ Int64Max \in Nat /\ MinBilled <= Int64Max
        /\ bytes \in Nat /\ RoundUp(bytes) <= Int64Max
    BY RunQueryBoundedAssumption, BilledFitsInt64
  <1>2. RoundUp(bytes) <= RoundUp(usd)
    BY <1>1, RoundUpMonotone
  <1> QED
    BY <1>1, <1>2, BilledValue, DerivedCapValue, RoundUpBounds

-----------------------------------------------------------------------------
(* The inductive invariant.                                                *)

Steps == {"validate", "estimate", "costGate", "byteGate", "derive", "beforeExecute",
          "dispatch", "answer", "done"}

Estimates == [bytes : Nat \cup {None}, usd : Nat \cup {None},
              tier : {"PRECISE", "UPPER_BOUND", "HEURISTIC"}]

\* The answer's own type is OutcomeInv's.
TypeOK ==
  /\ pc \in Steps
  /\ call \in Arguments
  /\ processes \in Sizes
  /\ estimate \in Estimates
  /\ attached \in Nat \cup {None}
  /\ derived \in BOOLEAN
  /\ ran \in BOOLEAN
  /\ billed \in Nat

Validated == /\ call.usdCap # NaN
             /\ call.byteCap # None => call.byteCap \in 1..Int64Max

CostGatePassed ==
  call.usdCap # None => estimate.usd # None /\ ~Over(estimate.usd, call.usdCap)

\* The effective cap is one of the two the call carries, and where both apply
\* the lower one.
Capped ==
  LET cap == CostCapToMaxBytesBilled(call.usdCap)
  IN IF derived
     THEN /\ call.engine = "bigquery" /\ FiniteUsdCap
          /\ attached = cap
          /\ call.byteCap # None => cap <= call.byteCap
     ELSE /\ attached = call.byteCap
          /\ call.engine = "bigquery" /\ FiniteUsdCap => call.byteCap # None /\ call.byteCap < cap

\* Which gates a call has passed, by the step it is at; a statement that ran has
\* passed all of them.
GateInv ==
  /\ pc \notin {"validate", "done"} \/ ran => Validated
  /\ pc \in {"byteGate", "derive", "beforeExecute", "dispatch", "answer"} \/ ran => CostGatePassed
  /\ pc \in {"beforeExecute", "dispatch", "answer"} \/ ran => Capped
  /\ pc \in {"validate", "estimate", "costGate", "byteGate", "derive"} => attached = None /\ ~derived
  /\ attached # None => attached \in 1..Int64Max
  /\ call.engine = "bigquery" /\ estimate.usd # None => estimate.tier # "HEURISTIC"

\* What ran, what it cost, and that nothing is answered before the end.
RunInv ==
  /\ pc = "answer" => ran
  /\ pc \notin {"answer", "done"} => ~ran
  /\ ~ran => billed = 0
  /\ ran /\ call.engine = "bigquery" /\ attached # None => billed <= attached
  /\ pc # "done" => answer = NoAnswer

\* An exception, or a result that tells whether the statement ran, and why not.
OutcomeInv ==
  \/ answer.status \in {"none", "raised"}
  \/ answer.status = "ok" /\ answer.executed = TRUE /\ ran
  \/ /\ answer.status = "refused" /\ answer.by = "gate" /\ answer.executed = FALSE /\ ~ran
     /\ ~derived
     /\ \/ /\ answer.reason = "cost_cap_exceeded" /\ call.usdCap # None
           /\ estimate.usd = None \/ Over(estimate.usd, call.usdCap)
        \/ /\ answer.reason = "byte_cap_exceeded" /\ call.byteCap # None
           /\ estimate.bytes = None \/ estimate.bytes > call.byteCap
  \/ /\ answer.status = "refused" /\ answer.by = "provider" /\ answer.executed = FALSE /\ ~ran
     /\ pc = "done" /\ Capped /\ attached # None /\ Billed(processes) > attached
     /\ answer.reason = IF derived THEN "cost_cap_exceeded" ELSE "byte_cap_exceeded"
  \/ /\ answer.status = "refused" /\ answer.by = "fetch" /\ answer.executed = TRUE /\ ran
     /\ answer.reason \in {"row_cap_exceeded", "result_size_exceeded"}

IndInv == TypeOK /\ GateInv /\ RunInv /\ OutcomeInv

LEMMA IndInvInit == Init => IndInv
  <1> SUFFICES ASSUME Init PROVE IndInv
    OBVIOUS
  <1>1. TypeOK
    BY DEF Init, TypeOK, Steps, Estimates, NoEstimate
  <1>2. GateInv /\ RunInv /\ OutcomeInv
    BY DEF Init, GateInv, RunInv, OutcomeInv, NoEstimate, NoAnswer
  <1> QED
    BY <1>1, <1>2 DEF IndInv

\* The dry run's estimate is priced only when its figure promises something.
LEMMA DryRunEstimates ==
  ASSUME NEW report \in DryRunReports, NEW billing, processes \in Sizes
  PROVE  /\ DryRun(report, billing) \in Estimates
         /\ DryRun(report, billing).usd # None => DryRun(report, billing).tier # "HEURISTIC"
  <1>1. report.bytes \in Nat
    <2>1. CASE report \in {[bytes |-> 0, accuracy |-> "PRECISE", tables |-> FALSE] :
                            s \in {processes} \cap {0}}
      BY <2>1
    <2>2. CASE report \in [bytes : {processes}, accuracy : {"PRECISE"}, tables : {TRUE}]
      BY <2>2, RunQueryBoundedAssumption
    <2>3. CASE \/ report \in [bytes : {s \in Sizes : s >= processes}, accuracy : {"UPPER_BOUND"},
                              tables : {TRUE}]
               \/ report \in [bytes : {s \in Sizes : s <= processes}, accuracy : {"LOWER_BOUND"},
                              tables : {TRUE}]
               \/ report \in [bytes : Sizes, accuracy : {"UNKNOWN"}, tables : {TRUE}]
      BY <2>3, RunQueryBoundedAssumption
    <2>4. CASE report \in [bytes : {0}, accuracy : {"PRECISE"}, tables : {TRUE}]
      BY <2>4
    <2> QED
      BY <2>1, <2>2, <2>3, <2>4 DEF DryRunReports
  <1>2. RoundUsd(report.bytes) \in Nat
    BY <1>1, RoundUsdType
  <1> QED
    BY <1>1, <1>2, RunQueryBoundedAssumption DEF DryRun, Tier, Estimates

LEMMA TypeNext == TypeOK /\ [Next]_vars => TypeOK'
  <1> SUFFICES ASSUME TypeOK, [Next]_vars PROVE TypeOK'
    OBVIOUS
  <1> USE RunQueryBoundedAssumption DEF TypeOK, Steps
  <1>1. CASE DataChange
    BY <1>1 DEF DataChange
  <1>2. CASE Validate
    BY <1>2 DEF Validate, Raise
  <1>3. CASE EstimateQueryCost
    <2>1. estimate' \in Estimates
      <3>1. CASE \E report \in DryRunReports, billing \in {"on_demand", "capacity", "check_failed"} :
                   estimate' = DryRun(report, billing)
        BY <3>1, DryRunEstimates
      <3>2. CASE estimate' \in [bytes : Sizes \cup {None}, usd : Figures \cup {None},
                 tier : {IF call.engine = "snowflake" THEN "UPPER_BOUND" ELSE "HEURISTIC"}]
        BY <3>2 DEF Estimates
      <3> QED
        BY <1>3, <3>1, <3>2 DEF EstimateQueryCost, Raise
    <2> QED
      BY <1>3, <2>1 DEF EstimateQueryCost, Raise
  <1>4. CASE CostGate \/ ByteGate \/ BeforeExecute
    BY <1>4 DEF CostGate, ByteGate, BeforeExecute, Raise, Refuse
  <1>5. CASE DeriveCap
    <2>1. call.usdCap \in Nat => CostCapToMaxBytesBilled(call.usdCap) \in Nat
      BY DerivedCapAccepted
    <2>2. call.byteCap \in Nat \cup {None}
      BY DEF Arguments
    <2>3. call.usdCap \notin {None, NaN, Inf} => call.usdCap \in Nat
      BY DEF Arguments
    <2> QED
      BY <1>5, <2>1, <2>2, <2>3 DEF DeriveCap
  <1>6. CASE ProviderRefuses \/ DispatchFails \/ Answer
    BY <1>6 DEF ProviderRefuses, DispatchFails, Answer, Raise, Refuse
  <1>7. CASE Runs
    <2>1. Billed(processes) \in Nat
      BY BilledValue
    <2> QED
      BY <1>7, <2>1 DEF Runs
  <1>8. CASE UNCHANGED vars
    BY <1>8 DEF vars
  <1> QED
    BY <1>1, <1>2, <1>3, <1>4, <1>5, <1>6, <1>7, <1>8 DEF Next

LEMMA GateNext == IndInv /\ [Next]_vars => GateInv'
  <1> SUFFICES ASSUME IndInv, [Next]_vars PROVE GateInv'
    OBVIOUS
  <1> USE DEF IndInv, GateInv, RunInv, Validated, CostGatePassed, Capped, FiniteUsdCap
  <1>1. CASE DataChange
    BY <1>1 DEF DataChange
  <1>2. CASE Validate
    BY <1>2 DEF Validate, Raise
  <1>3. CASE EstimateQueryCost
    <2>1. call.engine = "bigquery" /\ estimate'.usd # None => estimate'.tier # "HEURISTIC"
      BY <1>3, DryRunEstimates DEF EstimateQueryCost, Raise, TypeOK
    <2> QED
      BY <1>3, <2>1 DEF EstimateQueryCost, Raise
  <1>4. CASE CostGate
    BY <1>4 DEF CostGate, Refuse
  <1>5. CASE ByteGate
    BY <1>5 DEF ByteGate, Refuse
  <1>6. CASE DeriveCap
    <2>1. /\ call.usdCap \notin {None, NaN, Inf} => call.usdCap \in Nat
          /\ call.byteCap \in Nat \cup {None}
          /\ Int64Max \in Nat
      BY RunQueryBoundedAssumption DEF TypeOK, Arguments
    <2>2. call.usdCap \in Nat => CostCapToMaxBytesBilled(call.usdCap) \in 1..Int64Max
      BY DerivedCapAccepted
    <2> QED
      BY <1>6, <2>1, <2>2, RunQueryBoundedAssumption DEF DeriveCap
  <1>7. CASE BeforeExecute
    BY <1>7 DEF BeforeExecute, Raise
  <1>8. CASE ProviderRefuses
    BY <1>8 DEF ProviderRefuses, Raise, Refuse
  <1>9. CASE DispatchFails
    BY <1>9 DEF DispatchFails, Raise
  <1>10. CASE Runs
    BY <1>10 DEF Runs
  <1>11. CASE Answer
    BY <1>11 DEF Answer, Raise
  <1>12. CASE UNCHANGED vars
    BY <1>12 DEF vars
  <1> QED
    BY <1>1, <1>2, <1>3, <1>4, <1>5, <1>6, <1>7, <1>8, <1>9, <1>10, <1>11, <1>12 DEF Next

LEMMA RunNext == IndInv /\ [Next]_vars => RunInv'
  <1> SUFFICES ASSUME IndInv, [Next]_vars PROVE RunInv'
    OBVIOUS
  <1> USE DEF IndInv, RunInv, Raise, Refuse
  <1>1. CASE DataChange \/ Validate \/ EstimateQueryCost \/ CostGate \/ ByteGate
    BY <1>1 DEF DataChange, Validate, EstimateQueryCost, CostGate, ByteGate
  <1>2. CASE DeriveCap \/ BeforeExecute \/ ProviderRefuses \/ DispatchFails \/ Answer
    BY <1>2 DEF DeriveCap, BeforeExecute, ProviderRefuses, DispatchFails, Answer
  <1>3. CASE Runs
    BY <1>3 DEF Runs
  <1>4. CASE UNCHANGED vars
    BY <1>4 DEF vars
  <1> QED
    BY <1>1, <1>2, <1>3, <1>4 DEF Next

LEMMA OutcomeNext == IndInv /\ [Next]_vars => OutcomeInv'
  <1> SUFFICES ASSUME IndInv, [Next]_vars PROVE OutcomeInv'
    OBVIOUS
  <1> USE DEF IndInv, GateInv, RunInv, Raise, Refuse
  <1>1. CASE UNCHANGED answer /\ pc' # "done"
    <2>1. pc # "done" => answer'.status = "none"
      BY <1>1 DEF NoAnswer
    <2>2. pc # "done"
      BY <1>1, [Next]_vars DEF Next, vars, DataChange, Validate, EstimateQueryCost, CostGate,
         ByteGate, DeriveCap, BeforeExecute, ProviderRefuses, DispatchFails, Runs, Answer
    <2> QED
      BY <2>1, <2>2 DEF OutcomeInv
  <1>2. CASE \E error : answer' = [status |-> "raised", error |-> error]
    BY <1>2 DEF OutcomeInv
  <1>3. CASE CostGate
    BY <1>1, <1>3 DEF CostGate, OutcomeInv
  <1>4. CASE ByteGate
    BY <1>1, <1>4 DEF ByteGate, OutcomeInv
  <1>5. CASE ProviderRefuses
    BY <1>2, <1>5 DEF ProviderRefuses, OutcomeInv, Capped, FiniteUsdCap
  <1>6. CASE Answer
    BY <1>2, <1>6 DEF Answer, OutcomeInv
  <1>7. CASE DataChange \/ Validate \/ EstimateQueryCost \/ DeriveCap \/ BeforeExecute
             \/ DispatchFails \/ Runs
    BY <1>1, <1>2, <1>7 DEF DataChange, Validate, EstimateQueryCost, DeriveCap, BeforeExecute,
       DispatchFails, Runs
  <1>8. CASE UNCHANGED vars
    BY <1>8 DEF vars, OutcomeInv, Capped, FiniteUsdCap
  <1> QED
    BY <1>3, <1>4, <1>5, <1>6, <1>7, <1>8 DEF Next

\* The invariant holds of every call, whatever its arguments and however the data
\* changes meanwhile.
THEOREM Inductive == Spec => []IndInv
  <1>1. IndInv /\ [Next]_vars => IndInv'
    BY TypeNext, GateNext, RunNext, OutcomeNext DEF IndInv
  <1> QED
    BY IndInvInit, <1>1, PTL DEF Spec

-----------------------------------------------------------------------------
(* What follows from it.                                                   *)

\* The bill stays under the caller's byte cap, and under what its dollar cap
\* buys in whole billing steps, whatever the estimate said and however the data
\* has changed since (bigquery.py:225-243, run_query_bounded.py:221-240).
THEOREM BillCapped == Spec => []BillStaysUnderCaps
  <1>1. IndInv => BillStaysUnderCaps
    <2> SUFFICES ASSUME IndInv PROVE BillStaysUnderCaps
      OBVIOUS
    <2> USE DEF IndInv
    <2>1. attached # None => attached \in 1..Int64Max
      BY DEF GateInv
    <2>c. ASSUME FiniteUsdCap
          PROVE  call.usdCap \in Nat /\ CostCapToMaxBytesBilled(call.usdCap) \in Nat
      <3>1. call.usdCap \in Nat
        BY <2>c, RunQueryBoundedAssumption DEF FiniteUsdCap, TypeOK, Arguments
      <3> QED
        BY <3>1, DerivedCapAccepted, RunQueryBoundedAssumption
    <2>2. ASSUME ran, call.engine = "bigquery", call.byteCap # None PROVE billed <= call.byteCap
      <3>1. call.byteCap \in Nat /\ billed \in Nat /\ attached \in Nat \cup {None}
        BY <2>2, RunQueryBoundedAssumption DEF TypeOK, Arguments
      <3>2. Capped
        BY <2>2 DEF GateInv
      <3>3. attached # None /\ attached <= call.byteCap
        <4>1. CASE derived
          BY <2>2, <2>c, <3>1, <3>2, <4>1, RunQueryBoundedAssumption DEF Capped
        <4>2. CASE ~derived
          BY <2>2, <3>1, <3>2, <4>2 DEF Capped
        <4> QED
          BY <4>1, <4>2
      <3> QED
        BY <2>2, <3>1, <3>3 DEF RunInv
    <2>3. ASSUME ran, call.engine = "bigquery", FiniteUsdCap
          PROVE  billed <= Max({Billed(call.usdCap), MinBilled})
      <3> DEFINE cap == CostCapToMaxBytesBilled(call.usdCap)
      <3>1. call.usdCap \in Nat
        BY <2>3, <2>c
      <3>2. cap \in Nat /\ attached \in Nat /\ billed \in Nat /\ attached <= cap
        BY <2>3, <3>1, DerivedCapAccepted, RunQueryBoundedAssumption
        DEF GateInv, Capped, TypeOK, Arguments
      <3>3. billed <= attached
        BY <2>3, <3>2, RunQueryBoundedAssumption DEF RunInv
      <3>4. cap <= Max({Billed(call.usdCap), MinBilled})
        BY <3>1, DerivedCapHolds
      <3>5. Max({Billed(call.usdCap), MinBilled}) \in Nat
        BY <3>1, BilledValue, MaxOfTwo, RunQueryBoundedAssumption
      <3> QED
        BY <3>2, <3>3, <3>4, <3>5
    <2> QED
      BY <2>1, <2>2, <2>3 DEF BillStaysUnderCaps
  <1> QED
    BY Inductive, <1>1, PTL

\* The executed field is true of every result (types.py:72-79).
THEOREM ExecutedTold == Spec => []ExecutedIsTruthful
  <1>1. IndInv => ExecutedIsTruthful
    BY DEF IndInv, TypeOK, OutcomeInv, RunInv, ExecutedIsTruthful
  <1> QED
    BY Inductive, <1>1, PTL

\* No statement runs under a dollar cap that no figure was compared with
\* (run_query_bounded.py:131-182, bigquery.py:104-151).
THEOREM DollarCapChecked == Spec => []DollarCapNeverUnchecked
  <1>1. IndInv => DollarCapNeverUnchecked
    <2> SUFFICES ASSUME IndInv, ran, call.usdCap # None
                 PROVE  /\ estimate.usd # None
                        /\ call.usdCap # NaN
                        /\ call.usdCap # Inf => estimate.usd <= call.usdCap
                        /\ call.engine = "bigquery" => estimate.tier # "HEURISTIC"
      BY DEF DollarCapNeverUnchecked
    <2>1. Validated /\ CostGatePassed /\ estimate.usd # None
      BY DEF IndInv, GateInv, CostGatePassed
    <2>2. estimate.usd \in Nat /\ (call.usdCap \notin {NaN, Inf} => call.usdCap \in Nat)
      BY <2>1, RunQueryBoundedAssumption DEF IndInv, TypeOK, Estimates, Arguments
    <2> QED
      BY <2>1, <2>2 DEF IndInv, GateInv, CostGatePassed, Over, Validated
  <1> QED
    BY Inductive, <1>1, PTL

\* A refusal names a cap that was given and that stands in the way.
THEOREM BlameTrue == Spec => []BlameIsTrue
  <1>1. IndInv => BlameIsTrue
    <2> SUFFICES ASSUME IndInv, answer.status = "refused" PROVE BlameIsTrue
      BY DEF BlameIsTrue
    <2>1. CASE answer.by = "gate"
      BY <2>1 DEF IndInv, OutcomeInv, BlameIsTrue
    <2>2. CASE answer.by = "provider"
      BY <2>2 DEF IndInv, OutcomeInv, Capped, FiniteUsdCap, BlameIsTrue
    <2>3. CASE answer.by = "fetch"
      BY <2>3 DEF IndInv, OutcomeInv, BlameIsTrue
    <2> QED
      BY <2>1, <2>2, <2>3 DEF IndInv, OutcomeInv
  <1> QED
    BY Inductive, <1>1, PTL

\* A provider refusal under a derived cap is a query whose exact price is over
\* the dollar cap: never the work of the rounding (bigquery.py:225-243).
THEOREM RoundingInnocent == Spec => []RoundingNeverRefuses
  <1>1. IndInv => RoundingNeverRefuses
    <2> SUFFICES ASSUME IndInv, answer.status = "refused", answer.by = "provider", derived,
                        ~(processes > call.usdCap)
                 PROVE  FALSE
      BY DEF RoundingNeverRefuses
    <2>1. /\ attached = CostCapToMaxBytesBilled(call.usdCap)
          /\ Billed(processes) > attached /\ FiniteUsdCap
      BY DEF IndInv, OutcomeInv, Capped
    <2>2. call.usdCap \in Nat /\ processes \in Sizes /\ processes \in Nat
      BY <2>1, RunQueryBoundedAssumption DEF IndInv, TypeOK, Arguments, FiniteUsdCap
    <2>3. Billed(processes) <= attached
      BY <2>1, <2>2, DerivedCapAdmits
    <2>4. Billed(processes) \in Nat /\ attached \in Nat
      BY <2>1, <2>2, BilledValue, DerivedCapAccepted
    <2> QED
      BY <2>1, <2>3, <2>4
  <1> QED
    BY Inductive, <1>1, PTL

=============================================================================
