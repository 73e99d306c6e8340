---------------------- MODULE BigQueryExecutionProofs ----------------------
(***************************************************************************)
(* Proofs about BigQueryExecution, for every set of job ids and every number *)
(* of retries.                                                               *)
(***************************************************************************)
EXTENDS BigQueryExecution, FiniteSetTheorems, TLAPS

JobStates == {"absent", "running", "succeeded", "failed", "refused"}

TypeOK ==
  /\ pc \in {"insert", "result", "cancel", "done", "gone"}
  /\ id \in Ids
  /\ jobs \in [Ids -> JobStates]
  /\ timed \subseteq Ids
  /\ attempts \in Nat
  /\ outcome \in {"none", "returned", "capExceeded", "raised"}

\* The client keeps to the id it began with, and no other id has a job.
OneId == \A i \in Ids \ {id} : jobs[i] = "absent"

\* The outcome is written at the end, and agrees with that job for good.
OutcomeInv ==
  /\ pc = "done" <=> outcome # "none"
  /\ outcome = "returned" => jobs[id] = "succeeded"
  /\ outcome = "capExceeded" => jobs[id] \in {"absent", "refused"}

IndInv == TypeOK /\ OneId /\ OutcomeInv

-----------------------------------------------------------------------------
LEMMA IndInvInit == Init => IndInv
  BY DEF Init, IndInv, TypeOK, JobStates, OneId, OutcomeInv

LEMMA IndInvNext == IndInv /\ [Next]_vars => IndInv'
  <1> SUFFICES ASSUME IndInv, [Next]_vars PROVE IndInv'
    OBVIOUS
  <1> USE DEF IndInv, TypeOK, JobStates, OneId, OutcomeInv, End
  <1>1. CASE Insert          BY <1>1 DEF Insert
  <1>2. CASE InsertGivesUp   BY <1>2 DEF InsertGivesUp
  <1>3. CASE ResultOfJob     BY <1>3 DEF ResultOfJob
  <1>4. CASE ResultCallFails BY <1>4 DEF ResultCallFails
  <1>5. CASE ResultTimesOut  BY <1>5 DEF ResultTimesOut
  <1>6. CASE Cancel          BY <1>6 DEF Cancel
  <1>7. ASSUME NEW i \in Ids, JobEnds(i) PROVE IndInv'
    BY <1>7 DEF JobEnds
  <1>8. CASE ProcessDies     BY <1>8 DEF ProcessDies
  <1>9. CASE UNCHANGED vars  BY <1>9 DEF vars
  <1> QED
    BY <1>1, <1>2, <1>3, <1>4, <1>5, <1>6, <1>7, <1>8, <1>9 DEF Next, ThreadStep

\* The invariant holds of every state the insertion, the wait and the retries reach.
THEOREM Inductive == Spec => []IndInv
  BY IndInvInit, IndInvNext, PTL DEF Spec

-----------------------------------------------------------------------------
\* One job at most is billed for, however often its insertion is sent
\* (job_retry=None, bigquery.py:296-300).
THEOREM OneJob == Spec => []AtMostOneJob
  <1>1. IndInv => AtMostOneJob
    <2> SUFFICES ASSUME IndInv PROVE AtMostOneJob
      OBVIOUS
    <2> DEFINE present == {i \in Ids : jobs[i] # "absent"}
    <2>1. present \subseteq {id}
      BY DEF IndInv, OneId
    <2>2. IsFiniteSet({id}) /\ Cardinality({id}) = 1
      BY FS_Singleton
    <2>3. Cardinality(present) <= 1
      BY <2>1, <2>2, FS_Subset
    <2> QED
      BY <2>3 DEF AtMostOneJob
  <1> QED
    BY Inductive, <1>1, PTL

\* Rows are those of a job that succeeded, and a cap refusal means that no job
\* has run (bigquery.py, execute_bounded).
THEOREM OutcomeTrue == Spec => []OutcomeMatchesJobs
  <1>1. IndInv => OutcomeMatchesJobs
    BY DEF IndInv, TypeOK, JobStates, OneId, OutcomeInv, OutcomeMatchesJobs
  <1> QED
    BY Inductive, <1>1, PTL

\* As no other id has a job, the statement of BoundedExecution is the job of the
\* one id.
TheJob == IF jobs[id] = "refused" THEN "failed" ELSE jobs[id]

LEMMA StatementIsTheJob ==
  ASSUME NEW all, NEW one \in Ids, all \in [Ids -> JobStates],
         \A i \in Ids \ {one} : all[i] = "absent"
  PROVE  (IF \A i \in Ids : all[i] = "absent" THEN "absent"
          ELSE IF \E i \in Ids : all[i] = "running" THEN "running"
          ELSE IF \E i \in Ids : all[i] = "succeeded" THEN "succeeded" ELSE "failed")
         = IF all[one] = "refused" THEN "failed" ELSE all[one]
  BY DEF JobStates

\* Every step is one that BoundedExecution allows, or none: the safety half of
\* ImplementsExecution.
THEOREM RefinesExecution == Spec => Execution!Spec
  <1>1. Init => Execution!Init
    BY DEF Init, Execution!Init, Statement, Caller
  <1>2. IndInv /\ [Next]_vars => [Execution!Next]_Execution!vars
    <2> SUFFICES ASSUME IndInv, [Next]_vars
                 PROVE  Execution!Next \/ UNCHANGED Execution!vars
      OBVIOUS
    <2>i. IndInv'
      BY IndInvNext
    <2>s. Statement = TheJob /\ Statement' = TheJob'
      BY <2>i, StatementIsTheJob DEF IndInv, TypeOK, OneId, Statement, TheJob
    <2> USE <2>s DEF IndInv, TypeOK, JobStates, OutcomeInv, End, TheJob, Caller,
            Execution!Next, Execution!vars
    <2>1. CASE Insert
      BY <2>1 DEF Insert, Execution!Submit, Execution!Raise
    <2>2. CASE InsertGivesUp \/ ResultCallFails
      BY <2>2 DEF InsertGivesUp, ResultCallFails, Execution!Raise
    <2>3. CASE ResultOfJob
      BY <2>3 DEF ResultOfJob, Execution!Return, Execution!Raise
    <2>4. CASE ResultTimesOut
      BY <2>4 DEF ResultTimesOut
    <2>5. CASE Cancel
      BY <2>5 DEF Cancel, Execution!Raise
    <2>6. ASSUME NEW i \in Ids, JobEnds(i)
          PROVE  Execution!Next \/ UNCHANGED Execution!vars
      BY <2>6 DEF JobEnds, OneId, Execution!JobEnds
    <2>7. CASE ProcessDies
      BY <2>7 DEF ProcessDies, Execution!Die
    <2>8. CASE UNCHANGED vars
      BY <2>8 DEF vars
    <2> QED
      BY <2>1, <2>2, <2>3, <2>4, <2>5, <2>6, <2>7, <2>8 DEF Next, ThreadStep
  <1> QED
    BY Inductive, <1>1, <1>2, PTL DEF Spec, Execution!Spec

=============================================================================
