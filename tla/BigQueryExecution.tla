------------------------- MODULE BigQueryExecution -------------------------
(***************************************************************************)
(* engines/bigquery.py, execute_bounded: the insertion of the job, with the  *)
(* client's bounded retries, the bounded wait for its result, the paging and *)
(* the best-effort cancel.  A job is known by its id; the client's retries   *)
(* of one insertion carry the same id, and a re-submission (job_retry, which *)
(* every call here turns off) would carry a new one.                         *)
(***************************************************************************)
EXTENDS Naturals, FiniteSets

CONSTANTS
  Ids,      \* ids of jobs a client may generate
  Retries   \* bound of the model: attempts the retry deadline leaves room for

ASSUME BigQueryExecutionAssumption == IsFiniteSet(Ids) /\ Ids # {} /\ Retries \in Nat

VARIABLES
  pc,       \* "insert", "result", "cancel", "done" or "gone"
  id,       \* the id of the job being inserted or waited for
  jobs,     \* the state of every job at BigQuery: "absent", "running",
            \* "succeeded", "failed" or "refused"
  timed,    \* the jobs inserted with a jobTimeoutMs
  attempts, \* insertions sent so far
  outcome   \* "none", "returned", "capExceeded" or "raised"

vars == <<pc, id, jobs, timed, attempts, outcome>>

Init ==
  /\ pc = "insert"
  /\ id \in Ids
  /\ jobs = [i \in Ids |-> "absent"]
  /\ timed = {}
  /\ attempts = 0
  /\ outcome = "none"

End(how) == pc' = "done" /\ outcome' = how

-----------------------------------------------------------------------------
\* Mutant: the job configuration has no jobTimeoutMs.
InsertUntimed ==
  /\ pc = "insert" /\ attempts <= Retries
  /\ attempts' = attempts + 1
  /\ jobs' = [jobs EXCEPT ![id] = IF @ = "absent" THEN "running" ELSE @]
  /\ \/ pc' = "result" /\ UNCHANGED outcome
     \/ UNCHANGED <<pc, outcome>>
     \/ End("raised")
  /\ UNCHANGED <<id, timed>>

\* jobs.insert: the job is created, unless an earlier attempt created it, or it
\* would bill more than its maximumBytesBilled and is refused.  The answer may
\* be lost: the client tries again within its retry deadline, or raises.
Insert ==
  /\ pc = "insert" /\ attempts <= Retries
  /\ attempts' = attempts + 1
  /\ \/ /\ jobs' = [jobs EXCEPT ![id] = IF @ = "absent" THEN "running" ELSE @]
        /\ timed' = timed \cup {id}
        /\ \/ pc' = "result" /\ UNCHANGED outcome
           \/ UNCHANGED <<pc, outcome>>
           \/ End("raised")
     \/ jobs[id] = "absent" /\ End("capExceeded") /\ UNCHANGED <<jobs, timed>>
     \/ /\ \/ UNCHANGED <<pc, outcome>>
           \/ End("raised")
        /\ UNCHANGED <<jobs, timed>>
  /\ UNCHANGED id

\* The retry deadline is over without an answer: RetryError, and no cancel.
InsertGivesUp ==
  /\ pc = "insert" /\ attempts > Retries
  /\ End("raised")
  /\ UNCHANGED <<id, jobs, timed, attempts>>

\* Mutant: job_retry at the library's default submits a failed job again.
RetriedJob ==
  /\ pc = "result"
  /\ \/ jobs[id] = "succeeded" /\ End("returned") /\ UNCHANGED <<id, jobs>>
     \/ /\ jobs[id] = "failed"
        /\ \E other \in Ids :
             /\ jobs[other] = "absent"
             /\ id' = other
             /\ jobs' = [jobs EXCEPT ![other] = "running"]
        /\ UNCHANGED <<pc, outcome>>
  /\ UNCHANGED <<timed, attempts>>

\* Mutant: a wait that timed out returns the rows that are there.
PartialResult ==
  /\ pc = "result"
  /\ \/ jobs[id] \in {"running", "succeeded"} /\ End("returned")
     \/ jobs[id] = "failed" /\ End("raised")
     \/ jobs[id] = "refused" /\ End("capExceeded")
  /\ UNCHANGED <<id, jobs, timed, attempts>>

\* Mutant: any error of a job is taken for the cap's.
RefusalByClass ==
  /\ pc = "result"
  /\ \/ jobs[id] = "succeeded" /\ End("returned")
     \/ jobs[id] \in {"failed", "refused"} /\ End("capExceeded")
  /\ UNCHANGED <<id, jobs, timed, attempts>>

\* The job is over: its rows, all pages fetched, or its error, told apart by the
\* reason and not by the exception's class.
ResultOfJob ==
  /\ pc = "result"
  /\ \/ jobs[id] = "succeeded" /\ End("returned")
     \/ jobs[id] = "failed" /\ End("raised")
     \/ jobs[id] = "refused" /\ End("capExceeded")
  /\ UNCHANGED <<id, jobs, timed, attempts>>

\* A polling or paging call is answered with an error: raised, with no cancel.
ResultCallFails ==
  /\ pc = "result"
  /\ End("raised")
  /\ UNCHANGED <<id, jobs, timed, attempts>>

\* The wait is over its 120 s, or the retries of a poll over their 30 s.
ResultTimesOut ==
  /\ pc = "result"
  /\ pc' = "cancel"
  /\ UNCHANGED <<id, jobs, timed, attempts, outcome>>

\* _cancel_best_effort, then the TimeoutError or RetryError.
Cancel ==
  /\ pc = "cancel"
  /\ \/ UNCHANGED jobs
     \/ jobs[id] = "running" /\ jobs' = [jobs EXCEPT ![id] = "failed"]
  /\ End("raised")
  /\ UNCHANGED <<id, timed, attempts>>

-----------------------------------------------------------------------------
\* BigQuery ends a job; one over its maximumBytesBilled before it runs.
JobEnds(i) ==
  /\ jobs[i] = "running"
  /\ \E end \in {"succeeded", "failed", "refused"} : jobs' = [jobs EXCEPT ![i] = end]
  /\ UNCHANGED <<pc, id, timed, attempts, outcome>>

\* SIGKILL.
ProcessDies ==
  /\ pc \in {"insert", "result", "cancel"}
  /\ pc' = "gone"
  /\ UNCHANGED <<id, jobs, timed, attempts, outcome>>

ThreadStep ==
  \/ Insert \/ InsertGivesUp \/ ResultOfJob \/ ResultCallFails \/ ResultTimesOut \/ Cancel

Next == ThreadStep \/ (\E i \in Ids : JobEnds(i)) \/ ProcessDies

Spec == Init /\ [][Next]_vars

\* The thread runs: result() has a timeout.  BigQuery cancels a job at its
\* jobTimeoutMs; one without may run for hours.
FairSpec ==
  /\ Spec
  /\ WF_vars(ThreadStep)
  /\ \A i \in Ids : WF_vars(i \in timed /\ JobEnds(i))

-----------------------------------------------------------------------------
\* A call bills one job at most, however often its insertion is sent and however
\* the job ends (job_retry=None, bigquery.py:296-300).
AtMostOneJob == Cardinality({i \in Ids : jobs[i] # "absent"}) <= 1

\* Rows are those of a job that succeeded; and when the caller is told that its
\* cap refused the query and nothing was billed, no job has run.
OutcomeMatchesJobs ==
  /\ outcome = "returned" => jobs[id] = "succeeded"
  /\ outcome = "capExceeded" => \A i \in Ids : jobs[i] \in {"absent", "refused"}

\* The jobs, as the one statement they stand for, and the thread's end.
Statement ==
  IF \A i \in Ids : jobs[i] = "absent" THEN "absent"
  ELSE IF \E i \in Ids : jobs[i] = "running" THEN "running"
  ELSE IF \E i \in Ids : jobs[i] = "succeeded" THEN "succeeded" ELSE "failed"

Caller ==
  IF pc = "gone" THEN "gone"
  ELSE IF outcome = "none" THEN "working"
  ELSE IF outcome = "returned" THEN "returned" ELSE "raised"

\* The client keeps no session that needs closing.
Execution == INSTANCE BoundedExecution WITH
  session <- "none", job <- Statement, caller <- Caller

\* The engine implements what the server relies on.  In particular, every job
\* ends, with its thread or without: an insertion whose answer was lost, a wait
\* that was given up and a cancel that failed included.
ImplementsExecution == Execution!FairSpec

=============================================================================
