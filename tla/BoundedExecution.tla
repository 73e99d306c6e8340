-------------------------- MODULE BoundedExecution --------------------------
(***************************************************************************)
(* What execute_bounded promises on every engine, and all that InFlight     *)
(* relies on: one statement at most reaches the warehouse; rows are          *)
(* returned only of a statement that succeeded; returned or not, killed or   *)
(* not, the statement ends (DECISIONS.md #14); and whatever session was      *)
(* opened for it is closed, however the call ends.                           *)
(***************************************************************************)
VARIABLES
  job,      \* "absent", "running", "succeeded" or "failed"
  session,  \* "none", "open" or "closed"
  caller    \* "working", "returned", "raised" or, the process dead, "gone"

vars == <<job, session, caller>>

Init == job = "absent" /\ session = "none" /\ caller = "working"

OpenSession ==
  /\ caller = "working" /\ session = "none"
  /\ session' = "open"
  /\ UNCHANGED <<job, caller>>

\* A submission may reach the warehouse after the caller has given up on it.
Submit ==
  /\ job = "absent" /\ caller # "returned"
  /\ job' = "running"
  /\ UNCHANGED <<session, caller>>

JobEnds ==
  /\ job = "running"
  /\ job' \in {"succeeded", "failed"}
  /\ UNCHANGED <<session, caller>>

Return ==
  /\ caller = "working" /\ job = "succeeded"
  /\ caller' = "returned"
  /\ UNCHANGED <<job, session>>

\* An exception: in the same breath a statement may be cancelled, or reach the
\* warehouse although its submission fails, and a session be closed.
Raise ==
  /\ caller = "working"
  /\ caller' = "raised"
  /\ \/ UNCHANGED job
     \/ job = "running" /\ job' = "failed"
     \/ job = "absent" /\ job' = "running"
  /\ session' \in {session, IF session = "open" THEN "closed" ELSE session}

CloseSession ==
  /\ caller \in {"returned", "raised"} /\ session = "open"
  /\ session' = "closed"
  /\ UNCHANGED <<job, caller>>

Die ==
  /\ caller = "working"
  /\ caller' = "gone"
  /\ UNCHANGED <<job, session>>

Next == OpenSession \/ Submit \/ JobEnds \/ Return \/ Raise \/ CloseSession \/ Die

Spec == Init /\ [][Next]_vars

\* The provider-side deadline ends every statement, the caller's watchdog the
\* call, and its finally clause the session.
FairSpec ==
  /\ Spec
  /\ WF_vars(JobEnds) /\ WF_vars(Return \/ Raise \/ Die) /\ WF_vars(CloseSession)

=============================================================================
