------------------------ MODULE DatabricksExecution ------------------------
(***************************************************************************)
(* engines/databricks.py, execute_bounded: Cursor.execute blocks, so it runs *)
(* in a daemon thread of its own (_run) while the calling thread joins it    *)
(* under the watchdog, cancels it when it is still alive, and reads what it  *)
(* left behind when it is not.  The two threads share the cursor, the        *)
(* connection and the execution_error list.                                  *)
(***************************************************************************)
VARIABLES
  pc,       \* the next step of the calling thread: "connect", "start", "join",
            \* "cancel", "check", "fetch", "close", "done" or "gone"
  runner,   \* the daemon thread: "none", "sending", "waiting", "dead"
  error,    \* execution_error is not empty
  conn,     \* the connection: "none", "open" or "closed"
  armed,    \* the session has a STATEMENT_TIMEOUT
  job,      \* the statement: "absent", "running", "succeeded", "failed"
  late,     \* the monotonic deadline has passed
  outcome   \* "none", "returned" or "raised"

vars == <<pc, runner, error, conn, armed, job, late, outcome>>

Init ==
  /\ pc = "connect"
  /\ runner = "none"
  /\ error = FALSE
  /\ conn = "none"
  /\ armed = FALSE
  /\ job = "absent"
  /\ late = FALSE
  /\ outcome = "none"

Raise == pc' = "close" /\ outcome' = "raised"

-----------------------------------------------------------------------------
\* The calling thread.

\* Mutant: the session is opened without STATEMENT_TIMEOUT.
ConnectUnarmed ==
  /\ pc = "connect"
  /\ \/ pc' = "start" /\ conn' = "open" /\ UNCHANGED outcome
     \/ pc' = "done" /\ outcome' = "raised" /\ UNCHANGED conn
  /\ UNCHANGED <<armed, runner, error, job, late>>

\* sql.connect: STATEMENT_TIMEOUT travels in OpenSession.
Connect ==
  /\ pc = "connect"
  /\ \/ pc' = "start" /\ conn' = "open" /\ armed' = TRUE /\ UNCHANGED outcome
     \/ pc' = "done" /\ outcome' = "raised" /\ UNCHANGED <<conn, armed>>
  /\ UNCHANGED <<runner, error, job, late>>

\* conn.cursor may raise; then the deadline is armed and the thread started.
StartThread ==
  /\ pc = "start"
  /\ \/ pc' = "join" /\ runner' = "sending" /\ UNCHANGED outcome
     \/ Raise /\ UNCHANGED runner
  /\ UNCHANGED <<error, conn, armed, job, late>>

\* Mutant: the thread is not asked whether it is alive after the join.
JoinWithoutAlive ==
  /\ pc = "join"
  /\ runner = "dead" \/ late
  /\ pc' = "check"
  /\ UNCHANGED <<runner, error, conn, armed, job, late, outcome>>

\* thread.join(timeout) and thread.is_alive.
Join ==
  /\ pc = "join"
  /\ \/ runner = "dead" /\ pc' = "check"
     \/ runner # "dead" /\ late /\ pc' = "cancel"
  /\ UNCHANGED <<runner, error, conn, armed, job, late, outcome>>

\* cur.cancel(), best effort, and the TimeoutError.  The other thread may have
\* finished since it was last looked at; and while it is still sending there is
\* no operation to cancel.
Cancel ==
  /\ pc = "cancel"
  /\ \/ UNCHANGED job
     \/ runner = "waiting" /\ job = "running" /\ job' = "failed"
  /\ Raise
  /\ UNCHANGED <<runner, error, conn, armed, late>>

\* Mutant: what the thread recorded is not raised again.
SwallowError ==
  /\ pc = "check"
  /\ pc' = "fetch"
  /\ UNCHANGED <<runner, error, conn, armed, job, late, outcome>>

\* if execution_error: raise execution_error[0]
CheckError ==
  /\ pc = "check"
  /\ IF error THEN Raise ELSE pc' = "fetch" /\ UNCHANGED outcome
  /\ UNCHANGED <<runner, error, conn, armed, job, late>>

\* Columns, the paged fetch (module BoundedFetch) and cur.close: rows, or an
\* exception - the connector's own or the fetch deadline's.
Fetch ==
  /\ pc = "fetch"
  /\ \/ pc' = "close" /\ outcome' = "returned"
     \/ Raise
  /\ UNCHANGED <<runner, error, conn, armed, job, late>>

\* Mutant: closed on the way to a result only.
CloseOnSuccess ==
  /\ pc = "close"
  /\ conn' = IF outcome = "returned" THEN "closed" ELSE conn
  /\ pc' = "done"
  /\ UNCHANGED <<runner, error, armed, job, late, outcome>>

\* finally: conn.close(), whose own failure is swallowed.
Close ==
  /\ pc = "close"
  /\ conn' = "closed"
  /\ pc' = "done"
  /\ UNCHANGED <<runner, error, armed, job, late, outcome>>

-----------------------------------------------------------------------------
\* The daemon thread: cur.execute, and its exception if it has one.

RunnerEnds(failed) == runner' = "dead" /\ error' = (error \/ failed)

\* The statement reaches the warehouse; the caller may have given up on it.
Lands ==
  /\ runner = "sending" /\ job = "absent"
  /\ job' = "running"
  /\ UNCHANGED <<pc, runner, error, conn, armed, late, outcome>>

\* The call that sends it returns the operation to wait for, or raises when the
\* connector's bounded retries are used up, whether or not it landed.
Sent ==
  /\ runner = "sending"
  /\ \/ job # "absent" /\ runner' = "waiting" /\ UNCHANGED error
     \/ RunnerEnds(TRUE)
  /\ UNCHANGED <<pc, conn, armed, job, late, outcome>>

\* The connector polls the operation: it sees it end, or a poll fails - always
\* so, sooner or later, once the connection is closed.
Wait ==
  /\ runner = "waiting"
  /\ \/ job = "succeeded" /\ RunnerEnds(FALSE)
     \/ RunnerEnds(TRUE)
  /\ UNCHANGED <<pc, conn, armed, job, late, outcome>>

-----------------------------------------------------------------------------
\* The warehouse, the clock and the host.

JobEnds ==
  /\ job = "running"
  /\ job' \in {"succeeded", "failed"}
  /\ UNCHANGED <<pc, runner, error, conn, armed, late, outcome>>

DeadlinePasses ==
  /\ pc \in {"join", "check", "fetch"} /\ ~late
  /\ late' = TRUE
  /\ UNCHANGED <<pc, runner, error, conn, armed, job, outcome>>

\* SIGKILL: a daemon thread goes with its process.
ProcessDies ==
  /\ outcome = "none" /\ pc # "gone"
  /\ pc' = "gone"
  /\ runner' = IF runner = "none" THEN "none" ELSE "dead"
  /\ UNCHANGED <<error, conn, armed, job, late, outcome>>

CallerStep == Connect \/ StartThread \/ Join \/ Cancel \/ CheckError \/ Fetch \/ Close

Next == CallerStep \/ Lands \/ Sent \/ Wait \/ JobEnds \/ DeadlinePasses \/ ProcessDies

Spec == Init /\ [][Next]_vars

\* Both threads run - every round trip has a socket timeout -, the clock does,
\* and the warehouse enforces a STATEMENT_TIMEOUT.  A thread that waits for an
\* operation may wait as long as the operation lasts.
FairSpec ==
  /\ Spec
  /\ WF_vars(CallerStep) /\ WF_vars(DeadlinePasses)
  /\ WF_vars(Sent) /\ WF_vars(job # "running" /\ Wait)
  /\ WF_vars(armed /\ JobEnds)

-----------------------------------------------------------------------------
\* Rows are only returned of a statement that succeeded and whose thread is
\* over: what the caller reads of the shared cursor, nobody writes any more.
RowsOfASuccess ==
  pc = "fetch" \/ outcome = "returned" => runner = "dead" /\ job = "succeeded"

\* The daemon thread ends: a timed-out call leaves no thread behind.
ThreadEnds == runner \in {"sending", "waiting"} ~> runner = "dead"

Execution == INSTANCE BoundedExecution WITH
  session <- conn,
  caller  <- IF pc = "gone" THEN "gone" ELSE IF outcome = "none" THEN "working" ELSE outcome

\* The engine implements what the server relies on.  In particular, a statement
\* sent by the daemon thread ends, even when it reaches the warehouse after the
\* caller's cancel, or outlives the process; and the connection is closed on
\* every way out, whatever the thread is still doing with it.
ImplementsExecution == Execution!FairSpec

=============================================================================
