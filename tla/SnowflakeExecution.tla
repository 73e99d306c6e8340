------------------------ MODULE SnowflakeExecution ------------------------
(***************************************************************************)
(* engines/snowflake.py, execute_bounded: the session and its statement     *)
(* timeout (_connect, _apply_statement_timeout), the asynchronous            *)
(* submission, the polling watchdog, the cancel, the paged fetch and the     *)
(* close.                                                                  *)
(*                                                                         *)
(* Time is counted in ticks.  A call of the connector takes up to Latency of *)
(* them, a page request up to PageTime; an action that makes several calls   *)
(* may take as many times as long.  Nothing else of this thread happens      *)
(* meanwhile, and the warehouse goes its own way throughout.  It ends a      *)
(* statement no later than Grace ticks after the session's statement         *)
(* timeout, if there is one.                                                 *)
(***************************************************************************)
EXTENDS Naturals

CONSTANTS
  MaxWait,    \* _MAX_EXECUTION_WAIT_SECONDS
  Interval,   \* _POLL_INTERVAL_SECONDS
  Latency,    \* the longest call of the connector but fetchmany, retries included
  PageTime,   \* the longest fetchmany: the first one waits for the RESULT_SCAN,
              \* and any may download several chunks, each with a timeout of its own
  Pages,      \* full pages a result may have before the caps stop the fetch
  Grace,      \* how late the warehouse may enforce a statement timeout
  Policies    \* statement timeouts an operator may have set; 0 is none

ASSUME SnowflakeExecutionAssumption ==
  /\ MaxWait \in Nat \ {0} /\ Interval \in Nat \ {0}
  /\ Latency \in Nat /\ Grace \in Nat \ {0}
  /\ PageTime \in Nat /\ Pages \in Nat
  /\ Policies \subseteq Nat

VARIABLES
  pc,         \* the next step of execute_bounded: "connect", "apply", "submit",
              \* "poll", "sleep", "cancel", "throw", "attach", "fetch", "close",
              \* "done", or "gone" with the process
  policy,     \* STATEMENT_TIMEOUT_IN_SECONDS as the session finds it
  timeout,    \* ... and as it leaves it
  unread,     \* history: SHOW PARAMETERS told nothing of the policy
  conn,       \* the connection: "none", "open" or "closed"
  job,        \* the statement: "absent", "running", "succeeded", "failed"
  now,        \* the wall clock
  submitted,  \* when execute_async returned and the deadline was armed
  elapsed,    \* elapsed_seconds, the nominal sleeps
  pages,      \* full pages fetched
  outcome     \* "none", "returned" or "raised"

vars == <<pc, policy, timeout, unread, conn, job, now, submitted, elapsed, pages, outcome>>

-----------------------------------------------------------------------------
Init ==
  /\ pc = "connect"
  /\ policy \in Policies
  /\ timeout = policy
  /\ unread = FALSE
  /\ conn = "none"
  /\ job = "absent"
  /\ now = 0
  /\ submitted = 0
  /\ elapsed = 0
  /\ pages = 0
  /\ outcome = "none"

\* Time passes during a call, but no statement outlives its timeout by more
\* than Grace: it has to end first.
Passes(ticks) ==
  /\ now' = now + ticks
  /\ job = "running" /\ timeout # 0 => now' < submitted + timeout + Grace

Within(most) == \E ticks \in 0..most : Passes(ticks)

\* An exception leaves execute_bounded, through the finally clause if there is
\* a connection to close.
RaiseTo(next) == pc' = next /\ outcome' = "raised"

Raise == RaiseTo("close")

-----------------------------------------------------------------------------
\* snowflake.connector.connect
Connect ==
  /\ pc = "connect"
  /\ Within(Latency)
  /\ \/ pc' = "apply" /\ conn' = "open" /\ UNCHANGED outcome
     \/ RaiseTo("done") /\ UNCHANGED conn
  /\ UNCHANGED <<policy, timeout, unread, job, submitted, elapsed, pages>>

\* Mutant: the session timeout is set at login, whatever the policy.
BlindTimeout ==
  /\ pc = "apply"
  /\ Within(2 * Latency)
  /\ timeout' = MaxWait
  /\ pc' = "submit"
  /\ UNCHANGED <<policy, unread, conn, job, submitted, elapsed, pages, outcome>>

\* Mutant: 0 is taken for the strictest timeout instead of none at all.
KeepZeroTimeout ==
  /\ pc = "apply"
  /\ Within(2 * Latency)
  /\ \/ policy <= MaxWait /\ UNCHANGED <<timeout, unread>>
     \/ unread' \in BOOLEAN /\ (unread' \/ policy > MaxWait) /\ timeout' = MaxWait
  /\ pc' = "submit"
  /\ UNCHANGED <<policy, conn, job, submitted, elapsed, pages, outcome>>

\* Mutant: the half-configured connection is not closed.
LeakyApply ==
  /\ pc = "apply"
  /\ Within(2 * Latency)
  /\ \/ /\ timeout' = IF policy \in 1..MaxWait THEN policy ELSE MaxWait
        /\ pc' = "submit"
        /\ UNCHANGED outcome
     \/ RaiseTo("done") /\ UNCHANGED timeout
  /\ UNCHANGED <<policy, unread, conn, job, submitted, elapsed, pages>>

\* _apply_statement_timeout.  A timeout in 1..MaxWait is left alone if the row
\* of SHOW PARAMETERS tells it; with anything else in the row, or if the row is
\* missing or does not parse, whatever the policy is, the session gets MaxWait.
\* A failure of either statement closes the connection: three calls at most.
ApplyTimeout ==
  /\ pc = "apply"
  /\ Within(3 * Latency)
  /\ \/ /\ policy \in 1..MaxWait
        /\ pc' = "submit"
        /\ UNCHANGED <<timeout, unread, conn, outcome>>
     \/ /\ unread' \in BOOLEAN
        /\ unread' \/ policy \notin 1..MaxWait
        /\ timeout' = MaxWait
        /\ pc' = "submit"
        /\ UNCHANGED <<conn, outcome>>
     \/ conn' = "closed" /\ RaiseTo("done") /\ UNCHANGED <<timeout, unread>>
  /\ UNCHANGED <<policy, job, submitted, elapsed, pages>>

\* USE WAREHOUSE and execute_async.  The statement may have reached the
\* warehouse when they raise: its answer is lost, or carries no query id.
Submit ==
  /\ pc = "submit"
  /\ Within(2 * Latency)
  /\ submitted' = now'
  /\ \/ job' = "running" /\ pc' = "poll" /\ UNCHANGED outcome
     \/ job' \in {"absent", "running"} /\ Raise
  /\ UNCHANGED <<policy, timeout, unread, conn, elapsed, pages>>

\* Mutant: when its time is up, the loop ends as if the statement had.
HopefulPoll ==
  /\ pc = "poll"
  /\ Within(Latency)
  /\ \/ /\ pc' = IF job # "running" THEN "throw"
                 ELSE IF elapsed >= MaxWait THEN "fetch" ELSE "sleep"
        /\ UNCHANGED outcome
     \/ Raise
  /\ UNCHANGED <<policy, timeout, unread, conn, job, submitted, elapsed, pages>>

\* get_query_status and is_still_running; then the watchdog's test.
Poll ==
  /\ pc = "poll"
  /\ Within(Latency)
  /\ \/ /\ pc' = IF job # "running" THEN "throw"
                 ELSE IF elapsed >= MaxWait THEN "cancel" ELSE "sleep"
        /\ UNCHANGED outcome
     \/ Raise
  /\ UNCHANGED <<policy, timeout, unread, conn, job, submitted, elapsed, pages>>

Sleep ==
  /\ pc = "sleep"
  /\ Passes(Interval)
  /\ elapsed' = elapsed + Interval
  /\ pc' = "poll"
  /\ UNCHANGED <<policy, timeout, unread, conn, job, submitted, pages, outcome>>

\* _cancel_query, best effort, then the watchdog's TimeoutError.
Cancel ==
  /\ pc = "cancel"
  /\ Within(Latency)
  /\ \/ UNCHANGED job
     \/ job = "running" /\ job' = "failed"
  /\ Raise
  /\ UNCHANGED <<policy, timeout, unread, conn, submitted, elapsed, pages>>

\* Mutant: the statuses are not looked at once the statement has stopped.
NeverThrow ==
  /\ pc = "throw"
  /\ Within(2 * Latency)
  /\ pc' = "fetch"
  /\ UNCHANGED <<policy, timeout, unread, conn, job, submitted, elapsed, pages, outcome>>

\* get_query_status_throw_if_error
ThrowIfError ==
  /\ pc = "throw"
  /\ Within(Latency)
  /\ \/ job = "succeeded" /\ pc' = "attach" /\ UNCHANGED outcome
     \/ Raise
  /\ UNCHANGED <<policy, timeout, unread, conn, job, submitted, elapsed, pages>>

\* get_results_from_sfqid, a call with a status request of its own
Attach ==
  /\ pc = "attach"
  /\ Within(Latency)
  /\ \/ pc' = "fetch" /\ UNCHANGED outcome
     \/ Raise
  /\ UNCHANGED <<policy, timeout, unread, conn, job, submitted, elapsed, pages>>

\* Mutant: between_pages is not passed to iter_fetchmany.
AlwaysAsk == TRUE

\* _check_fetch_deadline: the first page is never pre-empted, and a request that
\* follows a full page is made before the deadline only.
MayAsk == pages = 0 \/ now < submitted + MaxWait

\* One fetchmany, and what collect_rows makes of it (module BoundedFetch): a full
\* page with more to come, or the end of the rows or a cap, or an error.  The
\* probe after a short page is part of that page's request: it downloads nothing.
FetchPage ==
  /\ pc = "fetch" /\ MayAsk
  /\ Within(PageTime)
  /\ \/ pages < Pages /\ pages' = pages + 1 /\ UNCHANGED <<pc, outcome>>
     \/ outcome' = "returned" /\ pc' = "close" /\ UNCHANGED pages
     \/ Raise /\ UNCHANGED pages
  /\ UNCHANGED <<policy, timeout, unread, conn, job, submitted, elapsed>>

\* The TimeoutError of the fetch; no cancel, for the statement is over.
FetchOverruns ==
  /\ pc = "fetch" /\ ~MayAsk
  /\ Raise
  /\ UNCHANGED <<policy, timeout, unread, conn, job, now, submitted, elapsed, pages>>

\* finally: conn.close(), whose own failure is swallowed.
Close ==
  /\ pc = "close"
  /\ Within(Latency)
  /\ conn' = "closed"
  /\ pc' = "done"
  /\ UNCHANGED <<policy, timeout, unread, job, submitted, elapsed, pages, outcome>>

-----------------------------------------------------------------------------
\* The warehouse ends the statement: done, failed or past its timeout.
JobEnds ==
  /\ job = "running"
  /\ job' \in {"succeeded", "failed"}
  /\ UNCHANGED <<pc, policy, timeout, unread, conn, now, submitted, elapsed, pages, outcome>>

\* SIGKILL: the thread and its watchdog are gone.
ProcessDies ==
  /\ pc # "done" /\ pc # "gone" /\ outcome = "none"
  /\ pc' = "gone"
  /\ UNCHANGED <<policy, timeout, unread, conn, job, now, submitted, elapsed, pages, outcome>>

ThreadStep ==
  \/ Connect \/ ApplyTimeout \/ Submit \/ Poll \/ Sleep \/ Cancel \/ ThrowIfError
  \/ Attach \/ FetchPage \/ FetchOverruns \/ Close

Next == ThreadStep \/ JobEnds \/ ProcessDies

Spec == Init /\ [][Next]_vars

\* The thread runs, and the warehouse enforces a statement timeout; one without
\* a timeout may run for ever.
FairSpec == Spec /\ WF_vars(ThreadStep) /\ WF_vars(timeout # 0 /\ JobEnds)

-----------------------------------------------------------------------------
\* The statement is never submitted without a timeout of its own, and an
\* operator's stricter policy is kept if it could be read (snowflake.py:61-67).
\* One that could not be read gives way to MaxWait, which may be the longer: there
\* the code fails closed (snowflake.py:93-94), and "never raise an existing
\* stricter value" (snowflake.py:91) holds of what it knows.
TimeoutOnlyLowered ==
  job # "absent" => timeout \in 1..MaxWait /\ (policy # 0 /\ ~unread => timeout <= policy)

\* The polling loop counts its sleeps and not its calls, and still the call ends on
\* time: the warehouse's deadline stops the statement, the thread finds out at its
\* next poll, and what is left is that poll, two calls, the close, and page
\* requests of which one at most ends after the fetch's own deadline.
EndsOnTime ==
  job # "absent" /\ pc # "gone" =>
    now < submitted + MaxWait + Grace + Interval + 4 * Latency + PageTime

Execution == INSTANCE BoundedExecution WITH
  session <- conn,
  caller  <- IF pc = "gone" THEN "gone" ELSE IF outcome = "none" THEN "working" ELSE outcome

\* The engine implements what the server relies on.  In particular: rows are
\* only returned of a statement that succeeded, never of one the warehouse
\* stopped or this watchdog gave up on; a statement that reached the warehouse
\* ends, although the answer to its submission, its cancel, or the whole process
\* may be lost; and every exit closes the connection, a failure between the login
\* and the session's timeout included.
ImplementsExecution == Execution!FairSpec

=============================================================================
