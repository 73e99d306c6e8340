------------------------------ MODULE InFlight ------------------------------
(***************************************************************************)
(* The life of run_query_bounded calls in the server process: server.py    *)
(* lines 92-230, with the outcome record of errors.py and the cancellation  *)
(* point of tools/run_query_bounded.py.                                     *)
(*                                                                         *)
(* Four actors share the state:                                             *)
(*   - the host, which issues calls and cancels them;                       *)
(*   - the event loop, which runs the handler coroutine of each call;       *)
(*   - one anyio worker thread per call, which does the blocking work;      *)
(*   - the warehouse, where a submitted query lives on its own.             *)
(* A cancel detaches the handler at once (abandon_on_cancel=True) and       *)
(* leaves the thread, its in-flight slot and its query behind.              *)
(***************************************************************************)
EXTENDS Naturals, FiniteSets

CONSTANTS
  Calls,        \* identities of calls; one is reused once all of it is over
  MaxInFlight,  \* _MAX_IN_FLIGHT_QUERIES
  Tokens        \* anyio's thread-limiter tokens

ASSUME InFlightAssumption ==
  /\ IsFiniteSet(Calls)
  /\ MaxInFlight \in Nat \ {0}
  /\ Tokens \in Nat \ {0}

VARIABLES
  handler,      \* where the coroutine of the call is
  worker,       \* where the worker thread of the call is
  free,         \* the value of _RUN_QUERY_BOUNDED_IN_FLIGHT
  verdict,      \* how the function run by the thread ended
  outcome,      \* the outcome=... of the call's log record
  cancelledAt,  \* when the cancel scope of the call was cancelled, if it was
  query         \* the call's statement at the warehouse

vars == <<handler, worker, free, verdict, outcome, cancelledAt, query>>

-----------------------------------------------------------------------------
\* The phases of a thread, in the order it goes through them.
Handlers == {"new", "waiting", "awaiting", "returned"}
Idle     == {"none", "skipped", "exited"}
PreCheck == {"none", "queued", "entered", "estimating", "checking"}
Slotted  == {"estimating", "checking", "dispatched", "polling", "releasing"}
Workers  == Idle \cup {"queued", "entered"} \cup Slotted
Verdicts == {"none", "success", "error", "cancelled", "full"}
Outcomes == {"none", "success", "error", "cancelled"}

Holders == {c \in Calls : worker[c] \in Slotted}
TokenHolders == {c \in Calls : handler[c] = "awaiting"}

Init ==
  /\ handler = [c \in Calls |-> "new"]
  /\ worker = [c \in Calls |-> "none"]
  /\ free = MaxInFlight
  /\ verdict = [c \in Calls |-> "none"]
  /\ outcome = [c \in Calls |-> "none"]
  /\ cancelledAt = [c \in Calls |-> "no"]
  /\ query = [c \in Calls |-> "none"]

-----------------------------------------------------------------------------
\* The event loop.

\* A tools/call request reaches _run_query_bounded_safe.  Its identity is free
\* once an earlier call's coroutine, thread and query are all over.
Start(c) ==
  /\ handler[c] \in {"new", "returned"}
  /\ worker[c] \in Idle
  /\ query[c] # "live"
  /\ handler' = [handler EXCEPT ![c] = "waiting"]
  /\ worker' = [worker EXCEPT ![c] = "none"]
  /\ verdict' = [verdict EXCEPT ![c] = "none"]
  /\ outcome' = [outcome EXCEPT ![c] = "none"]
  /\ cancelledAt' = [cancelledAt EXCEPT ![c] = "no"]
  /\ query' = [query EXCEPT ![c] = "none"]
  /\ UNCHANGED free

\* anyio.to_thread.run_sync: take a limiter token, hand the job to a thread
\* and await its future.
RunSync(c) ==
  /\ handler[c] = "waiting"
  /\ Cardinality(TokenHolders) < Tokens
  /\ handler' = [handler EXCEPT ![c] = "awaiting"]
  /\ worker' = [worker EXCEPT ![c] = "queued"]
  /\ UNCHANGED <<free, verdict, outcome, cancelledAt, query>>

\* notifications/cancelled: the dispatcher cancels the handler's CancelScope.
\* The phase of the thread at that moment is remembered: "early" is before
\* the check_cancelled call returns.
Cancel(c) ==
  /\ handler[c] \in {"waiting", "awaiting"}
  /\ cancelledAt[c] = "no"
  /\ cancelledAt' = [cancelledAt EXCEPT ![c] =
       IF worker[c] \in PreCheck THEN "early" ELSE "late"]
  /\ UNCHANGED <<handler, worker, free, verdict, outcome, query>>

\* Mutant: abandon_on_cancel=False, anyio's default, shields the await until
\* the thread is done.
ShieldedDetach(c) ==
  /\ handler[c] \in {"waiting", "awaiting"}
  /\ cancelledAt[c] # "no"
  /\ worker[c] \in Idle
  /\ handler' = [handler EXCEPT ![c] = "returned"]
  /\ outcome' = [outcome EXCEPT ![c] = "cancelled"]
  /\ UNCHANGED <<worker, free, verdict, cancelledAt, query>>

\* The cancellation reaches the coroutine: run_sync gives its token back and
\* CancelledError goes through as_tool_error, which records "cancelled".  The
\* thread is not told.
Detach(c) ==
  /\ handler[c] \in {"waiting", "awaiting"}
  /\ cancelledAt[c] # "no"
  /\ handler' = [handler EXCEPT ![c] = "returned"]
  /\ outcome' = [outcome EXCEPT ![c] = "cancelled"]
  /\ UNCHANGED <<worker, free, verdict, cancelledAt, query>>

\* The record as_tool_error logs.  check_cancelled raises CancelledError in
\* the thread; the future carries it to the coroutine.
AsToolError(v) == IF v \in {"success", "cancelled"} THEN v ELSE "error"

\* Mutant: the thread's report is not dropped for a detached call.
LateDeliver(c) ==
  /\ worker[c] = "exited"
  /\ handler[c] \in {"awaiting", "returned"}
  /\ outcome[c] # AsToolError(verdict[c])
  /\ handler' = [handler EXCEPT ![c] = "returned"]
  /\ outcome' = [outcome EXCEPT ![c] = AsToolError(verdict[c])]
  /\ UNCHANGED <<worker, free, verdict, cancelledAt, query>>

\* The thread's result or exception reaches a coroutine still awaiting it.
Deliver(c) ==
  /\ worker[c] = "exited"
  /\ handler[c] = "awaiting"
  /\ handler' = [handler EXCEPT ![c] = "returned"]
  /\ outcome' = [outcome EXCEPT ![c] = AsToolError(verdict[c])]
  /\ UNCHANGED <<worker, free, verdict, cancelledAt, query>>

-----------------------------------------------------------------------------
\* The worker thread: _run_query_bounded_holding_in_flight_slot.

Goto(c, phase) == worker' = [worker EXCEPT ![c] = phase]
End(c, phase, v) == Goto(c, phase) /\ verdict' = [verdict EXCEPT ![c] = v]

\* anyio's WorkerThread.run skips the function when the future is already
\* cancelled by the time the thread picks the job up.
PickUp(c) ==
  /\ worker[c] = "queued"
  /\ Goto(c, IF handler[c] = "awaiting" THEN "entered" ELSE "skipped")
  /\ UNCHANGED <<handler, free, verdict, outcome, cancelledAt, query>>

\* Mutant: the slot is taken one call too late.
OffByOneAcquire(c) ==
  /\ worker[c] = "entered"
  /\ free >= 0
  /\ free' = free - 1
  /\ Goto(c, "estimating")
  /\ UNCHANGED <<handler, verdict, outcome, cancelledAt, query>>

\* Mutant: a blocking acquire parks the thread, and its token, behind the cap.
BlockingAcquire(c) ==
  /\ worker[c] = "entered"
  /\ free > 0
  /\ free' = free - 1
  /\ Goto(c, "estimating")
  /\ UNCHANGED <<handler, verdict, outcome, cancelledAt, query>>

\* acquire(blocking=False), or UserVisibleError when the cap is reached.
Acquire(c) ==
  /\ worker[c] = "entered"
  /\ \/ /\ free > 0
        /\ free' = free - 1
        /\ Goto(c, "estimating")
        /\ UNCHANGED verdict
     \/ free = 0 /\ End(c, "exited", "full") /\ UNCHANGED free
  /\ UNCHANGED <<handler, outcome, cancelledAt, query>>

\* Gates, estimate and cap checks: a refusal is a normal result, an invalid
\* argument or a failed estimate raises, otherwise the call goes on.
Estimate(c) ==
  /\ worker[c] = "estimating"
  /\ \/ \E v \in {"success", "error"} : End(c, "releasing", v)
     \/ Goto(c, "checking") /\ UNCHANGED verdict
  /\ UNCHANGED <<handler, free, outcome, cancelledAt, query>>

\* Mutant: the tool body is called without before_execute.
NoCheck(c) ==
  /\ worker[c] = "checking"
  /\ Goto(c, "dispatched")
  /\ UNCHANGED <<handler, free, verdict, outcome, cancelledAt, query>>

\* Mutant: no try/finally, an exception of the hook skips the release.
LeakOnCancel(c) ==
  /\ worker[c] = "checking"
  /\ \/ cancelledAt[c] = "no" /\ Goto(c, "dispatched") /\ UNCHANGED verdict
     \/ cancelledAt[c] # "no" /\ End(c, "exited", "cancelled")
  /\ UNCHANGED <<handler, free, outcome, cancelledAt, query>>

\* before_execute(): anyio.from_thread.check_cancelled.
CheckCancelled(c) ==
  /\ worker[c] = "checking"
  /\ \/ cancelledAt[c] = "no" /\ Goto(c, "dispatched") /\ UNCHANGED verdict
     \/ cancelledAt[c] # "no" /\ End(c, "releasing", "cancelled")
  /\ UNCHANGED <<handler, free, outcome, cancelledAt, query>>

\* The engine connects and submits: the query starts; or no query starts and
\* the engine raises; or the engine raises on a submission the warehouse did
\* accept (its answer was lost).
Submit(c) ==
  /\ worker[c] = "dispatched"
  /\ \/ query' = [query EXCEPT ![c] = "live"] /\ Goto(c, "polling") /\ UNCHANGED verdict
     \/ \E q \in {"none", "live"} :
          query' = [query EXCEPT ![c] = q] /\ End(c, "releasing", "error")
  /\ UNCHANGED <<handler, free, outcome, cancelledAt>>

\* Mutant: a watchdog that has given up returns the rows it has.
HopefulEngineEnd(c) ==
  /\ worker[c] = "polling"
  /\ \E v \in {"success", "error"} : End(c, "releasing", v)
  /\ UNCHANGED <<handler, free, outcome, cancelledAt, query>>

\* The engine saw its query end and returns its rows or its error.
EngineEnd(c) ==
  /\ worker[c] = "polling"
  /\ query[c] = "over"
  /\ \E v \in {"success", "error"} : End(c, "releasing", v)
  /\ UNCHANGED <<handler, free, outcome, cancelledAt, query>>

\* Mutant: a result wait without a timeout.
NoWatchdog(c) == FALSE

\* The engine gives up on a query that is still live: the watchdog cancels it,
\* best effort, or a status call fails and nothing is cancelled.
GiveUp(c) ==
  /\ worker[c] = "polling"
  /\ query[c] = "live"
  /\ \E q \in {"live", "over"} : query' = [query EXCEPT ![c] = q]
  /\ End(c, "releasing", "error")
  /\ UNCHANGED <<handler, free, outcome, cancelledAt>>

\* Mutant: released once by the thread and once more for a detached call.
DoubleRelease(c) ==
  /\ worker[c] = "releasing"
  /\ free' = free + IF handler[c] = "returned" THEN 2 ELSE 1
  /\ Goto(c, "exited")
  /\ UNCHANGED <<handler, verdict, outcome, cancelledAt, query>>

\* finally: _RUN_QUERY_BOUNDED_IN_FLIGHT.release().  A BoundedSemaphore raises
\* when its value would pass the initial one.
Release(c) ==
  /\ worker[c] = "releasing"
  /\ free' = free + 1
  /\ Goto(c, "exited")
  /\ UNCHANGED <<handler, verdict, outcome, cancelledAt, query>>

-----------------------------------------------------------------------------
\* The warehouse, and the end of the process.

\* A live query ends: on its own, or by the provider-side deadline that every
\* engine attaches to what it submits.
WarehouseEnds(c) ==
  /\ query[c] = "live"
  /\ query' = [query EXCEPT ![c] = "over"]
  /\ UNCHANGED <<handler, worker, free, verdict, outcome, cancelledAt>>

\* The host kills the server and starts it again: handlers, threads and the
\* semaphore are gone, the queries at the warehouse are not.
Restart ==
  /\ handler' = [c \in Calls |-> "new"]
  /\ worker' = [c \in Calls |-> "none"]
  /\ free' = MaxInFlight
  /\ verdict' = [c \in Calls |-> "none"]
  /\ outcome' = [c \in Calls |-> "none"]
  /\ cancelledAt' = [c \in Calls |-> "no"]
  /\ UNCHANGED query

LoopStep(c) == Start(c) \/ RunSync(c) \/ Detach(c) \/ Deliver(c)

ThreadStep(c) ==
  \/ PickUp(c) \/ Acquire(c) \/ Estimate(c) \/ CheckCancelled(c)
  \/ Submit(c) \/ EngineEnd(c) \/ GiveUp(c) \/ Release(c)

Next ==
  \/ \E c \in Calls : LoopStep(c) \/ Cancel(c) \/ ThreadStep(c) \/ WarehouseEnds(c)
  \/ Restart

Spec == Init /\ [][Next]_vars

\* The event loop runs: it delivers cancellations and results and, the
\* limiter being first-come first-served, starts every waiting call.
LoopFairness ==
  \A c \in Calls : /\ WF_vars(Detach(c)) /\ WF_vars(Deliver(c))
                   /\ SF_vars(RunSync(c))

\* Threads run: no call a thread makes blocks for ever (each round trip and
\* each wait of an engine has a timeout).
ThreadFairness == \A c \in Calls : WF_vars(ThreadStep(c))

\* Only the event loop is fair: the warehouse may never answer a thread.
LoopSpec == Spec /\ LoopFairness

-----------------------------------------------------------------------------
TypeOK ==
  /\ handler \in [Calls -> Handlers]
  /\ worker \in [Calls -> Workers]
  /\ free \in 0..MaxInFlight
  /\ verdict \in [Calls -> Verdicts]
  /\ outcome \in [Calls -> Outcomes]
  /\ cancelledAt \in [Calls -> {"no", "early", "late"}]
  /\ query \in [Calls -> {"none", "live", "over"}]

\* Every slot is either free or held by a thread inside the guarded body, in
\* every interleaving of cancels, detaches, skips, failures and restarts: no
\* exit path leaks a slot and none releases one twice (server.py:100 "held for
\* the thread's whole lifetime, cancelled or not").
SlotConservation == free + Cardinality(Holders) = MaxInFlight

\* A cancel that arrives before the cancellation point - while the call waits
\* for a token, for a thread, for its estimate - never lets the thread reach
\* the warehouse (server.py:198-202).
EarlyCancelNeverBills ==
  \A c \in Calls : cancelledAt[c] = "early" =>
    /\ query[c] = "none"
    /\ worker[c] \notin {"dispatched", "polling"}

\* A call whose record says success has left nothing running at the warehouse,
\* whatever its thread and the watchdog did meanwhile.
SuccessLeavesNothingLive ==
  \A c \in Calls : outcome[c] = "success" => query[c] # "live"

\* The outcome of a call is recorded once: what a detached call's thread
\* reports later never replaces "cancelled" (errors.py:189-191), until the
\* identity is reused or the process is gone.
OutcomeIsFinal ==
  [][\A c \in Calls : outcome[c] # "none" => outcome'[c] \in {outcome[c], "none"}]_vars

\* What ties the handler, the thread and the query of one call together; with
\* TypeOK and SlotConservation it is inductive (module InFlightProofs).
PhaseInv ==
  \A c \in Calls :
    /\ handler[c] = "waiting" => worker[c] = "none" /\ query[c] = "none"
    /\ handler[c] = "awaiting" => worker[c] # "none"
    /\ worker[c] \in (PreCheck \ {"none"}) \cup {"dispatched"} => query[c] = "none"
    /\ verdict[c] # "none" => worker[c] \in {"releasing", "exited"}
    /\ verdict[c] = "success" => query[c] # "live"
    /\ outcome[c] # "none" => handler[c] = "returned"
    /\ outcome[c] = "success" => verdict[c] = "success"

\* A stop button that returns promptly: a cancelled call returns to the host
\* even when its thread never makes another step (DECISIONS.md 574).
CancelReturns == \A c \in Calls : cancelledAt[c] # "no" ~> handler[c] \notin {"waiting", "awaiting"}

\* Every slot taken is given back, cancelled or not, when the threads run.
SlotReturned == ThreadFairness => \A c \in Calls : c \in Holders ~> c \notin Holders

\* A thread that holds no slot runs up to its acquire; those that hold one may
\* be stuck.
EntryFairness == \A c \in Calls : WF_vars(PickUp(c)) /\ WF_vars(Acquire(c))

\* Every call is answered; and even if the threads inside never move again, one
\* at the door is let in or refused, and does not park its token behind the cap
\* (server.py:151).
EveryCallAnswered ==
  /\ ThreadFairness =>
       \A c \in Calls : handler[c] = "waiting" ~> handler[c] \in {"new", "returned"}
  /\ EntryFairness =>
       \A c \in Calls : worker[c] = "entered" ~> worker[c] # "entered"

\* The in-flight cap as its operator sees it.
Rejected == {c \in Calls : verdict[c] = "full"}
Admission == INSTANCE AdmissionControl WITH inside <- Holders, rejected <- Rejected

\* The semaphore, the threads and the detaching handlers together implement
\* the admission control: no call enters a full house, none is turned away
\* from one with room, and a cancel alone changes nothing.
ImplementsAdmission == Admission!Spec

\* What the refusal text says (server.py:157-158): a cancelled call keeps its
\* slot until its query completes or the watchdog cancels it - so the
\* live query of a cancelled call always holds a slot.
CancelledQueryHoldsSlot ==
  \A c \in Calls : query[c] = "live" /\ cancelledAt[c] # "no" => c \in Holders

=============================================================================
