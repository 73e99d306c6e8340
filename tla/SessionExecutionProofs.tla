----------------------- MODULE SessionExecutionProofs -----------------------
(***************************************************************************)
(* Proofs about the two engines that hold a session open while a statement   *)
(* runs.  SnowflakeExecution is extended, for every bound, polling interval, *)
(* latency, length of a page request and grace of the warehouse, and whatever *)
(* timeout the operator has set, read or not; DatabricksExecution is an instance, in every interleaving of the     *)
(* calling thread, the daemon thread and the warehouse.                      *)
(***************************************************************************)
EXTENDS SnowflakeExecution, TLAPS

Steps == {"connect", "apply", "submit", "poll", "sleep", "cancel", "throw", "attach",
          "fetch", "close", "done", "gone"}

TypeOK ==
  /\ pc \in Steps
  /\ policy \in Nat /\ timeout \in Nat /\ unread \in BOOLEAN
  /\ conn \in {"none", "open", "closed"}
  /\ job \in {"absent", "running", "succeeded", "failed"}
  /\ now \in Nat /\ submitted \in Nat /\ elapsed \in Nat /\ pages \in Nat
  /\ outcome \in {"none", "returned", "raised"}

\* What is so at each step of the thread: the connection, the outcome, and what
\* is known of the statement.
PhaseInv ==
  /\ pc = "connect" => conn = "none"
  /\ pc \notin {"connect", "done", "gone"} => conn = "open"
  /\ pc \in {"connect", "apply", "submit"} => job = "absent"
  /\ pc \in {"poll", "sleep", "cancel", "throw", "attach", "fetch"} => job # "absent"
  /\ pc = "throw" => job # "running"
  /\ pc \in {"attach", "fetch"} \/ outcome = "returned" => job = "succeeded"
  /\ pc \in {"close", "done"} <=> outcome # "none"

\* The session has its timeout before the statement is submitted, and keeps a
\* stricter one that could be read.
TimeoutApplied == timeout \in 1..MaxWait /\ (policy # 0 /\ ~unread => timeout <= policy)

TimeoutInv ==
  /\ pc \in {"connect", "apply"} => timeout = policy /\ ~unread
  /\ pc \notin {"connect", "apply", "done", "gone"} \/ job # "absent" => TimeoutApplied

\* How late it may be at each step: a statement is over by the provider's
\* deadline; the thread sees that one sleep later at most, and then has four
\* calls to make and the pages to fetch.  However many there are, a request that
\* begins late is the first, so that what follows it is over.
Deadline == submitted + MaxWait + Grace

TimeInv ==
  job # "absent" /\ pc # "gone" =>
    /\ job = "running" \/ pc \in {"sleep", "cancel"} => now < Deadline
    /\ pc = "poll"   => now < Deadline + Interval
    /\ pc = "throw"  => now < Deadline + Interval + Latency
    /\ pc = "attach" => now < Deadline + Interval + 2 * Latency
    /\ pc = "fetch"  => now < Deadline + Interval + 3 * Latency + (IF pages = 0 THEN 0 ELSE PageTime)
    /\ pc = "close"  => now < Deadline + Interval + 3 * Latency + PageTime
    /\ now < Deadline + Interval + 4 * Latency + PageTime

\* Pages are fetched at the fetch only.
PagesInv == pc \notin {"fetch", "close", "done", "gone"} => pages = 0

IndInv == TypeOK /\ PhaseInv /\ TimeoutInv /\ PagesInv /\ TimeInv

-----------------------------------------------------------------------------
\* A step takes no time or some, and not past the deadline of a statement that
\* runs under a timeout.
LEMMA PassesTime ==
  ASSUME TypeOK, NEW ticks \in Nat, Passes(ticks)
  PROVE  /\ now' \in Nat /\ now' = now + ticks
         /\ job = "running" /\ timeout # 0 => now' < submitted + timeout + Grace
  BY DEF TypeOK, Passes

LEMMA WithinTime ==
  ASSUME TypeOK, NEW most \in Nat, Within(most)
  PROVE  /\ now' \in Nat /\ now <= now' /\ now' <= now + most
         /\ job = "running" /\ timeout # 0 => now' < submitted + timeout + Grace
  BY PassesTime DEF TypeOK, Within

LEMMA IndInvInit == Init => IndInv
  <1>1. Init => unread \in BOOLEAN /\ ~unread
    BY Zenon DEF Init
  <1> QED
    BY <1>1, SnowflakeExecutionAssumption
    DEF Init, IndInv, TypeOK, Steps, PhaseInv, TimeoutInv, PagesInv, TimeInv

LEMMA TypeNext == TypeOK /\ [Next]_vars => TypeOK'
  <1> SUFFICES ASSUME TypeOK, [Next]_vars PROVE TypeOK'
    OBVIOUS
  <1>1. now' \in Nat
    <2> USE SnowflakeExecutionAssumption
    <2>1. CASE Connect \/ Poll \/ Cancel \/ ThrowIfError \/ Attach \/ Close
      BY <2>1, WithinTime DEF Connect, Poll, Cancel, ThrowIfError, Attach, Close
    <2>2. CASE ApplyTimeout
      BY <2>2, WithinTime, 3 * Latency \in Nat DEF ApplyTimeout
    <2>3. CASE Submit
      BY <2>3, WithinTime, 2 * Latency \in Nat DEF Submit
    <2>4. CASE FetchPage
      BY <2>4, WithinTime DEF FetchPage
    <2>5. CASE Sleep
      BY <2>5, PassesTime DEF Sleep
    <2>6. CASE FetchOverruns \/ JobEnds \/ ProcessDies \/ UNCHANGED vars
      BY <2>6 DEF FetchOverruns, JobEnds, ProcessDies, vars, TypeOK
    <2> QED
      BY <2>1, <2>2, <2>3, <2>4, <2>5, <2>6 DEF Next, ThreadStep
  <1>2. /\ pc' \in Steps
        /\ outcome' \in {"none", "returned", "raised"}
        /\ conn' \in {"none", "open", "closed"}
    BY DEF TypeOK, Steps, Next, ThreadStep, Connect, ApplyTimeout, Submit, Poll, Sleep, Cancel,
       ThrowIfError, Attach, FetchPage, FetchOverruns, Close, JobEnds, ProcessDies, vars, Raise,
       RaiseTo
  <1>3. /\ job' \in {"absent", "running", "succeeded", "failed"}
        /\ policy' \in Nat /\ timeout' \in Nat /\ unread' \in BOOLEAN
        /\ submitted' \in Nat /\ elapsed' \in Nat /\ pages' \in Nat
    BY <1>1, SnowflakeExecutionAssumption
    DEF TypeOK, Next, ThreadStep, Connect, ApplyTimeout, Submit, Poll, Sleep, Cancel,
        ThrowIfError, Attach, FetchPage, FetchOverruns, Close, JobEnds, ProcessDies, vars
  <1> QED
    BY <1>1, <1>2, <1>3 DEF TypeOK

LEMMA PhaseNext == TypeOK /\ PhaseInv /\ [Next]_vars => PhaseInv'
  <1> SUFFICES ASSUME TypeOK, PhaseInv, [Next]_vars PROVE PhaseInv'
    OBVIOUS
  <1> USE DEF TypeOK, Steps, PhaseInv, Raise, RaiseTo
  <1>1. CASE Connect       BY <1>1 DEF Connect
  <1>2. CASE ApplyTimeout  BY <1>2 DEF ApplyTimeout
  <1>3. CASE Submit        BY <1>3 DEF Submit
  <1>4. CASE Poll          BY <1>4 DEF Poll
  <1>5. CASE Sleep         BY <1>5 DEF Sleep
  <1>6. CASE Cancel        BY <1>6 DEF Cancel
  <1>7. CASE ThrowIfError  BY <1>7 DEF ThrowIfError
  <1>8. CASE Attach        BY <1>8 DEF Attach
  <1>9. CASE FetchPage \/ FetchOverruns
    BY <1>9 DEF FetchPage, FetchOverruns
  <1>10. CASE Close        BY <1>10 DEF Close
  <1>11. CASE JobEnds      BY <1>11 DEF JobEnds
  <1>12. CASE ProcessDies  BY <1>12 DEF ProcessDies
  <1>13. CASE UNCHANGED vars BY <1>13 DEF vars
  <1> QED
    BY <1>1, <1>2, <1>3, <1>4, <1>5, <1>6, <1>7, <1>8, <1>9, <1>10, <1>11, <1>12, <1>13
    DEF Next, ThreadStep

LEMMA TimeoutNext == IndInv /\ [Next]_vars => TimeoutInv'
  <1> SUFFICES ASSUME IndInv, [Next]_vars PROVE TimeoutInv'
    OBVIOUS
  <1> USE DEF IndInv, TypeOK, PhaseInv, TimeoutInv, TimeoutApplied
  <1>1. CASE Connect
    BY <1>1 DEF Connect, RaiseTo
  <1>2. CASE ApplyTimeout
    BY <1>2, SnowflakeExecutionAssumption DEF ApplyTimeout, RaiseTo
  <1>3. CASE Submit \/ Poll \/ Sleep \/ Cancel
    BY <1>3 DEF Submit, Poll, Sleep, Cancel, Raise, RaiseTo
  <1>4. CASE ThrowIfError \/ Attach \/ FetchPage \/ FetchOverruns \/ Close
    BY <1>4 DEF ThrowIfError, Attach, FetchPage, FetchOverruns, Close, Raise, RaiseTo
  <1>5. CASE JobEnds \/ ProcessDies \/ UNCHANGED vars
    BY <1>5 DEF JobEnds, ProcessDies, vars
  <1> QED
    BY <1>1, <1>2, <1>3, <1>4, <1>5 DEF Next, ThreadStep

LEMMA PagesNext == IndInv /\ [Next]_vars => PagesInv'
  <1> SUFFICES ASSUME IndInv, [Next]_vars PROVE PagesInv'
    OBVIOUS
  <1> USE DEF IndInv, PagesInv, Raise, RaiseTo
  <1>1. CASE Connect \/ ApplyTimeout \/ Submit \/ Poll \/ Sleep \/ Cancel
    BY <1>1 DEF Connect, ApplyTimeout, Submit, Poll, Sleep, Cancel
  <1>2. CASE ThrowIfError \/ Attach \/ FetchPage \/ FetchOverruns \/ Close
    BY <1>2 DEF ThrowIfError, Attach, FetchPage, FetchOverruns, Close
  <1>3. CASE JobEnds \/ ProcessDies \/ UNCHANGED vars
    BY <1>3 DEF JobEnds, ProcessDies, vars
  <1> QED
    BY <1>1, <1>2, <1>3 DEF Next, ThreadStep

\* The watchdog's test plays no part here: it is the provider's deadline that
\* bounds the loop.
LEMMA TimeNext == IndInv /\ [Next]_vars => TimeInv'
  <1> SUFFICES ASSUME IndInv, [Next]_vars PROVE TimeInv'
    OBVIOUS
  <1> USE SnowflakeExecutionAssumption DEF TimeInv, Deadline
  <1>0. TypeOK /\ PhaseInv /\ PagesInv /\ TimeInv
    BY DEF IndInv
  <1>1. job = "running" => timeout # 0 /\ submitted + timeout + Grace <= Deadline
    BY DEF IndInv, TypeOK, TimeoutInv, TimeoutApplied
  <1>2. CASE Connect \/ ApplyTimeout
    BY <1>0, <1>2 DEF Connect, ApplyTimeout, RaiseTo, PhaseInv
  <1>3. CASE Submit
    BY <1>0, <1>3, WithinTime, 2 * Latency \in Nat DEF Submit, Raise, RaiseTo, TypeOK
  <1>4. CASE Poll
    BY <1>0, <1>1, <1>4, WithinTime DEF Poll, Raise, RaiseTo, TypeOK
  <1>5. CASE Sleep
    BY <1>0, <1>1, <1>5, PassesTime DEF Sleep, TypeOK
  <1>6. CASE Cancel
    BY <1>0, <1>1, <1>6, WithinTime DEF Cancel, Raise, RaiseTo, TypeOK
  <1>7. CASE ThrowIfError
    BY <1>0, <1>7, WithinTime DEF ThrowIfError, Raise, RaiseTo, TypeOK, PhaseInv
  <1>8. CASE Attach
    BY <1>0, <1>8, WithinTime DEF Attach, Raise, RaiseTo, TypeOK, PhaseInv, PagesInv
  <1>9. CASE FetchPage
    BY <1>0, <1>9, WithinTime DEF FetchPage, MayAsk, Raise, RaiseTo, TypeOK, PhaseInv
  <1>10. CASE FetchOverruns
    BY <1>0, <1>10 DEF FetchOverruns, MayAsk, Raise, RaiseTo, TypeOK, PhaseInv
  <1>11. CASE Close
    BY <1>0, <1>1, <1>11, WithinTime DEF Close, TypeOK
  <1>12. CASE JobEnds \/ ProcessDies \/ UNCHANGED vars
    BY <1>0, <1>12 DEF JobEnds, ProcessDies, vars
  <1> QED
    BY <1>2, <1>3, <1>4, <1>5, <1>6, <1>7, <1>8, <1>9, <1>10, <1>11, <1>12 DEF Next, ThreadStep

\* The invariant holds at every moment of a call, for every bound, sleep and
\* length of a round trip.
THEOREM Inductive == Spec => []IndInv
  <1>1. IndInv /\ [Next]_vars => IndInv'
    BY TypeNext, PhaseNext, TimeoutNext, PagesNext, TimeNext DEF IndInv
  <1> QED
    BY IndInvInit, <1>1, PTL DEF Spec

-----------------------------------------------------------------------------
\* No statement is submitted without a timeout, and an operator's stricter one
\* is kept unless SHOW PARAMETERS did not tell it (snowflake.py:61-67, 93-94).
THEOREM TimeoutLowered == Spec => []TimeoutOnlyLowered
  <1>1. IndInv => TimeoutOnlyLowered
    BY DEF IndInv, TimeoutInv, TimeoutApplied, TimeoutOnlyLowered
  <1> QED
    BY Inductive, <1>1, PTL

\* A call is over one sleep, four calls of the connector and one page request
\* after the provider's deadline, however the watchdog counts and however many
\* pages the result has (execute_bounded, _check_fetch_deadline).
THEOREM OnTime == Spec => []EndsOnTime
  <1>1. IndInv => EndsOnTime
    BY SnowflakeExecutionAssumption DEF IndInv, TypeOK, TimeInv, Deadline, EndsOnTime
  <1> QED
    BY Inductive, <1>1, PTL

\* Every step of the engine is one that BoundedExecution allows, or none: the
\* safety half of ImplementsExecution.
THEOREM RefinesExecution == Spec => Execution!Spec
  <1>1. Init => Execution!Init
    BY DEF Init, Execution!Init
  <1>2. IndInv /\ [Next]_vars => [Execution!Next]_Execution!vars
    <2> SUFFICES ASSUME IndInv, [Next]_vars
                 PROVE  Execution!Next \/ UNCHANGED Execution!vars
      OBVIOUS
    <2>0. TypeOK /\ PhaseInv
      BY DEF IndInv
    <2> USE DEF PhaseInv, RaiseTo, Raise, Execution!Next, Execution!vars
    <2>1. CASE Connect
      BY <2>0, <2>1 DEF Connect, Execution!OpenSession, Execution!Raise
    <2>2. CASE ApplyTimeout
      BY <2>0, <2>2 DEF ApplyTimeout, Execution!Raise
    <2>3. CASE Submit
      BY <2>0, <2>3 DEF Submit, Execution!Submit, Execution!Raise
    <2>4. CASE Poll
      BY <2>0, <2>4 DEF Poll, Execution!Raise
    <2>5. CASE Sleep
      BY <2>0, <2>5 DEF Sleep
    <2>6. CASE Cancel
      BY <2>0, <2>6 DEF Cancel, Execution!Raise
    <2>7. CASE ThrowIfError
      BY <2>0, <2>7 DEF ThrowIfError, Execution!Raise
    <2>8. CASE Attach \/ FetchPage \/ FetchOverruns
      BY <2>0, <2>8 DEF Attach, FetchPage, FetchOverruns, Execution!Return, Execution!Raise
    <2>9. CASE Close
      BY <2>0, <2>9 DEF Close, Execution!CloseSession, TypeOK
    <2>10. CASE JobEnds
      BY <2>0, <2>10 DEF JobEnds, Execution!JobEnds
    <2>11. CASE ProcessDies
      BY <2>0, <2>11 DEF ProcessDies, Execution!Die
    <2>12. CASE UNCHANGED vars
      BY <2>12 DEF vars
    <2> QED
      BY <2>1, <2>2, <2>3, <2>4, <2>5, <2>6, <2>7, <2>8, <2>9, <2>10, <2>11, <2>12
      DEF Next, ThreadStep
  <1> QED
    BY Inductive, <1>1, <1>2, PTL DEF Spec, Execution!Spec

-----------------------------------------------------------------------------
(***************************************************************************)
(* Databricks.  Its variables of the same names are those above.             *)
(***************************************************************************)
VARIABLES runner, error, armed, late

Databricks == INSTANCE DatabricksExecution

DatabricksTypeOK ==
  /\ pc \in {"connect", "start", "join", "cancel", "check", "fetch", "close", "done", "gone"}
  /\ runner \in {"none", "sending", "waiting", "dead"}
  /\ error \in BOOLEAN /\ armed \in BOOLEAN /\ late \in BOOLEAN
  /\ conn \in {"none", "open", "closed"}
  /\ job \in {"absent", "running", "succeeded", "failed"}
  /\ outcome \in {"none", "returned", "raised"}

\* The calling thread: what it holds and what it knows at each of its steps.
CallerInv ==
  /\ pc = "connect" => conn = "none" /\ runner = "none"
  /\ pc \notin {"connect", "done", "gone"} => conn = "open"
  /\ pc \in {"check", "fetch"} => runner = "dead"
  /\ pc = "fetch" => ~error
  /\ pc \in {"close", "done"} <=> outcome # "none"
  /\ outcome = "returned" => runner = "dead" /\ job = "succeeded"

\* The daemon thread: without it there is no statement, and the error list,
\* which the caller reads, is empty only if the statement has succeeded.
RunnerInv ==
  /\ runner = "none" => job = "absent"
  /\ runner = "dead" /\ ~error /\ pc # "gone" => job = "succeeded"

DatabricksInv == DatabricksTypeOK /\ CallerInv /\ RunnerInv

-----------------------------------------------------------------------------
LEMMA DatabricksInvInit == Databricks!Init => DatabricksInv
  BY DEF Databricks!Init, DatabricksInv, DatabricksTypeOK, CallerInv, RunnerInv

LEMMA DatabricksInvNext == DatabricksInv /\ [Databricks!Next]_Databricks!vars => DatabricksInv'
  <1> SUFFICES ASSUME DatabricksInv, [Databricks!Next]_Databricks!vars PROVE DatabricksInv'
    OBVIOUS
  <1> USE DEF DatabricksInv, DatabricksTypeOK, CallerInv, RunnerInv
  <1>1. CASE Databricks!Connect         BY <1>1 DEF Databricks!Connect
  <1>2. CASE Databricks!StartThread     BY <1>2 DEF Databricks!StartThread, Databricks!Raise
  <1>3. CASE Databricks!Join            BY <1>3 DEF Databricks!Join
  <1>4. CASE Databricks!Cancel          BY <1>4 DEF Databricks!Cancel, Databricks!Raise
  <1>5. CASE Databricks!CheckError      BY <1>5 DEF Databricks!CheckError, Databricks!Raise
  <1>6. CASE Databricks!Fetch           BY <1>6 DEF Databricks!Fetch, Databricks!Raise
  <1>7. CASE Databricks!Close           BY <1>7 DEF Databricks!Close
  <1>8. CASE Databricks!Lands           BY <1>8 DEF Databricks!Lands
  <1>9. CASE Databricks!Sent            BY <1>9 DEF Databricks!Sent, Databricks!RunnerEnds
  <1>10. CASE Databricks!Wait           BY <1>10 DEF Databricks!Wait, Databricks!RunnerEnds
  <1>11. CASE Databricks!JobEnds        BY <1>11 DEF Databricks!JobEnds
  <1>12. CASE Databricks!DeadlinePasses BY <1>12 DEF Databricks!DeadlinePasses
  <1>13. CASE Databricks!ProcessDies    BY <1>13 DEF Databricks!ProcessDies
  <1>14. CASE UNCHANGED Databricks!vars BY <1>14 DEF Databricks!vars
  <1> QED
    BY <1>1, <1>2, <1>3, <1>4, <1>5, <1>6, <1>7, <1>8, <1>9, <1>10, <1>11, <1>12, <1>13, <1>14
    DEF Databricks!Next, Databricks!CallerStep

\* The invariant holds in every interleaving of the two threads and the warehouse.
THEOREM DatabricksInductive == Databricks!Spec => []DatabricksInv
  BY DatabricksInvInit, DatabricksInvNext, PTL DEF Databricks!Spec

-----------------------------------------------------------------------------
\* Rows are read of a cursor that no thread writes any more, and of a statement
\* that has succeeded (databricks.py, execute_bounded).
THEOREM RowsAreOfASuccess == Databricks!Spec => []Databricks!RowsOfASuccess
  <1>1. DatabricksInv => Databricks!RowsOfASuccess
    BY DEF DatabricksInv, DatabricksTypeOK, CallerInv, RunnerInv, Databricks!RowsOfASuccess
  <1> QED
    BY DatabricksInductive, <1>1, PTL

\* Every step of either thread is one that BoundedExecution allows, or none: the
\* safety half of ImplementsExecution.
THEOREM DatabricksRefines == Databricks!Spec => Databricks!Execution!Spec
  <1>1. Databricks!Init => Databricks!Execution!Init
    BY DEF Databricks!Init, Databricks!Execution!Init
  <1>2. DatabricksInv /\ [Databricks!Next]_Databricks!vars => [Databricks!Execution!Next]_Databricks!Execution!vars
    <2> SUFFICES ASSUME DatabricksInv, [Databricks!Next]_Databricks!vars
                 PROVE  Databricks!Execution!Next \/ UNCHANGED Databricks!Execution!vars
      OBVIOUS
    <2> USE DEF DatabricksInv, DatabricksTypeOK, CallerInv, RunnerInv, Databricks!Raise, Databricks!Execution!Next, Databricks!Execution!vars
    <2>1. CASE Databricks!Connect
      BY <2>1 DEF Databricks!Connect, Databricks!Execution!OpenSession, Databricks!Execution!Raise
    <2>2. CASE Databricks!StartThread \/ Databricks!CheckError
      BY <2>2 DEF Databricks!StartThread, Databricks!CheckError, Databricks!Execution!Raise
    <2>3. CASE Databricks!Cancel
      BY <2>3 DEF Databricks!Cancel, Databricks!Execution!Raise
    <2>4. CASE Databricks!Fetch
      BY <2>4 DEF Databricks!Fetch, Databricks!Execution!Return, Databricks!Execution!Raise
    <2>5. CASE Databricks!Close
      BY <2>5 DEF Databricks!Close, Databricks!Execution!CloseSession
    <2>6. CASE Databricks!Lands
      BY <2>6 DEF Databricks!Lands, Databricks!Execution!Submit
    <2>7. CASE Databricks!Join \/ Databricks!Sent \/ Databricks!Wait \/ Databricks!DeadlinePasses
      BY <2>7 DEF Databricks!Join, Databricks!Sent, Databricks!Wait, Databricks!RunnerEnds, Databricks!DeadlinePasses
    <2>8. CASE Databricks!JobEnds
      BY <2>8 DEF Databricks!JobEnds, Databricks!Execution!JobEnds
    <2>9. CASE Databricks!ProcessDies
      BY <2>9 DEF Databricks!ProcessDies, Databricks!Execution!Die
    <2>10. CASE UNCHANGED Databricks!vars
      BY <2>10 DEF Databricks!vars
    <2> QED
      BY <2>1, <2>2, <2>3, <2>4, <2>5, <2>6, <2>7, <2>8, <2>9, <2>10 DEF Databricks!Next, Databricks!CallerStep
  <1> QED
    BY DatabricksInductive, <1>1, <1>2, PTL DEF Databricks!Spec, Databricks!Execution!Spec

=============================================================================
