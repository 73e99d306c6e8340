# A TLA+ model of cost-guard-mcp

cost-guard-mcp is an MCP server that lets an agent estimate and run SQL on BigQuery,
Snowflake and Databricks under caps: an estimate before the run, a dollar cap, a byte cap, a
row cap, a size cap, a cap on the calls in flight and a deadline at the provider. This
directory holds specifications of the parts of it in which something can go wrong between
two steps, the instances that TLC checks, and the theorems that TLAPS proves.

Source paths below are relative to `src/src/cost_guard_mcp/`. `PROJECT.json` maps every
definition that stands for code to the lines it stands for.

## 1. Inventory

| component | state | operations | module | 
|---|---|---|---|
| in-flight cap, worker threads, cancellation (`server.py`, `errors.py`) | a bounded semaphore; per call a coroutine, a thread, a future, a log record | start, hand over to a thread, acquire, check for a cancel, release, detach, deliver | `InFlight` |
| `run_query_bounded` (`tools/run_query_bounded.py`) | the arguments, the estimate, the effective byte cap and where it came from, what ran and what was billed | validate, estimate, dollar gate, byte gate, derive a cap, cancellation point, dispatch, provider refusal, answer | `RunQueryBounded` |
| BigQuery dry run (`engines/bigquery.py`, `engines/bigquery_estimate_rules.py`) | the report and its accuracy | classify, price, round | `RunQueryBounded` |
| bounded fetch and result size (`result_bounds.py`, the end of `run_query_bounded.py`) | pages, the rows kept, the running estimate, the deadline | request a page, take a row, measure, trim, refuse | `BoundedFetch` |
| Snowflake execution (`engines/snowflake.py`) | a connection, its statement timeout, a query, the count of the polling loop | connect, read and lower the timeout, submit, poll, sleep, cancel, attach to the result, fetch its pages, close | `SnowflakeExecution` |
| Databricks execution (`engines/databricks.py`) | a connection, a daemon thread and its error list, a statement | connect, start, join, cancel, hand the error over, fetch, close | `DatabricksExecution` |
| BigQuery execution (`engines/bigquery.py`) | a job id, the jobs it stands for, retries | insert, wait, page, cancel | `BigQueryExecution` |
| Snowflake estimate and credential check, `pricing/` | a session, the observed warehouse, the guard's decision, the plan and the past runs | connect, USE, EXPLAIN, SHOW, region, history, context, price | `SnowflakeEstimate` |
| Databricks estimate and credential check, `pricing/` | the observed warehouse, a session, the plan | look up, refuse, open, EXPLAIN COST, price | `DatabricksEstimate` |
| statement gate (`sql_scope.py`, `sql_scope_keywords.py`) | the position and the end found by one pass over a text | one statement, one read statement, wrap in LIMIT | `SqlLexer`, `SqlScope`, `ReadGate`, `StatementGate` |
| row normaliser (`tools/result_rows.py`) and the size estimate of a row | none (pure functions of a row) | normalise, measure, cap the depth, estimate | `ResultRows` |
| configuration (`config.py`), redaction (`errors.py`), log filter, OpenTelemetry, capability table | none worth a state machine | | not modelled (section 8) |

How they interact:

* The MCP dispatcher runs one coroutine per call. `server.py` hands the blocking body to an
  anyio worker thread; a cancel detaches the coroutine at once and leaves the thread behind.
  Thread and loop share the semaphore, the future and the cancel scope.
* The thread runs `run_query_bounded`, which passes the text through the statement gate, calls the engine's estimate, its own gates, a
  callback into the server (the cancellation point) and the engine's `execute_bounded`.
* `execute_bounded` talks to a warehouse that goes its own way: it may accept a statement whose
  answer is lost, run on after a failed cancel, or end the statement at its own deadline. On
  Databricks a second, daemon thread does the talking.
* The rows go through the bounded fetch, and the answer through the size and row caps.
* The two read-only tools look at a warehouse before they use it. Other people start and
  stop it.

What is hard about it: a cancel at any of these points; statements nobody waits for any more;
a process that is killed while one runs; data and warehouses that change between a check and
its use; deadlines that race answers; and boundaries, where two roundings, a sentinel row or
the comma of a list decide. `PROJECT.json` lists these hazards at their lines, with the
properties that cover them.

What makes each component correct, in a sentence:

* in-flight cap: no slot is lost or freed twice, a cancel before the cancellation point never
  bills, an outcome is recorded once, every call is answered;
* caps: what is billed stays under what the caller allowed, nothing runs unchecked, and a
  refusal says truthfully which cap refused and whether anything ran;
* statement gate: what passes is one statement, and a read, however the engine reads the
  text; what is enclosed in a LIMIT can be; and ordinary text passes;
* fetch: an ok is complete, a refusal carries the longest prefix that fits, and the fetch
  stops near its caps and ends;
* executions: one statement at most, rows only of a statement that succeeded, every
  statement ends, whoever is still there to watch, and every session is closed;
* estimates: a read-only tool does not wake a warehouse, and a figure is not below what
  the warehouse that will run the query costs.

## 2. Modules

Abstract specifications, which say what a component promises:

* `AdmissionControl`: calls are let in while there is room and turned away only when there is
  none. A cancel does not exist here, because it may change nothing. `InFlight` implements it.
* `BoundedExecution`: one statement at most; rows only of one that succeeded; it ends whether
  the caller returned, raised or died; and a session that was opened is closed. Each of the
  three engines implements it, with its fairness.

Components:

* `InFlight`: `handler` is the coroutine, `worker` the thread, `free` the semaphore's value,
  `verdict` how the thread's function ended, `outcome` the log record, `query` the statement at
  the warehouse. `cancelledAt` is a history variable: on which side of the cancellation point
  the cancel arrived. Event-loop actions (`Start`, `RunSync`, `Detach`, `Deliver`), thread
  actions in the order of the code (`PickUp`, `Acquire`, `Estimate`, `CheckCancelled`,
  `Submit`, `EngineEnd` or `GiveUp`, `Release`), and the outside world (`Cancel`,
  `WarehouseEnds`, `Restart`).
* `RunQueryBounded`: one call from its arguments to its answer, one action per gate. Money is
  counted in the price of a byte, so that the two caps compare directly and the roundings
  (the price to a millionth of a dollar, the bill to MiB with a minimum, the derived cap up to
  MiB and clamped to int64) are what the code does. `DataChange` lets the tables grow or
  shrink at any moment. `Billed` is the bill of one table: the billing minimum is per table,
  and neither the code nor its derived cap knows how many tables a query has.
* `SqlLexer`: where the comment or the literal that opens at a position ends, per dialect, or
  that the text is refused. A text is a sequence of symbols, one for each thing the lexer tells
  apart: delimiters of one or two characters, the backslash, the characters at which somebody
  ends a line, and runs of letters. `SqlScope` is the pass of `assert_single_statement` over a
  text, one action per kind of turn of its loop. `ReadGate` is the walk that finds the keyword
  of every statement, through CTEs and parentheses. `StatementGate` puts the two gates and the
  decision to wrap in the order of the tools, and has the properties. They compare the verdicts
  with two modules about the world outside: `EngineLexers`, the set of readings an engine may
  have of a text where its documentation leaves them open, and `SqlGrammar`, statements made
  from derivations, so that what they are is known without a parser.
* `ResultRows`: nested cells, their normalised form, its bytes in JSON, and the estimate that
  the fetch makes of the row before. Dict keys that become one string, escapes, surrogates,
  base64 and the depth cap are what they are in the code.
* `BoundedFetch`: pages of every length, the deadline at any moment, the sentinel, the trim, the
  two truncating refusals and the note on capped cells. Three numbers of a row matter to it;
  `MCBoundedFetch` takes them from `ResultRows`.
* `SnowflakeExecution`: counts time, in ticks of a clock that every call advances. A call of the
  connector, its own requests and retries included, takes from none to `Latency` ticks, and an
  action that makes two or three takes up to so many times as long; a page request takes up to
  `PageTime`, whatever it waits for and downloads. The loop counts only its sleeps, the fetch looks
  at its deadline only in front of a request that follows a full page, and the warehouse ends a statement within
  `Grace` of its timeout. `unread` is a history variable: the row of SHOW PARAMETERS was
  missing or did not parse.
* `DatabricksExecution`: the calling thread and the daemon thread, with the cursor, the
  connection and the error list they share.
* `BigQueryExecution`: jobs by id, so that a retry (the same id) and a re-submission (a new
  one) differ; answers are lost.
* `Warehouses` is the vocabulary of the two estimates: the warehouses and who moves them, what
  a call has observed, what a gated statement does to a sleeping warehouse, how long a scan is
  assumed to run, and how a call ends. `SnowflakeEstimate` and `DatabricksEstimate` extend it
  with the steps of their `explain_estimate` and `check_credentials`, down to the figure: rate,
  price of the edition, and the runtime from past runs or from the sizes in the plan.
  `ReadOnlyTools` composes the two: one call, on the engine its argument names, with the
  properties of both.

`MCInFlight`, `MCBoundedFetch`, `MCRunQueryBounded`, `MCStatementGate` and `MCReadOnlyTools` define the values the
configurations use. The theorems about a component are in the module of its name and `Proofs`,
those about `SnowflakeExecution` and `DatabricksExecution`, which have a connection with sessions
in common, in `SessionExecutionProofs`; `FiniteSums` holds what the proofs share about sums and
greatest elements.

The seams between modules are their shared events. `InFlight`'s `Estimate` and `EngineEnd` stand for a
run of `RunQueryBounded`; its `Submit`, `GiveUp` and `WarehouseEnds` for what `BoundedExecution`
allows; `RunQueryBounded`'s `Answer` and `Fetch` of the executions (`FetchPage` and `FetchOverruns` on Snowflake) for a run of `BoundedFetch`; the
Boolean `RunQueryBounded` takes for its text gates for a run of `StatementGate`, whose `"wrapped"` is
`BoundedFetch`'s `wrapped`; and
the figure `RunQueryBounded` takes for Snowflake and Databricks for the `run` calls of `ReadOnlyTools`.

Operators under the heading "Mutant" are wrong versions of the definition after them. No
specification uses them; each shows that a property notices the mistake.

## 3. Runs that pass

| run | instance | what it shows |
|---|---|---|
| `InFlightSafety` | 3 calls, 2 slots, 2 tokens, symmetric; 100 488 states | slots are conserved, an early cancel never bills, a success leaves nothing live, an outcome is final, and admission control is implemented |
| `InFlightLive` | 2 calls, 1 slot, 1 token | a cancelled call returns though no thread moves; with running threads slots come back and every call is answered; at a full cap a call is refused although the threads inside are stuck |
| `StatementGate` | texts of up to 7 symbols, and of up to 9 of quotes, `;` and backslashes (the first two are `SELECT` and a space), on 3 dialects, with and without the opt-outs; statements with WITHs up to 3 deep, alone and in pairs; 901 261 states | what passes is one statement, and the wrap encloses it, in every reading of the engine; both gates lex alike; ordinary text passes; reads and only reads pass; queries and only queries are wrapped |
| `RunQueryBounded` | 7 sizes, 5 dollar caps with infinity and NaN, 5 byte caps; 140 306 states | the bill stays under the caps, nothing runs unchecked, `executed` and the blame are true, the rounding alone never refuses |
| `BoundedFetch` | results of 0 to 5 rows of 4 kinds, and of every cell of depth 3 or less; 3 rows allowed, pages of 2; 242 458 states | an ok is complete, the payload is the longest fit, placeholders are announced, the fetch stops, blames and ends as it should |
| `SnowflakeExecution` | bound 6, sleeps of 2, calls of 0 to 2, up to 3 page requests of 0 to 3, policies 0, 3, 9, read or not; 73 326 states | a statement has a timeout, which is only lowered from what was read; the call ends on time; implements `BoundedExecution` |
| `DatabricksExecution` | no constants | rows only of a finished statement and thread, the thread ends; implements `BoundedExecution` |
| `BigQueryExecution` | 2 ids, 4 attempts | one job, an outcome that matches it; implements `BoundedExecution` |
| `ReadOnlyTools` | 3 warehouse names (one a lower-case sibling, one outside the allowlist), 2 sizes, 2 editions, 2 scans, 4 histories; 1 005 248 states | a read-only tool wakes a warehouse only in the window it cannot close; no figure below the pinned warehouse; sessions closed; answers true |

Properties worth reading first:

* `SlotConservation`: the semaphore plus the threads inside the guarded body make up the cap in
  every interleaving of cancels, skipped jobs, exceptions and restarts.
* `RoundingNeverRefuses` and `BillStaysUnderCaps`: the two directions in which the derived
  byte cap could be wrong.
* `EndsOnTime`: the polling loop measures the wrong thing (its sleeps), and the call still
  ends, because the warehouse's deadline stops the statement and the next poll sees it. What
  may come after that deadline is one sleep, four calls of the connector (the poll, the status, the attachment to the
  result, the close) and one page request: a second would find the fetch's own deadline passed.
* `TimeoutOnlyLowered`: no statement is submitted without a timeout, and an operator's stricter
  one is kept if SHOW PARAMETERS told it.
* `OneStatementInEveryReading`: nobody documents where the three engines end a comment or a
  literal. The gate refuses what is uncertain, and what it lets pass is one statement, made of
  the same symbols, in all the readings that remain. `OrdinaryTextPasses` is the other half: it
  does not get there by refusing everything.
* `WrapEndsInCode`: the parenthesis that the LIMIT wrap appends is code and not the end of a
  comment, and the statement inside is all of the caller's.
* `OkIsComplete`: five layers may cut a result short, and none does so silently.
* `OnlyARaceWakes`: a read-only call has woken a warehouse only if it observed that same
  warehouse running and the warehouse has stopped since. The window is not closed, and
  DECISIONS.md 20 accepts it; on Snowflake it spans two statements, the region lookup and the
  history read, which both rest on one observation.
* `NeverPricedBelowPinned`: SHOW WAREHOUSES LIKE lists siblings too, history lists answers from
  the cache, and a plan may state no size, or Spark's number for unknown. Whatever comes, and
  whatever size and edition the caller asserts, a figure is at least what the pinned warehouse
  costs in the operator's edition, for the quickest billed run of the query or, without one,
  the largest known scan, or there is none. For a lookup that failed as a whole the asserted
  size takes the place of the warehouse's, the documented exception.
* `RowCapBlameIsTrueWithinBound`: the estimate of a row is a lower bound of its measure for
  every cell without colliding keys, so that a fetch it stops ends in the refusal it meant.

`CHECK_DEADLOCK FALSE` is set where one call is modelled: it ends. The `InFlight` runs go on for ever
and check deadlock.

## 4. Runs that find a disagreement

Three runs check one sentence each that a document or docstring says of the program, and find
the code doing something else. None is a defect of a cap; each is a sentence to put right.

* `InFlightSlotText`: the refusal text says a cancelled call keeps its slot until its query
  completes or the watchdog cancels it. A thread frees the slot when its engine raises, and an
  engine raises with a live query when the answer to a submission is lost, a status call
  fails or the cancel fails. The query is then bounded by the provider's deadline alone.
* `BoundedFetchHint`: a fetch stopped by its size estimate at exactly `max_rows` rows is told that
  the query returned more than `max_rows`. It needs an estimate over the exact size, which
  dict keys that collide as strings produce. `RowCapBlameIsTrueWithinBound` shows that the hint is true
  otherwise.
* `RunQueryBoundedGateText`: the docstring says that what the gate admits the provider admits.
  The gate compares a price rounded to a millionth of a dollar, and bytes worth less than half
  of one over a cap round down to it.

Seen in the code and disclosed there: a statement timeout that cannot be read is replaced by the
watchdog's bound, even if it was stricter. The docstring of `_apply_statement_timeout` (snowflake.py:91)
says that a stricter value is never raised, and in its next sentence that it fails closed on a
missing or unparseable one. Both hold of what the code has read, which is how `TimeoutOnlyLowered` puts it.

Seen and not modelled, because no run counts log records: DECISIONS.md 591-593 says one WARNING
record per timed-out call; on Snowflake the watchdog logs one and `sanitize_exceptions` another.

## 5. Bounds

Most safety properties hold for all values of the constants (section 7); for these the bounds
below say what makes a run find a mistake, and for the others, which section 7 lists, and for
liveness they also say what is known.

* Calls, slots and tokens (`InFlight`): with two slots and two tokens, two calls compete for
  either while a third is over the cap or waits; a cancelled call whose token is free and whose
  thread is not lets a third thread in.
* `StatementGate`: three symbols make a literal with something in it, four one with a prefix or
  a doubled delimiter, and two more put a `;` and an opener behind it; nine of quotes and
  backslashes reach BigQuery's triple quotes with a body between them. Every reading of every
  text is compared. `MaxCteNesting = 2` stands for 16, and statements nest one level more.
* `BoundedFetch`: `Longest = 5` with `MaxRows = 3` and pages of 2 give results that end before, at,
  one past and two past the row cap, at a page boundary and off it. A size cap of 33 bytes stands
  for 8 MiB: four narrow rows or two of text fit exactly, a wide one fits but for the brackets of
  the list, and a row with colliding keys has an estimate over its size. `MaxDepth = 2` stands for
  the depth cap; cells go one deeper.
* `RunQueryBounded`: a MiB of 18 bytes that costs six micro-dollars keeps the proportion of the
  real price (5.96), so that both roundings bite: sizes one below, at and one above the steps
  of the bill and the halves of a micro-dollar; a dollar cap below the minimum bill, between two steps, at a step
  and past int64; byte caps out of range on both sides.
* `SnowflakeExecution`: the bound is three sleeps; a policy is absent, stricter or laxer.
  `Pages = 2` lets two full pages come before the last request, enough to ask again after the
  deadline if the code did not look. No proof rests on it.
* `Retries = 3`: a lost answer, a second one, the last attempt and the end of the retries. Two
  ids: the second is only reached by a re-submission.
* `ReadOnlyTools`: two sizes, the asserted one below, at or above the observed one; a Gen2 rate for the first
  only, as the two largest sizes have none. The siblings of the pinned warehouse are running,
  the case in which mistaking one for it does most harm. A scan on either side of a tier's
  limit; a history of a cached run only, of a cached and two billed ones, of another text, and
  none. Rates are in twentieths of a credit, runtimes in seconds, and the rounding of the figure
  to a millionth of a dollar is left out.

## 6. Fairness

* `InFlight`'s `LoopFairness`: the event loop runs. It delivers results and cancellations (weak
  fairness), and anyio's limiter serves waiters in order (strong fairness of `RunSync`, which
  other calls may disable again and again). `CancelReturns` needs no more than this: threads may be
  stuck for ever.
* `ThreadFairness` is a premise of the two properties that need it: every round trip has a
  socket or network timeout and every wait a watchdog, so a thread gets on. `GiveUp` is part of it;
  without a watchdog a query that never ends holds its slot.
  `EntryFairness` is less: only threads that hold no slot run, up to the cap.
* The executions: the thread runs; Databricks' daemon thread too, except that it may wait as
  long as its statement lasts; and the warehouse ends a statement that has a timeout. A statement
  without one is given no fairness, and that the statement ends all the same is the liveness half of `ImplementsExecution`,
  with the session that is closed in the end.
* `BoundedFetch`: the thread runs. `RunQueryBounded`, `StatementGate` and `ReadOnlyTools` state safety only.

## 7. Proofs

All components that have a `Proofs` module are proved along the same argument: an
invariant `IndInv` that holds at first and that every action keeps (`IndInvInit`, `IndInvNext`,
`Inductive`; `GateInv` and its lemmas in the statement gate), and then one theorem for each property. The properties alone are seldom
inductive; what `IndInv` adds is named below.

| module | theorem | property |
|---|---|---|
| `InFlightProofs` | `TypeCorrect`, `SlotsConserved` | the type invariant, `SlotConservation` |
| | `EarlyCancelSafe`, `SuccessIsClean` | `EarlyCancelNeverBills`, `SuccessLeavesNothingLive` |
| | `OutcomeWrittenOnce`, `RefinesAdmission` | `OutcomeIsFinal`, `ImplementsAdmission` |
| `RunQueryBoundedProofs` | `BillCapped`, `RoundingInnocent` | `BillStaysUnderCaps`, `RoundingNeverRefuses` |
| | `ExecutedTold`, `DollarCapChecked`, `BlameTrue` | `ExecutedIsTruthful`, `DollarCapNeverUnchecked`, `BlameIsTrue` |
| `BoundedFetchProofs` | `CompleteIfOk`, `LongestPayload` | `OkIsComplete`, `PayloadIsLongestFit` |
| | `NoteCovers`, `StopsAtTheCaps`, `SmallSurvives` | `PlaceholdersAreAnnounced`, `FetchStopsAtTheCaps`, `SmallResultSurvivesDeadline` |
| | `RowCapTrue` | `RowCapRefusalIsTrue` |
| `SessionExecutionProofs`, Snowflake | `TimeoutLowered`, `OnTime`, `RefinesExecution` | `TimeoutOnlyLowered`, `EndsOnTime`, the safety of `ImplementsExecution` |
| `SessionExecutionProofs`, Databricks | `RowsAreOfASuccess`, `DatabricksRefines` | `RowsOfASuccess`, the safety of `ImplementsExecution` |
| `BigQueryExecutionProofs` | `OneJob`, `OutcomeTrue`, `RefinesExecution` | `AtMostOneJob`, `OutcomeMatchesJobs`, the safety of `ImplementsExecution` |
| `ReadOnlyToolsProofs` | `OnlyARace`, `FailedIsFinal` | `OnlyARaceWakes`, `FailedLookupIsFinal` |
| | `AnswersTrue`, `NeverBelowPinned` | `AnswersTellTheTruth`, `NeverPricedBelowPinned` |
| `StatementGateProofs` | `OneStatement`, `WrapEnds` | `OneStatementInEveryReading`, `WrapEndsInCode` |
| | `OrdinaryPasses`, `GatesAlwaysAgree` | `OrdinaryTextPasses`, `GatesAgree` |
| | `GateInvariant` | the inductive invariant of the scan |

### Assumptions

Each module names what it assumes of its constants.

* `InFlight`: calls are finitely many; the cap and the tokens are at least one.
* `RunQueryBounded`: sizes and caps are naturals; a micro-dollar is an odd number of bytes, so
  that no figure is half way between two; the billing step (`MiB`) and the minimum (`MinBilled`) are
  positive, the one dividing the other. With a minimum of zero, a dollar cap of zero would
  derive a byte cap of zero, which is no cap. `BilledFitsInt64`: the bill of every size a
  table may have fits an int64, to which the derived cap is clamped. Beyond it a bill within the
  dollar cap could be over the clamp.
* `BoundedFetch`: the row cap and the page size are at least one, the three measures of a
  row are naturals, and the byte cap has room for the brackets of an empty list.
* `SnowflakeExecution`: the bound, the sleep and the grace are positive; the latency,
  the length of a page request, the number of pages and the policies are naturals. What the code
  does between its calls takes no time, and a sleep takes what it says.
* `BigQueryExecution`: ids are finitely many and at least one; retries are a natural.
  `DatabricksExecution` has no constants.
* `Warehouses`: sizes and prices are positive; a history is a finite set of runs; a scan is
  smaller than the number that stands for unknown; and what stands for no name and no figure is
  neither a name nor a number. Names may be infinitely many.
* `SqlScope`: a request names an engine of the dialect table, and its text is a sequence, of any
  length, of the symbols the lexer tells apart. `ReadGate`: `MaxCteNesting` is positive; no theorem uses it.

### RunQueryBounded

`GateInv` says which gates a call has passed, at each step and once the statement has run, and
that the effective cap is the derived one or the caller's (`Capped`), with which a provider's refusal
is later explained. `RunInv` ties the bill to the run and the cap. `OutcomeInv` lists the
answers there are, each with what it says of the caps. `DataChange` may move the size between
any two steps, so that `IndInv` relates no estimate to what a run is billed: the cap attached
to the job alone bounds the bill. The rest is arithmetic: that the bill rounds up to
steps (`RoundUp`), and that a bill within what the dollar cap buys in whole steps is under the derived cap and
conversely, through the clamp. The provers know little of division by a variable, so the lemmas
turn it into the two inequalities that characterise it.

### BoundedFetch

`FetchInv` says how many rows have been fetched and taken, within which caps, and what their
numbers say of the pages; `RowsInv`, that the rows kept are a start of the result whose estimate
was within the cap before the last row, and why a fetch stopped early; `AnswerInv`, under which
conditions each answer is given. The
measures of a list of rows are folds, which the provers cannot unfold, so the lemmas of
`FiniteSums` lead from a fold to a function of the subsets of the positions, and from there to
monotony: a longer start of the result measures no less (`LongestPayload` needs the longest that
fits to be unique, and `SmallSurvives` that a result that fits has starts that fit).
`RowCapTrue` holds where no row's estimate is over its size. That estimates are lower
bounds for cells without colliding keys is what the run checks
(`RowCapBlameIsTrueWithinBound`): the two functions are recursive over the cell.

### The executions

`SnowflakeExecution`: `PhaseInv` is what the thread holds and knows at each step, `TimeoutInv` that
the session has its timeout before there is a statement, and `TimeInv` how late it may be at each
step: the statement is over by the deadline, the thread notices one sleep later, and that poll,
two calls, the pages and the close are then left. A page request that begins after the
fetch's deadline is the first (`PagesInv`), and none follows it. `EndsOnTime` is the last line of that list and not inductive without
the others. `DatabricksExecution`: the list that the daemon thread writes and the caller reads
is empty only if the statement succeeded (`RunnerInv`), once the thread is dead, and the caller
looks only then (`CallerInv`). `BigQueryExecution`: the client keeps to one id
(`OneId`), and what it concluded of its job stays true, because an ended job does not change
(`OutcomeInv`). `RefinesExecution` maps every step to a step of `BoundedExecution` or to none.

### ReadOnlyTools

`SessionInv` ties the session to the step. `BindInv`: what was seen is of the pinned warehouse,
and a warehouse seen running that stands still has moved since. `GuardInv`: without the
operator's opt-in, a gated statement follows only an observation that allowed it. `FigureInv`: a
figure is the product for what was known at the end. That this product is not below what the pinned
warehouse costs is then arithmetic over `BindInv`: rate, price and runtime are compared one by
one, because the product of three variables is out of the provers' reach, and the scan
or the run the runtime rests on is a maximum or minimum of a finite set (`GreatestNat`,
`LargestSize`).

### InFlight

`IndInv == TypeOK /\ SlotConservation /\ PhaseInv`. `SlotConservation`
alone is not inductive: that `Release` stays within the cap needs to know that the releasing thread is one of
the holders, and that `free` is a number within the bounds. `PhaseInv` ties the coroutine, the thread
and the query of one call together: a waiting call has no thread, a thread before its submission
has no query, an ended thread that reports a success has seen its query end, and only a delivered success
is recorded as one. `PhaseInv` is preserved without the other two (`PhaseInvNext`), the counts follow from
three lemmas on how a step changes the set of holders (`HolderEnters`, `HolderLeaves`,
`HolderStays`), and `EarlyCancelNeverBills` is preserved together with the invariant. The refinement is proved in two
parts: the thread's actions map to `Enter`, `Reject`, `Leave` or a stutter (`ThreadRefines`), those of the loop and
the host to `Forget`, `Restart` or a stutter (`LoopRefines`).

### The statement gate

`GateInv` is about the part of the text before the index. Every reading has found there the
same symbols of a statement and the same terminators (`AgreedBefore`), the scan remembers of
these what it needs (`end`, `seen`), and no symbol stands behind a terminator. The verdict alone
is not inductive: it says nothing of a scan that is still going on, and `end` is a
number until the invariant says what it is the end of. `Wraps` adds what the wrap needs: a `)` put
at `end` is code in every reading.

* Why every reading goes where the scan goes: where the lexer gives an end, that is the end in every
  reading (`UnescapedIsCertain`, `LiteralIsCertain`, `BlockCommentIsCertain`). A line comment may end
  one symbol earlier in some, at the CR of a CRLF, and what is then left is space
  (`LineCommentIsCertain`, `CommentIsCertain`).
* Why the `)` is code: a lexeme in front of it is the same in the enclosed text (`LexemeEnclosed`), and
  `end` is never behind a comment.
* `OrdinaryPasses`: `RefusalInv` says what a refusal rests on (`RefusedAt`). In a text without
  backslashes, glued prefixes, foreign line ends and a second block comment the lexer gives an end
  wherever one reading has one (`PlainReading`), so that what is left to refuse is an unclosed lexeme
  or more than one statement.
* `GatesAlwaysAgree`: the read gate walks the text by itself, and skips trivia in *slices* of it.
  `SegmentInv` says what it will make of the part before the index: no cut yet (`Uncut`), and either
  nothing but trivia (`NothingBefore`) or a statement in every slice that reaches so far
  (`StatementBefore`); behind a terminator, one cut, a statement in front of it and trivia after it
  (`EndedBefore`). It rests on `CommentSliced`: a comment that ends within a slice ends there when
  the lexer sees only the slice.

### Induction and recursion

The library's induction theorems take a predicate, which the installed provers cannot
instantiate. `FiniteSums` inducts along its well-founded orders over sets instead: the set of the
subsets, or of the naturals, for which the claim fails has a minimal member (`WFMin`), and
that member is led to a contradiction. `StatementGateProofs` does the same backwards, from the end of a
text (`FromTheEnd`). A recursive function is a `CHOOSE`, so that nothing is known of it before a function
with that equation exists. `WalkExists` builds one for every walk that gets nearer to an end with
each turn, and the lemmas `BodyEndTurns`, `UnescapedTurns`, `LexemesTurns`, `SkipTurns` and
`SegmentEndsTurns` use it to unfold the lexer, the readings and the read gate by one turn.

### Only model-checked

* Liveness: `CancelReturns`, `SlotsComeBack` and the other fair properties of `InFlight`, that the fetch and
  the Databricks thread end, and the fair half of the three refinements (the statement ends, and
  the session is closed). It is out of the prover's reach.
* `ReadsAndOnlyReadsPass` and `OnlyQueriesAreWrapped`: they compare the gate with what the derivations of
  `SqlGrammar`, which the instance lists, say of a text, and follow WITHs through nested slices.
* That the size estimate of a row is a lower bound of its size, as above.

## 8. Not modelled

* In the statement gate: texts in which delimiters overlap (`/*/`) or a keyword is cut by a
  character that no symbol stands for; the parser behind the grammar, which is a set of
  derivations; and `single_statement_body`'s best effort on a text that nothing vouches for,
  which only library callers reach. `RunQueryBounded` takes the verdict of the gate as an input.
* In the row normaliser: keys that are tuples, and sets, whose order in JSON is arbitrary.
* In the estimates: the wording of caveats, the spellings of sizes, states and regions (they are
  what they are recognised as), Azure's Gen2 factor (1.25), and the
  prices of other regions.
* Configuration: environment variables read at call time. The in-flight cap's range is the
  assumption on `MaxInFlight`, the opt-ins are a field of a call.
* Redaction and presentation of remote text, the log filter, the OpenTelemetry bootstrap, the
  capability table: text and set-up, with no influence on the control flow of a call.
* BigQuery's `check_credentials`: one metadata call, which opens no session and changes no state.
* Which ungated Snowflake statements (USE, EXPLAIN, SHOW, CURRENT_WAREHOUSE) may start a
  warehouse: an open question of DECISIONS.md 20; the model follows the code's list.
* A cancel that arrives after the cancellation point and before the submission is let through
  by the code; `InFlight` has it, and no property forbids it.

## 9. Plan

Done: the in-flight core with its proofs, the statement gate, the caps, the executions with
their sessions, the fetch with the rows it measures, and the read-only tools down to the
figure. The order was that of the money at stake: first what may let a query run that nobody
wants, then what it may cost, then what comes back, and the estimates last.

A composed `System`, `InFlight` with `BoundedExecution` in the place of `Submit`, `GiveUp` and
`WarehouseEnds`, is left: the slot's promises could then be stated over the engine's own. What is
not modelled otherwise has no state that a property could be about.

All safety properties of the gate that are about every text are proved. Those about a grammar stay with
TLC, as the grammar is a list of derivations, and so does what the recursive operators of
`ResultRows` compute of a cell.
