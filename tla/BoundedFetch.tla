---------------------------- MODULE BoundedFetch ----------------------------
(***************************************************************************)
(* From an executed query to the answer of run_query_bounded: the paged     *)
(* fetch of result_bounds.py (iter_fetchmany, collect_rows), driven by the   *)
(* engines' fetch deadline, and the size and row-cap refusals of             *)
(* tools/run_query_bounded.py.                                               *)
(*                                                                         *)
(* Of a row, what the decisions taken here depend on are three numbers:      *)
(* what approx_row_size counts in it, what its normalised compact JSON       *)
(* measures, and how many of its cells the normaliser had to cap.  Module    *)
(* ResultRows says what they are.                                            *)
(***************************************************************************)
EXTENDS Naturals, Sequences, SequencesExt

CONSTANTS
  ApproxRowSize(_),   \* approx_row_size
  RowJsonBytes(_),    \* row_json_bytes of the normalised row
  DepthCapped(_),     \* cells of the row that _normalise_cell capped
  Results,    \* the results of queries: sequences of rows
  MaxRows,    \* the effective max_rows of the call
  PageSize,   \* FETCH_PAGE_SIZE
  Cap         \* MAX_RESULT_BYTES

ASSUME BoundedFetchAssumption ==
  /\ MaxRows \in Nat \ {0}
  /\ PageSize \in Nat \ {0}
  /\ Cap \in Nat /\ Cap >= 2
  /\ \A rows \in Results :
       /\ rows \in Seq(Range(rows))
       /\ \A row \in Range(rows) :
            ApproxRowSize(row) \in Nat /\ RowJsonBytes(row) \in Nat /\ DepthCapped(row) \in Nat

VARIABLES
  engine,     \* "dbapi" (Snowflake, Databricks: fetchmany) or "bigquery"
  wrapped,    \* wrap_in_limit
  result,     \* all rows of the caller's query, as the warehouse computes them
  late,       \* the wall-clock deadline armed at submission has passed
  pc,         \* "page", "rows", "collected" or "answered"
  fetched,    \* rows the driver has handed out so far
  lastFull,   \* last_page_was_full
  collected,  \* the rows consumed
  taken,      \* how many rows of the driver were consumed, sentinel included
  capHit,     \* the second value of collect_rows
  answer      \* what the tool returns, or the exception it raises

vars == <<engine, wrapped, result, late, pc, fetched, lastFull, collected, taken,
          capHit, answer>>

-----------------------------------------------------------------------------
Total(s, size(_)) == FoldSeq(LAMBDA row, sum : size(row) + sum, 0, s)

\* The running estimate of collect_rows: a lower bound per row, and one comma.
Estimate(s) == Total(s, LAMBDA row : ApproxRowSize(row) + 1)

\* row_json_bytes of every row, and _framing_bytes of the list.
ListBytes(s) == Total(s, RowJsonBytes) + 2 + (IF s = <<>> THEN 0 ELSE Len(s) - 1)

\* Mutant: the wrap asks for max_rows rows, not one more.
ServedWithoutSentinel ==
  IF wrapped \/ engine = "bigquery" THEN SubSeq(result, 1, Min({MaxRows, Len(result)}))
  ELSE result

\* The rows the warehouse serves: LIMIT max_rows + 1 when the text could be
\* wrapped; BigQuery's iterator has max_results = max_rows + 1 in any case.
Served ==
  IF wrapped \/ engine = "bigquery" THEN SubSeq(result, 1, Min({MaxRows + 1, Len(result)}))
  ELSE result

\* Mutant: the brackets and commas of the list are not counted.
UnframedTrim(s) ==
  SubSeq(s, 1, Max({n \in 0..Len(s) :
                      Total(SubSeq(s, 1, n), RowJsonBytes) <= Cap}))

\* trim_rows_to_byte_cap: rows are added while the list they make fits.
Trim(s) == SubSeq(s, 1, Max({n \in 0..Len(s) : ListBytes(SubSeq(s, 1, n)) <= Cap}))

Unanswered == [status |-> "none"]

Init ==
  /\ engine \in {"dbapi", "bigquery"}
  /\ wrapped \in BOOLEAN
  /\ result \in Results
  /\ late = FALSE
  /\ pc = "page"
  /\ fetched = 0
  /\ lastFull = FALSE
  /\ collected = <<>>
  /\ taken = 0
  /\ capHit = FALSE
  /\ answer = Unanswered

-----------------------------------------------------------------------------
\* The monotonic clock passes the deadline.
DeadlinePasses ==
  /\ pc # "answered" /\ ~late
  /\ late' = TRUE
  /\ UNCHANGED <<engine, wrapped, result, pc, fetched, lastFull, collected, taken, capHit, answer>>

Raise(error) ==
  /\ pc' = "answered"
  /\ answer' = [status |-> "raised", error |-> error]
  /\ UNCHANGED <<fetched, lastFull, collected, taken, capHit>>

\* A page: any number of rows up to the size asked for; an empty one only at
\* the end of the result.
Page ==
  LET size == IF engine = "bigquery" THEN Min({PageSize, MaxRows + 1}) ELSE PageSize
      rest == Len(Served) - fetched
  IN IF rest = 0 THEN
       /\ pc' = "collected"
       /\ UNCHANGED <<fetched, lastFull>>
     ELSE \E n \in 1..Min({size, rest}) :
       /\ fetched' = fetched + n
       /\ lastFull' = (n >= size)
       /\ pc' = "rows"

\* Mutant: the deadline is checked before every page but the first.
RequestPageAlwaysChecked ==
  /\ pc = "page"
  /\ IF fetched > 0 /\ engine = "dbapi" /\ late THEN Raise("deadline")
     ELSE Page /\ UNCHANGED <<collected, taken, capHit, answer>>
  /\ UNCHANGED <<engine, wrapped, result, late>>

\* Mutant: everything at once, as fetchall did.
FetchAll ==
  /\ pc = "page"
  /\ fetched' = Len(Served)
  /\ pc' = IF fetched' > fetched THEN "rows" ELSE "collected"
  /\ UNCHANGED <<engine, wrapped, result, late, lastFull, collected, taken, capHit, answer>>

\* Mutant: an empty page is asked for again.
RetryEmptyPage ==
  /\ pc = "page"
  /\ IF Len(Served) = fetched THEN UNCHANGED <<pc, fetched, lastFull>> ELSE Page
  /\ UNCHANGED <<engine, wrapped, result, late, collected, taken, capHit, answer>>

\* iter_fetchmany: between_pages after a full page, then the page request.
RequestPage ==
  /\ pc = "page"
  /\ IF lastFull /\ engine = "dbapi" /\ late THEN Raise("deadline")
     ELSE Page /\ UNCHANGED <<collected, taken, capHit, answer>>
  /\ UNCHANGED <<engine, wrapped, result, late>>

\* The page request itself fails: a connector error, or BigQuery's retries.
PageFails ==
  /\ pc = "page"
  /\ Raise("fetch")
  /\ UNCHANGED <<engine, wrapped, result, late>>

\* Mutant: the sentinel row is kept.
KeepSentinel ==
  /\ pc = "rows"
  /\ taken' = taken + 1
  /\ collected' = Append(collected, Served[taken'])
  /\ LET stop == Len(collected') > MaxRows \/ Estimate(collected') > Cap
     IN /\ capHit' = stop
        /\ pc' = IF stop THEN "collected" ELSE IF taken' = fetched THEN "page" ELSE "rows"
  /\ UNCHANGED <<engine, wrapped, result, late, fetched, lastFull, answer>>

\* collect_rows, one row: the sentinel is detected first and dropped, then the
\* estimate is checked.
TakeRow ==
  /\ pc = "rows"
  /\ taken' = taken + 1
  /\ LET rows     == Append(collected, Served[taken'])
         sentinel == Len(rows) > MaxRows
         stop     == sentinel \/ Estimate(rows) > Cap
     IN /\ collected' = IF sentinel THEN collected ELSE rows
        /\ capHit' = stop
        /\ pc' = IF stop THEN "collected" ELSE IF taken' = fetched THEN "page" ELSE "rows"
  /\ UNCHANGED <<engine, wrapped, result, late, fetched, lastFull, answer>>

\* The two refusals and the result.  "more" is the hint that the query returned
\* more than max_rows rows, "early" that the fetch stopped before max_rows; the
\* note in any of the three, of how many cells were capped in the rows fetched.
DepthNote == Total(collected, DepthCapped)

\* Mutant: the note is left out where rows are dropped.
TooLargeWithoutNote == [status |-> "refused", reason |-> "result_size_exceeded",
                        rows |-> Trim(collected), hint |-> "size", note |-> 0]

TooLarge == [status |-> "refused", reason |-> "result_size_exceeded",
             rows |-> Trim(collected), hint |-> "size", note |-> DepthNote]

CapHit   == [status |-> "refused", reason |-> "row_cap_exceeded", rows |-> collected,
             hint |-> IF Len(collected) >= MaxRows THEN "more" ELSE "early",
             note |-> DepthNote]

Complete == [status |-> "ok", rows |-> collected, note |-> DepthNote]

\* Mutant: the row cap is looked at first.
RowCapFirst ==
  /\ pc = "collected"
  /\ pc' = "answered"
  /\ answer' = IF capHit THEN CapHit
               ELSE IF ListBytes(collected) > Cap THEN TooLarge ELSE Complete
  /\ UNCHANGED <<engine, wrapped, result, late, fetched, lastFull, collected, taken, capHit>>

\* The exact measurement of the normalised rows, then the answer.
Answer ==
  /\ pc = "collected"
  /\ pc' = "answered"
  /\ answer' = IF ListBytes(collected) > Cap THEN TooLarge
               ELSE IF capHit THEN CapHit ELSE Complete
  /\ UNCHANGED <<engine, wrapped, result, late, fetched, lastFull, collected, taken, capHit>>

Next == DeadlinePasses \/ RequestPage \/ PageFails \/ TakeRow \/ Answer

Spec == Init /\ [][Next]_vars

\* The worker thread keeps running: every page request has a network timeout.
FairSpec == Spec /\ WF_vars(RequestPage \/ TakeRow \/ Answer)

-----------------------------------------------------------------------------
\* An ok is the whole result of the caller's query, never a prefix that some
\* layer - the LIMIT wrap, max_results, a short page, the sentinel row, the
\* size estimate - cut off without saying so.
OkIsComplete == answer.status = "ok" => answer.rows = result

\* The rows sent back are no more than max_rows, fit in the cap as the list they
\* are sent as, and a row is dropped for its size only if keeping it would not fit.
PayloadIsLongestFit ==
  answer.status \in {"ok", "refused"} =>
    /\ IsPrefix(answer.rows, result) /\ Len(answer.rows) <= MaxRows
    /\ ListBytes(answer.rows) <= Cap
    /\ Len(answer.rows) < Len(collected) =>
         ListBytes(SubSeq(collected, 1, Len(answer.rows) + 1)) > Cap

\* A placeholder never stands for data without a word of it, on any of the paths
\* that return rows.
PlaceholdersAreAnnounced ==
  answer.status \in {"ok", "refused"} =>
    \A k \in DOMAIN answer.rows : DepthCapped(answer.rows[k]) <= answer.note

\* The hint "Query returned more than max_rows rows" is only given when it did
\* (row_cap_hint, result_bounds.py:257-259): a fetch stopped by its size is
\* never blamed on the row cap.
RowCapBlameIsTrue ==
  answer.status = "refused" /\ answer.hint = "more" => Len(result) > MaxRows

\* As long as the estimate of every row is the lower bound that collect_rows takes
\* it for (result_bounds.py:76), a query refused for its row cap really has more
\* rows: a fetch that the estimate stopped ends in the size refusal.
EstimatesAreBounds == \A i \in DOMAIN result : ApproxRowSize(result[i]) <= RowJsonBytes(result[i])

RowCapRefusalIsTrue ==
  EstimatesAreBounds /\ answer.status = "refused" /\ answer.reason = "row_cap_exceeded" =>
    Len(result) > MaxRows

\* Fetching stops near the caps: whatever the length of the result, the driver
\* is never asked for more than one page past the rows that were kept.
FetchStopsAtTheCaps ==
  /\ fetched <= Len(collected) + PageSize
  /\ Estimate(SubSeq(collected, 1, Len(collected) - 1)) <= Cap

\* A billed result that fits one page short of full is never thrown away for
\* the deadline, however late its page came (result_bounds.py:163-170).
SmallResultSurvivesDeadline ==
  answer.status = "raised" /\ answer.error = "deadline" => Len(Served) >= PageSize

\* Every fetch ends in an answer or an exception, so the thread's slot is freed.
FetchEnds == <>(pc = "answered")

=============================================================================
