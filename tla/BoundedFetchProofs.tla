-------------------------- MODULE BoundedFetchProofs --------------------------
(***************************************************************************)
(* Proofs about BoundedFetch, for every result, row cap, page size and byte  *)
(* cap, and whatever the rows measure.                                       *)
(***************************************************************************)
EXTENDS BoundedFetch, FiniteSums, SequenceTheorems

-----------------------------------------------------------------------------
(***************************************************************************)
(* Totals.  Whatever is measured of the rows of a list, its total is the sum *)
(* over the positions of the list.                                           *)
(***************************************************************************)
AnyRow == UNION {Range(rows) : rows \in Results}

\* The three numbers of a row are naturals.
LEMMA RowMeasures ==
  ASSUME NEW row \in AnyRow
  PROVE  ApproxRowSize(row) \in Nat /\ RowJsonBytes(row) \in Nat /\ DepthCapped(row) \in Nat
  BY BoundedFetchAssumption DEF AnyRow

\* One lemma per measure: the folds of Total unfold to a sum over positions only
\* with the measure spelled out.
LEMMA JsonTotal ==
  ASSUME NEW s \in Seq(AnyRow)
  PROVE  \E f : /\ IsSum(f, [k \in 1..Len(s) |-> RowJsonBytes(s[k])], 1..Len(s))
                /\ Total(s, RowJsonBytes) = f[1..Len(s)]
  <1> DEFINE D == 1..Len(s)
             w == [k \in D |-> RowJsonBytes(s[k])]
             RowSum(f) == f = [u \in SUBSET D |->
                                 IF u = {} THEN 0 ELSE RowJsonBytes(s[OneOf(u)]) + f[Others(u)]]
             f == CHOOSE it : RowSum(it)
  <1>1. D = DOMAIN s /\ IsFiniteSet(D)
    BY FS_Interval
  <1>2. Total(s, RowJsonBytes) = f[D]
    BY <1>1 DEF Total, FoldSeq, FoldFunction, FoldFunctionOnSet, MapThenFoldSet, OneOf, Others
  <1>3. ASSUME NEW it PROVE RowSum(it) <=> IsSum(it, w, D)
    <2>1. \A u \in SUBSET D : u # {} => w[OneOf(u)] = RowJsonBytes(s[OneOf(u)])
      BY OthersAreFewer
    <2> HIDE DEF w, D
    <2>2. [u \in SUBSET D |-> IF u = {} THEN 0 ELSE RowJsonBytes(s[OneOf(u)]) + it[Others(u)]]
            = [u \in SUBSET D |-> IF u = {} THEN 0 ELSE w[OneOf(u)] + it[Others(u)]]
      BY <2>1
    <2> QED
      BY <2>2, Zenon DEF IsSum
  <1> HIDE DEF RowSum
  <1>4. \E it : IsSum(it, w, D)
    BY <1>1, SumExists
  <1>5. RowSum(f)
    BY <1>3, <1>4
  <1> HIDE DEF f
  <1>6. IsSum(f, w, D)
    BY <1>3, <1>5
  <1> QED
    BY <1>2, <1>6

LEMMA EstimateTotal ==
  ASSUME NEW s \in Seq(AnyRow)
  PROVE  \E f : /\ IsSum(f, [k \in 1..Len(s) |-> ApproxRowSize(s[k]) + 1], 1..Len(s))
                /\ Estimate(s) = f[1..Len(s)]
  <1> DEFINE D == 1..Len(s)
             w == [k \in D |-> ApproxRowSize(s[k]) + 1]
             RowSum(f) == f = [u \in SUBSET D |->
                                 IF u = {} THEN 0 ELSE (ApproxRowSize(s[OneOf(u)]) + 1) + f[Others(u)]]
             f == CHOOSE it : RowSum(it)
  <1>1. D = DOMAIN s /\ IsFiniteSet(D)
    BY FS_Interval
  <1>2. Estimate(s) = f[D]
    BY <1>1 DEF Estimate, Total, FoldSeq, FoldFunction, FoldFunctionOnSet, MapThenFoldSet, OneOf, Others
  <1>3. ASSUME NEW it PROVE RowSum(it) <=> IsSum(it, w, D)
    <2>1. \A u \in SUBSET D : u # {} => w[OneOf(u)] = (ApproxRowSize(s[OneOf(u)]) + 1)
      BY OthersAreFewer
    <2> HIDE DEF w, D
    <2>2. [u \in SUBSET D |-> IF u = {} THEN 0 ELSE (ApproxRowSize(s[OneOf(u)]) + 1) + it[Others(u)]]
            = [u \in SUBSET D |-> IF u = {} THEN 0 ELSE w[OneOf(u)] + it[Others(u)]]
      BY <2>1
    <2> QED
      BY <2>2, Zenon DEF IsSum
  <1> HIDE DEF RowSum
  <1>4. \E it : IsSum(it, w, D)
    BY <1>1, SumExists
  <1>5. RowSum(f)
    BY <1>3, <1>4
  <1> HIDE DEF f
  <1>6. IsSum(f, w, D)
    BY <1>3, <1>5
  <1> QED
    BY <1>2, <1>6

LEMMA DepthTotal ==
  ASSUME NEW s \in Seq(AnyRow)
  PROVE  \E f : /\ IsSum(f, [k \in 1..Len(s) |-> DepthCapped(s[k])], 1..Len(s))
                /\ Total(s, DepthCapped) = f[1..Len(s)]
  <1> DEFINE D == 1..Len(s)
             w == [k \in D |-> DepthCapped(s[k])]
             RowSum(f) == f = [u \in SUBSET D |->
                                 IF u = {} THEN 0 ELSE DepthCapped(s[OneOf(u)]) + f[Others(u)]]
             f == CHOOSE it : RowSum(it)
  <1>1. D = DOMAIN s /\ IsFiniteSet(D)
    BY FS_Interval
  <1>2. Total(s, DepthCapped) = f[D]
    BY <1>1 DEF Total, FoldSeq, FoldFunction, FoldFunctionOnSet, MapThenFoldSet, OneOf, Others
  <1>3. ASSUME NEW it PROVE RowSum(it) <=> IsSum(it, w, D)
    <2>1. \A u \in SUBSET D : u # {} => w[OneOf(u)] = DepthCapped(s[OneOf(u)])
      BY OthersAreFewer
    <2> HIDE DEF w, D
    <2>2. [u \in SUBSET D |-> IF u = {} THEN 0 ELSE DepthCapped(s[OneOf(u)]) + it[Others(u)]]
            = [u \in SUBSET D |-> IF u = {} THEN 0 ELSE w[OneOf(u)] + it[Others(u)]]
      BY <2>1
    <2> QED
      BY <2>2, Zenon DEF IsSum
  <1> HIDE DEF RowSum
  <1>4. \E it : IsSum(it, w, D)
    BY <1>1, SumExists
  <1>5. RowSum(f)
    BY <1>3, <1>4
  <1> HIDE DEF f
  <1>6. IsSum(f, w, D)
    BY <1>3, <1>5
  <1> QED
    BY <1>2, <1>6

\* A list has as many positions as its length, and a row at each.
LEMMA Positions ==
  ASSUME NEW s \in Seq(AnyRow)
  PROVE  /\ Len(s) \in Nat /\ IsFiniteSet(1..Len(s)) /\ Cardinality(1..Len(s)) = Len(s)
         /\ \A k \in 1..Len(s) : s[k] \in AnyRow
         /\ s # <<>> => Len(s) - 1 \in Nat
  <1>1. /\ Len(s) \in Nat /\ 1 \in Int /\ Len(s) \in Int
        /\ \A k \in 1..Len(s) : s[k] \in AnyRow
    OBVIOUS
  <1>2. IsFiniteSet(1..Len(s)) /\ Cardinality(1..Len(s)) = IF 1 > Len(s) THEN 0 ELSE Len(s) - 1 + 1
    BY <1>1, FS_Interval, Zenon
  <1>3. Cardinality(1..Len(s)) = Len(s)
    BY <1>1, <1>2
  <1>4. s # <<>> => Len(s) - 1 \in Nat
    OBVIOUS
  <1> QED
    BY <1>1, <1>2, <1>3, <1>4

\* The totals are naturals.
LEMMA TotalsType ==
  ASSUME NEW s \in Seq(AnyRow)
  PROVE  /\ Total(s, RowJsonBytes) \in Nat /\ ListBytes(s) \in Nat
         /\ Estimate(s) \in Nat /\ Total(s, DepthCapped) \in Nat
  <1> DEFINE D == 1..Len(s)
             json     == [k \in D |-> RowJsonBytes(s[k])]
             estimate == [k \in D |-> ApproxRowSize(s[k]) + 1]
             depth    == [k \in D |-> DepthCapped(s[k])]
  <1>1. IsFiniteSet(D) /\ Len(s) \in Nat /\ (s = <<>> \/ Len(s) - 1 \in Nat)
    BY Positions
  <1>2. \A k \in D : json[k] \in Nat /\ estimate[k] \in Nat /\ depth[k] \in Nat
    BY Positions, RowMeasures
  <1> HIDE DEF json, estimate, depth
  <1>3. Total(s, RowJsonBytes) \in Nat
    <2>1. PICK f : IsSum(f, json, D) /\ Total(s, RowJsonBytes) = f[D]
      BY JsonTotal DEF json
    <2> QED
      BY <1>1, <1>2, <2>1, SumType
  <1>4. Estimate(s) \in Nat
    <2>1. PICK f : IsSum(f, estimate, D) /\ Estimate(s) = f[D]
      BY EstimateTotal DEF estimate
    <2> QED
      BY <1>1, <1>2, <2>1, SumType
  <1>5. Total(s, DepthCapped) \in Nat
    <2>1. PICK f : IsSum(f, depth, D) /\ Total(s, DepthCapped) = f[D]
      BY DepthTotal DEF depth
    <2> QED
      BY <1>1, <1>2, <2>1, SumType
  <1> QED
    BY <1>1, <1>3, <1>4, <1>5 DEF ListBytes

\* An empty list is two brackets.
LEMMA EmptyTotals == ListBytes(<<>>) = 2 /\ Estimate(<<>>) = 0
  <1>1. <<>> \in Seq(AnyRow) /\ 1..Len(<<>>) = {}
    OBVIOUS
  <1>2. Total(<<>>, RowJsonBytes) = 0
    BY <1>1, JsonTotal, SumStep
  <1>3. Estimate(<<>>) = 0
    BY <1>1, EstimateTotal, SumStep
  <1> QED
    BY <1>2, <1>3 DEF ListBytes

\* No row has more capped cells than all of them.
LEMMA DepthOfOne ==
  ASSUME NEW s \in Seq(AnyRow), NEW k \in 1..Len(s)
  PROVE  DepthCapped(s[k]) <= Total(s, DepthCapped)
  <1> DEFINE w == [j \in 1..Len(s) |-> DepthCapped(s[j])]
  <1>1. IsFiniteSet(1..Len(s)) /\ \A j \in 1..Len(s) : w[j] \in Nat
    BY RowMeasures, Positions
  <1>2. PICK f : IsSum(f, w, 1..Len(s)) /\ Total(s, DepthCapped) = f[1..Len(s)]
    BY DepthTotal
  <1>3. w[k] = DepthCapped(s[k])
    OBVIOUS
  <1> HIDE DEF w
  <1> QED
    BY <1>1, <1>2, <1>3, MemberAtMostSum

\* Where the estimate of every row is the lower bound it is meant to be, so is
\* the running estimate of the list, its brackets and commas included.
LEMMA EstimateBound ==
  ASSUME NEW s \in Seq(AnyRow),
         \A k \in 1..Len(s) : ApproxRowSize(s[k]) <= RowJsonBytes(s[k])
  PROVE  s # <<>> => Estimate(s) < ListBytes(s)
  <1> DEFINE D == 1..Len(s)
             w == [k \in D |-> ApproxRowSize(s[k]) + 1]
             v == [k \in D |-> RowJsonBytes(s[k])]
  <1>1. IsFiniteSet(D) /\ Cardinality(D) = Len(s) /\ Len(s) \in Nat
    BY Positions
  <1>2. \A k \in D : w[k] \in Nat /\ v[k] \in Nat /\ w[k] <= v[k] + 1
    BY Positions, RowMeasures
  <1>3. PICK f : IsSum(f, w, D) /\ Estimate(s) = f[D]
    BY EstimateTotal
  <1>4. PICK g : IsSum(g, v, D) /\ Total(s, RowJsonBytes) = g[D]
    BY JsonTotal
  <1> HIDE DEF D, w, v
  <1>5. Estimate(s) <= Total(s, RowJsonBytes) + Len(s)
    BY <1>1, <1>2, <1>3, <1>4, SumsCompare
  <1> QED
    BY <1>1, <1>5, TotalsType DEF ListBytes

-----------------------------------------------------------------------------
\* The first n rows of a list.
LEMMA FirstRows ==
  ASSUME NEW s \in Seq(AnyRow), NEW n \in 0..Len(s)
  PROVE  /\ SubSeq(s, 1, n) \in Seq(AnyRow) /\ Len(SubSeq(s, 1, n)) = n
         /\ \A i \in 1..n : SubSeq(s, 1, n)[i] = s[i]
         /\ n = Len(s) => SubSeq(s, 1, n) = s
         /\ \A m \in 0..n : SubSeq(SubSeq(s, 1, n), 1, m) = SubSeq(s, 1, m)
  <1>1. /\ SubSeq(s, 1, n) \in Seq(AnyRow) /\ Len(SubSeq(s, 1, n)) = n
        /\ \A i \in 1..n : SubSeq(s, 1, n)[i] = s[i]
    OBVIOUS
  <1>2. n = Len(s) => SubSeq(s, 1, n) = s
    BY SubSeqFull
  <1>3. ASSUME NEW m \in 0..n PROVE SubSeq(SubSeq(s, 1, n), 1, m) = SubSeq(s, 1, m)
    <2> DEFINE t == SubSeq(s, 1, n)
    <2>1. /\ SubSeq(t, 1, m) \in Seq(AnyRow) /\ Len(SubSeq(t, 1, m)) = m
          /\ \A i \in 1..m : SubSeq(t, 1, m)[i] = t[i]
      BY <1>1
    <2>2. /\ SubSeq(s, 1, m) \in Seq(AnyRow) /\ Len(SubSeq(s, 1, m)) = m
          /\ \A i \in 1..m : SubSeq(s, 1, m)[i] = s[i]
      OBVIOUS
    <2>3. \A i \in 1..m : t[i] = s[i]
      BY <1>1
    <2> HIDE DEF t
    <2>4. \A i \in 1..m : SubSeq(t, 1, m)[i] = SubSeq(s, 1, m)[i]
      BY <2>1, <2>2, <2>3
    <2>5. SubSeq(t, 1, m) = SubSeq(s, 1, m)
      BY <2>1, <2>2, <2>4, SeqEqual
    <2> QED
      BY <2>5 DEF t
  <1> QED
    BY <1>1, <1>2, <1>3

\* The next row of a list, behind the ones before it.
LEMMA OneMoreRow ==
  ASSUME NEW s \in Seq(AnyRow), NEW n \in 0..Len(s), n < Len(s)
  PROVE  Append(SubSeq(s, 1, n), s[n + 1]) = SubSeq(s, 1, n + 1)
  <1> DEFINE t == SubSeq(s, 1, n)
  <1>1. t \in Seq(AnyRow) /\ Len(t) = n /\ \A i \in 1..n : t[i] = s[i]
    BY FirstRows
  <1>2. s[n + 1] \in AnyRow /\ n + 1 \in 0..Len(s)
    OBVIOUS
  <1> HIDE DEF t
  <1>3. /\ Append(t, s[n + 1]) \in Seq(AnyRow) /\ Len(Append(t, s[n + 1])) = n + 1
        /\ \A i \in 1..n : Append(t, s[n + 1])[i] = s[i]
        /\ Append(t, s[n + 1])[n + 1] = s[n + 1]
    BY <1>1, <1>2, AppendProperties
  <1>4. /\ SubSeq(s, 1, n + 1) \in Seq(AnyRow) /\ Len(SubSeq(s, 1, n + 1)) = n + 1
        /\ \A i \in 1..(n + 1) : SubSeq(s, 1, n + 1)[i] = s[i]
    BY <1>2, FirstRows
  <1>5. \A i \in 1..(n + 1) : Append(t, s[n + 1])[i] = SubSeq(s, 1, n + 1)[i]
    BY <1>3, <1>4
  <1>6. Append(t, s[n + 1]) = SubSeq(s, 1, n + 1)
    BY <1>3, <1>4, <1>5, SeqEqual
  <1> QED
    BY <1>6 DEF t

-----------------------------------------------------------------------------
(***************************************************************************)
(* The inductive invariant.  The collected rows are the first of the rows    *)
(* served, as many as were taken but for the sentinel; the estimate of what  *)
(* was kept before the last one was within the cap; and an answer is still   *)
(* backed by the state it was computed from.                                 *)
(***************************************************************************)
TypeOK ==
  /\ engine \in {"dbapi", "bigquery"} /\ wrapped \in BOOLEAN /\ result \in Results
  /\ late \in BOOLEAN /\ pc \in {"page", "rows", "collected", "answered"}
  /\ fetched \in Nat /\ lastFull \in BOOLEAN /\ taken \in Nat /\ capHit \in BOOLEAN

\* The rows kept of those taken: all of them but the sentinel.
Kept == IF taken > MaxRows THEN MaxRows ELSE taken

FetchInv ==
  /\ fetched <= Len(Served) /\ taken <= fetched /\ taken <= MaxRows + 1
  /\ fetched <= Kept + PageSize
  /\ pc = "page" => taken = fetched
  /\ pc = "rows" => taken < fetched
  /\ pc \in {"page", "rows"} => ~capHit
  /\ taken > MaxRows => capHit
  /\ lastFull /\ engine = "dbapi" => fetched >= PageSize
  /\ pc = "collected" /\ ~capHit => taken = Len(Served)

RowsInv ==
  /\ collected = SubSeq(Served, 1, Kept)
  /\ pc \in {"page", "rows"} => Estimate(collected) <= Cap
  /\ Estimate(SubSeq(collected, 1, Len(collected) - 1)) <= Cap
  /\ capHit => taken > MaxRows \/ Estimate(collected) > Cap

\* Each answer under the conditions it is given for.
AnswerInv ==
  /\ pc # "answered" => answer = Unanswered
  /\ pc = "answered" =>
       \/ answer = [status |-> "raised", error |-> "fetch"]
       \/ answer = [status |-> "raised", error |-> "deadline"] /\ lastFull /\ engine = "dbapi"
       \/ answer = TooLarge
       \/ answer = CapHit /\ capHit /\ ~(ListBytes(collected) > Cap)
       \/ answer = Complete /\ taken = Len(Served) /\ ~capHit /\ ~(ListBytes(collected) > Cap)

IndInv == TypeOK /\ FetchInv /\ RowsInv /\ AnswerInv

-----------------------------------------------------------------------------
LEMMA MinOfTwo ==
  ASSUME NEW a \in Int, NEW b \in Int
  PROVE  Min({a, b}) = IF a <= b THEN a ELSE b
  <1> DEFINE m == IF a <= b THEN a ELSE b
  <1>1. m \in {a, b} /\ \A y \in {a, b} : m <= y
    OBVIOUS
  <1>2. \A x \in {a, b} : (\A y \in {a, b} : x <= y) => x = m
    OBVIOUS
  <1> QED
    BY <1>1, <1>2 DEF Min

\* The rows served are the first of the result, and all of them unless there are
\* more than the row cap allows.
LEMMA ServedRows ==
  ASSUME result \in Results
  PROVE  /\ result \in Seq(AnyRow) /\ Served \in Seq(AnyRow)
         /\ Len(Served) <= Len(result)
         /\ Served = SubSeq(result, 1, Len(Served))
         /\ Len(Served) <= MaxRows => Served = result
  <1>1. result \in Seq(AnyRow)
    <2>1. result \in Seq(Range(result)) /\ Range(result) \subseteq AnyRow
      BY BoundedFetchAssumption DEF AnyRow
    <2> QED
      BY <2>1
  <1> DEFINE n == Min({MaxRows + 1, Len(result)})
  <1>2. /\ n = IF MaxRows + 1 <= Len(result) THEN MaxRows + 1 ELSE Len(result)
        /\ MaxRows \in Nat
    <2>1. MaxRows \in Nat /\ MaxRows + 1 \in Int /\ Len(result) \in Int
      BY <1>1, BoundedFetchAssumption
    <2> QED
      BY <2>1, MinOfTwo
  <1>3. n \in 0..Len(result) /\ (n <= MaxRows => n = Len(result))
    BY <1>1, <1>2
  <1> HIDE DEF n
  <1>4. CASE wrapped \/ engine = "bigquery"
    <2>1. Served = SubSeq(result, 1, n)
      BY <1>4 DEF Served, n
    <2>2. Served \in Seq(AnyRow) /\ Len(Served) = n
      BY <1>1, <1>3, <2>1, FirstRows
    <2>3. n = Len(result) => Served = result
      BY <1>1, <1>3, <2>1, FirstRows
    <2> QED
      BY <1>1, <1>3, <2>1, <2>2, <2>3
  <1>5. CASE ~(wrapped \/ engine = "bigquery")
    <2>1. Served = result
      BY <1>5 DEF Served
    <2>2. SubSeq(result, 1, Len(result)) = result
      BY <1>1, SubSeqFull
    <2> QED
      BY <1>1, <2>1, <2>2
  <1> QED
    BY <1>4, <1>5

\* What the invariant says of the collected rows, spelled out.
LEMMA CollectedRows ==
  ASSUME TypeOK, FetchInv, RowsInv
  PROVE  /\ Served \in Seq(AnyRow) /\ Kept \in 0..Len(Served) /\ Kept <= MaxRows
         /\ collected \in Seq(AnyRow) /\ Len(collected) = Kept
         /\ \A i \in 1..Kept : collected[i] = Served[i]
  <1>1. Served \in Seq(AnyRow) /\ Len(Served) \in Nat /\ MaxRows \in Nat
    BY ServedRows, BoundedFetchAssumption DEF TypeOK
  <1>2. Kept \in 0..Len(Served) /\ Kept <= MaxRows
    BY <1>1 DEF TypeOK, FetchInv, Kept
  <1> QED
    BY <1>1, <1>2, FirstRows DEF RowsInv

LEMMA IndInvInit == Init => IndInv
  <1> SUFFICES ASSUME Init PROVE IndInv
    OBVIOUS
  <1>1. TypeOK /\ AnswerInv
    BY DEF Init, TypeOK, AnswerInv
  <1>2. Served \in Seq(AnyRow) /\ Len(Served) \in Nat
    BY <1>1, ServedRows DEF TypeOK
  <1>3. Kept = 0 /\ FetchInv
    BY <1>2, BoundedFetchAssumption DEF Init, FetchInv, Kept
  <1>4. RowsInv
    <2>1. collected = <<>> /\ SubSeq(Served, 1, 0) = <<>> /\ SubSeq(collected, 1, Len(collected) - 1) = <<>>
      BY <1>2 DEF Init
    <2>2. Estimate(<<>>) <= Cap
      BY EmptyTotals, BoundedFetchAssumption
    <2> QED
      BY <1>3, <2>1, <2>2 DEF Init, RowsInv
  <1> QED
    BY <1>1, <1>3, <1>4 DEF IndInv

-----------------------------------------------------------------------------
\* The actions, one by one.
LEMMA RequestPageInv == IndInv /\ RequestPage => IndInv'
  <1> SUFFICES ASSUME IndInv, RequestPage PROVE IndInv'
    OBVIOUS
  <1> USE DEF IndInv
  <1>1. Served' = Served /\ UNCHANGED <<collected, taken, capHit, engine, wrapped, result, late>>
    BY DEF RequestPage, Raise, Served
  <1>2. /\ Served \in Seq(AnyRow) /\ Len(Served) \in Nat
        /\ MaxRows \in Nat \ {0} /\ PageSize \in Nat \ {0}
    BY CollectedRows, BoundedFetchAssumption
  <1>3. Kept' = Kept /\ pc = "page" /\ taken = fetched /\ Kept = taken /\ ~capHit /\ answer = Unanswered
    BY <1>1, <1>2 DEF Kept, FetchInv, TypeOK, AnswerInv, RequestPage
  <1>4. RowsInv'
    BY <1>1, <1>3 DEF RowsInv
  <1>5. CASE lastFull /\ engine = "dbapi" /\ late
    <2>1. /\ pc' = "answered" /\ answer' = [status |-> "raised", error |-> "deadline"]
          /\ UNCHANGED <<fetched, lastFull>>
      BY <1>5 DEF RequestPage, Raise
    <2> QED
      BY <1>1, <1>3, <1>4, <1>5, <2>1 DEF TypeOK, FetchInv, AnswerInv
  <1>6. CASE ~(lastFull /\ engine = "dbapi" /\ late)
    <2> DEFINE size == IF engine = "bigquery" THEN Min({PageSize, MaxRows + 1}) ELSE PageSize
               rest == Len(Served) - fetched
    <2>1. size \in Nat \ {0} /\ size <= PageSize /\ (engine = "dbapi" => size = PageSize)
      BY <1>2, MinOfTwo
    <2>2. rest \in Nat /\ fetched \in Nat
      BY <1>2 DEF FetchInv, TypeOK
    <2>3. Min({size, rest}) = IF size <= rest THEN size ELSE rest
      BY <2>1, <2>2, MinOfTwo
    <2>4. answer' = answer
      BY <1>6 DEF RequestPage
    <2>5. CASE rest = 0
      <3>1. pc' = "collected" /\ UNCHANGED <<fetched, lastFull>>
        BY <1>6, <2>5 DEF RequestPage, Page
      <3> QED
        BY <1>1, <1>2, <1>3, <1>4, <2>2, <2>4, <2>5, <3>1 DEF TypeOK, FetchInv, AnswerInv
    <2>6. CASE rest # 0
      <3>1. PICK n \in 1..Min({size, rest}) :
              fetched' = fetched + n /\ lastFull' = (n >= size) /\ pc' = "rows"
        BY <1>6, <2>6, Zenon DEF RequestPage, Page
      <3>2. n \in Nat \ {0} /\ n <= size /\ n <= rest
        BY <2>1, <2>2, <2>3
      <3> HIDE DEF size
      <3>3. /\ fetched' \in Nat /\ fetched' <= Len(Served) /\ fetched' <= Kept + PageSize
            /\ taken < fetched'
        BY <1>2, <1>3, <2>1, <2>2, <3>1, <3>2
      <3>4. lastFull' /\ engine = "dbapi" => fetched' >= PageSize
        <4>1. ASSUME lastFull' PROVE n >= size
          BY <3>1, <4>1
        <4>2. n >= size => fetched + n >= size
          BY <2>1, <2>2, <3>2
        <4> QED
          BY <2>1, <3>1, <4>1, <4>2
      <3>5. lastFull' \in BOOLEAN
        BY <3>1
      <3> QED
        BY <1>1, <1>3, <1>4, <2>4, <3>1, <3>3, <3>4, <3>5 DEF TypeOK, FetchInv, AnswerInv
    <2> QED
      BY <2>5, <2>6
  <1> QED
    BY <1>5, <1>6

LEMMA TakeRowInv == IndInv /\ TakeRow => IndInv'
  <1> SUFFICES ASSUME IndInv, TakeRow PROVE IndInv'
    OBVIOUS
  <1> USE DEF IndInv
  <1> DEFINE rows     == Append(collected, Served[taken'])
             sentinel == Len(rows) > MaxRows
             stop     == sentinel \/ Estimate(rows) > Cap
  <1>1. /\ pc = "rows" /\ taken' = taken + 1
        /\ collected' = IF sentinel THEN collected ELSE rows
        /\ capHit' = stop
        /\ pc' = IF stop THEN "collected" ELSE IF taken' = fetched THEN "page" ELSE "rows"
        /\ UNCHANGED <<engine, wrapped, result, late, fetched, lastFull, answer>>
    BY DEF TakeRow
  <1>2. Served' = Served
    BY <1>1 DEF Served
  <1>3. /\ Served \in Seq(AnyRow) /\ Len(Served) \in Nat /\ MaxRows \in Nat \ {0} /\ Cap \in Nat
        /\ collected \in Seq(AnyRow) /\ Len(collected) = Kept
    BY CollectedRows, BoundedFetchAssumption
  <1>4. /\ taken \in Nat /\ taken < fetched /\ taken <= MaxRows /\ taken < Len(Served)
        /\ fetched \in Nat /\ fetched <= Len(Served) /\ Kept = taken /\ ~capHit
        /\ answer = Unanswered /\ Estimate(collected) <= Cap
    BY <1>1, <1>3 DEF Kept, FetchInv, TypeOK, AnswerInv, RowsInv
  <1>5. /\ rows = SubSeq(Served, 1, taken + 1) /\ rows \in Seq(AnyRow)
        /\ Len(rows) = taken + 1 /\ SubSeq(rows, 1, taken) = collected
    <2>1. taken \in 0..Len(Served) /\ taken + 1 \in 0..Len(Served) /\ taken \in 0..(taken + 1)
      BY <1>3, <1>4
    <2>2. collected = SubSeq(Served, 1, taken)
      BY <1>4 DEF RowsInv
    <2>3. rows = SubSeq(Served, 1, taken + 1)
      BY <1>1, <1>3, <1>4, <2>1, <2>2, OneMoreRow
    <2> HIDE DEF rows
    <2> QED
      BY <1>3, <2>1, <2>2, <2>3, FirstRows
  <1>6. Estimate(rows) \in Nat /\ Estimate(collected) \in Nat
    BY <1>3, <1>5, TotalsType
  <1> HIDE DEF rows
  <1>7. /\ stop \in BOOLEAN /\ Kept' = (IF sentinel THEN Kept ELSE taken + 1)
        /\ (sentinel <=> taken' > MaxRows) /\ taken' <= MaxRows + 1
    BY <1>1, <1>3, <1>4, <1>5 DEF Kept
  <1>8. TypeOK'
    BY <1>1, <1>4, <1>7 DEF TypeOK
  <1>9. FetchInv'
    <2>1. fetched <= Kept' + PageSize
      BY <1>3, <1>4, <1>7, BoundedFetchAssumption DEF FetchInv
    <2>2. taken' \in Nat /\ taken' <= fetched
      BY <1>1, <1>4
    <2>3. /\ pc' \in {"page", "rows"} <=> ~capHit'
          /\ pc' = "page" => taken' = fetched
          /\ pc' = "rows" => taken' # fetched
          /\ taken' > MaxRows => capHit'
          /\ pc' = "collected" => capHit'
      BY <1>1, <1>7
    <2>4. lastFull /\ engine = "dbapi" => fetched >= PageSize
      BY DEF FetchInv
    <2> HIDE DEF stop, sentinel
    <2> QED
      BY <1>1, <1>2, <1>4, <1>7, <2>1, <2>2, <2>3, <2>4 DEF FetchInv
  <1>10. RowsInv'
    <2>1. CASE sentinel
      <3>1. collected' = collected /\ Kept' = Kept /\ capHit' /\ taken' > MaxRows /\ pc' = "collected"
        BY <1>1, <1>7, <2>1
      <3> QED
        BY <1>2, <3>1 DEF RowsInv
    <2>2. CASE ~sentinel
      <3>1. /\ collected' = rows /\ Kept' = taken + 1 /\ (capHit' <=> Estimate(rows) > Cap)
            /\ (pc' \in {"page", "rows"} => ~(Estimate(rows) > Cap))
        BY <1>1, <1>7, <2>2
      <3>2. Len(rows) - 1 = taken
        BY <1>4, <1>5
      <3>3. collected' = SubSeq(Served', 1, Kept')
        BY <1>2, <1>5, <3>1
      <3>4. pc' \in {"page", "rows"} => Estimate(collected') <= Cap
        BY <1>3, <1>6, <3>1
      <3>5. Estimate(SubSeq(collected', 1, Len(collected') - 1)) <= Cap
        BY <1>4, <1>5, <3>1, <3>2
      <3>6. capHit' => Estimate(collected') > Cap
        BY <3>1
      <3> QED
        BY <3>3, <3>4, <3>5, <3>6 DEF RowsInv
    <2> QED
      BY <2>1, <2>2
  <1>11. AnswerInv'
    BY <1>1, <1>4, <1>7 DEF AnswerInv
  <1> QED
    BY <1>8, <1>9, <1>10, <1>11

LEMMA OtherActionsInv ==
  IndInv /\ (DeadlinePasses \/ PageFails \/ Answer \/ UNCHANGED vars) => IndInv'
  <1> SUFFICES ASSUME IndInv, DeadlinePasses \/ PageFails \/ Answer \/ UNCHANGED vars
               PROVE  IndInv'
    OBVIOUS
  <1> USE DEF IndInv
  <1>1. /\ UNCHANGED <<engine, wrapped, result, fetched, lastFull, collected, taken, capHit>>
        /\ late' \in BOOLEAN /\ (pc' = pc \/ pc' = "answered")
    BY DEF DeadlinePasses, PageFails, Raise, Answer, vars, TypeOK
  <1>2. Served' = Served /\ Kept' = Kept
    BY <1>1 DEF Served, Kept
  <1>3. TypeOK'
    BY <1>1 DEF TypeOK
  <1>4. FetchInv'
    BY <1>1, <1>2 DEF FetchInv
  <1>5. RowsInv'
    BY <1>1, <1>2 DEF RowsInv
  <1>6. UNCHANGED <<TooLarge, CapHit, Complete, Unanswered, Len(Served), ListBytes(collected)>>
    <2>1. DepthNote' = DepthNote /\ Trim(collected)' = Trim(collected)
      BY <1>1 DEF DepthNote
    <2> QED
      BY <1>1, <1>2, <2>1 DEF TooLarge, CapHit, Complete, Unanswered
  <1>7. AnswerInv'
    <2>1. CASE DeadlinePasses \/ UNCHANGED vars
      <3>1. pc' = pc /\ answer' = answer
        BY <2>1 DEF DeadlinePasses, vars
      <3> QED
        BY <1>1, <1>6, <3>1 DEF AnswerInv
    <2>2. CASE PageFails
      BY <2>2 DEF PageFails, Raise, AnswerInv
    <2>3. CASE Answer
      <3>1. ~capHit /\ pc = "collected" => taken = Len(Served)
        BY DEF FetchInv
      <3>2. /\ pc = "collected" /\ pc' = "answered"
            /\ answer' = IF ListBytes(collected) > Cap THEN TooLarge
                         ELSE IF capHit THEN CapHit ELSE Complete
        BY <2>3 DEF Answer
      <3> QED
        BY <1>1, <1>6, <3>1, <3>2 DEF AnswerInv
    <2> QED
      BY <2>1, <2>2, <2>3
  <1> QED
    BY <1>3, <1>4, <1>5, <1>7

\* The invariant holds of every state the fetch of any result can reach.
THEOREM Inductive == Spec => []IndInv
  <1>1. IndInv /\ [Next]_vars => IndInv'
    BY RequestPageInv, TakeRowInv, OtherActionsInv DEF Next
  <1> QED
    BY <1>1, IndInvInit, PTL DEF Spec

-----------------------------------------------------------------------------
(***************************************************************************)
(* What the answers say.                                                     *)
(***************************************************************************)
\* What trim_rows_to_byte_cap keeps of a list: rows that fit, the next one not.
LEMMA LongestFit ==
  ASSUME NEW s \in Seq(AnyRow)
  PROVE  \E n \in 0..Len(s) :
           /\ Trim(s) = SubSeq(s, 1, n)
           /\ ListBytes(SubSeq(s, 1, n)) <= Cap
           /\ n < Len(s) => ListBytes(SubSeq(s, 1, n + 1)) > Cap
  <1> DEFINE fits == {n \in 0..Len(s) : ListBytes(SubSeq(s, 1, n)) <= Cap}
             n    == Max(fits)
  <1>1. Len(s) \in Nat /\ Cap \in Nat /\ Cap >= 2
    BY BoundedFetchAssumption
  <1>2. 0 \in fits
    <2>1. SubSeq(s, 1, 0) = <<>>
      OBVIOUS
    <2>2. ListBytes(SubSeq(s, 1, 0)) <= Cap
      BY <1>1, <2>1, EmptyTotals
    <2> QED
      BY <1>1, <2>2
  <1>3. fits \in SUBSET Nat /\ \A k \in fits : k <= Len(s)
    BY <1>1
  <1>4. n \in fits /\ \A k \in fits : n >= k
    <2> HIDE DEF fits
    <2>1. \E x \in fits : \A y \in fits : x >= y
      BY <1>1, <1>2, <1>3, GreatestNat
    <2> QED
      BY <2>1 DEF Max
  <1>5. Trim(s) = SubSeq(s, 1, n)
    BY DEF Trim
  <1> HIDE DEF n
  <1>6. n \in 0..Len(s) /\ ListBytes(SubSeq(s, 1, n)) <= Cap
    BY <1>4
  <1>7. ASSUME n < Len(s) PROVE ListBytes(SubSeq(s, 1, n + 1)) > Cap
    <2>1. n + 1 \in 0..Len(s) /\ n + 1 \notin fits
      BY <1>1, <1>4, <1>6, <1>7
    <2>2. SubSeq(s, 1, n + 1) \in Seq(AnyRow)
      BY <2>1, FirstRows
    <2>3. ListBytes(SubSeq(s, 1, n + 1)) \in Nat
      BY <2>2, TotalsType
    <2> QED
      BY <1>1, <2>1, <2>3
  <1> QED
    BY <1>5, <1>6, <1>7

\* The rows of an answer: how many of those collected, and under which conditions.
LEMMA AnsweredRows ==
  ASSUME IndInv, answer.status \in {"ok", "refused"}
  PROVE  \E n \in 0..Len(collected) :
           /\ answer.rows = SubSeq(collected, 1, n)
           /\ ListBytes(answer.rows) <= Cap
           /\ n < Len(collected) => ListBytes(SubSeq(collected, 1, n + 1)) > Cap
           /\ answer.note = DepthNote
           /\ answer.status = "ok" => answer.rows = collected /\ taken = Len(Served) /\ ~capHit
           /\ answer.status = "refused" /\ answer.reason = "row_cap_exceeded" =>
                capHit /\ ~(ListBytes(collected) > Cap)
  <1> USE DEF IndInv
  <1>1. collected \in Seq(AnyRow) /\ ListBytes(collected) \in Nat /\ Cap \in Nat
    BY CollectedRows, TotalsType, BoundedFetchAssumption
  <1>2. /\ SubSeq(collected, 1, Len(collected)) = collected
        /\ Len(collected) \in 0..Len(collected) /\ ~(Len(collected) < Len(collected))
    BY <1>1, SubSeqFull
  <1>3. \/ answer = TooLarge
        \/ answer = CapHit /\ capHit /\ ~(ListBytes(collected) > Cap)
        \/ answer = Complete /\ taken = Len(Served) /\ ~capHit /\ ~(ListBytes(collected) > Cap)
    <2>1. pc = "answered"
      BY DEF AnswerInv, Unanswered
    <2> QED
      BY <2>1 DEF AnswerInv
  <1>4. CASE answer = TooLarge
    <2>1. /\ answer.status = "refused" /\ answer.reason = "result_size_exceeded"
          /\ answer.rows = Trim(collected) /\ answer.note = DepthNote
      BY <1>4 DEF TooLarge
    <2>2. PICK n \in 0..Len(collected) :
            /\ Trim(collected) = SubSeq(collected, 1, n)
            /\ ListBytes(SubSeq(collected, 1, n)) <= Cap
            /\ n < Len(collected) => ListBytes(SubSeq(collected, 1, n + 1)) > Cap
      BY <1>1, LongestFit
    <2> QED
      BY <2>1, <2>2
  <1>5. CASE answer = CapHit /\ capHit /\ ~(ListBytes(collected) > Cap)
    <2>1. /\ answer.status = "refused" /\ answer.rows = collected /\ answer.note = DepthNote
      BY <1>5 DEF CapHit
    <2>2. ListBytes(collected) <= Cap
      BY <1>1, <1>5
    <2>3. answer.rows = SubSeq(collected, 1, Len(collected)) /\ ListBytes(answer.rows) <= Cap
      BY <1>2, <2>1, <2>2
    <2>4. answer.status # "ok"
      BY <2>1
    <2> QED
      BY <1>2, <1>5, <2>1, <2>3, <2>4
  <1>6. CASE answer = Complete /\ taken = Len(Served) /\ ~capHit /\ ~(ListBytes(collected) > Cap)
    <2>1. /\ answer.status = "ok" /\ answer.rows = collected /\ answer.note = DepthNote
      BY <1>6 DEF Complete
    <2>2. ListBytes(collected) <= Cap
      BY <1>1, <1>6
    <2>3. answer.rows = SubSeq(collected, 1, Len(collected)) /\ ListBytes(answer.rows) <= Cap
      BY <1>2, <2>1, <2>2
    <2>4. answer.status # "refused"
      BY <2>1
    <2> QED
      BY <1>2, <1>6, <2>1, <2>3, <2>4
  <1> QED
    BY <1>3, <1>4, <1>5, <1>6

\* OkIsComplete, for every result: an ok is the whole result of the query.
THEOREM CompleteIfOk == Spec => []OkIsComplete
  <1>1. ASSUME IndInv, answer.status = "ok" PROVE answer.rows = result
    <2>1. answer.rows = collected /\ taken = Len(Served) /\ ~capHit
      BY <1>1, AnsweredRows
    <2>2. Kept = Len(Served) /\ Len(Served) <= MaxRows
      BY <1>1, <2>1, CollectedRows, BoundedFetchAssumption DEF IndInv, FetchInv, TypeOK, Kept
    <2>3. Served = result /\ Served \in Seq(AnyRow)
      BY <1>1, <2>2, ServedRows DEF IndInv, TypeOK
    <2>4. collected = SubSeq(Served, 1, Len(Served))
      BY <1>1, <2>2 DEF IndInv, RowsInv
    <2> QED
      BY <2>1, <2>3, <2>4, SubSeqFull
  <1>2. IndInv => OkIsComplete
    BY <1>1 DEF OkIsComplete
  <1> QED
    BY <1>2, Inductive, PTL

\* PayloadIsLongestFit, for every result: the rows of an answer are the longest
\* start of the result that the row cap and the byte cap let through.
THEOREM LongestPayload == Spec => []PayloadIsLongestFit
  <1>1. ASSUME IndInv, answer.status \in {"ok", "refused"}
        PROVE  /\ IsPrefix(answer.rows, result) /\ Len(answer.rows) <= MaxRows
               /\ ListBytes(answer.rows) <= Cap
               /\ Len(answer.rows) < Len(collected) =>
                    ListBytes(SubSeq(collected, 1, Len(answer.rows) + 1)) > Cap
    <2>1. PICK n \in 0..Len(collected) :
            /\ answer.rows = SubSeq(collected, 1, n)
            /\ ListBytes(answer.rows) <= Cap
            /\ n < Len(collected) => ListBytes(SubSeq(collected, 1, n + 1)) > Cap
      BY <1>1, AnsweredRows
    <2>2. /\ collected \in Seq(AnyRow) /\ Len(collected) = Kept /\ Kept <= MaxRows
          /\ Served \in Seq(AnyRow) /\ Kept \in 0..Len(Served) /\ MaxRows \in Nat
      BY <1>1, CollectedRows, BoundedFetchAssumption DEF IndInv
    <2>3. /\ result \in Seq(AnyRow) /\ Len(Served) <= Len(result)
          /\ Served = SubSeq(result, 1, Len(Served))
      BY <1>1, ServedRows DEF IndInv, TypeOK
    <2>4. Len(answer.rows) = n /\ SubSeq(answer.rows, 1, n) = answer.rows
      <3>1. Len(answer.rows) = n /\ answer.rows \in Seq(AnyRow)
        BY <2>1, <2>2, FirstRows
      <3> QED
        BY <3>1, SubSeqFull
    <2>5. n \in 0..Kept /\ n \in 0..Len(Served) /\ Len(Served) \in 0..Len(result) /\ n <= Len(result)
      BY <2>2, <2>3
    <2>6. answer.rows = SubSeq(result, 1, n)
      <3>1. collected = SubSeq(Served, 1, Kept)
        BY <1>1 DEF IndInv, RowsInv
      <3>2. SubSeq(collected, 1, n) = SubSeq(Served, 1, n)
        BY <2>2, <2>5, <3>1, FirstRows
      <3>3. SubSeq(SubSeq(result, 1, Len(Served)), 1, n) = SubSeq(result, 1, n)
        BY <2>3, <2>5, FirstRows
      <3> QED
        BY <2>1, <2>3, <3>2, <3>3
    <2>7. IsPrefix(answer.rows, result)
      BY <2>4, <2>5, <2>6 DEF IsPrefix
    <2> QED
      BY <2>1, <2>2, <2>4, <2>5, <2>7
  <1>2. IndInv => PayloadIsLongestFit
    BY <1>1 DEF PayloadIsLongestFit
  <1> QED
    BY <1>2, Inductive, PTL

\* PlaceholdersAreAnnounced, for every result: the note counts no fewer capped
\* cells than any row of the answer has.
THEOREM NoteCovers == Spec => []PlaceholdersAreAnnounced
  <1>1. ASSUME IndInv, answer.status \in {"ok", "refused"}, NEW k \in DOMAIN answer.rows
        PROVE  DepthCapped(answer.rows[k]) <= answer.note
    <2>1. PICK n \in 0..Len(collected) :
            answer.rows = SubSeq(collected, 1, n) /\ answer.note = Total(collected, DepthCapped)
      BY <1>1, AnsweredRows DEF DepthNote
    <2>2. collected \in Seq(AnyRow)
      BY <1>1, CollectedRows DEF IndInv
    <2>3. DOMAIN answer.rows = 1..n /\ answer.rows[k] = collected[k]
      <3>1. answer.rows \in Seq(AnyRow) /\ Len(answer.rows) = n
        BY <2>1, <2>2, FirstRows
      <3>2. DOMAIN answer.rows = 1..n
        BY <3>1
      <3> QED
        BY <2>1, <2>2, <3>2, FirstRows
    <2>4. k \in 1..Len(collected)
      BY <2>2, <2>3
    <2> QED
      BY <2>1, <2>2, <2>3, <2>4, DepthOfOne
  <1>2. IndInv => PlaceholdersAreAnnounced
    BY <1>1 DEF PlaceholdersAreAnnounced
  <1> QED
    BY <1>2, Inductive, PTL

\* FetchStopsAtTheCaps, however long the result.
THEOREM StopsAtTheCaps == Spec => []FetchStopsAtTheCaps
  <1>1. IndInv => FetchStopsAtTheCaps
    BY CollectedRows DEF IndInv, FetchInv, RowsInv, FetchStopsAtTheCaps
  <1> QED
    BY <1>1, Inductive, PTL

\* SmallResultSurvivesDeadline, for every page size and however late the pages.
THEOREM SmallSurvives == Spec => []SmallResultSurvivesDeadline
  <1>1. ASSUME IndInv, answer.status = "raised", answer.error = "deadline"
        PROVE  Len(Served) >= PageSize
    <2>1. lastFull /\ engine = "dbapi"
      BY <1>1 DEF IndInv, AnswerInv, Unanswered, TooLarge, CapHit, Complete
    <2>2. Len(Served) \in Nat /\ PageSize \in Nat
      BY <1>1, CollectedRows, BoundedFetchAssumption DEF IndInv
    <2> QED
      BY <1>1, <2>1, <2>2 DEF IndInv, FetchInv, TypeOK
  <1>2. IndInv => SmallResultSurvivesDeadline
    BY <1>1 DEF SmallResultSurvivesDeadline
  <1> QED
    BY <1>2, Inductive, PTL

\* RowCapRefusalIsTrue, for every result: where the estimates are lower bounds, the
\* row cap is never blamed for a fetch that its size stopped.
THEOREM RowCapTrue == Spec => []RowCapRefusalIsTrue
  <1>1. ASSUME IndInv, EstimatesAreBounds,
               answer.status = "refused", answer.reason = "row_cap_exceeded"
        PROVE  Len(result) > MaxRows
    <2>1. capHit /\ ~(ListBytes(collected) > Cap)
      BY <1>1, AnsweredRows
    <2>2. /\ collected \in Seq(AnyRow) /\ Len(collected) = Kept /\ Served \in Seq(AnyRow)
          /\ Kept \in 0..Len(Served) /\ MaxRows \in Nat /\ Cap \in Nat
          /\ \A i \in 1..Kept : collected[i] = Served[i]
      BY <1>1, CollectedRows, BoundedFetchAssumption DEF IndInv
    <2>3. /\ result \in Seq(AnyRow) /\ Len(Served) <= Len(result)
          /\ Served = SubSeq(result, 1, Len(Served))
      BY <1>1, ServedRows DEF IndInv, TypeOK
    <2>4. ListBytes(collected) \in Nat /\ Estimate(collected) \in Nat
      BY <2>2, TotalsType
    <2>5. \A i \in 1..Len(collected) : ApproxRowSize(collected[i]) <= RowJsonBytes(collected[i])
      <3>1. \A i \in 1..Len(Served) : Served[i] = result[i]
        <4>1. Len(Served) \in 0..Len(result)
          BY <2>2, <2>3
        <4> QED
          BY <2>3, <4>1, FirstRows
      <3>2. \A i \in 1..Kept : collected[i] = result[i] /\ i \in DOMAIN result
        BY <2>2, <2>3, <3>1
      <3> QED
        BY <1>1, <2>2, <3>2 DEF EstimatesAreBounds
    <2>6. ~(Estimate(collected) > Cap)
      <3>1. CASE collected = <<>>
        BY <2>2, <3>1, EmptyTotals
      <3>2. CASE collected # <<>>
        <4>1. Estimate(collected) < ListBytes(collected)
          BY <2>2, <2>5, <3>2, EstimateBound
        <4> QED
          BY <2>1, <2>2, <2>4, <4>1
      <3> QED
        BY <3>1, <3>2
    <2>7. taken > MaxRows
      BY <1>1, <2>1, <2>6 DEF IndInv, RowsInv
    <2>8. taken \in Nat /\ fetched \in Nat /\ taken <= fetched /\ fetched <= Len(Served)
      BY <1>1 DEF IndInv, TypeOK, FetchInv
    <2> QED
      BY <2>2, <2>3, <2>7, <2>8
  <1>2. IndInv => RowCapRefusalIsTrue
    BY <1>1 DEF RowCapRefusalIsTrue
  <1> QED
    BY <1>2, Inductive, PTL

=============================================================================
