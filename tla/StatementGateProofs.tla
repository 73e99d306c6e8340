------------------------- MODULE StatementGateProofs -------------------------
(***************************************************************************)
(* Proofs about StatementGate, for every text in every dialect, and whatever *)
(* reading of it the engine has.                                             *)
(***************************************************************************)
EXTENDS StatementGate, FiniteSums, SequenceTheorems

-----------------------------------------------------------------------------
(***************************************************************************)
(* Recursion and induction over the rest of a text.                          *)
(***************************************************************************)

\* A claim holds of all positions if it holds behind the text, and of a position
\* in it wherever it holds of all later ones.
LEMMA FromTheEnd ==
  ASSUME NEW n \in Nat, NEW G,
         \A j \in Nat : j > n => j \in G,
         \A j \in Nat : j <= n /\ (\A k \in Nat : k > j => k \in G) => j \in G
  PROVE  \A j \in Nat : j \in G
  <1> DEFINE B == {j \in Nat : j \notin G}
  <1>1. SUFFICES ASSUME B # {} PROVE FALSE
    OBVIOUS
  <1>2. \A j \in B : j <= n
    OBVIOUS
  <1>3. PICK j \in B : \A k \in B : j >= k
    <2>1. B \in SUBSET Nat
      OBVIOUS
    <2> HIDE DEF B
    <2> QED
      BY <1>1, <1>2, <2>1, GreatestNat
  <1>4. \A k \in Nat : k > j => k \in G
    BY <1>3
  <1> QED
    BY <1>2, <1>3, <1>4

\* A function that goes from position to position, each nearer to the end in the
\* measure m, until it stops.
IsWalk(X, V, n, m, stop, next, value, step) ==
  /\ n \in Nat /\ m \in [X -> 0..n]
  /\ next \in [X -> X] /\ value \in [X -> V] /\ step \in [X -> [V -> V]]
  /\ \A x \in X : x \notin stop => m[next[x]] < m[x]

\* Such a function exists.
LEMMA WalkExists ==
  ASSUME NEW X, NEW V, NEW n, NEW m, NEW stop, NEW next, NEW value, NEW step,
         IsWalk(X, V, n, m, stop, next, value, step)
  PROVE  \E f \in [X -> V] :
           \A x \in X : f[x] = IF x \in stop THEN value[x] ELSE step[x][f[next[x]]]
  <1> DEFINE Turn(f, x) == IF x \in stop THEN value[x] ELSE step[x][f[next[x]]]
             Upto(k) == \E f \in [X -> V] : \A x \in X : m[x] < k => f[x] = Turn(f, x)
             B == {k \in Nat : ~Upto(k)}
  <1> USE DEF IsWalk
  <1>1. Upto(0)
    BY DEF Turn
  <1>2. ASSUME NEW k \in Nat, Upto(k) PROVE Upto(k + 1)
    <2>1. PICK f \in [X -> V] : \A x \in X : m[x] < k => f[x] = Turn(f, x)
      BY <1>2
    <2> DEFINE g == [x \in X |-> Turn(f, x)]
    <2>2. g \in [X -> V]
      OBVIOUS
    <2>3. ASSUME NEW x \in X, m[x] < k + 1 PROVE g[x] = Turn(g, x)
      <3>1. CASE x \in stop
        BY <3>1
      <3>2. CASE x \notin stop
        <4>1. next[x] \in X /\ m[next[x]] < k
          BY <2>3, <3>2
        <4>2. f[next[x]] = g[next[x]]
          BY <2>1, <4>1
        <4> QED
          BY <3>2, <4>2
      <3> QED
        BY <3>1, <3>2
    <2> HIDE DEF g
    <2> QED
      BY <2>2, <2>3
  <1> HIDE DEF Upto
  <1>3. \A k \in Nat : Upto(k)
    <2>1. SUFFICES ASSUME B # {} PROVE FALSE
      OBVIOUS
    <2>2. B \in SUBSET Nat
      OBVIOUS
    <2>3. PICK k \in B : \A l \in B : k <= l
      <3> HIDE DEF B
      <3> QED
        BY <2>1, <2>2, LeastNat
    <2>4. k # 0
      BY <1>1, <2>3
    <2>5. k - 1 \in Nat /\ Upto(k - 1)
      BY <2>3, <2>4
    <2>6. Upto((k - 1) + 1) /\ (k - 1) + 1 = k
      BY <1>2, <2>5
    <2> QED
      BY <2>3, <2>6
  <1>4. PICK f \in [X -> V] : \A x \in X : m[x] < n + 1 => f[x] = Turn(f, x)
    BY <1>3 DEF Upto
  <1>5. \A x \in X : m[x] < n + 1
    OBVIOUS
  <1> QED
    BY <1>4, <1>5

\* Its case of positions that only move on.
IsPass(n, stop, next, value) ==
  /\ n \in Nat /\ next \in [Nat -> Nat] /\ value \in [Nat -> Int]
  /\ \A j \in Nat : j \notin stop => j <= n /\ j < next[j]

\* A pass is a walk that hands on the value it stops with.
LEMMA PassExists ==
  ASSUME NEW n, NEW stop, NEW next, NEW value, IsPass(n, stop, next, value)
  PROVE  \E f \in [Nat -> Int] :
           \A j \in Nat : f[j] = IF j \in stop THEN value[j] ELSE f[next[j]]
  <1> DEFINE m    == [j \in Nat |-> IF j > n THEN 0 ELSE n + 1 - j]
             step == [j \in Nat |-> [v \in Int |-> v]]
             positions == Nat
             ends      == Int
  <1>1. IsWalk(positions, ends, n + 1, m, stop, next, value, step)
    BY DEF IsWalk, IsPass
  <1>3. PICK f \in [positions -> ends] : \A j \in positions :
          f[j] = IF j \in stop THEN value[j] ELSE step[j][f[next[j]]]
    <2> HIDE DEF m, step, positions, ends
    <2> QED
      BY <1>1, WalkExists
  <1>4. \A j \in Nat : step[j][f[next[j]]] = f[next[j]]
    BY DEF IsPass
  <1> QED
    BY <1>3, <1>4

-----------------------------------------------------------------------------
(***************************************************************************)
(* Literals.                                                                 *)
(***************************************************************************)
Quotes     == {"quote", "dquote", "backtick", "$$"}
Delimiters == {<<q>> : q \in Quotes} \cup {<<q, q, q>> : q \in {"quote", "dquote"}}

\* Of what a delimiter consists.
LEMMA DelimiterLength ==
  ASSUME NEW delimiter \in Delimiters
  PROVE  /\ delimiter \in Seq(Symbols) /\ Len(delimiter) \in {1, 3}
         /\ delimiter[1] \in Quotes
  <1>1. CASE \E q \in Quotes : delimiter = <<q>>
    <2>1. PICK q \in Quotes : delimiter = <<q>>
      BY <1>1
    <2>2. q \in Symbols
      BY DEF Quotes, Symbols, IdentifierSymbols
    <2> QED
      BY <2>1, <2>2
  <1>2. CASE \E q \in {"quote", "dquote"} : delimiter = <<q, q, q>>
    <2>1. PICK q \in {"quote", "dquote"} : delimiter = <<q, q, q>>
      BY <1>2
    <2>2. q \in Symbols /\ q \in Quotes
      BY DEF Quotes, Symbols
    <2> QED
      BY <2>1, <2>2
  <1> QED
    BY <1>1, <1>2 DEF Delimiters

\* A delimiter is no backslash, and neither is its double.
LEMMA DelimiterAt ==
  ASSUME NEW s \in Seq(Symbols), NEW j \in Nat \ {0}, NEW delimiter \in Delimiters,
         At(s, j, delimiter)
  PROVE  j <= Len(s) /\ s[j] # "backslash"
  <1>1. /\ delimiter \in Seq(Symbols) /\ Len(delimiter) \in {1, 3}
        /\ delimiter[1] \in Quotes
    BY DelimiterLength
  <1>2. j + Len(delimiter) - 1 <= Len(s) /\ SubSeq(s, j, j + Len(delimiter) - 1) = delimiter
    BY DEF At
  <1>3. SubSeq(s, j, j + Len(delimiter) - 1)[1] = s[j]
    BY <1>1, <1>2
  <1> QED
    BY <1>1, <1>2, <1>3 DEF Quotes

\* A delimiter that can be doubled is one symbol, and no backslash.
LEMMA DoubledAt ==
  ASSUME NEW s \in Seq(Symbols), NEW j \in Nat \ {0}, NEW delimiter \in Delimiters,
         Doubled(s, j, delimiter)
  PROVE  /\ At(s, j, delimiter) /\ Len(delimiter) = 1
         /\ j + 1 <= Len(s) /\ s[j + 1] # "backslash"
  <1>1. PICK q \in Quotes : delimiter = <<q>>
    BY DEF Doubled, Quotes
  <1> DEFINE pair == delimiter \o delimiter
  <1>2. q \in Symbols /\ delimiter \in Seq(Symbols) /\ Len(delimiter) = 1 /\ delimiter[1] = q
    <2>1. q \in Symbols
      BY DEF Quotes, Symbols, IdentifierSymbols
    <2> QED
      BY <1>1, <2>1
  <1>3. Len(pair) = 2 /\ pair[1] = q /\ pair[2] = q
    <2>1. /\ Len(pair) = Len(delimiter) + Len(delimiter)
          /\ \A i \in 1..(Len(delimiter) + Len(delimiter)) :
               pair[i] = IF i <= Len(delimiter) THEN delimiter[i] ELSE delimiter[i - Len(delimiter)]
      BY <1>2, ConcatProperties
    <2> HIDE DEF pair
    <2> QED
      BY <1>2, <2>1
  <1>4. At(s, j, pair)
    BY DEF Doubled
  <1> HIDE DEF pair
  <1>5. j + 1 <= Len(s) /\ SubSeq(s, j, j + 1) = pair
    BY <1>3, <1>4 DEF At
  <1>6. SubSeq(s, j, j + 1)[1] = s[j] /\ SubSeq(s, j, j + 1)[2] = s[j + 1]
    BY <1>5
  <1>7. s[j] = q /\ s[j + 1] = q
    BY <1>3, <1>5, <1>6
  <1>8. SubSeq(s, j, j) = delimiter
    <2>1. /\ SubSeq(s, j, j) \in Seq(Symbols) /\ Len(SubSeq(s, j, j)) = 1
          /\ SubSeq(s, j, j)[1] = q
      BY <1>5, <1>7
    <2>2. \A i \in 1..1 : SubSeq(s, j, j)[i] = delimiter[i]
      BY <1>2, <2>1
    <2> QED
      BY <1>2, <2>1, <2>2, SeqEqual
  <1> QED
    BY <1>1, <1>2, <1>5, <1>7, <1>8 DEF At, Quotes

\* The scan of a literal with escapes is a reading in which they protect.
LEMMA EscapedIsProtected ==
  ASSUME NEW s, NEW body, NEW delimiter
  PROVE  EscapedLiteralEnd(s, body, delimiter) = BodyEndAs(s, body, delimiter, TRUE)
  BY Zenon DEF EscapedLiteralEnd, BodyEndAs

\* The two scans of a literal, turn by turn.
LEMMA BodyEndTurns ==
  ASSUME NEW s \in Seq(Symbols), NEW body \in Nat, NEW delimiter \in Delimiters,
         NEW protects \in BOOLEAN
  PROVE  \E f :
           /\ BodyEndAs(s, body, delimiter, protects) = f[body]
           /\ \A j \in Nat : f[j] =
                IF j > Len(s) THEN Refused
                ELSE IF (protects /\ s[j] = "backslash") \/ Doubled(s, j, delimiter) THEN f[j + 2]
                ELSE IF At(s, j, delimiter) THEN j + Len(delimiter) ELSE f[j + 1]
  <1> DEFINE skips(j) == (protects /\ s[j] = "backslash") \/ Doubled(s, j, delimiter)
             stop  == {j \in Nat : j > Len(s) \/ (~skips(j) /\ At(s, j, delimiter))}
             value == [j \in Nat |-> IF j > Len(s) THEN Refused ELSE j + Len(delimiter)]
             next  == [j \in Nat |-> IF skips(j) THEN j + 2 ELSE j + 1]
             Turns(f) == [j \in Nat |->
                IF j > Len(s) THEN Refused
                ELSE IF (protects /\ s[j] = "backslash") \/ Doubled(s, j, delimiter) THEN f[j + 2]
                ELSE IF At(s, j, delimiter) THEN j + Len(delimiter) ELSE f[j + 1]]
             chosen == CHOOSE f : f = Turns(f)
  <1>1. Len(s) \in Nat /\ Len(delimiter) \in Nat
    BY DelimiterLength
  <1>2. IsPass(Len(s), stop, next, value)
    BY <1>1 DEF Refused, IsPass
  <1>3. PICK f \in [Nat -> Int] :
          \A j \in Nat : f[j] = IF j \in stop THEN value[j] ELSE f[next[j]]
    <2> HIDE DEF stop, value, next
    <2> QED
      BY <1>2, PassExists
  <1>4. f = Turns(f)
    <2>1. \A j \in Nat : f[j] = Turns(f)[j]
      BY <1>3
    <2> QED
      BY <2>1
  <1>5. chosen = Turns(chosen)
    BY <1>4
  <1>6. BodyEndAs(s, body, delimiter, protects) = chosen[body]
    BY DEF BodyEndAs
  <1>7. \A j \in Nat : chosen[j] = Turns(chosen)[j]
    <2> HIDE DEF chosen
    <2> QED
      BY <1>5
  <1> HIDE DEF chosen
  <1> QED
    BY <1>6, <1>7

\* So does that of UnescapedLiteralEnd.
LEMMA UnescapedTurns ==
  ASSUME NEW s \in Seq(Symbols), NEW body \in Nat, NEW delimiter \in Delimiters
  PROVE  \E f :
           /\ UnescapedLiteralEnd(s, body, delimiter) = f[body]
           /\ \A j \in Nat : f[j] =
                IF j > Len(s) THEN Refused
                ELSE IF ~At(s, j, delimiter) THEN f[j + 1]
                ELSE IF BehindBackslash(s, body, j) THEN Refused
                ELSE IF Doubled(s, j, delimiter) THEN f[j + 2] ELSE j + Len(delimiter)
  <1> DEFINE refuses(j) == j > Len(s) \/ (At(s, j, delimiter) /\ BehindBackslash(s, body, j))
             stop  == {j \in Nat : \/ refuses(j)
                                   \/ At(s, j, delimiter) /\ ~Doubled(s, j, delimiter)}
             value == [j \in Nat |-> IF refuses(j) THEN Refused ELSE j + Len(delimiter)]
             next  == [j \in Nat |-> IF At(s, j, delimiter) THEN j + 2 ELSE j + 1]
             Turns(f) == [j \in Nat |->
                IF j > Len(s) THEN Refused
                ELSE IF ~At(s, j, delimiter) THEN f[j + 1]
                ELSE IF BehindBackslash(s, body, j) THEN Refused
                ELSE IF Doubled(s, j, delimiter) THEN f[j + 2] ELSE j + Len(delimiter)]
             chosen == CHOOSE f : f = Turns(f)
  <1>1. Len(s) \in Nat /\ Len(delimiter) \in Nat
    BY DelimiterLength
  <1>2. IsPass(Len(s), stop, next, value)
    BY <1>1 DEF Refused, IsPass
  <1>3. PICK f \in [Nat -> Int] :
          \A j \in Nat : f[j] = IF j \in stop THEN value[j] ELSE f[next[j]]
    <2> HIDE DEF stop, value, next
    <2> QED
      BY <1>2, PassExists
  <1>4. f = Turns(f)
    <2>1. \A j \in Nat : f[j] = Turns(f)[j]
      BY <1>3
    <2> QED
      BY <2>1
  <1>5. chosen = Turns(chosen)
    BY <1>4
  <1>6. UnescapedLiteralEnd(s, body, delimiter) = chosen[body]
    BY DEF UnescapedLiteralEnd
  <1>7. \A j \in Nat : chosen[j] = Turns(chosen)[j]
    <2> HIDE DEF chosen
    <2> QED
      BY <1>5
  <1> HIDE DEF chosen
  <1> QED
    BY <1>6, <1>7

\* A literal that is closed ends behind its opening.
LEMMA BodyEndType ==
  ASSUME NEW s \in Seq(Symbols), NEW body \in Nat, NEW delimiter \in Delimiters,
         NEW protects \in BOOLEAN
  PROVE  \/ BodyEndAs(s, body, delimiter, protects) = Refused
         \/ /\ BodyEndAs(s, body, delimiter, protects) \in Nat
            /\ BodyEndAs(s, body, delimiter, protects) > body
            /\ BodyEndAs(s, body, delimiter, protects) <= Len(s) + 1
  <1>1. PICK f :
           /\ BodyEndAs(s, body, delimiter, protects) = f[body]
           /\ \A j \in Nat : f[j] =
                IF j > Len(s) THEN Refused
                ELSE IF (protects /\ s[j] = "backslash") \/ Doubled(s, j, delimiter) THEN f[j + 2]
                ELSE IF At(s, j, delimiter) THEN j + Len(delimiter) ELSE f[j + 1]
    BY BodyEndTurns
  <1> DEFINE G == {j \in Nat :
                     f[j] = Refused \/ (f[j] \in Nat /\ f[j] > j /\ f[j] <= Len(s) + 1)}
  <1>2. Len(s) \in Nat /\ Len(delimiter) \in Nat \ {0}
    BY DelimiterLength
  <1>3. ASSUME NEW j \in Nat, j > Len(s) PROVE j \in G
    BY <1>1, <1>2, <1>3
  <1>4. ASSUME NEW j \in Nat, j <= Len(s), \A k \in Nat : k > j => k \in G PROVE j \in G
    <2>1. j + 1 \in G /\ j + 2 \in G
      BY <1>4
    <2>2. At(s, j, delimiter) => j + Len(delimiter) <= Len(s) + 1
      BY <1>2 DEF At
    <2> QED
      BY <1>1, <1>2, <1>4, <2>1, <2>2
  <1>5. body \in G
    <2> HIDE DEF G
    <2> QED
      BY <1>2, <1>3, <1>4, FromTheEnd
  <1> QED
    BY <1>1, <1>5

-----------------------------------------------------------------------------
\* Runs of backslashes: each that is one longer changes sides.
LEMMA BackslashRun ==
  ASSUME NEW s \in Seq(Symbols), NEW body \in Nat, NEW j \in Nat, j >= body
  PROVE  /\ ~BehindBackslash(s, body, body)
         /\ s[j] # "backslash" => ~BehindBackslash(s, body, j + 1)
         /\ s[j] = "backslash" =>
              (BehindBackslash(s, body, j + 1) <=> ~BehindBackslash(s, body, j))
  <1> DEFINE Run(k) == {n \in 0..(k - body) : \A i \in 1..n : s[k - i] = "backslash"}
  <1>1. ASSUME NEW k \in Nat, k >= body
        PROVE  \E x \in Run(k) : Max(Run(k)) = x /\ \A y \in Run(k) : x >= y
    <2>1. Run(k) \in SUBSET Nat /\ 0 \in Run(k) /\ \A y \in Run(k) : y <= k
      BY <1>1
    <2> HIDE DEF Run
    <2>2. PICK x \in Run(k) : \A y \in Run(k) : x >= y
      BY <1>1, <2>1, GreatestNat
    <2> QED
      BY <2>2 DEF Max
  <1>2. Max(Run(body)) = 0
    <2>1. Run(body) = {0}
      OBVIOUS
    <2> QED
      BY <1>1, <2>1
  <1>3. PICK x \in Run(j) : Max(Run(j)) = x /\ \A y \in Run(j) : x >= y
    BY <1>1
  <1>4. PICK z \in Run(j + 1) : Max(Run(j + 1)) = z /\ \A y \in Run(j + 1) : z >= y
    <2>1. j + 1 \in Nat /\ j + 1 >= body
      OBVIOUS
    <2> HIDE DEF Run
    <2> QED
      BY <1>1, <2>1
  <1>5. s[j] # "backslash" => z = 0
    BY <1>4
  <1>6. s[j] = "backslash" => z = x + 1
    <2> SUFFICES ASSUME s[j] = "backslash" PROVE z = x + 1
      OBVIOUS
    <2>1. x + 1 \in Run(j + 1)
      <3>1. x \in 0..(j - body) /\ \A i \in 1..x : s[j - i] = "backslash"
        BY <1>3
      <3>2. ASSUME NEW i \in 1..(x + 1) PROVE s[(j + 1) - i] = "backslash"
        <4>1. CASE i = 1
          BY <4>1
        <4>2. CASE i # 1
          <5>1. i - 1 \in 1..x /\ (j + 1) - i = j - (i - 1)
            BY <3>1, <4>2
          <5> QED
            BY <3>1, <5>1
        <4> QED
          BY <4>1, <4>2
      <3> QED
        BY <3>1, <3>2
    <2>2. z \in 0..((j + 1) - body) /\ z >= x + 1 /\ x \in Nat
      BY <1>3, <1>4, <2>1
    <2>3. z - 1 \in Run(j)
      <3>1. ASSUME NEW i \in 1..(z - 1) PROVE s[j - i] = "backslash"
        <4>1. i + 1 \in 1..z /\ (j + 1) - (i + 1) = j - i
          BY <2>2, <3>1
        <4>2. s[(j + 1) - (i + 1)] = "backslash"
          BY <1>4, <4>1
        <4> QED
          BY <4>1, <4>2
      <3> QED
        BY <2>2, <3>1
    <2>4. z - 1 <= x
      BY <1>3, <2>3
    <2> QED
      BY <2>2, <2>4
  <1> HIDE DEF Run
  <1>7. \A k : BehindBackslash(s, body, k) <=> Max(Run(k)) % 2 = 1
    BY DEF BehindBackslash, Run
  <1>8. x \in Nat /\ z \in Nat
    BY <1>3, <1>4 DEF Run
  <1> QED
    BY <1>2, <1>3, <1>4, <1>5, <1>6, <1>7, <1>8

\* What _unescaped_literal_end does not refuse ends there whether a backslash
\* protects what follows it or not.
LEMMA UnescapedIsCertain ==
  ASSUME NEW s \in Seq(Symbols), NEW body \in Nat \ {0}, NEW delimiter \in Delimiters,
         NEW protects \in BOOLEAN, UnescapedLiteralEnd(s, body, delimiter) # Refused
  PROVE  BodyEndAs(s, body, delimiter, protects) = UnescapedLiteralEnd(s, body, delimiter)
  <1>1. PICK b :
           /\ BodyEndAs(s, body, delimiter, protects) = b[body]
           /\ \A j \in Nat : b[j] =
                IF j > Len(s) THEN Refused
                ELSE IF (protects /\ s[j] = "backslash") \/ Doubled(s, j, delimiter) THEN b[j + 2]
                ELSE IF At(s, j, delimiter) THEN j + Len(delimiter) ELSE b[j + 1]
    BY BodyEndTurns
  <1>2. PICK u :
           /\ UnescapedLiteralEnd(s, body, delimiter) = u[body]
           /\ \A j \in Nat : u[j] =
                IF j > Len(s) THEN Refused
                ELSE IF ~At(s, j, delimiter) THEN u[j + 1]
                ELSE IF BehindBackslash(s, body, j) THEN Refused
                ELSE IF Doubled(s, j, delimiter) THEN u[j + 2] ELSE j + Len(delimiter)
    BY UnescapedTurns
  <1> DEFINE G == {j \in Nat : j >= body /\ ~BehindBackslash(s, body, j) /\ u[j] # Refused
                                 => b[j] = u[j]}
  <1>3. Len(s) \in Nat /\ Len(delimiter) \in {1, 3}
    BY DelimiterLength
  <1>4. ASSUME NEW j \in Nat, j > Len(s) PROVE j \in G
    BY <1>1, <1>2, <1>3, <1>4
  <1>5. ASSUME NEW j \in Nat, j <= Len(s), \A k \in Nat : k > j => k \in G PROVE j \in G
    <2> SUFFICES ASSUME j >= body, ~BehindBackslash(s, body, j), u[j] # Refused
                 PROVE  b[j] = u[j]
      OBVIOUS
    <2>1. j \in Nat \ {0} /\ j + 1 \in Nat \ {0} /\ j + 1 >= body /\ j + 2 >= body
      OBVIOUS
    <2>2. ~BehindBackslash(s, body, j + 1) /\ u[j + 1] # Refused => b[j + 1] = u[j + 1]
      BY <1>5, <2>1
    <2>3. ~BehindBackslash(s, body, j + 2) /\ u[j + 2] # Refused => b[j + 2] = u[j + 2]
      BY <1>5, <2>1
    <2>4. At(s, j, delimiter) => s[j] # "backslash"
      BY <2>1, DelimiterAt
    <2>5. Doubled(s, j, delimiter) => At(s, j, delimiter) /\ s[j + 1] # "backslash"
      BY <2>1, DoubledAt
    <2>6. /\ s[j] # "backslash" => ~BehindBackslash(s, body, j + 1)
          /\ s[j] = "backslash" => BehindBackslash(s, body, j + 1)
      BY BackslashRun
    <2>7. /\ s[j + 1] # "backslash" => ~BehindBackslash(s, body, j + 2)
          /\ s[j + 1] = "backslash" =>
               (BehindBackslash(s, body, j + 2) <=> ~BehindBackslash(s, body, j + 1))
      <3>1. (j + 1) + 1 = j + 2
        OBVIOUS
      <3> QED
        BY <2>1, <3>1, BackslashRun
    <2>8. u[j + 1] # Refused => j + 1 <= Len(s)
      BY <1>2, <1>3
    <2>9. /\ u[j] = IF ~At(s, j, delimiter) THEN u[j + 1]
                    ELSE IF Doubled(s, j, delimiter) THEN u[j + 2] ELSE j + Len(delimiter)
          /\ b[j] = IF (protects /\ s[j] = "backslash") \/ Doubled(s, j, delimiter) THEN b[j + 2]
                    ELSE IF At(s, j, delimiter) THEN j + Len(delimiter) ELSE b[j + 1]
      BY <1>1, <1>2, <1>5, <1>3
    <2>10. CASE s[j] # "backslash"
      BY <2>2, <2>3, <2>5, <2>6, <2>7, <2>9, <2>10
    <2>11. CASE s[j] = "backslash"
      <3>1. u[j] = u[j + 1] /\ j + 1 <= Len(s) /\ ~Doubled(s, j, delimiter)
        BY <2>4, <2>5, <2>8, <2>9, <2>11
      <3>2. BehindBackslash(s, body, j + 1)
        BY <2>6, <2>11
      <3>3. /\ u[j + 1] = IF ~At(s, j + 1, delimiter) THEN u[(j + 1) + 1] ELSE Refused
            /\ b[j + 1] =
                 IF (protects /\ s[j + 1] = "backslash") \/ Doubled(s, j + 1, delimiter)
                 THEN b[(j + 1) + 2]
                 ELSE IF At(s, j + 1, delimiter) THEN (j + 1) + Len(delimiter) ELSE b[(j + 1) + 1]
            /\ (j + 1) + 1 = j + 2
        BY <1>1, <1>2, <1>3, <2>1, <3>1, <3>2
      <3>4. ~At(s, j + 1, delimiter) /\ ~Doubled(s, j + 1, delimiter)
        BY <2>1, <3>1, <3>3, DoubledAt
      <3>5. u[j] = u[j + 2] /\ ~BehindBackslash(s, body, j + 2)
        BY <2>7, <3>1, <3>2, <3>3, <3>4
      <3>6. b[j + 2] = u[j]
        BY <2>3, <3>5
      <3>7. b[j] = b[j + 2]
        <4>1. CASE protects
          BY <2>9, <2>11, <4>1
        <4>2. CASE ~protects
          BY <2>4, <2>9, <2>11, <3>1, <3>3, <3>4, <4>2
        <4> QED
          BY <4>1, <4>2
      <3> QED
        BY <3>6, <3>7
    <2> QED
      BY <2>10, <2>11
  <1>6. body \in G
    <2> HIDE DEF G
    <2> QED
      BY <1>3, <1>4, <1>5, FromTheEnd
  <1> QED
    BY <1>1, <1>2, <1>6, BackslashRun

-----------------------------------------------------------------------------
(***************************************************************************)
(* Comments.                                                                 *)
(***************************************************************************)
Engines == {"bigquery", "snowflake", "databricks"}

\* What the dialect table says of every engine.
LEMMA DialectFacts ==
  ASSUME NEW engine \in Engines
  PROVE  LET d == Dialects[engine]
         IN /\ d.lineComments \subseteq {"--", "#", "//"}
            /\ d.terminators \in {{"LF"}, {"CR", "LF"}}
            /\ d.triple \in BOOLEAN /\ d.backtick \in BOOLEAN
            /\ d.dollar \in BOOLEAN /\ d.quoteIsString \in BOOLEAN
  BY DEF Engines, Dialects

\* No prefix selects two rules.
LEMMA PrefixFacts ==
  ASSUME NEW engine \in Engines, NEW prefix
  PROVE  LET d == Dialects[engine]
         IN /\ ~(prefix \in d.cooked /\ prefix \in d.raw \cup d.hex)
            /\ <<>> \notin d.cooked \cup d.raw \cup d.hex
  <1>1. CASE engine = "bigquery"
    BY <1>1 DEF Dialects
  <1>2. CASE engine = "snowflake"
    BY <1>2 DEF Dialects
  <1>3. CASE engine = "databricks"
    BY <1>3 DEF Dialects
  <1> QED
    BY <1>1, <1>2, <1>3 DEF Engines

\* What a reading of any text is.
IsReading(r) == r.escapes \in BOOLEAN

\* What all readings have in common.
LEMMA ReadingFacts ==
  ASSUME NEW s, NEW d, NEW r \in Readings(s, d)
  PROVE  /\ \E more \in SUBSET {"CR", "SEP"} : r.ends = d.terminators \cup more
         /\ r.continues \in BOOLEAN /\ r.nests \in BOOLEAN /\ r.escapes \in BOOLEAN
        /\ IsReading(r)
  BY DEF Readings, IsReading

\* A line comment ends at a terminator, unless it is continued, or at another
\* character that somebody takes for one.
LEMMA ReadingEnds ==
  ASSUME NEW s, NEW d, NEW r \in Readings(s, d)
  PROVE  d.terminators \subseteq r.ends /\ r.ends \subseteq d.terminators \cup {"CR", "SEP"}
  <1>1. PICK more \in SUBSET {"CR", "SEP"} : r.ends = d.terminators \cup more
    BY ReadingFacts
  <1> QED
    BY <1>1

\* No text is without a reading.
LEMMA SomeReading ==
  ASSUME NEW s, NEW d
  PROVE  \E r : r \in Readings(s, d)
  <1>1. [ends |-> d.terminators \cup {}, continues |-> FALSE, nests |-> FALSE,
         escapes |-> FALSE] \in Readings(s, d)
    BY DEF Readings
  <1> QED
    BY <1>1

\* Min is what it is called, of positions.
LEMMA MinOfPositions ==
  ASSUME NEW T \in SUBSET Nat, T # {}
  PROVE  Min(T) \in T /\ \A y \in T : Min(T) <= y
  <1>1. \E x \in T : \A y \in T : x <= y
    BY LeastNat
  <1> QED
    BY <1>1 DEF Min

\* A line comment ends behind its opening, in every reading.
LEMMA LineCommentType ==
  ASSUME NEW s \in Seq(Symbols), NEW i \in 1..Len(s), NEW r
  PROVE  LineCommentEndAs(s, i, r) \in (i + 1)..(Len(s) + 1)
  <1> DEFINE continued(j) ==
        /\ r.continues
        /\ \/ s[j - 1] = "backslash"
           \/ s[j] = "LF" /\ s[j - 1] = "CR" /\ j - 2 > i /\ s[j - 2] = "backslash"
             ends == {j \in (i + 1)..Len(s) : s[j] \in r.ends /\ ~continued(j)}
  <1>1. LineCommentEndAs(s, i, r) = IF ends = {} THEN Len(s) + 1 ELSE Min(ends) + 1
    BY Zenon DEF LineCommentEndAs
  <1>2. ends \in SUBSET Nat /\ ends \subseteq (i + 1)..Len(s)
    OBVIOUS
  <1> HIDE DEF ends
  <1>3. ends # {} => Min(ends) \in (i + 1)..Len(s)
    BY <1>2, MinOfPositions
  <1> QED
    BY <1>1, <1>3

\* Where a line comment ends that the gate does not refuse: in every reading
\* there, or at the CR right before the LF it ends with.
LEMMA LineCommentIsCertain ==
  ASSUME NEW s \in Seq(Symbols), NEW i \in 1..Len(s), NEW d, NEW r,
         d.terminators \in {{"LF"}, {"CR", "LF"}},
         d.terminators \subseteq r.ends, r.ends \subseteq d.terminators \cup {"CR", "SEP"},
         s[i] \in {"--", "#", "//"},
         LineCommentEnd(s, i, d) # Refused
  PROVE  /\ LineCommentEnd(s, i, d) \in (i + 1)..(Len(s) + 1)
         /\ LineCommentEndAs(s, i, r) # LineCommentEnd(s, i, d) =>
              /\ LineCommentEndAs(s, i, r) = LineCommentEnd(s, i, d) - 1
              /\ s[LineCommentEnd(s, i, d) - 1] = "LF"
  <1> DEFINE ends   == {j \in i..Len(s) : s[j] \in d.terminators}
             last   == IF ends = {} THEN Len(s) ELSE Min(ends)
             before == IF s[last] = "LF" /\ s[last - 1] = "CR" THEN last - 2 ELSE last - 1
             bareCR == {j \in i..last : s[j] = "CR" /\ (j = last \/ s[j + 1] # "LF")}
             refused == \/ \E j \in i..last : s[j] = "SEP"
                        \/ "CR" \notin d.terminators /\ bareCR # {}
                        \/ ends # {} /\ before > i /\ s[before] = "backslash"
             continued(j) ==
               /\ r.continues
               /\ \/ s[j - 1] = "backslash"
                  \/ s[j] = "LF" /\ s[j - 1] = "CR" /\ j - 2 > i /\ s[j - 2] = "backslash"
             endsAs == {j \in (i + 1)..Len(s) : s[j] \in r.ends /\ ~continued(j)}
  <1>1. LineCommentEnd(s, i, d) = IF refused THEN Refused ELSE last + 1
    BY Zenon DEF LineCommentEnd
  <1>2. LineCommentEndAs(s, i, r) = IF endsAs = {} THEN Len(s) + 1 ELSE Min(endsAs) + 1
    BY Zenon DEF LineCommentEndAs
  <1>3. ~refused
    BY <1>1
  <1>4. /\ ends # {} => Min(ends) \in ends /\ \A y \in ends : Min(ends) <= y
        /\ endsAs # {} => Min(endsAs) \in endsAs /\ \A y \in endsAs : Min(endsAs) <= y
    <2>1. ends \in SUBSET Nat /\ endsAs \in SUBSET Nat
      OBVIOUS
    <2> HIDE DEF ends, endsAs
    <2> QED
      BY <2>1, MinOfPositions
  \* What else may end a comment is a CR that an LF follows.
  <1>5. ASSUME NEW j \in (i + 1)..last, s[j] \in r.ends, s[j] \notin d.terminators
        PROVE  j < last /\ s[j] = "CR" /\ s[j + 1] = "LF"
    <2>1. s[j] \in {"CR", "SEP"}
      BY <1>5
    <2>2. j \in i..last /\ j <= last /\ last \in Int
      <3>1. last \in Int
        BY <1>4
      <3> QED
        BY <1>5, <3>1
    <2> HIDE DEF last
    <2>3. s[j] # "SEP"
      BY <1>3, <2>2
    <2>4. "CR" \notin d.terminators
      BY <1>5, <2>1, <2>3
    <2>5. j \notin bareCR
      BY <1>3, <2>4
    <2>6. s[j] = "CR"
      BY <2>1, <2>3
    <2>7. j # last /\ s[j + 1] = "LF"
      BY <2>2, <2>5, <2>6
    <2> QED
      BY <2>2, <2>6, <2>7
  <1>6. CASE ends = {}
    <2>1. ASSUME NEW j \in (i + 1)..Len(s), s[j] \in r.ends PROVE FALSE
      <3>1. s[j] \notin d.terminators
        BY <1>6, <2>1
      <3>2. j < Len(s) /\ s[j + 1] = "LF"
        BY <1>5, <1>6, <2>1, <3>1
      <3>3. j + 1 \in ends
        BY <3>2
      <3> QED
        BY <1>6, <3>3
    <2>2. endsAs = {}
      BY <2>1
    <2> QED
      BY <1>1, <1>2, <1>3, <1>6, <2>2
  <1>7. CASE ends # {}
    <2>1. last \in (i + 1)..Len(s) /\ s[last] \in d.terminators
      BY <1>4, <1>7
    <2>2. ASSUME NEW j \in (i + 1)..last, s[j] \in r.ends, j # last
          PROVE  j = last - 1 /\ s[last] = "LF"
      <3>1. s[j] \notin d.terminators
        <4> SUFFICES ASSUME s[j] \in d.terminators PROVE FALSE
          OBVIOUS
        <4>1. j \in ends /\ last = Min(ends)
          BY <1>7, <2>1, <2>2
        <4>2. last <= j
          BY <1>4, <1>7, <4>1
        <4> HIDE DEF last, ends
        <4> QED
          BY <2>1, <2>2, <4>2
      <3>2. j < last /\ s[j + 1] = "LF"
        BY <1>5, <2>2, <3>1
      <3>3. j + 1 \in ends
        BY <2>1, <3>2
      <3>4. j \in Nat /\ last = Min(ends) /\ Min(ends) <= j + 1 /\ last \in Nat
        BY <1>4, <1>7, <2>1, <3>3
      <3> HIDE DEF last, ends
      <3>5. j = last - 1
        BY <3>2, <3>4
      <3> QED
        BY <3>2, <3>4, <3>5
    <2>3. last \in endsAs
      <3>1. s[last - 1] # "backslash"
        <4> SUFFICES ASSUME s[last - 1] = "backslash" PROVE FALSE
          OBVIOUS
        <4>1. before = last - 1 /\ last - 1 # i
          OBVIOUS
        <4> HIDE DEF last, before, ends, bareCR
        <4>2. before > i /\ s[before] = "backslash"
          BY <2>1, <4>1
        <4> QED
          BY <1>3, <1>7, <4>2
      <3>2. ~(s[last] = "LF" /\ s[last - 1] = "CR" /\ last - 2 > i /\ s[last - 2] = "backslash")
        BY <1>3, <1>7
      <3> QED
        BY <2>1, <3>1, <3>2
    <2>4. endsAs # {} /\ Min(endsAs) \in endsAs /\ Min(endsAs) <= last
      BY <1>4, <2>3
    <2>5. Min(endsAs) \in (i + 1)..Len(s) /\ s[Min(endsAs)] \in r.ends
      BY <2>4
    <2> HIDE DEF last, endsAs, refused
    <2>6. Min(endsAs) \in (i + 1)..last
      BY <2>1, <2>4, <2>5
    <2>7. Min(endsAs) # last => Min(endsAs) = last - 1 /\ s[last] = "LF"
      BY <2>2, <2>5, <2>6
    <2>8. LineCommentEnd(s, i, d) = last + 1 /\ LineCommentEndAs(s, i, r) = Min(endsAs) + 1
      BY <1>1, <1>2, <1>3, <2>4
    <2>9. (last + 1) - 1 = last
      BY <2>1
    <2> QED
      BY <2>1, <2>6, <2>7, <2>8, <2>9
  <1> QED
    BY <1>6, <1>7

\* A block comment that is closed ends behind its opening, in every reading.
LEMMA BlockCommentType ==
  ASSUME NEW s \in Seq(Symbols), NEW i \in 1..Len(s), NEW r
  PROVE  \/ BlockCommentEndAs(s, i, r) = Refused
         \/ BlockCommentEndAs(s, i, r) \in (i + 1)..(Len(s) + 1)
  <1> DEFINE count(symbol, j) == Cardinality({k \in (i + 1)..j : s[k] = symbol})
             opened(j) == IF r.nests THEN 1 + count("/*", j) ELSE 1
             closes    == {j \in (i + 1)..Len(s) : count("*/", j) >= opened(j)}
  <1>1. BlockCommentEndAs(s, i, r) = IF closes = {} THEN Refused ELSE Min(closes) + 1
    BY Zenon DEF BlockCommentEndAs
  <1>2. closes \in SUBSET Nat /\ closes \subseteq (i + 1)..Len(s)
    OBVIOUS
  <1> HIDE DEF closes
  <1>3. closes # {} => Min(closes) \in (i + 1)..Len(s)
    BY <1>2, MinOfPositions
  <1> QED
    BY <1>1, <1>3

\* A block comment that the gate does not refuse has none inside, and ends at the
\* first "*/" whether comments nest or not.
LEMMA BlockCommentIsCertain ==
  ASSUME NEW s \in Seq(Symbols), NEW i \in 1..Len(s), NEW r, r.nests \in BOOLEAN,
         BlockCommentEnd(s, i) # Refused
  PROVE  /\ BlockCommentEnd(s, i) \in (i + 1)..(Len(s) + 1)
         /\ BlockCommentEndAs(s, i, r) = BlockCommentEnd(s, i)
  <1> DEFINE first     == {j \in (i + 1)..Len(s) : s[j] = "*/"}
             count(symbol, j) == Cardinality({k \in (i + 1)..j : s[k] = symbol})
             opened(j) == IF r.nests THEN 1 + count("/*", j) ELSE 1
             closes    == {j \in (i + 1)..Len(s) : count("*/", j) >= opened(j)}
             m         == Min(first)
  <1>1. /\ BlockCommentEnd(s, i) = IF first = {} \/ \E j \in (i + 1)..Min(first) : s[j] = "/*"
                                   THEN Refused ELSE Min(first) + 1
        /\ BlockCommentEndAs(s, i, r) = IF closes = {} THEN Refused ELSE Min(closes) + 1
    BY Zenon DEF BlockCommentEnd, BlockCommentEndAs
  <1>2. first # {} /\ \A j \in (i + 1)..m : s[j] # "/*"
    BY <1>1
  <1>3. m \in (i + 1)..Len(s) /\ s[m] = "*/" /\ \A j \in (i + 1)..Len(s) : s[j] = "*/" => m <= j
    <2>1. first \in SUBSET Nat
      OBVIOUS
    <2>2. m \in first /\ \A j \in first : m <= j
      <3> HIDE DEF first
      <3> QED
        BY <1>2, <2>1, MinOfPositions
    <2> HIDE DEF m
    <2> QED
      BY <2>2
  <1> HIDE DEF m
  <1>4. m \in closes
    <2>1. {k \in (i + 1)..m : s[k] = "*/"} = {m}
      BY <1>3
    <2>2. {k \in (i + 1)..m : s[k] = "/*"} = {}
      BY <1>2
    <2>3. count("*/", m) = 1
      BY <2>1, FS_Singleton
    <2>4. count("/*", m) = 0
      BY <2>2, FS_EmptySet
    <2> HIDE DEF count
    <2> QED
      BY <1>3, <2>3, <2>4
  <1>5. ASSUME NEW j \in closes PROVE m <= j
    <2> SUFFICES ASSUME j < m PROVE FALSE
      BY <1>3
    <2>1. {k \in (i + 1)..j : s[k] = "*/"} = {}
      BY <1>3
    <2>2. count("*/", j) = 0
      BY <2>1, FS_EmptySet
    <2>3. count("/*", j) \in Nat
      <3>1. IsFiniteSet((i + 1)..j)
        BY FS_Interval
      <3>2. {k \in (i + 1)..j : s[k] = "/*"} \subseteq (i + 1)..j
        OBVIOUS
      <3> QED
        BY <3>1, <3>2, FS_Subset, FS_CardinalityType
    <2> HIDE DEF count
    <2> QED
      BY <2>2, <2>3
  <1> HIDE DEF opened, count
  <1>6. Min(closes) = m
    <2>1. closes \in SUBSET Nat /\ closes # {}
      BY <1>4
    <2>2. Min(closes) \in closes /\ \A y \in closes : Min(closes) <= y
      <3> HIDE DEF closes
      <3> QED
        BY <2>1, MinOfPositions
    <2>3. Min(closes) <= m /\ m <= Min(closes) /\ Min(closes) \in Nat
      BY <1>4, <1>5, <2>1, <2>2
    <2> HIDE DEF closes
    <2> QED
      BY <1>3, <2>3
  <1> HIDE DEF closes, first
  <1> QED
    BY <1>1, <1>2, <1>3, <1>4, <1>6 DEF m

-----------------------------------------------------------------------------
(***************************************************************************)
(* The gate and a reading, lexeme by lexeme.                                 *)
(***************************************************************************)
\* A quoted literal that the lexer does not refuse ends there in every reading.
LEMMA QuotedIsCertain ==
  ASSUME NEW engine \in Engines, NEW s \in Seq(Symbols), NEW i \in 1..Len(s),
         NEW r \in Readings(s, Dialects[engine]), s[i] \in {"quote", "dquote"},
         QuotedEnd(s, i, Dialects[engine]) # Refused
  PROVE  LiteralEndAs(s, i, Dialects[engine], r) = QuotedEnd(s, i, Dialects[engine])
  <1> DEFINE d         == Dialects[engine]
             quote     == s[i]
             prefix    == PrefixBefore(s, i)
             three     == <<quote, quote, quote>>
             delimiter == IF d.triple /\ At(s, i, three) THEN three ELSE <<quote>>
             body      == i + Len(delimiter)
             cooked    == \/ prefix = <<>> /\ (quote = "quote" \/ d.quoteIsString)
                          \/ prefix \in d.cooked
             plain     == \/ prefix = <<>> /\ quote = "dquote" /\ ~d.quoteIsString
                          \/ prefix \in d.raw
                          \/ prefix \in d.hex /\ delimiter = <<"quote">>
             delimiterAs == IF s[i] \in {"quote", "dquote"} /\ d.triple /\ At(s, i, three)
                            THEN three ELSE <<s[i]>>
             cookedAs == \/ prefix \in d.cooked
                         \/ prefix = <<>> /\ s[i] = "quote"
                         \/ prefix = <<>> /\ s[i] = "dquote" /\ d.quoteIsString
  <1>1. QuotedEnd(s, i, d) =
          CASE cooked -> EscapedLiteralEnd(s, body, delimiter)
            [] plain  -> UnescapedLiteralEnd(s, body, delimiter)
            [] OTHER  -> Refused
    BY Zenon DEF QuotedEnd
  <1>2. LiteralEndAs(s, i, d, r) =
          BodyEndAs(s, i + Len(delimiterAs), delimiterAs, cookedAs \/ r.escapes)
    BY Zenon DEF LiteralEndAs
  <1>3. delimiterAs = delimiter /\ (cookedAs <=> cooked)
    BY DEF delimiterAs
  <1>4. delimiter \in Delimiters
    BY DEF Delimiters, Quotes
  <1>5. body \in Nat \ {0} /\ r.escapes \in BOOLEAN
    BY <1>4, DelimiterLength, ReadingFacts
  <1>6. ~(cooked /\ plain)
    <2>1. ~(prefix \in d.cooked /\ prefix \in d.raw \cup d.hex) /\ <<>> \notin d.cooked \cup d.raw \cup d.hex
      BY PrefixFacts
    <2> HIDE DEF d, prefix, delimiter
    <2> QED
      BY <2>1
  <1>0. QuotedEnd(s, i, d) # Refused
    OBVIOUS
  <1> HIDE DEF delimiter, delimiterAs, cooked, cookedAs, plain, d
  <1>7. CASE cooked
    <2>1. QuotedEnd(s, i, d) = BodyEndAs(s, body, delimiter, TRUE)
      <3>1. QuotedEnd(s, i, d) = EscapedLiteralEnd(s, body, delimiter)
        BY Zenon, <1>1, <1>6, <1>7
      <3> QED
        BY Zenon, <3>1, EscapedIsProtected
    <2>2. LiteralEndAs(s, i, d, r) = BodyEndAs(s, body, delimiter, TRUE)
      <3>1. (cookedAs \/ r.escapes) = TRUE
        BY <1>3, <1>5, <1>7
      <3>2. LiteralEndAs(s, i, d, r) = BodyEndAs(s, i + Len(delimiter), delimiter, cookedAs \/ r.escapes)
        BY Zenon, <1>2, <1>3
      <3> QED
        BY Zenon, <3>1, <3>2
    <2> QED
      BY <2>1, <2>2 DEF d
  <1>8. CASE ~cooked
    <2>1. plain /\ QuotedEnd(s, i, d) = UnescapedLiteralEnd(s, body, delimiter)
      <3>1. plain => QuotedEnd(s, i, d) = UnescapedLiteralEnd(s, body, delimiter)
        BY Zenon, <1>1, <1>8
      <3>2. ~plain => QuotedEnd(s, i, d) = Refused
        BY Zenon, <1>1, <1>8
      <3> QED
        BY <1>0, <3>1, <3>2 DEF d
    <2>2. LiteralEndAs(s, i, d, r) = BodyEndAs(s, body, delimiter, r.escapes)
      <3>1. (cookedAs \/ r.escapes) = r.escapes
        BY <1>3, <1>5, <1>8
      <3>2. LiteralEndAs(s, i, d, r) = BodyEndAs(s, i + Len(delimiter), delimiter, cookedAs \/ r.escapes)
        BY Zenon, <1>2, <1>3
      <3> QED
        BY Zenon, <3>1, <3>2
    <2>3. UnescapedLiteralEnd(s, body, delimiter) # Refused
      BY <1>0, <2>1
    <2> QED
      BY <1>4, <1>5, <2>1, <2>2, <2>3, UnescapedIsCertain DEF d
  <1> QED
    BY <1>7, <1>8

\* The delimiter a literal is closed by.
LEMMA DelimiterOfLiteral ==
  ASSUME NEW engine \in Engines, NEW s \in Seq(Symbols), NEW i \in 1..Len(s), NEW r,
         r.escapes \in BOOLEAN, OpensLiteral(s, i, Dialects[engine])
  PROVE  \E delimiter \in Delimiters, protects \in BOOLEAN :
           /\ LiteralEndAs(s, i, Dialects[engine], r)
                = BodyEndAs(s, i + Len(delimiter), delimiter, protects)
           /\ s[i] \notin {"quote", "dquote"} => delimiter = <<s[i]>>
  <1> DEFINE d         == Dialects[engine]
             three     == <<s[i], s[i], s[i]>>
             delimiter == IF s[i] \in {"quote", "dquote"} /\ d.triple /\ At(s, i, three)
                          THEN three ELSE <<s[i]>>
             prefix    == PrefixBefore(s, i)
             cooked    == \/ prefix \in d.cooked
                          \/ prefix = <<>> /\ s[i] = "quote"
                          \/ prefix = <<>> /\ s[i] = "dquote" /\ d.quoteIsString
  <1>1. LiteralEndAs(s, i, d, r)
          = BodyEndAs(s, i + Len(delimiter), delimiter, cooked \/ r.escapes)
    BY Zenon DEF LiteralEndAs
  <1>2. s[i] \in Quotes
    BY DEF OpensLiteral, Quotes
  <1>3. delimiter \in Delimiters
    BY <1>2 DEF Delimiters
  <1>4. (cooked \/ r.escapes) \in BOOLEAN
    OBVIOUS
  <1>5. s[i] \notin {"quote", "dquote"} => delimiter = <<s[i]>>
    OBVIOUS
  <1> HIDE DEF delimiter, cooked
  <1> QED
    BY <1>1, <1>3, <1>4, <1>5

\* A literal that opens does so in every reading, and ends where the gate says.
LEMMA LiteralIsCertain ==
  ASSUME NEW engine \in Engines, NEW s \in Seq(Symbols), NEW i \in 1..Len(s),
         NEW r \in Readings(s, Dialects[engine]),
         LiteralEnd(s, i, Dialects[engine]) # Refused
  PROVE  LET d == Dialects[engine]
         IN /\ LiteralEnd(s, i, d) = None => ~OpensLiteral(s, i, d)
            /\ LiteralEnd(s, i, d) # None =>
                 /\ OpensLiteral(s, i, d)
                 /\ LiteralEndAs(s, i, d, r) = LiteralEnd(s, i, d)
                 /\ LiteralEnd(s, i, d) \in Nat /\ LiteralEnd(s, i, d) > i + 1
  <1> DEFINE d == Dialects[engine]
  <1>0. r.escapes \in BOOLEAN
    BY ReadingFacts
  <1>1. ASSUME OpensLiteral(s, i, d), LiteralEndAs(s, i, d, r) # Refused
        PROVE  LiteralEndAs(s, i, d, r) \in Nat /\ LiteralEndAs(s, i, d, r) > i + 1
    <2>1. PICK delimiter \in Delimiters, protects \in BOOLEAN :
            /\ LiteralEndAs(s, i, d, r) = BodyEndAs(s, i + Len(delimiter), delimiter, protects)
            /\ s[i] \notin {"quote", "dquote"} => delimiter = <<s[i]>>
      BY <1>0, <1>1, DelimiterOfLiteral
    <2>2. Len(delimiter) \in Nat \ {0} /\ i \in Nat
      BY DelimiterLength
    <2> HIDE DEF d
    <2>3. i + Len(delimiter) \in Nat /\ i + Len(delimiter) >= i + 1
      BY <2>2
    <2> QED
      BY <1>1, <2>1, <2>3, BodyEndType
  \* A quote that opens a literal whose rules do not depend on its prefix.
  <1>2. ASSUME s[i] \in {"backtick", "$$"}, OpensLiteral(s, i, d),
               LiteralEnd(s, i, d) = UnescapedLiteralEnd(s, i + 1, <<s[i]>>)
        PROVE  LiteralEndAs(s, i, d, r) = LiteralEnd(s, i, d)
    <2>1. PICK delimiter \in Delimiters, protects \in BOOLEAN :
            /\ LiteralEndAs(s, i, d, r) = BodyEndAs(s, i + Len(delimiter), delimiter, protects)
            /\ s[i] \notin {"quote", "dquote"} => delimiter = <<s[i]>>
      BY <1>0, <1>2, DelimiterOfLiteral
    <2>2. delimiter = <<s[i]>> /\ Len(delimiter) = 1
      BY <1>2, <2>1
    <2>3. i + 1 \in Nat \ {0} /\ UnescapedLiteralEnd(s, i + 1, delimiter) # Refused
      BY <1>2, <2>2
    <2>4. BodyEndAs(s, i + 1, delimiter, protects) = UnescapedLiteralEnd(s, i + 1, delimiter)
      BY <2>3, UnescapedIsCertain
    <2> QED
      BY <1>2, <2>1, <2>2, <2>4
  <1>3. CASE s[i] \in {"quote", "dquote"}
    <2>1. LiteralEnd(s, i, d) = QuotedEnd(s, i, d)
      BY Zenon, <1>3 DEF LiteralEnd
    <2>2. LiteralEndAs(s, i, d, r) = LiteralEnd(s, i, d)
      BY <1>3, <2>1, QuotedIsCertain
    <2>3. OpensLiteral(s, i, d)
      BY <1>3 DEF OpensLiteral
    <2> QED
      BY <1>1, <2>2, <2>3 DEF None
  <1>4. CASE s[i] = "backtick" /\ d.backtick
    <2>1. LiteralEnd(s, i, d) = UnescapedLiteralEnd(s, i + 1, <<"backtick">>)
      <3>1. s[i] \notin {"quote", "dquote"}
        BY <1>4
      <3> QED
        BY Zenon, <1>4, <3>1 DEF LiteralEnd
    <2>2. OpensLiteral(s, i, d)
      BY <1>4 DEF OpensLiteral
    <2> QED
      BY <1>1, <1>2, <1>4, <2>1, <2>2 DEF None
  <1>5. CASE s[i] = "$$" /\ d.dollar
    <2>1. LiteralEnd(s, i, d) = IF PrefixBefore(s, i) # <<>> THEN Refused
                                ELSE UnescapedLiteralEnd(s, i + 1, <<"$$">>)
      <3>1. s[i] \notin {"quote", "dquote"} /\ ~(s[i] = "backtick" /\ d.backtick)
        BY <1>5
      <3> QED
        BY Zenon, <1>5, <3>1 DEF LiteralEnd
    <2>2. OpensLiteral(s, i, d)
      BY <1>5 DEF OpensLiteral
    <2> QED
      BY <1>1, <1>2, <1>5, <2>1, <2>2 DEF None
  <1>6. CASE /\ s[i] \notin {"quote", "dquote"}
             /\ ~(s[i] = "backtick" /\ d.backtick)
             /\ ~(s[i] = "$$" /\ d.dollar)
    <2>1. LiteralEnd(s, i, d) = None
      BY Zenon, <1>6 DEF LiteralEnd
    <2> QED
      BY <1>6, <2>1 DEF OpensLiteral
  <1> QED
    BY <1>3, <1>4, <1>5, <1>6

Positions == Nat \ {0}
Kinds     == {"open", "comment", "literal", "space", "code"}
AllLexemes == [kind : Kinds, first : Positions, last : Nat]

\* No comment and no space opens where a literal does.
LEMMA LexemeOfLiteral ==
  ASSUME NEW engine \in Engines, NEW s, NEW i, NEW r,
         OpensLiteral(s, i, Dialects[engine])
  PROVE  LexemeAt(s, i, Dialects[engine], r) =
           Lexeme(s, "literal", i, LiteralEndAs(s, i, Dialects[engine], r))
  <1>1. s[i] \in Quotes
    BY DEF OpensLiteral, Quotes
  <1>2. s[i] \notin Dialects[engine].lineComments /\ s[i] # "/*" /\ s[i] \notin Spaces
    BY <1>1, DialectFacts DEF Quotes, Spaces
  <1> QED
    BY Zenon, <1>2 DEF LexemeAt

\* What opens at a position, case by case.
LEMMA LexemeCases ==
  ASSUME NEW engine \in Engines, NEW s, NEW i, NEW r
  PROVE  LET d == Dialects[engine]
             l == LexemeAt(s, i, d, r)
         IN /\ s[i] \in d.lineComments =>
                 l = Lexeme(s, "comment", i, LineCommentEndAs(s, i, r))
            /\ s[i] = "/*" => l = Lexeme(s, "comment", i, BlockCommentEndAs(s, i, r))
            /\ OpensLiteral(s, i, d) =>
                 l = Lexeme(s, "literal", i, LiteralEndAs(s, i, d, r))
            /\ s[i] \in Spaces => l = Lexeme(s, "space", i, i + 1)
            /\ /\ s[i] \notin d.lineComments /\ s[i] # "/*" /\ ~OpensLiteral(s, i, d)
               /\ s[i] \notin Spaces
               => l = Lexeme(s, "code", i, i + 1)
  <1> DEFINE d == Dialects[engine]
             l == LexemeAt(s, i, d, r)
  <1>1. s[i] \in d.lineComments => s[i] \in {"--", "#", "//"}
    BY DialectFacts
  <1>2. OpensLiteral(s, i, d) => s[i] \in Quotes
    BY DEF OpensLiteral, Quotes
  <1> HIDE DEF d
  <1>3. CASE s[i] \in d.lineComments
    <2>1. s[i] # "/*" /\ ~OpensLiteral(s, i, d) /\ s[i] \notin Spaces
      BY <1>1, <1>2, <1>3 DEF Quotes, Spaces
    <2> QED
      BY Zenon, <1>3, <2>1 DEF LexemeAt, d
  <1>4. CASE s[i] = "/*"
    <2>1. s[i] \notin d.lineComments /\ ~OpensLiteral(s, i, d) /\ s[i] \notin Spaces
      BY <1>1, <1>2, <1>4 DEF Quotes, Spaces
    <2> QED
      BY Zenon, <1>4, <2>1 DEF LexemeAt, d
  <1>5. CASE OpensLiteral(s, i, d)
    <2>1. s[i] \notin d.lineComments /\ s[i] # "/*" /\ s[i] \notin Spaces
      BY <1>1, <1>2, <1>5 DEF Quotes, Spaces
    <2>2. l = Lexeme(s, "literal", i, LiteralEndAs(s, i, d, r))
      BY <1>5, LexemeOfLiteral DEF d
    <2> QED
      BY Zenon, <1>5, <2>1, <2>2 DEF l, d
  <1>6. CASE s[i] \in Spaces
    <2>1. s[i] \notin d.lineComments /\ s[i] # "/*" /\ ~OpensLiteral(s, i, d)
      BY <1>1, <1>2, <1>6 DEF Quotes, Spaces
    <2> QED
      BY Zenon, <1>6, <2>1 DEF LexemeAt, d
  <1>7. CASE /\ s[i] \notin d.lineComments /\ s[i] # "/*" /\ ~OpensLiteral(s, i, d)
             /\ s[i] \notin Spaces
    BY Zenon, <1>7 DEF LexemeAt, d
  <1> QED
    BY <1>3, <1>4, <1>5, <1>6, <1>7 DEF d

\* Code is read one symbol at a time.
LEMMA CodeIsOneSymbol ==
  ASSUME NEW engine \in Engines, NEW s \in Seq(Symbols), NEW i \in 1..Len(s), NEW r
  PROVE  LET l == LexemeAt(s, i, Dialects[engine], r) IN l.kind = "code" => l.last = i
  <1> DEFINE d == Dialects[engine]
             l == LexemeAt(s, i, d, r)
  <1>1. ASSUME NEW kind, NEW e PROVE Lexeme(s, kind, i, e).kind \in {kind, "open"}
    BY DEF Lexeme
  <1>2. \/ \E kind \in {"comment", "literal", "space"} : \E e : l = Lexeme(s, kind, i, e)
        \/ l = Lexeme(s, "code", i, i + 1)
    <2>1. \/ l = Lexeme(s, "comment", i, LineCommentEndAs(s, i, r))
          \/ l = Lexeme(s, "comment", i, BlockCommentEndAs(s, i, r))
          \/ l = Lexeme(s, "literal", i, LiteralEndAs(s, i, d, r))
          \/ l = Lexeme(s, "space", i, i + 1)
          \/ l = Lexeme(s, "code", i, i + 1)
      BY LexemeCases
    <2> HIDE DEF l, d
    <2> QED
      BY <2>1
  <1> HIDE DEF l
  <1>3. l = Lexeme(s, "code", i, i + 1) => l.last = i
    BY DEF Lexeme, Refused
  <1>4. (\E kind \in {"comment", "literal", "space"} : \E e : l = Lexeme(s, kind, i, e))
          => l.kind # "code"
    BY <1>1
  <1> QED
    BY <1>2, <1>3, <1>4 DEF l

\* A lexeme of one symbol.
LEMMA OneSymbol ==
  ASSUME NEW s, NEW i \in Nat, NEW kind
  PROVE  Lexeme(s, kind, i, i + 1) = [kind |-> kind, first |-> i, last |-> i]
  <1>1. i + 1 # Refused /\ (i + 1) - 1 = i
    BY DEF Refused
  <1> QED
    BY <1>1 DEF Lexeme

\* White space is read alike by all.
LEMMA SpaceAt ==
  ASSUME NEW engine \in Engines, NEW s, NEW i \in Nat, s[i] \in Spaces,
         NEW r
  PROVE  LexemeAt(s, i, Dialects[engine], r) = [kind |-> "space", first |-> i, last |-> i]
  <1> DEFINE d == Dialects[engine]
  <1>1. LexemeAt(s, i, d, r) = Lexeme(s, "space", i, i + 1)
    <2>1. s[i] \notin d.lineComments /\ s[i] # "/*" /\ ~OpensLiteral(s, i, d)
      BY DialectFacts DEF Spaces, OpensLiteral
    <2> QED
      BY Zenon, <2>1 DEF LexemeAt
  <1> HIDE DEF d
  <1> QED
    BY <1>1, OneSymbol DEF d

\* What is neither comment, literal nor white space is code, and read alike by all.
LEMMA CodeAt ==
  ASSUME NEW engine \in Engines, NEW s, NEW i \in Nat,
         s[i] \notin Dialects[engine].lineComments, s[i] # "/*", s[i] \notin Spaces,
         ~OpensLiteral(s, i, Dialects[engine]),
         NEW r
  PROVE  LexemeAt(s, i, Dialects[engine], r) = [kind |-> "code", first |-> i, last |-> i]
  <1> DEFINE d == Dialects[engine]
  <1>1. LexemeAt(s, i, d, r) = Lexeme(s, "code", i, i + 1)
    BY Zenon DEF LexemeAt
  <1> HIDE DEF d
  <1> QED
    BY <1>1, OneSymbol DEF d

\* A lexeme has at least one symbol, its first.
LEMMA LexemeType ==
  ASSUME NEW engine \in Engines, NEW s \in Seq(Symbols), NEW i \in 1..Len(s),
         NEW r, IsReading(r)
  PROVE  LET l == LexemeAt(s, i, Dialects[engine], r)
         IN l \in AllLexemes /\ l.first = i /\ l.last >= i /\ l.last <= Len(s)
  <1> DEFINE d == Dialects[engine]
             l == LexemeAt(s, i, d, r)
             Fits(stop) == stop = Refused \/ (stop \in Nat /\ stop > i /\ stop <= Len(s) + 1)
  <1>1. ASSUME NEW kind \in Kinds, NEW stop, Fits(stop)
        PROVE  /\ Lexeme(s, kind, i, stop) \in AllLexemes
               /\ Lexeme(s, kind, i, stop).first = i /\ Lexeme(s, kind, i, stop).last >= i
               /\ Lexeme(s, kind, i, stop).last <= Len(s)
    <2>1. CASE stop = Refused
      BY <2>1 DEF Lexeme, AllLexemes, Kinds, Positions
    <2>2. CASE stop # Refused
      BY <1>1, <2>2 DEF Lexeme, AllLexemes, Positions
    <2> QED
      BY <2>1, <2>2
  <1>2. Fits(LineCommentEndAs(s, i, r))
    BY LineCommentType
  <1>3. Fits(BlockCommentEndAs(s, i, r))
    BY BlockCommentType
  <1>4. OpensLiteral(s, i, d) => Fits(LiteralEndAs(s, i, d, r))
    <2> SUFFICES ASSUME OpensLiteral(s, i, d) PROVE Fits(LiteralEndAs(s, i, d, r))
      OBVIOUS
    <2>1. PICK delimiter \in Delimiters, protects \in BOOLEAN :
            LiteralEndAs(s, i, d, r) = BodyEndAs(s, i + Len(delimiter), delimiter, protects)
      BY DelimiterOfLiteral DEF IsReading
    <2>2. i + Len(delimiter) \in Nat /\ i + Len(delimiter) > i
      BY DelimiterLength
    <2> QED
      BY <2>1, <2>2, BodyEndType
  <1>5. Fits(i + 1)
    OBVIOUS
  <1>6. {"comment", "literal", "space", "code"} \subseteq Kinds
    BY DEF Kinds
  <1>7. \/ l = Lexeme(s, "comment", i, LineCommentEndAs(s, i, r))
        \/ l = Lexeme(s, "comment", i, BlockCommentEndAs(s, i, r))
        \/ OpensLiteral(s, i, d) /\ l = Lexeme(s, "literal", i, LiteralEndAs(s, i, d, r))
        \/ l = Lexeme(s, "space", i, i + 1)
        \/ l = Lexeme(s, "code", i, i + 1)
    BY LexemeCases
  <1> HIDE DEF l, Fits
  <1>8. l \in AllLexemes /\ l.first = i /\ l.last >= i /\ l.last <= Len(s)
    BY <1>1, <1>2, <1>3, <1>4, <1>5, <1>6, <1>7
  <1> QED
    BY <1>8 DEF l

\* The recursion of LexemesFrom goes through.
LEMMA LexemesTurns ==
  ASSUME NEW engine \in Engines, NEW s \in Seq(Symbols),
         NEW r, IsReading(r), NEW i \in Positions
  PROVE  LET d == Dialects[engine]
             l == LexemeAt(s, i, d, r)
         IN /\ LexemesFrom(s, i, d, r) \subseteq AllLexemes
            /\ i > Len(s) => LexemesFrom(s, i, d, r) = {}
            /\ ~(i > Len(s)) =>
                 LexemesFrom(s, i, d, r) = {l} \cup LexemesFrom(s, l.last + 1, d, r)
  <1> DEFINE d     == Dialects[engine]
             at(j) == LexemeAt(s, j, d, r)
             after == {j \in Positions : j > Len(s)}
             sets  == SUBSET AllLexemes
             m     == [j \in Positions |-> IF j > Len(s) THEN 0 ELSE Len(s) + 1 - j]
             next  == [j \in Positions |-> IF j > Len(s) THEN j ELSE at(j).last + 1]
             value == [j \in Positions |-> {}]
             step  == [j \in Positions |->
                         [v \in sets |-> IF j > Len(s) THEN v ELSE {at(j)} \cup v]]
             Turns(f) == [j \in Positions |->
                            IF j > Len(s) THEN {}
                            ELSE {at(j)} \cup f[at(j).last + 1]]
             from == CHOOSE f : f = Turns(f)
  <1>0. Len(s) \in Nat
    OBVIOUS
  <1>1. ASSUME NEW j \in Positions, ~(j > Len(s))
        PROVE  at(j) \in AllLexemes /\ at(j).last \in Nat /\ at(j).last >= j
    <2>1. j \in 1..Len(s)
      BY <1>1 DEF Positions
    <2>2. at(j) \in AllLexemes /\ at(j).last >= j
      BY <2>1, LexemeType
    <2> HIDE DEF at
    <2> QED
      BY <2>2 DEF AllLexemes
  <1> HIDE DEF at
  <1>2. IsWalk(Positions, sets, Len(s) + 1, m, after, next, value, step)
    <2>1. m \in [Positions -> 0..(Len(s) + 1)]
      BY <1>0 DEF Positions
    <2>2. next \in [Positions -> Positions]
      BY <1>1 DEF Positions
    <2>3. value \in [Positions -> sets]
      OBVIOUS
    <2>4. step \in [Positions -> [sets -> sets]]
      <3>1. \A j \in Positions : \A v \in sets :
               (IF j > Len(s) THEN v ELSE {at(j)} \cup v) \in sets
        BY <1>1
      <3> HIDE DEF sets
      <3> QED
        BY <3>1
    <2>5. \A j \in Positions : j \notin after => m[next[j]] < m[j]
      BY <1>1 DEF Positions
    <2> HIDE DEF m, next, value, step, sets, after
    <2> QED
      BY <1>0, <2>1, <2>2, <2>3, <2>4, <2>5 DEF IsWalk
  <1>3. PICK f \in [Positions -> sets] : \A j \in Positions :
          f[j] = IF j \in after THEN value[j] ELSE step[j][f[next[j]]]
    <2> HIDE DEF m, next, value, step, sets, after
    <2> QED
      BY <1>2, WalkExists
  <1>4. ASSUME NEW g \in [Positions -> sets], NEW j \in Positions
        PROVE  (IF j \in after THEN value[j] ELSE step[j][g[next[j]]]) = Turns(g)[j]
    <2>1. CASE j > Len(s)
      BY <2>1
    <2>2. CASE ~(j > Len(s))
      <3>1. next[j] = at(j).last + 1 /\ next[j] \in Positions
        BY <1>1, <2>2 DEF Positions
      <3>2. g[next[j]] \in sets
        BY <3>1
      <3>3. step[j][g[next[j]]] = {at(j)} \cup g[next[j]]
        <4> HIDE DEF next, sets
        <4> QED
          BY <2>2, <3>2
      <3>4. j \notin after
        BY <2>2
      <3> HIDE DEF step, next, after
      <3> QED
        BY <2>2, <3>1, <3>3, <3>4
    <2> QED
      BY <2>1, <2>2
  <1>5. f = Turns(f)
    <2>1. \A j \in Positions : f[j] = Turns(f)[j]
      <3> HIDE DEF Turns, step, value, next, after
      <3> QED
        BY <1>3, <1>4
    <2> HIDE DEF sets
    <2> QED
      BY <2>1
  <1>6. from = Turns(from)
    <2> HIDE DEF Turns
    <2> QED
      BY <1>5
  <1>7. ASSUME NEW j PROVE LexemesFrom(s, j, d, r) = from[j]
    BY Zenon DEF LexemesFrom, at, Positions
  <1>8. \A j \in Positions : from[j] = Turns(from)[j]
    <2> HIDE DEF from
    <2> QED
      BY <1>6
  <1> HIDE DEF from
  <1>9. from[i] \subseteq AllLexemes
    <2> DEFINE G == {j \in Nat : j = 0 \/ from[j] \subseteq AllLexemes}
    <2>1. ASSUME NEW j \in Nat, j > Len(s) PROVE j \in G
      BY <1>8, <2>1 DEF Positions
    <2>2. ASSUME NEW j \in Nat, j <= Len(s), \A k \in Nat : k > j => k \in G PROVE j \in G
      <3> SUFFICES ASSUME j # 0 PROVE from[j] \subseteq AllLexemes
        OBVIOUS
      <3>1. j \in Positions /\ ~(j > Len(s))
        BY <2>2 DEF Positions
      <3>2. at(j) \in AllLexemes /\ at(j).last + 1 \in Nat /\ at(j).last + 1 > j
        BY <1>1, <3>1
      <3>3. from[at(j).last + 1] \subseteq AllLexemes
        BY <2>2, <3>2
      <3> QED
        BY <1>8, <3>1, <3>2, <3>3
    <2> HIDE DEF G
    <2>3. i \in G
      BY <1>0, <2>1, <2>2, FromTheEnd DEF Positions
    <2> QED
      BY <2>3 DEF G, Positions
  <1>10. from[i] = IF i > Len(s) THEN {} ELSE {at(i)} \cup from[at(i).last + 1]
    BY <1>8
  <1> QED
    BY <1>7, <1>9, <1>10 DEF at

-----------------------------------------------------------------------------
(***************************************************************************)
(* What encloses the statement: the text up to a position, and a ")" there.  *)
(***************************************************************************)
Wrapped(s, e) == Append(SubSeq(s, 1, e - 1), ")")

\* w is that text, as far as a lexer sees it.
Encloses(w, s, e) ==
  /\ w \in Seq(Symbols) /\ Len(w) = e
  /\ e \in 1..(Len(s) + 1)
  /\ \A k \in 1..(e - 1) : w[k] = s[k]
  /\ w[e] = ")"

\* A wrapped text is one that encloses.
LEMMA WrappedEncloses ==
  ASSUME NEW s \in Seq(Symbols), NEW e \in 1..(Len(s) + 1)
  PROVE  Encloses(Wrapped(s, e), s, e)
  <1> DEFINE body == SubSeq(s, 1, e - 1)
  <1>1. body \in Seq(Symbols) /\ Len(body) = e - 1 /\ \A k \in 1..(e - 1) : body[k] = s[k]
    OBVIOUS
  <1>2. ")" \in Symbols
    BY DEF Symbols
  <1> HIDE DEF body
  <1>3. /\ Append(body, ")") \in Seq(Symbols) /\ Len(Append(body, ")")) = e
        /\ \A k \in 1..(e - 1) : Append(body, ")")[k] = body[k]
        /\ Append(body, ")")[e] = ")"
    BY <1>1, <1>2, AppendProperties
  <1> QED
    BY <1>1, <1>3 DEF Encloses, Wrapped, body

\* What At says, symbol by symbol.
LEMMA AtMeans ==
  ASSUME NEW s \in Seq(Symbols), NEW j \in Positions, NEW q \in Seq(Symbols), q # <<>>
  PROVE  At(s, j, q) <=>
           j + Len(q) - 1 <= Len(s) /\ \A k \in 1..Len(q) : s[j + k - 1] = q[k]
  <1> DEFINE n == j + Len(q) - 1
  <1>1. j \in Nat /\ j >= 1 /\ Len(q) \in Nat /\ Len(q) >= 1 /\ Len(s) \in Nat
    BY DEF Positions
  <1>2. SUFFICES ASSUME n <= Len(s)
                 PROVE  SubSeq(s, j, n) = q <=> \A k \in 1..Len(q) : s[j + k - 1] = q[k]
    BY DEF At
  <1>3. /\ SubSeq(s, j, n) \in Seq(Symbols) /\ Len(SubSeq(s, j, n)) = Len(q)
        /\ \A k \in 1..Len(q) : SubSeq(s, j, n)[k] = s[j + k - 1]
    BY <1>1, <1>2
  <1> HIDE DEF n
  <1> QED
    BY <1>3, SeqEqual

\* No delimiter reaches over the ")", so it is in the text as well.
LEMMA AtEnclosed ==
  ASSUME NEW w, NEW s \in Seq(Symbols), NEW e, Encloses(w, s, e), NEW j \in Positions,
         NEW q \in Seq(Quotes), q # <<>>
  PROVE  /\ At(w, j, q) => At(s, j, q) /\ j + Len(q) <= e
         /\ At(s, j, q) /\ j + Len(q) <= e => At(w, j, q)
  <1>1. /\ q \in Seq(Symbols) /\ Len(q) \in Nat /\ Len(q) >= 1
        /\ \A k \in 1..Len(q) : q[k] # ")"
    <2>1. \A k \in 1..Len(q) : q[k] \in Quotes
      OBVIOUS
    <2>2. Quotes \subseteq Symbols /\ ")" \notin Quotes
      BY DEF Quotes, Symbols, IdentifierSymbols
    <2> QED
      BY <2>1, <2>2
  <1>2. /\ w \in Seq(Symbols) /\ Len(w) = e /\ e \in Nat /\ e <= Len(s) + 1
        /\ \A k \in 1..(e - 1) : w[k] = s[k]
        /\ w[e] = ")" /\ j \in Nat /\ j >= 1 /\ Len(s) \in Nat
    BY DEF Encloses, Positions
  <1>3. ASSUME At(w, j, q) PROVE At(s, j, q) /\ j + Len(q) <= e
    <2>1. j + Len(q) - 1 <= e /\ \A k \in 1..Len(q) : w[j + k - 1] = q[k]
      BY <1>1, <1>2, <1>3, AtMeans
    <2>2. j + Len(q) - 1 # e
      <3>1. Len(q) \in 1..Len(q)
        BY <1>1
      <3>2. w[j + Len(q) - 1] = q[Len(q)] /\ q[Len(q)] # ")"
        BY <1>1, <2>1, <3>1
      <3> QED
        BY <1>2, <3>2
    <2>3. j + Len(q) <= e
      <3>1. j \in Nat /\ Len(q) \in Nat /\ e \in Nat /\ j + Len(q) - 1 <= e
        BY <1>1, <1>2, <2>1
      <3> QED
        BY <2>2, <3>1
    <2>4. ASSUME NEW k \in 1..Len(q) PROVE s[j + k - 1] = q[k]
      <3>1. j + k - 1 \in 1..(e - 1)
        BY <1>1, <1>2, <2>3
      <3> QED
        BY <1>2, <2>1, <3>1
    <2>5. j + Len(q) - 1 <= Len(s)
      BY <1>1, <1>2, <2>3
    <2> QED
      BY <1>1, <2>3, <2>4, <2>5, AtMeans
  <1>4. ASSUME At(s, j, q), j + Len(q) <= e PROVE At(w, j, q)
    <2>1. \A k \in 1..Len(q) : s[j + k - 1] = q[k]
      BY <1>1, <1>2, <1>4, AtMeans
    <2>2. j + Len(q) - 1 <= Len(w) /\ \A k \in 1..Len(q) : w[j + k - 1] = q[k]
      BY <1>1, <1>2, <1>4, <2>1
    <2> QED
      BY <1>1, <1>2, <2>2, AtMeans
  <1> QED
    BY <1>3, <1>4

\* Nor does a delimiter that is doubled.
LEMMA DoubledEnclosed ==
  ASSUME NEW w, NEW s \in Seq(Symbols), NEW e, Encloses(w, s, e), NEW j \in Positions,
         NEW delimiter \in Delimiters
  PROVE  /\ At(w, j, delimiter) => At(s, j, delimiter)
         /\ At(s, j, delimiter) /\ j + Len(delimiter) <= e => At(w, j, delimiter)
         /\ Doubled(w, j, delimiter) => Doubled(s, j, delimiter)
         /\ Doubled(s, j, delimiter) /\ j + 2 <= e => Doubled(w, j, delimiter)
  <1>1. delimiter \in Seq(Quotes) /\ delimiter # <<>>
    <2>1. CASE \E q \in Quotes : delimiter = <<q>>
      BY <2>1
    <2>2. CASE \E q \in {"quote", "dquote"} : delimiter = <<q, q, q>>
      <3>1. PICK q \in {"quote", "dquote"} : delimiter = <<q, q, q>>
        BY <2>2
      <3>2. q \in Quotes
        BY DEF Quotes
      <3> QED
        BY <3>1, <3>2
    <2> QED
      BY <2>1, <2>2 DEF Delimiters
  <1>2. /\ At(w, j, delimiter) => At(s, j, delimiter)
        /\ At(s, j, delimiter) /\ j + Len(delimiter) <= e => At(w, j, delimiter)
    BY <1>1, AtEnclosed
  <1> DEFINE pair == delimiter \o delimiter
  <1>3. CASE delimiter \in {<<"quote">>, <<"dquote">>, <<"backtick">>}
    <2>1. pair \in Seq(Quotes) /\ Len(pair) = 2 /\ pair # <<>>
      <3>1. Len(delimiter) = 1
        BY <1>3
      <3>2. pair \in Seq(Quotes) /\ Len(pair) = Len(delimiter) + Len(delimiter)
        BY <1>1, ConcatProperties
      <3> HIDE DEF pair
      <3>3. Len(pair) = 2
        BY <3>1, <3>2
      <3>4. pair # <<>>
        <4>1. Len(<<>>) = 0
          OBVIOUS
        <4>2. Len(pair) # Len(<<>>)
          BY <3>3, <4>1
        <4> QED
          BY Zenon, <4>2
      <3> QED
        BY <3>2, <3>3, <3>4
    <2> HIDE DEF pair
    <2>2. /\ At(w, j, pair) => At(s, j, pair)
          /\ At(s, j, pair) /\ j + 2 <= e => At(w, j, pair)
      BY <2>1, AtEnclosed
    <2> QED
      BY <1>2, <1>3, <2>2 DEF Doubled, pair
  <1> QED
    BY <1>2, <1>3 DEF Doubled

\* A literal that is closed before the ")" ends where it did.
LEMMA BodyEndEnclosed ==
  ASSUME NEW w, NEW s \in Seq(Symbols), NEW e, Encloses(w, s, e), NEW body \in Positions,
         NEW delimiter \in Delimiters, NEW protects \in BOOLEAN,
         BodyEndAs(s, body, delimiter, protects) # Refused,
         BodyEndAs(s, body, delimiter, protects) <= e
  PROVE  BodyEndAs(w, body, delimiter, protects) = BodyEndAs(s, body, delimiter, protects)
  <1>1. /\ w \in Seq(Symbols) /\ Len(w) = e /\ e \in Nat /\ e <= Len(s) + 1
        /\ \A k \in 1..(e - 1) : w[k] = s[k]
        /\ body \in Nat /\ body # 0 /\ Len(s) \in Nat
    BY DEF Encloses, Positions
  <1>2. PICK f :
           /\ BodyEndAs(s, body, delimiter, protects) = f[body]
           /\ \A j \in Nat : f[j] =
                IF j > Len(s) THEN Refused
                ELSE IF (protects /\ s[j] = "backslash") \/ Doubled(s, j, delimiter) THEN f[j + 2]
                ELSE IF At(s, j, delimiter) THEN j + Len(delimiter) ELSE f[j + 1]
    BY <1>1, BodyEndTurns
  <1>3. PICK g :
           /\ BodyEndAs(w, body, delimiter, protects) = g[body]
           /\ \A j \in Nat : g[j] =
                IF j > Len(w) THEN Refused
                ELSE IF (protects /\ w[j] = "backslash") \/ Doubled(w, j, delimiter) THEN g[j + 2]
                ELSE IF At(w, j, delimiter) THEN j + Len(delimiter) ELSE g[j + 1]
    BY <1>1, BodyEndTurns
  <1>4. Len(delimiter) \in Nat \ {0}
    BY DelimiterLength
  <1> DEFINE Same(j) == f[j] = Refused \/ (f[j] \in Nat /\ f[j] > j /\ (f[j] <= e => g[j] = f[j]))
             G == {j \in Nat : j # 0 => Same(j)}
  <1>5. ASSUME NEW j \in Nat, j > Len(s) PROVE j \in G
    BY <1>1, <1>2, <1>5
  <1>6. ASSUME NEW j \in Nat, j <= Len(s), \A k \in Nat : k > j => k \in G PROVE j \in G
    <2> SUFFICES ASSUME j # 0 PROVE Same(j)
      OBVIOUS
    <2>0. j \in Positions /\ ~(j > Len(s)) /\ (j < e => w[j] = s[j] /\ ~(j > Len(w)))
      BY <1>1, <1>6 DEF Positions
    <2>1. Same(j + 1) /\ Same(j + 2)
      BY <1>6
    <2>2. /\ At(w, j, delimiter) => At(s, j, delimiter)
          /\ At(s, j, delimiter) /\ j + Len(delimiter) <= e => At(w, j, delimiter)
          /\ Doubled(w, j, delimiter) => Doubled(s, j, delimiter)
          /\ Doubled(s, j, delimiter) /\ j + 2 <= e => Doubled(w, j, delimiter)
      BY <2>0, DoubledEnclosed
    <2> DEFINE skips(t) == (protects /\ t[j] = "backslash") \/ Doubled(t, j, delimiter)
    <2>3. f[j] = IF skips(s) THEN f[j + 2] ELSE IF At(s, j, delimiter) THEN j + Len(delimiter)
                                           ELSE f[j + 1]
      BY <1>2, <2>0
    <2>4. j < e => g[j] = IF skips(w) THEN g[j + 2]
                          ELSE IF At(w, j, delimiter) THEN j + Len(delimiter) ELSE g[j + 1]
      BY <1>3, <2>0
    <2>5. j < e => (skips(w) => skips(s)) /\ (skips(s) /\ j + 2 <= e => skips(w))
      BY <2>0, <2>2
    <2> HIDE DEF skips, G
    <2>6. CASE skips(s)
      <3>1. f[j] = f[j + 2]
        BY <2>3, <2>6
      <3>2. f[j] # Refused /\ f[j] <= e => j < e /\ j + 2 <= e
        BY <1>1, <2>1, <3>1
      <3>3. f[j] # Refused /\ f[j] <= e => g[j] = g[j + 2]
        BY <2>4, <2>5, <2>6, <3>2
      <3> QED
        BY <2>1, <3>1, <3>3
    <2>7. CASE ~skips(s) /\ At(s, j, delimiter)
      <3>1. f[j] = j + Len(delimiter)
        BY <2>3, <2>7
      <3>2. f[j] <= e => j < e /\ At(w, j, delimiter)
        BY <1>1, <1>4, <2>2, <2>7, <3>1
      <3>3. f[j] <= e => g[j] = j + Len(delimiter)
        BY <2>4, <2>5, <2>7, <3>2
      <3> QED
        BY <1>4, <3>1, <3>3
    <2>8. CASE ~skips(s) /\ ~At(s, j, delimiter)
      <3>1. f[j] = f[j + 1]
        BY <2>3, <2>8
      <3>2. f[j] # Refused /\ f[j] <= e => j < e
        BY <1>1, <2>1, <3>1
      <3>3. f[j] # Refused /\ f[j] <= e => g[j] = g[j + 1]
        BY <2>2, <2>4, <2>5, <2>8, <3>2
      <3> QED
        BY <2>1, <3>1, <3>3
    <2> QED
      BY <2>6, <2>7, <2>8
  <1>7. body \in G
    <2> HIDE DEF G
    <2> QED
      BY <1>1, <1>5, <1>6, FromTheEnd
  <1> QED
    BY <1>1, <1>2, <1>3, <1>7

\* The prefix of a quote is read before it.
LEMMA PrefixEnclosed ==
  ASSUME NEW w, NEW s \in Seq(Symbols), NEW e, Encloses(w, s, e), NEW i \in Positions, i < e
  PROVE  PrefixBefore(w, i) = PrefixBefore(s, i)
  <1> DEFINE starts(t) == {j \in 1..i : \A k \in j..(i - 1) : t[k] \in IdentifierSymbols}
             start == Min(starts(s))
  <1>1. /\ w \in Seq(Symbols) /\ Len(w) = e /\ e \in Nat /\ e <= Len(s) + 1
        /\ \A k \in 1..(e - 1) : w[k] = s[k]
        /\ i \in Nat /\ i >= 1 /\ Len(s) \in Nat
    BY DEF Encloses, Positions
  <1>2. starts(w) = starts(s)
    <2>1. ASSUME NEW j \in 1..i, NEW k \in j..(i - 1) PROVE w[k] = s[k]
      <3>1. k \in 1..(e - 1)
        BY <1>1
      <3> QED
        BY <1>1, <3>1
    <2> QED
      BY <2>1
  <1>3. start \in 1..i
    <2>1. i \in starts(s) /\ starts(s) \in SUBSET Nat /\ starts(s) \subseteq 1..i
      BY <1>1
    <2> HIDE DEF starts
    <2> QED
      BY <2>1, MinOfPositions
  <1>4. PrefixBefore(w, i) = SubSeq(w, start, i - 1) /\ PrefixBefore(s, i) = SubSeq(s, start, i - 1)
    <2>1. /\ PrefixBefore(w, i) = SubSeq(w, Min(starts(w)), i - 1)
          /\ PrefixBefore(s, i) = SubSeq(s, Min(starts(s)), i - 1)
      BY Zenon DEF PrefixBefore
    <2> HIDE DEF starts
    <2> QED
      BY Zenon, <1>2, <2>1 DEF start
  <1> HIDE DEF start, starts
  <1>5. SubSeq(w, start, i - 1) = SubSeq(s, start, i - 1)
    <2> DEFINE n == i - start
               a == SubSeq(w, start, i - 1)
               b == SubSeq(s, start, i - 1)
    <2>0. /\ w \in Seq(Symbols) /\ start \in Nat /\ start >= 1 /\ start <= i
          /\ i - 1 <= Len(w) /\ i \in Nat
      BY <1>1, <1>3
    <2>1. a \in Seq(Symbols) /\ Len(a) = n /\ \A k \in 1..n : a[k] = w[start + k - 1]
      BY <2>0
    <2>2. b \in Seq(Symbols) /\ Len(b) = n /\ \A k \in 1..n : b[k] = s[start + k - 1]
      BY <1>1, <1>3
    <2>3. ASSUME NEW k \in 1..n PROVE w[start + k - 1] = s[start + k - 1]
      <3>1. start + k - 1 \in 1..(e - 1)
        BY <1>1, <1>3
      <3> QED
        BY <1>1, <3>1
    <2> HIDE DEF a, b
    <2> QED
      BY <2>1, <2>2, <2>3, SeqEqual DEF a, b
  <1> QED
    BY Zenon, <1>4, <1>5

\* A literal in front of the ")" is the same in the enclosed text.
LEMMA LiteralEnclosed ==
  ASSUME NEW engine \in Engines, NEW w, NEW s \in Seq(Symbols), NEW e, Encloses(w, s, e),
         NEW i \in Positions, i < e, NEW r, IsReading(r), OpensLiteral(s, i, Dialects[engine]),
         LiteralEndAs(s, i, Dialects[engine], r) # Refused,
         LiteralEndAs(s, i, Dialects[engine], r) <= e
  PROVE  LiteralEndAs(w, i, Dialects[engine], r) = LiteralEndAs(s, i, Dialects[engine], r)
  <1> DEFINE d            == Dialects[engine]
             prefix(t)    == PrefixBefore(t, i)
             three(t)     == <<t[i], t[i], t[i]>>
             delimiter(t) == IF t[i] \in {"quote", "dquote"} /\ d.triple /\ At(t, i, three(t))
                             THEN three(t) ELSE <<t[i]>>
             cooked(t)    == \/ prefix(t) \in d.cooked
                             \/ prefix(t) = <<>> /\ t[i] = "quote"
                             \/ prefix(t) = <<>> /\ t[i] = "dquote" /\ d.quoteIsString
             protects(t)  == cooked(t) \/ r.escapes
  <1>1. ASSUME NEW t
        PROVE  LiteralEndAs(t, i, d, r)
                 = BodyEndAs(t, i + Len(delimiter(t)), delimiter(t), protects(t))
    BY Zenon DEF LiteralEndAs
  <1>2. /\ w \in Seq(Symbols) /\ Len(w) = e /\ e \in Nat /\ e <= Len(s) + 1
        /\ w[i] = s[i] /\ i \in Nat /\ i >= 1 /\ i \in 1..Len(s) /\ Len(s) \in Nat
    BY DEF Encloses, Positions
  <1>3. PrefixBefore(w, i) = PrefixBefore(s, i)
    BY PrefixEnclosed
  <1>4. s[i] \in Quotes
    BY DEF OpensLiteral, Quotes
  <1>5. delimiter(s) \in Delimiters
    BY <1>4 DEF Delimiters
  <1>6. protects(s) \in BOOLEAN
    BY DEF IsReading
  <1>7. protects(w) = protects(s)
    BY <1>2, <1>3
  <1>8. Len(delimiter(s)) \in Nat \ {0}
    BY <1>5, DelimiterLength
  <1> DEFINE body == i + Len(delimiter(s))
  <1>9. body \in Positions /\ body \in Nat
    <2> HIDE DEF delimiter
    <2> QED
      BY <1>2, <1>8 DEF Positions
  <1>10. BodyEndAs(s, body, delimiter(s), protects(s)) # Refused
         /\ BodyEndAs(s, body, delimiter(s), protects(s)) <= e
    <2>1. LiteralEndAs(s, i, d, r) = BodyEndAs(s, body, delimiter(s), protects(s))
      BY <1>1
    <2>2. LiteralEndAs(s, i, d, r) # Refused /\ LiteralEndAs(s, i, d, r) <= e
      OBVIOUS
    <2> HIDE DEF d, body, delimiter, protects
    <2> QED
      BY <2>1, <2>2
  <1>11. delimiter(w) = delimiter(s)
    <2>1. CASE s[i] \in {"quote", "dquote"}
      <3>1. three(s) \in Delimiters /\ Len(three(s)) = 3
        BY <2>1 DEF Delimiters
      <3>2. At(w, i, three(s)) => At(s, i, three(s))
        BY <3>1, DoubledEnclosed
      <3>3. d.triple /\ At(s, i, three(s)) => At(w, i, three(s))
        <4> SUFFICES ASSUME d.triple, At(s, i, three(s)) PROVE At(w, i, three(s))
          OBVIOUS
        <4>1. delimiter(s) = three(s)
          BY <2>1
        <4> HIDE DEF three, delimiter, protects, d
        <4>2. body = i + 3
          BY <3>1, <4>1
        <4>3. BodyEndAs(s, body, delimiter(s), protects(s)) > body
          BY <1>5, <1>6, <1>9, <1>10, BodyEndType
        <4>4. i + Len(three(s)) <= e
          BY <1>2, <1>5, <1>6, <1>9, <1>10, <3>1, <4>2, <4>3, BodyEndType
        <4> QED
          BY <3>1, <4>4, DoubledEnclosed
      <3> QED
        BY <1>2, <2>1, <3>2, <3>3
    <2>2. CASE s[i] \notin {"quote", "dquote"}
      BY <1>2, <2>2
    <2> QED
      BY <2>1, <2>2
  <1>12. BodyEndAs(w, body, delimiter(s), protects(s)) = BodyEndAs(s, body, delimiter(s), protects(s))
    <2> HIDE DEF delimiter, protects, body
    <2> QED
      BY <1>5, <1>6, <1>9, <1>10, BodyEndEnclosed
  <1> HIDE DEF delimiter, protects
  <1> QED
    BY Zenon, <1>1, <1>7, <1>11, <1>12 DEF body

\* The least of two sets of positions that are the same up to a bound, which the
\* least of one does not reach.
LEMMA SameLeast ==
  ASSUME NEW S \in SUBSET Nat, NEW T \in SUBSET Nat, NEW n \in Nat,
         \A j \in Nat : j < n => (j \in S <=> j \in T), S # {}, Min(S) < n
  PROVE  T # {} /\ Min(T) = Min(S)
  <1>1. Min(S) \in S /\ (\A y \in S : Min(S) <= y) /\ Min(S) \in Nat
    BY MinOfPositions
  <1>2. Min(S) \in T
    BY <1>1
  <1>3. Min(T) \in T /\ (\A y \in T : Min(T) <= y) /\ Min(T) \in Nat
    BY <1>2, MinOfPositions
  <1>4. Min(T) <= Min(S)
    BY <1>2, <1>3
  <1>5. Min(T) \in S
    BY <1>1, <1>3, <1>4
  <1>6. Min(S) <= Min(T)
    BY <1>1, <1>5
  <1> QED
    BY <1>1, <1>2, <1>3, <1>4, <1>6

\* A comment that ends before the last symbol of the text ends where it did.
LEMMA LineCommentEnclosed ==
  ASSUME NEW w, NEW s \in Seq(Symbols), NEW e, Encloses(w, s, e), NEW i \in Positions, i < e,
         NEW r, LineCommentEndAs(s, i, r) < e
  PROVE  LineCommentEndAs(w, i, r) = LineCommentEndAs(s, i, r)
  <1> DEFINE continued(t, j) ==
               /\ r.continues
               /\ \/ t[j - 1] = "backslash"
                  \/ t[j] = "LF" /\ t[j - 1] = "CR" /\ j - 2 > i /\ t[j - 2] = "backslash"
             ends(t) == {j \in (i + 1)..Len(t) : t[j] \in r.ends /\ ~continued(t, j)}
  <1>1. ASSUME NEW t
        PROVE  LineCommentEndAs(t, i, r) = IF ends(t) = {} THEN Len(t) + 1 ELSE Min(ends(t)) + 1
    BY Zenon DEF LineCommentEndAs
  <1>2. /\ Len(w) = e /\ e \in Nat /\ e <= Len(s) + 1
        /\ i \in Nat /\ i >= 1 /\ Len(s) \in Nat
    BY DEF Encloses, Positions
  <1>3. \A k \in 1..(e - 1) : w[k] = s[k]
    BY DEF Encloses
  <1>4. ends(s) \in SUBSET Nat /\ ends(w) \in SUBSET Nat
    BY <1>2
  <1>5. ASSUME NEW j \in Nat, j < e PROVE j \in ends(s) <=> j \in ends(w)
    <2> SUFFICES ASSUME j > i
                 PROVE  (s[j] \in r.ends /\ ~continued(s, j)) <=> (w[j] \in r.ends /\ ~continued(w, j))
      BY <1>2, <1>5
    <2>1. j \in 1..(e - 1) /\ j - 1 \in 1..(e - 1) /\ (j - 2 > i => j - 2 \in 1..(e - 1))
      BY <1>2, <1>5
    <2>2. w[j] = s[j] /\ w[j - 1] = s[j - 1] /\ (j - 2 > i => w[j - 2] = s[j - 2])
      BY <1>3, <2>1
    <2> QED
      BY <2>2
  <1> HIDE DEF ends
  <1>6. ends(s) # {} /\ Min(ends(s)) \in Nat /\ Min(ends(s)) < e
    <2>1. ends(s) # {}
      BY <1>1, <1>2
    <2>2. Min(ends(s)) \in Nat
      BY <1>4, <2>1, MinOfPositions
    <2> QED
      BY <1>1, <1>2, <2>1, <2>2
  <1>7. ends(w) # {} /\ Min(ends(w)) = Min(ends(s))
    BY <1>2, <1>4, <1>5, <1>6, SameLeast
  <1> QED
    BY <1>1, <1>6, <1>7

\* So is a block comment.
LEMMA BlockCommentEnclosed ==
  ASSUME NEW w, NEW s \in Seq(Symbols), NEW e, Encloses(w, s, e), NEW i \in Positions, i < e,
         NEW r, BlockCommentEndAs(s, i, r) # Refused, BlockCommentEndAs(s, i, r) <= e
  PROVE  BlockCommentEndAs(w, i, r) = BlockCommentEndAs(s, i, r)
  <1> DEFINE count(t, symbol, j) == Cardinality({k \in (i + 1)..j : t[k] = symbol})
             opened(t, j) == IF r.nests THEN 1 + count(t, "/*", j) ELSE 1
             closes(t)    == {j \in (i + 1)..Len(t) : count(t, "*/", j) >= opened(t, j)}
  <1>1. ASSUME NEW t
        PROVE  BlockCommentEndAs(t, i, r) = IF closes(t) = {} THEN Refused ELSE Min(closes(t)) + 1
    BY Zenon DEF BlockCommentEndAs
  <1>2. /\ Len(w) = e /\ e \in Nat /\ e <= Len(s) + 1
        /\ i \in Nat /\ i >= 1 /\ Len(s) \in Nat
    BY DEF Encloses, Positions
  <1>3. \A k \in 1..(e - 1) : w[k] = s[k]
    BY DEF Encloses
  <1>4. closes(s) \in SUBSET Nat /\ closes(w) \in SUBSET Nat
    BY <1>2
  <1>5. ASSUME NEW j \in Nat, j < e PROVE j \in closes(s) <=> j \in closes(w)
    <2>1. ASSUME NEW symbol PROVE count(w, symbol, j) = count(s, symbol, j)
      <3>1. \A k \in (i + 1)..j : w[k] = s[k]
        BY <1>2, <1>3, <1>5
      <3>2. {k \in (i + 1)..j : w[k] = symbol} = {k \in (i + 1)..j : s[k] = symbol}
        BY <3>1
      <3> QED
        BY Zenon, <3>2 DEF count
    <2>2. (j \in (i + 1)..Len(s)) <=> (j \in (i + 1)..Len(w))
      BY <1>2, <1>5
    <2> HIDE DEF count
    <2> QED
      BY <2>1, <2>2
  <1> HIDE DEF closes
  <1>6. closes(s) # {} /\ Min(closes(s)) \in Nat /\ Min(closes(s)) < e
    <2>1. closes(s) # {}
      BY <1>1
    <2>2. Min(closes(s)) \in Nat
      BY <1>4, <2>1, MinOfPositions
    <2> QED
      BY <1>1, <1>2, <2>1, <2>2
  <1>7. closes(w) # {} /\ Min(closes(w)) = Min(closes(s))
    BY <1>2, <1>4, <1>5, <1>6, SameLeast
  <1> QED
    BY <1>1, <1>6, <1>7

\* A lexeme before the ")" is read as it was, unless it is a comment or a space
\* and the last thing there.
LEMMA LexemeEnclosed ==
  ASSUME NEW engine \in Engines, NEW w, NEW s \in Seq(Symbols), NEW e, Encloses(w, s, e),
         NEW i \in 1..Len(s), NEW r, IsReading(r),
         LexemeAt(s, i, Dialects[engine], r).kind # "open",
         \/ LexemeAt(s, i, Dialects[engine], r).last + 1 < e
         \/ /\ LexemeAt(s, i, Dialects[engine], r).last + 1 = e
            /\ LexemeAt(s, i, Dialects[engine], r).kind # "comment"
  PROVE  LexemeAt(w, i, Dialects[engine], r) = LexemeAt(s, i, Dialects[engine], r)
  <1> DEFINE d == Dialects[engine]
             l == LexemeAt(s, i, d, r)
  <1>0. /\ l.kind # "open" /\ (l.last + 1 < e \/ (l.last + 1 = e /\ l.kind # "comment"))
    OBVIOUS
  <1>1. l.last \in Nat /\ l.last >= i
    BY LexemeType DEF AllLexemes
  <1>2. /\ e \in Nat /\ i \in Positions /\ i \in Nat /\ Len(s) \in Nat
        /\ \A k \in 1..(e - 1) : w[k] = s[k]
    BY DEF Encloses, Positions
  <1>3. i < e /\ w[i] = s[i]
    <2> HIDE DEF l
    <2> QED
      BY <1>0, <1>1, <1>2
  <1>4. ASSUME NEW kind, NEW stop, l = Lexeme(s, kind, i, stop), stop \in Int
        PROVE  /\ stop # Refused /\ stop = l.last + 1 /\ l.kind = kind
               /\ Lexeme(w, kind, i, stop) = l
    <2> HIDE DEF l
    <2>1. stop # Refused
      BY <1>0, <1>4 DEF Lexeme
    <2> QED
      BY <1>1, <1>4, <2>1 DEF Lexeme
  <1>5. OpensLiteral(w, i, d) <=> OpensLiteral(s, i, d)
    BY <1>3 DEF OpensLiteral
  <1>6. w \in Seq(Symbols)
    BY DEF Encloses
  <1>7. CASE s[i] \in d.lineComments
    <2> DEFINE c == LineCommentEndAs(s, i, r)
    <2>1. l = Lexeme(s, "comment", i, c)
      BY <1>7, LexemeCases
    <2>2. c \in Int
      BY LineCommentType
    <2>3. LexemeAt(w, i, d, r) = Lexeme(w, "comment", i, LineCommentEndAs(w, i, r))
      BY <1>3, <1>7, <1>6, LexemeCases
    <2> HIDE DEF c, l, d
    <2>4. c # Refused /\ c = l.last + 1 /\ l.kind = "comment" /\ Lexeme(w, "comment", i, c) = l
      BY <1>4, <2>1, <2>2
    <2>5. LineCommentEndAs(w, i, r) = c
      BY <1>0, <1>2, <1>3, <2>4, LineCommentEnclosed DEF c
    <2> QED
      BY Zenon, <2>3, <2>4, <2>5 DEF l, d
  <1>8. CASE s[i] = "/*"
    <2> DEFINE c == BlockCommentEndAs(s, i, r)
    <2>1. l = Lexeme(s, "comment", i, c)
      BY <1>8, LexemeCases
    <2>2. c \in Int
      BY BlockCommentType DEF Refused
    <2>3. LexemeAt(w, i, d, r) = Lexeme(w, "comment", i, BlockCommentEndAs(w, i, r))
      BY <1>3, <1>8, <1>6, LexemeCases
    <2> HIDE DEF c, l, d
    <2>4. c # Refused /\ c = l.last + 1 /\ l.kind = "comment" /\ Lexeme(w, "comment", i, c) = l
      BY <1>4, <2>1, <2>2
    <2>5. BlockCommentEndAs(w, i, r) = c
      <3>1. c <= e
        BY <1>0, <1>1, <1>2, <2>4
      <3> QED
        BY <1>2, <1>3, <2>4, <3>1, BlockCommentEnclosed DEF c
    <2> QED
      BY Zenon, <2>3, <2>4, <2>5 DEF l, d
  <1>9. CASE OpensLiteral(s, i, d)
    <2> DEFINE c == LiteralEndAs(s, i, d, r)
    <2>1. l = Lexeme(s, "literal", i, c)
      BY <1>9, LexemeOfLiteral
    <2>2. c \in Int
      <3>1. PICK delimiter \in Delimiters, protects \in BOOLEAN :
              c = BodyEndAs(s, i + Len(delimiter), delimiter, protects)
        BY <1>9, DelimiterOfLiteral DEF IsReading
      <3>2. i + Len(delimiter) \in Nat
        BY <1>2, DelimiterLength
      <3> HIDE DEF c
      <3> QED
        BY <3>1, <3>2, BodyEndType DEF Refused
    <2>3. LexemeAt(w, i, d, r) = Lexeme(w, "literal", i, LiteralEndAs(w, i, d, r))
      BY <1>5, <1>9, <1>6, LexemeOfLiteral
    <2> HIDE DEF c, l
    <2>4. c # Refused /\ c = l.last + 1 /\ Lexeme(w, "literal", i, c) = l
      BY <1>4, <2>1, <2>2
    <2>5. LiteralEndAs(w, i, d, r) = c
      <3>1. c <= e
        BY <1>0, <1>1, <1>2, <2>4
      <3> QED
        BY <1>2, <1>3, <1>9, <2>4, <3>1, LiteralEnclosed DEF c
    <2> QED
      BY Zenon, <2>3, <2>4, <2>5 DEF l
  <1>10. i \in Nat
    BY <1>2
  <1>11. CASE s[i] \in Spaces
    <2>1. w[i] \in Spaces
      BY <1>3, <1>11
    <2>2. l = [kind |-> "space", first |-> i, last |-> i]
      BY <1>11, SpaceAt
    <2> HIDE DEF l
    <2>3. LexemeAt(w, i, d, r) = [kind |-> "space", first |-> i, last |-> i]
      BY ZenonT(60), <1>10, <2>1, SpaceAt
    <2> QED
      BY Zenon, <2>2, <2>3 DEF l
  <1>12. CASE /\ s[i] \notin d.lineComments /\ s[i] # "/*" /\ ~OpensLiteral(s, i, d)
              /\ s[i] \notin Spaces
    <2>1. /\ w[i] \notin d.lineComments /\ w[i] # "/*" /\ ~OpensLiteral(w, i, d)
          /\ w[i] \notin Spaces
      BY <1>3, <1>5, <1>12
    <2>2. l = [kind |-> "code", first |-> i, last |-> i]
      BY <1>12, CodeAt
    <2>3. LexemeAt(w, i, d, r) = [kind |-> "code", first |-> i, last |-> i]
      BY ZenonT(60), <1>10, <2>1, CodeAt
    <2> QED
      BY Zenon, <2>2, <2>3
  <1> QED
    BY <1>7, <1>8, <1>9, <1>11, <1>12

-----------------------------------------------------------------------------
(***************************************************************************)
(* What a reading has found before a position, and what all readings have.   *)
(***************************************************************************)
\* A comment opens in every reading, and ends where the gate says or a LF before.
LEMMA CommentIsCertain ==
  ASSUME NEW engine \in Engines, NEW s \in Seq(Symbols), NEW i \in 1..Len(s),
         NEW r \in Readings(s, Dialects[engine]),
         CommentEnd(s, i, Dialects[engine]) # Refused
  PROVE  LET d == Dialects[engine]
             c == CommentEnd(s, i, d)
             l == LexemeAt(s, i, d, r)
         IN /\ c = None => s[i] \notin d.lineComments /\ s[i] # "/*"
            /\ c # None =>
                 /\ c \in (i + 1)..(Len(s) + 1)
                 /\ l.kind = "comment"
                 /\ l.last # c - 1 => l.last = c - 2 /\ l.last >= i /\ s[c - 1] = "LF"
  <1> DEFINE d == Dialects[engine]
             c == CommentEnd(s, i, d)
             l == LexemeAt(s, i, d, r)
  <1>1. CASE s[i] \in d.lineComments
    <2>1. c = LineCommentEnd(s, i, d)
      <3>1. s[i] # "/*"
        BY <1>1, DialectFacts
      <3> QED
        BY Zenon, <1>1, <3>1 DEF CommentEnd
    <2>2. s[i] \in {"--", "#", "//"} /\ d.terminators \in {{"LF"}, {"CR", "LF"}}
      BY <1>1, DialectFacts
    <2>3. d.terminators \subseteq r.ends /\ r.ends \subseteq d.terminators \cup {"CR", "SEP"}
      BY ReadingEnds
    <2> DEFINE g == LineCommentEnd(s, i, d)
               e == LineCommentEndAs(s, i, r)
    <2>4. g \in (i + 1)..(Len(s) + 1) /\ (e # g => e = g - 1 /\ s[g - 1] = "LF")
      <3>1. g # Refused
        BY <2>1
      <3> HIDE DEF d
      <3> QED
        BY <2>2, <2>3, <3>1, LineCommentIsCertain
    <2>5. c \in (i + 1)..(Len(s) + 1) /\ (e # c => e = c - 1 /\ s[c - 1] = "LF")
      BY Zenon, <2>1, <2>4
    <2>6. e \in (i + 1)..(Len(s) + 1)
      BY LineCommentType
    <2>7. l = Lexeme(s, "comment", i, e)
      BY <1>1, LexemeCases
    <2> HIDE DEF c, l, e, d
    <2>8. l.kind = "comment" /\ l.last = e - 1
      BY <2>6, <2>7 DEF Lexeme, Refused
    <2>9. c # None /\ c \in (i + 1)..(Len(s) + 1)
      BY <2>5 DEF None
    <2>10. l.last # c - 1 => l.last = c - 2 /\ l.last >= i /\ s[c - 1] = "LF"
      BY <2>5, <2>6, <2>8, <2>9
    <2> QED
      BY <2>8, <2>9, <2>10 DEF c, l, d
  <1>2. CASE s[i] = "/*"
    <2>1. c = BlockCommentEnd(s, i)
      <3>1. s[i] \notin d.lineComments
        BY <1>2, DialectFacts
      <3> QED
        BY Zenon, <1>2, <3>1 DEF CommentEnd
    <2>2. c \in (i + 1)..(Len(s) + 1) /\ BlockCommentEndAs(s, i, r) = c
      BY <2>1, ReadingFacts, BlockCommentIsCertain
    <2>3. l = Lexeme(s, "comment", i, c)
      BY <1>2, <2>2, LexemeCases
    <2> HIDE DEF c, l, d
    <2>4. l.kind = "comment" /\ l.last = c - 1 /\ c # None
      BY <2>2, <2>3 DEF Lexeme, Refused, None
    <2> QED
      BY <2>2, <2>4 DEF c, l, d
  <1>3. CASE s[i] \notin d.lineComments /\ s[i] # "/*"
    <2>1. c = None
      BY Zenon, <1>3 DEF CommentEnd
    <2> QED
      BY <1>3, <2>1
  <1> QED
    BY <1>1, <1>2, <1>3

-----------------------------------------------------------------------------
(***************************************************************************)
(* What all readings have found before a position.                           *)
(***************************************************************************)
SubstanceKinds == {"code", "literal", "open"}

\* What is in the substance of a text, and which of its symbols end a statement.
LEMMA SubstanceMembers ==
  ASSUME NEW s, NEW P \in SUBSET AllLexemes, NEW x
  PROVE  /\ x \in Terminators(s, P) <=>
              \E l \in P : l.kind = "code" /\ s[l.first] = ";" /\ x = l.first
         /\ x \in Substance(s, P) <=>
              /\ \E l \in P : l.kind \in SubstanceKinds /\ x \in l.first..l.last
              /\ x \notin Terminators(s, P)
  <1> DEFINE covered == UNION {l.first..l.last : l \in {m \in P : m.kind \in SubstanceKinds}}
  <1>1. x \in Terminators(s, P) <=>
          \E l \in P : l.kind = "code" /\ s[l.first] = ";" /\ x = l.first
    BY DEF Terminators
  <1>2. x \in covered <=>
          \E l \in P : l.kind \in SubstanceKinds /\ x \in l.first..l.last
    BY Zenon
  <1>3. Substance(s, P) = covered \ Terminators(s, P)
    BY DEF Substance, SubstanceKinds
  <1> HIDE DEF covered
  <1> QED
    BY <1>1, <1>2, <1>3

\* The lexemes P are found wherever a ")" is put behind the position.
FoundEnclosed(s, d, r, i, P) ==
  \A e \in Positions :
    i < e /\ e <= Len(s) + 1 =>
      Lexemes(Wrapped(s, e), d, r) = P \cup LexemesFrom(Wrapped(s, e), i, d, r)

\* A reading has found the lexemes P before a position, T and Z in them.
ReadBefore(s, d, r, i, P) ==
  /\ P \in SUBSET AllLexemes
  /\ \A l \in P : l.first <= l.last /\ l.last < i /\ l.kind # "open"
  /\ Lexemes(s, d, r) = P \cup LexemesFrom(s, i, d, r)
  /\ FoundEnclosed(s, d, r, i, P)

\* What a lexeme adds.
Ends(s, l)         == l.kind = "code" /\ s[l.first] = ";"
TerminatorOf(s, l) == IF Ends(s, l) THEN {l.first} ELSE {}
SubstanceOf(s, l)  ==
  IF l.kind \in SubstanceKinds /\ ~Ends(s, l) THEN l.first..l.last ELSE {}

Found(s, d, r, i, P, T, Z) ==
  ReadBefore(s, d, r, i, P) /\ Substance(s, P) = T /\ Terminators(s, P) = Z

\* A lexeme in front of the ")" is found there as well.
LEMMA FoundEnclosedGoesOn ==
  ASSUME NEW engine \in Engines, NEW s \in Seq(Symbols), NEW i \in 1..Len(s),
         NEW r, IsReading(r), NEW P, FoundEnclosed(s, Dialects[engine], r, i, P),
         LexemeAt(s, i, Dialects[engine], r).kind # "open"
  PROVE  LET l == LexemeAt(s, i, Dialects[engine], r)
         IN FoundEnclosed(s, Dialects[engine], r, l.last + 1, P \cup {l})
  <1> DEFINE d == Dialects[engine]
             l == LexemeAt(s, i, d, r)
  <1>1. l.last \in Nat /\ l.last >= i /\ i \in Nat /\ i \in Positions
    BY LexemeType DEF AllLexemes, Positions
  <1> SUFFICES ASSUME NEW e \in Positions, l.last + 1 < e, e <= Len(s) + 1
               PROVE  Lexemes(Wrapped(s, e), d, r) =
                        (P \cup {l}) \cup LexemesFrom(Wrapped(s, e), l.last + 1, d, r)
    BY DEF FoundEnclosed
  <1> DEFINE w == Wrapped(s, e)
  <1>2. e \in Nat /\ e \in 1..(Len(s) + 1) /\ i < e
    <2> HIDE DEF l
    <2> QED
      BY <1>1 DEF Positions
  <1>3. Encloses(w, s, e)
    BY <1>2, WrappedEncloses
  <1>4. LexemeAt(w, i, d, r) = l
    BY <1>3, LexemeEnclosed
  <1>5. w \in Seq(Symbols) /\ ~(i > Len(w))
    BY <1>1, <1>2, <1>3 DEF Encloses
  <1>6. Lexemes(w, d, r) = P \cup LexemesFrom(w, i, d, r)
    BY <1>2 DEF FoundEnclosed
  <1> HIDE DEF w, l
  <1>7. LexemesFrom(w, i, d, r) = {l} \cup LexemesFrom(w, l.last + 1, d, r)
    BY Zenon, <1>1, <1>4, <1>5, LexemesTurns
  <1> QED
    BY <1>6, <1>7 DEF w

\* A reading goes on by one lexeme.
LEMMA ReadOne ==
  ASSUME NEW engine \in Engines, NEW s \in Seq(Symbols), NEW i \in 1..Len(s),
         NEW r \in Readings(s, Dialects[engine]), NEW P, NEW T, NEW Z,
         Found(s, Dialects[engine], r, i, P, T, Z),
         LexemeAt(s, i, Dialects[engine], r).kind # "open"
  PROVE  LET d == Dialects[engine]
             l == LexemeAt(s, i, d, r)
         IN Found(s, d, r, l.last + 1, P \cup {l}, T \cup SubstanceOf(s, l), Z \cup TerminatorOf(s, l))
  <1> DEFINE d == Dialects[engine]
             l == LexemeAt(s, i, d, r)
             Q == P \cup {l}
             ends == l.kind = "code" /\ s[i] = ";"
  <1> USE DEF Found
  <1>0. LexemesFrom(s, i, d, r) = {l} \cup LexemesFrom(s, l.last + 1, d, r)
    <2>1. i \in Positions /\ ~(i > Len(s))
      BY DEF Positions
    <2>2. IsReading(r)
      BY ReadingFacts
    <2> QED
      BY Zenon, <2>1, <2>2, LexemesTurns
  <1>1. l \in AllLexemes /\ l.first = i /\ l.last >= i /\ l.last <= Len(s)
    BY ReadingFacts, LexemeType
  <1>2. l.kind = "code" => l.last = i
    BY CodeIsOneSymbol
  <1> HIDE DEF l
  <1>3. ReadBefore(s, d, r, l.last + 1, Q)
    <2>1. LexemesFrom(s, i, d, r) = {l} \cup LexemesFrom(s, l.last + 1, d, r)
      BY <1>0
    <2>2. \A m \in Q : m.first <= m.last /\ m.last < l.last + 1 /\ m.kind # "open"
      <3>1. \A m \in P : /\ m.last \in Nat /\ m.first <= m.last /\ m.last < i
                         /\ m.kind # "open"
        BY DEF ReadBefore, AllLexemes
      <3>2. l.last \in Nat /\ l.kind # "open"
        BY <1>1 DEF AllLexemes, l
      <3> QED
        BY <1>1, <3>1, <3>2
    <2>3. FoundEnclosed(s, d, r, l.last + 1, Q)
      BY ReadingFacts, FoundEnclosedGoesOn DEF l, ReadBefore
    <2> QED
      BY <1>1, <2>1, <2>2, <2>3 DEF ReadBefore
  <1>4. P \in SUBSET AllLexemes /\ Q \in SUBSET AllLexemes
    BY <1>1 DEF ReadBefore
  <1>5. \A m \in P : m.first \in Int /\ m.first <= m.last /\ m.last < i /\ m.last \in Int
    BY DEF ReadBefore, AllLexemes, Positions
  <1>6. Terminators(s, Q) = Terminators(s, P) \cup (IF ends THEN {i} ELSE {})
    <2>1. ASSUME NEW x
          PROVE  x \in Terminators(s, Q) <=> x \in Terminators(s, P) \/ (ends /\ x = i)
      <3>1. x \in Terminators(s, Q) <=>
              \E m \in Q : m.kind = "code" /\ s[m.first] = ";" /\ x = m.first
        BY DEF Terminators
      <3>2. x \in Terminators(s, P) <=>
              \E m \in P : m.kind = "code" /\ s[m.first] = ";" /\ x = m.first
        BY DEF Terminators
      <3> QED
        BY <1>1, <3>1, <3>2
    <2> QED
      BY <2>1
  <1>7. Substance(s, Q) = Substance(s, P) \cup
          (IF l.kind \in SubstanceKinds /\ ~ends THEN i..l.last ELSE {})
    <2>1. ASSUME NEW x
          PROVE  x \in Substance(s, Q) <=>
                   \/ x \in Substance(s, P)
                   \/ l.kind \in SubstanceKinds /\ ~ends /\ x \in i..l.last
      <3>1. x \in Substance(s, Q) <=>
              /\ \E m \in Q : m.kind \in SubstanceKinds /\ x \in m.first..m.last
              /\ x \notin Terminators(s, Q)
        BY <1>4, SubstanceMembers
      <3>2. x \in Substance(s, P) <=>
              /\ \E m \in P : m.kind \in SubstanceKinds /\ x \in m.first..m.last
              /\ x \notin Terminators(s, P)
        BY <1>4, SubstanceMembers
      <3>3. \A t \in Terminators(s, P) : t \in Int /\ t < i
        <4>1. \A t \in Terminators(s, P) : \E m \in P : t = m.first
          BY DEF Terminators
        <4> QED
          BY <1>5, <4>1
      <3>4. l.kind = "code" => (x \in i..l.last <=> x = i)
        BY <1>2
      <3>5. x \in Terminators(s, Q) <=> x \in Terminators(s, P) \/ (ends /\ x = i)
        BY <1>6
      <3>6. x \in i..l.last => x \notin Terminators(s, P)
        BY <3>3
      <3>7. (\E m \in P : m.kind \in SubstanceKinds /\ x \in m.first..m.last) => x # i
        BY <1>5
      <3>8. (\E m \in Q : m.kind \in SubstanceKinds /\ x \in m.first..m.last) <=>
              \/ \E m \in P : m.kind \in SubstanceKinds /\ x \in m.first..m.last
              \/ l.kind \in SubstanceKinds /\ x \in i..l.last
        BY Zenon, <1>1 DEF Q
      <3> QED
        BY Zenon, <3>1, <3>2, <3>4, <3>5, <3>6, <3>7, <3>8
    <2> QED
      BY <2>1
  <1>8. Terminators(s, Q) = Terminators(s, P) \cup TerminatorOf(s, l)
    BY <1>1, <1>6 DEF TerminatorOf, Ends
  <1>9. Substance(s, Q) = Substance(s, P) \cup SubstanceOf(s, l)
    BY <1>1, <1>7 DEF SubstanceOf, Ends
  <1> QED
    BY <1>3, <1>8, <1>9 DEF l, Q

\* A ")" at a position is code, and closes a statement of the symbols U.
WrapsAs(s, d, r, e, U) ==
  LET w       == Wrapped(s, e)
      lexemes == Lexemes(w, d, r)
  IN /\ [kind |-> "code", first |-> e, last |-> e] \in lexemes
     /\ Terminators(w, lexemes) = {}
     /\ Substance(w, lexemes) = U \cup {e}

\* So is a ")" right behind a lexeme of the statement.
LEMMA WrapAt ==
  ASSUME NEW engine \in Engines, NEW s \in Seq(Symbols), NEW i \in 1..Len(s),
         NEW r \in Readings(s, Dialects[engine]), NEW P, NEW T,
         Found(s, Dialects[engine], r, i, P, T, {}),
         LexemeAt(s, i, Dialects[engine], r).kind # "open",
         SubstanceOf(s, LexemeAt(s, i, Dialects[engine], r)) # {}
  PROVE  LET l == LexemeAt(s, i, Dialects[engine], r)
         IN WrapsAs(s, Dialects[engine], r, l.last + 1, T \cup SubstanceOf(s, l))
  <1> DEFINE d == Dialects[engine]
             l == LexemeAt(s, i, d, r)
             e == l.last + 1
             w == Wrapped(s, e)
             c == [kind |-> "code", first |-> e, last |-> e]
             Q == P \cup {l}
             X == Q \cup {c}
             U == T \cup SubstanceOf(s, l)
  <1>1. /\ l \in AllLexemes /\ l.first = i /\ l.last \in Nat /\ l.last >= i
        /\ l.last <= Len(s) /\ IsReading(r)
    BY ReadingFacts, LexemeType DEF AllLexemes
  <1>2. l.kind # "open" /\ l.kind # "comment" /\ ~Ends(s, l)
    <2> HIDE DEF l
    <2>1. SubstanceOf(s, l) # {} /\ l.kind # "open"
      BY DEF l
    <2> QED
      BY <2>1 DEF SubstanceOf, SubstanceKinds
  <1>3. Found(s, d, r, e, Q, U, {} \cup TerminatorOf(s, l))
    BY ReadOne
  <1>4. TerminatorOf(s, l) = {}
    BY <1>2 DEF TerminatorOf
  <1>5. /\ ReadBefore(s, d, r, i, P) /\ ReadBefore(s, d, r, e, Q)
        /\ Substance(s, Q) = U /\ Terminators(s, Q) = {}
    BY <1>3, <1>4 DEF Found
  <1> HIDE DEF l, U
  <1>6. e \in Positions /\ e \in Nat /\ e \in 1..(Len(s) + 1) /\ i \in Positions /\ i < e
    BY <1>1 DEF Positions
  <1>7. Encloses(w, s, e)
    BY <1>6, WrappedEncloses
  <1> HIDE DEF e
  <1>8. LexemeAt(w, i, d, r) = l
    <2>1. l.last + 1 = e
      BY DEF e
    <2> QED
      BY <1>1, <1>2, <1>7, <2>1, LexemeEnclosed DEF l
  <1>9. w \in Seq(Symbols) /\ Len(w) = e /\ w[e] = ")" /\ \A k \in 1..(e - 1) : w[k] = s[k]
    BY <1>7 DEF Encloses
  <1>10. w \in Seq(Symbols) /\ IsReading(r)
    BY <1>1, <1>9
  <1> HIDE DEF w, Q, c
  <1>11. Lexemes(w, d, r) = X
    <2>1. Lexemes(w, d, r) = P \cup LexemesFrom(w, i, d, r)
      BY <1>5, <1>6 DEF ReadBefore, FoundEnclosed, w
    <2>2. LexemesFrom(w, i, d, r) = {l} \cup LexemesFrom(w, e, d, r)
      <3>1. ~(i > Len(w))
        BY <1>6, <1>9
      <3> QED
        BY Zenon, <1>6, <1>8, <1>10, <3>1, LexemesTurns DEF e
    <2>3. LexemesFrom(w, e, d, r) = {c} \cup LexemesFrom(w, e + 1, d, r)
      <3>1. ~(e > Len(w))
        BY <1>6, <1>9
      <3>2. LexemeAt(w, e, d, r) = c
        <4>1. w[e] \notin d.lineComments /\ w[e] # "/*" /\ ~OpensLiteral(w, e, d) /\ w[e] \notin Spaces
          BY <1>9, DialectFacts DEF OpensLiteral, Spaces
        <4> QED
          BY ZenonT(60), <1>6, <4>1, CodeAt DEF c
      <3>3. c.last = e
        BY DEF c
      <3>4. LexemesFrom(w, e, d, r) =
              {LexemeAt(w, e, d, r)} \cup LexemesFrom(w, LexemeAt(w, e, d, r).last + 1, d, r)
        BY Zenon, <1>6, <1>10, <3>1, LexemesTurns
      <3> QED
        BY Zenon, <3>2, <3>3, <3>4
    <2>4. LexemesFrom(w, e + 1, d, r) = {}
      <3>1. e + 1 \in Positions /\ e + 1 > Len(w)
        BY <1>6, <1>9 DEF Positions
      <3> QED
        BY Zenon, <1>10, <3>1, LexemesTurns
    <2> HIDE DEF d
    <2> QED
      BY <2>1, <2>2, <2>3, <2>4 DEF Q
  <1>12. Q \in SUBSET AllLexemes /\ c \in AllLexemes /\ X \in SUBSET AllLexemes
    <2>1. c \in AllLexemes
      BY <1>6 DEF c, AllLexemes, Kinds
    <2> QED
      BY <1>5, <2>1 DEF ReadBefore
  <1>13. \A m \in Q : w[m.first] = s[m.first]
    <2> SUFFICES ASSUME NEW m \in Q PROVE w[m.first] = s[m.first]
      OBVIOUS
    <2>1. m.first \in 1..(e - 1)
      <3>1. m \in AllLexemes /\ m.first <= m.last /\ m.last < e
        BY <1>5 DEF ReadBefore
      <3>2. m.first \in Nat /\ m.first >= 1 /\ m.last \in Nat
        BY <3>1 DEF AllLexemes, Positions
      <3> QED
        BY <1>6, <3>1, <3>2
    <2> QED
      BY <1>9, <2>1
  <1>14. Terminators(w, X) = {}
    <2> SUFFICES ASSUME NEW x \in Terminators(w, X) PROVE FALSE
      BY Zenon
    <2> HIDE DEF X
    <2>0. \E m \in X : m.kind = "code" /\ w[m.first] = ";" /\ x = m.first
      BY DEF Terminators
    <2>1. PICK m \in X : m.kind = "code" /\ w[m.first] = ";"
      BY <2>0
    <2> USE DEF X
    <2>2. m # c
      <3>1. w[m.first] = ";" /\ w[e] = ")"
        BY <1>9, <2>1
      <3>2. c.first = e
        BY DEF c
      <3> QED
        BY <3>1, <3>2
    <2>3. m \in Q /\ s[m.first] = ";"
      BY <1>13, <2>1, <2>2
    <2>4. m.first \in Terminators(s, Q)
      BY <1>12, <2>1, <2>3, SubstanceMembers
    <2> QED
      BY <1>5, <2>4
  <1>15. Substance(w, X) = U \cup {e}
    <2>1. ASSUME NEW x PROVE x \in Substance(w, X) <=> x \in U \cup {e}
      <3>1. x \in Substance(w, X) <=>
              \E m \in X : m.kind \in SubstanceKinds /\ x \in m.first..m.last
        BY <1>12, <1>14, SubstanceMembers
      <3>2. x \in U <=> \E m \in Q : m.kind \in SubstanceKinds /\ x \in m.first..m.last
        BY <1>5, <1>12, SubstanceMembers
      <3>3. c.kind \in SubstanceKinds /\ (x \in c.first..c.last <=> x = e)
        BY <1>6 DEF c, SubstanceKinds
      <3> QED
        BY Zenon, <3>1, <3>2, <3>3
    <2> QED
      BY <2>1
  <1> QED
    <2>1. c \in X
      OBVIOUS
    <2> HIDE DEF X, d
    <2> QED
      BY Zenon, <1>11, <1>14, <1>15, <2>1 DEF WrapsAs, w, c, d, e, U, l

\* It does in every reading.
Wraps(s, d, e, U) == \A r \in Readings(s, d) : WrapsAs(s, d, r, e, U)

\* All readings have found the same statement and the same ";" so far.
AgreedBefore(s, d, i, T, Z) == \A r \in Readings(s, d) : \E P : Found(s, d, r, i, P, T, Z)

\* All readings go on by the same lexeme.
LEMMA AgreeOnOne ==
  ASSUME NEW engine \in Engines, NEW s \in Seq(Symbols), NEW i \in 1..Len(s), NEW T, NEW Z,
         AgreedBefore(s, Dialects[engine], i, T, Z),
         NEW l, l.kind # "open",
         \A r \in Readings(s, Dialects[engine]) : LexemeAt(s, i, Dialects[engine], r) = l
  PROVE  AgreedBefore(s, Dialects[engine], l.last + 1,
                      T \cup SubstanceOf(s, l), Z \cup TerminatorOf(s, l))
  <1> DEFINE d == Dialects[engine]
  <1> SUFFICES ASSUME NEW r \in Readings(s, d)
               PROVE  \E Q : Found(s, d, r, l.last + 1, Q,
                                   T \cup SubstanceOf(s, l), Z \cup TerminatorOf(s, l))
    BY DEF AgreedBefore
  <1>1. PICK P : Found(s, d, r, i, P, T, Z)
    BY DEF AgreedBefore
  <1>2. LexemeAt(s, i, d, r) = l
    OBVIOUS
  <1> QED
    BY <1>1, <1>2, ReadOne

\* All readings go on by the same comment, with or without the LF behind it.
LEMMA AgreeOnComment ==
  ASSUME NEW engine \in Engines, NEW s \in Seq(Symbols), NEW i \in 1..Len(s), NEW T, NEW Z,
         AgreedBefore(s, Dialects[engine], i, T, Z),
         CommentEnd(s, i, Dialects[engine]) \notin {None, Refused}
  PROVE  /\ CommentEnd(s, i, Dialects[engine]) \in (i + 1)..(Len(s) + 1)
         /\ AgreedBefore(s, Dialects[engine], CommentEnd(s, i, Dialects[engine]), T, Z)
  <1> DEFINE d == Dialects[engine]
             c == CommentEnd(s, i, d)
  <1> SUFFICES ASSUME NEW r \in Readings(s, d)
               PROVE  c \in (i + 1)..(Len(s) + 1) /\ \E Q : Found(s, d, r, c, Q, T, Z)
    BY SomeReading DEF AgreedBefore
  <1>1. PICK P : Found(s, d, r, i, P, T, Z)
    BY DEF AgreedBefore
  <1> DEFINE l == LexemeAt(s, i, d, r)
             Q == P \cup {l}
  <1>2. /\ c \in (i + 1)..(Len(s) + 1)
        /\ l.kind = "comment"
        /\ l.last # c - 1 => l.last = c - 2 /\ l.last >= i /\ s[c - 1] = "LF"
    BY CommentIsCertain
  <1>3. Found(s, d, r, l.last + 1, Q, T \cup SubstanceOf(s, l), Z \cup TerminatorOf(s, l))
    BY <1>1, <1>2, ReadOne
  <1>4. T \cup SubstanceOf(s, l) = T /\ Z \cup TerminatorOf(s, l) = Z
    BY <1>2 DEF TerminatorOf, SubstanceOf, Ends, SubstanceKinds
  <1>5. CASE l.last = c - 1
    <2>1. l.last + 1 = c
      BY <1>2, <1>5
    <2> HIDE DEF l, d, Q, c
    <2> QED
      BY <1>2, <1>3, <1>4, <2>1
  <1>6. CASE l.last # c - 1
    <2> DEFINE k == c - 1
               m == LexemeAt(s, k, d, r)
               R == Q \cup {m}
    <2>1. k \in 1..Len(s) /\ s[k] = "LF" /\ l.last + 1 = k /\ k + 1 = c
      BY <1>2, <1>6
    <2>2. m = [kind |-> "space", first |-> k, last |-> k]
      <3> HIDE DEF c, k
      <3>1. s[k] \in Spaces
        BY <2>1 DEF Spaces
      <3> QED
        BY <2>1, <3>1, SpaceAt
    <2>3. Found(s, d, r, k, Q, T, Z) /\ m.kind # "open"
      <3> HIDE DEF l, d, Q, c, k, m
      <3> QED
        BY <1>3, <1>4, <2>1, <2>2
    <2>4. Found(s, d, r, m.last + 1, R, T \cup SubstanceOf(s, m), Z \cup TerminatorOf(s, m))
      <3> HIDE DEF Q, c, k
      <3> QED
        BY <2>1, <2>3, ReadOne
    <2> HIDE DEF l, d, Q, c, k, m, R
    <2>5. T \cup SubstanceOf(s, m) = T /\ Z \cup TerminatorOf(s, m) = Z /\ m.last + 1 = c
      BY <2>1, <2>2 DEF TerminatorOf, SubstanceOf, Ends, SubstanceKinds
    <2> QED
      BY <1>2, <2>4, <2>5
  <1> QED
    BY <1>5, <1>6

-----------------------------------------------------------------------------
(***************************************************************************)
(* The invariant of the scan.                                                *)
(***************************************************************************)

\* What _scan has seen so far, all readings have found as well.
Agreement ==
  \E T \in SUBSET Nat, Z \in SUBSET Nat :
    /\ AgreedBefore(sql, dialect, index, T, Z)
    /\ \A k \in T : k < index
    /\ T # {} <=> end # None
    /\ Z # {} <=> seen
    /\ \A t \in Z : \A k \in T : k < t
    /\ end # None => Wraps(sql, dialect, end, T)

GateInv ==
  /\ request.engine \in Engines /\ sql \in Seq(Symbols)
  /\ index \in Positions /\ seen \in BOOLEAN /\ end \in Nat \cup {Refused}
  /\ end # Refused => Agreement
  /\ pc = "scan" => end # Refused
  /\ pc # "scan" => end = Refused \/ index > Len(sql)
  /\ pc \in {"scan", "single"} => answer = "none"
  /\ pc \in {"read", "wrap"} =>
       answer = "none" /\ ("multi" \in request.optouts \/ IsSingleStatement)
  /\ Checked => pc # "scan" /\ IsSingleStatement
  /\ answer = "wrapped" => pc # "scan" /\ IsSingleStatement

\* Nothing is read yet.
LEMMA GateInvInit == Init => GateInv
  <1> SUFFICES ASSUME Init PROVE GateInv
    OBVIOUS
  <1>1. request.engine \in Engines /\ sql \in Seq(Symbols)
    <2>1. DOMAIN Dialects = Engines
      BY DEF Dialects, Engines
    <2> QED
      BY <2>1, FamiliesAssumption DEF Init, sql
  <1>2. Agreement
    <2>1. AgreedBefore(sql, dialect, 1, {}, {})
      <3> SUFFICES ASSUME NEW r \in Readings(sql, dialect)
                   PROVE  Found(sql, dialect, r, 1, {}, {}, {})
        BY DEF AgreedBefore
      <3>1. Substance(sql, {}) = {} /\ Terminators(sql, {}) = {}
        BY DEF Substance, Terminators
      <3> QED
        BY <3>1 DEF Found, ReadBefore, FoundEnclosed, Lexemes
    <2> QED
      BY <2>1 DEF Agreement, Init
  <1> QED
    <2>1. /\ pc = "scan" /\ index \in Positions /\ seen \in BOOLEAN
          /\ end \in Nat /\ end # Refused /\ answer = "none"
      <3>1. pc = "scan" /\ index = 1 /\ seen = FALSE /\ end = 0 /\ answer = "none"
        BY DEF Init, None
      <3>2. 0 \in Nat /\ 0 # Refused /\ 1 \in Positions
        BY DEF Positions, Refused
      <3> QED
        BY Zenon, <3>1, <3>2
    <2>2. ~Checked
      BY <2>1 DEF Checked, Accepted
    <2> QED
      BY <1>1, <1>2, <2>1, <2>2 DEF GateInv

\* What the scan does with a lexeme.
Takes(l) ==
  /\ request' = request /\ index' = l.last + 1
  /\ IF SubstanceOf(sql, l) = {} THEN end' = end ELSE ~seen /\ end' = l.last + 1
  /\ IF Ends(sql, l) THEN seen' = TRUE ELSE seen' = seen

\* A lexeme all readings agree on, at the position of the scan.
LEMMA StepOnLexeme ==
  ASSUME GateInv, Scanning, NEW l \in AllLexemes, l.kind # "open", l.first = index,
         l.last >= index,
         \A r \in Readings(sql, dialect) : LexemeAt(sql, index, dialect, r) = l,
         Takes(l)
  PROVE  Agreement' /\ index' \in Positions /\ seen' \in BOOLEAN /\ end' \in Nat
  <1> USE DEF AllLexemes, Positions, Takes
  <1>1. /\ request.engine \in Engines /\ sql \in Seq(Symbols) /\ index \in 1..Len(sql)
        /\ seen \in BOOLEAN /\ end \in Nat /\ Agreement
    BY DEF GateInv, Scanning, Refused
  <1>2. l.first \in Nat /\ l.last \in Nat /\ index' \in Nat /\ index' > index
    BY <1>1
  <1>3. PICK T \in SUBSET Nat, Z \in SUBSET Nat :
          /\ AgreedBefore(sql, dialect, index, T, Z)
          /\ \A k \in T : k < index
          /\ T # {} <=> end # None
          /\ Z # {} <=> seen
          /\ \A t \in Z : \A k \in T : k < t
          /\ end # None => Wraps(sql, dialect, end, T)
    BY <1>1 DEF Agreement
  <1>0. PICK U, Y : U = T \cup SubstanceOf(sql, l) /\ Y = Z \cup TerminatorOf(sql, l)
    OBVIOUS
  <1>4. AgreedBefore(sql, dialect, l.last + 1, U, Y)
    <2>1. AgreedBefore(sql, dialect, l.last + 1,
                       T \cup SubstanceOf(sql, l), Z \cup TerminatorOf(sql, l))
      BY <1>1, <1>3, AgreeOnOne DEF dialect
    <2> QED
      BY Zenon, <1>0, <2>1
  <1>5. AgreedBefore(sql', dialect', index', U, Y)
    BY <1>4 DEF sql, dialect
  <1>6. SubstanceOf(sql, l) \in SUBSET (index..l.last) /\ TerminatorOf(sql, l) \in SUBSET {index}
    BY DEF SubstanceOf, TerminatorOf
  <1>7. TerminatorOf(sql, l) # {} <=> Ends(sql, l)
    BY DEF TerminatorOf
  <1>8. Ends(sql, l) => SubstanceOf(sql, l) = {}
    BY DEF SubstanceOf
  <1>9. U \in SUBSET Nat /\ Y \in SUBSET Nat /\ \A k \in U : k < index'
    <2>1. ASSUME NEW k \in U PROVE k \in Nat /\ k < index'
      BY <1>0, <1>1, <1>2, <1>3, <1>6, <2>1
    <2>2. ASSUME NEW t \in Y PROVE t \in Nat
      BY <1>0, <1>1, <1>2, <1>3, <1>6, <2>2
    <2> QED
      BY <2>1, <2>2
  <1>10. U # {} <=> end' # None
    BY <1>0, <1>2, <1>3 DEF None
  <1>11. Y # {} <=> seen'
    BY <1>0, <1>3, <1>7
  <1>12. \A t \in Y : \A k \in U : k < t
    <2> SUFFICES ASSUME NEW t \in Y, NEW k \in U PROVE k < t
      OBVIOUS
    <2>1. CASE t \in Z
      BY <1>0, <1>3, <2>1
    <2>2. CASE t \notin Z
      BY <1>0, <1>3, <1>6, <1>7, <1>8, <2>2
    <2> QED
      BY <2>1, <2>2
  <1>13. end' # None => Wraps(sql', dialect', end', U)
    <2> SUFFICES ASSUME end' # None PROVE Wraps(sql, dialect, end', U)
      BY DEF sql, dialect
    <2>1. CASE SubstanceOf(sql, l) = {}
      <3>1. U = T /\ end' = end
        BY Zenon, <1>0, <2>1
      <3> QED
        BY Zenon, <1>3, <3>1
    <2>2. CASE SubstanceOf(sql, l) # {}
      <3>1. Z = {} /\ end' = l.last + 1
        BY Zenon, <1>3, <2>2
      <3> SUFFICES ASSUME NEW r \in Readings(sql, dialect)
                   PROVE  WrapsAs(sql, dialect, r, end', U)
        BY DEF Wraps
      <3>2. PICK P : Found(sql, dialect, r, index, P, T, {})
        BY <1>3, <3>1 DEF AgreedBefore
      <3>3. LexemeAt(sql, index, dialect, r) = l
        OBVIOUS
      <3>4. WrapsAs(sql, dialect, r, l.last + 1, T \cup SubstanceOf(sql, l))
        BY <1>1, <2>2, <3>2, <3>3, WrapAt DEF dialect
      <3> QED
        BY Zenon, <1>0, <3>1, <3>4
    <2> QED
      BY <2>1, <2>2
  <1>14. Agreement'
    BY <1>5, <1>9, <1>10, <1>11, <1>12, <1>13 DEF Agreement
  <1>15. seen' \in BOOLEAN
    <2>1. seen' = TRUE \/ seen' = seen
      BY Zenon DEF Takes
    <2> QED
      BY Zenon, <1>1, <2>1
  <1>16. end' \in Nat
    <2>1. end' = end \/ end' = l.last + 1
      BY Zenon DEF Takes
    <2> QED
      BY <1>1, <1>2, <2>1
  <1>17. index' \in Positions
    BY <1>1, <1>2
  <1> HIDE DEF Takes
  <1> QED
    BY <1>14, <1>15, <1>16, <1>17

\* The two marks are told apart.
LEMMA NoneIsNotRefused == None # Refused
  BY DEF None, Refused

\* A position where no comment, no literal opens, and the symbol of code there.
LEMMA NoComment ==
  ASSUME NEW engine \in Engines, NEW s \in Seq(Symbols), NEW i \in 1..Len(s),
         CommentEnd(s, i, Dialects[engine]) = None
  PROVE  s[i] \notin Dialects[engine].lineComments /\ s[i] # "/*"
  <1>1. CommentEnd(s, i, Dialects[engine]) # Refused
    BY Zenon, NoneIsNotRefused
  <1>2. \E r : r \in Readings(s, Dialects[engine])
    BY SomeReading
  <1> QED
    BY Zenon, <1>1, <1>2, CommentIsCertain

\* Nor does a literal.
LEMMA NoLiteral ==
  ASSUME NEW engine \in Engines, NEW s \in Seq(Symbols), NEW i \in 1..Len(s),
         LiteralEnd(s, i, Dialects[engine]) = None
  PROVE  ~OpensLiteral(s, i, Dialects[engine])
  <1>1. LiteralEnd(s, i, Dialects[engine]) # Refused
    BY Zenon, NoneIsNotRefused
  <1>2. \E r : r \in Readings(s, Dialects[engine])
    BY SomeReading
  <1> QED
    BY Zenon, <1>1, <1>2, LiteralIsCertain

\* A literal whose end is certain is read alike by all.
LEMMA LiteralAt ==
  ASSUME NEW engine \in Engines, NEW s \in Seq(Symbols), NEW i \in 1..Len(s),
         LiteralEnd(s, i, Dialects[engine]) \notin {None, Refused}
  PROVE  /\ LiteralEnd(s, i, Dialects[engine]) \in Nat
         /\ LiteralEnd(s, i, Dialects[engine]) > i + 1
         /\ \A r \in Readings(s, Dialects[engine]) :
              LexemeAt(s, i, Dialects[engine], r) =
                [kind |-> "literal", first |-> i, last |-> LiteralEnd(s, i, Dialects[engine]) - 1]
  <1> DEFINE d == Dialects[engine]
             e == LiteralEnd(s, i, d)
  <1>1. ASSUME NEW r \in Readings(s, d)
        PROVE  /\ e \in Nat /\ e > i + 1
               /\ LexemeAt(s, i, d, r) = [kind |-> "literal", first |-> i, last |-> e - 1]
    <2>1. OpensLiteral(s, i, d) /\ LiteralEndAs(s, i, d, r) = e /\ e \in Nat /\ e > i + 1
      BY LiteralIsCertain
    <2>2. LexemeAt(s, i, d, r) = Lexeme(s, "literal", i, LiteralEndAs(s, i, d, r))
      BY Zenon, <2>1, LexemeOfLiteral
    <2>3. LexemeAt(s, i, d, r) = Lexeme(s, "literal", i, e)
      BY Zenon, <2>1, <2>2
    <2> HIDE DEF e
    <2> QED
      BY <2>1, <2>3 DEF Lexeme, Refused
  <1>2. \E r : r \in Readings(s, d)
    BY SomeReading
  <1> QED
    BY <1>1, <1>2

\* What an action of the scan starts from.
LEMMA ScanFacts ==
  ASSUME GateInv, Scanning
  PROVE  /\ request.engine \in Engines /\ sql \in Seq(Symbols) /\ index \in 1..Len(sql)
         /\ dialect = Dialects[request.engine]
         /\ index \in Nat /\ answer = "none" /\ Agreement
  BY DEF GateInv, Scanning, Positions, dialect

\* What an action of the scan other than ScanRefuses has to show.
LEMMA ScanGoesOn ==
  ASSUME GateInv, Scanning, UNCHANGED <<request, pc, answer>>,
         Agreement', index' \in Positions, seen' \in BOOLEAN, end' \in Nat
  PROVE  GateInv'
  <1>1. pc' = "scan" /\ answer' = "none" /\ end' # Refused
    BY ScanFacts DEF Scanning, Refused
  <1>2. ~Checked'
    BY <1>1 DEF Checked, Accepted
  <1> QED
    BY <1>1, <1>2 DEF GateInv, sql

\* One case per action.
LEMMA GateInvStep == GateInv /\ [Next]_vars => GateInv'
  <1> SUFFICES ASSUME GateInv, [Next]_vars PROVE GateInv'
    OBVIOUS
  <1>1. CASE SkipComment
    <2>1. Scanning /\ Comment \notin {None, Refused}
      BY <1>1 DEF SkipComment
    <2>2. PICK T \in SUBSET Nat, Z \in SUBSET Nat :
            /\ AgreedBefore(sql, dialect, index, T, Z)
            /\ \A k \in T : k < index
            /\ T # {} <=> end # None
            /\ Z # {} <=> seen
            /\ \A t \in Z : \A k \in T : k < t
            /\ end # None => Wraps(sql, dialect, end, T)
      BY <2>1, ScanFacts DEF Agreement
    <2>3. Comment \in (index + 1)..(Len(sql) + 1)
      BY <2>1, <2>2, ScanFacts, AgreeOnComment DEF Comment, dialect
    <2>4. AgreedBefore(sql, dialect, Comment, T, Z)
      BY <2>1, <2>2, ScanFacts, AgreeOnComment DEF Comment, dialect
    <2>5. AgreedBefore(sql', dialect', index', T, Z)
      BY <1>1, <2>4 DEF SkipComment, sql, dialect
    <2>6. index' \in Nat /\ index' > index /\ index \in Nat
      BY <1>1, <2>1, <2>3, ScanFacts DEF SkipComment
    <2>7. \A k \in T : k < index'
      BY <2>2, <2>6
    <2>8. end' # None => Wraps(sql', dialect', end', T)
      BY <1>1, <2>2 DEF SkipComment, sql, dialect
    <2>9. Agreement'
      BY <1>1, <2>2, <2>5, <2>7, <2>8 DEF Agreement, SkipComment
    <2> QED
      BY <1>1, <2>1, <2>6, <2>9, ScanGoesOn DEF SkipComment, GateInv, Positions, Scanning
  <1>2. CASE SkipSpace
    <2> DEFINE l == [kind |-> "space", first |-> index, last |-> index]
    <2>1. Scanning /\ sql[index] \in Spaces
      BY <1>2 DEF SkipSpace
    <2>2. \A r \in Readings(sql, dialect) : LexemeAt(sql, index, dialect, r) = l
      <3>1. request.engine \in Engines /\ index \in Nat
        BY <2>1, ScanFacts
      <3> QED
        BY ZenonT(60), <2>1, <3>1, SpaceAt DEF dialect
    <2>3. /\ l \in AllLexemes /\ l.kind # "open" /\ l.first = index /\ l.last >= index
          /\ l.last + 1 = index + 1
      BY <2>1, ScanFacts DEF AllLexemes, Kinds, Positions
    <2>4. SubstanceOf(sql, l) = {} /\ ~Ends(sql, l)
      BY DEF SubstanceOf, SubstanceKinds, Ends
    <2> HIDE DEF l
    <2>5. Takes(l) /\ UNCHANGED <<request, pc, answer>>
      BY <1>2, <2>1, <2>3, <2>4 DEF SkipSpace, Takes
    <2>6. Agreement' /\ index' \in Positions /\ seen' \in BOOLEAN /\ end' \in Nat
      BY <2>1, <2>2, <2>3, <2>4, <2>5, StepOnLexeme
    <2> QED
      BY <2>1, <2>5, <2>6, ScanGoesOn
  <1>3. CASE Terminator
    <2> DEFINE l == [kind |-> "code", first |-> index, last |-> index]
    <2>0. Scanning
      BY <1>3 DEF Terminator, Significant
    <2>1. Scanning /\ Comment = None /\ sql[index] = ";" /\ ~seen
      BY <1>3 DEF Terminator, Significant
    <2>2. \A r \in Readings(sql, dialect) : LexemeAt(sql, index, dialect, r) = l
      <3>1. sql[index] \notin dialect.lineComments /\ sql[index] # "/*"
        BY <2>1, ScanFacts, NoComment DEF Comment, dialect
      <3>2. sql[index] \notin Spaces /\ ~OpensLiteral(sql, index, dialect)
        BY <2>1 DEF Spaces, OpensLiteral
      <3>3. request.engine \in Engines /\ index \in Nat
        BY <2>1, ScanFacts
      <3> QED
        BY ZenonT(60), <3>1, <3>2, <3>3, CodeAt DEF dialect
    <2>3. /\ l \in AllLexemes /\ l.kind # "open" /\ l.first = index /\ l.last >= index
          /\ l.last + 1 = index + 1
      BY <2>0, ScanFacts DEF AllLexemes, Kinds, Positions
    <2>4. SubstanceOf(sql, l) = {} /\ Ends(sql, l)
      BY <2>1 DEF SubstanceOf, Ends
    <2> HIDE DEF l
    <2>5. Takes(l) /\ UNCHANGED <<request, pc, answer>>
      BY <1>3, <2>1, <2>3, <2>4 DEF Terminator, Takes
    <2>6. Agreement' /\ index' \in Positions /\ seen' \in BOOLEAN /\ end' \in Nat
      BY <2>1, <2>2, <2>3, <2>4, <2>5, StepOnLexeme
    <2> QED
      BY <2>1, <2>5, <2>6, ScanGoesOn
  <1>4. CASE TakeLiteral
    <2> DEFINE l == [kind |-> "literal", first |-> index, last |-> Literal - 1]
    <2>1. Scanning /\ Literal \notin {None, Refused} /\ ~seen
      BY <1>4 DEF TakeLiteral, Significant
    <2>2. Literal \in Nat /\ Literal > index + 1
      BY <2>1, ScanFacts, LiteralAt DEF Literal, dialect
    <2>3. \A r \in Readings(sql, dialect) : LexemeAt(sql, index, dialect, r) = l
      BY <2>1, ScanFacts, LiteralAt DEF Literal, dialect
    <2>4. /\ l \in AllLexemes /\ l.kind # "open" /\ l.first = index /\ l.last >= index
          /\ l.last + 1 = Literal
      BY <2>1, <2>2, ScanFacts DEF AllLexemes, Kinds, Positions
    <2>5. SubstanceOf(sql, l) # {} /\ ~Ends(sql, l)
      <3>1. index \in index..l.last
        BY <2>1, <2>4, ScanFacts DEF AllLexemes
      <3> QED
        BY <3>1 DEF SubstanceOf, SubstanceKinds, Ends
    <2> HIDE DEF l
    <2>6. Takes(l) /\ UNCHANGED <<request, pc, answer>>
      BY <1>4, <2>1, <2>4, <2>5 DEF TakeLiteral, Takes
    <2>7. Agreement' /\ index' \in Positions /\ seen' \in BOOLEAN /\ end' \in Nat
      BY <2>1, <2>3, <2>4, <2>5, <2>6, StepOnLexeme
    <2> QED
      BY <2>1, <2>6, <2>7, ScanGoesOn
  <1>5. CASE TakeSymbol
    <2> DEFINE l == [kind |-> "code", first |-> index, last |-> index]
    <2>0. Scanning
      BY <1>5 DEF TakeSymbol, Significant
    <2>1. /\ Scanning /\ Comment = None /\ sql[index] \notin Spaces
          /\ Literal = None /\ sql[index] # ";" /\ ~seen
      BY <1>5 DEF TakeSymbol, Significant
    <2>2. \A r \in Readings(sql, dialect) : LexemeAt(sql, index, dialect, r) = l
      <3>1. sql[index] \notin dialect.lineComments /\ sql[index] # "/*"
        BY <2>1, ScanFacts, NoComment DEF Comment, dialect
      <3>2. ~OpensLiteral(sql, index, dialect)
        BY <2>1, ScanFacts, NoLiteral DEF Literal, dialect
      <3>3. request.engine \in Engines /\ index \in Nat
        BY <2>1, ScanFacts
      <3> QED
        BY ZenonT(60), <2>1, <3>1, <3>2, <3>3, CodeAt DEF dialect
    <2>3. /\ l \in AllLexemes /\ l.kind # "open" /\ l.first = index /\ l.last >= index
          /\ l.last + 1 = index + 1
      BY <2>0, ScanFacts DEF AllLexemes, Kinds, Positions
    <2>4. SubstanceOf(sql, l) # {} /\ ~Ends(sql, l)
      <3>1. index \in index..l.last
        BY <2>0, ScanFacts
      <3> QED
        BY <2>1, <3>1 DEF SubstanceOf, SubstanceKinds, Ends
    <2> HIDE DEF l
    <2>5. Takes(l) /\ UNCHANGED <<request, pc, answer>>
      BY <1>5, <2>1, <2>3, <2>4 DEF TakeSymbol, Takes
    <2>6. Agreement' /\ index' \in Positions /\ seen' \in BOOLEAN /\ end' \in Nat
      BY <2>1, <2>2, <2>3, <2>4, <2>5, StepOnLexeme
    <2> QED
      BY <2>1, <2>5, <2>6, ScanGoesOn
  <1>6. CASE ScanRefuses
    BY <1>6 DEF ScanRefuses, GateInv, Scanning, Checked, Accepted, sql, Refused
  <1> USE DEF GateInv, Agreement, Checked, Accepted, IsSingleStatement, sql, dialect
  <1>7. CASE ScanEnds
    BY <1>7 DEF ScanEnds
  <1>8. CASE AssertSingleStatement
    BY <1>8 DEF AssertSingleStatement
  <1>9. CASE AssertReadStatement
    BY <1>9 DEF AssertReadStatement
  <1>10. CASE WrapInLimit
    BY <1>10 DEF WrapInLimit
  <1>11. CASE UNCHANGED vars
    BY <1>11 DEF vars
  <1> QED
    BY <1>1, <1>2, <1>3, <1>4, <1>5, <1>6, <1>7, <1>8, <1>9, <1>10, <1>11 DEF Next

\* A scan that is over, and found a statement, has read the whole text.
LEMMA WholeText ==
  ASSUME GateInv, pc # "scan", end # Refused,
         NEW T, NEW Z, AgreedBefore(sql, dialect, index, T, Z),
         NEW r \in Readings(sql, dialect)
  PROVE  LET lexemes == Lexemes(sql, dialect, r)
         IN /\ Substance(sql, lexemes) = T
            /\ Terminators(sql, lexemes) = Z
            /\ Closed(lexemes)
  <1>1. /\ request.engine \in Engines /\ sql \in Seq(Symbols)
        /\ index \in Positions /\ index > Len(sql)
    BY DEF GateInv
  <1>2. PICK P : Found(sql, dialect, r, index, P, T, Z)
    BY DEF AgreedBefore
  <1>3. LexemesFrom(sql, index, dialect, r) = {}
    <2>1. IsReading(r)
      BY ReadingFacts
    <2> QED
      BY <1>1, <2>1, LexemesTurns DEF dialect
  <1>4. Lexemes(sql, dialect, r) = P
    BY <1>2, <1>3 DEF Found, ReadBefore
  <1>5. Closed(P)
    BY <1>2 DEF Found, ReadBefore, Closed
  <1> QED
    BY <1>2, <1>4, <1>5 DEF Found

\* What IsSingleStatement says of the invariant.
LEMMA SingleMeans ==
  ASSUME GateInv, IsSingleStatement
  PROVE  Agreement /\ end # None /\ end # Refused
  <1>1. end # Refused /\ end # None
    BY DEF IsSingleStatement
  <1> QED
    BY Zenon, <1>1 DEF GateInv

\* The invariant of the scan says what OneStatementInEveryReading claims.
LEMMA GateInvMeans == GateInv => OneStatementInEveryReading
  <1> SUFFICES ASSUME GateInv, Checked
               PROVE  LET readings == {Lexemes(sql, dialect, r) : r \in Readings(sql, dialect)}
                      IN /\ \A lexemes \in readings : IsOneStatement(sql, lexemes)
                         /\ \A one, other \in readings : Substance(sql, one) = Substance(sql, other)
    BY DEF OneStatementInEveryReading
  <1>0. pc # "scan" /\ IsSingleStatement
    BY DEF GateInv
  <1>1. Agreement /\ end # None /\ end # Refused
    BY <1>0, SingleMeans
  <1>2. PICK T \in SUBSET Nat, Z \in SUBSET Nat :
          /\ AgreedBefore(sql, dialect, index, T, Z)
          /\ T # {}
          /\ \A t \in Z : \A k \in T : k < t
    BY <1>1 DEF Agreement
  <1>3. ASSUME NEW r \in Readings(sql, dialect)
        PROVE  /\ IsOneStatement(sql, Lexemes(sql, dialect, r))
               /\ Substance(sql, Lexemes(sql, dialect, r)) = T
    <2> DEFINE lexemes == Lexemes(sql, dialect, r)
    <2>1. Substance(sql, lexemes) = T /\ Terminators(sql, lexemes) = Z /\ Closed(lexemes)
      BY <1>0, <1>1, <1>2, WholeText
    <2> HIDE DEF lexemes
    <2>2. IsOneStatement(sql, lexemes)
      BY <1>2, <2>1 DEF IsOneStatement
    <2> QED
      BY <2>1, <2>2 DEF lexemes
  <1> QED
    BY <1>3

\* Nor is it less than WrapEndsInCode claims.
LEMMA WrapsInCode == GateInv => WrapEndsInCode
  <1> SUFFICES ASSUME GateInv, answer = "wrapped" PROVE WrapEndsInCode
    BY DEF WrapEndsInCode
  <1>1. pc # "scan" /\ IsSingleStatement
    BY DEF GateInv
  <1>2. Agreement /\ end # None /\ end # Refused
    BY <1>1, SingleMeans
  <1>3. PICK T \in SUBSET Nat, Z \in SUBSET Nat :
          AgreedBefore(sql, dialect, index, T, Z) /\ Wraps(sql, dialect, end, T)
    BY <1>2 DEF Agreement
  <1>4. Append(Body, ")") = Wrapped(sql, end)
    BY DEF Body, Wrapped
  <1>5. ASSUME NEW r \in Readings(sql, dialect)
        PROVE  /\ Substance(sql, Lexemes(sql, dialect, r)) = T
               /\ WrapsAs(sql, dialect, r, end, T)
    BY <1>1, <1>2, <1>3, WholeText DEF Wraps
  <1> QED
    BY Zenon, <1>4, <1>5 DEF WrapEndsInCode, WrapsAs

\* The invariant of the scan: while assert_single_statement has refused nothing,
\* what it has seen before the index - the statement's symbols, where they end,
\* whether a ";" ended them - is what every reading of the text has there.
THEOREM GateInvariant == Spec => []GateInv
  BY GateInvInit, GateInvStep, PTL DEF Spec

\* A text that assert_single_statement accepts (sql_scope.py, _scan) is one
\* statement of the same symbols wherever the engine ends its comments and its
\* literals, for every text over the symbols the lexer tells apart.
THEOREM OneStatement == Spec => []OneStatementInEveryReading
  BY GateInvariant, GateInvMeans, PTL

\* A text that WrapInLimit encloses ends, in every reading, in a ")" that is
\* code, has no ";" in front of it, and is otherwise the statement, with nothing
\* lost (sql_scope.py, single_statement_body).
THEOREM WrapEnds == Spec => []WrapEndsInCode
  BY GateInvariant, WrapsInCode, PTL

\* A text with two members of a set is not one with one at most.
LEMMA TwoMembers ==
  ASSUME NEW S, IsFiniteSet(S), NEW a \in S, NEW b \in S, a # b
  PROVE  ~(Cardinality(S) <= 1)
  <1>1. /\ IsFiniteSet({a}) /\ Cardinality({a}) = 1
        /\ IsFiniteSet({a} \cup {b}) /\ Cardinality({a} \cup {b}) = Cardinality({a}) + 1
    BY FS_Singleton, FS_AddElement
  <1>2. Cardinality({a} \cup {b}) <= Cardinality(S)
    BY FS_Subset
  <1>3. Cardinality(S) \in Nat
    BY FS_CardinalityType
  <1> QED
    BY <1>1, <1>2, <1>3

\* Without a backslash there is one way to read the body of a literal.
LEMMA NoBackslashNoEscape ==
  ASSUME NEW s \in Seq(Symbols), NEW body \in Nat \ {0}, NEW delimiter \in Delimiters,
         NEW protects \in BOOLEAN, \A k \in 1..Len(s) : s[k] # "backslash"
  PROVE  BodyEndAs(s, body, delimiter, protects) = UnescapedLiteralEnd(s, body, delimiter)
  <1>1. PICK f :
           /\ BodyEndAs(s, body, delimiter, protects) = f[body]
           /\ \A j \in Nat : f[j] =
                IF j > Len(s) THEN Refused
                ELSE IF (protects /\ s[j] = "backslash") \/ Doubled(s, j, delimiter) THEN f[j + 2]
                ELSE IF At(s, j, delimiter) THEN j + Len(delimiter) ELSE f[j + 1]
    BY BodyEndTurns
  <1>2. PICK g :
           /\ UnescapedLiteralEnd(s, body, delimiter) = g[body]
           /\ \A j \in Nat : g[j] =
                IF j > Len(s) THEN Refused
                ELSE IF ~At(s, j, delimiter) THEN g[j + 1]
                ELSE IF BehindBackslash(s, body, j) THEN Refused
                ELSE IF Doubled(s, j, delimiter) THEN g[j + 2] ELSE j + Len(delimiter)
    BY UnescapedTurns
  <1> DEFINE G == {j \in Nat : j >= body => f[j] = g[j]}
  <1>3. Len(s) \in Nat /\ body \in Nat /\ body >= 1
    OBVIOUS
  <1>4. ASSUME NEW j \in Nat, j > Len(s) PROVE j \in G
    BY <1>1, <1>2, <1>4
  <1>5. ASSUME NEW j \in Nat, j <= Len(s), \A k \in Nat : k > j => k \in G PROVE j \in G
    <2> SUFFICES ASSUME j >= body PROVE f[j] = g[j]
      OBVIOUS
    <2>1. f[j + 1] = g[j + 1] /\ f[j + 2] = g[j + 2]
      <3>1. j + 1 \in G /\ j + 2 \in G
        BY <1>5
      <3> QED
        BY <1>3, <3>1
    <2>2. ~BehindBackslash(s, body, j)
      <3>1. CASE j = body
        BY <3>1, BackslashRun
      <3>2. CASE j # body
        <4>1. j - 1 \in Nat /\ j - 1 >= body /\ j - 1 \in 1..Len(s) /\ (j - 1) + 1 = j
          BY <1>3, <1>5, <3>2
        <4>2. s[j - 1] # "backslash"
          BY <4>1
        <4>3. ~BehindBackslash(s, body, (j - 1) + 1)
          BY <4>1, <4>2, BackslashRun
        <4> QED
          BY <4>1, <4>3
      <3> QED
        BY <3>1, <3>2
    <2>3. s[j] # "backslash" /\ ~(j > Len(s)) /\ j \in Nat \ {0}
      BY <1>3, <1>5
    <2>4. Doubled(s, j, delimiter) => At(s, j, delimiter)
      BY <2>3, DoubledAt
    <2>5. f[j] = IF Doubled(s, j, delimiter) THEN f[j + 2]
                 ELSE IF At(s, j, delimiter) THEN j + Len(delimiter) ELSE f[j + 1]
      BY Zenon, <1>1, <2>3
    <2>6. g[j] = IF ~At(s, j, delimiter) THEN g[j + 1]
                 ELSE IF Doubled(s, j, delimiter) THEN g[j + 2] ELSE j + Len(delimiter)
      BY Zenon, <1>2, <2>2, <2>3
    <2> QED
      BY Zenon, <2>1, <2>4, <2>5, <2>6
  <1>6. body \in G
    <2> HIDE DEF G
    <2> QED
      BY <1>3, <1>4, <1>5, FromTheEnd
  <1> QED
    BY <1>1, <1>2, <1>3, <1>6

\* A text in which the gate has nothing to be uncertain of.
IsPlain(s) ==
  \A k \in DOMAIN s :
    /\ s[k] \notin {"backslash", "CR", "SEP"}
    /\ s[k] \in {"quote", "dquote", "$$"} => PrefixBefore(s, k) = <<>>

\* There, a quote that the gate refuses is not closed.
LEMMA PlainQuoted ==
  ASSUME NEW engine \in Engines, NEW s \in Seq(Symbols), IsPlain(s), NEW i \in 1..Len(s),
         NEW r, IsReading(r), s[i] \in {"quote", "dquote"}
  PROVE  LiteralEndAs(s, i, Dialects[engine], r) = QuotedEnd(s, i, Dialects[engine])
  <1> DEFINE d         == Dialects[engine]
             quote     == s[i]
             prefix    == PrefixBefore(s, i)
             three     == <<quote, quote, quote>>
             delimiter == IF d.triple /\ At(s, i, three) THEN three ELSE <<quote>>
             body      == i + Len(delimiter)
             cooked    == \/ prefix = <<>> /\ (quote = "quote" \/ d.quoteIsString)
                          \/ prefix \in d.cooked
             plain     == \/ prefix = <<>> /\ quote = "dquote" /\ ~d.quoteIsString
                          \/ prefix \in d.raw
                          \/ prefix \in d.hex /\ delimiter = <<"quote">>
             delimiterAs == IF s[i] \in {"quote", "dquote"} /\ d.triple /\ At(s, i, three)
                            THEN three ELSE <<s[i]>>
             cookedAs == \/ prefix \in d.cooked
                         \/ prefix = <<>> /\ s[i] = "quote"
                         \/ prefix = <<>> /\ s[i] = "dquote" /\ d.quoteIsString
             unescaped == UnescapedLiteralEnd(s, body, delimiter)
  <1>1. QuotedEnd(s, i, d) =
          CASE cooked -> EscapedLiteralEnd(s, body, delimiter)
            [] plain  -> UnescapedLiteralEnd(s, body, delimiter)
            [] OTHER  -> Refused
    BY Zenon DEF QuotedEnd
  <1>2. LiteralEndAs(s, i, d, r) =
          BodyEndAs(s, i + Len(delimiterAs), delimiterAs, cookedAs \/ r.escapes)
    BY Zenon DEF LiteralEndAs
  <1>3. delimiterAs = delimiter /\ cooked \in BOOLEAN /\ cookedAs \in BOOLEAN
    BY DEF delimiterAs
  <1>4. delimiter \in Delimiters
    BY DEF Delimiters, Quotes
  <1>5. body \in Nat \ {0}
    BY <1>4, DelimiterLength
  <1>6. prefix = <<>> /\ \A k \in 1..Len(s) : s[k] # "backslash"
    BY DEF IsPlain
  <1>7. (cookedAs \/ r.escapes) \in BOOLEAN
    BY DEF IsReading
  <1>8. cooked \/ plain
    BY <1>6
  <1>9. ~(cooked /\ plain)
    <2>1. ~(prefix \in d.cooked /\ prefix \in d.raw \cup d.hex) /\ <<>> \notin d.cooked \cup d.raw \cup d.hex
      BY PrefixFacts
    <2> HIDE DEF d, prefix, delimiter
    <2> QED
      BY <2>1
  <1> HIDE DEF delimiter, delimiterAs, cooked, cookedAs, plain, d, body
  <1>10. \A protects \in BOOLEAN : BodyEndAs(s, body, delimiter, protects) = unescaped
    BY <1>4, <1>5, <1>6, NoBackslashNoEscape
  <1> HIDE DEF unescaped
  <1>11. QuotedEnd(s, i, d) = unescaped
    <2>1. CASE cooked
      <3>1. QuotedEnd(s, i, d) = EscapedLiteralEnd(s, body, delimiter)
        BY Zenon, <1>1, <1>9, <2>1
      <3>2. QuotedEnd(s, i, d) = BodyEndAs(s, body, delimiter, TRUE)
        BY Zenon, <3>1, EscapedIsProtected
      <3> QED
        BY <1>10, <3>2
    <2>2. CASE ~cooked
      BY Zenon, <1>1, <1>8, <2>2 DEF unescaped
    <2> QED
      BY <2>1, <2>2
  <1>12. LiteralEndAs(s, i, d, r) = unescaped
    <2>1. LiteralEndAs(s, i, d, r) = BodyEndAs(s, body, delimiter, cookedAs \/ r.escapes)
      BY Zenon, <1>2, <1>3 DEF body
    <2> HIDE DEF cookedAs
    <2> QED
      BY Zenon, <1>7, <1>10, <2>1
  <1> QED
    BY <1>11, <1>12 DEF d

\* So for every literal.
LEMMA PlainLiteral ==
  ASSUME NEW engine \in Engines, NEW s \in Seq(Symbols), IsPlain(s), NEW i \in 1..Len(s),
         NEW r, IsReading(r), LiteralEnd(s, i, Dialects[engine]) = Refused
  PROVE  LexemeAt(s, i, Dialects[engine], r).kind = "open"
  <1> DEFINE d == Dialects[engine]
  <1>1. ASSUME OpensLiteral(s, i, d), LiteralEndAs(s, i, d, r) = Refused
        PROVE  LexemeAt(s, i, d, r).kind = "open"
    <2>1. LexemeAt(s, i, d, r) = Lexeme(s, "literal", i, Refused)
      BY Zenon, <1>1, LexemeOfLiteral
    <2> HIDE DEF d
    <2> QED
      BY <2>1 DEF Lexeme
  <1>2. ASSUME s[i] \in {"backtick", "$$"}, OpensLiteral(s, i, d),
               LiteralEnd(s, i, d) = UnescapedLiteralEnd(s, i + 1, <<s[i]>>)
        PROVE  LiteralEndAs(s, i, d, r) = Refused
    <2>1. PICK delimiter \in Delimiters, protects \in BOOLEAN :
            /\ LiteralEndAs(s, i, d, r) = BodyEndAs(s, i + Len(delimiter), delimiter, protects)
            /\ s[i] \notin {"quote", "dquote"} => delimiter = <<s[i]>>
      BY <1>2, DelimiterOfLiteral DEF IsReading
    <2>2. delimiter = <<s[i]>> /\ Len(delimiter) = 1
      BY <1>2, <2>1
    <2>3. i + 1 \in Nat \ {0} /\ \A k \in 1..Len(s) : s[k] # "backslash"
      BY DEF IsPlain
    <2>4. BodyEndAs(s, i + 1, delimiter, protects) = UnescapedLiteralEnd(s, i + 1, delimiter)
      BY <2>3, NoBackslashNoEscape
    <2> QED
      BY <1>2, <2>1, <2>2, <2>4
  <1>3. CASE s[i] \in {"quote", "dquote"}
    <2>1. LiteralEnd(s, i, d) = QuotedEnd(s, i, d)
      BY Zenon, <1>3 DEF LiteralEnd
    <2>2. LiteralEndAs(s, i, d, r) = Refused
      BY <1>3, <2>1, PlainQuoted
    <2>3. OpensLiteral(s, i, d)
      BY <1>3 DEF OpensLiteral
    <2> QED
      BY <1>1, <2>2, <2>3
  <1>4. CASE s[i] = "backtick" /\ d.backtick
    <2>1. LiteralEnd(s, i, d) = UnescapedLiteralEnd(s, i + 1, <<"backtick">>)
      <3>1. s[i] \notin {"quote", "dquote"}
        BY <1>4
      <3> QED
        BY Zenon, <1>4, <3>1 DEF LiteralEnd
    <2>2. OpensLiteral(s, i, d)
      BY <1>4 DEF OpensLiteral
    <2> QED
      BY <1>1, <1>2, <1>4, <2>1, <2>2
  <1>5. CASE s[i] = "$$" /\ d.dollar
    <2>1. LiteralEnd(s, i, d) = IF PrefixBefore(s, i) # <<>> THEN Refused
                                ELSE UnescapedLiteralEnd(s, i + 1, <<"$$">>)
      <3>1. s[i] \notin {"quote", "dquote"} /\ ~(s[i] = "backtick" /\ d.backtick)
        BY <1>5
      <3> QED
        BY Zenon, <1>5, <3>1 DEF LiteralEnd
    <2>2. OpensLiteral(s, i, d)
      BY <1>5 DEF OpensLiteral
    <2>3. PrefixBefore(s, i) = <<>>
      BY <1>5 DEF IsPlain
    <2> QED
      BY <1>1, <1>2, <1>5, <2>1, <2>2, <2>3
  <1>6. CASE /\ s[i] \notin {"quote", "dquote"}
             /\ ~(s[i] = "backtick" /\ d.backtick)
             /\ ~(s[i] = "$$" /\ d.dollar)
    <2>1. LiteralEnd(s, i, d) = None
      BY Zenon, <1>6 DEF LiteralEnd
    <2> QED
      BY <2>1 DEF None, Refused
  <1> QED
    BY <1>3, <1>4, <1>5, <1>6

\* The reading that has no peculiarities, which every text has.
PlainReading(d) ==
  [ends |-> d.terminators, continues |-> FALSE, nests |-> FALSE, escapes |-> FALSE]

\* It is one of the readings an engine may have.
LEMMA PlainIsReading ==
  ASSUME NEW s, NEW d
  PROVE  PlainReading(d) \in Readings(s, d)
  <1>1. [ends |-> d.terminators \cup {}, continues |-> FALSE, nests |-> FALSE,
         escapes |-> FALSE] \in Readings(s, d)
    BY DEF Readings
  <1>2. d.terminators \cup {} = d.terminators
    OBVIOUS
  <1> QED
    BY Zenon, <1>1, <1>2 DEF PlainReading

\* In a plain text no line comment is refused.
LEMMA PlainLineComment ==
  ASSUME NEW engine \in Engines, NEW s \in Seq(Symbols), IsPlain(s), NEW i \in 1..Len(s),
         s[i] \in {"--", "#", "//"}
  PROVE  LineCommentEnd(s, i, Dialects[engine]) # Refused
  <1> DEFINE d      == Dialects[engine]
             ends   == {j \in i..Len(s) : s[j] \in d.terminators}
             last   == IF ends = {} THEN Len(s) ELSE Min(ends)
             before == IF s[last] = "LF" /\ s[last - 1] = "CR" THEN last - 2 ELSE last - 1
             bareCR == {j \in i..last : s[j] = "CR" /\ (j = last \/ s[j + 1] # "LF")}
             refuses == \/ \E j \in i..last : s[j] = "SEP"
                        \/ "CR" \notin d.terminators /\ bareCR # {}
                        \/ ends # {} /\ before > i /\ s[before] = "backslash"
  <1>1. LineCommentEnd(s, i, d) = IF refuses THEN Refused ELSE last + 1
    BY Zenon DEF LineCommentEnd
  <1>2. last \in i..Len(s) /\ last \in Nat
    <2>1. CASE ends = {}
      BY <2>1
    <2>2. CASE ends # {}
      <3>1. ends \in SUBSET Nat
        OBVIOUS
      <3>2. Min(ends) \in ends
        <4> HIDE DEF ends
        <4> QED
          BY <2>2, <3>1, MinOfPositions
      <3> QED
        BY <2>2, <3>2
    <2> QED
      BY <2>1, <2>2
  <1>3. \A k \in 1..Len(s) : s[k] # "backslash" /\ s[k] # "CR" /\ s[k] # "SEP"
    BY DEF IsPlain
  <1> HIDE DEF last, ends, d
  <1>4. \A k \in i..last : k \in 1..Len(s)
    BY <1>2
  <1>5. before > i => before \in 1..Len(s)
    BY <1>2
  <1>6. bareCR = {}
    BY <1>3, <1>4
  <1>7. ~refuses
    <2> HIDE DEF before, bareCR
    <2> QED
      BY <1>3, <1>4, <1>5, <1>6
  <1> HIDE DEF refuses
  <1> QED
    BY <1>1, <1>2, <1>7 DEF Refused, d

\* Nor, with one "/*" at most, any block comment that is closed.
LEMMA PlainBlockComment ==
  ASSUME NEW s \in Seq(Symbols), NEW i \in 1..Len(s), s[i] = "/*",
         Cardinality({k \in DOMAIN s : s[k] = "/*"}) <= 1,
         NEW r, r.nests = FALSE, BlockCommentEnd(s, i) = Refused
  PROVE  BlockCommentEndAs(s, i, r) = Refused
  <1> DEFINE first     == {j \in (i + 1)..Len(s) : s[j] = "*/"}
             count(symbol, j) == Cardinality({k \in (i + 1)..j : s[k] = symbol})
             opened(j) == IF r.nests THEN 1 + count("/*", j) ELSE 1
             closes    == {j \in (i + 1)..Len(s) : count("*/", j) >= opened(j)}
             opening   == {k \in DOMAIN s : s[k] = "/*"}
  <1>1. /\ BlockCommentEnd(s, i) = IF first = {} \/ \E j \in (i + 1)..Min(first) : s[j] = "/*"
                                   THEN Refused ELSE Min(first) + 1
        /\ BlockCommentEndAs(s, i, r) = IF closes = {} THEN Refused ELSE Min(closes) + 1
    BY Zenon DEF BlockCommentEnd, BlockCommentEndAs
  <1>2. first = {}
    <2> SUFFICES ASSUME first # {} PROVE FALSE
      OBVIOUS
    <2>1. Min(first) \in (i + 1)..Len(s)
      <3>1. first \in SUBSET Nat
        OBVIOUS
      <3>2. Min(first) \in first
        <4> HIDE DEF first
        <4> QED
          BY <3>1, MinOfPositions
      <3> QED
        BY <3>2
    <2>2. ~ \E j \in (i + 1)..Min(first) : s[j] = "/*"
      <3> SUFFICES ASSUME NEW j \in (i + 1)..Min(first), s[j] = "/*" PROVE FALSE
        OBVIOUS
      <3> HIDE DEF first
      <3>1. i \in opening /\ j \in opening /\ i # j
        BY <2>1
      <3>2. IsFiniteSet(opening)
        <4>1. IsFiniteSet(1..Len(s))
          BY FS_Interval
        <4>2. opening \subseteq 1..Len(s)
          OBVIOUS
        <4> QED
          BY <4>1, <4>2, FS_Subset
      <3>3. Cardinality(opening) <= 1
        OBVIOUS
      <3> HIDE DEF opening
      <3> QED
        BY <3>1, <3>2, <3>3, TwoMembers
    <2>3. BlockCommentEnd(s, i) = Min(first) + 1
      BY Zenon, <1>1, <2>2
    <2> HIDE DEF first
    <2> QED
      BY <2>1, <2>3 DEF Refused
  <1>3. closes = {}
    <2> SUFFICES ASSUME NEW j \in (i + 1)..Len(s) PROVE ~(count("*/", j) >= opened(j))
      OBVIOUS
    <2>1. {k \in (i + 1)..j : s[k] = "*/"} = {}
      BY <1>2
    <2>2. count("*/", j) = 0
      BY <2>1, FS_EmptySet
    <2>3. opened(j) = 1
      BY Zenon
    <2> HIDE DEF count, opened
    <2> QED
      BY <2>2, <2>3
  <1> QED
    BY Zenon, <1>1, <1>3

\* What a plain text has of comments that the gate refuses is not closed.
LEMMA PlainComment ==
  ASSUME NEW engine \in Engines, NEW s \in Seq(Symbols), IsPlain(s),
         Cardinality({k \in DOMAIN s : s[k] = "/*"}) <= 1, NEW i \in 1..Len(s),
         CommentEnd(s, i, Dialects[engine]) = Refused
  PROVE  LexemeAt(s, i, Dialects[engine], PlainReading(Dialects[engine])).kind = "open"
  <1> DEFINE d == Dialects[engine]
             r == PlainReading(d)
  <1>1. s[i] \notin d.lineComments
    <2> SUFFICES ASSUME s[i] \in d.lineComments PROVE FALSE
      OBVIOUS
    <2>1. s[i] \in {"--", "#", "//"} /\ s[i] # "/*"
      BY DialectFacts
    <2>2. CommentEnd(s, i, d) = LineCommentEnd(s, i, d)
      BY Zenon, <2>1 DEF CommentEnd
    <2> QED
      BY <2>1, <2>2, PlainLineComment
  <1>2. s[i] = "/*"
    <2>1. s[i] # "/*" => CommentEnd(s, i, d) = None
      BY Zenon, <1>1 DEF CommentEnd
    <2> QED
      BY Zenon, <2>1, NoneIsNotRefused
  <1>3. BlockCommentEnd(s, i) = Refused
    BY Zenon, <1>1, <1>2 DEF CommentEnd
  <1>4. r.nests = FALSE
    BY DEF PlainReading
  <1>5. BlockCommentEndAs(s, i, r) = Refused
    BY <1>2, <1>3, <1>4, PlainBlockComment
  <1>6. LexemeAt(s, i, d, r) = Lexeme(s, "comment", i, Refused)
    BY <1>2, <1>5, LexemeCases
  <1> HIDE DEF d, r
  <1>7. LexemeAt(s, i, d, r).kind = "open"
    BY <1>6 DEF Lexeme
  <1> QED
    BY <1>7 DEF d, r

\* Lexemes start in the text.
LEMMA LexemesInside ==
  ASSUME NEW engine \in Engines, NEW s \in Seq(Symbols), NEW r, IsReading(r), NEW i \in Positions
  PROVE  \A l \in LexemesFrom(s, i, Dialects[engine], r) : l.first \in 1..Len(s)
  <1> DEFINE d == Dialects[engine]
             G == {j \in Nat : j \in Positions =>
                     \A l \in LexemesFrom(s, j, d, r) : l.first \in 1..Len(s)}
  <1>1. ASSUME NEW j \in Nat, j > Len(s) PROVE j \in G
    BY <1>1, LexemesTurns
  <1>2. ASSUME NEW j \in Nat, j <= Len(s), \A k \in Nat : k > j => k \in G PROVE j \in G
    <2> SUFFICES ASSUME j \in Positions
                 PROVE  \A l \in LexemesFrom(s, j, d, r) : l.first \in 1..Len(s)
      OBVIOUS
    <2> DEFINE l == LexemeAt(s, j, d, r)
    <2>1. j \in 1..Len(s) /\ ~(j > Len(s))
      BY <1>2 DEF Positions
    <2>2. l.first = j /\ l.last \in Nat /\ l.last >= j
      BY <2>1, LexemeType DEF AllLexemes
    <2>3. LexemesFrom(s, j, d, r) = {l} \cup LexemesFrom(s, l.last + 1, d, r)
      BY Zenon, <2>1, LexemesTurns
    <2> HIDE DEF l, d
    <2>4. l.last + 1 \in Nat /\ l.last + 1 > j /\ l.last + 1 \in Positions
      BY <2>2 DEF Positions
    <2>5. \A m \in LexemesFrom(s, l.last + 1, d, r) : m.first \in 1..Len(s)
      BY <1>2, <2>4
    <2> QED
      BY <2>1, <2>2, <2>3, <2>5
  <1>3. i \in G
    <2> HIDE DEF G
    <2>1. Len(s) \in Nat /\ i \in Nat
      BY DEF Positions
    <2> QED
      BY <1>1, <1>2, <2>1, FromTheEnd
  <1> QED
    BY <1>3

\* What the scan has at a position it refuses the text for.
RefusedAt(s, d, i, ended) ==
  /\ i \in 1..Len(s)
  /\ \/ CommentEnd(s, i, d) = Refused
     \/ /\ CommentEnd(s, i, d) = None /\ s[i] \notin Spaces
        /\ ended \/ (s[i] # ";" /\ LiteralEnd(s, i, d) = Refused)

\* It does not refuse an ordinary text that is one statement.
LEMMA RefusedIsNotOrdinary ==
  ASSUME NEW engine \in Engines, NEW s \in Seq(Symbols), IsPlain(s),
         Cardinality({k \in DOMAIN s : s[k] = "/*"}) <= 1,
         NEW i, NEW ended \in BOOLEAN, RefusedAt(s, Dialects[engine], i, ended),
         NEW T, NEW Z, AgreedBefore(s, Dialects[engine], i, T, Z), Z # {} <=> ended
  PROVE  LET lexemes == Lexemes(s, Dialects[engine], PlainReading(Dialects[engine]))
         IN ~(Cardinality(Terminators(s, lexemes)) <= 1 /\ IsOneStatement(s, lexemes))
  <1> DEFINE d == Dialects[engine]
             r == PlainReading(d)
             lexemes == Lexemes(s, d, r)
             l == LexemeAt(s, i, d, r)
  <1>1. r \in Readings(s, d) /\ IsReading(r)
    <2>1. r \in Readings(s, d)
      BY PlainIsReading
    <2> HIDE DEF r
    <2> QED
      BY <2>1, ReadingFacts
  <1>2. i \in 1..Len(s) /\ i \in Positions /\ ~(i > Len(s)) /\ i \in Nat
    <2>1. i \in 1..Len(s)
      BY Zenon DEF RefusedAt
    <2> QED
      BY <2>1 DEF Positions
  <1>3. PICK P : Found(s, d, r, i, P, T, Z)
    BY <1>1 DEF AgreedBefore
  <1>4. /\ lexemes = P \cup LexemesFrom(s, i, d, r)
        /\ P \in SUBSET AllLexemes /\ \A m \in P : m.first <= m.last /\ m.last < i
        /\ Terminators(s, P) = Z
    BY <1>3 DEF Found, ReadBefore
  <1>5. l \in LexemesFrom(s, i, d, r) /\ LexemesFrom(s, i, d, r) \subseteq AllLexemes
    <2>1. LexemesFrom(s, i, d, r) = {l} \cup LexemesFrom(s, l.last + 1, d, r)
      BY Zenon, <1>1, <1>2, LexemesTurns
    <2>2. LexemesFrom(s, i, d, r) \subseteq AllLexemes
      BY Zenon, <1>1, <1>2, LexemesTurns
    <2> HIDE DEF l
    <2> QED
      BY <2>1, <2>2
  <1>6. l.first = i /\ l.last \in Nat /\ l.last >= i
    BY <1>1, <1>2, LexemeType DEF AllLexemes
  <1>7. CASE l.kind = "open"
    BY <1>4, <1>5, <1>7 DEF IsOneStatement, Closed
  <1>8. CASE l.kind # "open"
    <2>1. CommentEnd(s, i, d) = None /\ s[i] \notin Spaces /\ ended
      <3>1. CommentEnd(s, i, d) # Refused
        BY <1>2, <1>8, PlainComment
      <3>2. LiteralEnd(s, i, d) # Refused
        BY <1>1, <1>2, <1>8, PlainLiteral
      <3> QED
        BY Zenon, <3>1, <3>2 DEF RefusedAt
    <2>2. s[i] \notin d.lineComments /\ s[i] # "/*"
      BY <1>2, <2>1, NoComment
    <2>3. l.kind \in {"literal", "code"} /\ (s[i] = ";" => l.kind = "code")
      <3>1. CASE OpensLiteral(s, i, d)
        <4>1. l = Lexeme(s, "literal", i, LiteralEndAs(s, i, d, r))
          BY Zenon, <3>1, LexemeOfLiteral
        <4>2. s[i] # ";"
          BY <3>1 DEF OpensLiteral
        <4> HIDE DEF l
        <4> QED
          BY <1>8, <4>1, <4>2 DEF Lexeme
      <3>2. CASE ~OpensLiteral(s, i, d)
        <4>1. l = [kind |-> "code", first |-> i, last |-> i]
          BY ZenonT(60), <1>2, <2>1, <2>2, <3>2, CodeAt
        <4> HIDE DEF l
        <4> QED
          BY <4>1
      <3> QED
        BY <3>1, <3>2
    <2> HIDE DEF l, d, r, lexemes
    <2>4. lexemes \in SUBSET AllLexemes /\ l \in lexemes
      BY <1>4, <1>5
    <2>5. PICK t : t \in Z
      BY <2>1
    <2>6. \E m \in P : m.kind = "code" /\ s[m.first] = ";" /\ t = m.first
      BY <1>4, <2>5 DEF Terminators
    <2>7. t \in Nat /\ t < i /\ t \in Terminators(s, lexemes)
      <3>1. PICK m \in P : m.kind = "code" /\ s[m.first] = ";" /\ t = m.first
        BY <2>6
      <3>2. m \in AllLexemes /\ m.first <= m.last /\ m.last < i /\ m \in lexemes
        BY <1>4, <3>1
      <3>3. m.first \in Nat /\ m.last \in Nat
        BY <3>2 DEF AllLexemes, Positions
      <3>4. t \in Nat /\ t < i
        <4>1. m.first <= m.last /\ m.last < i /\ t = m.first /\ i \in Nat
          BY <1>2, <3>1, <3>2
        <4> QED
          BY <3>3, <4>1
      <3> QED
        BY <2>4, <3>1, <3>2, <3>4, SubstanceMembers
    <2>8. CASE s[i] = ";"
      <3>1. i \in Terminators(s, lexemes)
        BY <1>6, <2>3, <2>4, <2>8, SubstanceMembers
      <3>2. IsFiniteSet(Terminators(s, lexemes))
        <4>1. \A m \in lexemes : m.first \in 1..Len(s)
          <5>1. lexemes = LexemesFrom(s, 1, d, r) /\ 1 \in Positions
            BY DEF Lexemes, Positions, lexemes
          <5> QED
            BY <1>1, <5>1, LexemesInside DEF d
        <4>2. Terminators(s, lexemes) \subseteq 1..Len(s)
          BY <4>1 DEF Terminators
        <4>3. IsFiniteSet(1..Len(s))
          BY FS_Interval
        <4> QED
          BY <4>2, <4>3, FS_Subset
      <3>3. i # t
        BY <1>2, <2>7
      <3> QED
        BY <2>7, <3>1, <3>2, <3>3, TwoMembers DEF lexemes, r, d
    <2>9. CASE s[i] # ";"
      <3>1. i \in l.first..l.last /\ l.kind \in SubstanceKinds
        <4>1. i \in Nat /\ l.first = i /\ l.last \in Nat /\ l.last >= i
          BY <1>2, <1>6
        <4>2. i \in l.first..l.last
          BY <4>1
        <4> QED
          BY <2>3, <4>2 DEF SubstanceKinds
      <3>2. i \notin Terminators(s, lexemes)
        BY <2>9 DEF Terminators
      <3>3. i \in Substance(s, lexemes)
        BY <2>4, <3>1, <3>2, SubstanceMembers
      <3>4. ~(i < t)
        BY <1>2, <2>7
      <3> QED
        BY <2>7, <3>3, <3>4 DEF IsOneStatement, lexemes, r, d
    <2> QED
      BY <2>8, <2>9
  <1> QED
    BY <1>7, <1>8

-----------------------------------------------------------------------------
(***************************************************************************)
(* What a refusal rests on.                                                  *)
(***************************************************************************)
RefusalInv ==
  /\ end = Refused =>
       \E T \in SUBSET Nat, Z \in SUBSET Nat :
         /\ AgreedBefore(sql, dialect, index, T, Z)
         /\ Z # {} <=> seen
         /\ RefusedAt(sql, dialect, index, seen)
  /\ answer = "notSingle" => pc = "done" /\ end \in {None, Refused}

\* Nothing is refused yet.
LEMMA RefusalInvInit == Init => RefusalInv
  BY NoneIsNotRefused DEF Init, RefusalInv

\* Only ScanRefuses gives the text up, and nothing moves after it.
LEMMA RefusalInvStep == GateInv /\ RefusalInv /\ [Next]_vars => RefusalInv'
  <1> SUFFICES ASSUME GateInv, RefusalInv, [Next]_vars PROVE RefusalInv'
    OBVIOUS
  <1>1. ASSUME Scanning, answer' = answer, end' # Refused PROVE RefusalInv'
    <2>1. answer = "none"
      BY <1>1, ScanFacts
    <2> QED
      BY <1>1, <2>1 DEF RefusalInv
  <1>2. ASSUME Scanning PROVE end # Refused /\ index \in Nat /\ index + 1 # Refused
    <2>1. end # Refused
      BY <1>2 DEF GateInv, Scanning
    <2>2. index \in Nat
      BY <1>2, ScanFacts
    <2> QED
      BY <2>1, <2>2 DEF Refused
  <1>3. CASE SkipComment
    BY <1>1, <1>2, <1>3 DEF SkipComment
  <1>4. CASE SkipSpace
    BY <1>1, <1>2, <1>4 DEF SkipSpace
  <1>5. CASE Terminator
    BY <1>1, <1>2, <1>5 DEF Terminator, Significant
  <1>6. CASE TakeLiteral
    BY <1>1, <1>6 DEF TakeLiteral, Significant
  <1>7. CASE TakeSymbol
    BY <1>1, <1>2, <1>7 DEF TakeSymbol, Significant
  <1>8. CASE ScanRefuses
    <2>1. Scanning /\ UNCHANGED <<request, index, seen, answer>>
      BY <1>8 DEF ScanRefuses
    <2>2. PICK T \in SUBSET Nat, Z \in SUBSET Nat :
            AgreedBefore(sql, dialect, index, T, Z) /\ (Z # {} <=> seen)
      BY <2>1, ScanFacts DEF Agreement
    <2>3. RefusedAt(sql, dialect, index, seen)
      <3>1. index \in 1..Len(sql)
        BY <2>1, ScanFacts
      <3> QED
        BY Zenon, <1>8, <3>1 DEF ScanRefuses, RefusedAt, Significant, Comment, Literal
    <2>4. sql' = sql /\ dialect' = dialect
      BY <2>1 DEF sql, dialect
    <2>5. /\ AgreedBefore(sql', dialect', index', T, Z)
          /\ Z # {} <=> seen'
          /\ RefusedAt(sql', dialect', index', seen')
      BY <2>1, <2>2, <2>3, <2>4
    <2>6. answer' = "none"
      BY <2>1, ScanFacts
    <2> QED
      BY <2>5, <2>6 DEF RefusalInv
  <1>9. CASE ScanEnds
    <2>1. end # Refused /\ answer = "none" /\ UNCHANGED <<end, answer>>
      BY <1>9 DEF ScanEnds, GateInv
    <2> QED
      BY <2>1 DEF RefusalInv
  <1>10. ASSUME UNCHANGED <<request, index, seen, end>>
         PROVE  end' = Refused =>
                  \E T \in SUBSET Nat, Z \in SUBSET Nat :
                    /\ AgreedBefore(sql', dialect', index', T, Z)
                    /\ Z # {} <=> seen'
                    /\ RefusedAt(sql', dialect', index', seen')
    <2>1. sql' = sql /\ dialect' = dialect /\ index' = index /\ seen' = seen /\ end' = end
      BY <1>10 DEF sql, dialect
    <2> QED
      BY <2>1 DEF RefusalInv
  <1>11. CASE AssertSingleStatement
    <2>1. answer' = "notSingle" => pc' = "done" /\ end' \in {None, Refused}
      BY <1>11 DEF AssertSingleStatement, GateInv, IsSingleStatement
    <2> QED
      BY Zenon, <1>10, <1>11, <2>1 DEF RefusalInv, AssertSingleStatement
  <1>12. CASE AssertReadStatement
    <2>1. answer' # "notSingle"
      BY <1>12 DEF AssertReadStatement, GateInv
    <2> QED
      BY Zenon, <1>10, <1>12, <2>1 DEF RefusalInv, AssertReadStatement
  <1>13. CASE WrapInLimit
    <2>1. answer' # "notSingle"
      BY <1>13 DEF WrapInLimit
    <2> QED
      BY Zenon, <1>10, <1>13, <2>1 DEF RefusalInv, WrapInLimit
  <1>14. CASE UNCHANGED vars
    BY Zenon, <1>10, <1>14 DEF RefusalInv, vars
  <1> QED
    BY <1>3, <1>4, <1>5, <1>6, <1>7, <1>8, <1>9, <1>11, <1>12, <1>13, <1>14 DEF Next

\* A text refused as no single statement is not an ordinary one.
LEMMA RefusalIsRight == GateInv /\ RefusalInv => OrdinaryTextPasses
  <1> SUFFICES ASSUME GateInv, RefusalInv, answer = "notSingle" PROVE OrdinaryTextPasses
    BY DEF OrdinaryTextPasses
  <1> DEFINE lexemes == Lexemes(sql, dialect, PlainReading(dialect))
  <1>1. request.engine \in Engines /\ sql \in Seq(Symbols) /\ seen \in BOOLEAN
    BY DEF GateInv
  <1>2. pc # "scan" /\ (end = None \/ end = Refused)
    BY DEF RefusalInv
  <1>3. CASE end = None
    <2>1. end # Refused
      BY Zenon, <1>3, NoneIsNotRefused
    <2>2. PICK T \in SUBSET Nat, Z \in SUBSET Nat :
            AgreedBefore(sql, dialect, index, T, Z) /\ T = {}
      BY <1>3, <2>1 DEF GateInv, Agreement
    <2>3. Substance(sql, lexemes) = {}
      BY <1>2, <2>1, <2>2, PlainIsReading, WholeText
    <2> QED
      BY Zenon, <2>3 DEF OrdinaryTextPasses, IsOneStatement, PlainReading
  <1>4. CASE end = Refused
    <2>1. PICK T \in SUBSET Nat, Z \in SUBSET Nat :
            /\ AgreedBefore(sql, dialect, index, T, Z)
            /\ Z # {} <=> seen
            /\ RefusedAt(sql, dialect, index, seen)
      BY <1>4 DEF RefusalInv
    <2>2. IsPlain(sql) /\ Cardinality({k \in DOMAIN sql : sql[k] = "/*"}) <= 1
          => ~(Cardinality(Terminators(sql, lexemes)) <= 1 /\ IsOneStatement(sql, lexemes))
      BY <1>1, <2>1, RefusedIsNotOrdinary DEF dialect
    <2> QED
      BY Zenon, <2>2 DEF OrdinaryTextPasses, IsPlain, PlainReading
  <1> QED
    BY <1>2, <1>3, <1>4

\* An ordinary text that is one statement passes.
THEOREM OrdinaryPasses == Spec => []OrdinaryTextPasses
  BY GateInvariant, RefusalInvInit, RefusalInvStep, RefusalIsRight, PTL DEF Spec

-----------------------------------------------------------------------------
(***************************************************************************)
(* The lexer on a slice of a text, and the walks of the read gate.           *)
(***************************************************************************)

\* Of a set that is moved, the least member moves along.
LEMMA MinMoves ==
  ASSUME NEW B \in SUBSET Nat, NEW a \in B, \A y \in B : a <= y
  PROVE  Min(B) = a
  <1>1. Min(B) \in B /\ \A y \in B : Min(B) <= y
    BY MinOfPositions
  <1>2. Min(B) \in Nat /\ a \in Nat /\ Min(B) <= a /\ a <= Min(B)
    BY <1>1
  <1> HIDE DEF Min
  <1> QED
    BY <1>2

\* A slice, symbol by symbol.
IsSlice(u, s, k, m) ==
  /\ u \in Seq(Symbols) /\ s \in Seq(Symbols)
  /\ k \in Nat /\ m \in Nat /\ k <= m /\ m <= Len(s) /\ Len(u) = m - k
  /\ \A j \in (k + 1)..m : u[j - k] = s[j]
  /\ \A j \in 1..(m - k) : u[j] = s[j + k]

\* What SubSeq gives is one.
LEMMA SubSeqIsSlice ==
  ASSUME NEW s \in Seq(Symbols), NEW k \in Nat, NEW m \in Nat, k <= m, m <= Len(s)
  PROVE  IsSlice(SubSeq(s, k + 1, m), s, k, m)
  <1> DEFINE u == SubSeq(s, k + 1, m)
  <1>1. u \in Seq(Symbols) /\ Len(u) = m - k /\ \A j \in 1..(m - k) : u[j] = s[j + k]
    OBVIOUS
  <1> HIDE DEF u
  <1>2. \A j \in (k + 1)..m : u[j - k] = s[j]
    <2> SUFFICES ASSUME NEW j \in (k + 1)..m PROVE u[j - k] = s[j]
      OBVIOUS
    <2>1. j - k \in 1..(m - k) /\ (j - k) + k = j
      OBVIOUS
    <2> QED
      BY <1>1, <2>1
  <1> QED
    BY <1>1, <1>2 DEF IsSlice, u

\* A line comment that ends in the slice ends there in it.
LEMMA LineCommentSliced ==
  ASSUME NEW engine \in Engines, NEW s, NEW u, NEW k, NEW m, IsSlice(u, s, k, m),
         NEW i \in (k + 1)..m, s[i] \in {"--", "#", "//"},
         LineCommentEnd(s, i, Dialects[engine]) # Refused,
         LineCommentEnd(s, i, Dialects[engine]) <= m + 1
  PROVE  LineCommentEnd(u, i - k, Dialects[engine]) = LineCommentEnd(s, i, Dialects[engine]) - k
  <1> DEFINE d      == Dialects[engine]
             ends   == {j \in i..Len(s) : s[j] \in d.terminators}
             last   == IF ends = {} THEN Len(s) ELSE Min(ends)
             before == IF s[last] = "LF" /\ s[last - 1] = "CR" THEN last - 2 ELSE last - 1
             bareCR == {j \in i..last : s[j] = "CR" /\ (j = last \/ s[j + 1] # "LF")}
             refuses == \/ \E j \in i..last : s[j] = "SEP"
                        \/ "CR" \notin d.terminators /\ bareCR # {}
                        \/ ends # {} /\ before > i /\ s[before] = "backslash"
             endsU   == {j \in (i - k)..Len(u) : u[j] \in d.terminators}
             lastU   == IF endsU = {} THEN Len(u) ELSE Min(endsU)
             beforeU == IF u[lastU] = "LF" /\ u[lastU - 1] = "CR" THEN lastU - 2 ELSE lastU - 1
             bareU   == {j \in (i - k)..lastU : u[j] = "CR" /\ (j = lastU \/ u[j + 1] # "LF")}
             refusesU == \/ \E j \in (i - k)..lastU : u[j] = "SEP"
                         \/ "CR" \notin d.terminators /\ bareU # {}
                         \/ endsU # {} /\ beforeU > i - k /\ u[beforeU] = "backslash"
  <1>1. LineCommentEnd(s, i, d) = IF refuses THEN Refused ELSE last + 1
    BY Zenon DEF LineCommentEnd
  <1>2. LineCommentEnd(u, i - k, d) = IF refusesU THEN Refused ELSE lastU + 1
    BY Zenon DEF LineCommentEnd
  <1>3. /\ k \in Nat /\ m \in Nat /\ i \in Nat /\ k < i /\ i <= m /\ m <= Len(s)
        /\ Len(s) \in Nat /\ Len(u) = m - k
    BY DEF IsSlice
  <1>4. \A j \in (k + 1)..m : u[j - k] = s[j]
    BY DEF IsSlice
  <1>5. \A j \in 1..(m - k) : u[j] = s[j + k]
    BY DEF IsSlice
  <1>6. s[i] \notin d.terminators /\ s[i] # "LF"
    BY DialectFacts
  <1>7. ~refuses /\ last + 1 <= m + 1
    BY <1>1
  <1>8. /\ last \in Nat /\ i <= last /\ last <= m
        /\ ends # {} => last \in ends /\ \A y \in ends : last <= y
    <2>1. CASE ends = {}
      BY <1>3, <1>7, <2>1
    <2>2. CASE ends # {}
      <3>1. ends \in SUBSET Nat
        BY <1>3
      <3>2. Min(ends) \in ends /\ \A y \in ends : Min(ends) <= y
        <4> HIDE DEF ends
        <4> QED
          BY <2>2, <3>1, MinOfPositions
      <3>3. last = Min(ends)
        BY <2>2
      <3>4. last \in Nat /\ i <= last
        BY <1>3, <3>2, <3>3
      <3>5. last <= m
        <4> HIDE DEF last
        <4> QED
          BY <1>3, <1>7, <3>4
      <3> QED
        BY <3>2, <3>3, <3>4, <3>5
    <2> QED
      BY <2>1, <2>2
  <1>9. ends = {} => last = m
    <2>1. ends = {} => last = Len(s)
      OBVIOUS
    <2> HIDE DEF last, ends
    <2> QED
      BY <1>3, <1>8, <2>1
  <1> HIDE DEF last
  <1>10. endsU = {} <=> ends = {}
    <2>1. ASSUME ends = {}, NEW j \in endsU PROVE FALSE
      <3>1. j \in (i - k)..(m - k) /\ u[j] \in d.terminators
        BY <1>3
      <3>2. j \in 1..(m - k) /\ j + k \in i..Len(s)
        BY <1>3, <3>1
      <3> QED
        BY <1>5, <2>1, <3>1, <3>2
    <2>2. ASSUME ends # {} PROVE last - k \in endsU
      <3>1. last \in ends
        BY <1>8, <2>2
      <3>2. last - k \in (i - k)..Len(u) /\ last \in (k + 1)..m
        BY <1>3, <1>8
      <3>3. s[last] \in d.terminators
        BY <3>1
      <3> QED
        BY <1>4, <3>2, <3>3
    <2> HIDE DEF ends, endsU
    <2> QED
      BY <2>1, <2>2
  <1>11. lastU = last - k
    <2>1. CASE ends = {}
      BY <1>3, <1>9, <1>10, <2>1
    <2>2. CASE ends # {}
      <3>1. last \in ends /\ \A y \in ends : last <= y
        BY <1>8, <2>2
      <3>2. last - k \in endsU
        <4>1. last - k \in (i - k)..Len(u) /\ last \in (k + 1)..m
          BY <1>3, <1>8
        <4>2. s[last] \in d.terminators
          BY <3>1
        <4> QED
          BY <1>4, <4>1, <4>2
      <3>3. ASSUME NEW y \in endsU PROVE last - k <= y
        <4>1. y \in 1..(m - k) /\ y + k \in i..Len(s) /\ u[y] \in d.terminators /\ y \in Nat
          BY <1>3
        <4>2. y + k \in ends
          BY <1>5, <4>1
        <4>3. last <= y + k
          BY <3>1, <4>2
        <4> HIDE DEF ends
        <4> QED
          BY <1>3, <1>8, <4>1, <4>3
      <3>4. endsU \in SUBSET Nat
        BY <1>3
      <3>5. Min(endsU) = last - k
        <4> HIDE DEF endsU, ends
        <4> QED
          BY <3>2, <3>3, <3>4, MinMoves
      <3>6. endsU # {}
        BY <1>10, <2>2
      <3> HIDE DEF endsU
      <3> QED
        BY <3>5, <3>6
    <2> QED
      BY <2>1, <2>2
  <1> HIDE DEF lastU
  <1>12. \A j \in i..last : u[j - k] = s[j]
    BY <1>3, <1>4, <1>8
  <1>13. \A j \in (i - k)..lastU : /\ u[j] = s[j + k] /\ j + k \in i..last
                                   /\ j # lastU => u[j + 1] = s[(j + k) + 1]
                                   /\ j = lastU <=> j + k = last
    <2> SUFFICES ASSUME NEW j \in (i - k)..lastU
                 PROVE  /\ u[j] = s[j + k] /\ j + k \in i..last
                        /\ j # lastU => u[j + 1] = s[(j + k) + 1]
                        /\ j = lastU <=> j + k = last
      OBVIOUS
    <2>1. j \in 1..(m - k) /\ j + k \in i..last /\ (j = lastU <=> j + k = last)
      BY <1>3, <1>8, <1>11
    <2>2. j # lastU => j + 1 \in 1..(m - k) /\ (j + 1) + k = (j + k) + 1
      BY <1>3, <1>8, <1>11
    <2>3. u[j] = s[j + k]
      BY <1>5, <2>1
    <2>4. j # lastU => u[j + 1] = s[(j + k) + 1]
      BY <1>5, <2>2
    <2> QED
      BY <2>1, <2>3, <2>4
  <1>14. beforeU = before - k
    <2>1. u[lastU] = s[last]
      BY <1>3, <1>8, <1>11, <1>12
    <2>2. s[last] = "LF" => u[lastU - 1] = s[last - 1]
      <3> SUFFICES ASSUME s[last] = "LF" PROVE u[lastU - 1] = s[last - 1]
        OBVIOUS
      <3>1. last # i
        BY <1>6
      <3>2. last - 1 \in i..last /\ (last - 1) - k = lastU - 1
        BY <1>3, <1>8, <1>11, <3>1
      <3> QED
        BY <1>12, <3>2
    <2>3. (u[lastU] = "LF" /\ u[lastU - 1] = "CR") <=> (s[last] = "LF" /\ s[last - 1] = "CR")
      BY <2>1, <2>2
    <2> QED
      BY <1>3, <1>8, <1>11, <2>3
  <1>15. ~(endsU # {} /\ beforeU > i - k /\ u[beforeU] = "backslash")
    <2> SUFFICES ASSUME ends # {}, beforeU > i - k, u[beforeU] = "backslash" PROVE FALSE
      BY <1>10
    <2>1. before \in Int /\ before <= last
      BY <1>8
    <2> HIDE DEF beforeU, before, ends, endsU
    <2>2. before > i /\ before \in i..last
      BY <1>3, <1>8, <1>14, <2>1
    <2>3. s[before] = "backslash"
      BY <1>12, <1>14, <2>2
    <2> USE DEF before, ends
    <2> QED
      BY Zenon, <1>7, <2>2, <2>3
  <1> HIDE DEF ends, endsU, before, beforeU
  <1>16. ~\E j \in (i - k)..lastU : u[j] = "SEP"
    BY <1>7, <1>13
  <1>17. bareU # {} => bareCR # {}
    BY <1>13
  <1>18. ~refusesU
    <2> HIDE DEF bareU, bareCR
    <2> QED
      BY Zenon, <1>7, <1>15, <1>16, <1>17
  <1> HIDE DEF refuses, refusesU
  <1>19. LineCommentEnd(s, i, d) = last + 1 /\ LineCommentEnd(u, i - k, d) = (last - k) + 1
    BY Zenon, <1>1, <1>2, <1>7, <1>11, <1>18
  <1> HIDE DEF d
  <1> QED
    BY <1>3, <1>8, <1>19 DEF d

\* So for a block comment.
LEMMA BlockCommentSliced ==
  ASSUME NEW s, NEW u, NEW k, NEW m, IsSlice(u, s, k, m), NEW i \in (k + 1)..m,
         BlockCommentEnd(s, i) # Refused, BlockCommentEnd(s, i) <= m + 1
  PROVE  BlockCommentEnd(u, i - k) = BlockCommentEnd(s, i) - k
  <1> DEFINE closes  == {j \in (i + 1)..Len(s) : s[j] = "*/"}
             closesU == {j \in (i - k + 1)..Len(u) : u[j] = "*/"}
             a       == Min(closes)
  <1>1. BlockCommentEnd(s, i) = IF closes = {} \/ \E j \in (i + 1)..Min(closes) : s[j] = "/*"
                                THEN Refused ELSE Min(closes) + 1
    BY Zenon DEF BlockCommentEnd
  <1>2. BlockCommentEnd(u, i - k) =
          IF closesU = {} \/ \E j \in (i - k + 1)..Min(closesU) : u[j] = "/*"
          THEN Refused ELSE Min(closesU) + 1
    BY Zenon DEF BlockCommentEnd
  <1>3. /\ k \in Nat /\ m \in Nat /\ i \in Nat /\ k < i /\ i <= m /\ m <= Len(s)
        /\ Len(s) \in Nat /\ Len(u) = m - k
    BY DEF IsSlice
  <1>4. \A j \in (k + 1)..m : u[j - k] = s[j]
    BY DEF IsSlice
  <1>5. \A j \in 1..(m - k) : u[j] = s[j + k]
    BY DEF IsSlice
  <1>6. /\ closes # {} /\ (~\E j \in (i + 1)..a : s[j] = "/*") /\ a + 1 <= m + 1
        /\ BlockCommentEnd(s, i) = a + 1
    BY <1>1
  <1>7. a \in closes /\ \A y \in closes : a <= y
    <2>1. closes \in SUBSET Nat
      BY <1>3
    <2> HIDE DEF closes
    <2> QED
      BY <1>6, <2>1, MinOfPositions
  <1> HIDE DEF a
  <1>8. a \in Nat /\ i < a /\ a <= m /\ s[a] = "*/"
    <2>1. a \in Nat /\ i < a /\ s[a] = "*/"
      BY <1>3, <1>7
    <2>2. a + 1 <= m + 1
      BY <1>6
    <2> HIDE DEF closes
    <2> QED
      BY <1>3, <2>1, <2>2
  <1>9. a - k \in closesU
    <2>1. a \in (k + 1)..m /\ a - k \in (i - k + 1)..Len(u)
      BY <1>3, <1>8
    <2> QED
      BY <1>4, <1>8, <2>1
  <1>10. ASSUME NEW y \in closesU PROVE a - k <= y
    <2>1. y \in 1..(m - k) /\ y + k \in (i + 1)..Len(s) /\ u[y] = "*/" /\ y \in Nat
      BY <1>3
    <2>2. y + k \in closes
      BY <1>5, <2>1
    <2>3. a <= y + k
      BY <1>7, <2>2
    <2> HIDE DEF closes
    <2> QED
      BY <1>3, <1>8, <2>1, <2>3
  <1>11. closesU \in SUBSET Nat
    BY <1>3
  <1>12. closesU # {} /\ Min(closesU) = a - k
    <2> HIDE DEF closesU, closes
    <2> QED
      BY <1>9, <1>10, <1>11, MinMoves
  <1> HIDE DEF closesU, closes
  <1>13. ~\E j \in (i - k + 1)..(a - k) : u[j] = "/*"
    <2> SUFFICES ASSUME NEW j \in (i - k + 1)..(a - k), u[j] = "/*" PROVE FALSE
      OBVIOUS
    <2>1. j \in 1..(m - k) /\ j + k \in (i + 1)..a
      BY <1>3, <1>8
    <2>2. s[j + k] = "/*"
      BY <1>5, <2>1
    <2> QED
      BY <1>6, <2>1, <2>2
  <1>14. BlockCommentEnd(u, i - k) = (a - k) + 1
    BY Zenon, <1>2, <1>12, <1>13
  <1> QED
    BY <1>3, <1>6, <1>8, <1>14

\* What the lexer says of a comment it says of it in a slice.
LEMMA CommentSliced ==
  ASSUME NEW engine \in Engines, NEW s, NEW u, NEW k, NEW m, IsSlice(u, s, k, m),
         NEW i \in (k + 1)..m
  PROVE  LET d == Dialects[engine]
             c == CommentEnd(s, i, d)
         IN /\ c = None => CommentEnd(u, i - k, d) = None
            /\ c # None /\ c # Refused /\ c <= m + 1 => CommentEnd(u, i - k, d) = c - k
  <1> DEFINE d == Dialects[engine]
             c == CommentEnd(s, i, d)
  <1>1. u[i - k] = s[i]
    BY DEF IsSlice
  <1>2. s \in Seq(Symbols) /\ i \in 1..Len(s)
    BY DEF IsSlice
  <1>3. CASE s[i] \in d.lineComments
    <2>1. s[i] \in {"--", "#", "//"} /\ s[i] # "/*"
      BY <1>3, DialectFacts
    <2>2. c = LineCommentEnd(s, i, d) /\ CommentEnd(u, i - k, d) = LineCommentEnd(u, i - k, d)
      <3>1. u[i - k] \in d.lineComments /\ u[i - k] # "/*"
        BY <1>1, <1>3, <2>1
      <3> QED
        BY Zenon, <1>3, <2>1, <3>1 DEF CommentEnd
    <2>3. c # None
      <3>1. c = None => c # Refused
        BY Zenon, NoneIsNotRefused
      <3> QED
        BY <1>2, <1>3, <3>1, NoComment
    <2> QED
      BY <2>1, <2>2, <2>3, LineCommentSliced
  <1>4. CASE s[i] = "/*"
    <2>1. s[i] \notin d.lineComments
      BY <1>4, DialectFacts
    <2>2. c = BlockCommentEnd(s, i) /\ CommentEnd(u, i - k, d) = BlockCommentEnd(u, i - k)
      <3>1. u[i - k] \notin d.lineComments /\ u[i - k] = "/*"
        BY <1>1, <1>4, <2>1
      <3> QED
        BY Zenon, <1>4, <2>1, <3>1 DEF CommentEnd
    <2>3. c # None
      BY <1>2, <1>4, NoComment
    <2> QED
      BY <2>2, <2>3, BlockCommentSliced
  <1>5. CASE s[i] \notin d.lineComments /\ s[i] # "/*"
    <2>1. c = None
      BY Zenon, <1>5 DEF CommentEnd
    <2>2. CommentEnd(u, i - k, d) = None
      <3>1. u[i - k] \notin d.lineComments /\ u[i - k] # "/*"
        BY <1>1, <1>5
      <3> QED
        BY Zenon, <3>1 DEF CommentEnd
    <2> QED
      BY <2>1, <2>2
  <1> QED
    BY <1>3, <1>4, <1>5

\* Where a comment ends.
LEMMA CommentRange ==
  ASSUME NEW engine \in Engines, NEW s \in Seq(Symbols), NEW i \in 1..Len(s)
  PROVE  LET c == CommentEnd(s, i, Dialects[engine])
         IN c = None \/ c = Refused \/ c \in (i + 1)..(Len(s) + 1)
  <1>1. \E r : r \in Readings(s, Dialects[engine])
    BY SomeReading
  <1> QED
    BY <1>1, CommentIsCertain

\* What opens a comment or a literal is an opener.
LEMMA OpenersOpen ==
  ASSUME NEW engine \in Engines, NEW s \in Seq(Symbols), NEW i \in 1..Len(s),
         s[i] \notin LexerOpeners
  PROVE  CommentEnd(s, i, Dialects[engine]) = None /\ LiteralEnd(s, i, Dialects[engine]) = None
  <1> DEFINE d == Dialects[engine]
  <1>1. s[i] \notin d.lineComments /\ s[i] # "/*"
    BY DialectFacts DEF LexerOpeners
  <1>2. CommentEnd(s, i, d) = None
    BY Zenon, <1>1 DEF CommentEnd
  <1>3. s[i] \notin {"quote", "dquote"} /\ s[i] # "backtick" /\ s[i] # "$$"
    BY DEF LexerOpeners
  <1>4. LiteralEnd(s, i, d) = None
    BY Zenon, <1>3 DEF LiteralEnd
  <1> QED
    BY <1>2, <1>4

\* The recursion of SkipTrivia goes through.
SkipFrom(s, i, d) == SkipTrivia(s, i, d, FALSE)

\* One turn of it per space and per comment.
LEMMA SkipTurns ==
  ASSUME NEW engine \in Engines, NEW s \in Seq(Symbols), NEW i \in Int
  PROVE  LET d == Dialects[engine]
             c == CommentEnd(s, i, d)
         IN /\ i \notin 1..Len(s) => SkipFrom(s, i, d) = i
            /\ i \in 1..Len(s) =>
                 /\ s[i] \in Spaces => SkipFrom(s, i, d) = SkipFrom(s, i + 1, d)
                 /\ s[i] \notin Spaces /\ c # None => SkipFrom(s, i, d) = SkipFrom(s, c, d)
                 /\ s[i] \notin Spaces /\ c = None => SkipFrom(s, i, d) = i
  <1> DEFINE d == Dialects[engine]
             comment(j) == IF s[j] \in LexerOpeners THEN CommentEnd(s, j, d) ELSE None
             inside == 1..Len(s)
             blank(j) == s[j] \in Spaces \/ (FALSE /\ s[j] = "(")
             stop  == {j \in Int : j \notin inside \/ (~blank(j) /\ comment(j) = None)}
             value == [j \in Int |-> j]
             next  == [j \in Int |-> IF j \in stop THEN j ELSE IF blank(j) THEN j + 1 ELSE comment(j)]
             step  == [j \in Int |-> [v \in Int |-> v]]
             m     == [j \in Int |-> IF j \in inside THEN Len(s) + 1 - j ELSE 0]
             places == Int
             Turns(f) == [j \in Int |->
                IF j \notin 1..Len(s) THEN j
                ELSE IF s[j] \in Spaces \/ (FALSE /\ s[j] = "(") THEN f[j + 1]
                ELSE LET comm == IF s[j] \in LexerOpeners THEN CommentEnd(s, j, d) ELSE None
                     IN IF comm = None THEN j ELSE f[comm]]
             chosen == CHOOSE f : f = Turns(f)
  <1>1. \A j \in inside : /\ comment(j) = CommentEnd(s, j, d)
                          /\ comment(j) = None \/ comment(j) = Refused \/ comment(j) \in (j + 1)..(Len(s) + 1)
    BY CommentRange, OpenersOpen
  <1>2. Refused \in Int /\ None \in Int /\ Refused \notin inside /\ Len(s) \in Nat
    BY DEF Refused, None
  <1> HIDE DEF comment
  <1>3. IsWalk(places, places, Len(s) + 1, m, stop, next, value, step)
    <2>1. \A j \in Int : j \notin stop => j \in inside
      OBVIOUS
    <2>2. \A j \in Int : next[j] \in Int
      BY <1>1, <1>2
    <2>3. \A j \in Int : m[j] \in 0..(Len(s) + 1)
      BY <1>2
    <2>4. \A j \in Int : j \notin stop => m[next[j]] < m[j]
      <3> SUFFICES ASSUME NEW j \in Int, j \notin stop PROVE m[next[j]] < m[j]
        OBVIOUS
      <3>1. j \in inside
        BY <2>1
      <3>2. next[j] = j + 1 \/ next[j] = Refused \/ next[j] \in (j + 1)..(Len(s) + 1)
        BY <1>1, <3>1
      <3>3. m[j] = Len(s) + 1 - j
        BY <3>1
      <3>4. next[j] \in Int
        BY <2>2
      <3>5. m[next[j]] = IF next[j] \in inside THEN Len(s) + 1 - next[j] ELSE 0
        BY <3>4
      <3> HIDE DEF next, m, stop
      <3> QED
        BY <1>2, <3>1, <3>2, <3>3, <3>5
    <2>5. /\ next \in [Int -> Int] /\ m \in [Int -> 0..(Len(s) + 1)] /\ value \in [Int -> Int]
          /\ step \in [Int -> [Int -> Int]] /\ Len(s) + 1 \in Nat
      BY <1>2, <2>2, <2>3
    <2> HIDE DEF next, m, value, step, stop
    <2> QED
      BY <2>4, <2>5 DEF IsWalk
  <1>4. PICK f \in [places -> places] : \A j \in places :
          f[j] = IF j \in stop THEN value[j] ELSE step[j][f[next[j]]]
    <2> HIDE DEF m, step, places, stop, next, value
    <2> QED
      BY <1>3, WalkExists
  <1>5. \A j \in Int : f[j] = IF j \in stop THEN j ELSE f[next[j]]
    <2>1. \A j \in Int : next[j] \in Int
      <3> SUFFICES ASSUME NEW j \in Int PROVE next[j] \in Int
        OBVIOUS
      <3>1. CASE j \in stop \/ blank(j)
        BY <3>1
      <3>2. CASE j \notin stop /\ ~blank(j)
        <4>1. j \in inside /\ next[j] = comment(j)
          BY <3>2
        <4>2. comment(j) = None \/ comment(j) = Refused \/ comment(j) \in (j + 1)..(Len(s) + 1)
          BY Zenon, <1>1, <4>1
        <4>3. comment(j) \in Int
          <5> HIDE DEF stop, inside
          <5> QED
            BY <1>2, <4>2
        <4> QED
          BY Zenon, <4>1, <4>3
      <3> QED
        BY <3>1, <3>2
    <2>2. \A j \in Int : step[j][f[next[j]]] = f[next[j]]
      <3> HIDE DEF next
      <3> QED
        BY <2>1
    <2> QED
      BY <1>4, <2>2
  <1>6. f = Turns(f)
    <2>1. \A j \in Int : f[j] = Turns(f)[j]
      <3> USE DEF comment
      <3> QED
        BY <1>5
    <2> QED
      BY <2>1
  <1>7. chosen = Turns(chosen)
    BY <1>6
  <1>8. SkipFrom(s, i, d) = chosen[i] /\ SkipFrom(s, i + 1, d) = chosen[i + 1]
        /\ SkipFrom(s, CommentEnd(s, i, d), d) = chosen[CommentEnd(s, i, d)]
    BY DEF SkipFrom, SkipTrivia
  <1>9. chosen[i] = Turns(chosen)[i]
    <2> HIDE DEF chosen
    <2> QED
      BY <1>7
  <1> HIDE DEF chosen
  <1>10. i \in inside => comment(i) = CommentEnd(s, i, d)
    BY <1>1
  <1> USE DEF comment
  <1> QED
    BY <1>8, <1>9, <1>10

\* Where the lexeme at a position ends.
LEMMA LexemeEndIs ==
  ASSUME NEW engine \in Engines, NEW s \in Seq(Symbols), NEW i \in 1..Len(s)
  PROVE  LET d == Dialects[engine]
             c == CommentEnd(s, i, d)
             e == LiteralEnd(s, i, d)
         IN /\ c # None => LexemeEnd(s, i, d) = c
            /\ c = None => LexemeEnd(s, i, d) = e
  <1> DEFINE d == Dialects[engine]
             c == CommentEnd(s, i, d)
             e == LiteralEnd(s, i, d)
  <1>1. CASE s[i] \in LexerOpeners
    <2>1. LexemeEnd(s, i, d) = IF c = None THEN e ELSE c
      BY Zenon, <1>1 DEF LexemeEnd
    <2> QED
      BY <2>1
  <1>2. CASE s[i] \notin LexerOpeners
    <2>1. LexemeEnd(s, i, d) = None
      BY Zenon, <1>2 DEF LexemeEnd
    <2>2. c = None /\ e = None
      BY <1>2, OpenersOpen
    <2> QED
      BY <2>1, <2>2
  <1> QED
    BY <1>1, <1>2

\* It ends behind the position.
LEMMA LexemeEndRange ==
  ASSUME NEW engine \in Engines, NEW s \in Seq(Symbols), NEW i \in 1..Len(s)
  PROVE  LET x == LexemeEnd(s, i, Dialects[engine])
         IN x = None \/ x = Refused \/ (x \in Nat /\ x > i)
  <1> DEFINE d == Dialects[engine]
             c == CommentEnd(s, i, d)
             e == LiteralEnd(s, i, d)
  <1>1. c = None \/ c = Refused \/ c \in (i + 1)..(Len(s) + 1)
    BY CommentRange
  <1>2. e = None \/ e = Refused \/ (e \in Nat /\ e > i + 1)
    <2>1. CASE e # None /\ e # Refused
      <3>1. e \notin {None, Refused}
        BY Zenon, <2>1
      <3> QED
        BY <3>1, LiteralAt
    <2> QED
      BY <2>1
  <1>3. (c # None => LexemeEnd(s, i, d) = c) /\ (c = None => LexemeEnd(s, i, d) = e)
    BY LexemeEndIs
  <1> HIDE DEF c, e, d
  <1>4. LexemeEnd(s, i, d) = None \/ LexemeEnd(s, i, d) = Refused
        \/ (LexemeEnd(s, i, d) \in Nat /\ LexemeEnd(s, i, d) > i)
    BY <1>1, <1>2, <1>3
  <1> QED
    BY <1>4 DEF d

\* A cut in front of further ends, if the rest is not refused.
Cut(j, rest) == IF rest = <<>> THEN <<>> ELSE <<j>> \o rest

\* The recursion of SegmentEnds goes through.
LEMMA SegmentEndsTurns ==
  ASSUME NEW engine \in Engines, NEW s \in Seq(Symbols), NEW i \in Positions
  PROVE  LET d == Dialects[engine]
             x == LexemeEnd(s, i, d)
         IN /\ i > Len(s) => SegmentEnds(s, i, d) = <<Len(s) + 1>>
            /\ i <= Len(s) =>
                 /\ x # None /\ x # Refused => SegmentEnds(s, i, d) = SegmentEnds(s, x, d)
                 /\ x = None /\ s[i] # ";"  => SegmentEnds(s, i, d) = SegmentEnds(s, i + 1, d)
                 /\ x = None /\ s[i] = ";"  =>
                      SegmentEnds(s, i, d) = Cut(i, SegmentEnds(s, i + 1, d))
  <1> DEFINE d == Dialects[engine]
             skip(j) == LexemeEnd(s, j, d)
             stop   == {j \in Positions : j > Len(s) \/ skip(j) = Refused}
             lists  == Seq(Nat)
             places == Positions
             value  == [j \in places |-> IF j > Len(s) THEN <<Len(s) + 1>> ELSE <<>>]
             next   == [j \in places |-> IF j \in stop THEN j
                                         ELSE IF skip(j) = None THEN j + 1 ELSE skip(j)]
             cuts(j) == skip(j) = None /\ s[j] = ";"
             step   == [j \in places |-> [v \in lists |-> IF cuts(j) THEN Cut(j, v) ELSE v]]
             m      == [j \in places |-> IF j > Len(s) THEN 0 ELSE Len(s) + 1 - j]
             Turns(f) == [j \in Nat \ {0} |->
                IF j > Len(s) THEN <<Len(s) + 1>>
                ELSE LET skipped == LexemeEnd(s, j, d)
                     IN CASE skipped = Refused -> <<>>
                          [] skipped > 0       -> f[skipped]
                          [] skipped = None /\ s[j] = ";" ->
                               IF f[j + 1] = <<>> THEN <<>> ELSE <<j>> \o f[j + 1]
                          [] OTHER             -> f[j + 1]]
             chosen == CHOOSE f : f = Turns(f)
  <1>1. \A j \in Positions : j <= Len(s) => skip(j) = None \/ skip(j) = Refused \/ (skip(j) \in Nat /\ skip(j) > j)
    <2> SUFFICES ASSUME NEW j \in Positions, j <= Len(s)
                 PROVE  skip(j) = None \/ skip(j) = Refused \/ (skip(j) \in Nat /\ skip(j) > j)
      OBVIOUS
    <2>1. j \in 1..Len(s)
      BY DEF Positions
    <2> QED
      BY <2>1, LexemeEndRange
  <1>2. Refused = -1 /\ None = 0 /\ Len(s) \in Nat
    BY DEF Refused, None
  <1> HIDE DEF skip
  <1>3. \A j \in places : next[j] \in places /\ (j \notin stop => next[j] > j)
    BY <1>1, <1>2 DEF Positions
  <1>4. IsWalk(places, lists, Len(s) + 1, m, stop, next, value, step)
    <2>1. \A j \in places : m[j] \in 0..(Len(s) + 1)
      BY <1>2 DEF Positions
    <2>2. \A j \in places : j \notin stop => m[next[j]] < m[j]
      <3> SUFFICES ASSUME NEW j \in places, j \notin stop PROVE m[next[j]] < m[j]
        OBVIOUS
      <3>1. j \in Nat /\ ~(j > Len(s))
        BY <1>2 DEF Positions
      <3>2. next[j] \in places /\ next[j] > j
        BY <1>3
      <3>3. next[j] \in Nat
        BY <3>2 DEF Positions
      <3>4. m[j] = Len(s) + 1 - j
        BY <3>1
      <3>5. m[next[j]] = IF next[j] > Len(s) THEN 0 ELSE Len(s) + 1 - next[j]
        BY <3>2
      <3> HIDE DEF next, m, stop
      <3> QED
        BY <1>2, <3>1, <3>2, <3>3, <3>4, <3>5
    <2>3. value \in [places -> lists]
      <3>1. <<Len(s) + 1>> \in lists /\ <<>> \in lists
        BY <1>2
      <3> HIDE DEF lists
      <3> QED
        BY <3>1
    <2>4. step \in [places -> [lists -> lists]]
      <3> SUFFICES ASSUME NEW j \in places, NEW v \in lists
                   PROVE  (IF cuts(j) THEN Cut(j, v) ELSE v) \in lists
        OBVIOUS
      <3>1. j \in Nat
        BY DEF Positions
      <3> HIDE DEF cuts
      <3> QED
        BY <3>1 DEF Cut
    <2>5. next \in [places -> places] /\ m \in [places -> 0..(Len(s) + 1)] /\ Len(s) + 1 \in Nat
      <3> HIDE DEF stop
      <3> QED
        BY <1>2, <1>3, <2>1
    <2> HIDE DEF next, m, value, step, stop, lists, places
    <2> QED
      BY <2>2, <2>3, <2>4, <2>5 DEF IsWalk
  <1>5. PICK f \in [places -> lists] : \A j \in places :
          f[j] = IF j \in stop THEN value[j] ELSE step[j][f[next[j]]]
    <2> HIDE DEF m, step, places, lists, stop, next, value
    <2> QED
      BY <1>4, WalkExists
  <1>6. \A j \in places : step[j][f[next[j]]] = IF cuts(j) THEN Cut(j, f[next[j]]) ELSE f[next[j]]
    <2> HIDE DEF next, cuts, lists
    <2> QED
      BY <1>3
  <1>7. \A j \in places : f[j] = Turns(f)[j]
    <2> SUFFICES ASSUME NEW j \in places PROVE f[j] = Turns(f)[j]
      OBVIOUS
    <2>0. Turns(f)[j] = IF j > Len(s) THEN <<Len(s) + 1>>
                ELSE LET skipped == skip(j)
                     IN CASE skipped = Refused -> <<>>
                          [] skipped > 0       -> f[skipped]
                          [] skipped = None /\ s[j] = ";" ->
                               IF f[j + 1] = <<>> THEN <<>> ELSE <<j>> \o f[j + 1]
                          [] OTHER             -> f[j + 1]
      BY DEF Positions, skip
    <2>1. f[j] = IF j \in stop THEN value[j]
                 ELSE IF cuts(j) THEN Cut(j, f[next[j]]) ELSE f[next[j]]
      <3> HIDE DEF stop, value, next, step, cuts, places
      <3>1. f[j] = IF j \in stop THEN value[j] ELSE step[j][f[next[j]]]
        BY Zenon, <1>5
      <3>2. step[j][f[next[j]]] = IF cuts(j) THEN Cut(j, f[next[j]]) ELSE f[next[j]]
        BY Zenon, <1>6
      <3> QED
        BY Zenon, <3>1, <3>2
    <2> HIDE DEF Turns
    <2>2. CASE j > Len(s)
      <3>1. j \in stop /\ value[j] = <<Len(s) + 1>>
        BY <2>2
      <3> HIDE DEF stop, value
      <3> QED
        BY Zenon, <2>0, <2>1, <2>2, <3>1
    <2>3. CASE ~(j > Len(s)) /\ skip(j) = Refused
      <3>1. j \in stop /\ value[j] = <<>>
        BY <2>3
      <3>2. ~(skip(j) > 0) /\ skip(j) # None
        BY <1>2, <2>3
      <3> HIDE DEF stop, value
      <3> QED
        BY Zenon, <2>0, <2>1, <2>3, <3>1, <3>2
    <2>4. CASE ~(j > Len(s)) /\ skip(j) # Refused /\ skip(j) # None
      <3>1. j \notin stop /\ next[j] = skip(j) /\ ~cuts(j)
        BY <2>4
      <3>2. skip(j) > 0
        <4>1. j \in Nat /\ j <= Len(s)
          BY <1>2, <2>4 DEF Positions
        <4>2. skip(j) \in Nat /\ skip(j) > j
          BY Zenon, <1>1, <2>4, <4>1
        <4> QED
          BY <4>1, <4>2
      <3> HIDE DEF stop, value, next, cuts
      <3> QED
        BY Zenon, <2>0, <2>1, <2>4, <3>1, <3>2
    <2>5. CASE ~(j > Len(s)) /\ skip(j) = None
      <3>1. j \notin stop /\ next[j] = j + 1
        BY <1>2, <2>5
      <3>2. skip(j) # Refused /\ ~(skip(j) > 0)
        BY <1>2, <2>5
      <3>3. CASE s[j] = ";"
        <4>1. cuts(j)
          BY <2>5, <3>3
        <4> HIDE DEF stop, value, next, cuts
        <4> QED
          BY Zenon, <2>0, <2>1, <2>5, <3>1, <3>2, <3>3, <4>1 DEF Cut
      <3>4. CASE s[j] # ";"
        <4>1. ~cuts(j)
          BY <3>4
        <4> HIDE DEF stop, value, next, cuts
        <4> QED
          BY Zenon, <2>0, <2>1, <2>5, <3>1, <3>2, <3>4, <4>1
      <3> QED
        BY <3>3, <3>4
    <2> QED
      BY <2>2, <2>3, <2>4, <2>5
  <1>8. f = Turns(f)
    <2>1. DOMAIN f = DOMAIN Turns(f) /\ f = [j \in Nat \ {0} |-> f[j]]
      BY DEF Positions
    <2>2. \A j \in Nat \ {0} : f[j] = Turns(f)[j]
      BY <1>7 DEF Positions
    <2> QED
      BY <2>1, <2>2
  <1>9. chosen = Turns(chosen)
    BY <1>8
  <1>10. SegmentEnds(s, i, d) = chosen[i] /\ SegmentEnds(s, i + 1, d) = chosen[i + 1]
         /\ SegmentEnds(s, skip(i), d) = chosen[skip(i)]
    BY DEF SegmentEnds
  <1>11. chosen[i] = Turns(chosen)[i]
    <2> HIDE DEF chosen
    <2> QED
      BY <1>9
  <1> HIDE DEF chosen
  <1>12. chosen[i] = IF i > Len(s) THEN <<Len(s) + 1>>
                ELSE LET skipped == skip(i)
                     IN CASE skipped = Refused -> <<>>
                          [] skipped > 0       -> chosen[skipped]
                          [] skipped = None /\ s[i] = ";" ->
                               IF chosen[i + 1] = <<>> THEN <<>> ELSE <<i>> \o chosen[i + 1]
                          [] OTHER             -> chosen[i + 1]
    BY <1>11 DEF Positions, skip
  <1> HIDE DEF Turns
  <1>13. i > Len(s) => chosen[i] = <<Len(s) + 1>>
    BY Zenon, <1>12
  <1>14. ~(i > Len(s)) /\ skip(i) # None /\ skip(i) # Refused => chosen[i] = chosen[skip(i)]
    <2> SUFFICES ASSUME ~(i > Len(s)), skip(i) # None, skip(i) # Refused
                 PROVE  chosen[i] = chosen[skip(i)]
      OBVIOUS
    <2>1. skip(i) > 0
      <3>1. i \in Nat /\ i <= Len(s)
        BY <1>2 DEF Positions
      <3>2. skip(i) \in Nat /\ skip(i) > i
        BY Zenon, <1>1, <3>1
      <3> QED
        BY <3>1, <3>2
    <2> QED
      BY Zenon, <1>12, <2>1
  <1>15. ~(i > Len(s)) /\ skip(i) = None =>
           chosen[i] = IF s[i] = ";" THEN Cut(i, chosen[i + 1]) ELSE chosen[i + 1]
    <2> SUFFICES ASSUME ~(i > Len(s)), skip(i) = None
                 PROVE  chosen[i] = IF s[i] = ";" THEN Cut(i, chosen[i + 1]) ELSE chosen[i + 1]
      OBVIOUS
    <2>1. skip(i) # Refused /\ ~(skip(i) > 0)
      BY <1>2
    <2>2. CASE s[i] = ";"
      BY Zenon, <1>12, <2>1, <2>2 DEF Cut
    <2>3. CASE s[i] # ";"
      BY Zenon, <1>12, <2>1, <2>3
    <2> QED
      BY <2>2, <2>3
  <1>16. i <= Len(s) => ~(i > Len(s))
    BY <1>2 DEF Positions
  <1> QED
    BY Zenon, <1>10, <1>13, <1>14, <1>15, <1>16 DEF skip

-----------------------------------------------------------------------------
(***************************************************************************)
(* What the read gate makes of what the scan has seen.                       *)
(***************************************************************************)

\* Trivia, from one position to another.
IsTrivia(s, d, i, j) ==
  \/ s[i] \in Spaces /\ j = i + 1
  \/ CommentEnd(s, i, d) = j /\ j # None /\ j # Refused

\* The read gate goes over it, in the text and in each of its segments.
LEMMA TriviaGoesOn ==
  ASSUME NEW engine \in Engines, NEW s \in Seq(Symbols), NEW i \in 1..Len(s),
         NEW j, IsTrivia(s, Dialects[engine], i, j)
  PROVE  LET d == Dialects[engine]
         IN /\ j \in (i + 1)..(Len(s) + 1)
            /\ SegmentEnds(s, i, d) = SegmentEnds(s, j, d)
            /\ \A k \in Nat, m \in Nat :
                 k <= m /\ m <= Len(s) /\ k < i /\ j <= m + 1 =>
                   LET u == SubSeq(s, k + 1, m)
                   IN SkipFrom(u, i - k, d) = SkipFrom(u, j - k, d)
  <1> DEFINE d == Dialects[engine]
             c == CommentEnd(s, i, d)
  <1>1. i \in Positions /\ i <= Len(s) /\ i \in Nat /\ Len(s) \in Nat
    BY DEF Positions
  <1>2. CASE s[i] \in Spaces /\ j = i + 1
    <2>1. j \in (i + 1)..(Len(s) + 1)
      BY <1>1, <1>2
    <2>2. s[i] \notin LexerOpeners /\ s[i] # ";"
      BY <1>2 DEF LexerOpeners, Spaces
    <2>3. LexemeEnd(s, i, d) = None
      BY Zenon, <2>2 DEF LexemeEnd
    <2>4. SegmentEnds(s, i, d) = SegmentEnds(s, j, d)
      BY <1>1, <1>2, <2>2, <2>3, SegmentEndsTurns
    <2>5. ASSUME NEW k \in Nat, NEW m \in Nat, k <= m, m <= Len(s), k < i, j <= m + 1,
                 NEW u, u = SubSeq(s, k + 1, m)
          PROVE  SkipFrom(u, i - k, d) = SkipFrom(u, j - k, d)
      <3>1. IsSlice(u, s, k, m)
        BY <2>5, SubSeqIsSlice
      <3>2. i \in (k + 1)..m /\ i - k \in Int /\ (i - k) + 1 = j - k
        BY <1>1, <1>2, <2>5
      <3>3. u \in Seq(Symbols) /\ i - k \in 1..Len(u) /\ u[i - k] = s[i]
        BY <3>1, <3>2 DEF IsSlice
      <3>4. SkipFrom(u, i - k, d) = SkipFrom(u, (i - k) + 1, d)
        BY <1>2, <3>2, <3>3, SkipTurns
      <3> QED
        BY <3>2, <3>4
    <2> QED
      BY <2>1, <2>4, <2>5
  <1>3. CASE c = j /\ j # None /\ j # Refused
    <2>1. j \in (i + 1)..(Len(s) + 1)
      BY <1>3, CommentRange
    <2>2. s[i] \notin Spaces
      <3>1. s[i] \in LexerOpeners
        BY <1>3, OpenersOpen
      <3> QED
        BY <3>1 DEF LexerOpeners, Spaces
    <2>3. LexemeEnd(s, i, d) = j
      BY <1>3, LexemeEndIs
    <2>4. SegmentEnds(s, i, d) = SegmentEnds(s, j, d)
      BY <1>1, <1>3, <2>3, SegmentEndsTurns
    <2>5. ASSUME NEW k \in Nat, NEW m \in Nat, k <= m, m <= Len(s), k < i, j <= m + 1,
                 NEW u, u = SubSeq(s, k + 1, m)
          PROVE  SkipFrom(u, i - k, d) = SkipFrom(u, j - k, d)
      <3>1. IsSlice(u, s, k, m)
        BY <2>5, SubSeqIsSlice
      <3>2. i \in (k + 1)..m /\ i - k \in Int /\ j - k \in Int /\ j - k > 0 /\ i \in (k + 1)..m
        BY <1>1, <2>1, <2>5
      <3>3. u \in Seq(Symbols) /\ i - k \in 1..Len(u) /\ u[i - k] = s[i]
        BY <3>1, <3>2 DEF IsSlice
      <3>4. CommentEnd(u, i - k, d) = j - k
        <4>1. c # None /\ c # Refused /\ c <= m + 1
          BY Zenon, <1>3, <2>5
        <4>2. CommentEnd(u, i - k, d) = c - k
          BY <3>1, <3>2, <4>1, CommentSliced
        <4> QED
          BY Zenon, <1>3, <4>2
      <3>5. j - k # None
        BY <3>2 DEF None
      <3>6. SkipFrom(u, i - k, d) = SkipFrom(u, CommentEnd(u, i - k, d), d)
        BY <2>2, <3>2, <3>3, <3>4, <3>5, SkipTurns
      <3> QED
        BY <3>4, <3>6
    <2> QED
      BY <2>1, <2>4, <2>5
  <1> QED
    BY <1>2, <1>3 DEF IsTrivia

\* What begins at a position, in every segment that reaches there.
LEMMA StatementBegins ==
  ASSUME NEW engine \in Engines, NEW s \in Seq(Symbols), NEW i \in 1..Len(s),
         CommentEnd(s, i, Dialects[engine]) = None, s[i] \notin Spaces,
         NEW m \in i..Len(s)
  PROVE  SkipFrom(SubSeq(s, 1, m), i, Dialects[engine]) = i
  <1> DEFINE d == Dialects[engine]
             u == SubSeq(s, 1, m)
  <1>1. 0 \in Nat /\ m \in Nat /\ 0 <= m /\ m <= Len(s) /\ i \in (0 + 1)..m /\ 0 + 1 = 1
        /\ i - 0 = i /\ i \in Int
    OBVIOUS
  <1>2. IsSlice(u, s, 0, m)
    BY <1>1, SubSeqIsSlice
  <1>3. u \in Seq(Symbols) /\ i \in 1..Len(u) /\ u[i] = s[i]
    BY <1>1, <1>2 DEF IsSlice
  <1>4. CommentEnd(u, i, d) = None
    <2>1. CommentEnd(u, i - 0, d) = None
      BY <1>1, <1>2, CommentSliced
    <2> QED
      BY <1>1, <2>1
  <1> HIDE DEF u
  <1>5. SkipFrom(u, i, d) = i
    BY <1>1, <1>3, <1>4, SkipTurns
  <1> QED
    BY <1>5 DEF u

\* No ";" cuts the text before a position.
Uncut(s, d, i) == SegmentEnds(s, 1, d) = SegmentEnds(s, i, d)

\* There is only trivia before it.
NothingBefore(s, d, i) ==
  \A m \in 0..Len(s) :
    i <= m + 1 => SkipFrom(SubSeq(s, 1, m), 1, d) = SkipFrom(SubSeq(s, 1, m), i, d)

\* There is a statement before it.
StatementBefore(s, d, i) ==
  \E p \in 1..Len(s) : p < i /\ \A m \in p..Len(s) : ~IsBlank(SubSeq(s, 1, m), d)

\* There is one that a ";" has ended, and only trivia since.
EndedBefore(s, d, i) ==
  \E t \in 1..Len(s) :
    /\ t < i /\ ~IsBlank(SubSeq(s, 1, t - 1), d)
    /\ SegmentEnds(s, 1, d) = Cut(t, SegmentEnds(s, i, d))
    /\ SkipFrom(SubSeq(s, t + 1, Len(s)), 1, d) = SkipFrom(SubSeq(s, t + 1, Len(s)), i - t, d)

\* All of it stays so behind trivia.
LEMMA BeforeTrivia ==
  ASSUME NEW engine \in Engines, NEW s \in Seq(Symbols), NEW i \in 1..Len(s),
         NEW j, IsTrivia(s, Dialects[engine], i, j)
  PROVE  LET d == Dialects[engine]
         IN /\ Uncut(s, d, i) => Uncut(s, d, j)
            /\ NothingBefore(s, d, i) => NothingBefore(s, d, j)
            /\ StatementBefore(s, d, i) => StatementBefore(s, d, j)
            /\ EndedBefore(s, d, i) => EndedBefore(s, d, j)
  <1> DEFINE d == Dialects[engine]
  <1>1. j \in (i + 1)..(Len(s) + 1) /\ SegmentEnds(s, i, d) = SegmentEnds(s, j, d)
    BY TriviaGoesOn
  <1>2. ASSUME NEW k \in Nat, NEW m \in Nat, k <= m, m <= Len(s), k < i, j <= m + 1
        PROVE  SkipFrom(SubSeq(s, k + 1, m), i - k, d) = SkipFrom(SubSeq(s, k + 1, m), j - k, d)
    BY ZenonT(60), <1>2, TriviaGoesOn
  <1>3. Uncut(s, d, i) => Uncut(s, d, j)
    BY Zenon, <1>1 DEF Uncut
  <1>4. ASSUME NothingBefore(s, d, i) PROVE NothingBefore(s, d, j)
    <2> SUFFICES ASSUME NEW m \in 0..Len(s), j <= m + 1
                 PROVE  SkipFrom(SubSeq(s, 1, m), 1, d) = SkipFrom(SubSeq(s, 1, m), j, d)
      BY DEF NothingBefore
    <2>1. /\ 0 \in Nat /\ m \in Nat /\ 0 <= m /\ m <= Len(s) /\ 0 < i /\ i <= m + 1
          /\ 0 + 1 = 1 /\ i - 0 = i /\ j - 0 = j
      BY <1>1
    <2>2. SkipFrom(SubSeq(s, 1, m), i, d) = SkipFrom(SubSeq(s, 1, m), j, d)
      <3>1. SkipFrom(SubSeq(s, 0 + 1, m), i - 0, d) = SkipFrom(SubSeq(s, 0 + 1, m), j - 0, d)
        BY <1>2, <2>1
      <3> QED
        BY <2>1, <3>1
    <2>3. SkipFrom(SubSeq(s, 1, m), 1, d) = SkipFrom(SubSeq(s, 1, m), i, d)
      BY <1>4, <2>1 DEF NothingBefore
    <2> QED
      BY <2>2, <2>3
  <1>5. ASSUME StatementBefore(s, d, i) PROVE StatementBefore(s, d, j)
    <2>1. PICK p \in 1..Len(s) : p < i /\ \A m \in p..Len(s) : ~IsBlank(SubSeq(s, 1, m), d)
      BY <1>5 DEF StatementBefore
    <2>2. p < j
      BY <1>1, <2>1
    <2> QED
      BY <2>1, <2>2 DEF StatementBefore
  <1>6. ASSUME EndedBefore(s, d, i) PROVE EndedBefore(s, d, j)
    <2>1. PICK t \in 1..Len(s) :
            /\ t < i /\ ~IsBlank(SubSeq(s, 1, t - 1), d)
            /\ SegmentEnds(s, 1, d) = Cut(t, SegmentEnds(s, i, d))
            /\ SkipFrom(SubSeq(s, t + 1, Len(s)), 1, d)
                 = SkipFrom(SubSeq(s, t + 1, Len(s)), i - t, d)
      BY <1>6 DEF EndedBefore
    <2>2. t \in Nat /\ Len(s) \in Nat /\ t <= Len(s) /\ t < i /\ t < j /\ j <= Len(s) + 1
      BY <1>1, <2>1
    <2>3. SkipFrom(SubSeq(s, t + 1, Len(s)), i - t, d) = SkipFrom(SubSeq(s, t + 1, Len(s)), j - t, d)
      BY <1>2, <2>2
    <2>4. SegmentEnds(s, 1, d) = Cut(t, SegmentEnds(s, j, d))
      BY <1>1, <2>1
    <2> QED
      BY Zenon, <2>1, <2>2, <2>3, <2>4 DEF EndedBefore
  <1> QED
    BY <1>3, <1>4, <1>5, <1>6

\* A statement begins where something else stands behind trivia.
LEMMA BeginsHere ==
  ASSUME NEW engine \in Engines, NEW s \in Seq(Symbols), NEW i \in 1..Len(s),
         CommentEnd(s, i, Dialects[engine]) = None, s[i] \notin Spaces,
         NothingBefore(s, Dialects[engine], i), NEW j \in Nat, j > i
  PROVE  StatementBefore(s, Dialects[engine], j)
  <1> DEFINE d == Dialects[engine]
  <1>1. ASSUME NEW m \in i..Len(s) PROVE ~IsBlank(SubSeq(s, 1, m), d)
    <2>1. m \in 0..Len(s) /\ i <= m + 1
      OBVIOUS
    <2>2. SkipFrom(SubSeq(s, 1, m), 1, d) = i
      BY <2>1, StatementBegins DEF NothingBefore
    <2>3. Len(SubSeq(s, 1, m)) = m /\ ~(i > m)
      OBVIOUS
    <2> QED
      BY <2>2, <2>3 DEF IsBlank, SkipFrom
  <1> QED
    BY <1>1 DEF StatementBefore

\* A position has one before it and one behind it.
LEMMA PositionFacts ==
  ASSUME NEW n \in Nat, NEW i \in 1..n
  PROVE  /\ i \in Positions /\ i \in Nat /\ i <= n /\ i < i + 1 /\ (i + 1) - i = 1
         /\ \A p \in 1..n : p < i => i - 1 \in p..n
  BY DEF Positions

\* A ";" ends it.
LEMMA EndsHere ==
  ASSUME NEW engine \in Engines, NEW s \in Seq(Symbols), NEW i \in 1..Len(s)
  PROVE  LET d == Dialects[engine]
         IN s[i] = ";" /\ Uncut(s, d, i) /\ StatementBefore(s, d, i) => EndedBefore(s, d, i + 1)
  <1> DEFINE d == Dialects[engine]
  <1>0. Len(s) \in Nat
    OBVIOUS
  <1>1. /\ i \in Positions /\ i \in Nat /\ i <= Len(s) /\ i < i + 1 /\ (i + 1) - i = 1
        /\ \A p \in 1..Len(s) : p < i => i - 1 \in p..Len(s)
    BY Zenon, <1>0, PositionFacts
  <1> SUFFICES ASSUME s[i] = ";", Uncut(s, d, i), StatementBefore(s, d, i)
               PROVE  EndedBefore(s, d, i + 1)
    OBVIOUS
  <1>2. LexemeEnd(s, i, d) = None
    <2>1. s[i] \notin LexerOpeners
      BY DEF LexerOpeners
    <2> QED
      BY Zenon, <2>1 DEF LexemeEnd
  <1>3. SegmentEnds(s, 1, d) = Cut(i, SegmentEnds(s, i + 1, d))
    <2>1. SegmentEnds(s, i, d) = Cut(i, SegmentEnds(s, i + 1, d))
      BY Zenon, <1>1, <1>2, SegmentEndsTurns
    <2> QED
      BY Zenon, <2>1 DEF Uncut
  <1>4. ~IsBlank(SubSeq(s, 1, i - 1), d)
    <2>1. PICK p \in 1..Len(s) : p < i /\ \A m \in p..Len(s) : ~IsBlank(SubSeq(s, 1, m), d)
      BY Zenon DEF StatementBefore
    <2>2. i - 1 \in p..Len(s)
      BY Zenon, <1>1, <2>1
    <2> QED
      BY Zenon, <2>1, <2>2
  <1>5. SkipFrom(SubSeq(s, i + 1, Len(s)), 1, d) = SkipFrom(SubSeq(s, i + 1, Len(s)), (i + 1) - i, d)
    BY Zenon, <1>1
  <1> QED
    BY Zenon, <1>1, <1>3, <1>4, <1>5 DEF EndedBefore

\* What the statement consists of does not cut it.
LEMMA UncutBehind ==
  ASSUME NEW engine \in Engines, NEW s \in Seq(Symbols), NEW i \in 1..Len(s),
         CommentEnd(s, i, Dialects[engine]) = None
  PROVE  LET d == Dialects[engine]
             e == LiteralEnd(s, i, d)
         IN /\ e # None /\ e # Refused => SegmentEnds(s, i, d) = SegmentEnds(s, e, d)
            /\ e = None /\ s[i] # ";"  => SegmentEnds(s, i, d) = SegmentEnds(s, i + 1, d)
  <1> DEFINE d == Dialects[engine]
  <1>1. Len(s) \in Nat
    OBVIOUS
  <1>2. i \in Positions /\ i <= Len(s)
    BY Zenon, <1>1, PositionFacts
  <1>3. LexemeEnd(s, i, d) = LiteralEnd(s, i, d)
    BY Zenon, LexemeEndIs
  <1> QED
    BY Zenon, <1>2, <1>3, SegmentEndsTurns

\* How the two gates agree: where the scan is, the read gate's segments are cut
\* as the scan has seen them, and what the scan has let through as one statement
\* is one where the read gate is asked.
Segments ==
  /\ ~seen => Uncut(sql, dialect, index)
  /\ ~seen /\ end = None => NothingBefore(sql, dialect, index)
  /\ ~seen /\ end # None => StatementBefore(sql, dialect, index)
  /\ seen /\ end # None => EndedBefore(sql, dialect, index)

SegmentInv ==
  /\ end # Refused => Segments
  /\ pc = "done" /\ answer # "notSingle" /\ "multi" \notin request.optouts => IsSingleStatement

\* The scan has seen nothing, and nothing is before it.
LEMMA SegmentInvInit == Init => SegmentInv
  BY NoneIsNotRefused DEF Init, SegmentInv, Segments, Uncut, NothingBefore

\* Each turn of the scan is one of the walk over the segments.
LEMMA SegmentInvStep == GateInv /\ SegmentInv /\ [Next]_vars => SegmentInv'
  <1> SUFFICES ASSUME GateInv, SegmentInv, [Next]_vars PROVE SegmentInv'
    OBVIOUS
  <1>1. ASSUME Scanning
        PROVE  /\ request.engine \in Engines /\ sql \in Seq(Symbols) /\ index \in 1..Len(sql)
               /\ dialect = Dialects[request.engine] /\ Segments /\ index \in Nat
    <2>1. end # Refused
      BY <1>1 DEF GateInv, Scanning
    <2> QED
      BY Zenon, <1>1, <2>1, ScanFacts DEF SegmentInv
  <1>2. ASSUME Scanning, UNCHANGED <<request, pc>>, Segments' PROVE SegmentInv'
    <2>1. pc' # "done"
      BY <1>2 DEF Scanning
    <2> QED
      BY Zenon, <1>2, <2>1 DEF SegmentInv
  <1>3. ASSUME Scanning, UNCHANGED <<request, pc, seen, end>>, IsTrivia(sql, dialect, index, index')
        PROVE  SegmentInv'
    <2>1. sql' = sql /\ dialect' = dialect
      BY <1>3 DEF sql, dialect
    <2>2. /\ Uncut(sql, dialect, index) => Uncut(sql, dialect, index')
          /\ NothingBefore(sql, dialect, index) => NothingBefore(sql, dialect, index')
          /\ StatementBefore(sql, dialect, index) => StatementBefore(sql, dialect, index')
          /\ EndedBefore(sql, dialect, index) => EndedBefore(sql, dialect, index')
      BY Zenon, <1>1, <1>3, BeforeTrivia
    <2>3. Segments'
      BY Zenon, <1>1, <1>3, <2>1, <2>2 DEF Segments
    <2> QED
      BY Zenon, <1>2, <1>3, <2>3
  <1>4. ASSUME Scanning, UNCHANGED <<request, pc, seen>>, ~seen, Comment = None,
               sql[index] \notin Spaces, index' \in Nat, index' > index, end' # None,
               SegmentEnds(sql, index, dialect) = SegmentEnds(sql, index', dialect)
        PROVE  SegmentInv'
    <2>1. sql' = sql /\ dialect' = dialect /\ ~seen'
      BY <1>4 DEF sql, dialect
    <2>2. Uncut(sql, dialect, index')
      BY Zenon, <1>1, <1>4 DEF Uncut, Segments
    <2>3. StatementBefore(sql, dialect, index')
      <3>1. CASE end = None
        <4>1. NothingBefore(sql, dialect, index)
          BY Zenon, <1>1, <1>4, <3>1 DEF Segments
        <4> QED
          BY Zenon, <1>1, <1>4, <4>1, BeginsHere DEF Comment
      <3>2. CASE end # None
        <4>1. PICK p \in 1..Len(sql) :
                p < index /\ \A m \in p..Len(sql) : ~IsBlank(SubSeq(sql, 1, m), dialect)
          BY Zenon, <1>1, <1>4, <3>2 DEF Segments, StatementBefore
        <4>2. p < index'
          <5>1. p \in Nat
            OBVIOUS
          <5> QED
            BY <1>1, <1>4, <4>1, <5>1
        <4> QED
          BY Zenon, <4>1, <4>2 DEF StatementBefore
      <3> QED
        BY <3>1, <3>2
    <2>4. Segments'
      BY Zenon, <1>4, <2>1, <2>2, <2>3 DEF Segments
    <2> QED
      BY Zenon, <1>2, <1>4, <2>4
  <1>5. CASE SkipComment
    <2>1. Scanning /\ UNCHANGED <<request, pc, seen, end>>
      BY Zenon, <1>5 DEF SkipComment
    <2>2. IsTrivia(sql, dialect, index, index')
      BY Zenon, <1>5 DEF SkipComment, IsTrivia, Comment
    <2> QED
      BY Zenon, <1>3, <2>1, <2>2
  <1>6. CASE SkipSpace
    <2>1. Scanning /\ UNCHANGED <<request, pc, seen, end>>
      BY Zenon, <1>6 DEF SkipSpace
    <2>2. IsTrivia(sql, dialect, index, index')
      BY Zenon, <1>6 DEF SkipSpace, IsTrivia
    <2> QED
      BY Zenon, <1>3, <2>1, <2>2
  <1>7. CASE Terminator
    <2>1. /\ Scanning /\ UNCHANGED <<request, pc, end>> /\ ~seen /\ sql[index] = ";"
          /\ seen' = TRUE /\ index' = index + 1
      BY Zenon, <1>7 DEF Terminator, Significant
    <2>2. sql' = sql /\ dialect' = dialect
      BY <2>1 DEF sql, dialect
    <2>3. end # None => EndedBefore(sql, dialect, index + 1)
      <3>1. end # None => Uncut(sql, dialect, index) /\ StatementBefore(sql, dialect, index)
        BY Zenon, <1>1, <2>1 DEF Segments
      <3> QED
        BY Zenon, <1>1, <2>1, <3>1, EndsHere
    <2>4. Segments'
      BY Zenon, <2>1, <2>2, <2>3 DEF Segments
    <2> QED
      BY Zenon, <1>2, <2>1, <2>4
  <1>8. CASE TakeLiteral
    <2>1. /\ Scanning /\ UNCHANGED <<request, pc, seen>> /\ ~seen /\ Comment = None
          /\ sql[index] \notin Spaces /\ Literal \notin {None, Refused}
          /\ index' = Literal /\ end' = Literal
      BY Zenon, <1>8 DEF TakeLiteral, Significant
    <2>2. Literal # None /\ Literal # Refused
      BY Zenon, <2>1
    <2>3. Literal \in Nat /\ Literal > index + 1
      BY Zenon, <1>1, <2>1, LiteralAt DEF Literal
    <2>4. index' \in Nat /\ index' > index /\ end' # None
      BY <1>1, <2>1, <2>2, <2>3
    <2>5. SegmentEnds(sql, index, dialect) = SegmentEnds(sql, index', dialect)
      BY Zenon, <1>1, <2>1, <2>2, UncutBehind DEF Comment, Literal
    <2> QED
      BY Zenon, <1>4, <2>1, <2>4, <2>5
  <1>9. CASE TakeSymbol
    <2>1. /\ Scanning /\ UNCHANGED <<request, pc, seen>> /\ ~seen /\ Comment = None
          /\ sql[index] \notin Spaces /\ Literal = None /\ sql[index] # ";"
          /\ index' = index + 1 /\ end' = index + 1
      BY Zenon, <1>9 DEF TakeSymbol, Significant
    <2>2. index' \in Nat /\ index' > index /\ end' # None
      <3>1. index \in Nat
        BY <1>1, <2>1
      <3>2. index' = index + 1 /\ end' = index + 1
        BY Zenon, <2>1
      <3> QED
        BY <3>1, <3>2 DEF None
    <2>3. SegmentEnds(sql, index, dialect) = SegmentEnds(sql, index', dialect)
      BY Zenon, <1>1, <2>1, UncutBehind DEF Comment, Literal
    <2> QED
      BY Zenon, <1>4, <2>1, <2>2, <2>3
  <1>10. CASE ScanRefuses
    <2>1. end' = Refused /\ pc' = "single"
      BY Zenon, <1>10 DEF ScanRefuses
    <2>2. pc' # "done"
      BY <2>1
    <2> QED
      BY Zenon, <2>1, <2>2 DEF SegmentInv
  <1>11. ASSUME UNCHANGED <<request, index, seen, end>>
         PROVE  /\ end' # Refused => Segments'
                /\ IsSingleStatement' <=> IsSingleStatement
    <2>1. sql' = sql /\ dialect' = dialect
      BY <1>11 DEF sql, dialect
    <2>2. Segments' <=> Segments
      BY Zenon, <1>11, <2>1 DEF Segments
    <2>3. IsSingleStatement' <=> IsSingleStatement
      BY Zenon, <1>11 DEF IsSingleStatement
    <2> QED
      BY Zenon, <1>11, <2>2, <2>3 DEF SegmentInv
  <1>12. CASE ScanEnds
    <2>1. UNCHANGED <<request, index, seen, end>> /\ pc' = "single"
      BY Zenon, <1>12 DEF ScanEnds
    <2>2. pc' # "done"
      BY <2>1
    <2> QED
      BY Zenon, <1>11, <2>1, <2>2 DEF SegmentInv
  <1>13. CASE AssertSingleStatement
    <2>1. UNCHANGED <<request, index, seen, end>>
      BY Zenon, <1>13 DEF AssertSingleStatement
    <2>2. pc' = "done" => answer' = "notSingle"
      BY <1>13 DEF AssertSingleStatement
    <2> QED
      BY Zenon, <1>11, <2>1, <2>2 DEF SegmentInv
  <1>14. ASSUME pc \in {"read", "wrap"}, UNCHANGED <<request, index, seen, end>> PROVE SegmentInv'
    <2>1. "multi" \in request.optouts \/ IsSingleStatement
      BY Zenon, <1>14 DEF GateInv
    <2>2. "multi" \notin request'.optouts => IsSingleStatement'
      BY Zenon, <1>11, <1>14, <2>1
    <2> QED
      BY Zenon, <1>11, <1>14, <2>2 DEF SegmentInv
  <1>15. CASE AssertReadStatement
    BY <1>14, <1>15 DEF AssertReadStatement
  <1>16. CASE WrapInLimit
    BY <1>14, <1>16 DEF WrapInLimit
  <1>17. CASE UNCHANGED vars
    <2>1. UNCHANGED <<request, index, seen, end>> /\ pc' = pc /\ answer' = answer /\ request' = request
      BY Zenon, <1>17 DEF vars
    <2> QED
      BY Zenon, <1>11, <2>1 DEF SegmentInv
  <1> QED
    BY Zenon, <1>5, <1>6, <1>7, <1>8, <1>9, <1>10, <1>12, <1>13, <1>15, <1>16, <1>17 DEF Next

\* Two ends, one put in front of the other.
LEMMA TwoEnds ==
  ASSUME NEW t \in Nat, NEW e \in Nat
  PROVE  LET ends == Cut(t, <<e>>)
         IN DOMAIN ends = {1, 2} /\ ends[1] = t /\ ends[2] = e
  <1> DEFINE ends == <<t>> \o <<e>>
  <1>1. <<e>> # <<>>
    <2>1. Len(<<e>>) = 1 /\ Len(<<>>) = 0
      OBVIOUS
    <2> QED
      BY <2>1
  <1>2. Cut(t, <<e>>) = ends
    BY Zenon, <1>1 DEF Cut
  <1>3. ends \in Seq(Nat) /\ Len(ends) = 2 /\ ends[1] = t /\ ends[2] = e
    OBVIOUS
  <1> HIDE DEF ends
  <1>4. DOMAIN ends = 1..2
    BY <1>3
  <1>5. 1..2 = {1, 2}
    OBVIOUS
  <1> QED
    BY Zenon, <1>2, <1>3, <1>4, <1>5

\* Of the segments of such a text, the first alone holds a statement.
LEMMA OnlyFirstHolds ==
  ASSUME NEW engine \in Engines, NEW s \in Seq(Symbols), NEW i \in Positions, i > Len(s),
         \/ /\ Uncut(s, Dialects[engine], i) /\ StatementBefore(s, Dialects[engine], i)
         \/ EndedBefore(s, Dialects[engine], i)
  PROVE  NonBlankSegments(s, Dialects[engine]) = {1}
  <1> DEFINE d == Dialects[engine]
             n == Len(s)
             ends == SegmentEnds(s, 1, d)
             segments == StatementSegments(s, d)
  <1>1. n \in Nat /\ i \in Nat
    BY DEF Positions
  <1>2. SegmentEnds(s, i, d) = <<n + 1>>
    BY SegmentEndsTurns
  <1>3. segments = [k \in DOMAIN ends |-> SubSeq(s, IF k = 1 THEN 1 ELSE ends[k - 1] + 1, ends[k] - 1)]
    BY Zenon DEF StatementSegments
  <1>4. NonBlankSegments(s, d) = {k \in DOMAIN segments : ~IsBlank(segments[k], d)}
    BY Zenon DEF NonBlankSegments
  <1>5. CASE Uncut(s, d, i) /\ StatementBefore(s, d, i)
    <2>1. ends = <<n + 1>>
      BY Zenon, <1>2, <1>5 DEF Uncut
    <2>2. DOMAIN ends = {1} /\ ends[1] = n + 1
      <3> HIDE DEF ends, n
      <3> QED
        BY <2>1
    <2>3. PICK p \in 1..n : p < i /\ \A m \in p..n : ~IsBlank(SubSeq(s, 1, m), d)
      BY Zenon, <1>5 DEF StatementBefore
    <2>4. ~IsBlank(SubSeq(s, 1, n), d)
      <3>1. n \in p..n
        BY <1>1
      <3> QED
        BY Zenon, <2>3, <3>1
    <2>5. segments[1] = SubSeq(s, 1, n) /\ DOMAIN segments = {1}
      <3>1. segments[1] = SubSeq(s, 1, ends[1] - 1) /\ DOMAIN segments = {1}
        BY Zenon, <1>3, <2>2
      <3>2. ends[1] - 1 = n
        <4> HIDE DEF ends, n
        <4> QED
          BY <1>1, <2>2
      <3> QED
        BY Zenon, <3>1, <3>2
    <2> HIDE DEF segments
    <2> QED
      BY Zenon, <1>4, <2>4, <2>5
  <1>6. CASE EndedBefore(s, d, i)
    <2>1. PICK t \in 1..n :
            /\ t < i /\ ~IsBlank(SubSeq(s, 1, t - 1), d)
            /\ ends = Cut(t, SegmentEnds(s, i, d))
            /\ SkipFrom(SubSeq(s, t + 1, n), 1, d) = SkipFrom(SubSeq(s, t + 1, n), i - t, d)
      BY Zenon, <1>6 DEF EndedBefore
    <2>2. t \in Nat /\ t <= n /\ t >= 1
      BY <1>1
    <2>3. ends = Cut(t, <<n + 1>>)
      BY Zenon, <1>2, <2>1
    <2>4. DOMAIN ends = {1, 2} /\ ends[1] = t /\ ends[2] = n + 1
      <3>1. t \in Nat /\ n + 1 \in Nat
        BY <1>1, <2>2
      <3>2. LET cut == Cut(t, <<n + 1>>)
            IN DOMAIN cut = {1, 2} /\ cut[1] = t /\ cut[2] = n + 1
        BY <3>1, TwoEnds
      <3> HIDE DEF ends, n
      <3> QED
        BY Zenon, <2>3, <3>2
    <2>5. segments[1] = SubSeq(s, 1, t - 1) /\ DOMAIN segments = {1, 2}
      BY Zenon, <1>3, <2>4
    <2>6. segments[2] = SubSeq(s, t + 1, n)
      <3>1. 2 # 1 /\ 2 - 1 = 1 /\ (n + 1) - 1 = n
        BY <1>1
      <3>2. segments[2] = SubSeq(s, ends[2 - 1] + 1, ends[2] - 1)
        <4>1. segments[2] = SubSeq(s, IF 2 = 1 THEN 1 ELSE ends[2 - 1] + 1, ends[2] - 1)
          BY Zenon, <1>3, <2>4
        <4> QED
          BY Zenon, <3>1, <4>1
      <3> QED
        BY Zenon, <2>4, <3>1, <3>2
    <2>7. IsBlank(SubSeq(s, t + 1, n), d)
      <3> DEFINE u == SubSeq(s, t + 1, n)
      <3>1. IsSlice(u, s, t, n)
        BY <1>1, <2>2, SubSeqIsSlice
      <3>2. u \in Seq(Symbols) /\ Len(u) = n - t
        BY Zenon, <3>1 DEF IsSlice
      <3>3. i - t \in Int /\ i - t > n - t
        BY <1>1, <2>2
      <3>4. i - t \notin 1..Len(u)
        <4> HIDE DEF u, n
        <4> QED
          BY <1>1, <2>2, <3>2, <3>3
      <3>5. SkipFrom(u, i - t, d) = i - t
        <4> HIDE DEF u
        <4> QED
          BY Zenon, <3>2, <3>3, <3>4, SkipTurns
      <3> QED
        BY Zenon, <2>1, <3>2, <3>3, <3>5 DEF IsBlank, SkipFrom
    <2> HIDE DEF segments, ends, n
    <2>8. \A k : k \in NonBlankSegments(s, d) <=> k = 1
      BY Zenon, <1>4, <2>1, <2>5, <2>6, <2>7
    <2> QED
      BY Zenon, <2>8
  <1> QED
    BY Zenon, <1>5, <1>6

\* So the gates agree.
LEMMA SegmentInvMeans == GateInv /\ SegmentInv => GatesAgree
  <1> SUFFICES ASSUME GateInv, SegmentInv,
                      pc = "done", answer # "notSingle", "multi" \notin request.optouts
               PROVE  Cardinality(NonBlankSegments(sql, dialect)) = 1
    BY DEF GatesAgree
  <1>1. IsSingleStatement /\ pc # "scan"
    BY DEF SegmentInv
  <1>2. end # None /\ end # Refused
    BY Zenon, <1>1, SingleMeans
  <1>3. /\ request.engine \in Engines /\ sql \in Seq(Symbols) /\ index \in Positions
        /\ index > Len(sql) /\ dialect = Dialects[request.engine]
    BY Zenon, <1>1, <1>2 DEF GateInv, dialect
  <1>4. \/ Uncut(sql, dialect, index) /\ StatementBefore(sql, dialect, index)
        \/ EndedBefore(sql, dialect, index)
    BY Zenon, <1>2 DEF SegmentInv, Segments
  <1>5. NonBlankSegments(sql, dialect) = {1}
    BY Zenon, <1>3, <1>4, OnlyFirstHolds
  <1> QED
    BY <1>5, FS_Singleton

\* Where the first gate passes a text as one statement, the read gate finds
\* exactly one segment with a statement in it: the two, which walk the text each
\* on its own, agree on its comments, its literals and its ";", whatever its
\* length.
THEOREM GatesAlwaysAgree == Spec => []GatesAgree
  <1>1. Init => GateInv
    BY GateInvInit
  <1>2. Init => SegmentInv
    BY SegmentInvInit
  <1>3. GateInv /\ [Next]_vars => GateInv'
    BY GateInvStep
  <1> QED
    BY <1>1, <1>2, <1>3, SegmentInvStep, SegmentInvMeans, PTL DEF Spec

=============================================================================
