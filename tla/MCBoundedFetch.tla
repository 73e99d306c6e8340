--------------------------- MODULE MCBoundedFetch ---------------------------
(***************************************************************************)
(* BoundedFetch over the rows of ResultRows.  Long results are made of four  *)
(* rows: with a cap of 33 bytes in place of 8 MiB four narrow rows or two    *)
(* rows of text fit exactly, three rows of text do not although their        *)
(* estimate does, the wide row fits but for the brackets around it, and the  *)
(* cell of the last has keys that collide, so that its estimate stops a      *)
(* fetch of rows that fit.                                                   *)
(* Short results are made of every cell of depth MaxDepth + 1 or less.       *)
(***************************************************************************)
EXTENDS BoundedFetch, ResultRows

CONSTANT Longest

Chars(id, n) == [id |-> id, bytes |-> n]
One    == Scalar("bare", 1, Chars("1", 1))
OneStr == Scalar("text", 1, Chars("1", 1))
Name   == Scalar("text", 1, Chars("a", 1))

Row(cells) == [k \in DOMAIN cells |-> [key |-> Scalar("text", 1, Chars(k, 1)), value |-> cells[k]]]

\* One of each type: text of a control character, a surrogate, three bytes.
Scalars == {
  One, OneStr,
  Scalar("nonfinite", 3, Chars("nan", 3)),
  Scalar("text", 1, Chars("control", 6)),
  Scalar("text", 1, Chars("surrogate", 7)),
  Scalar("bytes", 3, Chars("base64", 4)),
  Scalar("other", 4, Chars("1.50", 4)) }

\* Two keys that may become the same string, and containers of one or two.
Containers(values) ==
  {List(<<>>), Dict(<<>>)}
  \cup {List(<<v>>) : v \in values} \cup {List(<<v, One>>) : v \in values}
  \cup {Dict(<<[key |-> key, value |-> v]>>) : key \in Scalars, v \in values}
  \cup {Dict(<<[key |-> key, value |-> v], [key |-> One, value |-> One]>>) :
          key \in Scalars \ {One}, v \in values}

Shallow == Scalars \cup Containers({One, Scalar("text", 1, Chars("control", 6))})
Long    == Scalar("text", 9, Chars("long", 9))
Nested  == Containers({List(<<One>>), Dict(<<[key |-> Name, value |-> One]>>),
                       List(<<List(<<Long>>)>>), Dict(<<[key |-> Name, value |-> List(<<Long>>)]>>)})

Narrow    == Row(<<One>>)
Text      == Row(<<Scalar("text", 1, Chars("surrogate", 7))>>)
Wide      == Row(<<Scalar("text", 9, Chars("wide", 25))>>)
Colliding == Row(<<Dict(<<[key |-> OneStr, value |-> One], [key |-> One, value |-> One]>>)>>)

LongRows  == {Narrow, Text, Wide, Colliding}
ShortRows == {Row(<<cell>>) : cell \in Shallow} \cup {Row(<<cell, One>>) : cell \in Nested}

MCResults ==
  UNION {[1..n -> LongRows] : n \in 0..Longest}
  \cup {<<row>> : row \in ShortRows} \cup {<<row, Wide>> : row \in ShortRows}

\* The three numbers of every row, computed once.
Rows        == LongRows \cup ShortRows
Estimates   == [row \in Rows |-> EstimatedRowBytes(row)]
Measures    == [row \in Rows |-> NormalisedRowBytes(row)]
Caps        == [row \in Rows |-> CappedCells(row)]

MCApproxRowSize(row) == Estimates[row]
MCRowJsonBytes(row)  == Measures[row]
MCDepthCapped(row)   == Caps[row]

\* No two keys of a dict become the same string.
RECURSIVE KeysDiffer(_)
KeysDiffer(value) ==
  CASE value.type = "dict" ->
         /\ \A j, k \in DOMAIN value.members :
              value.members[j].key.string = value.members[k].key.string => j = k
         /\ \A k \in DOMAIN value.members : KeysDiffer(value.members[k].value)
    [] value.type = "list" -> \A k \in DOMAIN value.items : KeysDiffer(value.items[k])
    [] OTHER -> TRUE

\* As long as no cell has keys that collide once they are strings - the one case
\* result_bounds.py:29-33 knows of -, the estimate is the lower bound its
\* docstring says, whatever the row holds (result_bounds.py:76): a fetch that it
\* stops ends in the size refusal, and a query refused for its row cap really has
\* more rows, both caps hit at once included.
RowCapBlameIsTrueWithinBound ==
  (\A i \in DOMAIN result : \A k \in DOMAIN result[i] : KeysDiffer(result[i][k].value)) =>
    EstimatesAreBounds /\ RowCapRefusalIsTrue

=============================================================================
