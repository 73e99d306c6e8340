----------------------------- MODULE ResultRows -----------------------------
(***************************************************************************)
(* Two passes over a row: the normaliser of tools/result_rows.py, which      *)
(* makes it what is measured and sent, and the estimate of result_bounds.py, *)
(* which an engine makes of the row as it comes.  The estimate is meant to   *)
(* be a lower bound of the measurement.                                      *)
(*                                                                         *)
(* A value is a scalar, a dict or a list.  A scalar has a type, the size the *)
(* estimator counts (len of the value, or of str(value)) and the string it   *)
(* has in JSON, of which the identity and the bytes matter:                  *)
(*   "bare"       None, bool, int, finite float: rendered without quotes     *)
(*   "nonfinite"  a float rendered as a string                               *)
(*   "text"       str; escapes, multibyte characters and the surrogates of   *)
(*                _json_safe_text make more bytes than characters            *)
(*   "bytes"      rendered in base64                                         *)
(*   "other"      Decimal, datetime, ...: str(value), by whoever does it     *)
(* A dict is a sequence of members [key, value] with scalar keys, and so is  *)
(* a row, whose keys are the names of the columns.                           *)
(***************************************************************************)
EXTENDS Integers, Sequences, FiniteSets, SequencesExt

CONSTANT MaxDepth   \* MAX_CELL_NESTING_DEPTH

Scalar(type, size, string) == [type |-> type, size |-> size, string |-> string]
Dict(members) == [type |-> "dict", members |-> members]
List(items)   == [type |-> "list", items |-> items]

Quotes == 2
Sum(s) == FoldSeq(LAMBDA n, total : n + total, 0, s)
AtLeast0(n) == IF n < 0 THEN 0 ELSE n

-----------------------------------------------------------------------------
\* The normaliser.

Placeholder == [id |-> "placeholder", bytes |-> 4]

\* _json_safe_value, and the containers it caps below a value.  Members whose
\* keys become the same string become one, with the value of the last.
RECURSIVE Normalise(_, _)
Normalise(value, depth) ==
  LET MemberOf(string) ==
        SelectSeq(value.members, LAMBDA m : m.key.string = string)
  IN CASE value.type = "bare" -> [type |-> "bare", string |-> value.string]
       [] value.type \in {"nonfinite", "text", "bytes", "other"} ->
            [type |-> "text", string |-> value.string]
       [] value.type \in {"dict", "list"} /\ depth >= MaxDepth ->
            [type |-> "text", string |-> Placeholder]
       [] value.type = "dict" /\ depth < MaxDepth ->
            [type |-> "dict",
             members |-> [string \in {value.members[k].key.string : k \in DOMAIN value.members} |->
                            Normalise(Last(MemberOf(string)).value, depth + 1)]]
       [] value.type = "list" /\ depth < MaxDepth ->
            [type |-> "list",
             items |-> [k \in DOMAIN value.items |-> Normalise(value.items[k], depth + 1)]]

\* row_json_bytes of a normalised value: compact JSON.
RECURSIVE JsonBytes(_)
JsonBytes(json) ==
  CASE json.type = "bare" -> json.string.bytes
    [] json.type = "text" -> json.string.bytes + Quotes
    [] json.type = "dict" ->
         2 + MapThenSumSet(LAMBDA string : string.bytes + Quotes + JsonBytes(json.members[string]),
                           DOMAIN json.members)
           + AtLeast0(2 * Cardinality(DOMAIN json.members) - 1)
    [] json.type = "list" ->
         2 + Sum([k \in DOMAIN json.items |-> JsonBytes(json.items[k])])
           + AtLeast0(Len(json.items) - 1)

\* The normalised form of a row: its cells each from depth 0.
NormaliseRow(row) ==
  [type |-> "dict",
   members |-> [string \in {row[k].key.string : k \in DOMAIN row} |->
                  Normalise(Last(SelectSeq(row, LAMBDA m : m.key.string = string)).value, 0)]]

NormalisedRowBytes(row) == JsonBytes(NormaliseRow(row))

\* depth_capped_containers of a value is not 0.
RECURSIVE Capped(_, _)
Capped(value, depth) ==
  CASE value.type = "dict" ->
         depth >= MaxDepth \/ \E k \in DOMAIN value.members : Capped(value.members[k].value, depth + 1)
    [] value.type = "list" ->
         depth >= MaxDepth \/ \E k \in DOMAIN value.items : Capped(value.items[k], depth + 1)
    [] OTHER -> FALSE

\* _normalise_cell: cells are counted, however many containers were capped in one.
CappedCells(row) == Cardinality({k \in DOMAIN row : Capped(row[k].value, 0)})

-----------------------------------------------------------------------------
\* The estimate.

\* _approx_key_size: every key is quoted.
KeySize(key) == key.size + Quotes

\* Mutant: the estimator descends for ever.
BottomlessDepth(depth) == FALSE

\* The depth at which the normaliser puts its placeholder.
TooDeep(depth) == depth >= MaxDepth

\* _approx_size
RECURSIVE ApproxSize(_, _)
ApproxSize(value, depth) ==
  CASE value.type \in {"bare", "nonfinite"}      -> value.size
    [] value.type \in {"text", "bytes", "other"} -> value.size + Quotes
    [] value.type \in {"dict", "list"} /\ TooDeep(depth) -> Quotes
    [] value.type = "dict" /\ ~TooDeep(depth) ->
         2 + Sum([k \in DOMAIN value.members |->
                    KeySize(value.members[k].key) + ApproxSize(value.members[k].value, depth + 1)])
           + AtLeast0(2 * Len(value.members) - 1)
    [] value.type = "list" /\ ~TooDeep(depth) ->
         2 + Sum([k \in DOMAIN value.items |-> ApproxSize(value.items[k], depth + 1)])
           + AtLeast0(Len(value.items) - 1)

\* approx_row_size
EstimatedRowBytes(row) ==
  2 + Sum([k \in DOMAIN row |-> KeySize(row[k].key) + ApproxSize(row[k].value, 0)])
    + AtLeast0(2 * Len(row) - 1)

=============================================================================
