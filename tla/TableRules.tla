----------------------------- MODULE TableRules -----------------------------
(***************************************************************************)
(* A column of a loaded table, from what its cells are to what an exact    *)
(* answer says of it: the type inferred, the schema published in the blurb *)
(* (data/table-schema.ts, data/blurb.ts), the value stored                 *)
(* (data/table-loader.ts), the defects reported (data/data-quality.ts),    *)
(* the grounding of a condition (agent/grounding.ts), the query built from *)
(* it (data/query-builder.ts).                                             *)
(*                                                                         *)
(* A cell, or a value a planner writes, is a text [is, n, as]: what it     *)
(* reads as (int, dec, date, bool, word, empty), which one, and how it is  *)
(* spelled (an int padded with zeros, a word in another case).  Numbers    *)
(* are in tenths.  The n of a date is its year, which is where parseInt    *)
(* stops.                                                                  *)
(***************************************************************************)
EXTENDS Integers, Sequences, SequencesExt, FiniteSets

CONSTANTS
    Null,
    MAX_DOMAIN_SIZE

Text(is, n, as) == [is |-> is, n |-> n, as |-> as]
Readings == {"int", "dec", "number", "date", "bool", "truth", "word", "empty"}
Texts == {t \in [is : Readings, n : Int, as : {"plain", "padded", "true", "lower"}] :
            /\ t.is = "int" => t.n % 10 = 0
            /\ t.is = "word" => t.as \in {"plain", "lower"}}
ASSUME NullAssumption == Null \notin Int \cup Texts \cup {"empty_column", "duplicate_identifier"}

Number(tenths) == Text("number", tenths, "plain")
Truth(b) == Text("truth", IF b THEN 1 ELSE 0, "plain")
Present(cells) == {i \in DOMAIN cells : cells[i].is # "empty"}

-----------------------------------------------------------------------------
(* inferColumnType: the narrowest type that every cell fits.               *)
Fits(c, type) ==
    CASE type = "integer" -> c.is = "int"
      [] type = "numeric" -> c.is \in {"int", "dec"}
      [] type = "date"    -> c.is = "date"
      [] type = "boolean" -> c.is = "bool"
      [] OTHER -> TRUE
Ordered(type) == type \in {"integer", "numeric"}
InferType(cells) ==
    LET all(type) == Present(cells) # {} /\ \A i \in Present(cells) : Fits(cells[i], type)
    IN CASE all("integer") -> "integer"
         [] ~all("integer") /\ all("numeric") -> "numeric"
         [] ~all("numeric") /\ all("date") -> "date"
         [] ~all("numeric") /\ ~all("date") /\ all("boolean") -> "boolean"
         [] OTHER -> "text"

(* coerceSample and coerceValueForInsert.                                  *)
Coerce(c, type) ==
    CASE Ordered(type) -> Number(c.n)
      [] type = "boolean" -> Truth(c.n = 1)
      [] OTHER -> c
Stored(cells, type) ==
    [i \in DOMAIN cells |-> IF cells[i].is = "empty" THEN Null ELSE Coerce(cells[i], type)]

Values(cells, type) == {Coerce(cells[i], type) : i \in Present(cells)}
ValueDomain(cells, type) ==
    LET values == Values(cells, type)
    IN IF type \in {"date", "numeric"} \/ values = {} \/ Cardinality(values) > MAX_DOMAIN_SIZE
       THEN Null ELSE values
(* Dates are compared as text, which is by year when that comes first.     *)
Least(S) == CHOOSE v \in S : \A w \in S : v.n <= w.n
Greatest(S) == CHOOSE v \in S : \A w \in S : w.n <= v.n
ValueRange(cells, type) ==
    LET values == Values(cells, type)
    IN IF ~(Ordered(type) \/ type = "date") \/ values = {} THEN Null
       ELSE [min |-> Least(values).n, max |-> Greatest(values).n]
Samples(cells, type) ==
    LET first == {i \in Present(cells) : Cardinality({j \in Present(cells) : j <= i}) <= 3}
    IN {Coerce(cells[i], type) : i \in first}

ColumnSchema(cells) ==
    LET type == InferType(cells)
    IN [type |-> type,
        nullable |-> Present(cells) # DOMAIN cells,
        value_domain |-> ValueDomain(cells, type),
        value_range |-> ValueRange(cells, type),
        sample_values |-> Samples(cells, type)]

(* describeColumn: what the planner reads of a column.                     *)
Published(col) ==
    IF col.value_domain # Null THEN col.value_domain ELSE col.sample_values

-----------------------------------------------------------------------------
(* normalizeHeaders.  A header is [base, suffix]: its normal form, and the *)
(* number it ends in (0 for none).  The count is per normal form, so a     *)
(* header that ends in the number another is given meets it.               *)
NormalizeHeaders(headers) ==
    [i \in DOMAIN headers |->
        LET earlier == Cardinality({j \in 1..(i - 1) : headers[j] = headers[i]})
        IN IF earlier = 0 THEN <<headers[i]>> ELSE <<headers[i], earlier + 1>>]
(* The name as text: <<[a, 0], 2>> and <<[a, 2]>> are both "a_2".          *)
Spelled(name) ==
    IF Len(name) = 2 /\ name[1].suffix = 0 THEN <<[base |-> name[1].base, suffix |-> name[2]]>>
    ELSE name
SqlNames(headers) ==
    [i \in DOMAIN headers |-> Spelled(NormalizeHeaders(headers)[i])]

(* extractWorkbookLegend: a note of a data dictionary goes to the column   *)
(* of exactly its name, the last one counts; any other note, and whatever  *)
(* the document says of itself, goes to the table.                         *)
(* An entry is [sheet, key, text] with the key a header.                   *)
ColumnNote(headers, entries, i) ==
    LET own == {e \in DOMAIN entries : /\ entries[e].sheet = "dictionary"
                                       /\ <<entries[e].key>> = SqlNames(headers)[i]}
    IN IF own = {} THEN Null ELSE entries[CHOOSE e \in own : \A f \in own : f <= e].text
TableNotes(headers, entries) ==
    {e \in DOMAIN entries : \/ entries[e].sheet = "metadata"
                            \/ \A i \in DOMAIN headers : <<entries[e].key>> # SqlNames(headers)[i]}

-----------------------------------------------------------------------------
(* checkDataQuality.  named: the column's name looks like an identifier's. *)
(* A value is what is written, not what is stored.                         *)
Written(cells) == {cells[i] : i \in Present(cells)}
LooksLikeIdentifier(cells, type, named) ==
    /\ type \notin {"date", "numeric"}
    /\ \/ named
       \/ /\ Cardinality(Present(cells)) >= 4
          /\ 100 * Cardinality(Written(cells)) >= 95 * Cardinality(Present(cells))
Finding(cells, named) ==
    CASE Present(cells) = {} -> "empty_column"
      [] /\ Present(cells) # {}
         /\ LooksLikeIdentifier(cells, InferType(cells), named)
         /\ Cardinality(Written(cells)) < Cardinality(Present(cells)) -> "duplicate_identifier"
      [] OTHER -> Null

-----------------------------------------------------------------------------
(* checkGrounding of a condition [op, value] on a column.  Text compares   *)
(* without case, a number as Number() reads it, a boolean by the word      *)
(* "true".                                                                 *)
NumberOf(v) == IF v.is \in {"int", "dec", "number"} THEN v.n ELSE Null
SameCase(v) == IF v.is = "word" THEN Text(v.is, v.n, "plain") ELSE v
GroundingForm(v, type) ==
    CASE Ordered(type) -> NumberOf(v)
      [] type = "boolean" -> (v.is = "truth" \/ v.as = "true") /\ v.n = 1
      [] OTHER -> SameCase(v)
InDomain(v, col) ==
    /\ Ordered(col.type) => NumberOf(v) # Null
    /\ \E d \in col.value_domain : GroundingForm(d, col.type) = GroundingForm(v, col.type)
Satisfiable(op, v, col) ==
    Ordered(col.type) /\ col.value_range # Null /\ NumberOf(v) # Null =>
        CASE op = "gte" -> v.n <= col.value_range.max
          [] op = "gt"  -> v.n < col.value_range.max
          [] op = "lte" -> v.n >= col.value_range.min
          [] op = "lt"  -> v.n > col.value_range.min
Equalities == {"eq", "neq"}
Comparisons == {"gt", "gte", "lt", "lte"}
GroundedIn(cond, col) ==
    CASE cond.op \in Equalities /\ col.value_domain # Null -> InDomain(cond.value, col)
      [] cond.op = "in" /\ col.value_domain # Null ->
            \A i \in DOMAIN cond.value : InDomain(cond.value[i], col)
      [] cond.op \in Comparisons -> Satisfiable(cond.op, cond.value, col)
      [] OTHER -> TRUE
=============================================================================
