----------------------------- MODULE TableQuery -----------------------------
(***************************************************************************)
(* The query built from a grounded condition, what the database answers,   *)
(* and what is said of the answer: data/query-builder.ts,                  *)
(* agent/sql-render.ts, agent/compose-exact.ts, and the rules of           *)
(* TableRules they rely on.                                                *)
(***************************************************************************)
EXTENDS TableRules

(* coerceFilterValue: parseInt stops at the first character that is no     *)
(* digit.  Invalid stands for a QueryValidationError.                      *)
Invalid == Text("invalid", 0, "plain")
Whole(tenths) == IF tenths >= 0 THEN 10 * (tenths \div 10) ELSE -(10 * ((-tenths) \div 10))
FilterValueExact(v, type) ==     \* mutant: a truth of any spelling, text for the rest
    CASE type = "boolean" -> Truth(v.n = 1)
      [] type # "boolean" -> v
FilterValue(v, type) ==
    CASE Ordered(type) /\ v.is \in {"word", "bool", "truth", "empty"} -> Invalid
      [] Ordered(type) /\ v.is = "date" -> Number(10 * v.n)
      [] type = "integer" /\ v.is \in {"int", "dec", "number"} -> Number(Whole(v.n))
      [] type = "numeric" /\ v.is \in {"int", "dec", "number"} -> Number(v.n)
      [] type = "boolean" -> Truth((v.is \in {"bool", "truth"} /\ v.n = 1) \/ (v.is = "int" /\ v.n = 10))
      [] OTHER -> v

(* buildCondition: whether there is a query at all.                        *)
Builds(cond, type) ==
    CASE cond.op = "in" -> /\ cond.value # <<>>
                           /\ \A i \in DOMAIN cond.value : FilterValue(cond.value[i], type) # Invalid
      [] cond.op \in Equalities \cup Comparisons -> FilterValue(cond.value, type) # Invalid
      [] OTHER -> TRUE

(* What the database makes of it: a null satisfies no comparison.          *)
Compares(op, x, y) ==
    CASE op = "eq" -> x = y
      [] op = "neq" -> x # y
      [] op = "gt" -> x.n > y.n
      [] op = "gte" -> x.n >= y.n
      [] op = "lt" -> x.n < y.n
      [] op = "lte" -> x.n <= y.n
Selected(cond, cells) ==
    LET type == InferType(cells)
        stored == Stored(cells, type)
    IN {i \in DOMAIN cells :
          CASE cond.op = "is_null" -> stored[i] = Null
            [] cond.op = "is_not_null" -> stored[i] # Null
            [] cond.op = "in" -> stored[i] # Null
                 /\ \E k \in DOMAIN cond.value : stored[i] = FilterValue(cond.value[k], type)
            [] OTHER -> stored[i] # Null /\ Compares(cond.op, stored[i], FilterValue(cond.value, type))}

-----------------------------------------------------------------------------
(* The sum of f[1], ..., f[n].                                             *)
SumTo(f, n) ==
    LET sum[k \in 0..n] == IF k = 0 THEN 0 ELSE sum[k - 1] + f[k]
    IN sum[n]

(* An aggregate over the selected rows of a column; the database answers   *)
(* null for all but the count when there is none.  (The average is kept    *)
(* as a sum and a count.  CountOf is the count of a column, without its    *)
(* nulls.)                                                                 *)
AggregateBuilds(fn, type) == fn \in {"Count", "CountOf"} \/ Ordered(type)
Aggregate(fn, cells, selected) ==
    LET rows == selected \cap Present(cells)
        counted == [i \in DOMAIN cells |-> IF i \in rows THEN cells[i].n ELSE 0]
    IN CASE fn = "Count" -> Cardinality(selected)
         [] fn = "CountOf" -> Cardinality(rows)
         [] fn \notin {"Count", "CountOf"} /\ rows = {} -> Null
         [] fn = "Sum" /\ rows # {} -> SumTo(counted, Len(cells))
         [] fn = "Minimum" /\ rows # {} -> Least({cells[i] : i \in rows}).n
         [] fn = "Maximum" /\ rows # {} -> Greatest({cells[i] : i \in rows}).n

(* composeExactAnswer over results [fn, shape, value]: shape is "scalar"   *)
(* for one row of one column, anything else is not conclusive.  A null is  *)
(* Number(null), zero.                                                     *)
Told(value) == IF value = Null THEN 0 ELSE value
Conclusive(results) ==
    results # <<>> /\ \A i \in DOMAIN results : results[i].shape = "scalar" /\ results[i].fn # "none"
AdditiveIfCounted(results) == \E i \in DOMAIN results : results[i].fn \in {"Count", "Sum"}     \* mutant
Additive(results) ==
    /\ Len(results) > 1
    /\ {results[i].fn : i \in DOMAIN results} \in {{"Count"}, {"Sum"}}
ComposeExact(quantitative, results) ==
    IF ~quantitative \/ ~Conclusive(results) THEN Null
    ELSE LET told == [i \in DOMAIN results |-> Told(results[i].value)]
         IN [told |-> told, total |-> IF Additive(results) THEN SumTo(told, Len(results)) ELSE Null]

-----------------------------------------------------------------------------
(* What a condition asks, by the values themselves: the gate's own notion  *)
(* of the same value, and the order of numbers.                            *)
Means(v, c, type) == GroundingForm(v, type) = GroundingForm(Coerce(c, type), type)
Asks(op, v, cells) ==
    LET type == InferType(cells)
    IN {i \in Present(cells) :
          CASE op = "eq" -> Means(v, cells[i], type)
            [] op = "neq" -> ~Means(v, cells[i], type)
            [] OTHER -> Compares(op, cells[i], v)}

(* A value a column of the type holds as it is written: no fraction of an  *)
(* integer, no other case of a word, no boolean but true and false, no     *)
(* date for a number.                                                      *)
Plain(v, type) ==
    CASE type = "integer" -> v.is \in {"int", "number"} /\ v.n % 10 = 0
      [] type = "numeric" -> v.is \in {"int", "dec", "number"}
      [] type = "boolean" -> v.is = "truth"
      [] OTHER -> v.as # "lower" /\ v.is # "truth"

(* The gate refuses only what no row answers (of a negation: what every    *)
(* row answers), and a value a complete domain lets through is in a row.   *)
(* (A boolean written as anything but true and false is taken for false,   *)
(* and may be refused although the query would read it.)                   *)
GateHolds(cells, cond) ==
    LET col == ColumnSchema(cells) IN
    \/ ~(cond.op \in Equalities \/ (cond.op \in Comparisons /\ Ordered(col.type) /\ NumberOf(cond.value) # Null))
    \/
        /\ ~GroundedIn(cond, col) =>
              Asks(cond.op, cond.value, cells) = IF cond.op = "neq" THEN Present(cells) ELSE {}
        /\ GroundedIn(cond, col) /\ cond.op = "eq" /\ col.value_domain # Null =>
              Asks("eq", cond.value, cells) # {}

(* A condition on a value the column holds as it is written selects the    *)
(* rows it asks for, in the database: no conversion on the way (of the     *)
(* cell at the load, of the value in the query) changes the answer.  The   *)
(* exceptions of Plain are real: "score >= 4.5" runs as score >= 4, and    *)
(* "status = open" passes the gate and counts no Open.                     *)
QueryHolds(cells, cond) ==
    LET col == ColumnSchema(cells)
        asHeld == /\ Plain(cond.value, col.type)
                  /\ \A i \in Present(cells) : Plain(Coerce(cells[i], col.type), col.type)
    IN asHeld /\ (cond.op \in Equalities \/ (cond.op \in Comparisons /\ Ordered(col.type))) =>
            /\ Builds(cond, col.type)
            /\ Selected(cond, cells) = Asks(cond.op, cond.value, cells)

(* Whatever the blurb publishes of a column can be asked: the gate lets it *)
(* through, the builder takes it and the database finds it.  A list built  *)
(* of published values selects exactly what they select one by one.        *)
PublishedHolds(cells) ==
    LET col == ColumnSchema(cells)
        eq(v) == [op |-> "eq", value |-> v]
        list == [op |-> "in", value |-> SetToSeq(Published(col))]
        edge(op, n) == [op |-> op, value |-> Number(n)]
    IN /\ \A v \in Published(col) :
            GroundedIn(eq(v), col) /\ Builds(eq(v), col.type) /\ Selected(eq(v), cells) # {}
       /\ Published(col) # {} =>
            /\ GroundedIn(list, col) /\ Builds(list, col.type)
            /\ Selected(list, cells) = UNION {Selected(eq(v), cells) : v \in Published(col)}
            /\ col.value_domain # Null => Selected(list, cells) = Present(cells)
       /\ Ordered(col.type) /\ col.value_range # Null =>
            /\ Selected(edge("gte", col.value_range.max), cells) # {}
            /\ Selected(edge("lte", col.value_range.min), cells) # {}
            /\ Selected(edge("gte", col.value_range.min), cells) = Present(cells)

(* An identifier column without a finding names each row once (two         *)
(* spellings of one number apart: the check compares what is written,      *)
(* the table holds what it means), so a count per identifier is at most    *)
(* one; and a column with a finding does repeat a value or has none.       *)
QualityHolds(cells, named) ==
    LET type == InferType(cells)
        spelledTwice == \E i, j \in Present(cells) :
            cells[i] # cells[j] /\ Coerce(cells[i], type) = Coerce(cells[j], type)
        each(i) == Selected([op |-> "eq", value |-> Coerce(cells[i], type)], cells)
    IN /\ Finding(cells, named) = Null /\ named /\ type \notin {"date", "numeric"} /\ ~spelledTwice =>
            \A i \in Present(cells) : each(i) = {i}
       /\ Finding(cells, named) = "duplicate_identifier" =>
            \E i \in Present(cells) : Cardinality(each(i)) > 1
       /\ (Finding(cells, named) = "empty_column") <=> Values(cells, type) = {}

(* Two columns get one name only when a header itself ends in the number   *)
(* that the other is given; and a note reaches a column only from a        *)
(* dictionary, under the column's own name, and never two columns that     *)
(* differ in name.  Nothing a workbook says is lost but what a later entry *)
(* of the same name replaces.                                              *)
LegendHolds(headers, entries) ==
    LET names == SqlNames(headers) IN
    /\ \A i, j \in DOMAIN headers : i # j /\ names[i] = names[j] =>
            \E k \in {i, j} : headers[k].suffix > 1
    /\ \A i \in DOMAIN headers :
          /\ ColumnNote(headers, entries, i) # Null =>
                \E e \in DOMAIN entries : /\ entries[e].sheet = "dictionary"
                                          /\ entries[e].text = ColumnNote(headers, entries, i)
                                          /\ Spelled(<<entries[e].key>>) = names[i]
    /\ \A e \in DOMAIN entries :
          \/ e \in TableNotes(headers, entries)
          \/ \E i \in DOMAIN headers : ColumnNote(headers, entries, i) = entries[e].text
          \/ \E later \in DOMAIN entries : later > e /\ entries[later].key = entries[e].key

(* An answer composed without the model gives the very numbers: a count is *)
(* the number of rows selected, or of those that have a value, a total the *)
(* sum of the parts it names and given only for parts of one additive      *)
(* kind; a sum over disjoint selections of one table is the sum over their *)
(* union.  (An average, a minimum or a maximum of no row is told as 0.)    *)
AnswerHolds(cells, first, second, fn) ==
    LET selection(s) == Aggregate(fn, cells, s)
        label == IF fn = "CountOf" THEN "Count" ELSE fn
        result(s) == [fn |-> label, shape |-> "scalar", value |-> selection(s)]
        both == ComposeExact(TRUE, <<result(first), result(second)>>)
    IN AggregateBuilds(fn, InferType(cells)) =>
        /\ ComposeExact(TRUE, <<result(first)>>).total = Null
        /\ both.total # Null => /\ fn \in {"Count", "CountOf", "Sum"}
                                /\ both.total = both.told[1] + both.told[2]
                                /\ first \cap second = {} => both.total = Told(selection(first \cup second))
        /\ selection(first) = Null => fn \notin {"Count", "CountOf"}
        /\ fn = "Count" => both.told = <<Cardinality(first), Cardinality(second)>>
        /\ fn = "CountOf" => both.told = <<Cardinality(first \cap Present(cells)),
                                           Cardinality(second \cap Present(cells))>>
=============================================================================
