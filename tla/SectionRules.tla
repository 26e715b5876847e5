---------------------------- MODULE SectionRules ----------------------------
(***************************************************************************)
(* What a section must declare (drafting/section-schema.ts) and what its   *)
(* validation makes of the rows a model produced (section-validator.ts).   *)
(*                                                                         *)
(* A value is [is, n]: a number (with n), a word, Empty, or NaN.  A cell   *)
(* is [value, source].  A field is [name, type, provenance, required, min, *)
(* max, domain, formula, references]: domain and references are sets of    *)
(* values (what the enum allows, what the upstream document exports), a    *)
(* formula [operands, operators], whose operands are names of fields.  A   *)
(* produced row maps every field name to a cell.                           *)
(***************************************************************************)
EXTENDS Integers, Sequences, SequencesExt, FiniteSets

CONSTANT None

Value(is, n) == [is |-> is, n |-> n]
Empty == Value("empty", 0)
Gap == Value("insufficient_evidence", 0)
NaN == Value("nan", 0)
Number(v) == v.is = "number"

FieldWellFormed(f) ==
    /\ (f.provenance = "computed") <=> (f.formula # None)
    /\ f.type = "enum" => f.domain # {}
SectionWellFormed(spec) == spec # <<>> /\ \A i \in DOMAIN spec : FieldWellFormed(spec[i])

-----------------------------------------------------------------------------
(* evalFormula: products are folded first, then sums from the left.  The   *)
(* schema does not ask that a formula alternate operands and operators; an *)
(* operator without its operand makes the result NaN, a surplus operand is *)
(* not read.                                                               *)
FoldInOrder(nums, ops) ==     \* mutant: no precedence
    FoldLeft(LAMBDA acc, i : CASE ops[i] = "*" -> acc * nums[i + 1]
                               [] ops[i] = "+" -> acc + nums[i + 1]
                               [] OTHER -> acc - nums[i + 1],
             nums[1], [i \in DOMAIN ops |-> i])
FoldTerms(nums, ops) ==
    LET product(acc, i) ==
            IF ops[i] = "*"
            THEN [acc EXCEPT !.values[Len(acc.values)] = @ * nums[i + 1]]
            ELSE [values |-> Append(acc.values, nums[i + 1]), pending |-> Append(acc.pending, ops[i])]
        terms == FoldLeft(product, [values |-> <<nums[1]>>, pending |-> <<>>],
                          [i \in DOMAIN ops |-> i])
    IN FoldLeft(LAMBDA acc, i : IF terms.pending[i] = "+" THEN acc + terms.values[i + 1]
                                ELSE acc - terms.values[i + 1],
                terms.values[1], [i \in DOMAIN terms.pending |-> i])

(* numeric: the numbers of the fields seen so far in this row.             *)
Evaluate(formula, numeric) ==
    IF \E i \in DOMAIN formula.operands : formula.operands[i] \notin DOMAIN numeric
    THEN Empty
    ELSE IF Len(formula.operands) <= Len(formula.operators) THEN NaN
    ELSE Value("number", FoldTerms([i \in DOMAIN formula.operands |-> numeric[formula.operands[i]]],
                                   formula.operators))

-----------------------------------------------------------------------------
(* checkScalar.                                                            *)
OutOfRange(f, v) == v.n < f.min \/ v.n > f.max
ScalarError(f, v) ==
    CASE f.type = "integer" -> IF ~Number(v) THEN {"type_error"}
                               ELSE IF OutOfRange(f, v) THEN {"range_error"} ELSE {}
      [] f.type = "enum" -> IF v \in f.domain THEN {} ELSE {"domain_error"}
      [] OTHER -> IF v.is = "word" \/ v = Gap THEN {} ELSE {"type_error"}

(* With no sources offered, any source counts; and the marker itself needs *)
(* none, even if the model wrote it.                                       *)
GroundedIfNamed(cell, offered) == cell.source # None     \* mutant
Grounded(cell, offered) == cell.source # None /\ (offered = {} \/ cell.source \in offered)

Errors(f, cell, offered) ==
    ScalarError(f, cell.value)
    \cup {k \in {"ungrounded_retrieved"} : f.provenance = "retrieved" /\ cell.value # Gap
                                           /\ ~Grounded(cell, offered)}
    \cup {k \in {"reference_not_found"} : f.type = "reference" /\ cell.value \notin f.references}

(* One field of a row: what is stored, what is found, and whether later    *)
(* formulas may use it.                                                    *)
Stores(row, f, v, finds, gap) ==
    [values |-> [x \in DOMAIN row.values \cup {f.name} |-> IF x = f.name THEN v ELSE row.values[x]],
     findings |-> row.findings \cup {<<f.name, k>> : k \in finds},
     gaps |-> row.gaps \cup (IF gap THEN {f.name} ELSE {}),
     numeric |-> row.numeric]
Counts(row, f, n) ==
    [row EXCEPT !.numeric = [x \in DOMAIN row.numeric \cup {f.name} |->
                                 IF x = f.name THEN n ELSE row.numeric[x]]]

ComputedField(row, f, cell) ==
    LET v == Evaluate(f.formula, row.numeric)
        disputed == Number(cell.value) /\ cell.value # v
    IN IF v = Empty THEN Stores(row, f, Gap, {"missing_required"}, TRUE)
       ELSE LET stored == Stores(row, f, v, IF disputed THEN {"computed_mismatch"} ELSE {}, FALSE)
            IN IF v = NaN THEN stored ELSE Counts(stored, f, v.n)

PlainField(row, f, cell, offered) ==
    IF cell.value = Empty
    THEN IF f.required THEN Stores(row, f, Gap, {"missing_required"}, TRUE)
         ELSE Stores(row, f, Empty, {}, FALSE)
    ELSE LET stored == Stores(row, f, cell.value, Errors(f, cell, offered), FALSE)
         IN IF Number(cell.value) /\ ScalarError(f, cell.value) = {}
            THEN Counts(stored, f, cell.value.n) ELSE stored

ValidateRow(spec, produced, offered) ==
    FoldLeft(LAMBDA row, f : IF f.provenance = "computed"
                             THEN ComputedField(row, f, produced[f.name])
                             ELSE PlainField(row, f, produced[f.name], offered),
             [values |-> <<>>, findings |-> {}, gaps |-> {}, numeric |-> <<>>], spec)

Missing(row) == {x \in row.findings : x[2] = "missing_required"}
HasGaps(rows) == \E i \in DOMAIN rows : rows[i].gaps # {}
HasErrors(rows) == \E i \in DOMAIN rows : rows[i].findings # Missing(rows[i])

-----------------------------------------------------------------------------
(* What a formula means: the sum of its signed products, read the other    *)
(* way round, from the last operator.                                      *)
RECURSIVE Means(_, _)
Means(nums, ops) ==
    IF ops = <<>> THEN nums[1]
    ELSE LET sums == {i \in DOMAIN ops : ops[i] # "*"}
         IN IF sums = {} THEN nums[Len(nums)] * Means(Front(nums), Front(ops))
            ELSE LET k == CHOOSE i \in sums : \A j \in sums : j <= i
                     left == Means(SubSeq(nums, 1, k), SubSeq(ops, 1, k - 1))
                     right == Means(SubSeq(nums, k + 1, Len(nums)), SubSeq(ops, k + 1, Len(ops)))
                 IN IF ops[k] = "+" THEN left + right ELSE left - right

(* "A gap is evidence, not a silent hole": a field without a value is      *)
(* listed as a gap, whatever else is wrong with the row (unless the model  *)
(* wrote the marker itself, which no finding then tells), and what is      *)
(* stored is what was produced or what code computed, never anything else. *)
(* A row without findings holds only what it was offered, what upstream    *)
(* exports, what its scales allow, and the right sums.                     *)
RowHolds(spec, produced, offered) ==
    LET row == ValidateRow(spec, produced, offered)
        stored(f) == row.values[f.name]
        nums(f) == [i \in DOMAIN f.formula.operands |-> row.values[f.formula.operands[i]].n]
    IN SectionWellFormed(spec) =>
        \A f \in ToSet(spec) :
          /\ f.name \in row.gaps => stored(f) = Gap
          /\ stored(f) = Gap => f.name \in row.gaps \/ produced[f.name].value = Gap
          /\ f.required /\ f.provenance # "computed" /\ produced[f.name].value = Empty => stored(f) = Gap
          /\ f.provenance # "computed" => stored(f) \in {produced[f.name].value, Gap}
          /\ f.provenance = "computed" /\ Number(stored(f)) =>
                stored(f).n = Means(SubSeq(nums(f), 1, Len(f.formula.operators) + 1), f.formula.operators)
          /\ row.findings = {} /\ stored(f) \notin {Empty, Gap} =>
                /\ f.provenance = "retrieved" /\ offered # {} => produced[f.name].source \in offered
                /\ f.type = "reference" => stored(f) \in f.references
                /\ f.type = "enum" => stored(f) \in f.domain
                /\ f.type = "integer" /\ f.provenance # "computed" => stored(f).n \in f.min..f.max
                /\ f.provenance = "computed" /\ Number(produced[f.name].value) =>
                     stored(f) = produced[f.name].value
=============================================================================
