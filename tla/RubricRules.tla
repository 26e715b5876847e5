----------------------------- MODULE RubricRules -----------------------------
(***************************************************************************)
(* What a rubric file must be (drafting/rubric-schema.ts), which files of  *)
(* a directory are loaded (rubric-loader.ts), when a rubric is valid next  *)
(* to a set (rubric-validate.ts) and when the names of a set can be told   *)
(* apart (agent/intent.ts).                                                *)
(*                                                                         *)
(* A body stands for the bytes of a file and so for their hash: whether it *)
(* is JSON, its type, the normalised names it claims beside its type, its  *)
(* criteria and whether its recipe parses.  A directory maps each file, a  *)
(* number in the order they are listed, to a body or None.                 *)
(***************************************************************************)
EXTENDS Naturals, Sequences, FiniteSets

CONSTANT None

(* criterionSchema: the rule states one exhaustive boundary, a pattern     *)
(* criterion has patterns, an advisory one has no weight.                  *)
CriterionParses(c) ==
    /\ c.exhaustive
    /\ c.by = "deterministic" => c.patterns # "none"
    /\ c.gate = "advisory" => c.weight = 0

Parses(body) ==
    /\ body.json
    /\ body.recipe
    /\ body.criteria # <<>>
    /\ \A i \in DOMAIN body.criteria : CriterionParses(body.criteria[i])

(* loadRubrics: a file that does not parse is left out, and so is a second *)
(* file of a type.                                                         *)
Readable(dir) == {f \in DOMAIN dir : dir[f] # None /\ Parses(dir[f])}
Excluded(dir, f) == \E g \in Readable(dir) : g < f /\ dir[g].type = dir[f].type
Load(dir) == {dir[f] : f \in {g \in Readable(dir) : ~Excluded(dir, g)}}

Names(body) == {body.type} \cup body.names

(* validateRubric: the errors of a body next to the committed set.         *)
Scoring(body) == {i \in DOMAIN body.criteria : body.criteria[i].gate # "advisory"}
NoWeight(body) == \A i \in Scoring(body) : body.criteria[i].weight = 0
DuplicateIds(body) ==
    \E i, j \in DOMAIN body.criteria : i # j /\ body.criteria[i].id = body.criteria[j].id
BadPattern(body) == \E i \in DOMAIN body.criteria : body.criteria[i].patterns = "malformed"
CollidesOnType(body, set) == \E r \in set : r.type \in body.names     \* mutant: types only
Collides(body, set) == \E r \in set : r.type # body.type /\ Names(r) \cap Names(body) # {}
Valid(body, set) ==
    /\ Parses(body)
    /\ ~NoWeight(body) /\ ~DuplicateIds(body) /\ ~BadPattern(body)
    /\ ~Collides(body, set)

(* buildAliasIndex throws when two types claim one name.                   *)
IndexBuilds(set) == \A r, s \in set : r.type # s.type => Names(r) \cap Names(s) = {}
=============================================================================
