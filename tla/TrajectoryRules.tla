--------------------------- MODULE TrajectoryRules ---------------------------
(***************************************************************************)
(* Did a run consult what its rubric demands?  The trajectory assembled    *)
(* from the run's trace (drafting/trajectory-assemble.ts) against the      *)
(* rubric's rules (drafting/trajectory-check.ts).                          *)
(*                                                                         *)
(* A traced step is [node, chunks, recalled, source, sections]: the paths  *)
(* of its chunks, the document type it recalled, the source it read and    *)
(* how many sections came back.  A rule is [kind, of, asks]; a recorded    *)
(* trajectory is [known, documents, calls].                                *)
(***************************************************************************)
EXTENDS Texts

CONSTANTS None, ShortWords      \* words of at most two letters, which carry no meaning

RETRIEVAL_NODES == {"retrieve", "sql_retrieve", "retrieve_sections", "recall_prior", "query_table"}

(* What a step proves was consulted: a source only if something came back. *)
ConsultedIfNamed(step) == step.chunks \cup ({step.recalled, step.source} \ {None})     \* mutant
ConsultedBy(step) ==
    step.chunks \cup ({step.recalled} \ {None})
    \cup (IF step.sections > 0 THEN {step.source} \ {None} ELSE {})

(* No retrieval recorded: unknown, not empty.  No node calls an agent yet. *)
AssembleFromSteps(steps) ==
    LET retrieval == {s \in ToSet(steps) : s.node \in RETRIEVAL_NODES}
    IN [known |-> retrieval # {}, documents |-> UNION {ConsultedBy(s) : s \in retrieval}, calls |-> {}]

-----------------------------------------------------------------------------
Tokens(text) == WordsIn(text) \ ShortWords

(* At least 0.6 of the words asked for.                                    *)
Overlaps(query, asks) ==
    LET want == Tokens(asks)
    IN 5 * Cardinality(want \cap Tokens(query)) >= 3 * Cardinality(want)

SatisfiedInParts(rule, actual) ==     \* mutant: one word from one document, one from another
    /\ rule.kind = "document" /\ Tokens(rule.of) # {}
    /\ \A w \in Tokens(rule.of) : \E d \in actual.documents : Includes(d, w)
Satisfied(rule, actual) ==
    IF rule.kind = "document"
    THEN /\ Tokens(rule.of) # {}
         /\ \E d \in actual.documents : \A w \in Tokens(rule.of) : Includes(d, w)
    ELSE \E c \in actual.calls : c.agent = rule.of /\ Overlaps(c.query, rule.asks)

Findings(rules, actual) ==
    IF ~actual.known THEN {[rule |-> r, violation |-> "unknown"] : r \in rules.required}
    ELSE {[rule |-> r, violation |-> "required_missing"] : r \in {q \in rules.required : ~Satisfied(q, actual)}}
         \cup {[rule |-> r, violation |-> "forbidden_present"] : r \in {q \in rules.forbidden : Satisfied(q, actual)}}
CheckTrajectory(rules, actual) ==
    [passed |-> actual.known /\ Findings(rules, actual) = {}, unknown |-> ~actual.known,
     findings |-> Findings(rules, actual)]

-----------------------------------------------------------------------------
(* A run that passes has, for every document it had to consult, a step     *)
(* that retrieved one document with every word of that type inside a word  *)
(* of its path (named, but not found, is not consulted), and none of a     *)
(* type it had to leave alone; a run without a retrieval step fails even a *)
(* rubric that asks for nothing.  (recall_prior counts for the type it     *)
(* names whether it found anything or not.)                                *)
Spelled(document, type) == \A w \in Tokens(type) : \E v \in WordsIn(document) : Includes(v, w)
Brought(some, type) == \E s \in some :
    \/ \E d \in s.chunks : Spelled(d, type)
    \/ s.recalled # None /\ Spelled(s.recalled, type)
    \/ s.source # None /\ s.sections > 0 /\ Spelled(s.source, type)
DocumentRules(rules) == {r \in rules : r.kind = "document"}
PassedIsProven(steps, rules) ==
    LET retrieval == {s \in ToSet(steps) : s.node \in RETRIEVAL_NODES}
        result == CheckTrajectory(rules, AssembleFromSteps(steps))
    IN /\ result.passed =>
            /\ retrieval # {}
            /\ \A r \in rules.required : r.kind = "document" /\ Tokens(r.of) # {} /\ Brought(retrieval, r.of)
            /\ \A r \in DocumentRules(rules.forbidden) : Tokens(r.of) # {} => ~Brought(retrieval, r.of)
       /\ rules.required \cap rules.forbidden # {} => ~result.passed
       /\ result.unknown <=> retrieval = {}

(* Retrieving more never makes a required source missing, and a step that  *)
(* is no retrieval changes nothing.                                        *)
Missing(result) == {f.rule : f \in {g \in result.findings : g.violation = "required_missing"}}
MoreIsNoLess(steps, rules) ==
    steps # <<>> =>
      LET before == CheckTrajectory(rules, AssembleFromSteps(Front(steps)))
          after == CheckTrajectory(rules, AssembleFromSteps(steps))
      IN /\ ~before.unknown => Missing(after) \subseteq Missing(before) /\ ~after.unknown
         /\ Last(steps).node \notin RETRIEVAL_NODES => after = before
TrajectoryHolds(steps, rules) == PassedIsProven(steps, rules) /\ MoreIsNoLess(steps, rules)

(* An agent asked in the words of the rule, or in more, was asked; one     *)
(* asked in none of them was not.                                          *)
AskedHolds(query, asks) ==
    LET actual == [known |-> TRUE, documents |-> {}, calls |-> {[agent |-> "web", query |-> query]}]
        said == Satisfied([kind |-> "agent", of |-> "web", asks |-> asks], actual)
    IN /\ Tokens(asks) \subseteq Tokens(query) => said
       /\ Tokens(asks) # {} /\ Tokens(asks) \cap Tokens(query) = {} => ~said
       /\ ~Satisfied([kind |-> "agent", of |-> "other", asks |-> asks], actual)
=============================================================================
