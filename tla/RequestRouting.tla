--------------------------- MODULE RequestRouting ---------------------------
(***************************************************************************)
(* What a request asks for: agent/intent.ts and agent/classifier.ts, the   *)
(* selection of a capability before it (orchestrator/capability-select.ts) *)
(* and the defined terms a question uses (agent/derivations.ts).           *)
(* An alias index is a function from texts to document types.              *)
(***************************************************************************)
EXTENDS Texts

CONSTANTS DraftVerbs,        \* the verbs intent.ts knows, each one piece
          SelectVerbs,       \* the fewer ones capability-select.ts knows
          DeliverableNouns   \* the generic nouns of DELIVERABLE_NOUN_RE

HasWord(text, words) == \E w \in words : Mentions(text, <<w>>)

(* findDocumentTypes: each type by the longest of its aliases that is      *)
(* there; countDeliverables: the generic nouns left without those.         *)
Recognised(text, index) == {index[alias] : alias \in {a \in DOMAIN index : Mentions(text, a)}}
MatchedAlias(text, index, type) ==
    CHOOSE a \in DOMAIN index :
        /\ index[a] = type /\ Mentions(text, a)
        /\ \A b \in DOMAIN index : index[b] = type /\ Mentions(text, b) => Len(b) <= Len(a)
Residue(text, index) ==
    FoldSet(LAMBDA type, left : Erase(left, MatchedAlias(text, index, type)), text, Recognised(text, index))
UnrecognisedOf(text, index) == {n \in DeliverableNouns : Mentions(Residue(text, index), <<n>>)}
NothingUnrecognised(text, index) == {}     \* mutant: only what has a rubric is counted
Unrecognised(text, index) == UnrecognisedOf(text, index)

Ask == [mode |-> "ask"]
Ambiguous == [mode |-> "ambiguous"]
Draft(type) == [mode |-> "draft", type |-> type]
Classify(text, index) ==
    LET types == Recognised(text, index)
        total == Cardinality(types) + Cardinality(Unrecognised(text, index))
    IN CASE ~HasWord(text, DraftVerbs) -> Ask
         [] HasWord(text, DraftVerbs) /\ (total > 1 \/ types = {}) -> Ambiguous
         [] HasWord(text, DraftVerbs) /\ total = 1 /\ types # {} -> Draft(CHOOSE t \in types : TRUE)

(* selectCapability: the first drafting capability with a keyword anywhere *)
(* in the request, words or not.                                           *)
SelectCapability(text, catalog) ==
    LET hits == SelectSeq(catalog, LAMBDA c : \E k \in c.keywords : Includes(text, k))
    IN CASE text = <<>> \/ (HasWord(text, SelectVerbs) /\ hits = <<>>) -> [mode |-> "clarify"]
         [] text # <<>> /\ HasWord(text, SelectVerbs) /\ hits # <<>> -> Draft(hits[1].type)
         [] text # <<>> /\ ~HasWord(text, SelectVerbs) -> Ask

(* A definition is [terms, table, column]: derivationsForTable and, of     *)
(* those, the ones a question mentions.                                    *)
DerivationsForTable(name, columns, defs) ==
    {d \in defs : d.column \in columns /\ (d.table = <<>> \/ Includes(name, d.table))}
ApplicableDerivations(text, name, columns, defs) ==
    {d \in DerivationsForTable(name, columns, defs) : \E t \in d.terms : Mentions(text, t)}

-----------------------------------------------------------------------------
(* What is drafted was named, as whole words, by a request for a document, *)
(* and no other document was; a request without a verb is a question.      *)
DraftIsNamed(text, index) ==
    LET chosen == Classify(text, index)
        requested == \E v \in DraftVerbs : Names(text, <<v>>)
    IN /\ chosen.mode = "draft" =>
             /\ requested
             /\ \E a \in DOMAIN index : index[a] = chosen.type /\ Names(text, a)
             /\ \A a \in DOMAIN index : Names(text, a) => index[a] = chosen.type
       /\ chosen.mode = "ask" <=> ~requested

(* Every deliverable noun of a request that is drafted is inside a mention *)
(* of the one type.  (The words between two mentions are judged without    *)
(* them, so a noun may be left over that was not a word of its own; then   *)
(* the request is refused, never drafted.)                                 *)
NothingElseIsNamed(text, index) ==
    LET chosen == Classify(text, index)
        covered(n) == \E a \in DOMAIN index : index[a] = chosen.type /\ Includes(a, <<n>>) /\ Includes(text, a)
    IN chosen.mode = "draft" => \A n \in DeliverableNouns : Names(text, <<n>>) => covered(n)

(* Saying more never turns a request for one document into one for         *)
(* another, nor makes a question of it, and a defined term of a question   *)
(* stays one.                                                              *)
SayingMoreKeeps(text, more, index, name, columns, defs) ==
    LET longer == text \o <<Break>> \o more IN
    /\ Classify(text, index).mode = "draft" =>
          Classify(longer, index) \in {Classify(text, index), Ambiguous}
    /\ Classify(longer, index) = Ask => Classify(text, index) = Ask
    /\ ApplicableDerivations(text, name, columns, defs) \subseteq ApplicableDerivations(longer, name, columns, defs)
    /\ ApplicableDerivations(longer, name, columns, defs) \subseteq DerivationsForTable(name, columns, defs)

(* The capability selected for a request is the document the agent would   *)
(* draft, unless a keyword of it only lies inside a longer word, or is no  *)
(* alias of its document ("capacity" selects draft:capa).                  *)
SelectionAgrees(text, index, catalog) ==
    LET selected == SelectCapability(text, catalog)
        drafted == Classify(text, index)
        byWord(c) == \E k \in c.keywords : k \in DOMAIN index /\ index[k] = c.type /\ Mentions(text, k)
    IN selected.mode = "draft" =>
        /\ drafted # Ask
        /\ (\E c \in ToSet(catalog) : c.type = selected.type /\ byWord(c)) =>
              drafted \in {selected, Ambiguous}
=============================================================================
