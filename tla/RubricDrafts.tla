----------------------------- MODULE RubricDrafts -----------------------------
(***************************************************************************)
(* Rubric drafts beside the committed rubrics (api/routes/rubrics.ts):     *)
(* saving, re-validating, exporting and scoring one draft while the set it *)
(* is validated against may be replaced by an update.                      *)
(*                                                                         *)
(* A request validates against the cache in the handler and writes the row *)
(* with a statement of its own, which may be overtaken or fail.            *)
(***************************************************************************)
EXTENDS RubricSet

CONSTANTS Contents,      \* bodies an author submits
          MaxPending     \* bound on statements under way

VARIABLES row,           \* None, or the draft: content and status
          pending,       \* statements sent and not executed
          exported,      \* history: the last body exported and the set it was validated against
          batch          \* content the last batch was recorded for

draftVars == <<row, pending, exported, batch>>

Statement(kind, content, status) == [kind |-> kind, content |-> content, status |-> status]
Status(content) == IF Valid(content, Cached) THEN "validated" ELSE "draft"

(* validateRubric loads the committed set once the schema parses.          *)
Validates(content) ==
    /\ at = "idle"
    /\ IF Parses(content) THEN Loads ELSE UNCHANGED <<cache, drifted>>
    /\ UNCHANGED <<ref, dir, index, update, answer, overlapped, outside>>

Sends(statement) ==
    /\ Cardinality(pending) < MaxPending
    /\ pending' = pending \cup {statement}

Save == \E c \in Contents :
    /\ Validates(c) /\ Sends(Statement("save", c, Status(c)))
    /\ UNCHANGED <<row, exported, batch>>

Revalidate ==
    /\ row # None
    /\ Validates(row.content)
    /\ Sends(Statement("validate", row.content, Status(row.content)))
    /\ UNCHANGED <<row, exported, batch>>

Export ==
    /\ row # None /\ Validates(row.content)
    /\ Valid(row.content, Cached)
    /\ exported' = [body |-> row.content, against |-> Cached]
    /\ UNCHANGED <<row, pending, batch>>

(* The k judge passes run on the content read here.                        *)
ScoreBatch ==
    /\ row # None /\ at = "idle" /\ Parses(row.content)
    /\ Sends(Statement("batch", row.content, row.status))
    /\ UNCHANGED <<vars, row, exported, batch>>

Execute == \E s \in pending :
    /\ pending' = pending \ {s}
    /\ row' = CASE s.kind = "save" -> [content |-> s.content, status |-> s.status]
                [] s.kind = "validate" -> [row EXCEPT !.status = s.status]
                [] OTHER -> row
    /\ batch' = IF s.kind = "batch" THEN s.content ELSE batch
    /\ UNCHANGED <<vars, exported>>

StatementFails == \E s \in pending :
    /\ pending' = pending \ {s}
    /\ UNCHANGED <<vars, row, exported, batch>>

InitDrafts ==
    Init /\ row = None /\ pending = {} /\ exported = None /\ batch = None

NextDrafts ==
    \/ Next /\ UNCHANGED draftVars
    \/ Save \/ Revalidate \/ Export \/ ScoreBatch \/ Execute \/ StatementFails

SpecDrafts == InitDrafts /\ [][NextDrafts]_<<vars, draftVars>>

-----------------------------------------------------------------------------
(* What is exported can be released.  Put in the place of its type into    *)
(* the set it was validated against, it gives a set in which every name    *)
(* leads to one type, and whose rubrics are valid next to each other, if   *)
(* that was so without it.  And of any directory that holds these bodies   *)
(* and no other, all of them are loaded and none is left out; so the       *)
(* update of an agent that is released this directory takes it.  (The      *)
(* export checks only the draft's names against the others', the update    *)
(* every rubric that it loads.)                                            *)
Promoted(e) == {r \in e.against : r.type # e.body.type} \cup {e.body}
Holding(set) == {d \in [Files -> set \cup {None}] : set \subseteq {d[f] : f \in Files} \ {None}}
Releasable(e) ==
    LET set == Promoted(e)
    IN  /\ IndexBuilds(e.against) => IndexBuilds(set)
        /\ ValidSet(e.against) => ValidSet(set)
        /\ \A d \in Holding(set) : Load(d) = set
ExportIsReleasable == exported # None => Releasable(exported)
=============================================================================
