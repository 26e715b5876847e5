---------------------------- MODULE DocumentScope ----------------------------
(***************************************************************************)
(* What a document says of itself decides which project and collection it  *)
(* belongs to and which labels it carries, and these decide what an        *)
(* aggregate over a collection may draw on: ingestion/frontmatter.ts,      *)
(* identity/classification.ts, data/subject.ts, identity/policy.ts,        *)
(* data/enumerate.ts.                                                      *)
(*                                                                         *)
(* A line is [is, key, value] with is one of fence, field, text, blank;    *)
(* keys are the ones the code looks for; values and aliases are texts.     *)
(* policy is [strict, aliases, labels, defaults, overrides], registry      *)
(* [projects, collections], each from an id to its aliases.                *)
(***************************************************************************)
EXTENDS Texts

CONSTANTS Null, Failed

(* parseFrontmatter: the block between two fences, if the first line that  *)
(* is not blank opens one and it is closed; otherwise all is body.         *)
Opening(lines) ==
    LET said == {i \in DOMAIN lines : lines[i].is # "blank"}
    IN IF said # {} /\ lines[Min(said)].is = "fence" THEN Min(said) ELSE 0
Closing(lines) ==
    LET after == {j \in DOMAIN lines : j > Opening(lines) /\ lines[j].is = "fence"}
    IN IF Opening(lines) # 0 /\ after # {} THEN Min(after) ELSE 0
UnclosedFields(lines) == {i \in DOMAIN lines : lines[i].is = "field"}     \* mutant
Fields(lines) == {i \in 1..Closing(lines) : lines[i].is = "field"}
Body(lines) == {i \in (Closing(lines) + 1)..Len(lines) : lines[i].is # "blank"}
LastOf(lines, keys) ==
    LET named == {i \in Fields(lines) : lines[i].key \in keys}
    IN IF named = {} THEN Null ELSE lines[Max(named)].value
Declared(lines) == LastOf(lines, {"classification"})

(* resolveDocumentLabels: the first override of the path, else what the    *)
(* document declares, else the first default in the path, else nothing.    *)
LabelsFor(policy, class) == IF class \in DOMAIN policy.labels THEN policy.labels[class] ELSE Failed
ResolveDocumentLabels(policy, path, declared) ==
    LET override == {i \in DOMAIN policy.overrides : policy.overrides[i].path = path}
        default == {i \in DOMAIN policy.defaults : Includes(path, policy.defaults[i].match)}
    IN CASE override # {} -> LabelsFor(policy, policy.overrides[Min(override)].class)
         [] override = {} /\ declared # Null /\ declared \in DOMAIN policy.aliases ->
              LabelsFor(policy, policy.aliases[declared])
         [] override = {} /\ declared # Null /\ declared \notin DOMAIN policy.aliases /\ policy.strict -> Failed
         [] OTHER -> IF default = {} THEN {} ELSE LabelsFor(policy, policy.defaults[Min(default)].class)

(* resolveSubject: the ids with an alias, the id itself included, in the   *)
(* value of a key that may name one.  A later value of a key replaces.     *)
ProjectKeys == {"project", "title"}
CollectionKeys == {"form", "title"}
ValuesFor(lines, keys) == {LastOf(lines, {k}) : k \in keys} \ {Null}
MatchFirst(values, entries) ==     \* mutant: the first id that matches
    LET hits == {id \in DOMAIN entries : \E v \in values, a \in entries[id] : Mentions(v, a)}
    IN IF hits = {} THEN {} ELSE {CHOOSE id \in hits : TRUE}
MatchAliases(values, entries) ==
    {id \in DOMAIN entries : \E v \in values, a \in entries[id] : Mentions(v, a)}
ResolveOne(values, entries) ==
    LET hits == MatchAliases(values, entries)
    IN CASE hits = {} -> Null
         [] \E id \in hits : hits = {id} -> CHOOSE id \in hits : TRUE
         [] OTHER -> Failed

(* The row of table_registry a document is ingested as, or Failed.         *)
Row(policy, registry, doc) ==
    LET labels == ResolveDocumentLabels(policy, doc.path, Declared(doc.lines))
        project == ResolveOne(ValuesFor(doc.lines, ProjectKeys), registry.projects)
        collection == ResolveOne(ValuesFor(doc.lines, CollectionKeys), registry.collections)
    IN IF Failed \in {labels, project, collection} THEN Failed
       ELSE [doc |-> doc, labels |-> labels, project |-> project, collection |-> collection]
IngestedAs(policy, registry, docs) == {Row(policy, registry, d) : d \in docs} \ {Failed}

(* resolveLabels: of a role and of the subject itself, in one domain.      *)
ResolveLabels(grants, subject, domain, role) ==
    {l \in grants.roles[role] \cup grants.subjects[subject] : grants.domain[l] = domain}

(* enumerateCollection; labelsIntersect is false of no labels.             *)
InCollection(rows, collection) == {r \in rows : r.collection = collection}
Exclusion(row, caller, requireProject, contract) ==
    CASE row.labels \cap caller = {} -> "access"
      [] row.labels \cap caller # {} /\ requireProject /\ row.project = Null -> "no_project"
      [] row.labels \cap caller # {} /\ ~(requireProject /\ row.project = Null)
           /\ ~(contract \subseteq row.doc.columns) -> "schema_contract"
      [] OTHER -> Null
Members(rows, collection, caller, requireProject, contract) ==
    {r \in InCollection(rows, collection) : Exclusion(r, caller, requireProject, contract) = Null}
Complete(rows, collection, caller, requireProject, contract) ==
    /\ InCollection(rows, collection) # {}
    /\ Members(rows, collection, caller, requireProject, contract) = InCollection(rows, collection)

-----------------------------------------------------------------------------
(* A document is bound to a project only when it names that one and no     *)
(* other; a document whose declaration nobody mapped is in no aggregate of *)
(* a strict policy; and what is below a fence that is never closed binds   *)
(* and labels nothing, and is kept as text.                                *)
BindingHolds(policy, registry, doc) ==
    LET row == Row(policy, registry, doc)
        names(id) == \E l \in ToSet(doc.lines), a \in registry.projects[id] :
                        l.is = "field" /\ l.key \in ProjectKeys /\ Mentions(l.value, a)
    IN /\ row # Failed =>
            /\ row.project # Null => names(row.project)
            /\ \A id \in DOMAIN registry.projects \ {row.project} :
                  ~ \E v \in ValuesFor(doc.lines, ProjectKeys) :
                        \E a \in registry.projects[id] : Mentions(v, a)
            /\ Declared(doc.lines) # Null /\ policy.strict
                 /\ (\A o \in ToSet(policy.overrides) : o.path # doc.path) =>
                  /\ Declared(doc.lines) \in DOMAIN policy.aliases
                  /\ row.labels = policy.labels[policy.aliases[Declared(doc.lines)]]
       /\ (\A i, j \in DOMAIN doc.lines : doc.lines[i].is = "fence" /\ doc.lines[j].is = "fence" => i = j) =>
            /\ Declared(doc.lines) = Null
            /\ Body(doc.lines) = {i \in DOMAIN doc.lines : doc.lines[i].is # "blank"}
            /\ row # Failed => row.project = Null /\ row.collection = Null

(* A caller who may see more of a collection loses no member of it, and an *)
(* aggregate called complete is the same for every such caller; and an     *)
(* override moves no other document in or out.                             *)
CoverageHolds(policy, registry, docs, collection, caller, wider, requireProject, contract, override) ==
    LET rows == IngestedAs(policy, registry, docs)
        members(who) == Members(rows, collection, who, requireProject, contract)
        changed == [policy EXCEPT !.overrides = <<override>> \o @]
        after == Members(IngestedAs(changed, registry, docs), collection, caller, requireProject, contract)
        elsewhere(set) == {r \in set : r.doc.path # override.path}
    IN /\ caller \subseteq wider => members(caller) \subseteq members(wider)
       /\ Complete(rows, collection, caller, requireProject, contract) /\ caller \subseteq wider =>
             members(wider) = members(caller)
       /\ elsewhere(after) = elsewhere(members(caller))
       /\ (LabelsFor(policy, override.class) = Failed \/ LabelsFor(policy, override.class) \cap caller = {}) =>
             after = elsewhere(members(caller))
=============================================================================
