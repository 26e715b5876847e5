------------------------------ MODULE Ingestion ------------------------------
(***************************************************************************)
(* Ingestion runs over a source of documents (ingestion/pipeline.ts,       *)
(* prune.ts, qdrant-writer.ts, data/table-loader.ts): the points of the    *)
(* vector store, the table registry and the physical tables, three stores  *)
(* that no transaction keeps in step.                                      *)
(*                                                                         *)
(* A document's content stands for its hash, its text (one chunk) and the  *)
(* tables extracted from it.  Between two runs, and during one, documents  *)
(* come, change and go; every call may fail and the process may die.       *)
(***************************************************************************)
EXTENDS Naturals, FiniteSets

CONSTANTS Paths,
          Contents,
          SheetsOf,     \* [Contents -> the tables extracted from it, each
                        \* a sheet's name (None in a docx) and an index]
          None,
          MaxRuns, MaxEdits, MaxMishaps     \* bounds

Sheets == UNION {SheetsOf[c] : c \in Contents}
Named == {s \in Sheets : s.name # None}

ASSUME IngestionAssumption ==
    /\ None \notin Paths \cup Contents
    /\ \A c \in Contents \cup {None} : c \notin Nat     \* no hash is a table's id
    /\ MaxRuns \in Nat /\ MaxEdits \in Nat /\ MaxMishaps \in Nat

VARIABLES source,     \* [Paths -> content or None]
          points,     \* the collection in Qdrant
          registry,   \* the rows of table_registry
          physical,   \* the tbl_ tables, by table id
          minted,     \* number of table ids minted
          stage,      \* stage of the run
          listed,     \* [Paths -> content or None] as discovered by the last run
          waiting,    \* files the loop has not come to
          file, at, text, sheet, sheets,   \* the file it is at, and how far
          doomed, dying,   \* active rows selected to be superseded, the one at work
          failed,     \* paths whose conversion or extraction failed in the run
          runs, edits, mishaps,     \* counts, for the bounds
          touched,    \* history: paths edited since the files were discovered
          pruned,     \* history: tables that prune set about to drop
          purged      \* history: the last prune deleted its points

stores == <<points, registry, physical, minted>>
loop == <<waiting, file, at, text, sheet, sheets, doomed, dying>>
history == <<touched, pruned, purged>>
vars == <<source, stores, stage, listed, loop, failed, runs, edits, mishaps, history>>

Point(id, path, content, table) == [id |-> id, path |-> path, text |-> content, table |-> table]
LivePoint == Point(None, None, None, None)     \* blurb of a live source

Init ==
    /\ source \in [Paths -> Contents \cup {None}]
    /\ points = {LivePoint} /\ registry = {} /\ physical = {} /\ minted = 0
    /\ stage = "idle" /\ listed = [p \in Paths |-> None]
    /\ waiting = {} /\ file = None /\ at = "next" /\ text = None
    /\ sheet = None /\ sheets = {} /\ doomed = {} /\ dying = None
    /\ failed = {} /\ runs = 0 /\ edits = 0 /\ mishaps = 0
    /\ touched = {} /\ pruned = {} /\ purged = FALSE

Running == stage \notin {"idle", "done"}
Live == {p \in Paths : listed[p] # None}
Active == {r \in registry : r.status = "active"}
Upsert(new) == {q \in points : q.id # new.id} \cup {new}

-----------------------------------------------------------------------------
(* The world: somebody edits the source, a call fails, the process dies.   *)
Edit == \E p \in Paths, c \in Contents \cup {None} :
    /\ edits < MaxEdits /\ edits' = edits + 1
    /\ c # source[p] /\ source' = [source EXCEPT ![p] = c]
    /\ touched' = IF Running THEN touched \cup {p} ELSE touched
    /\ UNCHANGED <<stores, stage, listed, loop, failed, runs, mishaps, pruned, purged>>

Mishap == mishaps < MaxMishaps /\ mishaps' = mishaps + 1
NoMishap == UNCHANGED mishaps

(* What the loop over the files holds when it goes on and when it is left. *)
Skip == /\ file' = None /\ at' = "next" /\ text' = None
        /\ sheet' = None /\ sheets' = {} /\ doomed' = {} /\ dying' = None
Leave == waiting' = {} /\ Skip

(* The process dies, or the run throws outside the loop over the files.    *)
Crash ==
    /\ Running /\ Mishap
    /\ stage' = "idle" /\ Leave
    /\ UNCHANGED <<source, stores, listed, failed, runs, edits, history>>

-----------------------------------------------------------------------------
(* Stages 2 and 3.  With no file the run is over before anything is        *)
(* deleted; recreateOnIngest is read from a configuration that may change. *)
Discover ==
    /\ ~Running /\ runs < MaxRuns /\ runs' = runs + 1
    /\ listed' = source
    /\ waiting' = {p \in Paths : source[p] # None}
    /\ stage' = IF waiting' = {} THEN "idle" ELSE "prepare"
    /\ failed' = {} /\ touched' = {} /\ purged' = FALSE
    /\ NoMishap
    /\ UNCHANGED <<source, stores, file, at, text, sheet, sheets, doomed, dying, edits, pruned>>

EnsureCollection == \E recreate \in BOOLEAN :
    /\ stage = "prepare" /\ stage' = "files"
    /\ points' = IF recreate THEN {} ELSE points
    /\ NoMishap
    /\ UNCHANGED <<source, registry, physical, minted, listed, loop, failed, runs, edits, history>>

-----------------------------------------------------------------------------
(* Stage 4: one file after another.                                        *)
AtFile(place) == stage = "files" /\ at = place
Go(place) == at' = place
InLoop == UNCHANGED <<source, stage, listed, runs, edits, touched, pruned, purged>>

DeletedNone(p) == points                      \* mutant: deleteByPath left out
Deleted(p) == {q \in points : q.path # p}     \* by the filter of deleteByPath

DeleteByPath == \E p \in waiting :
    /\ AtFile("next")
    /\ file' = p /\ waiting' = waiting \ {p} /\ Go("convert")
    /\ points' = Deleted(p)
    /\ InLoop /\ NoMishap
    /\ UNCHANGED <<registry, physical, minted, text, sheet, sheets, doomed, dying, failed>>

(* The catch clause of the loop goes on with the next file.  convertFile   *)
(* itself reads the file again, and survives a failure to extract tables.  *)
DeleteFails == \E p \in waiting :
    /\ AtFile("next") /\ Mishap
    /\ waiting' = waiting \ {p} /\ failed' = failed \cup {p}
    /\ InLoop /\ UNCHANGED <<stores, file, at, text, sheet, sheets, doomed, dying>>

FileFails ==
    /\ stage = "files" /\ file # None
    /\ Mishap \/ (at = "convert" /\ source[file] = None /\ NoMishap)
    /\ failed' = failed \cup {file}
    /\ Skip
    /\ InLoop /\ UNCHANGED <<stores, waiting>>

Convert ==
    /\ AtFile("convert") /\ source[file] # None
    /\ text' = source[file]
    /\ \/ sheets' = SheetsOf[source[file]] /\ NoMishap /\ UNCHANGED failed
       \/ sheets' = {} /\ Mishap /\ failed' = failed \cup {file}
    /\ Go("table")
    /\ InLoop /\ UNCHANGED <<stores, waiting, file, sheet, doomed, dying>>

-----------------------------------------------------------------------------
(* loadTable: what is active under the same path, sheet and index is       *)
(* superseded, one row at a time, first the table and then its row.  A     *)
(* row without a sheet name is not found: NULL equals nothing.             *)
ExistingNone(p, s) == {}                      \* mutant: nothing is superseded
Existing(p, s) == {r \in Active : r.path = p /\ r.sheet = s /\ s.name # None}

Select == \E s \in sheets :
    /\ AtFile("table") /\ \A other \in sheets : s.index <= other.index
    /\ sheet' = s /\ sheets' = sheets \ {s}
    /\ doomed' = Existing(file, s)
    /\ Go("drop")
    /\ InLoop /\ NoMishap
    /\ UNCHANGED <<stores, waiting, file, text, dying, failed>>

Drop == \E r \in doomed :
    /\ at = "drop"
    /\ physical' = physical \ {r.id}
    /\ dying' = r.id
    /\ Go("mark")
    /\ pruned' = IF stage = "prune" THEN pruned \cup {r.id} ELSE pruned
    /\ NoMishap
    /\ UNCHANGED <<source, points, registry, minted, stage, listed, waiting, file, text, sheet,
                   sheets, doomed, failed, runs, edits, touched, purged>>

Superseded(r) == IF r.id = dying THEN [r EXCEPT !.status = "superseded"] ELSE r
Mark ==
    /\ at = "mark"
    /\ registry' = {Superseded(r) : r \in registry}
    /\ doomed' = {r \in doomed : r.id # dying} /\ dying' = None
    /\ Go("drop")
    /\ NoMishap
    /\ UNCHANGED <<source, points, physical, minted, stage, listed, waiting, file, text, sheet,
                   sheets, failed, runs, edits, history>>

(* CREATE TABLE and its rows, the registry row, the blurb.                 *)
Create ==
    /\ AtFile("drop") /\ doomed = {}
    /\ minted' = minted + 1 /\ physical' = physical \cup {minted'}
    /\ Go("register")
    /\ InLoop /\ NoMishap
    /\ UNCHANGED <<points, registry, waiting, file, text, sheet, sheets, dying, doomed, failed>>

Register ==
    /\ AtFile("register")
    /\ registry' = registry \cup {[id |-> minted, path |-> file, sheet |-> sheet,
                                   text |-> text, status |-> "active"]}
    /\ Go("blurb")
    /\ InLoop /\ NoMishap
    /\ UNCHANGED <<points, physical, minted, waiting, file, text, sheet, sheets, dying, doomed,
                   failed>>

WriteTableBlurb ==
    /\ AtFile("blurb")
    /\ points' = Upsert(Point(minted, file, text, minted))
    /\ Go("table")
    /\ InLoop /\ NoMishap
    /\ UNCHANGED <<registry, physical, minted, waiting, file, text, sheet, sheets, dying, doomed,
                   failed>>

(* The chunk's point id is a hash of the content as discovered.            *)
PathId(p) == p                  \* mutant: the id is taken from the path
PointId(p) == listed[p]

WriteDocument ==
    /\ AtFile("table") /\ sheets = {}
    /\ points' = Upsert(Point(PointId(file), file, text, None))
    /\ Skip
    /\ InLoop /\ NoMishap
    /\ UNCHANGED <<registry, physical, minted, waiting, failed>>

-----------------------------------------------------------------------------
(* Stage 5: tables, then points, of paths that were not discovered.        *)
LiveConverted == Live \ failed     \* mutant: the files that were converted
LivePaths == Live

SelectRemoved ==
    /\ AtFile("next") /\ waiting = {}
    /\ stage' = "prune" /\ Go("drop")
    /\ doomed' = {r \in Active : r.path \notin LivePaths}
    /\ NoMishap
    /\ UNCHANGED <<source, stores, listed, waiting, file, text, sheet, sheets, dying, failed, runs,
                   edits, history>>

KeptText == {q \in points : q.path \in LivePaths \/ q.table = None}   \* mutant: blurbs only
Kept == {q \in points : q.path \in LivePaths \/ q = LivePoint}
PrunePoints ==
    /\ stage = "prune" /\ at = "drop" /\ doomed = {}
    /\ \/ points' = Kept /\ purged' = TRUE /\ NoMishap
       \/ UNCHANGED <<points, purged>> /\ Mishap
    /\ stage' = "done" /\ Leave
    /\ UNCHANGED <<source, registry, physical, minted, listed, failed, runs, edits, touched, pruned>>

FileStep ==
    \/ DeleteByPath \/ DeleteFails \/ FileFails \/ Convert \/ Select \/ Drop \/ Mark
    \/ Create \/ Register \/ WriteTableBlurb \/ WriteDocument

Next == Edit \/ Crash \/ Discover \/ EnsureCollection \/ FileStep \/ SelectRemoved \/ PrunePoints

Spec == Init /\ [][Next]_vars

-----------------------------------------------------------------------------
Ids == 1..minted
Rows == [id : Ids, path : Paths, sheet : Sheets, text : Contents,
         status : {"active", "superseded"}]

TypeOK ==
    /\ source \in [Paths -> Contents \cup {None}] /\ listed \in [Paths -> Contents \cup {None}]
    /\ points \subseteq [id : Ids \cup Contents, path : Paths, text : Contents,
                         table : Ids \cup {None}] \cup {LivePoint}
    /\ minted \in Nat /\ physical \subseteq Ids /\ registry \subseteq Rows
    /\ stage \in {"idle", "prepare", "files", "prune", "done"}
    /\ waiting \subseteq Paths /\ failed \subseteq Paths /\ touched \subseteq Paths
    /\ file \in Paths \cup {None} /\ text \in Contents \cup {None}
    /\ at \in {"next", "convert", "table", "drop", "mark", "register", "blurb"}
    /\ sheet \in Sheets \cup {None} /\ sheets \subseteq Sheets
    /\ doomed \subseteq Rows /\ dying \in Ids \cup {None}
    /\ pruned \subseteq Ids /\ purged \in BOOLEAN
    /\ runs \in 0..MaxRuns /\ edits \in 0..MaxEdits /\ mishaps \in 0..MaxMishaps

Queryable(id) == id \in physical /\ \E r \in Active : r.id = id

(* reindex.ts 5-9, "a blurb can never point at a table that doesn't exist": *)
(* a blurb in the store leads to an active table that is there, whatever    *)
(* failed or was interrupted; only the tables of removed documents go       *)
(* before their blurbs.                                                     *)
BlurbLeadsToTable ==
    \A q \in points : q.table # None /\ q.table \notin pruned => Queryable(q.table)

(* table-loader.ts 10-13: under a path, sheet name and index there is at   *)
(* most one active table, whatever failed before.  (A sheet whose index    *)
(* moved has another key, and its old table stays active beside the new;   *)
(* and the tables of a docx, which have no sheet name, are never           *)
(* superseded, as null is not equal to null.)                              *)
OneActivePerSheet ==
    \A r, s \in Active : r.path = s.path /\ r.sheet = s.sheet /\ r.sheet \in Named => r = s

(* What a search finds is a table, and the one table of its sheet.         *)
FoundIsCurrent == BlurbLeadsToTable /\ OneActivePerSheet

(* A file that went through its turn without a failure, and was not edited *)
(* meanwhile, nor was one of the same content.                             *)
Settled(p) == p \in Live \ failed /\ \A o \in Live : listed[o] = listed[p] => o \notin touched

(* The tables that the points of a path lead to, of those that are there.  *)
Found(p) == {r \in Active : /\ r.path = p /\ r.id \in physical
                            /\ \E q \in points : q.path = p /\ q.table = r.id}

(* A run that reaches its end repairs what earlier runs left in the points:*)
(* of a settled file the text is there, no point is of an older version,   *)
(* its blurbs lead to tables of this version and of no other, one for each *)
(* of its sheets, and no point nor active table is left of a removed file, *)
(* unless the store refused to delete the points.  The registry is not     *)
(* repaired: the old table of a sheet that moved or went, or of a docx,    *)
(* may stay active, though no point leads to it.                           *)
FinishedRunMirrorsSource ==
    stage = "done" =>
        /\ \A p \in Paths : Settled(p) =>
              /\ \E q \in points : q.id = listed[p] /\ q.text = listed[p] /\ q.path \in Live
              /\ \A q \in points : q.path = p => /\ q.text = listed[p]
                                                 /\ q.table \in {None} \cup {r.id : r \in Found(p)}
              /\ \A s \in SheetsOf[listed[p]] : \E r \in Found(p) : r.sheet = s
              /\ \A r \in Found(p) : /\ r.sheet \in SheetsOf[listed[p]] /\ r.text = listed[p]
                                     /\ \A o \in Found(p) : o.sheet = r.sheet => o = r
        /\ \A r \in Active : r.path \in Live
        /\ purged => \A q \in points : q = LivePoint \/ q.path \in Live

(* prune.ts 17-24: what prune removes is of documents that are gone, not   *)
(* of documents that failed, nor the pointers of live sources.             *)
OnlyTheGoneArePruned ==
    [][stage = "prune" =>
         /\ \A q \in points \ points' : q.path \in Paths /\ listed[q.path] = None
         /\ \A id \in physical \ physical' : \E r \in registry : r.id = id /\ listed[r.path] = None]_vars
=============================================================================
