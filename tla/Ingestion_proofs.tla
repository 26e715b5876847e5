--------------------------- MODULE Ingestion_proofs --------------------------
(***************************************************************************)
(* For any set of documents, contents and tables, any number of runs,      *)
(* edits and failures: what a search finds is current (FoundIsCurrent), a  *)
(* finished run mirrors the source (FinishedRunMirrorsSource), and prune   *)
(* removes nothing of a document that is there (OnlyTheGoneArePruned).     *)
(* And for any policy, subjects and registry: a document is bound to the   *)
(* one project it names, and coverage is the same for whoever may see all  *)
(* of it (DocumentsBindByName, CoverageIsExact).  And for any text, slack  *)
(* and sizes that leave room for the overlap: cutting ends, loses nothing, *)
(* and cuts a word only where no break was in reach (CutsLoseNothing,      *)
(* WindowsLoseNothing).                                                    *)
(***************************************************************************)
EXTENDS Ingestion, DocumentScope, Chunking, WellFoundedInduction, TLAPS

(* Where the run is, and what the loop holds there.                        *)
AtSheet == {"drop", "mark", "register", "blurb"}
AtTurn == stage = "files" /\ file # None
Converted == AtTurn /\ at # "convert"

Places ==
    /\ stage \in {"idle", "done", "prune"} => waiting = {}
    /\ stage = "prepare" => waiting = Live
    /\ stage # "files" => file = None
    /\ stage \in {"idle", "prepare", "done"} => at = "next"
    /\ stage = "prune" => at \in {"drop", "mark"}
    /\ stage = "files" => (file = None <=> at = "next")
    /\ file # None => file \in Live \ waiting
    /\ waiting \subseteq Live
    /\ Converted => text \in Contents
    /\ Converted /\ at \in AtSheet => sheet \in Sheets \ sheets
    /\ at \in {"register", "blurb"} => minted > 0

(* A table id names one row.  What is selected to be superseded is active, *)
(* and in a turn it is what is active under the sheet's key.               *)
Registered ==
    /\ \A r, s \in registry : r.id = s.id => r = s
    /\ at = "register" => \A r \in registry : r.id # minted
    /\ at \in {"register", "blurb"} => minted \in physical
    /\ at = "blurb" =>
         \E r \in registry : /\ r.id = minted /\ r.status = "active" /\ r.path = file
                             /\ r.sheet = sheet /\ r.text = text
    /\ doomed \subseteq Active /\ (at \notin {"drop", "mark"} => doomed = {})
    /\ at = "mark" => \E r \in doomed : r.id = dying
    /\ OneActivePerSheet

Superseding ==
    /\ AtTurn => \A r \in doomed : r.path = file /\ r.sheet = sheet
    /\ AtTurn /\ at \in {"drop", "mark"} =>
         \A r \in Active : r.path = file /\ r.sheet = sheet /\ sheet.name # None => r \in doomed
    /\ AtTurn /\ at = "register" =>
         \A r \in Active : r.path = file /\ r.sheet = sheet => sheet.name = None
    /\ stage = "prune" =>
         /\ \A r \in doomed : r.path \notin Live
         /\ \A r \in Active : r.path \notin Live => r \in doomed

(* A point is the live source's, a text's or a blurb, and a blurb has the  *)
(* row of its table; in a turn the blurbs of the file are of sheets done.  *)
Pointed ==
    \A q \in points :
        /\ q.table = None => q = LivePoint \/ q.id \in Contents
        /\ q.table # None =>
             /\ q.id = q.table
             /\ \E r \in registry : r.id = q.table /\ r.path = q.path
             /\ \A r \in registry : r.id = q.table =>
                  /\ r.path = q.path
                  /\ q.table \notin pruned => r.status = "active" /\ r.id \in physical
                  /\ Converted /\ q.path = file =>
                       r.sheet \notin sheets /\ (at \in AtSheet => r.sheet # sheet)
        /\ AtTurn /\ at = "convert" => q.path # file
        /\ Converted /\ q.path = file => q.text = text

(* Prune notes the tables it drops before it marks their rows.             *)
PruneNotes == at = "mark" /\ stage = "prune" => dying \in pruned

IInv == TypeOK /\ Places /\ Registered /\ Superseding /\ Pointed /\ PruneNotes

(* What a turn that did not fail leaves behind, and keeps.                 *)
TextOf(p) == \E q \in points : q.id = listed[p] /\ q.text = listed[p] /\ q.path \in Live \ waiting
TableOf(p, s, c) ==
    \E r \in Active, q \in points :
        /\ r.path = p /\ r.sheet = s /\ r.text = c /\ r.id \in physical
        /\ q.table = r.id /\ q.path = p
Led(p, c) ==
    /\ \A q \in points : q.path = p /\ q.table # None => \E r \in Found(p) : r.id = q.table
    /\ \A r \in Found(p) : /\ r.sheet \in SheetsOf[c] /\ r.text = c
                           /\ \A o \in Found(p) : o.sheet = r.sheet => o = r
Mirrored(p) ==
    /\ TextOf(p)
    /\ \A q \in points : q.path = p => q.text = listed[p]
    /\ \A s \in SheetsOf[listed[p]] : TableOf(p, s, listed[p])
    /\ Led(p, listed[p])

(* A file is read as it was discovered unless it was edited since, and a   *)
(* turn has made the tables of the sheets it is done with.                 *)
FileRead ==
    /\ Running => \A p \in Paths \ touched : source[p] = listed[p]
    /\ Converted /\ file \notin touched => text = listed[file]

TablesMade ==
    Converted /\ file \notin failed =>
        \A s \in SheetsOf[text] :
            s \in sheets \/ (at \in AtSheet /\ s = sheet) \/ TableOf(file, s, text)

(* The blurbs written in a turn lead to the tables made in it.             *)
BlurbsLed ==
    Converted => /\ sheets \subseteq SheetsOf[text] /\ (at \in AtSheet => sheet \in SheetsOf[text])
                 /\ Led(file, text)

SettledMirrored ==
    stage \in {"files", "prune", "done"} =>
        \A p \in Live \ waiting : p # file /\ Settled(p) => Mirrored(p)

RunEnded ==
    /\ stage \in {"prepare", "files", "prune"} => ~purged
    /\ stage = "done" =>
         /\ \A r \in Active : r.path \in Live
         /\ purged => \A q \in points : q = LivePoint \/ q.path \in Live

TurnsDone == FileRead /\ TablesMade /\ BlurbsLed /\ SettledMirrored /\ RunEnded

-----------------------------------------------------------------------------
(* What Mark leaves: every row is there under its id, path and sheet, and  *)
(* only the rows of the table dropped are no longer active.                *)
LEMMA MarkedRows ==
    ASSUME TypeOK, Mark
    PROVE  /\ registry' \subseteq Rows
           /\ \A r \in registry : r.id # dying => r \in registry'
           /\ \A r \in registry' : \/ r \in registry /\ r.id # dying
                                   \/ /\ r.id = dying /\ r.status = "superseded"
                                      /\ \E o \in registry : /\ o.id = r.id /\ o.path = r.path
                                                             /\ o.sheet = r.sheet /\ o.text = r.text
           /\ \A o \in registry : o.id = dying =>
                \E r \in registry' : /\ r.id = dying /\ r.status = "superseded"
                                     /\ r.path = o.path /\ r.sheet = o.sheet
           /\ Active' = {r \in Active : r.id # dying}
           /\ \A r, s \in registry' :
                (\A o, p \in registry : o.id = p.id => o = p) /\ r.id = s.id => r = s
<1>1. ASSUME NEW r \in registry
      PROVE  /\ Superseded(r) \in Rows
             /\ r.id # dying => Superseded(r) = r
             /\ r.id = dying => /\ Superseded(r).id = dying /\ Superseded(r).status = "superseded"
                                /\ Superseded(r).path = r.path /\ Superseded(r).sheet = r.sheet
                                /\ Superseded(r).text = r.text
  <2>1. r \in Rows
    BY DEF TypeOK
  <2> QED
    BY <2>1 DEF Superseded, Rows
<1>2. \A r \in registry : Superseded(r) \in registry'
  BY DEF Mark
<1>3. \A r \in registry' : \E o \in registry : r = Superseded(o)
  BY DEF Mark
<1>4. registry' \subseteq Rows
  BY <1>1, <1>3
<1>5. \A r \in registry : r.id # dying => r \in registry'
  BY <1>1, <1>2
<1>6. ASSUME NEW r \in registry'
      PROVE  \/ r \in registry /\ r.id # dying
             \/ /\ r.id = dying /\ r.status = "superseded"
                /\ \E o \in registry : /\ o.id = r.id /\ o.path = r.path
                                       /\ o.sheet = r.sheet /\ o.text = r.text
  <2>1. PICK o \in registry : r = Superseded(o)
    BY <1>3
  <2> QED
    BY <2>1, <1>1
<1>7. ASSUME NEW o \in registry, o.id = dying
      PROVE  \E r \in registry' : /\ r.id = dying /\ r.status = "superseded"
                                  /\ r.path = o.path /\ r.sheet = o.sheet
  BY <1>1, <1>2, <1>7
<1>8. ASSUME NEW r \in registry', NEW s \in registry',
             \A o, p \in registry : o.id = p.id => o = p, r.id = s.id
      PROVE  r = s
  <2>1. PICK o \in registry, p \in registry : r = Superseded(o) /\ s = Superseded(p)
    BY <1>3
  <2>2. r.id = o.id /\ s.id = p.id
    BY <1>1, <2>1
  <2> QED
    BY <1>8, <2>1, <2>2
<1>9. Active' = {r \in Active : r.id # dying}
  BY <1>5, <1>6 DEF Active
<1> QED
  BY <1>4, <1>5, <1>6, <1>7, <1>8, <1>9

(* The tables of a content are among the sheets.                           *)
LEMMA SheetsInSheets == \A c \in Contents : SheetsOf[c] \subseteq Sheets
  BY DEF Sheets

-----------------------------------------------------------------------------
(* The records of the points, by the type invariant.                       *)
PointRecords == [id : Ids \cup Contents, path : Paths, text : Contents,
                 table : Ids \cup {None}]

(* Every step keeps the types. *)
LEMMA TypeStep ==
    ASSUME TypeOK, Places, Registered, [Next]_vars PROVE TypeOK'
<1> USE IngestionAssumption DEF TypeOK, Places, Rows, Ids, Live, Running, stores, loop, history
<1>1. CASE Edit
  BY <1>1 DEF Edit
<1>2. CASE Crash
  BY <1>2 DEF Crash, Leave, Skip, Mishap
<1>3. CASE Discover
  <2>1. waiting' \subseteq Paths /\ stage' \in {"idle", "prepare"} /\ runs' \in 0..MaxRuns
    BY <1>3 DEF Discover
  <2> QED
    BY <1>3, <2>1 DEF Discover, NoMishap
<1>4. CASE EnsureCollection
  BY <1>4 DEF EnsureCollection, NoMishap
<1>5. CASE DeleteByPath
  BY <1>5 DEF DeleteByPath, AtFile, Go, InLoop, Deleted, NoMishap
<1>6. CASE DeleteFails
  BY <1>6 DEF DeleteFails, AtFile, InLoop, Mishap
<1>7. CASE FileFails
  BY <1>7 DEF FileFails, Skip, InLoop, Mishap, NoMishap
<1>8. CASE Convert
  <2>1. source[file] \in Contents
    BY <1>8 DEF Convert, AtFile
  <2>2. sheets' \subseteq Sheets
    BY <1>8, <2>1, SheetsInSheets DEF Convert
  <2>3. failed' \subseteq Paths /\ mishaps' \in 0..MaxMishaps
    BY <1>8 DEF Convert, Mishap, NoMishap, AtFile
  <2> QED
    BY <1>8, <2>1, <2>2, <2>3 DEF Convert, AtFile, Go, InLoop
<1>9. CASE Select
  <2>1. doomed' \subseteq Rows
    BY <1>9 DEF Select, Existing, Active
  <2>2. sheet' \in Sheets /\ sheets' \subseteq Sheets
    BY <1>9 DEF Select
  <2> QED
    BY <1>9, <2>1, <2>2 DEF Select, AtFile, Go, InLoop, NoMishap
<1>10. CASE Drop
  <2>1. PICK r \in doomed : dying' = r.id /\ pruned' \subseteq pruned \cup {r.id}
    BY <1>10 DEF Drop
  <2>2. r.id \in Ids
    BY <2>1
  <2>3. dying' \in Ids /\ pruned' \subseteq Ids /\ physical' \subseteq Ids
    BY <1>10, <2>1, <2>2 DEF Drop
  <2> QED
    BY <1>10, <2>3 DEF Drop, Go, NoMishap
<1>11. CASE Mark
  <2>1. registry' \subseteq Rows
    <3> HIDE DEF TypeOK, Rows
    <3> QED
      BY <1>11, MarkedRows
  <2> QED
    BY <1>11, <2>1 DEF Mark, Go, NoMishap
<1>12. CASE Create
  BY <1>12 DEF Create, AtFile, Go, InLoop, NoMishap
<1>13. CASE Register
  <2>1. [id |-> minted, path |-> file, sheet |-> sheet, text |-> text, status |-> "active"] \in Rows
    BY <1>13 DEF Register, AtFile, AtTurn, Converted, AtSheet
  <2>2. registry' \subseteq Rows
    BY <1>13, <2>1 DEF Register
  <2> QED
    BY <1>13, <2>2 DEF Register, AtFile, Go, InLoop, NoMishap
<1>14. CASE WriteTableBlurb
  <2>1. Point(minted, file, text, minted) \in PointRecords
    BY <1>14 DEF WriteTableBlurb, AtFile, AtTurn, Converted, AtSheet, Point, PointRecords
  <2>2. points' \subseteq PointRecords \cup {LivePoint}
    BY <1>14, <2>1 DEF WriteTableBlurb, Upsert, PointRecords
  <2> QED
    BY <1>14, <2>2 DEF WriteTableBlurb, AtFile, Go, InLoop, NoMishap, LivePoint, Point,
       PointRecords
<1>15. CASE WriteDocument
  <2>1. Point(PointId(file), file, text, None) \in PointRecords
    BY <1>15 DEF WriteDocument, AtFile, AtTurn, Converted, Point, PointId, PointRecords
  <2>2. points' \subseteq PointRecords \cup {LivePoint}
    BY <1>15, <2>1 DEF WriteDocument, Upsert, PointRecords
  <2> QED
    BY <1>15, <2>2 DEF WriteDocument, AtFile, Skip, InLoop, NoMishap, LivePoint, Point,
       PointRecords
<1>16. CASE SelectRemoved
  <2>1. doomed' \subseteq Rows
    BY <1>16 DEF SelectRemoved, Active
  <2>2. Ids' = Ids /\ Rows' = Rows
    BY <1>16 DEF SelectRemoved
  <2> HIDE DEF Rows, Ids
  <2> QED
    BY <1>16, <2>1, <2>2 DEF SelectRemoved, AtFile, Go, NoMishap
<1>17. CASE PrunePoints
  <2>1. points' \subseteq points
    BY <1>17 DEF PrunePoints, Kept
  <2>3. purged' \in BOOLEAN
    BY <1>17 DEF PrunePoints
  <2>4. mishaps' \in 0..MaxMishaps
    BY <1>17 DEF PrunePoints, Mishap, NoMishap
  <2>2. Ids' = Ids /\ Rows' = Rows
    BY <1>17 DEF PrunePoints
  <2> HIDE DEF Rows, Ids
  <2> QED
    BY <1>17, <2>1, <2>2, <2>3, <2>4 DEF PrunePoints, Leave, Skip, LivePoint, Point
<1>18. CASE UNCHANGED vars
  BY <1>18 DEF vars
<1> HIDE DEF TypeOK, Places, Rows, Ids, Live, Running, stores, loop, history
<1> QED
  BY <1>1, <1>2, <1>3, <1>4, <1>5, <1>6, <1>7, <1>8, <1>9, <1>10, <1>11, <1>12, <1>13,
     <1>14, <1>15, <1>16, <1>17, <1>18
     DEF Next, FileStep

(* Every step leaves the run in a place it can be in. *)
LEMMA PlacesStep ==
    ASSUME TypeOK, Places, [Next]_vars PROVE Places'
<1> USE IngestionAssumption DEF TypeOK, Places, AtTurn, Converted, AtSheet, Live, Running,
        stores, loop, history
<1>1. CASE Edit
  BY <1>1 DEF Edit
<1>2. CASE Crash
  BY <1>2 DEF Crash, Leave, Skip, Mishap
<1>3. CASE Discover
  BY <1>3 DEF Discover, NoMishap
<1>4. CASE EnsureCollection
  BY <1>4 DEF EnsureCollection, NoMishap
<1>5. CASE DeleteByPath
  BY <1>5 DEF DeleteByPath, AtFile, Go, InLoop, Deleted, NoMishap
<1>6. CASE DeleteFails
  BY <1>6 DEF DeleteFails, AtFile, InLoop, Mishap
<1>7. CASE FileFails
  BY <1>7 DEF FileFails, Skip, InLoop, Mishap, NoMishap
<1>8. CASE Convert
  BY <1>8 DEF Convert, AtFile, Go, InLoop, Mishap, NoMishap
<1>9. CASE Select
  BY <1>9 DEF Select, AtFile, Go, InLoop, Existing, NoMishap
<1>10. CASE Drop
  BY <1>10 DEF Drop, Go, NoMishap
<1>11. CASE Mark
  BY <1>11 DEF Mark, Go, NoMishap
<1>12. CASE Create
  BY <1>12 DEF Create, AtFile, Go, InLoop, NoMishap
<1>13. CASE Register
  BY <1>13 DEF Register, AtFile, Go, InLoop, NoMishap
<1>14. CASE WriteTableBlurb
  BY <1>14 DEF WriteTableBlurb, AtFile, Go, InLoop, Upsert, Point, NoMishap
<1>15. CASE WriteDocument
  BY <1>15 DEF WriteDocument, AtFile, Skip, InLoop, Upsert, Point, PointId, NoMishap
<1>16. CASE SelectRemoved
  BY <1>16 DEF SelectRemoved, AtFile, Go, LivePaths, NoMishap
<1>17. CASE PrunePoints
  BY <1>17 DEF PrunePoints, Kept, LivePaths, Leave, Skip, Mishap, NoMishap
<1>18. CASE UNCHANGED vars
  BY <1>18 DEF vars
<1> HIDE DEF TypeOK, Places, AtTurn, Converted, AtSheet, Live, Running, stores, loop, history
<1> QED
  BY <1>1, <1>2, <1>3, <1>4, <1>5, <1>6, <1>7, <1>8, <1>9, <1>10, <1>11, <1>12, <1>13,
     <1>14, <1>15, <1>16, <1>17, <1>18
     DEF Next, FileStep

(* Every step keeps the registry in order.                                 *)
LEMMA RegisteredStep ==
    ASSUME IInv, [Next]_vars PROVE Registered'
<1> USE IngestionAssumption DEF IInv, TypeOK, Places, Registered, Superseding,
        OneActivePerSheet, Active, Rows, Ids, AtTurn, Converted, AtSheet, Live, Running,
        stores, loop, history
<1>1. CASE Edit
  BY <1>1 DEF Edit
<1>2. CASE Crash
  BY <1>2 DEF Crash, Leave, Skip, Mishap
<1>3. CASE Discover
  BY <1>3 DEF Discover, NoMishap
<1>4. CASE EnsureCollection
  BY <1>4 DEF EnsureCollection, NoMishap
<1>5. CASE DeleteByPath
  BY <1>5 DEF DeleteByPath, AtFile, Go, InLoop, Deleted, NoMishap
<1>6. CASE DeleteFails
  BY <1>6 DEF DeleteFails, AtFile, InLoop, Mishap
<1>7. CASE FileFails
  BY <1>7 DEF FileFails, Skip, InLoop, Mishap, NoMishap
<1>8. CASE Convert
  BY <1>8 DEF Convert, AtFile, Go, InLoop, Mishap, NoMishap
<1>9. CASE Select
  BY <1>9 DEF Select, AtFile, Go, InLoop, Existing, NoMishap
<1>10. CASE Drop
  BY <1>10 DEF Drop, Go, NoMishap
<1>11. CASE Mark
  <2>1. TypeOK /\ at' = "drop" /\ doomed' = {r \in doomed : r.id # dying}
    BY <1>11 DEF Mark, Go
  <2> HIDE DEF TypeOK, Active
  <2>2. Active' = {r \in Active : r.id # dying}
    BY <1>11, <2>1, MarkedRows
  <2>3. \A r, s \in registry' : r.id = s.id => r = s
    BY <1>11, <2>1, MarkedRows
  <2> QED
    BY <2>1, <2>2, <2>3
<1>12. CASE Create
  BY <1>12 DEF Create, AtFile, Go, InLoop, NoMishap
<1>13. CASE Register
  <2> DEFINE new == [id |-> minted, path |-> file, sheet |-> sheet, text |-> text,
                     status |-> "active"]
  <2>1. /\ registry' = registry \cup {new} /\ at' = "blurb"
        /\ UNCHANGED <<doomed, physical, minted, file, sheet, text>>
    BY <1>13 DEF Register, AtFile, Go, InLoop
  <2>2. AtTurn /\ at = "register"
    BY <1>13 DEF Register, AtFile
  <2>3. \A r \in registry : r.id # minted
    BY <2>2
  <2>4. minted \in physical /\ doomed = {}
    BY <2>2
  <2>5. /\ new.id = minted /\ new.path = file /\ new.sheet = sheet /\ new.text = text
        /\ new.status = "active"
    OBVIOUS
  <2> HIDE DEF new
  <2>6. Active' = Active \cup {new}
    BY <2>1, <2>5
  <2>7. \A r \in Active : r.path = file /\ r.sheet = sheet => sheet.name = None
    BY <2>2
  <2>8. OneActivePerSheet'
    BY <2>5, <2>6, <2>7 DEF Named
  <2>9. \A r, s \in registry' : r.id = s.id => r = s
    BY <2>1, <2>3, <2>5
  <2> QED
    BY <2>1, <2>4, <2>5, <2>6, <2>8, <2>9
<1>14. CASE WriteTableBlurb
  BY <1>14 DEF WriteTableBlurb, AtFile, Go, InLoop, Upsert, Point, NoMishap
<1>15. CASE WriteDocument
  BY <1>15 DEF WriteDocument, AtFile, Skip, InLoop, Upsert, Point, PointId, NoMishap
<1>16. CASE SelectRemoved
  BY <1>16 DEF SelectRemoved, AtFile, Go, LivePaths, NoMishap
<1>17. CASE PrunePoints
  BY <1>17 DEF PrunePoints, Kept, LivePaths, Leave, Skip, Mishap, NoMishap
<1>18. CASE UNCHANGED vars
  BY <1>18 DEF vars
<1> HIDE DEF IInv, TypeOK, Places, Registered, Superseding, OneActivePerSheet, Active,
        Rows, Ids, AtTurn, Converted, AtSheet, Live, Running, stores, loop, history
<1> QED
  BY <1>1, <1>2, <1>3, <1>4, <1>5, <1>6, <1>7, <1>8, <1>9, <1>10, <1>11, <1>12, <1>13,
     <1>14, <1>15, <1>16, <1>17, <1>18
     DEF Next, FileStep

(* Every step keeps what is selected to be superseded.                     *)
LEMMA SupersedingStep ==
    ASSUME IInv, [Next]_vars PROVE Superseding'
<1> USE IngestionAssumption DEF IInv, TypeOK, Places, Registered, Superseding, Active,
        Rows, Ids, AtTurn, Converted, AtSheet, Live, Running, stores, loop, history
<1>1. CASE Edit
  BY <1>1 DEF Edit
<1>2. CASE Crash
  BY <1>2 DEF Crash, Leave, Skip, Mishap
<1>3. CASE Discover
  BY <1>3 DEF Discover, NoMishap
<1>4. CASE EnsureCollection
  BY <1>4 DEF EnsureCollection, NoMishap
<1>5. CASE DeleteByPath
  <2>1. AtTurn' => at' = "convert"
    BY <1>5 DEF DeleteByPath, Go
  <2>2. stage' = "files" /\ at = "next"
    BY <1>5 DEF DeleteByPath, AtFile, InLoop
  <2>3. doomed' = doomed
    BY <1>5 DEF DeleteByPath
  <2> QED
    BY <2>1, <2>2, <2>3
<1>6. CASE DeleteFails
  BY <1>6 DEF DeleteFails, AtFile, InLoop, Mishap
<1>7. CASE FileFails
  BY <1>7 DEF FileFails, Skip, InLoop, Mishap, NoMishap
<1>8. CASE Convert
  BY <1>8 DEF Convert, AtFile, Go, InLoop, Mishap, NoMishap
<1>9. CASE Select
  BY <1>9 DEF Select, AtFile, Go, InLoop, Existing, NoMishap
<1>10. CASE Drop
  BY <1>10 DEF Drop, Go, NoMishap
<1>11. CASE Mark
  <2>1. TypeOK /\ at' = "drop" /\ doomed' = {r \in doomed : r.id # dying}
    BY <1>11 DEF Mark, Go
  <2>3. UNCHANGED <<stage, file, sheet, listed>>
    BY <1>11 DEF Mark
  <2> HIDE DEF TypeOK, Active
  <2>2. Active' = {r \in Active : r.id # dying}
    BY <1>11, <2>1, MarkedRows
  <2> QED
    BY <1>11, <2>1, <2>2, <2>3 DEF Mark
<1>12. CASE Create
  BY <1>12 DEF Create, AtFile, Go, InLoop, NoMishap
<1>13. CASE Register
  BY <1>13 DEF Register, AtFile, Go, InLoop, NoMishap
<1>14. CASE WriteTableBlurb
  BY <1>14 DEF WriteTableBlurb, AtFile, Go, InLoop, Upsert, Point, NoMishap
<1>15. CASE WriteDocument
  BY <1>15 DEF WriteDocument, AtFile, Skip, InLoop, Upsert, Point, PointId, NoMishap
<1>16. CASE SelectRemoved
  BY <1>16 DEF SelectRemoved, AtFile, Go, LivePaths, NoMishap
<1>17. CASE PrunePoints
  BY <1>17 DEF PrunePoints, Kept, LivePaths, Leave, Skip, Mishap, NoMishap
<1>18. CASE UNCHANGED vars
  BY <1>18 DEF vars
<1> HIDE DEF IInv, TypeOK, Places, Registered, Superseding, Active, Rows, Ids, AtTurn,
        Converted, AtSheet, Live, Running, stores, loop, history
<1> QED
  BY <1>1, <1>2, <1>3, <1>4, <1>5, <1>6, <1>7, <1>8, <1>9, <1>10, <1>11, <1>12, <1>13,
     <1>14, <1>15, <1>16, <1>17, <1>18
     DEF Next, FileStep

(* Every step keeps the points in step with the registry.                  *)
LEMMA PointedStep ==
    ASSUME IInv, [Next]_vars PROVE Pointed'
<1> USE IngestionAssumption DEF IInv, TypeOK, Places, Registered, Superseding, Pointed,
        PruneNotes, Active, Rows, Ids, AtTurn, Converted, AtSheet, Live, Running, stores,
        loop, history
<1>1. CASE Edit
  BY <1>1 DEF Edit
<1>2. CASE Crash
  BY <1>2 DEF Crash, Leave, Skip, Mishap
<1>3. CASE Discover
  BY <1>3 DEF Discover, NoMishap
<1>4. CASE EnsureCollection
  BY <1>4 DEF EnsureCollection, NoMishap
<1>5. CASE DeleteByPath
  BY <1>5 DEF DeleteByPath, AtFile, Go, InLoop, Deleted, NoMishap
<1>6. CASE DeleteFails
  BY <1>6 DEF DeleteFails, AtFile, InLoop, Mishap
<1>7. CASE FileFails
  BY <1>7 DEF FileFails, Skip, InLoop, Mishap, NoMishap
<1>8. CASE Convert
  BY <1>8 DEF Convert, AtFile, Go, InLoop, Mishap, NoMishap
<1>9. CASE Select
  BY <1>9 DEF Select, AtFile, Go, InLoop, Existing, NoMishap
<1>10. CASE Drop
  BY <1>10 DEF Drop, Go, NoMishap
<1>11. CASE Mark
  <2>1. TypeOK /\ at' = "drop" /\ at = "mark" /\ stage \in {"files", "prune"}
    BY <1>11 DEF Mark, Go
  <2>2. UNCHANGED <<stage, file, text, sheet, sheets, points, pruned, physical>>
    BY <1>11 DEF Mark, history
  <2>3. PICK d \in doomed : d.id = dying
    BY <2>1
  <2>4. d \in registry /\ \A r \in registry : r.id = dying => r = d
    BY <2>3
  <2>5. ASSUME NEW q \in points, q.table = dying, dying \notin pruned, q.table # None PROVE FALSE
    <3>1. stage = "files" /\ AtTurn /\ d.path = file /\ d.sheet = sheet
      BY <2>1, <2>3, <2>5
    <3> QED
      BY <2>1, <2>4, <2>5, <3>1
  <2> HIDE DEF TypeOK, Active
  <2>6. \A r \in registry' : \/ r \in registry /\ r.id # dying
                             \/ /\ r.id = dying
                                /\ \E o \in registry : /\ o.id = r.id /\ o.path = r.path
                                                       /\ o.sheet = r.sheet
    BY <1>11, <2>1, MarkedRows
  <2>7. \A r \in registry : \E s \in registry' : s.id = r.id /\ s.path = r.path
    BY <1>11, <2>1, MarkedRows
  <2> QED
    BY <2>1, <2>2, <2>5, <2>6, <2>7
<1>12. CASE Create
  BY <1>12 DEF Create, AtFile, Go, InLoop, NoMishap
<1>13. CASE Register
  BY <1>13 DEF Register, AtFile, Go, InLoop, NoMishap
<1>14. CASE WriteTableBlurb
  <2> DEFINE new == Point(minted, file, text, minted)
  <2>1. /\ UNCHANGED <<registry, physical, pruned, minted, file, text, sheet, sheets, stage>>
        /\ at = "blurb" /\ stage = "files" /\ at' = "table"
        /\ points' = {q \in points : q.id # new.id} \cup {new}
    BY <1>14 DEF WriteTableBlurb, AtFile, Go, InLoop, Upsert
  <2>2. /\ new.id = minted /\ new.path = file /\ new.table = minted /\ new.text = text
        /\ minted \in Nat
    BY DEF Point
  <2> HIDE DEF new
  <2>3. PICK m \in registry : /\ m.id = minted /\ m.status = "active" /\ m.path = file
                              /\ m.sheet = sheet
    BY <2>1
  <2>4. \A r \in registry : r.id = minted => r = m
    BY <2>3
  <2>5. sheet \notin sheets /\ minted \in physical /\ minted # None
    BY <2>1, <2>2
  <2> QED
    BY <2>1, <2>2, <2>3, <2>4, <2>5
<1>15. CASE WriteDocument
  BY <1>15 DEF WriteDocument, AtFile, Skip, InLoop, Upsert, Point, PointId, NoMishap
<1>16. CASE SelectRemoved
  BY <1>16 DEF SelectRemoved, AtFile, Go, LivePaths, NoMishap
<1>17. CASE PrunePoints
  BY <1>17 DEF PrunePoints, Kept, LivePaths, Leave, Skip, Mishap, NoMishap
<1>18. CASE UNCHANGED vars
  BY <1>18 DEF vars
<1> HIDE DEF IInv, TypeOK, Places, Registered, Superseding, Pointed, PruneNotes, Active,
        Rows, Ids, AtTurn, Converted, AtSheet, Live, Running, stores, loop, history
<1> QED
  BY <1>1, <1>2, <1>3, <1>4, <1>5, <1>6, <1>7, <1>8, <1>9, <1>10, <1>11, <1>12, <1>13,
     <1>14, <1>15, <1>16, <1>17, <1>18
     DEF Next, FileStep

(* Every step keeps the notes of prune. *)
LEMMA NotesStep ==
    ASSUME IInv, [Next]_vars PROVE PruneNotes'
<1> USE IngestionAssumption DEF IInv, Places, PruneNotes, stores, loop, history
<1>1. CASE Edit
  BY <1>1 DEF Edit
<1>2. CASE Crash
  BY <1>2 DEF Crash, Leave, Skip, Mishap
<1>3. CASE Discover
  BY <1>3 DEF Discover, NoMishap
<1>4. CASE EnsureCollection
  BY <1>4 DEF EnsureCollection, NoMishap
<1>5. CASE DeleteByPath
  BY <1>5 DEF DeleteByPath, AtFile, Go, InLoop, Deleted, NoMishap
<1>6. CASE DeleteFails
  BY <1>6 DEF DeleteFails, AtFile, InLoop, Mishap
<1>7. CASE FileFails
  BY <1>7 DEF FileFails, Skip, InLoop, Mishap, NoMishap
<1>8. CASE Convert
  BY <1>8 DEF Convert, AtFile, Go, InLoop, Mishap, NoMishap
<1>9. CASE Select
  BY <1>9 DEF Select, AtFile, Go, InLoop, Existing, NoMishap
<1>10. CASE Drop
  BY <1>10 DEF Drop, Go, NoMishap
<1>11. CASE Mark
  BY <1>11 DEF Mark, Go, NoMishap
<1>12. CASE Create
  BY <1>12 DEF Create, AtFile, Go, InLoop, NoMishap
<1>13. CASE Register
  BY <1>13 DEF Register, AtFile, Go, InLoop, NoMishap
<1>14. CASE WriteTableBlurb
  BY <1>14 DEF WriteTableBlurb, AtFile, Go, InLoop, Upsert, Point, NoMishap
<1>15. CASE WriteDocument
  BY <1>15 DEF WriteDocument, AtFile, Skip, InLoop, Upsert, Point, PointId, NoMishap
<1>16. CASE SelectRemoved
  BY <1>16 DEF SelectRemoved, AtFile, Go, LivePaths, NoMishap
<1>17. CASE PrunePoints
  BY <1>17 DEF PrunePoints, Kept, LivePaths, Leave, Skip, Mishap, NoMishap
<1>18. CASE UNCHANGED vars
  BY <1>18 DEF vars
<1> HIDE DEF IInv, Places, PruneNotes, stores, loop, history
<1> QED
  BY <1>1, <1>2, <1>3, <1>4, <1>5, <1>6, <1>7, <1>8, <1>9, <1>10, <1>11, <1>12, <1>13,
     <1>14, <1>15, <1>16, <1>17, <1>18
     DEF Next, FileStep

(* A run that has not begun satisfies the invariant.                       *)
LEMMA InitInv == Init => IInv
<1> SUFFICES ASSUME Init PROVE IInv
  OBVIOUS
<1> USE IngestionAssumption DEF Init
<1>1. TypeOK
  <2>1. /\ points \subseteq {LivePoint} /\ physical \subseteq Ids /\ registry \subseteq Rows
        /\ doomed \subseteq Rows /\ pruned \subseteq Ids /\ minted \in Nat
    OBVIOUS
  <2>2. runs \in 0..MaxRuns /\ edits \in 0..MaxEdits /\ mishaps \in 0..MaxMishaps
    OBVIOUS
  <2>3. listed \in [Paths -> Contents \cup {None}]
    OBVIOUS
  <2> QED
    BY <2>1, <2>2, <2>3 DEF TypeOK
<1>2. Places
  BY DEF Places, AtTurn, Converted, AtSheet, Live
<1>3. Registered
  BY DEF Registered, Active, OneActivePerSheet
<1>4. Superseding
  BY DEF Superseding, AtTurn, Active
<1>5. Pointed
  BY DEF Pointed, AtTurn, Converted, LivePoint, Point
<1>6. PruneNotes
  BY DEF PruneNotes
<1> QED
  BY <1>1, <1>2, <1>3, <1>4, <1>5, <1>6 DEF IInv

(* Every step keeps the invariant.                                         *)
LEMMA InvStep == IInv /\ [Next]_vars => IInv'
<1> SUFFICES ASSUME IInv, [Next]_vars PROVE IInv'
  OBVIOUS
<1>1. TypeOK /\ Places /\ Registered
  BY DEF IInv
<1> QED
  BY <1>1, TypeStep, PlacesStep, RegisteredStep, SupersedingStep, PointedStep,
     NotesStep DEF IInv

(* The invariant of ingestion holds throughout.                            *)
THEOREM IngestionInvariant == Spec => []IInv
<1> QED
  BY InitInv, InvStep, PTL DEF Spec

(* Source, stores and loop keep their types.                               *)
THEOREM IngestionTypeCorrect == Spec => []TypeOK
<1>1. IInv => TypeOK
  BY DEF IInv
<1> QED
  BY <1>1, IngestionInvariant, PTL

(* What a search finds is a table that is there and active, and the one    *)
(* active table of its sheet (reindex.ts 5-9, table-loader.ts 10-13).      *)
THEOREM FoundIsCurrentAlways == Spec => []FoundIsCurrent
<1>1. IInv => FoundIsCurrent
  BY DEF IInv, Registered, Pointed, FoundIsCurrent, BlurbLeadsToTable, Queryable, Active
<1> QED
  BY <1>1, IngestionInvariant, PTL

(* prune.ts 17-24: a step of prune removes points and tables only of       *)
(* documents that were not discovered, and never a live source's pointer.  *)
THEOREM OnlyTheGoneArePrunedAlways == Spec => OnlyTheGoneArePruned
<1> DEFINE Gone ==
       stage = "prune" =>
         /\ \A q \in points \ points' : q.path \in Paths /\ listed[q.path] = None
         /\ \A id \in physical \ physical' : \E r \in registry : r.id = id /\ listed[r.path] = None
<1>1. IInv /\ [Next]_vars => Gone
  <2> SUFFICES ASSUME IInv, [Next]_vars, stage = "prune" PROVE Gone
    BY DEF Gone
  <2>1. CASE Drop
    <3>1. PICK r \in doomed : physical' = physical \ {r.id} /\ points' = points
      BY <2>1 DEF Drop
    <3>2. r \in registry /\ r.path \in Paths /\ r.path \notin Live
      BY DEF IInv, Superseding, Registered, Active, TypeOK, Rows
    <3> QED
      BY <3>1, <3>2 DEF Live
  <2>2. CASE PrunePoints
    <3>1. physical' = physical /\ Kept \subseteq points /\ (points' = points \/ points' = Kept)
      BY <2>2 DEF PrunePoints, Kept
    <3>2. ASSUME NEW q \in points, q \notin Kept PROVE q.path \in Paths /\ listed[q.path] = None
      <4>1. q.path \notin Live /\ q # LivePoint
        BY <3>2 DEF Kept, LivePaths
      <4>2. q.path \in Paths
        BY <4>1 DEF IInv, TypeOK
      <4> QED
        BY <4>1, <4>2 DEF Live
    <3> QED
      BY <3>1, <3>2
  <2>3. CASE ~Drop /\ ~PrunePoints
    <3>1. points' = points /\ physical' = physical
      BY <2>3 DEF Next, FileStep, Edit, Crash, Discover, EnsureCollection, DeleteByPath,
         DeleteFails,
                  FileFails, Convert, Select, Mark, Create, Register, WriteTableBlurb, WriteDocument,
                  SelectRemoved, AtFile, InLoop, Running, stores, vars, IInv, Places
    <3> QED
      BY <3>1
  <2> QED
    BY <2>1, <2>2, <2>3
<1>2. Spec => [][Gone]_vars
  BY <1>1, IngestionInvariant, PTL DEF Spec
<1> QED
  BY <1>2 DEF OnlyTheGoneArePruned, Gone

-----------------------------------------------------------------------------
(* What keeps a table and its blurb, and what keeps a mirrored file so.    *)
LEMMA TableKept ==
    ASSUME IInv, NEW p, NEW s, NEW c, TableOf(p, s, c),
           \A q \in points : q.path = p /\ q.table \in Ids => q \in points',
           \A r \in Active : r.path = p /\ r.sheet = s =>
                r \in Active' /\ (r.id \in physical => r.id \in physical')
    PROVE  TableOf(p, s, c)'
<1>1. PICK r \in Active, q \in points :
         /\ r.path = p /\ r.sheet = s /\ r.text = c /\ r.id \in physical
         /\ q.table = r.id /\ q.path = p
  BY DEF TableOf
<1>2. r.id \in Ids
  BY DEF IInv, TypeOK, Rows, Active
<1>3. r \in Active' /\ q \in points' /\ r.id \in physical'
  BY <1>1, <1>2
<1> QED
  BY <1>1, <1>3 DEF TableOf

LEMMA LedKept ==
    ASSUME IInv, IInv', NEW p, NEW c, Led(p, c),
           \A q \in points' : q.path = p /\ q.table # None => q \in points,
           \A r \in Found(p) : r \in Active' /\ r.id \in physical'
    PROVE  Led(p, c)'
<1>1. \A q \in points' : q.path = p /\ q.table # None =>
         \E r \in Found(p) : r.id = q.table /\ r \in Found(p)'
  <2> SUFFICES ASSUME NEW q \in points', q.path = p, q.table # None
               PROVE  \E r \in Found(p) : r.id = q.table /\ r \in Found(p)'
    OBVIOUS
  <2>1. PICK r \in Found(p) : r.id = q.table
    BY DEF Led
  <2>2. r \in Active' /\ r.id \in physical' /\ r.path = p
    BY DEF Found
  <2> QED
    BY <2>1, <2>2 DEF Found
<1>2. Found(p)' \subseteq Found(p)
  <2> SUFFICES ASSUME NEW r \in Found(p)' PROVE r \in Found(p)
    OBVIOUS
  <2>1. PICK q \in points' : q.path = p /\ q.table = r.id
    BY DEF Found
  <2>2. r \in registry' /\ r.id # None
    BY IngestionAssumption DEF IInv, TypeOK, Rows, Ids, Found, Active
  <2>3. PICK o \in Found(p) : o.id = r.id /\ o \in Found(p)'
    BY <1>1, <2>1, <2>2
  <2>4. o \in registry'
    BY <2>3 DEF Found, Active
  <2> QED
    BY <2>2, <2>3, <2>4 DEF IInv, Registered
<1> QED
  BY <1>1, <1>2 DEF Led

LEMMA MirrorKept ==
    ASSUME IInv, IInv', NEW p, Mirrored(p), listed' = listed, TextOf(p)',
           \A q \in points' : q.path = p => q \in points,
           \A q \in points : q.path = p /\ q.table \in Ids => q \in points',
           \A r \in Active : r.path = p =>
                r \in Active' /\ (r.id \in physical => r.id \in physical')
    PROVE  Mirrored(p)'
<1>1. \A s \in SheetsOf[listed[p]] : TableOf(p, s, listed[p])'
  <2> SUFFICES ASSUME NEW s \in SheetsOf[listed[p]] PROVE TableOf(p, s, listed[p])'
    OBVIOUS
  <2>1. TableOf(p, s, listed[p])
    BY DEF Mirrored
  <2> HIDE DEF TableOf
  <2>2. \A r \in Active : r.path = p /\ r.sheet = s =>
           r \in Active' /\ (r.id \in physical => r.id \in physical')
    OBVIOUS
  <2>3. ASSUME NEW c, c = listed[p] PROVE TableOf(p, s, c)'
    BY <2>1, <2>2, <2>3, TableKept
  <2> QED
    BY <2>3 DEF TableOf
<1>2. \A q \in points' : q.path = p => q.text = listed[p]
  BY DEF Mirrored
<1>3. Led(p, listed[p])'
  <2>1. \A r \in Found(p) : r \in Active' /\ r.id \in physical'
    BY DEF Found
  <2>2. ASSUME NEW c, c = listed[p] PROVE Led(p, c)'
    BY <2>1, <2>2, LedKept DEF Mirrored
  <2> QED
    BY <2>2
<1> QED
  BY <1>1, <1>2, <1>3 DEF Mirrored

LEMMA TextKept ==
    ASSUME NEW p, TextOf(p), listed' = listed, waiting' \subseteq waiting,
           \A q \in points : q.path \in Live \ waiting => q \in points'
    PROVE  TextOf(p)'
BY DEF TextOf, Live

(* With the stores unchanged, or with more of them, a mirrored file is     *)
(* mirrored, and a file is settled only if it was settled before.          *)
LEMMA MirrorSame ==
    ASSUME IInv, IInv', NEW p, Mirrored(p), waiting' \subseteq waiting,
           UNCHANGED <<points, listed>>, registry \subseteq registry', physical \subseteq physical'
    PROVE  Mirrored(p)'
<1>1. TextOf(p)'
  BY TextKept DEF Mirrored
<1>2. Active \subseteq Active'
  BY DEF Active
<1> QED
  BY <1>1, <1>2, MirrorKept

LEMMA SettledBefore ==
    ASSUME NEW p, Settled(p)', listed' = listed, failed \subseteq failed', touched \subseteq touched'
    PROVE  Settled(p)
BY DEF Settled, Live

(* Every step keeps what is known of the text of the file it is at.        *)
LEMMA ReadStep ==
    ASSUME IInv, FileRead, [Next]_vars PROVE FileRead'
<1> USE IngestionAssumption DEF IInv, TypeOK, Places, FileRead, AtTurn, Converted, AtSheet,
        Live, Running, stores, loop, history
<1>1. CASE Edit
  BY <1>1 DEF Edit
<1>2. CASE Crash
  BY <1>2 DEF Crash, Leave, Skip, Mishap
<1>3. CASE Discover
  BY <1>3 DEF Discover, NoMishap
<1>4. CASE EnsureCollection
  BY <1>4 DEF EnsureCollection, NoMishap
<1>5. CASE DeleteByPath
  BY <1>5 DEF DeleteByPath, AtFile, Go, InLoop, Deleted, NoMishap
<1>6. CASE DeleteFails
  BY <1>6 DEF DeleteFails, AtFile, InLoop, Mishap
<1>7. CASE FileFails
  BY <1>7 DEF FileFails, Skip, InLoop, Mishap, NoMishap
<1>8. CASE Convert
  BY <1>8 DEF Convert, AtFile, Go, InLoop, Mishap, NoMishap
<1>9. CASE Select
  BY <1>9 DEF Select, AtFile, Go, InLoop, Existing, NoMishap
<1>10. CASE Drop
  BY <1>10 DEF Drop, Go, NoMishap
<1>11. CASE Mark
  BY <1>11 DEF Mark, Go, NoMishap
<1>12. CASE Create
  BY <1>12 DEF Create, AtFile, Go, InLoop, NoMishap
<1>13. CASE Register
  BY <1>13 DEF Register, AtFile, Go, InLoop, NoMishap
<1>14. CASE WriteTableBlurb
  BY <1>14 DEF WriteTableBlurb, AtFile, Go, InLoop, Upsert, Point, NoMishap
<1>15. CASE WriteDocument
  BY <1>15 DEF WriteDocument, AtFile, Skip, InLoop, Upsert, Point, PointId, NoMishap
<1>16. CASE SelectRemoved
  BY <1>16 DEF SelectRemoved, AtFile, Go, LivePaths, NoMishap
<1>17. CASE PrunePoints
  BY <1>17 DEF PrunePoints, Kept, LivePaths, Leave, Skip, Mishap, NoMishap
<1>18. CASE UNCHANGED vars
  BY <1>18 DEF vars
<1> HIDE DEF IInv, TypeOK, Places, FileRead, AtTurn, Converted, AtSheet, Live, Running,
        stores, loop, history
<1> QED
  BY <1>1, <1>2, <1>3, <1>4, <1>5, <1>6, <1>7, <1>8, <1>9, <1>10, <1>11, <1>12, <1>13,
     <1>14, <1>15, <1>16, <1>17, <1>18
     DEF Next, FileStep

(* Every step keeps the tables of the sheets that are done.               *)
LEMMA TablesStep ==
    ASSUME IInv, FileRead, TablesMade, [Next]_vars PROVE TablesMade'
<1> TypeOK /\ Places
  BY DEF IInv
<1> USE IngestionAssumption DEF TypeOK, Places, AtTurn, Converted, AtSheet, stores, loop,
        history
<1>1. CASE Edit
  <2>1. UNCHANGED <<points, registry, physical, stage, file, at, text, sheet, sheets, failed>>
    BY <1>1 DEF Edit
  <2> QED
    BY <2>1 DEF TablesMade, TableOf, Active
<1>2. CASE Crash
  <2>1. ~Converted'
    BY <1>2 DEF Crash
  <2> QED
    BY <2>1 DEF TablesMade
<1>3. CASE Discover
  <2>1. ~Converted'
    BY <1>3 DEF Discover
  <2> QED
    BY <2>1 DEF TablesMade
<1>4. CASE EnsureCollection
  <2>1. ~Converted'
    BY <1>4 DEF EnsureCollection
  <2> QED
    BY <2>1 DEF TablesMade
<1>5. CASE DeleteByPath
  <2>1. ~Converted'
    BY <1>5 DEF DeleteByPath, Go
  <2> QED
    BY <2>1 DEF TablesMade
<1>6. CASE DeleteFails
  <2>1. ~Converted'
    BY <1>6 DEF DeleteFails, AtFile, InLoop
  <2> QED
    BY <2>1 DEF TablesMade
<1>7. CASE FileFails
  <2>1. ~Converted'
    BY <1>7 DEF FileFails, Skip
  <2> QED
    BY <2>1 DEF TablesMade
<1>8. CASE Convert
  <2>1. file' \notin failed' => sheets' = SheetsOf[text']
    BY <1>8 DEF Convert, AtFile
  <2> QED
    BY <2>1 DEF TablesMade
<1>9. CASE Select
  <2>1. PICK z \in sheets : sheet' = z /\ sheets' = sheets \ {z}
    BY <1>9 DEF Select
  <2>2. /\ AtTurn /\ at = "table" /\ at' = "drop"
        /\ UNCHANGED <<points, registry, physical, stage, file, text, failed>>
    BY <1>9 DEF Select, AtFile, Go, InLoop
  <2> QED
    BY <2>1, <2>2 DEF TablesMade, TableOf, Active
<1>10. CASE Drop
  <2>1. /\ at = "drop" /\ at' = "mark"
        /\ UNCHANGED <<points, registry, stage, file, text, failed, sheet, sheets>>
    BY <1>10 DEF Drop, Go
  <2>2. PICK d \in doomed : physical' = physical \ {d.id}
    BY <1>10 DEF Drop
  <2>3. ASSUME Converted, NEW s, s # sheet, NEW c, TableOf(file, s, c) PROVE TableOf(file, s, c)'
    <3>1. d \in Active /\ d.sheet # s
      BY <2>3 DEF IInv, Registered, Superseding
    <3>2. \A r \in Active : r.sheet = s => r.id # d.id
      BY <3>1 DEF IInv, Registered, Active
    <3> QED
      BY <2>1, <2>2, <2>3, <3>2, TableKept DEF Active
  <2> QED
    BY <2>1, <2>3 DEF TablesMade
<1>11. CASE Mark
  <2>1. /\ at = "mark" /\ at' = "drop"
        /\ UNCHANGED <<points, physical, stage, file, text, failed, sheet, sheets>>
    BY <1>11 DEF Mark, Go
  <2>2. PICK d \in doomed : d.id = dying
    BY <2>1 DEF IInv, Registered
  <2>4. Active' = {r \in Active : r.id # dying}
    BY <1>11, MarkedRows DEF IInv
  <2>3. ASSUME Converted, NEW s, s # sheet, NEW c, TableOf(file, s, c) PROVE TableOf(file, s, c)'
    <3>1. d \in Active /\ d.sheet # s
      BY <2>3 DEF IInv, Registered, Superseding
    <3>2. \A r \in Active : r.sheet = s => r.id # d.id
      BY <3>1 DEF IInv, Registered, Active
    <3> QED
      BY <2>1, <2>2, <2>3, <2>4, <3>2, TableKept
  <2> QED
    BY <2>1, <2>3 DEF TablesMade
<1>12. CASE Create
  <2>1. /\ at \in AtSheet /\ at' \in AtSheet /\ points' = points /\ Ids \subseteq Ids'
        /\ UNCHANGED <<stage, file, text, failed, sheet, sheets>>
    BY <1>12 DEF Create, AtFile, Go, InLoop, Ids
  <2>2. registry \subseteq registry' /\ physical \subseteq physical'
    BY <1>12 DEF Create
  <2>3. \A s, c : TableOf(file, s, c) => TableOf(file, s, c)'
    BY <2>1, <2>2, TableKept DEF Active
  <2> QED
    BY <2>1, <2>3 DEF TablesMade
<1>13. CASE Register
  <2>1. /\ at \in AtSheet /\ at' \in AtSheet /\ points' = points /\ Ids \subseteq Ids'
        /\ UNCHANGED <<stage, file, text, failed, sheet, sheets>>
    BY <1>13 DEF Register, AtFile, Go, InLoop, Ids
  <2>2. registry \subseteq registry' /\ physical \subseteq physical'
    BY <1>13 DEF Register
  <2>3. \A s, c : TableOf(file, s, c) => TableOf(file, s, c)'
    BY <2>1, <2>2, TableKept DEF Active
  <2> QED
    BY <2>1, <2>3 DEF TablesMade
<1>14. CASE WriteTableBlurb
  <2> DEFINE new == Point(minted, file, text, minted)
  <2>1. /\ at = "blurb" /\ at' = "table" /\ Converted
        /\ points' = {q \in points : q.id # minted} \cup {new}
        /\ UNCHANGED <<registry, physical, minted, stage, file, text, failed, sheet, sheets>>
    BY <1>14 DEF WriteTableBlurb, AtFile, Go, InLoop, Upsert, Point
  <2>2. /\ new.table = minted /\ new.path = file
    BY DEF Point
  <2> HIDE DEF new
  <2>3. /\ minted \in physical
        /\ \E r \in Active : r.id = minted /\ r.path = file /\ r.sheet = sheet /\ r.text = text
    BY <2>1 DEF IInv, Registered, Active
  <2>4. TableOf(file, sheet, text)'
    BY <2>1, <2>2, <2>3 DEF TableOf, Active
  <2>5. ASSUME NEW s, s # sheet, NEW c, TableOf(file, s, c) PROVE TableOf(file, s, c)'
    <3>1. \A q \in points : q.path = file /\ q.table \in Ids => q.id # minted
      <4>1. ASSUME NEW q \in points, q.path = file, q.table \in Ids PROVE q.id # minted
        <5>1. q.table # None
          BY <4>1 DEF IInv, Ids
        <5>2. q.id = q.table /\ \A r \in registry : r.id = q.table => r.sheet # sheet
          BY <2>1, <4>1, <5>1 DEF IInv, Pointed
        <5> QED
          BY <2>3, <5>2 DEF Active
      <4> QED
        BY <4>1
    <3> QED
      BY <2>1, <2>5, <3>1, TableKept DEF Active
  <2> QED
    BY <2>1, <2>4, <2>5 DEF TablesMade
<1>15. CASE WriteDocument
  <2>1. ~Converted'
    BY <1>15 DEF WriteDocument, Skip
  <2> QED
    BY <2>1 DEF TablesMade
<1>16. CASE SelectRemoved
  <2>1. ~Converted'
    BY <1>16 DEF SelectRemoved
  <2> QED
    BY <2>1 DEF TablesMade
<1>17. CASE PrunePoints
  <2>1. ~Converted'
    BY <1>17 DEF PrunePoints
  <2> QED
    BY <2>1 DEF TablesMade
<1>18. CASE UNCHANGED vars
  BY <1>18 DEF vars, TablesMade, TableOf, Active
<1> HIDE DEF TypeOK, Places, AtTurn, Converted, AtSheet, stores, loop, history
<1> QED
  BY <1>1, <1>2, <1>3, <1>4, <1>5, <1>6, <1>7, <1>8, <1>9, <1>10, <1>11, <1>12, <1>13,
     <1>14, <1>15, <1>16, <1>17, <1>18
     DEF Next, FileStep

(* The tables found in a turn are of sheets it is done with.               *)
LEMMA FoundIsDone ==
    ASSUME IInv, Converted
    PROVE  \A r \in Found(file) : r.sheet \notin sheets /\ (at \in AtSheet => r.sheet # sheet)
<1> SUFFICES ASSUME NEW r \in Found(file)
             PROVE  r.sheet \notin sheets /\ (at \in AtSheet => r.sheet # sheet)
  OBVIOUS
<1>1. PICK q \in points : q.path = file /\ q.table = r.id
  BY DEF Found
<1>2. r \in registry /\ r.id # None
  BY IngestionAssumption DEF IInv, TypeOK, Found, Active, Rows, Ids
<1> QED
  BY <1>1, <1>2 DEF IInv, Pointed

(* Every step keeps the blurbs of the file it is at leading to its tables. *)
LEMMA LedStep ==
    ASSUME IInv, BlurbsLed, [Next]_vars PROVE BlurbsLed'
<1> TypeOK /\ Places
  BY DEF IInv
<1> IInv'
  BY InvStep
<1> USE IngestionAssumption DEF TypeOK, Places, AtTurn, Converted, AtSheet, stores, loop,
        history
<1>1. CASE Edit
  <2>1. UNCHANGED <<points, registry, physical, stage, file, at, text, sheet, sheets>>
    BY <1>1 DEF Edit
  <2> QED
    BY <2>1 DEF BlurbsLed, Led, Found, Active
<1>2. CASE Crash
  <2>1. ~Converted'
    BY <1>2 DEF Crash
  <2> QED
    BY <2>1 DEF BlurbsLed
<1>3. CASE Discover
  <2>1. ~Converted'
    BY <1>3 DEF Discover
  <2> QED
    BY <2>1 DEF BlurbsLed
<1>4. CASE EnsureCollection
  <2>1. ~Converted'
    BY <1>4 DEF EnsureCollection
  <2> QED
    BY <2>1 DEF BlurbsLed
<1>5. CASE DeleteByPath
  <2>1. ~Converted'
    BY <1>5 DEF DeleteByPath, Go
  <2> QED
    BY <2>1 DEF BlurbsLed
<1>6. CASE DeleteFails
  <2>1. ~Converted'
    BY <1>6 DEF DeleteFails, AtFile, InLoop
  <2> QED
    BY <2>1 DEF BlurbsLed
<1>7. CASE FileFails
  <2>1. ~Converted'
    BY <1>7 DEF FileFails, Skip
  <2> QED
    BY <2>1 DEF BlurbsLed
<1>8. CASE Convert
  <2>1. /\ AtTurn /\ at = "convert" /\ at' = "table" /\ sheets' \subseteq SheetsOf[text']
        /\ UNCHANGED <<points, registry, physical, file>>
    BY <1>8 DEF Convert, AtFile, Go, InLoop
  <2>2. \A q \in points : q.path # file
    BY <2>1 DEF IInv, Pointed
  <2> QED
    BY <2>1, <2>2 DEF BlurbsLed, Led, Found
<1>9. CASE Select
  <2>1. PICK z \in sheets : sheet' = z /\ sheets' = sheets \ {z}
    BY <1>9 DEF Select
  <2>2. /\ AtTurn /\ at = "table" /\ at' = "drop"
        /\ UNCHANGED <<points, registry, physical, stage, file, text>>
    BY <1>9 DEF Select, AtFile, Go, InLoop
  <2> QED
    BY <2>1, <2>2 DEF BlurbsLed, Led, Found, Active
<1>10. CASE Drop
  <2>1. /\ at = "drop" /\ at' = "mark"
        /\ UNCHANGED <<points, registry, stage, file, text, sheet, sheets>>
    BY <1>10 DEF Drop, Go
  <2>2. PICK d \in doomed : physical' = physical \ {d.id}
    BY <1>10 DEF Drop
  <2>3. ASSUME Converted, NEW r \in Found(file) PROVE r \in Active' /\ r.id \in physical'
    <3>1. d \in Active /\ d.sheet = sheet
      BY <2>3 DEF IInv, Registered, Superseding
    <3>2. r.sheet # sheet
      BY <2>1, <2>3, FoundIsDone
    <3>3. r \in registry /\ d \in registry
      BY <2>3, <3>1 DEF Found, Active
    <3>4. r.id # d.id
      BY <3>1, <3>2, <3>3 DEF IInv, Registered
    <3> QED
      BY <2>1, <2>2, <2>3, <3>4 DEF Active, Found
  <2> QED
    BY <2>1, <2>3, LedKept DEF BlurbsLed
<1>11. CASE Mark
  <2>1. /\ at = "mark" /\ at' = "drop"
        /\ UNCHANGED <<points, physical, stage, file, text, sheet, sheets>>
    BY <1>11 DEF Mark, Go
  <2>2. PICK d \in doomed : d.id = dying
    BY <2>1 DEF IInv, Registered
  <2>4. Active' = {r \in Active : r.id # dying}
    BY <1>11, MarkedRows DEF IInv
  <2>3. ASSUME Converted, NEW r \in Found(file) PROVE r \in Active' /\ r.id \in physical'
    <3>1. d \in Active /\ d.sheet = sheet
      BY <2>3 DEF IInv, Registered, Superseding
    <3>2. r.sheet # sheet
      BY <2>1, <2>3, FoundIsDone
    <3>3. r \in registry /\ d \in registry
      BY <2>3, <3>1 DEF Found, Active
    <3>4. r.id # d.id
      BY <3>1, <3>2, <3>3 DEF IInv, Registered
    <3> QED
      BY <2>1, <2>2, <2>3, <2>4, <3>4 DEF Found
  <2> QED
    BY <2>1, <2>3, LedKept DEF BlurbsLed
<1>12. CASE Create
  <2>1. /\ at \in AtSheet /\ at' \in AtSheet /\ points' = points
        /\ UNCHANGED <<stage, file, text, sheet, sheets>>
        /\ registry \subseteq registry' /\ physical \subseteq physical'
    BY <1>12 DEF Create, AtFile, Go, InLoop
  <2>2. \A r \in Found(file) : r \in Active' /\ r.id \in physical'
    BY <2>1 DEF Found, Active
  <2> QED
    BY <2>1, <2>2, LedKept DEF BlurbsLed
<1>13. CASE Register
  <2>1. /\ at \in AtSheet /\ at' \in AtSheet /\ points' = points
        /\ UNCHANGED <<stage, file, text, sheet, sheets>>
        /\ registry \subseteq registry' /\ physical \subseteq physical'
    BY <1>13 DEF Register, AtFile, Go, InLoop
  <2>2. \A r \in Found(file) : r \in Active' /\ r.id \in physical'
    BY <2>1 DEF Found, Active
  <2> QED
    BY <2>1, <2>2, LedKept DEF BlurbsLed
<1>14. CASE WriteTableBlurb
  <2> DEFINE new == Point(minted, file, text, minted)
  <2>1. /\ at = "blurb" /\ at' = "table" /\ Converted
        /\ points' = {q \in points : q.id # minted} \cup {new}
        /\ UNCHANGED <<registry, physical, minted, stage, file, text, sheet, sheets>>
    BY <1>14 DEF WriteTableBlurb, AtFile, Go, InLoop, Upsert, Point
  <2>2. new.table = minted /\ new.path = file /\ minted # None
    BY DEF Point
  <2> HIDE DEF new
  <2>3. PICK t \in Active : t.id = minted /\ t.path = file /\ t.sheet = sheet /\ t.text = text
    BY <2>1 DEF IInv, Registered, Active
  <2>4. minted \in physical /\ sheet \in SheetsOf[text] /\ Led(file, text)
    BY <2>1 DEF IInv, Registered, BlurbsLed
  <2>5. \A r \in Found(file) : r.sheet # sheet
    BY <2>1, FoundIsDone
  <2>6. Found(file)' \subseteq Found(file) \cup {t} /\ t \in Found(file)'
    <3>1. \A r \in Active : r.id = minted => r = t
      BY <2>3 DEF IInv, Registered, Active
    <3> QED
      BY <2>1, <2>2, <2>3, <2>4, <3>1 DEF Found, Active
  <2>7. \A q \in points : q.path = file /\ q.table # None => q \in points'
    <3>1. ASSUME NEW q \in points, q.path = file, q.table # None PROVE q.id # minted
      <4>1. q.id = q.table /\ \A r \in registry : r.id = q.table => r.sheet # sheet
        BY <2>1, <3>1 DEF IInv, Pointed
      <4> QED
        BY <2>3, <4>1 DEF Active
    <3> QED
      BY <2>1, <3>1
  <2>8. Found(file) \subseteq Found(file)'
    <3> SUFFICES ASSUME NEW r \in Found(file) PROVE r \in Found(file)'
      OBVIOUS
    <3>1. PICK q \in points : q.path = file /\ q.table = r.id
      BY DEF Found
    <3>2. r \in registry /\ r.id # None
      BY DEF Found, Active, Rows, Ids
    <3>3. q \in points'
      BY <2>7, <3>1, <3>2
    <3> QED
      BY <2>1, <3>1, <3>3 DEF Found, Active
  <2>9. Found(file)' = Found(file) \cup {t}
    BY <2>6, <2>8
  <2>10. \A q \in points' : q.path = file /\ q.table # None =>
            \E r \in Found(file)' : r.id = q.table
    BY <2>1, <2>2, <2>3, <2>4, <2>9 DEF Led
  <2>11. \A r \in Found(file)' : /\ r.sheet \in SheetsOf[text] /\ r.text = text
                                 /\ \A o \in Found(file)' : o.sheet = r.sheet => o = r
    BY <2>3, <2>4, <2>5, <2>9 DEF Led
  <2> HIDE DEF Found
  <2> QED
    BY <2>1, <2>4, <2>10, <2>11 DEF BlurbsLed, Led
<1>15. CASE WriteDocument
  <2>1. ~Converted'
    BY <1>15 DEF WriteDocument, Skip
  <2> QED
    BY <2>1 DEF BlurbsLed
<1>16. CASE SelectRemoved
  <2>1. ~Converted'
    BY <1>16 DEF SelectRemoved
  <2> QED
    BY <2>1 DEF BlurbsLed
<1>17. CASE PrunePoints
  <2>1. ~Converted'
    BY <1>17 DEF PrunePoints
  <2> QED
    BY <2>1 DEF BlurbsLed
<1>18. CASE UNCHANGED vars
  BY <1>18 DEF vars, BlurbsLed, Led, Found, Active
<1> HIDE DEF TypeOK, Places, AtTurn, Converted, AtSheet, stores, loop, history
<1> QED
  BY <1>1, <1>2, <1>3, <1>4, <1>5, <1>6, <1>7, <1>8, <1>9, <1>10, <1>11, <1>12, <1>13,
     <1>14, <1>15, <1>16, <1>17, <1>18
     DEF Next, FileStep

(* Every step keeps the settled files mirrored.                            *)
LEMMA MirroredStep ==
    ASSUME IInv, FileRead, TablesMade, BlurbsLed, SettledMirrored, [Next]_vars
    PROVE  SettledMirrored'
<1> TypeOK /\ Places
  BY DEF IInv
<1> IInv'
  BY InvStep
<1> USE IngestionAssumption DEF TypeOK, Places, AtTurn, Converted, AtSheet, stores, loop,
        history
<1>1. CASE Edit
  <2>1. /\ UNCHANGED <<points, registry, physical, listed>>
        /\ UNCHANGED stage /\ waiting' = waiting /\ UNCHANGED file
        /\ failed' = failed /\ touched \subseteq touched'
    BY <1>1 DEF Edit
  <2> SUFFICES ASSUME NEW p \in Live' \ waiting', p # file', Settled(p)',
                      stage' \in {"files", "prune", "done"}
               PROVE  Mirrored(p)'
    BY DEF SettledMirrored
  <2>2. p \in Live \ waiting /\ p # file /\ Settled(p)
    BY <2>1, SettledBefore DEF Live
  <2>3. Mirrored(p)
    BY <2>1, <2>2 DEF SettledMirrored
  <2> QED
    BY <2>1, <2>2, <2>3, MirrorSame
<1>2. CASE Crash
  <2>1. stage' \notin {"files", "prune", "done"}
    BY <1>2 DEF Crash
  <2> QED
    BY <2>1 DEF SettledMirrored
<1>3. CASE Discover
  <2>1. stage' \notin {"files", "prune", "done"}
    BY <1>3 DEF Discover
  <2> QED
    BY <2>1 DEF SettledMirrored
<1>4. CASE EnsureCollection
  <2>1. Live' \ waiting' = {}
    BY <1>4 DEF EnsureCollection, Live
  <2> QED
    BY <2>1 DEF SettledMirrored
<1>5. CASE DeleteByPath
  <2>1. PICK o \in waiting : /\ file' = o /\ waiting' = waiting \ {o}
                             /\ points' = {q \in points : q.path # o}
    BY <1>5 DEF DeleteByPath, Deleted
  <2>2. /\ UNCHANGED <<registry, physical, listed, failed, touched>>
        /\ stage = "files" /\ file = None
    BY <1>5 DEF DeleteByPath, AtFile, InLoop
  <2> SUFFICES ASSUME NEW p \in Live' \ waiting', p # file', Settled(p)' PROVE Mirrored(p)'
    BY DEF SettledMirrored
  <2>3. p \in Live \ waiting /\ p # file /\ p # o /\ Settled(p)
    BY <2>1, <2>2, SettledBefore DEF Live
  <2>4. Mirrored(p)
    BY <2>2, <2>3 DEF SettledMirrored
  <2>5. TextOf(p)'
    <3>1. \A q \in points : q.path \in Live \ waiting => q \in points'
      BY <2>1
    <3> QED
      BY <2>1, <2>2, <2>4, <3>1, TextKept DEF Mirrored
  <2> QED
    BY <2>1, <2>2, <2>3, <2>4, <2>5, MirrorKept DEF Active
<1>6. CASE DeleteFails
  <2>1. /\ UNCHANGED <<points, registry, physical, listed>>
        /\ stage = "files" /\ waiting' \subseteq waiting /\ UNCHANGED file
        /\ waiting \subseteq waiting' \cup failed'
        /\ failed \subseteq failed' /\ touched' = touched
    BY <1>6 DEF DeleteFails, AtFile, InLoop
  <2> SUFFICES ASSUME NEW p \in Live' \ waiting', p # file', Settled(p)',
                      stage' \in {"files", "prune", "done"}
               PROVE  Mirrored(p)'
    BY DEF SettledMirrored
  <2>2. p \in Live \ waiting /\ p # file /\ Settled(p)
    BY <2>1, SettledBefore DEF Live, Settled
  <2>3. Mirrored(p)
    BY <2>1, <2>2 DEF SettledMirrored
  <2> QED
    BY <2>1, <2>2, <2>3, MirrorSame
<1>7. CASE FileFails
  <2>1. /\ UNCHANGED <<points, registry, physical, listed>>
        /\ stage = "files" /\ waiting' = waiting /\ file' = None /\ file \in failed'
        /\ failed \subseteq failed' /\ touched' = touched
    BY <1>7 DEF FileFails, InLoop, Skip
  <2> SUFFICES ASSUME NEW p \in Live' \ waiting', p # file', Settled(p)',
                      stage' \in {"files", "prune", "done"}
               PROVE  Mirrored(p)'
    BY DEF SettledMirrored
  <2>2. p \in Live \ waiting /\ p # file /\ Settled(p)
    BY <2>1, SettledBefore DEF Live, Settled
  <2>3. Mirrored(p)
    BY <2>1, <2>2 DEF SettledMirrored
  <2> QED
    BY <2>1, <2>2, <2>3, MirrorSame
<1>8. CASE Convert
  <2>1. /\ UNCHANGED <<points, registry, physical, listed>>
        /\ UNCHANGED stage /\ waiting' = waiting /\ UNCHANGED file
        /\ failed \subseteq failed' /\ touched' = touched
    BY <1>8 DEF Convert, AtFile, InLoop
  <2> SUFFICES ASSUME NEW p \in Live' \ waiting', p # file', Settled(p)',
                      stage' \in {"files", "prune", "done"}
               PROVE  Mirrored(p)'
    BY DEF SettledMirrored
  <2>2. p \in Live \ waiting /\ p # file /\ Settled(p)
    BY <2>1, SettledBefore DEF Live
  <2>3. Mirrored(p)
    BY <2>1, <2>2 DEF SettledMirrored
  <2> QED
    BY <2>1, <2>2, <2>3, MirrorSame
<1>9. CASE Select
  <2>1. /\ UNCHANGED <<points, registry, physical, listed>>
        /\ UNCHANGED stage /\ waiting' = waiting /\ UNCHANGED file
        /\ failed' = failed /\ touched' = touched
    BY <1>9 DEF Select, InLoop
  <2> SUFFICES ASSUME NEW p \in Live' \ waiting', p # file', Settled(p)',
                      stage' \in {"files", "prune", "done"}
               PROVE  Mirrored(p)'
    BY DEF SettledMirrored
  <2>2. p \in Live \ waiting /\ p # file /\ Settled(p)
    BY <2>1, SettledBefore DEF Live
  <2>3. Mirrored(p)
    BY <2>1, <2>2 DEF SettledMirrored
  <2> QED
    BY <2>1, <2>2, <2>3, MirrorSame
<1>10. CASE Drop
  <2>1. /\ UNCHANGED <<points, registry, listed, stage, waiting, file, failed, touched>>
        /\ at = "drop" /\ stage \in {"files", "prune"}
    BY <1>10 DEF Drop
  <2> SUFFICES ASSUME NEW p \in Live' \ waiting', p # file', Settled(p)',
                      stage' \in {"files", "prune", "done"}
               PROVE  Mirrored(p)'
    BY DEF SettledMirrored
  <2>2. p \in Live \ waiting /\ p # file /\ Settled(p)
    BY <2>1, SettledBefore DEF Live
  <2>3. Mirrored(p)
    BY <2>1, <2>2 DEF SettledMirrored
  <2>4. TextOf(p)'
    BY <2>1, <2>3, TextKept DEF Mirrored
  <2>5. PICK d \in doomed : physical' = physical \ {d.id}
    BY <1>10 DEF Drop
  <2>6. d \in Active /\ d.path # p
    BY <2>2, <2>5, <2>1 DEF IInv, Registered, Superseding
  <2>7. \A r \in Active : r.path = p => r.id # d.id
    BY <2>6 DEF IInv, Registered, Active
  <2> QED
    BY <2>1, <2>2, <2>3, <2>4, <2>5, <2>7, MirrorKept DEF Active
<1>11. CASE Mark
  <2>1. /\ UNCHANGED <<points, physical, listed, stage, waiting, file, failed, touched>>
        /\ at = "mark" /\ stage \in {"files", "prune"}
    BY <1>11 DEF Mark, history
  <2> SUFFICES ASSUME NEW p \in Live' \ waiting', p # file', Settled(p)',
                      stage' \in {"files", "prune", "done"}
               PROVE  Mirrored(p)'
    BY DEF SettledMirrored
  <2>2. p \in Live \ waiting /\ p # file /\ Settled(p)
    BY <2>1, SettledBefore DEF Live
  <2>3. Mirrored(p)
    BY <2>1, <2>2 DEF SettledMirrored
  <2>4. TextOf(p)'
    BY <2>1, <2>3, TextKept DEF Mirrored
  <2>5. PICK d \in doomed : d.id = dying
    BY <1>11, <2>1 DEF IInv, Registered
  <2>6. d \in Active /\ d.path # p
    BY <2>2, <2>5, <2>1 DEF IInv, Registered, Superseding
  <2>7. \A r \in Active : r.path = p => r.id # d.id
    BY <2>6 DEF IInv, Registered, Active
  <2>8. Active' = {r \in Active : r.id # dying}
    BY <1>11, MarkedRows DEF IInv
  <2> QED
    BY <2>1, <2>2, <2>3, <2>4, <2>5, <2>7, <2>8, MirrorKept
<1>12. CASE Create
  <2>1. /\ UNCHANGED <<points, registry, listed, stage, waiting, file, failed, touched>>
        /\ registry \subseteq registry' /\ physical \subseteq physical'
    BY <1>12 DEF Create, InLoop
  <2> SUFFICES ASSUME NEW p \in Live' \ waiting', p # file', Settled(p)',
                      stage' \in {"files", "prune", "done"}
               PROVE  Mirrored(p)'
    BY DEF SettledMirrored
  <2>2. p \in Live \ waiting /\ p # file /\ Settled(p)
    BY <2>1, SettledBefore DEF Live
  <2>3. Mirrored(p)
    BY <2>1, <2>2 DEF SettledMirrored
  <2> QED
    BY <2>1, <2>2, <2>3, MirrorSame
<1>13. CASE Register
  <2>1. /\ UNCHANGED <<points, physical, listed, stage, waiting, file, failed, touched>>
        /\ registry \subseteq registry' /\ physical \subseteq physical'
    BY <1>13 DEF Register, InLoop
  <2> SUFFICES ASSUME NEW p \in Live' \ waiting', p # file', Settled(p)',
                      stage' \in {"files", "prune", "done"}
               PROVE  Mirrored(p)'
    BY DEF SettledMirrored
  <2>2. p \in Live \ waiting /\ p # file /\ Settled(p)
    BY <2>1, SettledBefore DEF Live
  <2>3. Mirrored(p)
    BY <2>1, <2>2 DEF SettledMirrored
  <2> QED
    BY <2>1, <2>2, <2>3, MirrorSame
<1>14. CASE WriteTableBlurb
  <2>1. /\ UNCHANGED <<registry, physical, listed, stage, waiting, file, failed, touched>>
        /\ at = "blurb" /\ AtTurn /\ minted \in Ids
        /\ points' = {q \in points : q.id # minted} \cup {Point(minted, file, text, minted)}
    BY <1>14 DEF WriteTableBlurb, AtFile, InLoop, Upsert, Point, Ids
  <2> SUFFICES ASSUME NEW p \in Live' \ waiting', p # file', Settled(p)',
                      stage' \in {"files", "prune", "done"}
               PROVE  Mirrored(p)'
    BY DEF SettledMirrored
  <2>2. p \in Live \ waiting /\ p # file /\ Settled(p)
    BY <2>1, SettledBefore DEF Live
  <2>3. Mirrored(p)
    BY <2>1, <2>2 DEF SettledMirrored
  <2>4. TextOf(p)'
    <3>1. PICK q \in points : q.id = listed[p] /\ q.text = listed[p] /\ q.path \in Live \ waiting
      BY <2>3 DEF Mirrored, TextOf
    <3>2. q.id # minted
      BY <2>1, <2>2, <3>1 DEF Live, Ids
    <3> QED
      BY <2>1, <3>1, <3>2 DEF TextOf, Live
  <2>5. \A q \in points' : q.path = p => q \in points
    BY <2>1, <2>2 DEF Point
  <2>6. \A q \in points : q.path = p /\ q.table \in Ids => q.id # minted
    <3>1. ASSUME NEW q \in points, q.path = p, q.table \in Ids PROVE q.id # minted
      <4>1. q.table # None
        BY <3>1 DEF Ids
      <4>2. q.id = q.table /\ \E r \in registry : r.id = q.table /\ r.path = p
        BY <3>1, <4>1 DEF IInv, Pointed
      <4>3. \E r \in registry : r.id = minted /\ r.path = file
        BY <2>1 DEF IInv, Registered
      <4> QED
        BY <2>2, <4>2, <4>3 DEF IInv, Registered
    <3> QED
      BY <3>1
  <2> QED
    BY <2>1, <2>2, <2>3, <2>4, <2>5, <2>6, MirrorKept DEF Active
<1>15. CASE WriteDocument
  <2> DEFINE new == Point(listed[file], file, text, None)
  <2>1. /\ UNCHANGED <<registry, physical, listed, stage, waiting, failed, touched>>
        /\ at = "table" /\ Converted /\ sheets = {} /\ file' = None /\ file \in Live \ waiting
        /\ points' = {q \in points : q.id # new.id} \cup {new}
    BY <1>15 DEF WriteDocument, AtFile, InLoop, Upsert, Point, PointId, Skip
  <2>2. new.id = listed[file] /\ new.path = file /\ new.text = text /\ new.table = None
    BY DEF Point
  <2> HIDE DEF new
  <2> SUFFICES ASSUME NEW p \in Live' \ waiting', Settled(p)' PROVE Mirrored(p)'
    BY DEF SettledMirrored
  <2>3. p \in Live \ waiting /\ Settled(p) /\ listed[p] \in Contents
    BY <2>1, SettledBefore DEF Live
  <2>4. TextOf(p)' /\ (p = file => text = listed[file])
    <3>1. CASE listed[p] = listed[file]
      <4>1. text = listed[file]
        BY <2>1, <2>3, <3>1 DEF Settled, FileRead
      <4> QED
        BY <2>1, <2>2, <3>1, <4>1 DEF TextOf, Live
    <3>2. CASE listed[p] # listed[file]
      <4>1. TextOf(p)
        BY <2>1, <2>3, <3>2 DEF SettledMirrored, Mirrored
      <4>2. PICK q \in points : q.id = listed[p] /\ q.text = listed[p] /\ q.path \in Live \ waiting
        BY <4>1 DEF TextOf
      <4>3. q \in points'
        BY <2>1, <2>2, <3>2, <4>2
      <4> QED
        BY <2>1, <3>2, <4>2, <4>3 DEF TextOf, Live
    <3> QED
      BY <3>1, <3>2
  <2>5. \A q \in points : q.table \in Ids => q \in points'
    <3>1. ASSUME NEW q \in points, q.table \in Ids PROVE q.id # listed[file]
      <4>1. q.id = q.table /\ q.id \in Nat
        BY <3>1 DEF IInv, Pointed, Ids
      <4> QED
        BY <2>1, <4>1 DEF Live
    <3> QED
      BY <2>1, <2>2, <3>1
  <2>6. CASE p = file
    <3>1. \A q \in points' : q.path = p => q.text = listed[p]
      BY <2>1, <2>2, <2>4, <2>6 DEF IInv, Pointed
    <3>2. \A s \in SheetsOf[listed[p]] : TableOf(p, s, listed[p])
      BY <2>1, <2>3, <2>4, <2>6 DEF TablesMade, Settled
    <3>3. ASSUME NEW s, NEW c, TableOf(p, s, c) PROVE TableOf(p, s, c)'
      BY <2>1, <2>5, <3>3, TableKept DEF Active
    <3>4. \A s \in SheetsOf[listed[p]] : TableOf(p, s, listed[p])'
      BY <2>1, <3>2, <3>3
    <3>5. Led(p, listed[p])'
      <4>1. Led(p, text)
        BY <2>1, <2>6 DEF BlurbsLed
      <4>2. \A q \in points' : q.path = p /\ q.table # None => q \in points
        BY <2>1, <2>2
      <4>3. \A r \in Found(p) : r \in Active' /\ r.id \in physical'
        BY <2>1 DEF Found, Active
      <4>4. ASSUME NEW c, c = text PROVE Led(p, c)'
        BY <4>1, <4>2, <4>3, <4>4, LedKept
      <4> QED
        BY <2>1, <2>4, <2>6, <4>4
    <3> QED
      BY <2>1, <2>4, <3>1, <3>4, <3>5 DEF Mirrored
  <2>7. CASE p # file
    <3>1. Mirrored(p)
      BY <2>1, <2>3, <2>7 DEF SettledMirrored
    <3>2. \A q \in points' : q.path = p => q \in points
      BY <2>1, <2>2, <2>7
    <3> QED
      BY <2>1, <2>4, <2>5, <3>1, <3>2, MirrorKept DEF Active
  <2> QED
    BY <2>6, <2>7
<1>16. CASE SelectRemoved
  <2>1. /\ UNCHANGED <<points, registry, physical, listed>>
        /\ stage = "files" /\ waiting' = waiting /\ UNCHANGED file
        /\ failed' = failed /\ touched' = touched
    BY <1>16 DEF SelectRemoved, AtFile
  <2> SUFFICES ASSUME NEW p \in Live' \ waiting', p # file', Settled(p)',
                      stage' \in {"files", "prune", "done"}
               PROVE  Mirrored(p)'
    BY DEF SettledMirrored
  <2>2. p \in Live \ waiting /\ p # file /\ Settled(p)
    BY <2>1, SettledBefore DEF Live
  <2>3. Mirrored(p)
    BY <2>1, <2>2 DEF SettledMirrored
  <2> QED
    BY <2>1, <2>2, <2>3, MirrorSame
<1>17. CASE PrunePoints
  <2>1. /\ UNCHANGED <<registry, physical, listed, failed, touched>>
        /\ stage = "prune" /\ waiting' = waiting /\ file' = file
        /\ points' \subseteq points
        /\ \A q \in points : q.path \in Live => q \in points'
    BY <1>17 DEF PrunePoints, Leave, Skip, Kept, LivePaths
  <2> SUFFICES ASSUME NEW p \in Live' \ waiting', p # file', Settled(p)',
                      stage' \in {"files", "prune", "done"}
               PROVE  Mirrored(p)'
    BY DEF SettledMirrored
  <2>2. p \in Live \ waiting /\ p # file /\ Settled(p)
    BY <2>1, SettledBefore DEF Live
  <2>3. Mirrored(p)
    BY <2>1, <2>2 DEF SettledMirrored
  <2>4. TextOf(p)'
    BY <2>1, <2>3, TextKept DEF Mirrored
  <2> QED
    BY <2>1, <2>2, <2>3, <2>4, MirrorKept DEF Active
<1>18. CASE UNCHANGED vars
  BY <1>18 DEF vars, SettledMirrored, Settled, Live, Mirrored, TextOf, TableOf, Led, Found, Active
<1> HIDE DEF TypeOK, Places, AtTurn, Converted, AtSheet, stores, loop, history
<1> QED
  BY <1>1, <1>2, <1>3, <1>4, <1>5, <1>6, <1>7, <1>8, <1>9, <1>10, <1>11, <1>12, <1>13,
     <1>14, <1>15, <1>16, <1>17, <1>18
     DEF Next, FileStep

(* Every step keeps what the end of a run leaves.                          *)
LEMMA EndedStep ==
    ASSUME IInv, RunEnded, [Next]_vars PROVE RunEnded'
<1> USE IngestionAssumption DEF IInv, TypeOK, Places, Superseding, RunEnded, Active, Live,
        Running, stores, loop, history
<1>1. CASE Edit
  BY <1>1 DEF Edit
<1>2. CASE Crash
  BY <1>2 DEF Crash, Leave, Skip, Mishap
<1>3. CASE Discover
  BY <1>3 DEF Discover, NoMishap
<1>4. CASE EnsureCollection
  BY <1>4 DEF EnsureCollection, NoMishap
<1>5. CASE DeleteByPath
  BY <1>5 DEF DeleteByPath, AtFile, Go, InLoop, Deleted, NoMishap
<1>6. CASE DeleteFails
  BY <1>6 DEF DeleteFails, AtFile, InLoop, Mishap
<1>7. CASE FileFails
  BY <1>7 DEF FileFails, Skip, InLoop, Mishap, NoMishap
<1>8. CASE Convert
  BY <1>8 DEF Convert, AtFile, Go, InLoop, Mishap, NoMishap
<1>9. CASE Select
  BY <1>9 DEF Select, AtFile, Go, InLoop, Existing, NoMishap
<1>10. CASE Drop
  BY <1>10 DEF Drop, Go, NoMishap
<1>11. CASE Mark
  BY <1>11 DEF Mark, Go, NoMishap
<1>12. CASE Create
  BY <1>12 DEF Create, AtFile, Go, InLoop, NoMishap
<1>13. CASE Register
  BY <1>13 DEF Register, AtFile, Go, InLoop, NoMishap
<1>14. CASE WriteTableBlurb
  BY <1>14 DEF WriteTableBlurb, AtFile, Go, InLoop, Upsert, Point, NoMishap
<1>15. CASE WriteDocument
  BY <1>15 DEF WriteDocument, AtFile, Skip, InLoop, Upsert, Point, PointId, NoMishap
<1>16. CASE SelectRemoved
  BY <1>16 DEF SelectRemoved, AtFile, Go, LivePaths, NoMishap
<1>17. CASE PrunePoints
  BY <1>17 DEF PrunePoints, Kept, LivePaths, Leave, Skip, Mishap, NoMishap
<1>18. CASE UNCHANGED vars
  BY <1>18 DEF vars
<1> HIDE DEF IInv, TypeOK, Places, Superseding, RunEnded, Active, Live, Running, stores,
        loop, history
<1> QED
  BY <1>1, <1>2, <1>3, <1>4, <1>5, <1>6, <1>7, <1>8, <1>9, <1>10, <1>11, <1>12, <1>13,
     <1>14, <1>15, <1>16, <1>17, <1>18
     DEF Next, FileStep

(* A run that has not begun has done no turn.                              *)
LEMMA InitTurns == Init => TurnsDone
<1> SUFFICES ASSUME Init PROVE TurnsDone
  OBVIOUS
<1> QED
  BY DEF Init, TurnsDone, FileRead, TablesMade, BlurbsLed, SettledMirrored, RunEnded, Running,
     Converted, AtTurn

LEMMA TurnsStep == IInv /\ TurnsDone /\ [Next]_vars => TurnsDone'
BY ReadStep, TablesStep, LedStep, MirroredStep, EndedStep DEF TurnsDone

(* What turns leave behind holds throughout.                               *)
THEOREM TurnsInvariant == Spec => []TurnsDone
<1> QED
  BY InitTurns, TurnsStep, IngestionInvariant, PTL DEF Spec

(* A finished run mirrors the source, whatever the runs before it left:    *)
(* pipeline.ts, from deleteByPath to prune.                                *)
THEOREM FinishedRunMirrorsSourceAlways == Spec => []FinishedRunMirrorsSource
<1>1. IInv /\ TurnsDone => FinishedRunMirrorsSource
  <2> SUFFICES ASSUME IInv, TurnsDone, stage = "done" PROVE FinishedRunMirrorsSource
    BY DEF FinishedRunMirrorsSource
  <2>1. ASSUME NEW p \in Paths, Settled(p) PROVE Mirrored(p)
    <3>1. p \in Live \ waiting /\ p # file
      BY <2>1, IngestionAssumption DEF IInv, Places, Settled
    <3> QED
      BY <2>1, <3>1 DEF TurnsDone, SettledMirrored
  <2> QED
    <3>1. \A p \in Paths : Settled(p) => \A s \in SheetsOf[listed[p]] : \E r \in Found(p) : r.sheet = s
      BY <2>1 DEF Mirrored, TableOf, Found
    <3>2. \A p \in Paths : Settled(p) => \A q \in points :
             q.path = p => q.table \in {None} \cup {r.id : r \in Found(p)}
      BY <2>1 DEF Mirrored, Led
    <3>3. \A p \in Paths : Settled(p) => Mirrored(p)
      BY <2>1
    <3> HIDE DEF Found, Settled
    <3> QED
      BY <3>1, <3>2, <3>3 DEF FinishedRunMirrorsSource, Mirrored, TextOf, Led, TurnsDone, RunEnded
<1> QED
  BY <1>1, IngestionInvariant, TurnsInvariant, PTL

-----------------------------------------------------------------------------
(* What a document is bound to and who may see it (DocumentScope).         *)

(* A set of positions of a sequence has a first and a last.                *)
LEMMA FirstPosition ==
    ASSUME NEW S \in SUBSET Nat, S # {}
    PROVE  Min(S) \in S /\ \A j \in S : Min(S) <= j
<1> DEFINE R == OpToRel(<, Nat)
<1>1. IsWellFoundedOn(R, Nat)
  BY NatLessThanWellFounded
<1>2. \A i, j \in Nat : i < j => <<i, j>> \in R
  BY DEF OpToRel
<1> HIDE DEF R
<1>3. PICK i \in S : \A j \in S : ~(<<j, i>> \in R)
  BY <1>1, WFMin
<1>4. \A j \in S : ~(j < i)
  <2> SUFFICES ASSUME NEW j \in S, j < i PROVE FALSE
    OBVIOUS
  <2>1. i \in Nat /\ j \in Nat
    OBVIOUS
  <2> QED
    BY <1>2, <1>3, <2>1
<1>5. \A m, n \in Nat : ~(n < m) => m <= n
  OBVIOUS
<1>6. \A j \in S : i <= j
  BY <1>4, <1>5
<1> QED
  BY <1>6 DEF Min

LEMMA LastPosition ==
    ASSUME NEW n \in Nat, NEW S \in SUBSET (1..n), S # {}
    PROVE  Max(S) \in S /\ \A j \in S : j <= Max(S)
<1> DEFINE T == {n - i : i \in S}
<1>1. T \in SUBSET Nat /\ T # {}
  <2>1. \A i \in S : i \in Nat /\ n - i \in Nat
    OBVIOUS
  <2>2. PICK i \in S : TRUE
    OBVIOUS
  <2> QED
    BY <2>1, <2>2
<1>2. Min(T) \in T /\ \A j \in T : Min(T) <= j
  BY <1>1, FirstPosition
<1>3. PICK i \in S : Min(T) = n - i
  BY <1>2
<1>4. \A j \in S : j <= i
  <2> SUFFICES ASSUME NEW j \in S PROVE j <= i
    OBVIOUS
  <2>1. Min(T) <= n - j
    BY <1>2
  <2>2. i \in Nat /\ j \in Nat
    OBVIOUS
  <2> QED
    BY <1>3, <2>1, <2>2
<1> QED
  BY <1>4 DEF Max

(* The least of the positions moved by one is the least, moved by one.     *)
LEMMA MovedByOne ==
    ASSUME NEW S \in SUBSET Nat, S # {}, NEW T, T = {i + 1 : i \in S}
    PROVE  Min(T) = Min(S) + 1
<1>1. Min(S) \in S /\ \A j \in S : Min(S) <= j
  BY FirstPosition
<1>2. T \in SUBSET Nat /\ T # {} /\ Min(S) \in Nat
  <2>1. ASSUME NEW i \in S PROVE i \in Nat /\ i + 1 \in Nat
    <3>1. i \in Nat
      OBVIOUS
    <3> QED
      BY <3>1
  <2> QED
    BY <1>1, <2>1
<1>3. Min(T) \in T /\ \A j \in T : Min(T) <= j
  BY <1>2, FirstPosition
<1>4. Min(T) <= Min(S) + 1
  BY <1>1, <1>3
<1>5. PICK i \in S : Min(T) = i + 1
  BY <1>3
<1>6. Min(S) <= i /\ i \in Nat
  BY <1>1
<1> QED
  BY <1>2, <1>4, <1>5, <1>6

(* The fields stand between the fences.                                    *)
LEMMA FencedFields ==
    ASSUME NEW L, NEW lines \in Seq(L)
    PROVE  /\ Opening(lines) \in 0..Len(lines) /\ Closing(lines) \in 0..Len(lines)
           /\ Closing(lines) # 0 =>
                /\ Opening(lines) # 0 /\ Opening(lines) < Closing(lines)
                /\ lines[Opening(lines)].is = "fence" /\ lines[Closing(lines)].is = "fence"
<1> DEFINE said == {i \in DOMAIN lines : lines[i].is # "blank"}
           after == {j \in DOMAIN lines : j > Opening(lines) /\ lines[j].is = "fence"}
<1>1. said \in SUBSET Nat /\ after \in SUBSET Nat /\ DOMAIN lines = 1..Len(lines) /\ Len(lines) \in Nat
  OBVIOUS
<1>2. Opening(lines) \in 0..Len(lines) /\ (Opening(lines) # 0 => lines[Opening(lines)].is = "fence")
  <2>1. said # {} => Min(said) \in said
    BY <1>1, FirstPosition
  <2>2. Opening(lines) = IF said # {} /\ lines[Min(said)].is = "fence" THEN Min(said) ELSE 0
    BY DEF Opening
  <2>3. said \subseteq 1..Len(lines)
    BY <1>1
  <2> HIDE DEF said
  <2>4. CASE said # {} /\ lines[Min(said)].is = "fence"
    <3>1. Opening(lines) = Min(said) /\ Min(said) \in 1..Len(lines)
      BY <2>1, <2>2, <2>3, <2>4
    <3> QED
      BY <1>1, <2>4, <3>1
  <2>5. CASE ~(said # {} /\ lines[Min(said)].is = "fence")
    BY <1>1, <2>2, <2>5
  <2> QED
    BY <2>4, <2>5
<1>3. Closing(lines) = IF Opening(lines) # 0 /\ after # {} THEN Min(after) ELSE 0
  BY DEF Closing
<1>4. after # {} => Min(after) \in after
  BY <1>1, FirstPosition
<1> HIDE DEF said
<1>5. CASE Opening(lines) # 0 /\ after # {}
  <2>1. Closing(lines) \in after
    BY <1>3, <1>4, <1>5
  <2> QED
    BY <1>1, <1>2, <1>5, <2>1
<1>6. CASE ~(Opening(lines) # 0 /\ after # {})
  BY <1>1, <1>2, <1>3, <1>6
<1> QED
  BY <1>5, <1>6

(* The value of a key is the value of one of its fields.                   *)
LEMMA ValueOfAField ==
    ASSUME NEW L, NEW lines \in Seq(L), NEW keys, LastOf(lines, keys) # Null
    PROVE  \E i \in Fields(lines) : lines[i].key \in keys /\ lines[i].value = LastOf(lines, keys)
<1> DEFINE named == {i \in Fields(lines) : lines[i].key \in keys}
<1>1. named # {} /\ LastOf(lines, keys) = lines[Max(named)].value
  BY DEF LastOf
<1>2. Len(lines) \in Nat /\ named \subseteq 1..Len(lines)
  BY FencedFields DEF Fields
<1>3. Max(named) \in named
  BY <1>1, <1>2, LastPosition
<1> QED
  BY <1>1, <1>3

LEMMA FieldsAreLines ==
    ASSUME NEW L, NEW lines \in Seq(L)
    PROVE  Fields(lines) \subseteq DOMAIN lines /\ \A i \in Fields(lines) : lines[i].is = "field"
BY FencedFields DEF Fields

(* resolveSubject: an id, if it is the only one that is named.             *)
LEMMA OnlyOneIsNamed ==
    ASSUME NEW values, NEW entries, ResolveOne(values, entries) # Failed
    PROVE  /\ ResolveOne(values, entries) = Null /\ MatchAliases(values, entries) = {}
           \/ MatchAliases(values, entries) = {ResolveOne(values, entries)}
<1> DEFINE hits == MatchAliases(values, entries)
<1> HIDE DEF hits
<1>1. ResolveOne(values, entries) = CASE hits = {} -> Null
                                      [] \E id \in hits : hits = {id} -> CHOOSE id \in hits : TRUE
                                      [] OTHER -> Failed
  BY DEF ResolveOne, hits
<1>2. CASE hits = {}
  BY <1>1, <1>2 DEF hits
<1>3. CASE \E id \in hits : hits = {id}
  <2>1. PICK id \in hits : hits = {id}
    BY <1>3
  <2>2. hits # {}
    BY <2>1
  <2>3. ResolveOne(values, entries) = CHOOSE x \in hits : TRUE
    BY <1>1, <1>3, <2>2
  <2>4. (CHOOSE x \in hits : TRUE) = id
    BY <2>1
  <2> QED
    BY <2>1, <2>3, <2>4 DEF hits
<1>4. CASE hits # {} /\ ~ \E id \in hits : hits = {id}
  BY <1>1, <1>4
<1> QED
  BY <1>2, <1>3, <1>4

LEMMA RowIsComplete ==
    ASSUME NEW policy, NEW known, NEW doc, Row(policy, known, doc) # Failed
    PROVE  LET labels == ResolveDocumentLabels(policy, doc.path, Declared(doc.lines))
               project == ResolveOne(ValuesFor(doc.lines, ProjectKeys), known.projects)
               collection == ResolveOne(ValuesFor(doc.lines, CollectionKeys), known.collections)
           IN /\ labels # Failed /\ project # Failed /\ collection # Failed
              /\ Row(policy, known, doc) =
                    [doc |-> doc, labels |-> labels, project |-> project, collection |-> collection]
BY DEF Row

(* frontmatter.ts, subject.ts, classification.ts: for any policy, known *)
(* and document, a document is bound to a project only when it names that  *)
(* one and no other; under a strict policy its labels are those of what it *)
(* declares; and below a fence that is never closed nothing is declared.   *)
THEOREM DocumentsBindByName ==
    ASSUME NEW policy, NEW known, NEW doc, NEW L, doc.lines \in Seq(L)
    PROVE  BindingHolds(policy, known, doc)
<1> DEFINE lines == doc.lines
           row == Row(policy, known, doc)
           values == ValuesFor(lines, ProjectKeys)
           labels == ResolveDocumentLabels(policy, doc.path, Declared(lines))
           mentioned(id) == \E v \in values : \E a \in known.projects[id] : Mentions(v, a)
           names(id) == \E l \in ToSet(lines), a \in known.projects[id] :
                           l.is = "field" /\ l.key \in ProjectKeys /\ Mentions(l.value, a)
<1>1. \A id : id \in MatchAliases(values, known.projects) <=> id \in DOMAIN known.projects /\ mentioned(id)
  BY DEF MatchAliases
<1>2. ASSUME NEW v \in values
      PROVE  \E l \in ToSet(lines) : l.is = "field" /\ l.key \in ProjectKeys /\ l.value = v
  <2>1. PICK k \in ProjectKeys : v = LastOf(lines, {k}) /\ v # Null
    BY DEF ValuesFor
  <2>2. PICK i \in Fields(lines) : lines[i].key \in {k} /\ lines[i].value = v
    BY <2>1, ValueOfAField
  <2>3. lines[i] \in ToSet(lines) /\ lines[i].is = "field"
    BY FieldsAreLines DEF ToSet
  <2> QED
    BY <2>1, <2>2, <2>3
<1>3. ASSUME row # Failed
      PROVE  /\ row.project # Null => names(row.project)
             /\ \A id \in DOMAIN known.projects \ {row.project} : ~mentioned(id)
  <2>1. row.project = ResolveOne(values, known.projects) /\ row.project # Failed
    BY <1>3, RowIsComplete
  <2>2. \/ row.project = Null /\ MatchAliases(values, known.projects) = {}
        \/ MatchAliases(values, known.projects) = {row.project}
    BY <2>1, OnlyOneIsNamed
  <2>3. ASSUME row.project # Null PROVE names(row.project)
    <3>1. mentioned(row.project)
      BY <1>1, <2>2, <2>3
    <3> QED
      BY <1>2, <3>1
  <2> QED
    BY <1>1, <2>2, <2>3
<1>4. ASSUME row # Failed, Declared(lines) # Null, policy.strict, \A o \in ToSet(policy.overrides) : o.path # doc.path
      PROVE  /\ Declared(lines) \in DOMAIN policy.aliases
             /\ row.labels = policy.labels[policy.aliases[Declared(lines)]]
  <2>1. row.labels = labels /\ labels # Failed
    BY <1>4, RowIsComplete
  <2>2. {i \in DOMAIN policy.overrides : policy.overrides[i].path = doc.path} = {}
    BY <1>4 DEF ToSet
  <2>3. Declared(lines) \in DOMAIN policy.aliases
    BY <1>4, <2>1, <2>2 DEF ResolveDocumentLabels
  <2>4. labels = LabelsFor(policy, policy.aliases[Declared(lines)])
    BY <1>4, <2>2, <2>3 DEF ResolveDocumentLabels
  <2> QED
    BY <2>1, <2>3, <2>4 DEF LabelsFor
<1>5. ASSUME \A i, j \in DOMAIN lines : lines[i].is = "fence" /\ lines[j].is = "fence" => i = j
      PROVE  /\ Declared(lines) = Null
             /\ Body(lines) = {i \in DOMAIN lines : lines[i].is # "blank"}
             /\ row # Failed => row.project = Null /\ row.collection = Null
  <2>1. Closing(lines) = 0
    <3>1. Len(lines) \in Nat /\ DOMAIN lines = 1..Len(lines)
      OBVIOUS
    <3> QED
      BY <1>5, <3>1, FencedFields
  <2>2. Fields(lines) = {}
    BY <2>1 DEF Fields
  <2>3. \A keys : LastOf(lines, keys) = Null
    BY <2>2 DEF LastOf
  <2>4. \A keys : ValuesFor(lines, keys) = {}
    BY <2>3 DEF ValuesFor
  <2>5. \A entries : ResolveOne({}, entries) = Null
    BY DEF ResolveOne, MatchAliases
  <2>6. ASSUME row # Failed PROVE row.project = Null /\ row.collection = Null
    <3>1. /\ row.project = ResolveOne(ValuesFor(lines, ProjectKeys), known.projects)
          /\ row.collection = ResolveOne(ValuesFor(lines, CollectionKeys), known.collections)
      BY <2>6, RowIsComplete
    <3> QED
      BY <2>4, <2>5, <3>1
  <2>7. Body(lines) = {i \in DOMAIN lines : lines[i].is # "blank"}
    BY <2>1 DEF Body
  <2> QED
    BY <2>3, <2>6, <2>7 DEF Declared
<1> QED
  BY <1>3, <1>4, <1>5 DEF BindingHolds

(* enumerate.ts: what a caller may draw on grows with what he may see.     *)
LEMMA SeeingMoreLosesNothing ==
    ASSUME Null \notin {"access", "no_project", "schema_contract"},
           NEW rows, NEW collection, NEW caller, NEW wider, caller \subseteq wider,
           NEW requireProject, NEW contract
    PROVE  Members(rows, collection, caller, requireProject, contract)
             \subseteq Members(rows, collection, wider, requireProject, contract)
<1> SUFFICES ASSUME NEW r \in InCollection(rows, collection),
                    Exclusion(r, caller, requireProject, contract) = Null
             PROVE  Exclusion(r, wider, requireProject, contract) = Null
  BY DEF Members
<1>1. r.labels \cap caller # {}
  BY DEF Exclusion
<1>2. r.labels \cap wider # {}
  BY <1>1
<1>3. ~(requireProject /\ r.project = Null)
  BY <1>1 DEF Exclusion
<1>4. contract \subseteq r.doc.columns
  BY <1>1, <1>3 DEF Exclusion
<1> QED
  BY <1>2, <1>3, <1>4 DEF Exclusion

(* An override in front of the others decides for its own path alone.      *)
LEMMA OverrideIsOfOnePath ==
    ASSUME NEW O, NEW policy, policy.overrides \in Seq(O), NEW override \in O, NEW changed,
           changed.overrides = <<override>> \o policy.overrides,
           changed.labels = policy.labels, changed.aliases = policy.aliases,
           changed.defaults = policy.defaults, changed.strict = policy.strict,
           NEW path, NEW declared
    PROVE  /\ path # override.path =>
                ResolveDocumentLabels(changed, path, declared) = ResolveDocumentLabels(policy, path, declared)
           /\ path = override.path =>
                ResolveDocumentLabels(changed, path, declared) = LabelsFor(policy, override.class)
<1> DEFINE S == {i \in DOMAIN policy.overrides : policy.overrides[i].path = path}
           T == {i \in DOMAIN changed.overrides : changed.overrides[i].path = path}
           n == Len(policy.overrides)
<1>1. /\ DOMAIN policy.overrides = 1..n /\ DOMAIN changed.overrides = 1..(n + 1) /\ n \in Nat
      /\ changed.overrides[1] = override
      /\ \A i \in 1..n : i + 1 \in 1..(n + 1) /\ changed.overrides[i + 1] = policy.overrides[i]
  OBVIOUS
<1>2. S \in SUBSET Nat /\ T \in SUBSET Nat
  BY <1>1
<1>3. \A class : LabelsFor(changed, class) = LabelsFor(policy, class)
  BY DEF LabelsFor
<1>4. ASSUME path = override.path
      PROVE  ResolveDocumentLabels(changed, path, declared) = LabelsFor(policy, override.class)
  <2>1. 1 \in T
    BY <1>1, <1>4
  <2>2. T # {} /\ Min(T) = 1
    <3>1. Min(T) \in T /\ Min(T) <= 1
      BY <1>2, <2>1, FirstPosition
    <3>2. Min(T) \in 1..(n + 1)
      BY <1>1, <3>1
    <3> HIDE DEF T
    <3> QED
      BY <1>1, <2>1, <3>1, <3>2
  <2>3. ResolveDocumentLabels(changed, path, declared) = LabelsFor(changed, changed.overrides[Min(T)].class)
    BY <2>2 DEF ResolveDocumentLabels
  <2> QED
    BY <1>1, <1>3, <2>2, <2>3
<1>5. ASSUME path # override.path
      PROVE  ResolveDocumentLabels(changed, path, declared) = ResolveDocumentLabels(policy, path, declared)
  <2>1. T = {i + 1 : i \in S}
    <3>1. \A i \in S : i + 1 \in T
      BY <1>1
    <3>2. ASSUME NEW j \in T PROVE \E i \in S : j = i + 1
      <4>1. j \in 2..(n + 1)
        BY <1>1, <1>5
      <4>2. j - 1 \in 1..n /\ j = (j - 1) + 1
        BY <1>1, <4>1
      <4>3. changed.overrides[j] = policy.overrides[j - 1]
        BY <1>1, <4>2
      <4> QED
        BY <1>1, <4>2, <4>3
    <3> QED
      BY <3>1, <3>2
  <2>2. S = {} => T = {}
    BY <2>1
  <2>3. ASSUME S # {} PROVE T # {} /\ Min(T) = Min(S) + 1 /\ Min(S) \in S
    <3>1. Min(S) \in S
      BY <1>2, <2>3, FirstPosition
    <3> HIDE DEF S, T
    <3>2. Min(T) = Min(S) + 1
      BY <1>2, <2>1, <2>3, MovedByOne
    <3> QED
      BY <2>1, <2>3, <3>1, <3>2
  <2>4. S # {} => changed.overrides[Min(T)] = policy.overrides[Min(S)]
    <3> SUFFICES ASSUME S # {} PROVE changed.overrides[Min(T)] = policy.overrides[Min(S)]
      OBVIOUS
    <3>1. Min(S) \in 1..n /\ Min(T) = Min(S) + 1
      BY <1>1, <2>3
    <3> HIDE DEF S, T
    <3> QED
      BY <1>1, <3>1
  <2>5. CASE S # {}
    <3>1. ResolveDocumentLabels(policy, path, declared) = LabelsFor(policy, policy.overrides[Min(S)].class)
      BY <2>5 DEF ResolveDocumentLabels
    <3>2. ResolveDocumentLabels(changed, path, declared) = LabelsFor(changed, changed.overrides[Min(T)].class)
      BY <2>3, <2>5 DEF ResolveDocumentLabels
    <3> QED
      BY <1>3, <2>4, <2>5, <3>1, <3>2
  <2>6. CASE S = {}
    <3>1. T = {}
      BY <2>2, <2>6
    <3> QED
      BY <1>3, <2>6, <3>1 DEF ResolveDocumentLabels
  <2> QED
    BY <2>5, <2>6
<1> QED
  BY <1>4, <1>5

(* A row is the row of its document.                                       *)
LEMMA RowsOfDocuments ==
    ASSUME NEW policy, NEW known, NEW docs, NEW r \in IngestedAs(policy, known, docs)
    PROVE  r.doc \in docs /\ r = Row(policy, known, r.doc) /\ r # Failed
<1>1. PICK d \in docs : r = Row(policy, known, d) /\ r # Failed
  BY DEF IngestedAs
<1>2. r.doc = d
  BY <1>1, RowIsComplete
<1> QED
  BY <1>1, <1>2

(* enumerate.ts, classification.ts: for any registry of documents, a       *)
(* caller who may see more loses no member, an aggregate called complete   *)
(* is the same for every such caller, and an override moves no document    *)
(* but its own in or out.                                                  *)
THEOREM CoverageIsExact ==
    ASSUME Null \notin {"access", "no_project", "schema_contract"},
           NEW O, NEW policy, policy.overrides \in Seq(O),
           DOMAIN policy = {"strict", "aliases", "labels", "defaults", "overrides"},
           NEW known, NEW docs, NEW collection, NEW caller, NEW wider, NEW requireProject, NEW contract,
           NEW override \in O
    PROVE  CoverageHolds(policy, known, docs, collection, caller, wider, requireProject, contract, override)
<1> DEFINE rows == IngestedAs(policy, known, docs)
           members(who) == Members(rows, collection, who, requireProject, contract)
           changed == [policy EXCEPT !.overrides = <<override>> \o @]
           again == IngestedAs(changed, known, docs)
           after == Members(again, collection, caller, requireProject, contract)
           elsewhere(set) == {r \in set : r.doc.path # override.path}
<1>1. /\ changed.overrides = <<override>> \o policy.overrides
      /\ changed.labels = policy.labels /\ changed.aliases = policy.aliases
      /\ changed.defaults = policy.defaults /\ changed.strict = policy.strict
  OBVIOUS
<1> HIDE DEF changed
<1>2. \A path, declared :
         /\ path # override.path =>
              ResolveDocumentLabels(changed, path, declared) = ResolveDocumentLabels(policy, path, declared)
         /\ path = override.path =>
              ResolveDocumentLabels(changed, path, declared) = LabelsFor(policy, override.class)
  BY <1>1, OverrideIsOfOnePath
<1>3. \A d : d.path # override.path => Row(changed, known, d) = Row(policy, known, d)
  BY <1>2 DEF Row
<1>4. caller \subseteq wider => members(caller) \subseteq members(wider)
  BY SeeingMoreLosesNothing
<1>5. \A who : members(who) \subseteq InCollection(rows, collection)
  BY DEF Members
<1>6. Complete(rows, collection, caller, requireProject, contract) /\ caller \subseteq wider =>
         members(wider) = members(caller)
  BY <1>4, <1>5 DEF Complete
<1>7. elsewhere(after) = elsewhere(members(caller))
  <2>1. \A r : r.doc.path # override.path => (r \in rows <=> r \in again)
    <3> SUFFICES ASSUME NEW r, r.doc.path # override.path PROVE r \in rows <=> r \in again
      OBVIOUS
    <3>1. ASSUME r \in rows PROVE r \in again
      <4>1. r.doc \in docs /\ r = Row(policy, known, r.doc) /\ r # Failed
        BY <3>1, RowsOfDocuments
      <4>2. r = Row(changed, known, r.doc)
        BY <1>3, <4>1
      <4> QED
        BY <4>1, <4>2 DEF IngestedAs
    <3>2. ASSUME r \in again PROVE r \in rows
      <4>1. r.doc \in docs /\ r = Row(changed, known, r.doc) /\ r # Failed
        BY <3>2, RowsOfDocuments
      <4>2. r = Row(policy, known, r.doc)
        BY <1>3, <4>1
      <4> QED
        BY <4>1, <4>2 DEF IngestedAs
    <3> QED
      BY <3>1, <3>2
  <2> HIDE DEF rows, again
  <2> QED
    BY <2>1 DEF Members, InCollection
<1>8. ASSUME LabelsFor(policy, override.class) = Failed \/ LabelsFor(policy, override.class) \cap caller = {}
      PROVE  after = elsewhere(members(caller))
  <2>1. ASSUME NEW r \in after PROVE r.doc.path # override.path
    <3> SUFFICES ASSUME r.doc.path = override.path PROVE FALSE
      OBVIOUS
    <3>1. r \in again /\ Exclusion(r, caller, requireProject, contract) = Null
      BY DEF Members, InCollection
    <3>2. r = Row(changed, known, r.doc) /\ r # Failed
      BY <3>1, RowsOfDocuments
    <3>3. r.labels = LabelsFor(policy, override.class) /\ r.labels # Failed
      <4>1. Row(changed, known, r.doc) # Failed
        BY <3>2
      <4>2. /\ Row(changed, known, r.doc).labels
                 = ResolveDocumentLabels(changed, r.doc.path, Declared(r.doc.lines))
            /\ ResolveDocumentLabels(changed, r.doc.path, Declared(r.doc.lines)) # Failed
        BY <4>1, RowIsComplete
      <4> QED
        BY <1>2, <3>2, <4>2
    <3>4. r.labels \cap caller = {}
      BY <1>8, <3>3
    <3>5. Exclusion(r, caller, requireProject, contract) = "access"
      BY <3>4 DEF Exclusion
    <3> QED
      BY <3>1, <3>5
  <2> HIDE DEF after, members
  <2> QED
    BY <1>7, <2>1
<1> QED
  BY <1>4, <1>6, <1>7, <1>8 DEF CoverageHolds, changed

-----------------------------------------------------------------------------
(* How a text is cut (Chunking).                                           *)

(* Of any offsets one is closest, the lower of two that are as close.      *)
LEMMA OneIsClosest ==
    ASSUME NEW S \in SUBSET Int, S # {}, NEW target \in Int
    PROVE  Closest(S, target) \in S
<1> DEFINE rank(p) == 2 * Distance(p, target) + IF target < p THEN 1 ELSE 0
           D == {rank(p) : p \in S}
           R == OpToRel(<, Nat)
<1>1. IsWellFoundedOn(R, Nat)
  BY NatLessThanWellFounded
<1>2. \A i, j \in Nat : i < j => <<i, j>> \in R
  BY DEF OpToRel
<1>3. \A p \in Int : rank(p) \in Nat
  BY DEF Distance
<1>4. \A p, q \in Int : p # q /\ ~(rank(q) < rank(p)) =>
          \/ Distance(p, target) < Distance(q, target)
          \/ (Distance(p, target) = Distance(q, target) /\ p < q)
  BY DEF Distance
<1> HIDE DEF R, rank
<1>5. D \subseteq Nat /\ D # {}
  BY <1>3
<1>6. PICK d \in D : \A e \in D : ~(<<e, d>> \in R)
  BY <1>1, <1>5, WFMin
<1>7. PICK p \in S : d = rank(p)
  BY <1>6
<1>8. ASSUME NEW q \in S \ {p}
      PROVE  \/ Distance(p, target) < Distance(q, target)
             \/ (Distance(p, target) = Distance(q, target) /\ p < q)
  <2>1. rank(q) \in D
    OBVIOUS
  <2>2. ~(rank(q) < rank(p))
    BY <1>2, <1>5, <1>6, <1>7, <2>1
  <2> QED
    BY <1>4, <2>2
<1> QED
  BY <1>7, <1>8 DEF Closest

(* A cut is at a break of the window, or where it was asked for when the   *)
(* window has no break at all.                                             *)
LEMMA CutIsAtABreak ==
    ASSUME NEW chars, NEW from \in Int, NEW to \in Int, NEW offset \in Int, NEW preference,
           DOMAIN preference \subseteq Nat
    PROVE  LET cut == Nearest(chars, from, to, preference, offset)
           IN \/ cut \in (from + 1)..to /\ \E k \in DOMAIN preference : chars[cut] \in preference[k]
              \/ cut = offset /\ \A k \in DOMAIN preference : Breaks(chars, from, to, preference[k]) = {}
<1> DEFINE cut == Nearest(chars, from, to, preference, offset)
           found == {k \in DOMAIN preference : Breaks(chars, from, to, preference[k]) # {}}
<1>1. cut = IF found = {} THEN offset ELSE Closest(Breaks(chars, from, to, preference[Min(found)]), offset)
  BY DEF Nearest
<1> HIDE DEF cut
<1> SUFFICES \/ cut \in (from + 1)..to /\ \E k \in DOMAIN preference : chars[cut] \in preference[k]
             \/ cut = offset /\ \A k \in DOMAIN preference : Breaks(chars, from, to, preference[k]) = {}
  BY DEF cut
<1>2. CASE found = {}
  BY <1>1, <1>2
<1>3. CASE found # {}
  <2>1. found \in SUBSET Nat
    OBVIOUS
  <2>2. Min(found) \in found
    BY <1>3, <2>1, FirstPosition
  <2> DEFINE S == Breaks(chars, from, to, preference[Min(found)])
  <2>3. S \in SUBSET Int /\ S # {}
    BY <2>2 DEF Breaks
  <2>4. cut \in S
    BY <1>1, <1>3, <2>3, OneIsClosest
  <2> QED
    BY <2>2, <2>4 DEF Breaks
<1> QED
  BY <1>2, <1>3

Options == [minSize : Nat, targetSize : Nat, maxSize : Nat, overlap : Nat]

(* The end of a chunk that is not the last.                                *)
LEMMA EndIsInReach ==
    ASSUME NEW chars, NEW opts \in Options, NEW start \in Nat, Len(chars) \in Nat,
           opts.minSize <= opts.targetSize, opts.targetSize <= opts.maxSize, Len(chars) - start > opts.maxSize,
           NEW end, end = FindBestBreakPoint(chars, start + opts.minSize, AtOrBelow(start + opts.maxSize, Len(chars)),
                                             start + opts.targetSize)
    PROVE  /\ end \in Nat /\ start + opts.minSize <= end /\ end <= start + opts.maxSize
           /\ chars[end] = "x" => Breaks(chars, start + opts.minSize, start + opts.maxSize, Anywhere) = {}
<1> DEFINE from == start + opts.minSize
           to == start + opts.maxSize
           offset == start + opts.targetSize
<1>1. /\ from \in Int /\ to \in Int /\ offset \in Int /\ start <= from /\ from <= offset /\ offset <= to
      /\ AtOrBelow(to, Len(chars)) = to
  BY DEF Options, AtOrBelow
<1>2. end = Nearest(chars, from, to, Preference, offset)
  BY <1>1 DEF FindBestBreakPoint
<1>3. DOMAIN Preference \subseteq Nat /\ 5 \in DOMAIN Preference /\ Preference[5] = Anywhere
  BY DEF Preference
<1>4. \A k \in DOMAIN Preference : "x" \notin Preference[k]
  <2>1. DOMAIN Preference = 1..5
    BY DEF Preference
  <2>2. /\ Preference[1] = {"paragraph"} /\ Preference[2] = {"heading"} /\ Preference[3] = {"sentence"}
        /\ Preference[4] = {"clause"} /\ Preference[5] = Anywhere
    BY DEF Preference
  <2>3. \A k \in 1..5 : k = 1 \/ k = 2 \/ k = 3 \/ k = 4 \/ k = 5
    OBVIOUS
  <2>4. "x" \notin Anywhere
    BY DEF Anywhere
  <2> QED
    BY <2>1, <2>2, <2>3, <2>4
<1> HIDE DEF from, to, offset
<1>5. \/ end \in (from + 1)..to /\ \E k \in DOMAIN Preference : chars[end] \in Preference[k]
      \/ end = offset /\ \A k \in DOMAIN Preference : Breaks(chars, from, to, Preference[k]) = {}
  <2>1. from \in Int /\ to \in Int /\ offset \in Int
    BY <1>1
  <2>2. DOMAIN Preference \subseteq Nat
    BY <1>3
  <2> QED
    BY ONLY <1>2, <2>1, <2>2, CutIsAtABreak
<1>6. end \in Int /\ from <= end /\ end <= to
  BY <1>1, <1>5
<1>7. end \in Nat
  BY <1>1, <1>6
<1>8. chars[end] = "x" => Breaks(chars, from, to, Anywhere) = {}
  BY <1>3, <1>4, <1>5
<1> QED
  BY <1>6, <1>7, <1>8 DEF from, to

(* The next chunk goes back by the overlap and the slack at most.          *)
LEMMA NextGoesBackLittle ==
    ASSUME NEW chars, Len(chars) \in Nat, NEW end \in Nat, NEW overlap \in Nat,
           NEW next, next = NextStart(chars, end, overlap)
    PROVE  next \in Nat /\ next <= end /\ end - overlap - SLACK <= next
<1> DEFINE ideal == AtOrAbove(0, end - overlap)
           from == AtOrAbove(0, ideal - SLACK)
           to == AtOrBelow(Len(chars), ideal + SLACK)
           preference == <<{"sentence"}, Anywhere>>
           cut == Nearest(chars, from, to, preference, ideal)
<1>1. SLACK \in Nat
  BY ChunkingAssumption
<1>2. ideal \in Nat /\ end - overlap <= ideal /\ ideal <= end
  BY DEF AtOrAbove
<1> HIDE DEF ideal
<1>3. from \in Nat /\ ideal - SLACK <= from /\ from <= ideal /\ to \in Int
  BY <1>1, <1>2 DEF AtOrAbove, AtOrBelow
<1> HIDE DEF from, to
<1>4. DOMAIN preference \subseteq Nat
  OBVIOUS
<1> HIDE DEF preference
<1>8. cut = Nearest(chars, from, to, preference, ideal)
  OBVIOUS
<1> HIDE DEF cut
<1>5. cut \in (from + 1)..to \/ cut = ideal
  <2>1. from \in Int /\ to \in Int /\ ideal \in Int
    BY <1>2, <1>3
  <2> HIDE DEF ideal, preference
  <2>2. \/ cut \in (from + 1)..to /\ \E k \in DOMAIN preference : chars[cut] \in preference[k]
        \/ cut = ideal /\ \A k \in DOMAIN preference : Breaks(chars, from, to, preference[k]) = {}
    BY ONLY <1>4, <1>8, <2>1, CutIsAtABreak
  <2> QED
    BY <2>2
<1>6. cut \in Nat /\ end - overlap - SLACK <= cut
  BY <1>1, <1>2, <1>3, <1>5
<1>7. next = AtOrBelow(cut, end)
  BY DEF NextStart, FindOverlapStart, ideal, from, to, preference, cut
<1> QED
  BY <1>1, <1>6, <1>7 DEF AtOrBelow

(* The rounds of chunkBySemantic up to one, one after the other.           *)
Begun(chars) == [at |-> 0, done |-> chars = <<>>, chunks |-> <<>>]
Rounds(chars, opts, g, m) ==
    g = [n \in 0..m |-> IF n = 0 THEN Begun(chars) ELSE ChunkStep(chars, opts, g[n - 1])]

LEMMA SomeRounds ==
    ASSUME NEW chars, NEW opts, NEW n \in Nat
    PROVE  \E g : Rounds(chars, opts, g, n)
<1> DEFINE some(m) == \E g : Rounds(chars, opts, g, m)
           Bad == {m \in 0..n : ~some(m)}
           R == OpToRel(<, Nat)
<1>1. IsWellFoundedOn(R, Nat)
  BY NatLessThanWellFounded
<1>2. \A i, j \in Nat : i < j => <<i, j>> \in R
  BY DEF OpToRel
<1>3. \A m \in 0..n : m \in Nat /\ m <= n
  OBVIOUS
<1>4. some(0)
  <2>1. Rounds(chars, opts, [k \in 0..0 |-> Begun(chars)], 0)
    BY DEF Rounds
  <2> QED
    BY <2>1
<1>5. ASSUME NEW m \in 0..n, m # 0, some(m - 1) PROVE some(m)
  <2>1. PICK g : g = [k \in 0..(m - 1) |-> IF k = 0 THEN Begun(chars) ELSE ChunkStep(chars, opts, g[k - 1])]
    BY <1>5 DEF Rounds
  <2> DEFINE h == [k \in 0..m |-> IF k = m THEN ChunkStep(chars, opts, g[m - 1]) ELSE g[k]]
  <2>2. m \in Nat \ {0}
    BY <1>3, <1>5
  <2>3. ASSUME NEW k \in 0..m PROVE h[k] = IF k = 0 THEN Begun(chars) ELSE ChunkStep(chars, opts, h[k - 1])
    <3>1. CASE k = m
      <4>1. h[k] = ChunkStep(chars, opts, g[m - 1]) /\ h[k - 1] = g[m - 1]
        BY <2>2, <3>1
      <4> QED
        BY <2>2, <3>1, <4>1
    <3>2. CASE k # m
      <4>1. k \in 0..(m - 1) /\ h[k] = g[k] /\ (k # 0 => h[k - 1] = g[k - 1])
        BY <2>2, <3>2
      <4>2. g[k] = IF k = 0 THEN Begun(chars) ELSE ChunkStep(chars, opts, g[k - 1])
        BY <2>1, <4>1
      <4> QED
        BY <4>1, <4>2
    <3> QED
      BY <3>1, <3>2
  <2>4. h = [k \in 0..m |-> h[k]]
    OBVIOUS
  <2> HIDE DEF h
  <2>5. Rounds(chars, opts, h, m)
    BY <2>3, <2>4 DEF Rounds
  <2> QED
    BY <2>5
<1> HIDE DEF some, R
<1>6. Bad = {}
  <2> SUFFICES ASSUME Bad # {} PROVE FALSE
    OBVIOUS
  <2>1. Bad \subseteq Nat
    BY <1>3
  <2>2. PICK m \in Bad : \A k \in Bad : ~(<<k, m>> \in R)
    BY <1>1, <2>1, WFMin
  <2>3. m \in 0..n /\ ~some(m) /\ m \in Nat
    BY <1>3
  <2>4. m # 0
    BY <1>4, <2>3
  <2>5. ~some(m - 1) /\ m - 1 \in 0..n
    BY <1>3, <1>5, <2>3, <2>4
  <2>6. m - 1 \in Bad /\ <<m - 1, m>> \in R
    BY <1>2, <1>3, <2>3, <2>5
  <2> QED
    BY <2>2, <2>6
<1>7. some(n)
  BY <1>6
<1> QED
  BY <1>7 DEF some

LEMMA RunIsItsRounds ==
    ASSUME NEW chars, NEW opts, Len(chars) \in Nat
    PROVE  \E g : Rounds(chars, opts, g, Len(chars)) /\ ChunkBySemantic(chars, opts) = g[Len(chars)]
<1> DEFINE n == Len(chars)
           chosen == CHOOSE g : Rounds(chars, opts, g, n)
<1>1. Rounds(chars, opts, chosen, n)
  BY SomeRounds
<1>2. ChunkBySemantic(chars, opts) = chosen[n]
  BY DEF ChunkBySemantic, Rounds, Begun
<1> QED
  BY <1>1, <1>2

(* What the rounds have done: the chunks so far overlap and go on, all     *)
(* but the last are whole, and the next starts in the last.                *)
Whole(chars, opts, c) ==
    /\ opts.minSize <= c.to - c.from /\ c.to - c.from <= opts.maxSize /\ c.to < Len(chars)
    /\ chars[c.to] = "x" => Breaks(chars, c.from + opts.minSize, c.from + opts.maxSize, Anywhere) = {}
Follows(b, c) == c.from <= b.to /\ c.from > b.from /\ c.to > b.to
Pieces == [from : Nat, to : Nat]
Progress(chars, opts, c, start) ==
    /\ c = <<>> => start = 0
    /\ \A j \in 1..Len(c) : Whole(chars, opts, c[j])
    /\ c # <<>> => c[Len(c)].from < start /\ start <= c[Len(c)].to /\ c[Len(c)].to < start + opts.minSize
Finished(chars, opts, c) ==
    /\ c # <<>> /\ c[Len(c)].to = Len(chars) /\ c[Len(c)].to - c[Len(c)].from <= opts.maxSize
    /\ \A j \in 1..(Len(c) - 1) : Whole(chars, opts, c[j])
CutSoFar(chars, opts, state, n) ==
    /\ state \in [at : Nat, done : BOOLEAN, chunks : Seq(Pieces)]
    /\ state.chunks # <<>> => state.chunks[1].from = 0
    /\ \A j \in 1..(Len(state.chunks) - 1) : Follows(state.chunks[j], state.chunks[j + 1])
    /\ state.done => Finished(chars, opts, state.chunks)
    /\ ~state.done => /\ n <= state.at /\ state.at < Len(chars)
                      /\ Progress(chars, opts, state.chunks, state.at)

(* What holds of a sequence with one more at its end.                      *)
LEMMA OneMore ==
    ASSUME NEW S, NEW s \in Seq(S), NEW e \in S
    PROVE  /\ Append(s, e) \in Seq(S) /\ Append(s, e) # <<>> /\ Len(Append(s, e)) = Len(s) + 1
           /\ Len(s) \in Nat
           /\ Append(s, e)[Len(s) + 1] = e
           /\ \A j \in 1..Len(s) : Append(s, e)[j] = s[j]
           /\ s = <<>> <=> Len(s) = 0
OBVIOUS

(* The next start is in the chunk and within its least size of the end.    *)
LEMMA NextIsInReach ==
    ASSUME NEW begin \in Nat, NEW end \in Nat, NEW next \in Nat, NEW least \in Nat, NEW most \in Nat,
           NEW back \in Nat, NEW len \in Nat,
           len - begin > most, begin + least <= end, end <= begin + most,
           back < least, next <= end, end - back <= next
    PROVE  begin < next /\ next < len /\ end < len /\ end < next + least
OBVIOUS

(* A piece that ends within reach is of a size allowed.                    *)
LEMMA Reaches ==
    ASSUME NEW begin \in Nat, NEW end \in Nat, NEW least \in Nat, NEW most \in Nat,
           begin + least <= end, end <= begin + most
    PROVE  /\ least <= end - begin /\ end - begin <= most
           /\ \A before \in Nat : before < begin + least => before < end
OBVIOUS

LEMMA CutsGoOn ==
    ASSUME NEW chars, Len(chars) \in Nat, NEW opts \in Options, NEW n \in Nat,
           opts.minSize <= opts.targetSize, opts.targetSize <= opts.maxSize,
           opts.minSize > opts.overlap + SLACK,
           NEW state, CutSoFar(chars, opts, state, n)
    PROVE  CutSoFar(chars, opts, ChunkStep(chars, opts, state), n + 1)
<1> DEFINE start == state.at
           c == state.chunks
           len == Len(chars)
           last == c[Len(c)]
<1>0. /\ state = [at |-> start, done |-> state.done, chunks |-> c] /\ state.at = start /\ state.chunks = c
      /\ ~state.done => state.done = FALSE
  BY DEF CutSoFar
<1>1. /\ start \in Nat /\ c \in Seq(Pieces) /\ Len(c) \in Nat /\ len \in Nat
      /\ opts.minSize \in Nat /\ opts.maxSize \in Nat /\ opts.targetSize \in Nat /\ opts.overlap \in Nat
      /\ SLACK \in Nat /\ opts.overlap + SLACK < opts.minSize
  BY ChunkingAssumption DEF CutSoFar, Options
<1>2. /\ c # <<>> => c[1].from = 0
      /\ \A j \in 1..(Len(c) - 1) : Follows(c[j], c[j + 1])
  BY DEF CutSoFar
<1>3. CASE state.done
  BY <1>3 DEF CutSoFar, ChunkStep
<1>4. ASSUME ~state.done PROVE n <= start /\ start < len /\ Progress(chars, opts, c, start)
  BY <1>4 DEF CutSoFar
<1> HIDE DEF start, c
<1>5. CASE ~state.done /\ len - start <= opts.maxSize
  <2> DEFINE e == Chunk(start, len)
             d == Append(c, e)
  <2>1. ChunkStep(chars, opts, state) = [at |-> start, done |-> TRUE, chunks |-> d]
    BY <1>0, <1>1, <1>5 DEF ChunkStep
  <2>2. e \in Pieces /\ e.from = start /\ e.to = len
    BY <1>1 DEF Chunk, Pieces
  <2> HIDE DEF e
  <2>3. /\ d \in Seq(Pieces) /\ d # <<>> /\ Len(d) = Len(c) + 1 /\ d[Len(c) + 1] = e
        /\ \A j \in 1..Len(c) : d[j] = c[j]
        /\ c = <<>> <=> Len(c) = 0
    BY <1>1, <2>2, OneMore
  <2> HIDE DEF d
  <2>4. Progress(chars, opts, c, start) /\ n <= start /\ start < len
    BY <1>4, <1>5
  <2>5. d[1].from = 0
    <3>1. c = <<>> \/ (c # <<>> /\ 1 \in 1..Len(c))
      BY <1>1, <2>3
    <3> QED
      BY <1>2, <2>2, <2>3, <2>4, <3>1 DEF Progress
  <2>6. ASSUME NEW j \in 1..(Len(d) - 1) PROVE Follows(d[j], d[j + 1])
    <3>1. CASE j = Len(c)
      <4>1. d[j] = last /\ d[j + 1] = e /\ c # <<>> /\ Len(c) \in 1..Len(c)
        BY <1>1, <2>3, <3>1
      <4>2. last.from < start /\ start <= last.to /\ last.to < len /\ Whole(chars, opts, last)
        BY <2>4, <4>1 DEF Progress, Whole
      <4> QED
        BY <2>2, <4>1, <4>2 DEF Follows
    <3>2. CASE j # Len(c)
      <4>1. j \in 1..(Len(c) - 1)
        BY <1>1, <2>3, <3>2
      <4>2. d[j] = c[j] /\ d[j + 1] = c[j + 1]
        <5>1. j \in 1..Len(c) /\ j + 1 \in 1..Len(c)
          BY <1>1, <4>1
        <5> QED
          BY <2>3, <5>1
      <4> QED
        BY <1>2, <4>1, <4>2
    <3> QED
      BY <3>1, <3>2
  <2>7. Finished(chars, opts, d)
    <3>1. \A j \in 1..(Len(d) - 1) : d[j] = c[j] /\ j \in 1..Len(c)
      BY <1>1, <2>3
    <3>2. \A j \in 1..(Len(d) - 1) : Whole(chars, opts, d[j])
      BY <2>4, <3>1 DEF Progress
    <3>3. d[Len(d)] = e
      BY <1>1, <2>3
    <3> QED
      BY <1>5, <2>2, <2>3, <3>2, <3>3 DEF Finished
  <2>8. [at |-> start, done |-> TRUE, chunks |-> d] \in [at : Nat, done : BOOLEAN, chunks : Seq(Pieces)]
    BY <1>1, <2>3
  <2> QED
    BY <2>1, <2>5, <2>6, <2>7, <2>8 DEF CutSoFar
<1>6. CASE ~state.done /\ len - start > opts.maxSize
  <2> DEFINE end == FindBestBreakPoint(chars, start + opts.minSize, AtOrBelow(start + opts.maxSize, len),
                                       start + opts.targetSize)
             next == NextStart(chars, end, opts.overlap)
             e == Chunk(start, end)
             d == Append(c, e)
  <2>1. ChunkStep(chars, opts, state) = [at |-> next, done |-> FALSE, chunks |-> d]
    <3>1. ~(Len(chars) - state.at <= opts.maxSize)
      BY <1>0, <1>1, <1>6
    <3> QED
      BY <1>0, <1>6, <3>1 DEF ChunkStep
  <2>2. /\ end \in Nat /\ start + opts.minSize <= end /\ end <= start + opts.maxSize
        /\ chars[end] = "x" => Breaks(chars, start + opts.minSize, start + opts.maxSize, Anywhere) = {}
    BY <1>1, <1>6, EndIsInReach
  <2> HIDE DEF end
  <2>3. next \in Nat /\ next <= end /\ end - opts.overlap - SLACK <= next
    BY <1>1, <2>2, NextGoesBackLittle
  <2> HIDE DEF next
  <2>4. e \in Pieces /\ e.from = start /\ e.to = end
    BY <1>1, <2>2 DEF Chunk, Pieces
  <2> HIDE DEF e
  <2>5. /\ d \in Seq(Pieces) /\ d # <<>> /\ Len(d) = Len(c) + 1 /\ d[Len(c) + 1] = e
        /\ \A j \in 1..Len(c) : d[j] = c[j]
        /\ c = <<>> <=> Len(c) = 0
    BY <1>1, <2>4, OneMore
  <2> HIDE DEF d
  <2>6. Progress(chars, opts, c, start) /\ n <= start /\ start < len
    BY <1>4, <1>6
  <2>7. start < next /\ next < len /\ end < len /\ end < next + opts.minSize
    <3> DEFINE back == opts.overlap + SLACK
    <3>1. back \in Nat /\ back < opts.minSize
      BY <1>1
    <3>2. end - back = end - opts.overlap - SLACK
      BY <1>1, <2>2
    <3>3. end - back <= next
      BY <2>3, <3>2
    <3> HIDE DEF back
    <3> QED
      BY <1>1, <1>6, <2>2, <2>3, <3>1, <3>3, NextIsInReach
  <2>8. d[1].from = 0
    <3>1. c = <<>> \/ (c # <<>> /\ 1 \in 1..Len(c))
      BY <1>1, <2>5
    <3> QED
      BY <1>2, <2>4, <2>5, <2>6, <3>1 DEF Progress
  <2>9. ASSUME NEW j \in 1..(Len(d) - 1) PROVE Follows(d[j], d[j + 1])
    <3>1. CASE j = Len(c)
      <4>1. d[j] = last /\ d[j + 1] = e /\ c # <<>> /\ Len(c) \in 1..Len(c)
        BY <1>1, <2>5, <3>1
      <4>2. last.from < start /\ start <= last.to /\ last.to < start + opts.minSize
        BY <2>6, <4>1 DEF Progress
      <4>3. last \in Pieces
        BY <1>1, <4>1
      <4>4. last.from \in Nat /\ last.to \in Nat
        BY <4>3 DEF Pieces
      <4>5. last.to < end
        BY <1>1, <2>2, <4>2, <4>4, Reaches
      <4>6. start <= last.to /\ start > last.from /\ end > last.to
        BY <1>1, <2>2, <4>2, <4>4, <4>5
      <4> QED
        BY <2>4, <4>1, <4>6 DEF Follows
    <3>2. CASE j # Len(c)
      <4>1. j \in 1..(Len(c) - 1)
        BY <1>1, <2>5, <3>2
      <4>2. d[j] = c[j] /\ d[j + 1] = c[j + 1]
        <5>1. j \in 1..Len(c) /\ j + 1 \in 1..Len(c)
          BY <1>1, <4>1
        <5> QED
          BY <2>5, <5>1
      <4> QED
        BY <1>2, <4>1, <4>2
    <3> QED
      BY <3>1, <3>2
  <2>10. Whole(chars, opts, e)
    <3>1. opts.minSize <= end - start /\ end - start <= opts.maxSize
      BY <1>1, <2>2, Reaches
    <3> QED
      BY <2>2, <2>4, <2>7, <3>1 DEF Whole
  <2>11. ASSUME NEW j \in 1..Len(d) PROVE Whole(chars, opts, d[j])
    <3>1. j = Len(c) + 1 \/ j \in 1..Len(c)
      BY <1>1, <2>5
    <3> QED
      BY <2>5, <2>6, <2>10, <3>1 DEF Progress
  <2>12. Progress(chars, opts, d, next)
    BY <2>3, <2>4, <2>5, <2>7, <2>11 DEF Progress
  <2>13. n + 1 <= next
    BY <1>1, <2>3, <2>6, <2>7
  <2> QED
    BY <2>1, <2>3, <2>5, <2>7, <2>8, <2>9, <2>12, <2>13 DEF CutSoFar
<1> QED
  BY <1>1, <1>3, <1>5, <1>6

LEMMA CutsHold ==
    ASSUME NEW T, NEW chars \in Seq(T), NEW opts \in Options,
           opts.minSize <= opts.targetSize, opts.targetSize <= opts.maxSize
    PROVE  SemanticHolds(chars, opts)
<1> SUFFICES ASSUME chars # <<>>, opts.minSize > opts.overlap + SLACK
             PROVE  SemanticHolds(chars, opts)
  BY DEF SemanticHolds
<1> DEFINE len == Len(chars)
<1>1. len \in Nat /\ len > 0
  OBVIOUS
<1>2. PICK g : Rounds(chars, opts, g, len) /\ ChunkBySemantic(chars, opts) = g[len]
  BY <1>1, RunIsItsRounds
<1>3. g[0] = Begun(chars) /\ \A n \in 1..len : g[n] = ChunkStep(chars, opts, g[n - 1])
  <2>1. g = [n \in 0..len |-> IF n = 0 THEN Begun(chars) ELSE ChunkStep(chars, opts, g[n - 1])]
    BY <1>2 DEF Rounds
  <2>2. 0 \in 0..len /\ \A n \in 1..len : n \in 0..len /\ n # 0
    BY <1>1
  <2> QED
    BY <2>1, <2>2
<1>4. CutSoFar(chars, opts, g[0], 0)
  <2>1. Begun(chars) = [at |-> 0, done |-> FALSE, chunks |-> <<>>]
    BY DEF Begun
  <2>2. Progress(chars, opts, <<>>, 0)
    BY DEF Progress
  <2> QED
    BY <1>1, <1>3, <2>1, <2>2 DEF CutSoFar
<1>5. ASSUME NEW n \in 1..len, CutSoFar(chars, opts, g[n - 1], n - 1) PROVE CutSoFar(chars, opts, g[n], n)
  <2>1. n - 1 \in Nat /\ n - 1 + 1 = n
    BY <1>1
  <2>2. CutSoFar(chars, opts, ChunkStep(chars, opts, g[n - 1]), n - 1 + 1)
    BY <1>1, <1>5, <2>1, CutsGoOn
  <2> QED
    BY <1>3, <2>1, <2>2
<1>6. CutSoFar(chars, opts, g[len], len)
  <2> DEFINE good(n) == CutSoFar(chars, opts, g[n], n)
             Bad == {n \in 0..len : ~good(n)}
             R == OpToRel(<, Nat)
  <2>1. IsWellFoundedOn(R, Nat)
    BY NatLessThanWellFounded
  <2>2. \A i, j \in Nat : i < j => <<i, j>> \in R
    BY DEF OpToRel
  <2>3. good(0) /\ \A n \in 1..len : good(n - 1) => good(n)
    BY <1>4, <1>5
  <2> HIDE DEF good, R
  <2>4. Bad = {}
    <3> SUFFICES ASSUME Bad # {} PROVE FALSE
      OBVIOUS
    <3>1. Bad \subseteq Nat
      BY <1>1
    <3>2. PICK n \in Bad : \A k \in Bad : ~(<<k, n>> \in R)
      BY <2>1, <3>1, WFMin
    <3>3. n \in 0..len /\ ~good(n) /\ n \in Nat
      BY <1>1
    <3>4. n # 0
      BY <2>3, <3>3
    <3>5. n \in 1..len
      BY <1>1, <3>3, <3>4
    <3>6. ~good(n - 1) /\ n - 1 \in 0..len
      BY <1>1, <2>3, <3>3, <3>5
    <3>7. n - 1 \in Bad /\ n - 1 \in Nat /\ n - 1 < n
      BY <1>1, <3>3, <3>6
    <3> QED
      BY <2>2, <3>2, <3>3, <3>7
  <2>5. len \in 0..len
    BY <1>1
  <2> QED
    BY <2>4, <2>5 DEF good
<1> DEFINE run == ChunkBySemantic(chars, opts)
           c == run.chunks
<1>7. CutSoFar(chars, opts, run, len)
  BY <1>2, <1>6
<1> HIDE DEF run
<1>8. run.done /\ Finished(chars, opts, c)
  BY <1>1, <1>7 DEF CutSoFar
<1>9. c \in Seq(Pieces) /\ c # <<>> /\ Len(c) \in Nat /\ Len(c) > 0
  BY <1>7, <1>8 DEF CutSoFar, Finished
<1>10. c[1].from = 0 /\ Last(c).to = len
  BY <1>7, <1>8, <1>9 DEF CutSoFar, Finished, Last
<1>11. ASSUME NEW k \in DOMAIN c
       PROVE  /\ c[k].to - c[k].from <= opts.maxSize
              /\ k < Len(c) =>
                   /\ c[k].to - c[k].from >= opts.minSize
                   /\ c[k + 1].from <= c[k].to /\ c[k + 1].from > c[k].from /\ c[k + 1].to > c[k].to
                   /\ chars[c[k].to] = "x" =>
                         Breaks(chars, c[k].from + opts.minSize, c[k].from + opts.maxSize, Anywhere) = {}
  <2>1. k \in 1..Len(c)
    BY <1>9
  <2>2. CASE k = Len(c)
    BY <1>8, <1>9, <2>2 DEF Finished
  <2>3. CASE k # Len(c)
    <3>1. k \in 1..(Len(c) - 1)
      BY <1>9, <2>1, <2>3
    <3>2. Whole(chars, opts, c[k])
      BY <1>8, <3>1 DEF Finished
    <3>3. Follows(c[k], c[k + 1])
      BY <1>7, <3>1 DEF CutSoFar
    <3>4. c[k] \in Pieces /\ opts \in Options
      BY <1>9
    <3>5. c[k].to \in Nat /\ c[k].from \in Nat /\ opts.minSize \in Nat
      BY <3>4 DEF Pieces, Options
    <3> QED
      BY <3>2, <3>3, <3>5 DEF Whole, Follows
  <2> QED
    BY <2>2, <2>3
<1> QED
  BY <1>8, <1>10, <1>11 DEF SemanticHolds, run

-----------------------------------------------------------------------------
(* chunkers.ts, chunkBySemantic: any text, cut for any size and overlap    *)
(* with a least size larger than what a chunk may go back by, is cut in    *)
(* finitely many pieces that miss no character, each further on than the   *)
(* one before and within its limits, a word only cut where no break was.   *)
THEOREM CutsLoseNothing ==
    ASSUME NEW T, NEW chars \in Seq(T), NEW size \in Nat, NEW overlap \in Nat
    PROVE  SemanticHolds(chars, Opts(size, overlap))
<1>1. size \div 2 \in Nat /\ size \div 2 <= size /\ (3 * size) \div 2 \in Nat /\ size <= (3 * size) \div 2
  OBVIOUS
<1> DEFINE opts == Opts(size, overlap)
<1>2. opts \in Options /\ opts.minSize <= opts.targetSize /\ opts.targetSize <= opts.maxSize
  BY <1>1 DEF Opts, Options
<1> HIDE DEF opts
<1>3. SemanticHolds(chars, opts)
  BY <1>2, CutsHold
<1> QED
  BY <1>3 DEF opts

(* A product with a whole number above zero is no less than the other.     *)
LEMMA Stretched ==
    ASSUME NEW k \in Nat, NEW step \in Nat, step > 0
    PROVE  k * step \in Nat /\ k <= k * step /\ (k + 1) * step = k * step + step
OBVIOUS

(* Windows that start a step apart, as many as it takes to the end.        *)
Windows(n, size, overlap, step, last, from, c) ==
    /\ last \in Nat /\ step \in Nat /\ size = step + overlap
    /\ \A k \in Nat : from[k] \in Nat /\ from[k + 1] = from[k] + step
    /\ from[0] = 0
    /\ ~(from[last] + size < n)
    /\ \A j \in 0..(last - 1) : from[j] + size < n
    /\ Len(c) = last + 1
    /\ \A k \in 1..(last + 1) : c[k] = Chunk(from[k - 1], AtOrBelow(from[k - 1] + size, n))

LEMMA WindowsJoin ==
    ASSUME NEW n \in Nat, NEW size \in Nat, NEW overlap \in Nat, NEW step, NEW last, NEW from, NEW c,
           Windows(n, size, overlap, step, last, from, c)
    PROVE  /\ c[1].from = 0 /\ Last(c).to = n
           /\ \A k \in 1..(Len(c) - 1) : c[k + 1].from = c[k].to - overlap /\ c[k].to < n
<1>0. /\ last \in Nat /\ step \in Nat /\ size = step + overlap /\ Len(c) = last + 1
      /\ \A k \in Nat : from[k] \in Nat /\ from[k + 1] = from[k] + step
      /\ from[0] = 0
  BY DEF Windows
<1>1. ASSUME NEW k \in Nat, k <= last
      PROVE  c[k + 1].from = from[k] /\ c[k + 1].to = AtOrBelow(from[k] + size, n)
  <2>1. k + 1 \in 1..(last + 1) /\ k + 1 - 1 = k
    BY <1>0, <1>1
  <2>2. c[k + 1] = Chunk(from[k + 1 - 1], AtOrBelow(from[k + 1 - 1] + size, n))
    BY <2>1 DEF Windows
  <2> QED
    BY <2>1, <2>2 DEF Chunk
<1>2. c[1].from = 0
  <2>1. 0 \in Nat /\ 0 <= last /\ 0 + 1 = 1
    BY <1>0
  <2>2. c[0 + 1].from = from[0]
    BY ONLY <1>1, <2>1
  <2> QED
    BY <1>0, <2>1, <2>2
<1>3. Last(c).to = n
  <2>1. last \in Nat /\ last <= last
    BY <1>0
  <2>2. c[last + 1].to = AtOrBelow(from[last] + size, n)
    BY ONLY <1>1, <2>1
  <2>3. ~(from[last] + size < n)
    BY DEF Windows
  <2>4. AtOrBelow(from[last] + size, n) = n
    BY ONLY <2>3 DEF AtOrBelow
  <2> QED
    BY <1>0, <2>2, <2>4 DEF Last
<1>4. ASSUME NEW k \in 1..(Len(c) - 1)
      PROVE  c[k + 1].from = c[k].to - overlap /\ c[k].to < n
  <2>1. PICK j \in Nat : k = j + 1 /\ j \in 0..(last - 1) /\ k \in Nat /\ k <= last /\ j <= last
    <3>1. k - 1 \in Nat /\ k = (k - 1) + 1 /\ k - 1 \in 0..(last - 1) /\ k \in Nat /\ k <= last /\ k - 1 <= last
      BY <1>0
    <3> QED
      BY <3>1
  <2>2. c[k + 1].from = from[k]
    BY <1>1, <2>1
  <2>3. c[k].to = AtOrBelow(from[j] + size, n)
    BY <1>1, <2>1
  <2>4. from[j] \in Nat /\ from[k] = from[j] + step
    BY <1>0, <2>1
  <2>5. from[j] + size < n
    BY <2>1 DEF Windows
  <2>6. c[k].to = from[j] + size
    BY <2>3, <2>5 DEF AtOrBelow
  <2>7. from[j] + size - overlap = from[j] + step /\ from[j] + size \in Nat
    <3>1. \A v \in Nat : v + size - overlap = v + step /\ v + size \in Nat
      BY <1>0
    <3> QED
      BY <2>4, <3>1
  <2> QED
    BY <2>2, <2>4, <2>5, <2>6, <2>7
<1> QED
  BY <1>2, <1>3, <1>4

(* chunkers.ts, chunkByCharacters: windows of any size over any text have  *)
(* no gap, overlap by what was asked for, and end where the text ends.     *)
THEOREM WindowsLoseNothing ==
    ASSUME NEW n \in Nat, NEW size \in Nat, NEW overlap \in Nat
    PROVE  CharactersHold(n, size, overlap)
<1> SUFFICES ASSUME overlap < size, n > 0 PROVE CharactersHold(n, size, overlap)
  BY DEF CharactersHold
<1> DEFINE step == size - overlap
           from == [k \in Nat |-> k * step]
           last == CHOOSE k \in 0..n : k * step + size >= n /\ \A j \in 0..(k - 1) : j * step + size < n
           Ends == {k \in 0..n : from[k] + size >= n}
           c == ChunkByCharacters(n, size, overlap)
<1>1. step \in Nat /\ step > 0 /\ size = step + overlap
  OBVIOUS
<1>2. \A k \in Nat : from[k] \in Nat /\ k <= from[k] /\ from[k + 1] = from[k] + step
  BY <1>1, Stretched
<1>3. from[0] = 0
  BY <1>1
<1>4. c = [k \in 1..(last + 1) |-> Chunk((k - 1) * step, AtOrBelow((k - 1) * step + size, n))]
  BY DEF ChunkByCharacters
<1>14. \A k \in Nat : from[k] = k * step
  OBVIOUS
<1> HIDE DEF step, from
<1>5. n \in Ends
  BY <1>2
<1>6. Min(Ends) \in Ends /\ \A k \in Ends : Min(Ends) <= k
  <2>1. Ends \in SUBSET Nat /\ Ends # {}
    BY <1>5
  <2> QED
    BY <2>1, FirstPosition
<1>7. \A j \in 0..(Min(Ends) - 1) : from[j] + size < n
  <2> TAKE j \in 0..(Min(Ends) - 1)
  <2>1. j \in 0..n /\ ~(Min(Ends) <= j) /\ j \in Nat
    BY <1>6
  <2>2. ~(from[j] + size >= n)
    BY <1>6, <2>1
  <2> QED
    BY <1>2, <2>1, <2>2
<1>8. last \in 0..n /\ from[last] + size >= n /\ \A j \in 0..(last - 1) : from[j] + size < n
  <2>1. \E k \in 0..n : k * step + size >= n /\ \A j \in 0..(k - 1) : j * step + size < n
    BY <1>6, <1>7, <1>14
  <2>2. last \in 0..n /\ last * step + size >= n /\ \A j \in 0..(last - 1) : j * step + size < n
    BY <2>1
  <2> HIDE DEF last
  <2> QED
    BY <2>2, <1>14
<1> HIDE DEF last, c
<1>9. Len(c) = last + 1 /\ last \in Nat
  BY <1>4, <1>8
<1>10. \A k \in 1..(last + 1) : c[k] = Chunk(from[k - 1], AtOrBelow(from[k - 1] + size, n))
  <2> TAKE k \in 1..(last + 1)
  <2>1. k - 1 \in Nat
    BY <1>9
  <2>2. (k - 1) * step = from[k - 1]
    BY <2>1, <1>14
  <2>3. c[k] = Chunk((k - 1) * step, AtOrBelow((k - 1) * step + size, n))
    BY <1>4
  <2> QED
    BY <2>2, <2>3
<1>11. /\ c[1].from = 0 /\ Last(c).to = n
       /\ \A k \in 1..(Len(c) - 1) : c[k + 1].from = c[k].to - overlap /\ c[k].to < n
  <2>1. \A k \in Nat : from[k] \in Nat /\ from[k + 1] = from[k] + step
    BY <1>2
  <2>2. ~(from[last] + size < n)
    <3>1. from[last] \in Nat
      BY <1>2, <1>9
    <3>2. \A v \in Nat : v + size >= n => ~(v + size < n)
      OBVIOUS
    <3> QED
      BY <1>8, <3>1, <3>2
  <2>3. Windows(n, size, overlap, step, last, from, c)
    BY ONLY <1>1, <1>3, <1>8, <1>9, <1>10, <2>1, <2>2 DEF Windows
  <2> QED
    BY <2>3, WindowsJoin
<1> QED
  BY <1>11 DEF CharactersHold, c
=============================================================================
