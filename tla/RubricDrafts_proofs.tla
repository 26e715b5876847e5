------------------------ MODULE RubricDrafts_proofs ------------------------
(***************************************************************************)
(* For any directories, releases, drafts and crashes, and any agent that   *)
(* writes beside this one: what the agent judges by is its directory       *)
(* (ServesTheDirectory), a refused update puts back what it found          *)
(* (RefusalRestores), an accepted one is the release and is unambiguous    *)
(* (AcceptedIsUnambiguous), and what is exported can be released           *)
(* (ExportIsReleasable).                                                   *)
(***************************************************************************)
EXTENDS RubricDrafts, WellFoundedInduction, TLAPS

Directories == [Files -> Bodies]
Answers == [status : {"none", "ok", "refused", "failed"}, commit : Nat]

(* Where the update is, and what there is to do.                           *)
Typed ==
    /\ dir \in Directories /\ backup \in Directories
    /\ ref \in {0} \cup DOMAIN Releases /\ (at # "idle" => ref # 0)
    /\ at \in {"idle", "write", "prune", "revert", "restore"} /\ todo \subseteq Files
    /\ cache = None \/ cache \in SUBSET (Bodies \ {None})
    /\ answer \in Answers

(* The directory is the release's where it is written and where what the   *)
(* release dropped is removed; in the restore it is the backup's.          *)
Kept(f) == Releases[ref][f] # None
Written(f) == dir[f] = Releases[ref][f]
Applied ==
    /\ at = "write" => \A f \in todo : Kept(f)
    /\ at = "prune" => \A f \in todo : ~Kept(f)
    /\ ~overlapped =>
         /\ at = "write" => \A f \in Files \ todo : Kept(f) => Written(f)
         /\ at = "prune" => \A f \in Files \ todo : Written(f)
         /\ at \in {"revert", "restore"} => \A f \in Files \ todo : dir[f] = backup[f]

(* What is loaded parses, and no two rubrics of it are of one type.        *)
Loadable(set) ==
    /\ \A r \in set : Parses(r)
    /\ \A r, q \in set : r.type = q.type => r = q

(* An index is of the cache, in the middle of an update too, and can be    *)
(* built of it; an update that was accepted left the cache loaded.         *)
Loaded ==
    /\ cache # None => Loadable(cache)
    /\ index # None => index = cache /\ IndexBuilds(index)
    /\ at = "idle" /\ answer.status = "ok" => cache # None

SetInv == /\ Typed /\ Applied /\ Loaded
          /\ ServesTheDirectory /\ RefusalRestores /\ AcceptedIsUnambiguous

-----------------------------------------------------------------------------
(* What is loaded are bodies of the directory, and a loaded set, also an   *)
(* empty one, can be told from none.                                       *)
LEMMA LoadIsASet ==
    ASSUME NEW d \in Directories
    PROVE  Load(d) \in SUBSET (Bodies \ {None}) /\ Load(d) # None
<1>1. Load(d) \in SUBSET (Bodies \ {None})
  BY DEF Load, Readable, Directories
<1> QED
  BY <1>1, RubricSetAssumption DEF RubricSetAssumption

LEMMA LoadIsLoadable ==
    ASSUME NEW d \in Directories PROVE Loadable(Load(d))
<1>1. \A r \in Load(d) : \E f \in Readable(d) : r = d[f] /\ ~Excluded(d, f)
  BY DEF Load
<1>2. \A f \in Readable(d) : f \in Nat
  BY RubricSetAssumption DEF RubricSetAssumption, Readable, Directories
<1>3. ASSUME NEW r \in Load(d), NEW q \in Load(d), r.type = q.type PROVE r = q
  <2>1. PICK f \in Readable(d) : r = d[f] /\ ~Excluded(d, f)
    BY <1>1
  <2>2. PICK g \in Readable(d) : q = d[g] /\ ~Excluded(d, g)
    BY <1>1
  <2>3. ~(f < g) /\ ~(g < f)
    BY <1>3, <2>1, <2>2 DEF Excluded
  <2>4. f = g
    BY <1>2, <2>3
  <2> QED
    BY <2>1, <2>2, <2>4
<1>4. \A r \in Load(d) : Parses(r)
  BY <1>1 DEF Readable
<1> QED
  BY <1>3, <1>4 DEF Loadable

(* Of the files that hold one body, one is listed first.                   *)
LEMMA FirstFile ==
    ASSUME NEW S \in SUBSET Nat, S # {} PROVE \E i \in S : \A j \in S : ~(j < i)
<1> DEFINE R == OpToRel(<, Nat)
<1>1. IsWellFoundedOn(R, Nat)
  BY NatLessThanWellFounded
<1>2. \A i, j \in Nat : i < j => <<i, j>> \in R
  BY DEF OpToRel
<1> HIDE DEF R
<1>3. PICK i \in S : \A j \in S : ~(<<j, i>> \in R)
  BY <1>1, WFMin
<1>4. \A j \in S : ~(j < i)
  BY <1>2, <1>3
<1> QED
  BY <1>4

(* A directory of bodies that parse, of one type each, loads all of them.  *)
LEMMA AllAreLoaded ==
    ASSUME NEW set, Loadable(set), NEW d \in Holding(set) PROVE Load(d) = set
<1>1. DOMAIN d = Files /\ \A f \in Files : d[f] # None => d[f] \in set
  BY DEF Holding
<1>2. Readable(d) = {f \in Files : d[f] # None}
  BY <1>1 DEF Readable, Loadable
<1>3. ASSUME NEW r \in set PROVE r \in Load(d)
  <2> DEFINE S == {f \in Files : d[f] = r}
  <2>1. r # None /\ S # {}
    BY DEF Holding
  <2>2. S \in SUBSET Nat
    BY RubricSetAssumption DEF RubricSetAssumption
  <2>3. PICK i \in S : \A j \in S : ~(j < i)
    BY <2>1, <2>2, FirstFile
  <2>4. \A g \in Readable(d) : d[g].type = r.type => g \in S
    BY <1>1, <1>2 DEF Loadable
  <2>5. i \in Readable(d) /\ d[i] = r
    BY <1>2, <2>1
  <2> HIDE DEF S
  <2>6. ~Excluded(d, i)
    BY <2>3, <2>4, <2>5 DEF Excluded
  <2> QED
    BY <2>5, <2>6 DEF Load
<1>4. Load(d) \subseteq set
  BY <1>1, <1>2 DEF Load
<1> QED
  BY <1>3, <1>4

(* A release is a directory.                                               *)
LEMMA ReleaseIsADirectory ==
    ASSUME NEW n \in DOMAIN Releases
    PROVE  n \in Nat \ {0} /\ Releases[n] \in Directories
BY RubricSetAssumption DEF RubricSetAssumption, Directories

(* A set of rubrics each valid next to the others leads no name to two     *)
(* types.                                                                  *)
LEMMA ValidSetIsUnambiguous ==
    ASSUME NEW set, ValidSet(set) PROVE IndexBuilds(set)
<1> SUFFICES ASSUME NEW r \in set, NEW s \in set, r.type # s.type
             PROVE  Names(r) \cap Names(s) = {}
  BY DEF IndexBuilds
<1>1. ~Collides(s, set)
  BY DEF ValidSet, Valid
<1> QED
  BY <1>1 DEF Collides

LEMMA InitSet == Init => SetInv
<1> SUFFICES ASSUME Init PROVE SetInv
  OBVIOUS
<1>1. Typed
  <2>1. ref \in {0} \cup DOMAIN Releases
    BY RubricSetAssumption DEF RubricSetAssumption, Init
  <2> QED
    BY <2>1, RubricSetAssumption
       DEF RubricSetAssumption, Init, Typed, Directories, Answers, NoAnswer
<1> QED
  BY <1>1 DEF Init, SetInv, Applied, Loaded, ServesTheDirectory, RefusalRestores,
     AcceptedIsUnambiguous, NoAnswer

(* Whoever asks first loads: what there was is kept, and what is new is    *)
(* the directory.                                                          *)
LEMMA Loading ==
    ASSUME Typed, Loads
    PROVE  /\ cache' # None /\ cache' \in SUBSET (Bodies \ {None})
           /\ cache # None => cache' = cache /\ (drifted' <=> drifted)
           /\ cache = None => cache' = Load(dir) /\ ~drifted' /\ Loadable(cache')
<1>1. cache' = Cached /\ (drifted' <=> drifted /\ cache # None)
  BY Zenon DEF Loads
<1>2. Load(dir) \in SUBSET (Bodies \ {None}) /\ Load(dir) # None
  BY LoadIsASet DEF Typed
<1>3. ASSUME NEW set, set = Load(dir) PROVE Loadable(set)
  BY <1>3, LoadIsLoadable DEF Typed
<1>4. ASSUME NEW set, set = cache', cache = None PROVE Loadable(set)
  BY <1>1, <1>3, <1>4 DEF Cached
<1> HIDE DEF Loadable
<1> QED
  BY <1>1, <1>2, <1>4 DEF Typed, Cached, Loadable

(* An idle agent that loads, or builds its index, changes nothing else.    *)
LEMMA IdleLoads ==
    ASSUME SetInv, at = "idle", Loads, index' = index \/ (index' = cache' /\ IndexBuilds(cache')),
           UNCHANGED <<ref, dir, update, answer, overlapped, outside>>
    PROVE  SetInv'
<1> USE DEF SetInv, update
<1>0. Typed
  OBVIOUS
<1>l. /\ cache' # None /\ cache' \in SUBSET (Bodies \ {None})
      /\ cache # None => cache' = cache /\ (drifted' <=> drifted)
      /\ cache = None => cache' = Load(dir) /\ ~drifted' /\ Loadable(cache')
  BY <1>0, Loading
<1>1. Typed'
  BY <1>l DEF Typed
<1>2. Applied'
  BY DEF Applied, Kept, Written
<1>3. Loaded'
  BY <1>l DEF Loaded, IndexBuilds, Loadable
<1>4. ServesTheDirectory'
  BY <1>l, <1>3 DEF ServesTheDirectory, Loaded
<1>5. RefusalRestores'
  BY DEF RefusalRestores
<1>6. AcceptedIsUnambiguous'
  BY <1>l DEF AcceptedIsUnambiguous, Loaded, IndexBuilds
<1> QED
  BY <1>1, <1>2, <1>3, <1>4, <1>5, <1>6

-----------------------------------------------------------------------------
(* The steps of an update between its first and its last.                  *)
LEMMA InUpdateKeeps ==
    ASSUME SetInv, at # "idle", at' # "idle", UNCHANGED <<cache, index, answer, drifted>>,
           InUpdate, dir' \in Directories, todo' \subseteq Files,
           at' \in {"write", "prune", "revert", "restore"}, Applied'
    PROVE  SetInv'
<1> USE DEF SetInv, InUpdate
<1>1. Typed'
  BY DEF Typed
<1>2. Loaded'
  BY DEF Loaded, IndexBuilds, Loadable
<1>3. ServesTheDirectory' /\ RefusalRestores' /\ AcceptedIsUnambiguous'
  BY DEF ServesTheDirectory, RefusalRestores, AcceptedIsUnambiguous
<1> QED
  BY <1>1, <1>2, <1>3

(* Whatever was written, giving up leaves alone only what neither side has.*)
LEMMA GivingUp ==
    ASSUME Typed, NEW place \in {"revert", "restore"}, GiveUp(place),
           UNCHANGED <<dir, backup, ref, overlapped>>
    PROVE  at' = place /\ todo' \subseteq Files /\ Applied'
<1>1. at' = place /\ todo' = Misplaced
  BY DEF GiveUp
<1>2. Misplaced \subseteq Files /\ \A f \in Files \ Misplaced : dir[f] = backup[f]
  BY DEF Misplaced
<1> QED
  BY <1>1, <1>2 DEF Applied, Restoring

LEMMA BeginStep == ASSUME SetInv, Begin PROVE SetInv'
<1> USE DEF SetInv, Begin, Answer
<1>0. Typed /\ ref' \in {0} \cup DOMAIN Releases
  BY DEF Typed
<1>1. CASE ref' = 0
  <2>1. Typed'
    BY <1>0, <1>1 DEF Typed, Answers
  <2>2. Applied'
    BY <1>1 DEF Applied
  <2>3. Loaded'
    BY <1>1 DEF Loaded, IndexBuilds, Loadable
  <2>4. ServesTheDirectory' /\ RefusalRestores' /\ AcceptedIsUnambiguous'
    BY <1>1 DEF ServesTheDirectory, RefusalRestores, AcceptedIsUnambiguous
  <2> QED
    BY <2>1, <2>2, <2>3, <2>4
<1>2. CASE ref' # 0
  <2>1. /\ cache' # None /\ cache' \in SUBSET (Bodies \ {None})
        /\ cache # None => cache' = cache /\ (drifted' <=> drifted)
        /\ cache = None => cache' = Load(dir) /\ ~drifted' /\ Loadable(cache')
    BY <1>0, <1>2, Loading
  <2>2. Typed'
    BY <1>0, <1>2, <2>1 DEF Typed
  <2>3. Applied'
    BY <1>2 DEF Applied, Kept
  <2>4. Loaded'
    BY <1>2, <2>1 DEF Loaded, IndexBuilds, Loadable
  <2>5. ServesTheDirectory' /\ RefusalRestores' /\ AcceptedIsUnambiguous'
    BY <1>2 DEF ServesTheDirectory, RefusalRestores, AcceptedIsUnambiguous
  <2> QED
    BY <2>2, <2>3, <2>4, <2>5
<1> QED
  BY <1>1, <1>2

(* What is written is the release's: a file of it, or one it dropped.      *)
LEMMA WriteStep == ASSUME SetInv, WriteFile PROVE SetInv'
<1> USE DEF SetInv, InUpdate
<1> DEFINE f == CHOOSE g \in todo : \A h \in todo : g <= h
<1>1. /\ at = "write" /\ at' = "write" /\ ref' = ref /\ overlapped' = overlapped
      /\ dir' = [dir EXCEPT ![f] = Releases[ref][f]] /\ todo' = todo \ {f}
  BY DEF WriteFile
<1> HIDE DEF f
<1>2. dir \in Directories /\ Releases[ref] \in Directories
  BY <1>1, ReleaseIsADirectory DEF Typed
<1>3. dir' \in Directories /\ \A g \in Files : dir'[g] = IF g = f THEN Releases[ref][f] ELSE dir[g]
  BY <1>1, <1>2 DEF Directories
<1>4. Applied'
  BY <1>1, <1>3 DEF Applied, Kept, Written
<1> QED
  BY <1>1, <1>3, <1>4, InUpdateKeeps DEF WriteFile, Typed

LEMMA ListStep == ASSUME SetInv, ListWithdrawn PROVE SetInv'
<1> USE DEF SetInv, ListWithdrawn, InUpdate
<1>1. todo' \subseteq Files /\ (\A f \in todo' : ~Kept(f)) /\ at' = "prune" /\ at = "write"
  BY DEF Listed, Kept
<1>2. ~overlapped => \A f \in Files \ todo' : Written(f)
  BY DEF Listed, Kept, Written, Applied
<1>3. Applied'
  BY <1>1, <1>2 DEF Applied, Kept, Written
<1> QED
  BY <1>1, <1>3, InUpdateKeeps DEF Typed

LEMMA PruneStep == ASSUME SetInv, Prune PROVE SetInv'
<1> USE DEF SetInv, InUpdate
<1>1. PICK f \in todo : dir' = [dir EXCEPT ![f] = None] /\ todo' = todo \ {f}
  BY DEF Prune
<1>2. at = "prune" /\ at' = "prune" /\ ref' = ref /\ overlapped' = overlapped
  BY DEF Prune
<1>3. dir \in Directories /\ Releases[ref] \in Directories /\ f \in Files /\ Releases[ref][f] = None
  BY <1>2, ReleaseIsADirectory DEF Typed, Applied, Kept
<1>4. dir' \in Directories /\ \A g \in Files : dir'[g] = IF g = f THEN None ELSE dir[g]
  BY <1>1, <1>3 DEF Directories
<1>5. Applied'
  BY <1>1, <1>2, <1>3, <1>4 DEF Applied, Kept, Written
<1> QED
  BY <1>1, <1>2, <1>4, <1>5, InUpdateKeeps DEF Prune, Typed

LEMMA FailStep == ASSUME SetInv, ApplyFails PROVE SetInv'
<1> USE DEF SetInv, ApplyFails, InUpdate
<1>1. at' = "restore" /\ todo' \subseteq Files /\ Applied'
  BY GivingUp
<1> QED
  BY <1>1, InUpdateKeeps DEF Typed

(* The check loads what was written: all of the release, and nothing else, *)
(* unless another agent wrote meanwhile.                                   *)
LEMMA CheckStep == ASSUME SetInv, Check PROVE SetInv'
<1> USE DEF SetInv, InUpdate
<1>1. /\ at = "prune" /\ todo = {} /\ index' = None /\ cache' = Load(dir) /\ ~drifted' /\ dir' = dir
      /\ ref' = ref /\ backup' = backup /\ overlapped' = overlapped
  BY DEF Check
<1>2. cache' \in SUBSET (Bodies \ {None}) /\ cache' # None /\ Loadable(cache')
  <2>1. ASSUME NEW set, set = Load(dir) PROVE Loadable(set)
    BY <2>1, LoadIsLoadable DEF Typed
  <2>2. Loadable(cache')
    BY <1>1, <2>1
  <2> QED
    BY <1>1, <2>2, LoadIsASet DEF Typed
<1>3. ref \in DOMAIN Releases /\ ref \in Nat /\ Releases[ref] \in Directories
  BY <1>1, ReleaseIsADirectory DEF Typed
<1>4. ~overlapped => dir = Releases[ref]
  BY <1>1, <1>3 DEF Typed, Applied, Written, Directories
<1>5. CASE ValidSet(cache') /\ at' = "idle" /\ todo' = {} /\ Answer("ok", ref)
  <2>1. answer' = [status |-> "ok", commit |-> ref]
    BY <1>5 DEF Answer
  <2>2. Typed'
    BY <1>1, <1>2, <1>3, <1>5, <2>1 DEF Typed, Answers
  <2>3. Applied'
    BY <1>5 DEF Applied
  <2>4. Loaded' /\ ServesTheDirectory' /\ RefusalRestores'
    BY <1>1, <1>2, <2>1 DEF Loaded, ServesTheDirectory, RefusalRestores
  <2>5. IndexBuilds(cache')
    BY <1>5, ValidSetIsUnambiguous
  <2>6. AcceptedIsUnambiguous'
    BY <1>1, <1>4, <2>1, <2>5 DEF AcceptedIsUnambiguous, IndexBuilds
  <2> QED
    BY <2>2, <2>3, <2>4, <2>6
<1>6. CASE GiveUp("revert") /\ UNCHANGED answer
  <2>1. at' = "revert" /\ todo' \subseteq Files /\ Applied'
    BY <1>1, <1>6, GivingUp
  <2>2. Typed'
    BY <1>1, <1>2, <1>6, <2>1 DEF Typed
  <2>3. Loaded'
    BY <1>1, <1>2, <2>1 DEF Loaded
  <2>4. ServesTheDirectory' /\ RefusalRestores' /\ AcceptedIsUnambiguous'
    BY <1>1, <2>1 DEF ServesTheDirectory, RefusalRestores, AcceptedIsUnambiguous
  <2> QED
    BY <2>1, <2>2, <2>3, <2>4
<1> QED
  BY <1>5, <1>6 DEF Check

LEMMA RestoreStep == ASSUME SetInv, Restore PROVE SetInv'
<1> USE DEF SetInv, InUpdate
<1>1. PICK f \in todo : dir' = [dir EXCEPT ![f] = backup[f]] /\ todo' = todo \ {f}
  BY DEF Restore
<1>2. Restoring /\ at' = at /\ backup' = backup /\ overlapped' = overlapped
  BY DEF Restore
<1>3. dir \in Directories /\ backup \in Directories /\ f \in Files
  BY DEF Typed
<1>4. dir' \in Directories /\ \A g \in Files : dir'[g] = IF g = f THEN backup[f] ELSE dir[g]
  BY <1>1, <1>3 DEF Directories
<1>5. Applied'
  BY <1>1, <1>2, <1>4 DEF Applied, Restoring
<1> QED
  BY <1>1, <1>2, <1>4, <1>5, InUpdateKeeps DEF Restore, Restoring, Typed

(* A restore that fails leaves the files where they are: it is tried again *)
(* or, the second time, given up and noted.                                *)
LEMMA RestoreFailsStep == ASSUME SetInv, RestoreFails PROVE SetInv'
<1> USE DEF SetInv, InUpdate
<1>1. UNCHANGED <<dir, backup, ref, overlapped, cache, index>>
  BY DEF RestoreFails
<1>2. CASE at = "revert" /\ GiveUp("restore") /\ UNCHANGED <<answer, drifted>>
  <2>1. at' = "restore" /\ todo' \subseteq Files /\ Applied'
    BY <1>1, <1>2, GivingUp
  <2> QED
    BY <1>1, <1>2, <2>1, InUpdateKeeps DEF RestoreFails, Typed
<1>3. CASE at = "restore" /\ at' = "idle" /\ todo' = {} /\ Answer("failed", ref) /\ drifted' = TRUE
  <2>1. answer' = [status |-> "failed", commit |-> ref] /\ ref \in Nat
    BY <1>3, ReleaseIsADirectory DEF Answer, Typed
  <2>2. Typed'
    BY <1>1, <1>3, <2>1 DEF Typed, Answers
  <2>3. Applied'
    BY <1>3 DEF Applied, Restoring
  <2>4. Loaded'
    BY <1>1, <2>1 DEF Loaded, IndexBuilds, Loadable
  <2>5. ServesTheDirectory' /\ RefusalRestores' /\ AcceptedIsUnambiguous'
    BY <1>1, <1>3, <2>1 DEF ServesTheDirectory, RefusalRestores, AcceptedIsUnambiguous, Loaded
  <2> QED
    BY <2>2, <2>3, <2>4, <2>5
<1> QED
  BY <1>2, <1>3 DEF RestoreFails

LEMMA RefuseStep == ASSUME SetInv, Refuse PROVE SetInv'
<1> USE DEF SetInv, InUpdate, Refuse
<1>1. /\ Restoring /\ todo = {} /\ at' = "idle" /\ cache' = None /\ index' = None /\ ~drifted'
      /\ ref' = ref /\ dir' = dir /\ backup' = backup /\ todo' = {} /\ overlapped' = overlapped
      /\ answer' = [status |-> "refused", commit |-> ref]
  BY DEF Reload, Answer
<1>2. ref \in Nat
  BY ReleaseIsADirectory DEF Typed
<1>3. Typed'
  BY <1>1, <1>2 DEF Typed, Answers
<1>4. ~overlapped => dir = backup
  BY <1>1 DEF Restoring, Typed, Applied, Directories
<1>5. Applied' /\ Loaded' /\ ServesTheDirectory' /\ RefusalRestores' /\ AcceptedIsUnambiguous'
  BY <1>1, <1>4 DEF Applied, Loaded, ServesTheDirectory, RefusalRestores, AcceptedIsUnambiguous
<1> QED
  BY <1>3, <1>5

(* Another agent's writing is noted, a restart forgets all but the files.  *)
LEMMA OtherStep == ASSUME SetInv, OtherAgent PROVE SetInv'
<1> USE DEF SetInv, OtherAgent, update
<1>1. Typed'
  BY ReleaseIsADirectory DEF Typed
<1>2. Applied'
  BY DEF Applied, Kept
<1>3. Loaded' /\ ServesTheDirectory' /\ RefusalRestores' /\ AcceptedIsUnambiguous'
  BY DEF Loaded, ServesTheDirectory, RefusalRestores, AcceptedIsUnambiguous, IndexBuilds,
     Loadable
<1> QED
  BY <1>1, <1>2, <1>3

LEMMA RestartStep == ASSUME SetInv, Restart PROVE SetInv'
<1> USE DEF SetInv, Restart
<1>1. Typed'
  BY DEF Typed, Answers, NoAnswer
<1>2. Applied' /\ Loaded' /\ ServesTheDirectory' /\ RefusalRestores' /\ AcceptedIsUnambiguous'
  BY DEF Applied, Loaded, ServesTheDirectory, RefusalRestores, AcceptedIsUnambiguous, NoAnswer
<1> QED
  BY <1>1, <1>2

LEMMA SetStep == ASSUME SetInv, Next PROVE SetInv'
<1>1. ASSUME Use PROVE SetInv'
  BY <1>1, IdleLoads DEF Use
<1>2. ASSUME BuildAliasIndex PROVE SetInv'
  <2>1. index' = cache' /\ IndexBuilds(cache')
    BY <1>2 DEF BuildAliasIndex, Loads
  <2> QED
    BY <1>2, <2>1, IdleLoads DEF BuildAliasIndex
<1> QED
  BY <1>1, <1>2, BeginStep, WriteStep, ListStep, PruneStep, FailStep, CheckStep, RestoreStep,
     RestoreFailsStep, RefuseStep, OtherStep, RestartStep DEF Next

-----------------------------------------------------------------------------
(* A draft's requests leave the set alone, or load it.                     *)
LEMMA UnchangedSet == ASSUME SetInv, UNCHANGED vars PROVE SetInv'
<1> USE DEF SetInv, vars, update
<1>1. Typed' /\ Applied'
  BY DEF Typed, Applied, Kept, Written
<1>2. Loaded' /\ ServesTheDirectory' /\ RefusalRestores' /\ AcceptedIsUnambiguous'
  BY DEF Loaded, ServesTheDirectory, RefusalRestores, AcceptedIsUnambiguous, IndexBuilds,
     Loadable
<1> QED
  BY <1>1, <1>2

LEMMA ValidatesStep == ASSUME SetInv, NEW c, Validates(c) PROVE SetInv'
<1>1. CASE Parses(c)
  BY <1>1, IdleLoads DEF Validates
<1>2. CASE ~Parses(c)
  BY <1>2, UnchangedSet DEF Validates, vars
<1> QED
  BY <1>1, <1>2

(* A valid draft in the place of its type collides with none that stay,    *)
(* and what stays is of other types, each of one rubric.                   *)
LEMMA ExportHolds == ASSUME SetInv, Export PROVE ExportIsReleasable'
<1>1. PICK e : /\ e = [body |-> row.content, against |-> Cached]
               /\ exported' = e /\ Valid(e.body, e.against)
  BY DEF Export
<1>2. Parses(e.body)
  BY <1>1 DEF Valid
<1>3. ASSUME IndexBuilds(e.against) PROVE IndexBuilds(Promoted(e))
  <2> SUFFICES ASSUME NEW r \in Promoted(e), NEW s \in Promoted(e), r.type # s.type
               PROVE  Names(r) \cap Names(s) = {}
    BY DEF IndexBuilds
  <2>1. r = e.body \/ (r \in e.against /\ r.type # e.body.type)
    BY DEF Promoted
  <2>2. s = e.body \/ (s \in e.against /\ s.type # e.body.type)
    BY DEF Promoted
  <2>3. \A q \in e.against : q.type # e.body.type => Names(q) \cap Names(e.body) = {}
    BY <1>1 DEF Valid, Collides
  <2>4. CASE r \in e.against /\ s \in e.against
    BY <2>4, <1>3 DEF IndexBuilds
  <2>5. CASE r = e.body \/ s = e.body
    BY <2>1, <2>2, <2>3, <2>5
  <2> QED
    BY <2>1, <2>2, <2>4, <2>5
<1>4. ASSUME ValidSet(e.against) PROVE ValidSet(Promoted(e))
  <2> SUFFICES ASSUME NEW r \in Promoted(e) PROVE Valid(r, Promoted(e))
    BY DEF ValidSet
  <2>1. \A q \in Promoted(e) : q = e.body \/ (q \in e.against /\ q.type # e.body.type)
    BY DEF Promoted
  <2>2. \A q \in e.against : q.type # e.body.type => Names(q) \cap Names(e.body) = {}
    BY <1>1 DEF Valid, Collides
  <2>3. CASE r = e.body
    <3>1. ~Collides(r, Promoted(e))
      BY <2>1, <2>2, <2>3 DEF Collides
    <3> QED
      BY <1>1, <2>3, <3>1 DEF Valid
  <2>4. CASE r \in e.against /\ r.type # e.body.type
    <3>1. Valid(r, e.against)
      BY <1>4, <2>4 DEF ValidSet
    <3>2. ~Collides(r, Promoted(e))
      BY <2>1, <2>2, <2>4, <3>1 DEF Collides, Valid
    <3> QED
      BY <3>1, <3>2 DEF Valid
  <2> QED
    BY <2>1, <2>3, <2>4
<1>5. \A d \in Holding(Promoted(e)) : Load(d) = Promoted(e)
  <2>1. ASSUME NEW set, set = Cached PROVE Loadable(set)
    <3>1. CASE cache = None
      BY <2>1, <3>1, LoadIsLoadable DEF Cached, SetInv, Typed
    <3>2. CASE cache # None
      BY <2>1, <3>2 DEF Cached, SetInv, Loaded
    <3> QED
      BY <3>1, <3>2
  <2>2. Loadable(e.against)
    BY <1>1, <2>1
  <2>3. Loadable(Promoted(e))
    BY <1>2, <2>2 DEF Loadable, Promoted
  <2> QED
    BY <2>3, AllAreLoaded
<1>6. Releasable(e)
  BY <1>3, <1>4, <1>5 DEF Releasable
<1> QED
  BY <1>1, <1>6 DEF ExportIsReleasable

DraftsInv == SetInv /\ ExportIsReleasable

LEMMA DraftsStep == DraftsInv /\ [NextDrafts]_<<vars, draftVars>> => DraftsInv'
<1> SUFFICES ASSUME SetInv, ExportIsReleasable, [NextDrafts]_<<vars, draftVars>> PROVE DraftsInv'
  BY DEF DraftsInv
<1>0. ASSUME UNCHANGED exported PROVE ExportIsReleasable'
  BY <1>0 DEF ExportIsReleasable
<1>1. CASE Next /\ UNCHANGED draftVars
  BY <1>0, <1>1, SetStep DEF DraftsInv, draftVars
<1>2. CASE Save
  BY <1>0, <1>2, ValidatesStep DEF DraftsInv, Save
<1>3. CASE Revalidate
  BY <1>0, <1>3, ValidatesStep DEF DraftsInv, Revalidate
<1>4. CASE Export
  BY <1>4, ValidatesStep, ExportHolds DEF DraftsInv, Export
<1>5. CASE ScoreBatch \/ Execute \/ StatementFails \/ UNCHANGED <<vars, draftVars>>
  BY <1>0, <1>5, UnchangedSet DEF DraftsInv, ScoreBatch, Execute, StatementFails, draftVars
<1> QED
  BY <1>1, <1>2, <1>3, <1>4, <1>5 DEF NextDrafts

THEOREM RubricInvariant == SpecDrafts => []DraftsInv
<1>1. InitDrafts => DraftsInv
  BY InitSet DEF InitDrafts, DraftsInv, ExportIsReleasable
<1> QED
  BY <1>1, DraftsStep, PTL DEF SpecDrafts

(* Every variable of the set keeps its type.                               *)
THEOREM RubricTypeCorrect == SpecDrafts => []TypeOK
<1>1. DraftsInv => TypeOK
  BY DEF DraftsInv, SetInv, Typed, Loaded, TypeOK, Directories, Answers
<1> QED
  BY <1>1, RubricInvariant, PTL

(* rubric-release.ts: what the agent judges and routes by is what its      *)
(* directory holds.                                                        *)
THEOREM ServesTheDirectoryAlways == SpecDrafts => []ServesTheDirectory
<1>1. DraftsInv => ServesTheDirectory
  BY DEF DraftsInv, SetInv
<1> QED
  BY <1>1, RubricInvariant, PTL

(* restoreRubricDir: a refused update puts back the directory it found.    *)
THEOREM RefusalRestoresAlways == SpecDrafts => []RefusalRestores
<1>1. DraftsInv => RefusalRestores
  BY DEF DraftsInv, SetInv
<1> QED
  BY <1>1, RubricInvariant, PTL

(* POST /rubrics/update: an accepted release is the one in force, and the  *)
(* alias index of it can be built.                                         *)
THEOREM AcceptedIsUnambiguousAlways == SpecDrafts => []AcceptedIsUnambiguous
<1>1. DraftsInv => AcceptedIsUnambiguous
  BY DEF DraftsInv, SetInv
<1> QED
  BY <1>1, RubricInvariant, PTL

(* The export of a draft: a release with the draft in the place of its     *)
(* type would be taken.                                                    *)
THEOREM ExportIsReleasableAlways == SpecDrafts => []ExportIsReleasable
<1>1. DraftsInv => ExportIsReleasable
  BY DEF DraftsInv
<1> QED
  BY <1>1, RubricInvariant, PTL
=============================================================================
