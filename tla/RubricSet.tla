------------------------------ MODULE RubricSet ------------------------------
(***************************************************************************)
(* The committed rubrics of one agent: the directory on disk, the cache    *)
(* and the alias index built from it, and POST /rubrics/update, which      *)
(* replaces the directory by that of a release (drafting/rubric-release.ts,*)
(* rubric-loader.ts, agent/intent.ts, api/routes/rubrics.ts).              *)
(*                                                                         *)
(* The directory is "rubrics", which an update writes; that it is also the *)
(* one the loader reads (QMS_RUBRICS_DIR not set) is assumed.              *)
(*                                                                         *)
(* The update is one synchronous piece for the agent itself, so nothing    *)
(* else of the agent runs meanwhile.  But the process may die between two  *)
(* writes, and another agent started in the same working directory (a      *)
(* debug one beside the production one) writes to the same files.          *)
(***************************************************************************)
EXTENDS RubricRules

CONSTANTS Releases,     \* sequence of directories, the contents the release ref may have
          Checkouts,    \* directories the agent may start with
          MaxUpdates, MaxOutside     \* bounds

Files == UNION {DOMAIN d : d \in Checkouts}
Bodies == UNION {{d[f] : f \in Files} : d \in {Releases[n] : n \in DOMAIN Releases} \cup Checkouts}

ASSUME RubricSetAssumption ==
    /\ Files \subseteq Nat
    /\ Checkouts \subseteq [Files -> Bodies] /\ Releases \in Seq([Files -> Bodies])
    /\ \A set \in SUBSET Bodies : set # None   \* a loaded set, also an empty one, is not None
    /\ MaxUpdates \in Nat /\ MaxOutside \in Nat

VARIABLES ref,             \* release the ref names here, 0 if none
          dir, cache, index,
          at,              \* where the update is
          todo, backup,    \* files to write; the directory it found
          answer,          \* how the last update ended: [status, commit]
          drifted,         \* history: since the cache was loaded another agent wrote, or
                           \* an update could not put back what it had written
          overlapped,      \* history: another agent wrote since the update began
          updates, outside     \* counts, for the bounds

update == <<at, todo, backup, updates>>
vars == <<ref, dir, cache, index, update, answer, drifted, overlapped, outside>>

NoAnswer == [status |-> "none", commit |-> 0]

Init ==
    /\ ref \in 0..Len(Releases)
    /\ dir \in Checkouts /\ cache = None /\ index = None
    /\ at = "idle" /\ todo = {} /\ backup = dir /\ updates = 0
    /\ answer = NoAnswer /\ drifted = FALSE /\ overlapped = FALSE /\ outside = 0

-----------------------------------------------------------------------------
(* The world: another agent of the directory updates.                      *)
OtherAgent == \E n \in DOMAIN Releases :
    /\ outside < MaxOutside /\ outside' = outside + 1
    /\ dir' = Releases[n]
    /\ drifted' = TRUE /\ overlapped' = TRUE
    /\ UNCHANGED <<ref, cache, index, update, answer>>

(* The process dies and is started again.                                  *)
Restart ==
    /\ at' = "idle" /\ todo' = {} /\ cache' = None /\ index' = None
    /\ answer' = NoAnswer
    /\ cache # None
    /\ UNCHANGED <<ref, dir, backup, updates, drifted, overlapped, outside>>

(* getRubric, listRubricTypes, rubricSetHash: the first one to ask loads.  *)
Cached == IF cache = None THEN Load(dir) ELSE cache
Loads == cache' = Cached /\ drifted' = (drifted /\ cache # None)
Use ==
    /\ at = "idle" /\ cache = None /\ Loads
    /\ UNCHANGED <<ref, dir, index, update, answer, overlapped, outside>>

(* The classifier; it throws on every question if two types share a name.  *)
BuildAliasIndex ==
    /\ at = "idle" /\ index = None /\ IndexBuilds(Cached)
    /\ Loads /\ index' = Cached
    /\ UNCHANGED <<ref, dir, update, answer, overlapped, outside>>

-----------------------------------------------------------------------------
(* POST /rubrics/update.                                                   *)
ReloadKeepIndex == cache' = None /\ UNCHANGED index     \* mutant: resetAliasIndex forgotten
Reload == cache' = None /\ index' = None

Answer(status, commit) == answer' = [status |-> status, commit |-> commit]

(* Fetch, best effort, of a ref that may have moved; resolve it, take the  *)
(* snapshots.                                                              *)
Begin ==
    /\ at = "idle" /\ updates < MaxUpdates /\ updates' = updates + 1
    /\ ref' \in {ref} \cup DOMAIN Releases
    /\ IF ref' = 0
       THEN /\ Answer("refused", 0) /\ backup' = dir /\ overlapped' = FALSE
            /\ UNCHANGED <<at, todo, cache, drifted>>
       ELSE /\ at' = "write" /\ todo' = {f \in Files : Releases[ref'][f] # None}
            /\ backup' = dir /\ Loads /\ overlapped' = FALSE /\ UNCHANGED answer
    /\ UNCHANGED <<dir, index, outside>>

InUpdate == UNCHANGED <<ref, backup, updates, overlapped, outside>>

(* applyRubricsFromRef: each file of the release, then those it dropped.   *)
WriteFile ==
    /\ at = "write" /\ todo # {}
    /\ LET f == CHOOSE g \in todo : \A h \in todo : g <= h
       IN dir' = [dir EXCEPT ![f] = Releases[ref][f]] /\ todo' = todo \ {f}
    /\ InUpdate /\ UNCHANGED <<at, cache, index, answer, drifted>>

Listed == {f \in Files : dir[f] # None /\ Releases[ref][f] = None}
ListWithdrawn ==
    /\ at = "write" /\ todo = {} /\ at' = "prune" /\ todo' = Listed
    /\ InUpdate /\ UNCHANGED <<dir, cache, index, answer, drifted>>
Prune ==
    /\ at = "prune" /\ todo # {}
    /\ \E f \in todo : dir' = [dir EXCEPT ![f] = None] /\ todo' = todo \ {f}
    /\ InUpdate /\ UNCHANGED <<at, cache, index, answer, drifted>>

(* restoreRubricDir: the files the attempt introduced are removed, those   *)
(* of the backup written again.                                            *)
BackedUp == {f \in Files : backup[f] # None}     \* mutant: introduced files stay
Misplaced == {f \in Files : dir[f] # None \/ backup[f] # None}
GiveUp(place) == at' = place /\ todo' = Misplaced

(* git show, a write or a removal throws.                                  *)
ApplyFails ==
    /\ at \in {"write", "prune"} /\ GiveUp("restore")
    /\ InUpdate /\ UNCHANGED <<dir, cache, index, answer, drifted>>

(* Every rubric that loads is validated, next to the others that load.     *)
ValidSetChanged(set) == \A r \in set \ Load(backup) : Valid(r, Load(backup))     \* mutant
ValidSet(set) == \A r \in set : Valid(r, set)
Check ==
    /\ at = "prune" /\ todo = {}
    /\ index' = None /\ cache' = Load(dir) /\ drifted' = FALSE
    /\ \/ ValidSet(cache') /\ at' = "idle" /\ todo' = {} /\ Answer("ok", ref)
       \/ ~ValidSet(cache') /\ GiveUp("revert") /\ UNCHANGED answer
    /\ InUpdate /\ UNCHANGED dir

Restoring == at \in {"revert", "restore"}
Restore ==
    /\ Restoring /\ todo # {}
    /\ \E f \in todo : dir' = [dir EXCEPT ![f] = backup[f]] /\ todo' = todo \ {f}
    /\ InUpdate /\ UNCHANGED <<at, cache, index, answer, drifted>>

(* A restore that throws: of a release refused by the check it is tried    *)
(* again, in the catch around it; else the update ends without a reload.   *)
RestoreFails ==
    /\ \/ /\ at = "revert" /\ GiveUp("restore") /\ UNCHANGED <<answer, drifted>>
       \/ /\ at = "restore" /\ at' = "idle" /\ todo' = {}
          /\ Answer("failed", ref) /\ drifted' = TRUE
    /\ InUpdate /\ UNCHANGED <<dir, cache, index>>

Refuse ==
    /\ Restoring /\ todo = {}
    /\ at' = "idle" /\ Reload /\ drifted' = FALSE /\ Answer("refused", ref)
    /\ InUpdate /\ UNCHANGED <<dir, todo>>

Next ==
    \/ OtherAgent \/ Restart \/ Use \/ BuildAliasIndex
    \/ Begin \/ WriteFile \/ ListWithdrawn \/ Prune \/ ApplyFails \/ Check
    \/ Restore \/ RestoreFails \/ Refuse

Spec == Init /\ [][Next]_vars

-----------------------------------------------------------------------------
TypeOK ==
    /\ dir \in [Files -> Bodies] /\ backup \in [Files -> Bodies]
    /\ cache = None \/ cache \subseteq Bodies \ {None}
    /\ index = None \/ (cache # None /\ IndexBuilds(index))
    /\ at \in {"idle", "write", "prune", "revert", "restore"} /\ todo \subseteq Files
    /\ answer.status \in {"none", "ok", "refused", "failed"}

(* What the agent judges by is what its directory holds, unless another    *)
(* agent has written there since it was loaded or a restore has failed;    *)
(* and what it routes by is what it judges by.  A release that is refused  *)
(* must leave neither half.                                                *)
ServesTheDirectory == at = "idle" =>
    /\ cache # None /\ ~drifted => cache = Load(dir)
    /\ index \in {None, cache}

(* A refused update puts back the directory it found, files it had written,*)
(* removed or introduced alike, unless another agent wrote meanwhile.      *)
RefusalRestores ==
    at = "idle" /\ answer.status = "refused" /\ ~overlapped => dir = backup

(* An accepted update left a set in force in which every name leads to one *)
(* type, so that the classifier's index can be built, and in which nothing *)
(* but the release was loaded.  Not that all of it was: a file the schema  *)
(* refuses is left out of what is loaded, and so of what is validated.     *)
AcceptedIsUnambiguous ==
    at = "idle" /\ answer.status = "ok" /\ cache # None =>
        /\ IndexBuilds(cache)
        /\ ~overlapped => cache = Load(Releases[answer.commit])
=============================================================================
