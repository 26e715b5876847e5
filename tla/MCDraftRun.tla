----------------------------- MODULE MCDraftRun -----------------------------
(***************************************************************************)
(* Instances of DraftRun for TLC.  Run r2 is a rerun of r1: another run id *)
(* under the same correlation id.                                          *)
(***************************************************************************)
EXTENDS DraftRun, TLC

CONSTANTS r1, r2

Step(id, kind, section, requests, inputs) ==
    [id |-> id, kind |-> kind, section |-> section, requests |-> requests,
     inputs |-> inputs]

(* rubrics/capa.json, but for its validation step, which only reads the bag. *)
ShortRecipe ==
    << Step("sop", "retrieve_sections", "", {}, {}),
       Step("gen", "generate_section", "s", {}, {"sop"}),
       Step("score", "judge", "", {}, {"gen"}),
       Step("human", "require_human", "", {}, {"score"}) >>

(* The steps of the agent topology, as the gather, export and act smoke    *)
(* tests put them together.                                                *)
TopologyRecipe ==
    << Step("g", "gather", "", {"x", "y"}, {}),
       Step("ready", "check_readiness", "", {}, {"g"}),
       Step("gen", "generate_section", "s", {}, {"ready"}),
       Step("val", "validate_section", "s", {}, {"gen"}),
       Step("doc", "export", "", {}, {"gen"}),
       Step("send", "act", "", {}, {"doc"}) >>

SameCorrelation == [r \in Runs |-> "k"]
Author == [r \in Runs |-> "alice"]

(* A rerun differs from the run it repeats in nothing but its run id.      *)
RerunSymmetry == Permutations(Runs)

ReleaseThenWithdrawal == <<"v1", "withdrawn">>
OneRelease == <<"v1">>
=============================================================================
