--------------------------- MODULE MCAgentPlatform ---------------------------
(* One manifest, of which the Supervisor may launch two agents.            *)
EXTENDS AgentPlatform, TLC
CONSTANTS g1, g2, c1, c2
MCManifests == << [caps |-> {"research"}, mode |-> "production"] >>
MCManifestOf == [g \in Guids |-> 1]
Alike == Permutations(Guids) \cup Permutations(Calls)
=============================================================================
