CONSTANTS
    r1 = r1
    r2 = r2
    Runs = {r1, r2}
    CorrelationOf <- SameCorrelation
    AuthorOf <- Author
    Approvers = {"alice", "bob"}
    NoUser = "nobody"
    Recipe <- TopologyRecipe
    RequiredSources = {}
    RequiredInputs = {"x"}
    Releases <- OneRelease
    Withdrawn = "withdrawn"
SYMMETRY RerunSymmetry
SPECIFICATION Spec
INVARIANTS GatesHold SendsAreDelivered
CHECK_DEADLOCK FALSE
