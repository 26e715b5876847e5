CONSTANTS
    r1 = r1
    r2 = r2
    Runs = {r1, r2}
    CorrelationOf <- SameCorrelation
    AuthorOf <- Author
    Approvers = {"nobody"}
    NoUser = "nobody"
    Recipe <- ShortRecipe
    RequiredSources = {"sop"}
    RequiredInputs = {}
    Releases <- ReleaseThenWithdrawal
    Withdrawn = "withdrawn"
SPECIFICATION Spec
SYMMETRY RerunSymmetry
INVARIANTS TypeOK EventsTellTheRun VerdictEarned
CHECK_DEADLOCK FALSE
