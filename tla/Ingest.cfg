CONSTANTS
    Paths = {"a.xlsx", "b.xlsx"}
    v1 = v1
    v2 = v2
    Contents = {v1, v2}
    SheetsOf <- Workbook
    None = None
    MaxRuns = 2
    MaxEdits = 2
    MaxMishaps = 2
SPECIFICATION Spec
INVARIANTS TypeOK FoundIsCurrent FinishedRunMirrorsSource
PROPERTY OnlyTheGoneArePruned
CHECK_DEADLOCK FALSE
