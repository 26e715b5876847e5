CONSTANTS
    Chunks = {"blurb1", "blurb2", "secret"}
    TableOf <- Blurb
    Readable = {"blurb1", "blurb2"}
    EnforceLabels = TRUE
    GateLength = 2
    LostRows = 1
    None = None
SPECIFICATION FairSpec
INVARIANTS TypeOK RecordsAgree NeverAnsweredAround
PROPERTIES FailedIsFinal RequestEnds
CHECK_DEADLOCK FALSE
