CONSTANTS
  None = None
  Releases <- MCReleases
  Checkouts <- MCCheckouts
  Contents <- MCContents
  MaxUpdates = 1
  MaxOutside = 1
  MaxPending = 1
SPECIFICATION SpecDrafts
CHECK_DEADLOCK FALSE
INVARIANTS ServesTheDirectory RefusalRestores AcceptedIsUnambiguous ExportIsReleasable
