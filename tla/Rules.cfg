CONSTANTS
  Agents = {"a", "b"}
  Seqs = {0, 1, 2}
  Refs = {"x"}
  MaxArrivals = 3
  None = None
  Null = Null
  Absent = Absent
  Failed = Failed
  Here = "quality"
  MAX_DOMAIN_SIZE = 2
  Cells <- MCCells
  Asked <- MCAsked
  Bases = {"id", "x"}
  Endings = {0, 2}
  Remarks = {"n1", "n2"}
  MaxRows = 3
  MaxNotes = 1
  SLACK = 1
  PROSE_TOP_K = 2
  FUSED_PROSE_K = 2
  TABLE_TOP_K = 1
  RRF_K = 60
  ShortWords <- MCShortWords
  DraftVerbs = {"draft", "issue"}
  SelectVerbs = {"draft"}
  DeliverableNouns = {"report"}
INIT Init
NEXT Next
CHECK_DEADLOCK FALSE
INVARIANTS DocumentsAreDue AnswersAreTheRows SourcesAreFound NamesBind HistoryIsRead
