CONSTANTS
    Sets = {"s1", "s2"}
    AuthorOf <- Author
    NoUser = "nobody"
    Docs = {"d1", "d2"}
    SetOf <- SetOfDoc
    Fields = {"severity", "rpn"}
    ComputedFields = {"rpn"}
    Original = 9
    Requests = {"q1", "q2", "q3"}
    ReviewerOf <- Reviewer
    DecisionOf <- Decision
    SubmittedOf <- Submitted
    None = "none"
SPECIFICATION Spec
INVARIANTS TypeOK StatusIsExplained EditsAreKept DecisionSummarisesEdits
CHECK_DEADLOCK FALSE
