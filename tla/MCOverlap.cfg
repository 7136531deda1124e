SPECIFICATION Spec
CONSTANTS
    build = build
    sign = sign
    NoNode = NoNode
    Nodes <- MCNodes
    Start <- build
    Kind <- MCKind
    NextNode <- MCNext
    OnFail <- MCOnFail
    MaxRetries <- MCRetries
    RetryOn = {}
    FailureClasses <- MCFailures
    MaxRepairs = 0
    Engines = {e1, e2}
    RetainWorktree = FALSE
    Operators = {o1}
    MaxAttempts = 1
    MaxCrashes = 1
INVARIANTS
    SucceededRunWasApproved
    ReferencedRowsExist
\* A run may be over.
CHECK_DEADLOCK FALSE
