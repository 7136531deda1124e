SPECIFICATION Spec
CONSTANTS
    build = build
    check = check
    publish = publish
    NoNode = NoNode
    Nodes <- MCNodes
    Start <- build
    Kind <- MCKind
    NextNode <- MCNext
    OnFail <- MCOnFail
    MaxRetries <- MCRetries
    RetryOn <- MCRetryOn
    FailureClasses <- MCFailures
    MaxRepairs = 1
    Engines = {e1}
    RetainWorktree = FALSE
    Operators = {}
    MaxAttempts = 4
    MaxCrashes = 2
PROPERTY FailedIsFinal
CHECK_DEADLOCK FALSE
