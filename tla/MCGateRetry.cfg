SPECIFICATION Spec
CONSTANTS
    build = build
    check = check
    publish = publish
    NoNode = NoNode
    Nodes <- MCNodes
    Start <- build
    Kind <- MCKind
    NextNode <- MCNext
    OnFail <- MCOnFail
    MaxRetries <- MCGateRetries
    RetryOn = {"INTERNAL"}
    FailureClasses <- MCFailures
    MaxRepairs = 1
    Engines = {e1}
    RetainWorktree = FALSE
    Operators = {}
    MaxAttempts = 4
    MaxCrashes = 1
INVARIANT ExhaustedRepairsFailRun
CHECK_DEADLOCK FALSE
