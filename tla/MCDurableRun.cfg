SPECIFICATION FairSpec
CONSTANTS
    build = build
    check = check
    publish = publish
    NoNode = NoNode
    Nodes <- MCNodes
    Start <- build
    Kind <- MCKind
    NextNode <- MCNext
    OnFail <- MCOnFail
    MaxRetries <- MCRetries
    RetryOn <- MCRetryOn
    FailureClasses <- MCFailures
    MaxRepairs = 1
    Engines = {e1}
    RetainWorktree = FALSE
    Operators = {}
    MaxAttempts = 4
    MaxCrashes = 2
INVARIANTS
    TypeOK
    SucceededRunIsComplete
    ProceedsOnlyPastSettled
    ExhaustedRepairsFailRun
    TerminalRunIsQuiet
    WorktreeOutlivesRun
PROPERTIES
    SucceededIsFinal
    EveryWalkEnds
    ImplementsLifecycle
\* A terminal run with no engine on it has nothing left to do.
CHECK_DEADLOCK FALSE
