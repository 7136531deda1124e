SPECIFICATION FairSpec
CONSTANTS
    Workflows <- MCWorkflows
    Tops = {"mapmap"}
    FileAtStart = {"absent", "more"}
    MaxCrashes = 0
    MaxScans = 0
PROPERTY
    EveryWalkEnds
CHECK_DEADLOCK FALSE
