SPECIFICATION FairSpec
CONSTANTS
    Workflows <- MCWorkflows
    Tops = {"pooled", "queued", "crowded", "looped", "nested", "submap", "handed", "gated"}
    FileAtStart = {"absent", "more"}
    MaxCrashes = 2
    MaxScans = 3
INVARIANTS
    SucceededRunDidItAll
    ItemTreesGoWithTheMap
PROPERTY
    EveryWalkEnds
\* Everything may be over.
CHECK_DEADLOCK FALSE
