SPECIFICATION Spec
CONSTANTS
    u = u
    v = v
    passed = passed
    failed = failed
    Callers <- CallersMC
    Branches = {"main", "side"}
    Trunk = "main"
    Evidence <- EvidenceMC
    Passing <- PassingMC
    Interference = FALSE
    Switching = FALSE
    MaxProposals = 1
    MaxApprovals = 2
    MaxCommits = 4
SYMMETRY Interchangeable
INVARIANTS
    MergesAreApproved
    VerifiedBeforeAsked
    RecordedMergesHappened
    MergedAtMostOnce
CHECK_DEADLOCK FALSE
