SPECIFICATION Spec
CONSTANTS
    u = u
    v = v
    passed = passed
    failed = failed
    Callers <- CallersMC
    Branches = {"main", "side"}
    Trunk = "main"
    Evidence <- EvidenceMC
    Passing <- PassingMC
    Interference = FALSE
    Switching = TRUE
    MaxProposals = 1
    MaxApprovals = 1
    MaxCommits = 3
SYMMETRY Interchangeable
INVARIANTS
    OnlyConsentedMerges
CHECK_DEADLOCK FALSE
