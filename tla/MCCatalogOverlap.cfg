SPECIFICATION Spec
CONSTANTS
    Objects <- MCObjects
    Contents <- MCEdits
    ConfigFiles <- MCConfigFiles
    MaximumRank = 1
    Rulings = {"trusted", "blocked"}
    Callers = {operator, engine}
    Proposals = {"p"}
    MaxOperations = 3
    MaxMishaps = 0
SYMMETRY CallerSymmetry
INVARIANTS
    DiffReviewedIsDiffThatRuns
CHECK_DEADLOCK FALSE
