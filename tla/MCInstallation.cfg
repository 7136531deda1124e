SPECIFICATION InstallationSpec
CONSTANTS
    Objects <- MCObjects
    Contents <- MCContents
    ConfigFiles <- MCConfigFiles
    MaximumRank = 1
    Rulings = {"trusted", "blocked"}
    Callers = {operator, engine}
    Proposals = {"p"}
    MaxOperations = 3
    MaxMishaps = 1
    m1 = m1
    None = None
    Machines <- MCMachines
    Accelerator <- MCAccelerator
    Manual <- MCManual
    Models = {m1}
    Faults <- MCFaults
INVARIANTS
    OperatorRulingStands
    ServedNotBlocked
    OnlyReviewedLands
    IndexAgrees
    ProfileIsCanonical
    ReadyStarts
    ProvisionReachesDevice
\* Callers may have begun all the operations they may begin.
CHECK_DEADLOCK FALSE
