SPECIFICATION PartsSpec
CONSTANTS
    Names = {"silero", "bundled"}
    Bundled = {"bundled"}
    ClassManifests <- MCClasses
    Pieces = {"config", "encoder", "decoder"}
    Kinds = {"agent", "machine"}
    Worlds <- MCWorlds
    Permitted = {"here", "there"}
    FailureClasses = {"TIMEOUT", "TOOL_ERROR"}
    RetryOn = {"TIMEOUT"}
    MaxRetries = 1
    MaxCrashes = 2
    MaxEdits = 1
    MaxActs = 5
    Callers = {c1, c2}
    MaxPids = 2
    MaxPolls = 2
INVARIANTS
    DownloadsAreMoved
    AcquiredModelStays
    ActedOnlyAuthorized
    MachineUsesApprovalOnce
    SucceededRunActed
    WorktreeAgrees
    OnlyOwnSignalled
    EveryServerAccountedFor
PROPERTIES
    EveryCallReturns
\* A governed run may be over, and its operator may have decided everything.
CHECK_DEADLOCK FALSE
