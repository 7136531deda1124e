SPECIFICATION Spec
CONSTANTS
    Clients = {c1, c2}
    ClientFrames <- MCFrames
    Profile <- MCProfile
    MaxRequests = 2
    MaxCrashes = 1
INVARIANTS
    HeardBeforeRun
    TrailFollows
    NoHostedModelAsked
PROPERTIES
    ExpiredIsSilent
SYMMETRY MCSymmetry
\* A closed session with no request left has nothing to do.
CHECK_DEADLOCK FALSE
