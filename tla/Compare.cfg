\* A delta of up to three entries, three outcomes per build.
SPECIFICATION FairSpec
CONSTANTS
    a = a
    b = b
    f = f
    MaxDelta = 3
    Artifacts = {a, b}
    Failures = {f}
    Worlds <- AllWorlds
    Drifted = b
    EndpointRuns = 2
    SubsetRuns = 2
INVARIANTS
    CompareInv
    DeterministicIsExact
    DriftIsNotMinimized
    AttemptBudget
PROPERTY Termination
CHECK_DEADLOCK FALSE
