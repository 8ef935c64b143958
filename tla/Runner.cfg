\* Two attempts; a build may write more than the pipe holds and more than is retained.
SPECIFICATION FairSpec
CONSTANTS
    r1 = r1
    i1 = i1
    i2 = i2
    small = small
    large = large
    Unknown = Unknown
    References = {r1}
    ImageIds = {i1, i2}
    CacheFiles = {small, large}
    SizeOf <- Sizes
    MaxFiles = 2
    MaxBytes = 2
    MaxAttempts = 2
    Timeout = 1
    LogLimit = 1
    PipeCapacity = 2
    MaxOutput <- Outputs
INVARIANTS
    RunnerInv
    VerdictMatchesKill
    SameImageSameProvenance
    CacheMutationIsReal
PROPERTIES
    ImplementsAttempts
    WriterGetsRoom
    EveryAttemptAnswered
CHECK_DEADLOCK FALSE
