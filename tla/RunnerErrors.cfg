\* One attempt of the instance in Runner.cfg.
SPECIFICATION Spec
CONSTANTS
    r1 = r1
    i1 = i1
    i2 = i2
    small = small
    large = large
    Unknown = Unknown
    References = {r1}
    ImageIds = {i1, i2}
    CacheFiles = {small, large}
    SizeOf <- Sizes
    MaxFiles = 2
    MaxBytes = 2
    MaxAttempts = 1
    Timeout = 1
    LogLimit = 1
    PipeCapacity = 2
    MaxOutput <- Outputs
INVARIANT RunnerFailuresRemainErr
CHECK_DEADLOCK FALSE
