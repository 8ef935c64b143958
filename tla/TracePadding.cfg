SPECIFICATION Spec
CONSTANTS
    p1 = p1
    p2 = p2
    p3 = p3
    lockfile = lockfile
    temporary = temporary
    artifact = artifact
    Pids = {p1, p2, p3}
    Root = p1
    NoPid = NoPid
    Fds = {3, 4}
    Files = {lockfile, temporary, artifact}
    Kind <- Kinds
    Spellings <- Names
    TracedScopes = {"public", "loopback"}
    MaxCalls = 4
SYMMETRY Children
INVARIANT DuplicatesAreFollowed
CHECK_DEADLOCK FALSE
