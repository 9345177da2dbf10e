\* Two processes and no crash.
SPECIFICATION FsSpec
CONSTANTS
    p1 = p1
    a = a
    b = b
    Process = {p1, p2}
    FirstProc = p1
    Name = {a, b}
    Path <- Paths
    NINUM = 3
    NFILE = 2
    NOFILE = 2
    Nobody = Nobody
    MaxSyscalls = 5
    MaxCrashes = 0
INVARIANT
    NothingLost
