\* Pages of 2 bytes, up to 4 pages; one mutex around sbrk() and thread_create().
\* Two processes in three directories, with one crash.
CONSTANTS
    Main = Main
    t1 = t1
    t2 = t2
    None = None
    Thread <- Threads
    PGSIZE = 2
    KERNBASE = 8
    Base = 1
    Increment <- Increments
    Serialized = TRUE
    na = na
    nb = nb
    Process = {p1, p2}
    FirstProc = p1
    Name = {na, nb}
    Path <- Paths
    NINUM = 3
    NFILE = 2
    NOFILE = 2
    Nobody = Nobody
    MaxSyscalls = 4
    MaxCrashes = 1
SPECIFICATION MCSpec
INVARIANTS
    RefCount
    InodeLive
    LinkCount
    GrowInv
    HeapRight
    ParsesWhatWasMeant
    DescriptorsRight
    MatchRight
    PiecesRight
PROPERTY
    CommandEnds
