\* init and two more slots, each of them used by process after process;
\* two processes, three blocks and two buffers, one of which the log may pin.
SPECIFICATION MCSpec
CONSTANTS
    NPROC = 3
    NCPU = 2
    PageDir = {d1, d2, d3}
    MaxPid = 4
    KillPids = {3}
    Proc = {p1, p2}
    Block = {1, 2, 3}
    Data = {v1, v2}
    None = None
    NBUF = 2
    MaxPinned = 1
    MaxWrites = 1
INVARIANTS
    ProcInv
    AddressSpaceLive
    AddressSpacesSeparate
    BufferInv
    ReadsLatest
PROPERTIES
    KilledExits
    OrphanCollected
    RequestServed
