SPECIFICATION Spec
CONSTANTS
    NPROC = 3
    NCPU = 1
    PageDir = {d1, d2, d3}
    MaxPid = 4
    KillPids = {}
SYMMETRY Symmetry
INVARIANTS
    WaitSeesChildren
