\* Two operations of up to 2 blocks, of 4 that begin_op() reserves, on a log of 8.
SPECIFICATION FairSpec
CONSTANTS
    Proc = {p1, p2}
    Block = {b1, b2}
    Val = {v1, v2}
    None = None
    LOGSIZE = 8
    MAXOPBLOCKS = 4
    nlog = 8
    OpBlocks = 2
INVARIANTS
    NoPanic
    LogInv
PROPERTIES
    ImplementsAtomicDisk
    SleeperWakes
    RecoveryEnds
