SPECIFICATION Spec
CONSTANTS
    Proc = {p1, p2, p3}
    Block = {b1, b2, b3}
    Val = {v1}
    None = None
    LOGSIZE = 3
    MAXOPBLOCKS = 1
    nlog = 3
    OpBlocks = 1
SYMMETRY Symmetry
INVARIANTS NoPanic
