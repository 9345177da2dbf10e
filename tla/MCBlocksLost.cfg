\* Blocks of 3 words, so that a file of 3 blocks has two indirect blocks.
SPECIFICATION Spec
CONSTANTS
    NINDIRECT = 3
    NBLOCKS = 40
    MAXFILE = 5
    MaxChunk = 5
    Sizes = {1, 4, 8}
    MkfsSizes = {0, 1, 5, 13}
    MaxOps = 5
INVARIANT
    NoBlockLost
