\* A pipe of 2 bytes and counters of 2 bits: one of two writers may be killed.
CONSTANTS
    w1 = w1
    w2 = w2
    r1 = r1
    None = None
    Writer <- TwoWriters
    Reader <- OneReader
    Killable = {w1}
    PIPESIZE = 2
    UINT = 4
    Byte = {0, 1}
    Alphabet <- Bytes
    MaxN = 3
SPECIFICATION Spec
INVARIANT
    ReaderSleepsOnEmpty
