\* A pipe of 2 bytes and counters of 2 bits: a writer and the reader may be
\* killed at any time.
CONSTANTS
    w1 = w1
    w2 = w2
    r1 = r1
    None = None
    Writer <- TwoWriters
    Reader <- OneReader
    Killable <- WriterAndReader
    PIPESIZE = 2
    UINT = 4
    Byte = {0, 1}
    Alphabet <- Bytes
    MaxN = 3
SPECIFICATION FairSpec
INVARIANTS
    WriterSleepsOnFull
    ReaderWakes
PROPERTIES
    ImplementsChannel
    CallEnds
