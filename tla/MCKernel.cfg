\* 14 pages for up to three processes of up to 3 pages and one pipe.  The bounds of the other parts are in MCKernel.tla.
SPECIFICATION MCSpec
CONSTANTS
    Proc = {p1, p2, p3}
    InitProc = p1
    Other = {pipe}
    NPAGE = 14
    NKPT = 1
    NPTENTRIES = 2
    MaxSz = 3
    MaxCalls = 4
    None = None
INVARIANTS
    ReadBack
    BlocksOwned
    RingRight
    CursorOnScreen
    LocksExclude
    InterruptsRight
    NoCpuPanic
    PagesAccounted
    
PROPERTY
    EofIsZeroBytes
