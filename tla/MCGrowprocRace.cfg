\* Two threads call sbrk() without a mutex, as extracredit_sbrk.c does.
CONSTANTS
    Main = Main
    t1 = t1
    t2 = t2
    None = None
    Thread <- Threads
    PGSIZE = 2
    KERNBASE = 8
    Base = 1
    Increment <- Increments
    Serialized = FALSE
SPECIFICATION Spec
SYMMETRY Symmetry
INVARIANT
    GrantsDisjoint
\* panic() stops the machine.
CHECK_DEADLOCK FALSE
