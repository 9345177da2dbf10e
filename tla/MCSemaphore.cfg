\* Two producers, two consumers, a buffer of two values: both semaphores reach 0
\* with two threads waiting.  Weak fairness only, no symmetry.
CONSTANTS
    p1 = p1
    p2 = p2
    c1 = c1
    c2 = c2
    None = None
    Producer <- Producers
    Consumer <- Consumers
    Thread <- Threads
    Mutex <- Mutexes
    Cond <- Sem
    N = 2
SPECIFICATION FairSpec
INVARIANT
    SemInv
PROPERTIES
    ImplementsStack
    Termination
