---------------------------- MODULE MCSemaphore -----------------------------
(* Semaphore for TLC: two producers and two consumers.                     *)
EXTENDS Semaphore, TLC

CONSTANTS p1, p2, c1, c2

Producers == {p1, p2}
Consumers == {c1, c2}
Threads == Producers \cup Consumers
Mutexes == Sem \cup {"mLock"}
Symmetry == Permutations(Producers) \cup Permutations(Consumers)
=============================================================================
