----------------------------- MODULE MCGrowproc -----------------------------
(* Growproc for TLC.                                                       *)
EXTENDS Growproc, TLC

CONSTANTS t1, t2

Threads == {t1, t2}
Increments == {-2, 0, 1, 3}
Symmetry == Permutations(Threads)
=============================================================================
