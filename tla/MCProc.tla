------------------------------- MODULE MCProc -------------------------------
(* Model-checking instances of Proc.                                       *)
EXTENDS Proc, TLC

\* Page directories are interchangeable.
Symmetry == Permutations(PageDir)
=============================================================================
