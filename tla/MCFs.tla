-------------------------------- MODULE MCFs --------------------------------
(* Fs for TLC: the directories /, /a and /a/b.                             *)
EXTENDS Fs

CONSTANTS p1, a, b

Paths == {<<>>, <<a>>, <<a, b>>}
=============================================================================
