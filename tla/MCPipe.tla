------------------------------- MODULE MCPipe -------------------------------
(* Pipe for TLC: two writers and a reader.  The pipe never looks at the    *)
(* bytes, so one writer that writes two different ones is enough to tell   *)
(* the order of bytes.                                                     *)
EXTENDS Pipe

CONSTANTS w1, w2, r1

TwoWriters == {w1, w2}
OneReader == {r1}
WriterAndReader == {w1, r1}
Bytes == [w \in TwoWriters |-> IF w = w1 THEN {0, 1} ELSE {0}]
=============================================================================
