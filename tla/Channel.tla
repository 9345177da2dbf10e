------------------------------ MODULE Channel -------------------------------
(***************************************************************************)
(* What a pipe promises: a queue of at most PIPESIZE bytes, in the order   *)
(* they were written, from the processes that have its write end open to   *)
(* those that have its read end open.                                      *)
(***************************************************************************)
EXTENDS Integers, Sequences

CONSTANTS Writer, Reader, PIPESIZE, Byte, MaxN, None

VARIABLES
    queue,   \* the bytes in the pipe
    rest,    \* what is left of the write of each writer
    got,     \* who was given which bytes in the last step, or None
    open,    \* the processes that have their end open
    killed   \* the processes that were killed

vars == <<queue, rest, got, open, killed>>

Init ==
    /\ queue = <<>>
    /\ rest = [w \in Writer |-> <<>>]
    /\ got = None
    /\ open = Writer \cup Reader
    /\ killed = {}

Write(w) ==
    /\ w \in open /\ rest[w] = <<>>
    /\ \E n \in 1 .. MaxN : \E addr \in [1 .. n -> Byte] : rest' = [rest EXCEPT ![w] = addr]
    /\ got' = None
    /\ UNCHANGED <<queue, open, killed>>

\* Some more bytes of a write fit, perhaps none.  The others are given up
\* only when nobody can read them or the writer was killed.
Send(w) ==
    /\ \E k \in 0 .. Len(rest[w]) :
        /\ Len(queue) + k <= PIPESIZE
        /\ queue' = queue \o SubSeq(rest[w], 1, k)
        /\ \/ rest' = [rest EXCEPT ![w] = SubSeq(@, k + 1, Len(@))]
           \/ (open \cap Reader = {} \/ w \in killed) /\ rest' = [rest EXCEPT ![w] = <<>>]
    /\ got' = None
    /\ UNCHANGED <<open, killed>>

\* A read returns what there is, or no bytes at the end of the file.
Receive(r) ==
    /\ \E k \in 0 .. Len(queue) :
        /\ k = 0 => queue = <<>> /\ open \cap Writer = {}
        /\ got' = [reader |-> r, bytes |-> SubSeq(queue, 1, k)]
        /\ queue' = SubSeq(queue, k + 1, Len(queue))
    /\ UNCHANGED <<rest, open, killed>>

Quiet == got # None /\ got' = None /\ UNCHANGED <<queue, rest, open, killed>>

Close(p) ==
    /\ p \in open
    /\ open' = open \ {p}
    /\ got' = None
    /\ UNCHANGED <<queue, rest, killed>>

Kill(p) ==
    /\ p \notin killed
    /\ killed' = killed \cup {p}
    /\ got' = None
    /\ UNCHANGED <<queue, rest, open>>

New == open = {} /\ Init'

Next ==
    \/ \E w \in Writer : Write(w) \/ Send(w)
    \/ \E r \in Reader : Receive(r)
    \/ \E p \in Writer \cup Reader : Close(p) \/ Kill(p)
    \/ Quiet \/ New

Spec == Init /\ [][Next]_vars
=============================================================================
