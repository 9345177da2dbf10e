---------------------------- MODULE BoundedStack ----------------------------
(***************************************************************************)
(* What the producers and consumers of extracredit_semaphore.c promise:    *)
(* each producer adds the values 1 .. N in order to a stack of at most N   *)
(* values, each consumer takes N values from its top, and nobody finds the *)
(* stack full or empty.                                                    *)
(***************************************************************************)
EXTENDS Integers, Sequences

CONSTANTS Producer, Consumer, N

VARIABLES
    stack,  \* the values in the buffer, the last one added last
    moved,  \* how many values each thread has added or taken
    value   \* the value each consumer took last

vars == <<stack, moved, value>>

Init ==
    /\ stack = <<>>
    /\ moved = [t \in Producer \cup Consumer |-> 0]
    /\ value = [c \in Consumer |-> 0]

Put(p) ==
    /\ moved[p] < N
    /\ Len(stack) < N
    /\ stack' = Append(stack, moved[p] + 1)
    /\ moved' = [moved EXCEPT ![p] = @ + 1]
    /\ UNCHANGED value

Take(c) ==
    /\ moved[c] < N
    /\ stack # <<>>
    /\ value' = [value EXCEPT ![c] = stack[Len(stack)]]
    /\ stack' = SubSeq(stack, 1, Len(stack) - 1)
    /\ moved' = [moved EXCEPT ![c] = @ + 1]

Next ==
    \/ \E p \in Producer : Put(p)
    \/ \E c \in Consumer : Take(c)

Spec == Init /\ [][Next]_vars
=============================================================================
