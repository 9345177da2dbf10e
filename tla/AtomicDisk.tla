----------------------------- MODULE AtomicDisk -----------------------------
(***************************************************************************)
(* What the log of log.c promises to the file system.                      *)
(*                                                                         *)
(* Processes bracket their updates with Begin (begin_op) and End (end_op). *)
(* The updates of all the operations that overlap form one group.  A group *)
(* reaches the disk as a whole, at one instant, when no operation of it is *)
(* still running; a crash brings back the disk as the last group left it.  *)
(***************************************************************************)

CONSTANTS Proc,     \* processes that run file system calls
          Block,    \* home blocks of the file system
          Val       \* contents a block can have

VARIABLES durable,  \* what the file system will find after a crash
          current,  \* what file system calls see now
          active,   \* the processes between Begin and End
          phase     \* "open", or "committing" when a group is being saved

vars == <<durable, current, active, phase>>

Init ==
    /\ durable \in [Block -> Val]
    /\ current = durable
    /\ active = {}
    /\ phase = "open"

Begin(p) ==
    /\ phase = "open"
    /\ p \notin active
    /\ active' = active \cup {p}
    /\ UNCHANGED <<durable, current, phase>>

Write(p, b, v) ==
    /\ p \in active
    /\ current' = [current EXCEPT ![b] = v]
    /\ UNCHANGED <<durable, active, phase>>

End(p) ==
    /\ p \in active
    /\ active' = active \ {p}
    /\ phase' = IF active = {p} THEN "committing" ELSE "open"
    /\ UNCHANGED <<durable, current>>

Commit ==
    /\ phase = "committing"
    /\ durable' = current
    /\ UNCHANGED <<current, active, phase>>

\* The last operation of a group returns only once the group is durable.
Return ==
    /\ phase = "committing"
    /\ durable = current
    /\ phase' = "open"
    /\ UNCHANGED <<durable, current, active>>

Crash ==
    /\ current' = durable
    /\ active' = {}
    /\ phase' = "open"
    /\ UNCHANGED durable

Next ==
    \/ \E p \in Proc : Begin(p) \/ End(p)
    \/ \E p \in Proc, b \in Block, v \in Val : Write(p, b, v)
    \/ Commit
    \/ Return
    \/ Crash

Spec == Init /\ [][Next]_vars

=============================================================================
