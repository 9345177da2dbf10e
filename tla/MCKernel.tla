------------------------------ MODULE MCKernel ------------------------------
(* Parts of the kernel whose safety is checked in one run: a behaviour is  *)
(* one of a single part, and the other parts do nothing.  The physical     *)
(* pages are Memory's own definitions.                                     *)
EXTENDS Memory, Integers

VARIABLES
    part,
    fs, text, fd, ops,
    buf, rpos, wpos, epos, pos, reader, line, typed, got, input,
    cpu, spin, code, intena, thread

\* Files of up to 5 blocks, 2 to an indirect block.
Files == INSTANCE Blocks WITH
    NINDIRECT <- 3, NBLOCKS <- 40, MAXFILE <- 5, MaxChunk <- 5, Sizes <- {1, 4, 8},
    MkfsSizes <- {0, 1, 5, 13}, MaxOps <- 5

\* Two readers of a ring of 3 characters whose indices wrap at 6.
Terminal == INSTANCE Console WITH
    Reader <- {1, 2}, INPUT_BUF <- 3, UINT <- 6, COLS <- 2, ROWS <- 3, Counts <- {2},
    MaxInput <- 5, r <- rpos, w <- wpos, e <- epos

\* Two CPUs, the second started by the first, and two processes.
Machine == INSTANCE Cpu WITH
    CPU <- {"c0", "c1"}, BootCPU <- "c0", Thread <- {"t1", "t2"}, lock <- spin, state <- thread

fileVars == <<fs, text, fd, ops>>
terminalVars == <<buf, rpos, wpos, epos, pos, reader, line, typed, got, input>>
machineVars == <<cpu, spin, code, intena, thread>>

MCInit ==
    /\ part \in {"files", "terminal", "machine", "pages"}
    /\ Init
    /\ IF part = "files" THEN Files!Init
       ELSE fs = 0 /\ text = 0 /\ fd = 0 /\ ops = 0
    /\ IF part = "terminal" THEN Terminal!Init
       ELSE /\ buf = 0 /\ rpos = 0 /\ wpos = 0 /\ epos = 0 /\ pos = 0 /\ reader = 0
            /\ line = 0 /\ typed = 0 /\ got = 0 /\ input = 0
    /\ IF part = "machine" THEN Machine!Init
       ELSE cpu = 0 /\ spin = 0 /\ code = 0 /\ intena = 0 /\ thread = 0

MCNext ==
    \/ /\ part = "files" /\ Files!Next
       /\ UNCHANGED <<part, terminalVars, machineVars, memVars>>
    \/ /\ part = "terminal" /\ Terminal!Next
       /\ UNCHANGED <<part, fileVars, machineVars, memVars>>
    \/ /\ part = "machine" /\ Machine!Next
       /\ UNCHANGED <<part, fileVars, terminalVars, memVars>>
    \/ /\ part = "pages" /\ Next
       /\ UNCHANGED <<part, fileVars, terminalVars, machineVars>>

MCSpec == MCInit /\ [][MCNext]_<<part, fileVars, terminalVars, machineVars, memVars>>

-----------------------------------------------------------------------------
(* Blocks: a file reads back as what was written to it.                    *)
ReadBack == part = "files" => Files!ReadBack

(* Blocks: a block belongs to one file, and is marked in the bitmap.       *)
BlocksOwned == part = "files" => Files!BlocksOwned

(* Console: readers get the lines that were typed.                         *)
RingRight == part = "terminal" => Terminal!RingRight

(* Console: ^D gives one read() of zero bytes.                             *)
EofIsZeroBytes == Terminal!EofIsZeroBytes

(* Console: the cursor stays on the screen.                                *)
CursorOnScreen == part = "terminal" => Terminal!CursorOnScreen

(* Cpu: a spin lock has one holder.                                        *)
LocksExclude == part = "machine" => Machine!LocksExclude

(* Cpu: interrupts are off exactly where they must be.                     *)
InterruptsRight == part = "machine" => Machine!InterruptsRight

(* Cpu: none of the panics of spinlock.c and sched() happens.              *)
NoCpuPanic == part = "machine" => Machine!NoCpuPanic
=============================================================================
