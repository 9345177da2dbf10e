------------------------------- MODULE MCUser -------------------------------
(* What user programs are built from, in one run: sbrk(), the system calls *)
(* on files and directories, malloc(), the shells, grep and wc.  A         *)
(* behaviour is one of a single part.                                      *)
EXTENDS Growproc, Fs

CONSTANTS t1, t2, na, nb

Threads == {t1, t2}
\* The directories /, /na and /na/nb.
Paths == {<<>>, <<na>>, <<na, nb>>}
Increments == {-2, 0, 1, 3}

VARIABLES
    part,
    heap,
    hw1, tree, line, prompt, parsed, procs,
    prog, re, input, at, buf, out, count, cuts

\* Blocks of 2, 3 and 5 units in a heap of 11.
Heap == INSTANCE Malloc WITH NALLOC <- 4, HeapEnd <- 13, Requests <- {2, 3, 5}, HeapStart <- 2

\* Lines that nest two operators.
Sh == INSTANCE Shell WITH MAXARGS <- 3, Depth <- 2

\* Patterns and texts of up to 3 characters, inputs of up to 5 in a buffer of 4.
Grep == INSTANCE Text WITH BUF <- 4, MaxPattern <- 3, MaxText <- 3, MaxInput <- 5

shVars == <<hw1, tree, line, prompt, parsed, procs>>
grepVars == <<prog, re, input, at, buf, out, count, cuts>>
userVars == <<part, vars, fsVars, heap, shVars, grepVars>>

MCInit ==
    /\ part \in {"sbrk", "files", "malloc", "shell", "text"}
    /\ Init /\ FsInit /\ Heap!Init
    /\ IF part = "shell" THEN Sh!Init
       ELSE /\ hw1 = FALSE /\ tree = Sh!execcmd(0) /\ line = <<>>
            /\ prompt = "read" /\ parsed = Sh!Error /\ procs = <<>>
    /\ IF part = "text" THEN Grep!Init
       ELSE /\ prog = "match" /\ re = <<>> /\ input = <<>> /\ at = 0 /\ buf = <<>> /\ out = <<>>
            /\ count = 0 /\ cuts = {0}

MCNext ==
    \/ part = "sbrk" /\ Next /\ UNCHANGED <<part, fsVars, heap, shVars, grepVars>>
    \/ part = "files" /\ FsNext /\ UNCHANGED <<part, vars, heap, shVars, grepVars>>
    \/ part = "malloc" /\ Heap!Next /\ UNCHANGED <<part, vars, fsVars, shVars, grepVars>>
    \/ part = "shell" /\ Sh!Next /\ UNCHANGED <<part, vars, fsVars, heap, grepVars>>
    \/ part = "text" /\ Grep!Next /\ UNCHANGED <<part, vars, fsVars, heap, shVars>>

MCSpec == MCInit /\ [][MCNext]_userVars /\ WF_shVars(Sh!Run)

-----------------------------------------------------------------------------
(* Malloc: the blocks tile the heap, and free neighbours are joined.       *)
HeapRight == part = "malloc" => Heap!HeapRight

(* Shell: the parser returns the command that was written.                 *)
ParsesWhatWasMeant == part = "shell" => Sh!ParsesWhatWasMeant

(* Shell: programs get the input and output of their place in the command. *)
DescriptorsRight == part = "shell" => Sh!DescriptorsRight

(* Shell: every command ends and the shell prompts again.                  *)
CommandEnds == Sh!CommandEnds

(* Text: the matcher of grep does what its patterns mean.                  *)
MatchRight == part = "text" => Grep!MatchRight

(* Text: what grep writes and wc counts, whatever pieces read() returns.   *)
PiecesRight == part = "text" => Grep!PiecesRight
=============================================================================
