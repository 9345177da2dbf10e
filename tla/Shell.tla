-------------------------------- MODULE Shell --------------------------------
(***************************************************************************)
(* The two shells: sh.c of xv6 and the Unix shell of cs238p_hw1/sh.c.  A   *)
(* line is a sequence of tokens; the parser turns it into a command tree;  *)
(* runcmd() runs the tree with processes, pipes and file descriptors.      *)
(*                                                                         *)
(* A process is named by the node of the tree at which it was forked.  The *)
(* steps of one process between two system calls that others can see are   *)
(* one step.  A program that was exec'ed reads its input to the end.       *)
(***************************************************************************)
EXTENDS Naturals, Sequences, SequencesExt, FiniteSetsExt, Functions, TLC

CONSTANTS MAXARGS, Depth    \* bound on the trees that lines are made from

VARIABLES
    hw1,        \* which shell
    tree,       \* what the user meant
    line,       \* what the user typed
    prompt,     \* "read", "fork", "wait", "done"
    parsed,     \* result of the parser on the line
    procs       \* node -> process: cmd, its node, descriptors, parent, pc

shellVars == <<hw1, tree, line, prompt, parsed, procs>>

-----------------------------------------------------------------------------
(***************************************************************************)
(* Commands.  nul: the strings of the command end with a NUL.              *)
(***************************************************************************)
execcmd(n) == [type |-> "EXEC", argc |-> n, nul |-> FALSE]
redircmd(c, op) == [type |-> "REDIR", cmd |-> c, op |-> op, nul |-> FALSE]
pipecmd(l, r) == [type |-> "PIPE", left |-> l, right |-> r]
listcmd(l, r) == [type |-> "LIST", left |-> l, right |-> r]
backcmd(c) == [type |-> "BACK", cmd |-> c]

(***************************************************************************)
(* The parsers: a result is a command and the tokens left, or an error.    *)
(***************************************************************************)
Ok(c, ts) == [ok |-> TRUE, cmd |-> c, rest |-> ts]
Error == [ok |-> FALSE, cmd |-> execcmd(0), rest |-> <<>>]

Symbols == {"<", "|", ">", ">>", "&", ";", "(", ")"}
gettoken(ts) == IF ts = <<>> THEN "0" ELSE IF Head(ts) \in Symbols THEN Head(ts) ELSE "a"
peek(ts, toks) == ts # <<>> /\ Head(ts) \in toks

(***************************************************************************)
(* A command and the redirections around it, the innermost first.          *)
(* parseexec() fills in argv as it goes; here when the command ends.       *)
(***************************************************************************)
Wrap(n, ops) == FoldLeft(redircmd, execcmd(n), ops)

RECURSIVE Ops(_)
Ops(c) == IF c.type = "REDIR" THEN Append(Ops(c.cmd), c.op) ELSE <<>>

RECURSIVE parseline(_), parsepipe(_), parseblock(_), parseredirs(_, _), parseargs(_, _, _)

parseredirs(c, ts) ==
    IF ~peek(ts, {"<", ">", ">>"}) THEN Ok(c, ts)
    ELSE IF gettoken(Tail(ts)) # "a" THEN Error
    ELSE parseredirs(redircmd(c, IF Head(ts) = "<" THEN "<" ELSE ">"), Tail(Tail(ts)))

parseargs(argc, ops, ts) ==
    LET x == parseredirs(execcmd(0), ts)
        all == ops \o Ops(x.cmd)
    IN  IF ~x.ok THEN Error
        ELSE IF peek(x.rest, {"|", ")", "&", ";"}) \/ x.rest = <<>> THEN Ok(Wrap(argc, all), x.rest)
        ELSE IF gettoken(x.rest) # "a" \/ argc + 1 >= MAXARGS THEN Error
        ELSE parseargs(argc + 1, all, Tail(x.rest))

parseexec(ts) == IF peek(ts, {"("}) THEN parseblock(ts) ELSE parseargs(0, <<>>, ts)

parseblock(ts) ==
    LET x == parseline(Tail(ts)) IN
    IF x.ok /\ peek(x.rest, {")"}) THEN parseredirs(x.cmd, Tail(x.rest)) ELSE Error

\* Mutant: only one pipe is parsed.
parsepipe_left(ts) ==
    LET x == parseexec(ts)
        y == parseexec(Tail(x.rest))
    IN  IF x.ok /\ peek(x.rest, {"|"})
        THEN (IF y.ok THEN Ok(pipecmd(x.cmd, y.cmd), y.rest) ELSE Error)
        ELSE x

parsepipe(ts) ==
    LET x == parseexec(ts)
        y == parsepipe(Tail(x.rest))
    IN  IF x.ok /\ peek(x.rest, {"|"})
        THEN (IF y.ok THEN Ok(pipecmd(x.cmd, y.cmd), y.rest) ELSE Error)
        ELSE x

RECURSIVE Backs(_)
Backs(x) == IF x.ok /\ peek(x.rest, {"&"}) THEN Backs(Ok(backcmd(x.cmd), Tail(x.rest))) ELSE x

parseline(ts) ==
    LET x == Backs(parsepipe(ts))
        y == parseline(Tail(x.rest))
    IN  IF x.ok /\ peek(x.rest, {";"})
        THEN (IF y.ok THEN Ok(listcmd(x.cmd, y.cmd), y.rest) ELSE Error)
        ELSE x

RECURSIVE nulterminate(_)
nulterminate(c) ==
    CASE c.type = "EXEC" -> [c EXCEPT !.nul = TRUE]
      [] c.type = "REDIR" -> [c EXCEPT !.cmd = nulterminate(@), !.nul = TRUE]
      [] c.type \in {"PIPE", "LIST"} -> [c EXCEPT !.left = nulterminate(@), !.right = nulterminate(@)]
      [] c.type = "BACK" -> [c EXCEPT !.cmd = nulterminate(@)]

parsecmd(ts) ==
    LET x == parseline(ts) IN
    IF x.ok /\ x.rest = <<>> THEN Ok(nulterminate(x.cmd), <<>>) ELSE Error

(***************************************************************************)
(* The parser of cs238p_hw1: pipes and redirections only.  mkcopy()        *)
(* terminates each string when it is met.                                  *)
(***************************************************************************)
hw1_gettoken(ts) == IF ts = <<>> THEN "0" ELSE IF Head(ts) \in {"<", "|", ">"} THEN Head(ts) ELSE "a"
mkcopy(c) == [c EXCEPT !.nul = TRUE]
hw1_redircmd(c, op) == mkcopy([type |-> "REDIR", cmd |-> c, op |-> op, nul |-> FALSE])

RECURSIVE hw1_parseredirs(_, _), hw1_parseexec(_, _, _), hw1_parsepipe(_)

hw1_parseredirs(ops, ts) ==
    IF ~peek(ts, {"<", ">"}) THEN Ok(ops, ts)
    ELSE IF hw1_gettoken(Tail(ts)) # "a" THEN Error
    ELSE hw1_parseredirs(Append(ops, Head(ts)), Tail(Tail(ts)))

hw1_parseexec(argc, ops, ts) ==
    LET x == hw1_parseredirs(ops, ts) IN
    IF ~x.ok THEN Error
    ELSE IF peek(x.rest, {"|"}) \/ x.rest = <<>>
    THEN Ok(FoldLeft(hw1_redircmd, mkcopy(execcmd(argc)), x.cmd), x.rest)
    ELSE IF hw1_gettoken(x.rest) # "a" \/ argc + 1 >= MAXARGS THEN Error
    ELSE hw1_parseexec(argc + 1, x.cmd, Tail(x.rest))

hw1_parsepipe(ts) ==
    LET x == hw1_parseexec(0, <<>>, ts)
        y == hw1_parsepipe(Tail(x.rest))
    IN  IF x.ok /\ peek(x.rest, {"|"})
        THEN (IF y.ok THEN Ok(pipecmd(x.cmd, y.cmd), y.rest) ELSE Error)
        ELSE x

hw1_parsecmd(ts) == LET x == hw1_parsepipe(ts) IN IF x.rest = <<>> THEN x ELSE Error

-----------------------------------------------------------------------------
(***************************************************************************)
(* The lines: every tree up to Depth and a command with as many arguments  *)
(* as there may be, written down with the parentheses that the precedence  *)
(* of the operators asks for.                                              *)
(***************************************************************************)
RECURSIVE Trees(_, _)
Trees(h, d) ==
    LET sub == Trees(h, d - 1)
        Plain == {t \in sub : t.type \in {"EXEC", "REDIR"}}
    IN
    IF d = 0 THEN {execcmd(n) : n \in 0..1}
    ELSE IF h THEN sub \cup {redircmd(t, op) : t \in Plain, op \in {"<", ">"}}
                       \cup {pipecmd(t, u) : t \in Plain, u \in sub}
    ELSE sub \cup {redircmd(t, op) : t \in sub, op \in {"<", ">"}}
             \cup {pipecmd(t, u) : t, u \in sub} \cup {listcmd(t, u) : t, u \in sub}
             \cup {backcmd(t) : t \in sub}

RECURSIVE WriteLine(_), WritePart(_), WritePipe(_), WriteExec(_)
WriteExec(t) ==
    CASE t.type = "EXEC" -> [i \in 1..t.argc |-> "a"]
      [] t.type = "REDIR" -> WriteExec(t.cmd) \o <<t.op, "a">>
      [] OTHER -> <<"(">> \o WriteLine(t) \o <<")">>
WritePipe(t) == IF t.type = "PIPE" THEN WriteExec(t.left) \o <<"|">> \o WritePipe(t.right)
                                   ELSE WriteExec(t)
WritePart(t) == IF t.type = "BACK" THEN Append(WritePart(t.cmd), "&") ELSE WritePipe(t)
WriteLine(t) == IF t.type = "LIST" THEN WritePart(t.left) \o <<";">> \o WriteLine(t.right)
                                   ELSE WritePart(t)

WrongLines(h) ==
    {<<"<">>, <<"a", ">", "|", "a">>, [i \in 1..MAXARGS |-> "a"]}
        \cup (IF h THEN {} ELSE {<<"a", "(">>, <<"a", ")">>, <<"(", "a">>, <<"a", "&", "a">>})

Init ==
    /\ hw1 \in BOOLEAN
    /\ tree \in Trees(hw1, Depth) \cup {execcmd(MAXARGS - 1)}
    /\ line \in {WriteLine(tree)} \cup (IF tree = execcmd(1) THEN WrongLines(hw1) ELSE {})
    /\ prompt = "read"
    /\ parsed = Error
    /\ procs = <<>>

-----------------------------------------------------------------------------
(***************************************************************************)
(* Descriptors: kind of file and the pipe it belongs to.                   *)
(***************************************************************************)
NoFile == <<"none", <<>>>>
Tty == <<"tty", <<>>>>
OnDisk == <<"disk", <<>>>>
ReadEnd(n) == <<"read", n>>
WriteEnd(n) == <<"write", n>>
Fds == 0..7
Lowest(f) == Min({i \in Fds : f[i] = NoFile})
close(f, i) == [f EXCEPT ![i] = NoFile]
open(f, x) == [f EXCEPT ![Lowest(f)] = x]
dup(f, i) == open(f, f[i])
dup2(f, i, j) == [f EXCEPT ![j] = f[i]]
pipe(f, n) == open(open(f, ReadEnd(n)), WriteEnd(n))

(***************************************************************************)
(* A process at a node; want: the input and output its command should get. *)
(***************************************************************************)
NewProcess(c, n, f, parent, want) ==
    [cmd |-> c, node |-> n, fd |-> f, parent |-> parent, pc |-> "runcmd", want |-> want]
Cmd(n) == procs[n].cmd
At(n, type) == procs[n].pc = "runcmd" /\ Cmd(n).type = type
Child(n, which) == Append(procs[n].node, which)
Pipe0(f) == CHOOSE i \in Fds : i > 2 /\ f[i][1] = "read" /\ f[i + 1] = <<"write", f[i][2]>>
                               /\ \A j \in Fds : j > i + 1 => f[j] = NoFile
Shell == <<"shell">>
InitProcess == <<"init">>

(***************************************************************************)
(* exit(): the children go to init.                                        *)
(***************************************************************************)
Exited(ps, n) ==
    [m \in DOMAIN ps |->
        IF m = n THEN [ps[m] EXCEPT !.pc = "zombie", !.fd = [i \in Fds |-> NoFile]]
        ELSE IF ps[m].parent = n THEN [ps[m] EXCEPT !.parent = InitProcess] ELSE ps[m]]
exit(n) == procs' = Exited(procs, n)

Kids(n) == {m \in DOMAIN procs : procs[m].parent = n}
Zombies(n) == {m \in Kids(n) : procs[m].pc = "zombie"}

\* wait() collects a child that exited: the tables it may leave.  It would
\* return at once without children; the shells always have one, and would
\* get stuck here if not.
wait(n) == {Restrict(procs, DOMAIN procs \ {z}) : z \in Zombies(n)}

-----------------------------------------------------------------------------
(***************************************************************************)
(* main(): read a line, fork a child that parses and runs it, wait for it. *)
(***************************************************************************)
getcmd ==
    /\ prompt = "read"
    /\ prompt' = "fork"
    /\ parsed' = IF hw1 THEN hw1_parsecmd(line) ELSE parsecmd(line)
    /\ UNCHANGED <<hw1, tree, line, procs>>

main_fork ==
    /\ prompt = "fork"
    /\ prompt' = "wait"
    /\ LET f == [i \in Fds |-> IF i <= 2 THEN Tty ELSE NoFile]
           p == NewProcess(parsed.cmd, <<>>, f, Shell, <<Tty, Tty>>)
       IN  procs' = (<<>> :> IF parsed.ok THEN p ELSE [p EXCEPT !.pc = "zombie"])
    /\ UNCHANGED <<hw1, tree, line, parsed>>

main_wait ==
    /\ prompt = "wait"
    /\ procs' \in wait(Shell)
    /\ prompt' = "done"
    /\ UNCHANGED <<hw1, tree, line, parsed>>

Reap ==
    /\ procs' \in wait(InitProcess)
    /\ UNCHANGED <<hw1, tree, line, prompt, parsed>>

(***************************************************************************)
(* runcmd().                                                               *)
(***************************************************************************)
run_exec(n) ==
    /\ At(n, "EXEC")
    /\ \/ exit(n)          \* no argument, or exec() failed
       \/ Cmd(n).argc > 0 /\ procs' = [procs EXCEPT ![n].pc = "program"]

Open == {procs[m].fd[i] : m \in DOMAIN procs, i \in Fds}
EndOfFile(n) == procs[n].fd[0][1] = "read" => WriteEnd(procs[n].fd[0][2]) \notin Open

program(n) == procs[n].pc = "program" /\ EndOfFile(n) /\ exit(n)

Std(op) == IF op = "<" THEN 0 ELSE 1
Redirected(n, f) ==
    procs' = [procs EXCEPT ![n] = [@ EXCEPT !.fd = f, !.cmd = @.cmd,
                 !.node = Append(@, "C"), !.want[Std(Cmd(n).op) + 1] = OnDisk]]

\* Mutant: the descriptor is not closed first.
run_redir_unclosed(n) ==
    /\ At(n, "REDIR")
    /\ Redirected(n, open(procs[n].fd, OnDisk)) \/ exit(n)

run_redir(n) ==
    /\ At(n, "REDIR")
    /\ Redirected(n, open(close(procs[n].fd, Std(Cmd(n).op)), OnDisk)) \/ exit(n)

run_list(n) ==
    /\ At(n, "LIST")
    /\ procs' = [procs EXCEPT ![n].pc = "list"]
                   @@ (Child(n, "L") :> NewProcess(Cmd(n).left, Child(n, "L"), procs[n].fd, n, procs[n].want))

\* Mutant: runcmd(cmd) in place of runcmd(lcmd->right).
run_list_right_again(n) ==
    /\ procs[n].pc = "list"
    /\ \E ps \in wait(n) : procs' = [ps EXCEPT ![n].pc = "runcmd"]

run_list_right(n) ==
    /\ procs[n].pc = "list"
    /\ \E ps \in wait(n) :
           procs' = [ps EXCEPT ![n] = [@ EXCEPT !.pc = "runcmd", !.cmd = @.right,
                                                !.node = Append(@, "R")]]

run_back(n) ==
    /\ At(n, "BACK")
    /\ procs' = Exited(procs, n)
                   @@ (Child(n, "C") :> NewProcess(Cmd(n).cmd, Child(n, "C"), procs[n].fd, InitProcess, procs[n].want))

(***************************************************************************)
(* A pipe: the shell of xv6 forks both sides and waits for both.           *)
(***************************************************************************)
Left(n, f) == NewProcess(Cmd(n).left, Child(n, "L"), f, n, [procs[n].want EXCEPT ![2] = WriteEnd(procs[n].node)])
Right(n, f) == NewProcess(Cmd(n).right, Child(n, "R"), f, n, [procs[n].want EXCEPT ![1] = ReadEnd(procs[n].node)])

run_pipe(n) ==
    /\ At(n, "PIPE")
    /\ LET f == pipe(procs[n].fd, procs[n].node)
           p0 == Lowest(procs[n].fd)
           left == close(close(dup(close(f, 1), p0 + 1), p0), p0 + 1)
       IN  procs' = [procs EXCEPT ![n].pc = "pipe", ![n].fd = f] @@ (Child(n, "L") :> Left(n, left))

run_pipe_right(n) ==
    /\ procs[n].pc = "pipe"
    /\ LET f == procs[n].fd
           p0 == Pipe0(f)
           right == close(close(dup(close(f, 0), p0), p0), p0 + 1)
       IN  procs' = [procs EXCEPT ![n].pc = "wait2", ![n].fd = close(close(f, p0), p0 + 1)]
                       @@ (Child(n, "R") :> Right(n, right))

run_pipe_wait(n) ==
    /\ procs[n].pc \in {"wait2", "wait1"}
    /\ \E ps \in wait(n) :
           procs' = IF procs[n].pc = "wait2" THEN [ps EXCEPT ![n].pc = "wait1"]
                                             ELSE Exited(ps, n)

(***************************************************************************)
(* The shell of cs238p_hw1 keeps a copy of the descriptor it redirects; in *)
(* a pipe, it forks the left side and becomes the right one.               *)
(***************************************************************************)
hw1_run_redir(n) ==
    /\ At(n, "REDIR")
    /\ LET i == Std(Cmd(n).op)
       IN  Redirected(n, open(close(dup(procs[n].fd, i), i), OnDisk)) \/ exit(n)

hw1_run_pipe(n) ==
    /\ At(n, "PIPE")
    /\ LET f == pipe(procs[n].fd, procs[n].node)
           p0 == Lowest(procs[n].fd)
       IN  procs' = [procs EXCEPT ![n] = [Right(n, close(dup2(f, p0, 0), p0 + 1))
                                             EXCEPT !.parent = procs[n].parent]]
                       @@ (Child(n, "L") :> Left(n, close(dup2(f, p0 + 1, 1), p0)))

hw1_runcmd(n) == run_exec(n) \/ hw1_run_redir(n) \/ hw1_run_pipe(n)

runcmd(n) ==
    \/ run_exec(n) \/ run_redir(n) \/ run_list(n) \/ run_list_right(n) \/ run_back(n)
    \/ run_pipe(n) \/ run_pipe_right(n) \/ run_pipe_wait(n)

Step(n) ==
    /\ program(n) \/ (hw1 /\ hw1_runcmd(n)) \/ (~hw1 /\ runcmd(n))
    /\ UNCHANGED <<hw1, tree, line, prompt, parsed>>

Finished == prompt = "done" /\ procs = <<>> /\ UNCHANGED shellVars

Run == main_fork \/ main_wait \/ Reap \/ \E n \in DOMAIN procs : Step(n)
Next == getcmd \/ Run \/ Finished
Spec == Init /\ [][Next]_shellVars
FairSpec == Spec /\ WF_shellVars(Run)

-----------------------------------------------------------------------------
\* Command c is the tree t, and the arguments and file names in it end.
RECURSIVE IsTree(_, _)
IsTree(c, t) ==
    /\ c.type = t.type
    /\ CASE t.type = "EXEC" -> c.argc = t.argc /\ c.nul
         [] t.type = "REDIR" -> c.op = t.op /\ c.nul /\ IsTree(c.cmd, t.cmd)
         [] t.type = "BACK" -> IsTree(c.cmd, t.cmd)
         [] OTHER -> IsTree(c.left, t.left) /\ IsTree(c.right, t.right)

(* The parser gives back the command tree that the user wrote down, with   *)
(* the precedence and the grouping of | & ; ( ) and redirections, and      *)
(* every string of it terminated (parsecmd, nulterminate); it refuses what *)
(* is no command, or one with too many arguments.                          *)
ParsesWhatWasMeant ==
    prompt # "read" =>
        IF line = WriteLine(tree) THEN parsed.ok /\ IsTree(parsed.cmd, tree) ELSE ~parsed.ok

(* A program starts with the input and the output that its place in the    *)
(* command gives it, although close(), dup() and open() only ever take the *)
(* lowest free descriptor; in the shell of xv6 with no other descriptor.   *)
DescriptorsRight ==
    \A n \in DOMAIN procs : procs[n].pc = "program" =>
        /\ procs[n].fd[0] = procs[n].want[1] /\ procs[n].fd[1] = procs[n].want[2]
        /\ procs[n].fd[2] = Tty
        /\ ~hw1 => \A i \in Fds : i > 2 => procs[n].fd[i] = NoFile

(* Every command ends and the shell is back at its prompt: no process      *)
(* keeps the write end of a pipe that it or its children read from.        *)
CommandEnds == prompt = "fork" ~> prompt = "done" /\ procs = <<>>
=============================================================================
