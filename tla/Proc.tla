-------------------------------- MODULE Proc --------------------------------
(***************************************************************************)
(* The process table of proc.c: processes and the threads that share their *)
(* address spaces, created, scheduled, put to sleep, killed, exiting and   *)
(* being collected on several CPUs.                                        *)
(*                                                                         *)
(* Each action is one critical section of ptable.lock, or code that works  *)
(* on a slot nobody else looks at.  A process is preempted between any two *)
(* of them.                                                                *)
(***************************************************************************)
EXTENDS Integers, FiniteSets

CONSTANTS NPROC,      \* slots of the process table
          NCPU,       \* CPUs that run scheduler()
          PageDir,    \* page directories there is memory for
          MaxPid,     \* bound on nextpid
          KillPids    \* the arguments of kill()

ASSUME ProcAssumption ==
    /\ NPROC \in Nat \ {0}
    /\ NCPU \in Nat \ {0}
    /\ MaxPid \in Nat \ {0}
    /\ KillPids \subseteq Nat \ {0, 1}
    /\ 0 \notin PageDir

VARIABLES
    state,     \* p->state
    pid,       \* p->pid
    parent,    \* p->parent, the slot of a process or 0
    killed,    \* p->killed
    isthread,  \* p->isthread
    pgdir,     \* p->pgdir
    chan,      \* p->chan: a slot (the address of a struct proc), ticks or 0
    nextpid,
    pc,        \* what the process is doing in the kernel
    np,        \* the slot that fork() or thread_create() is filling in
    live,      \* page directories that are allocated
    forked,    \* history: slots whose process was made by fork() or userinit()
    joined     \* history: every process so far joined its threads before it
               \* called exit() or exec(), and no thread called exec()

table == <<state, pid, parent, killed, isthread, pgdir, chan>>
vars  == <<table, nextpid, pc, np, live, forked, joined>>

Slot == 1 .. NPROC
initproc == 1
ticks == NPROC + 1

State == {"UNUSED", "EMBRYO", "SLEEPING", "RUNNABLE", "RUNNING", "ZOMBIE"}

\* A process at a system call; one that was killed exits instead (trap()).
Running(p) == state[p] = "RUNNING"
InUser(p) == Running(p) /\ pc[p] = "user"
Syscall(p) == InUser(p) /\ ~killed[p]

\* The first slot of a set, as a scan of ptable.proc[] finds it.
First(q, S) == q \in S /\ \A r \in S : q <= r

Threads(p) == {q \in Slot : parent[q] = p /\ q \notin forked /\ state[q] # "UNUSED"}

-----------------------------------------------------------------------------
\* userinit(): the first process, in the first slot.
Init ==
    /\ \E d \in PageDir :
        /\ pgdir = [q \in Slot |-> IF q = initproc THEN d ELSE 0]
        /\ live = {d}
    /\ state = [q \in Slot |-> IF q = initproc THEN "RUNNABLE" ELSE "UNUSED"]
    /\ pid = [q \in Slot |-> IF q = initproc THEN 1 ELSE 0]
    /\ parent = [q \in Slot |-> 0]
    /\ killed = [q \in Slot |-> FALSE]
    /\ isthread = [q \in Slot |-> 0]
    /\ chan = [q \in Slot |-> 0]
    /\ nextpid = 2
    /\ pc = [q \in Slot |-> "user"]
    /\ np = [q \in Slot |-> 0]
    /\ forked = {initproc}
    /\ joined = TRUE

\* allocproc() for fork() or thread_create(): the slot is reserved under
\* ptable.lock; only state and pid are reset.
allocproc(p, call) ==
    /\ Syscall(p)
    /\ nextpid <= MaxPid
    /\ \E q \in Slot :
        /\ First(q, {r \in Slot : state[r] = "UNUSED"})
        /\ state' = [state EXCEPT ![q] = "EMBRYO"]
        /\ pid' = [pid EXCEPT ![q] = nextpid]
        /\ np' = [np EXCEPT ![p] = q]
    /\ nextpid' = nextpid + 1
    /\ pc' = [pc EXCEPT ![p] = call]
    /\ UNCHANGED <<parent, killed, isthread, pgdir, chan, live, forked, joined>>

\* kalloc() of the kernel stack failed: np->pid and np->pgdir stay.
kstack_failed(p) ==
    /\ Running(p)
    /\ pc[p] \in {"fork", "thread_create"}
    /\ state' = [state EXCEPT ![np[p]] = "UNUSED"]
    /\ pc' = [pc EXCEPT ![p] = "user"]
    /\ np' = [np EXCEPT ![p] = 0]
    /\ UNCHANGED <<pid, parent, killed, isthread, pgdir, chan, nextpid, live, forked, joined>>

\* copyuvm() failed and returned 0: np->pid stays.
copyuvm_failed(p) ==
    /\ Running(p)
    /\ pc[p] = "fork"
    /\ pgdir' = [pgdir EXCEPT ![np[p]] = 0]
    /\ state' = [state EXCEPT ![np[p]] = "UNUSED"]
    /\ pc' = [pc EXCEPT ![p] = "user"]
    /\ np' = [np EXCEPT ![p] = 0]
    /\ UNCHANGED <<pid, parent, killed, isthread, chan, nextpid, live, forked, joined>>

\* Mutant: fork() shares the address space of its caller.
fork_shares(p) ==
    /\ Running(p)
    /\ pc[p] = "fork"
    /\ pgdir' = [pgdir EXCEPT ![np[p]] = pgdir[p]]
    /\ parent' = [parent EXCEPT ![np[p]] = p]
    /\ state' = [state EXCEPT ![np[p]] = "RUNNABLE"]
    /\ pc' = [pc EXCEPT ![p] = "user", ![np[p]] = "user"]
    /\ np' = [np EXCEPT ![p] = 0]
    /\ forked' = forked \cup {np[p]}
    /\ UNCHANGED <<pid, killed, isthread, chan, nextpid, live, joined>>

\* The rest of fork(): a copy of the address space.
fork(p) ==
    /\ Running(p)
    /\ pc[p] = "fork"
    /\ \E d \in PageDir \ live :
        /\ pgdir' = [pgdir EXCEPT ![np[p]] = d]
        /\ live' = live \cup {d}
    /\ parent' = [parent EXCEPT ![np[p]] = p]
    /\ state' = [state EXCEPT ![np[p]] = "RUNNABLE"]
    /\ pc' = [pc EXCEPT ![p] = "user", ![np[p]] = "user"]
    /\ np' = [np EXCEPT ![p] = 0]
    /\ forked' = forked \cup {np[p]}
    /\ UNCHANGED <<pid, killed, isthread, chan, nextpid, joined>>

\* The rest of thread_create(): the same address space.
thread_create(p) ==
    /\ Running(p)
    /\ pc[p] = "thread_create"
    /\ pgdir' = [pgdir EXCEPT ![np[p]] = pgdir[p]]
    /\ parent' = [parent EXCEPT ![np[p]] = p]
    /\ isthread' = [isthread EXCEPT ![np[p]] = 1]
    /\ state' = [state EXCEPT ![np[p]] = "RUNNABLE"]
    /\ pc' = [pc EXCEPT ![p] = "user", ![np[p]] = "user"]
    /\ np' = [np EXCEPT ![p] = 0]
    /\ forked' = forked \ {np[p]}
    /\ UNCHANGED <<pid, killed, chan, nextpid, live, joined>>

\* exec() commits to a new image and frees the old one.
exec(p) ==
    /\ Syscall(p)
    /\ \E d \in PageDir \ live :
        /\ pgdir' = [pgdir EXCEPT ![p] = d]
        /\ live' = (live \cup {d}) \ {pgdir[p]}
    /\ joined' = (joined /\ p \in forked /\ Threads(p) = {})
    /\ UNCHANGED <<state, pid, parent, killed, isthread, chan, nextpid, pc, np, forked>>

-----------------------------------------------------------------------------
\* state after wakeup1() on each of a set of channels.
wakeup1(C) ==
    [q \in Slot |-> IF state[q] = "SLEEPING" /\ chan[q] \in C THEN "RUNNABLE" ELSE state[q]]

\* Mutant: nobody is woken.
exit_no_wakeup(p) ==
    /\ InUser(p)
    /\ p # initproc
    /\ state' = [state EXCEPT ![p] = "ZOMBIE"]
    /\ parent' = [q \in Slot |-> IF parent[q] = p THEN initproc ELSE parent[q]]
    /\ joined' = (joined /\ Threads(p) = {})
    /\ UNCHANGED <<pid, killed, isthread, pgdir, chan, nextpid, pc, np, live, forked>>

\* exit(), called by the program or by trap() for a killed process: wake the
\* parent, give the children to init, become a zombie.  For init it panics.
exit(p) ==
    /\ InUser(p)
    /\ p # initproc
    /\ LET orphans == {q \in Slot : parent[q] = p}
           woken == {parent[p]} \cup
                    (IF \E q \in orphans : state[q] = "ZOMBIE" THEN {initproc} ELSE {})
       IN  /\ state' = [wakeup1(woken) EXCEPT ![p] = "ZOMBIE"]
           /\ parent' = [q \in Slot |-> IF q \in orphans THEN initproc ELSE parent[q]]
    /\ joined' = (joined /\ Threads(p) = {})
    /\ UNCHANGED <<pid, killed, isthread, pgdir, chan, nextpid, pc, np, live, forked>>

\* thread_exit() repeats the code of exit().
thread_exit(p) == p \notin forked /\ exit(p)

\* A zombie is removed from the table; wait() also frees its address space.
Reap(p, q, frees) ==
    /\ state' = [state EXCEPT ![q] = "UNUSED"]
    /\ pid' = [pid EXCEPT ![q] = 0]
    /\ parent' = [parent EXCEPT ![q] = 0]
    /\ killed' = [killed EXCEPT ![q] = FALSE]
    /\ live' = IF frees THEN live \ {pgdir[q]} ELSE live
    /\ forked' = forked \ {q}
    /\ pc' = [pc EXCEPT ![p] = "user"]
    /\ chan' = [chan EXCEPT ![p] = 0]

ReturnError(p) ==
    /\ pc' = [pc EXCEPT ![p] = "user"]
    /\ chan' = [chan EXCEPT ![p] = 0]
    /\ UNCHANGED <<state, pid, parent, killed, live, forked>>

SleepOnSelf(p, call) ==
    /\ state' = [state EXCEPT ![p] = "SLEEPING"]
    /\ chan' = [chan EXCEPT ![p] = p]
    /\ pc' = [pc EXCEPT ![p] = call]
    /\ UNCHANGED <<pid, parent, killed, live, forked>>

\* A scan of wait() or thread_join() over the children p waits for.
Collect(p, kids, call, frees) ==
    /\ Running(p)
    /\ pc[p] = call \/ (pc[p] = "user" /\ ~killed[p])
    /\ LET zombies == {q \in kids : state[q] = "ZOMBIE"} IN
       IF zombies # {}
       THEN \E q \in kids : First(q, zombies) /\ Reap(p, q, frees)
       ELSE IF kids = {} \/ killed[p]
       THEN ReturnError(p)
       ELSE SleepOnSelf(p, call)
    /\ UNCHANGED <<isthread, pgdir, nextpid, np, joined>>

Kids(p, t) == {q \in Slot : isthread[q] = t /\ parent[q] = p}

wait(p) == Collect(p, Kids(p, 0), "wait", TRUE)

\* Mutant: thread_join() frees the address space, as wait() does.
thread_join_frees(p) == Collect(p, Kids(p, 1), "thread_join", TRUE)

thread_join(p) == Collect(p, Kids(p, 1), "thread_join", FALSE)

-----------------------------------------------------------------------------
\* Mutant: a sleeping process is not woken.
kill_no_wakeup(k) ==
    /\ \E p \in Slot : Syscall(p)
    /\ \E q \in Slot :
        /\ First(q, {r \in Slot : pid[r] = k})
        /\ killed' = [killed EXCEPT ![q] = TRUE]
    /\ UNCHANGED <<state, pid, parent, isthread, pgdir, chan, nextpid, pc, np, live, forked, joined>>

\* kill(): marks the first slot with that pid.
kill(k) ==
    /\ \E p \in Slot : Syscall(p)
    /\ \E q \in Slot :
        /\ First(q, {r \in Slot : pid[r] = k})
        /\ killed' = [killed EXCEPT ![q] = TRUE]
        /\ state' = [state EXCEPT ![q] = IF @ = "SLEEPING" THEN "RUNNABLE" ELSE @]
    /\ UNCHANGED <<pid, parent, isthread, pgdir, chan, nextpid, pc, np, live, forked, joined>>

\* sys_sleep() calls sleep(&ticks); killed was tested before ptable.lock is held.
sys_sleep(p) ==
    /\ Syscall(p)
    /\ pc' = [pc EXCEPT ![p] = "sys_sleep"]
    /\ UNCHANGED <<table, nextpid, np, live, forked, joined>>

sleep(p) ==
    /\ Running(p)
    /\ pc[p] = "sys_sleep"
    /\ state' = [state EXCEPT ![p] = "SLEEPING"]
    /\ chan' = [chan EXCEPT ![p] = ticks]
    /\ pc' = [pc EXCEPT ![p] = "slept"]
    /\ UNCHANGED <<pid, parent, killed, isthread, pgdir, nextpid, np, live, forked, joined>>

sleep_return(p) ==
    /\ Running(p)
    /\ pc[p] = "slept"
    /\ chan' = [chan EXCEPT ![p] = 0]
    /\ pc' = [pc EXCEPT ![p] = "user"]
    /\ UNCHANGED <<state, pid, parent, killed, isthread, pgdir, nextpid, np, live, forked, joined>>

\* The timer interrupt calls wakeup(&ticks).
wakeup ==
    /\ state' = wakeup1({ticks})
    /\ UNCHANGED <<pid, parent, killed, isthread, pgdir, chan, nextpid, pc, np, live, forked, joined>>

scheduler(p) ==
    /\ state[p] = "RUNNABLE"
    /\ Cardinality({q \in Slot : Running(q)}) < NCPU
    /\ state' = [state EXCEPT ![p] = "RUNNING"]
    /\ UNCHANGED <<pid, parent, killed, isthread, pgdir, chan, nextpid, pc, np, live, forked, joined>>

yield(p) ==
    /\ Running(p)
    /\ state' = [state EXCEPT ![p] = "RUNNABLE"]
    /\ UNCHANGED <<pid, parent, killed, isthread, pgdir, chan, nextpid, pc, np, live, forked, joined>>

\* What every program does, and what init.c never does.
Step(p) ==
    \/ allocproc(p, "fork") \/ kstack_failed(p) \/ copyuvm_failed(p) \/ fork(p)
    \/ exec(p) \/ wait(p) \/ scheduler(p) \/ yield(p)

ThreadStep(p) ==
    \/ allocproc(p, "thread_create") \/ thread_create(p) \/ thread_join(p)
    \/ exit(p) \/ thread_exit(p)
    \/ sys_sleep(p) \/ sleep(p) \/ sleep_return(p)

Next ==
    \/ \E p \in Slot : Step(p)
    \/ \E p \in Slot \ {initproc} : ThreadStep(p)
    \/ \E k \in KillPids : kill(k)
    \/ wakeup

Spec == Init /\ [][Next]_vars

(***************************************************************************)
(* scheduler() scans the table round and round, so a process that is       *)
(* runnable again and again is chosen; the timer preempts every process    *)
(* and wakes &ticks; a system call that has begun proceeds; a killed       *)
(* process traps and exits; init (init.c) calls wait() in a loop.          *)
(***************************************************************************)
Proceed(p) ==
    \/ kstack_failed(p) \/ copyuvm_failed(p) \/ fork(p) \/ thread_create(p)
    \/ sleep(p) \/ sleep_return(p)
    \/ pc[p] = "wait" /\ wait(p)
    \/ pc[p] = "thread_join" /\ thread_join(p)
    \/ killed[p] /\ exit(p)

Fairness ==
    /\ WF_vars(wakeup)
    /\ SF_vars(wait(initproc))
    /\ \A p \in Slot : SF_vars(scheduler(p)) /\ WF_vars(yield(p)) /\ SF_vars(Proceed(p))

FairSpec == Spec /\ Fairness

-----------------------------------------------------------------------------
Call == {"user", "fork", "thread_create", "wait", "thread_join", "sys_sleep", "slept"}

(* Type correctness of the process table.                                  *)
TypeOK ==
    /\ state \in [Slot -> State]
    /\ pid \in [Slot -> 0 .. MaxPid]
    /\ parent \in [Slot -> Slot \cup {0}]
    /\ killed \in [Slot -> BOOLEAN]
    /\ isthread \in [Slot -> {0, 1}]
    /\ pgdir \in [Slot -> PageDir \cup {0}]
    /\ chan \in [Slot -> Slot \cup {0, ticks}]
    /\ nextpid \in 1 .. MaxPid + 1
    /\ pc \in [Slot -> Call]
    /\ np \in [Slot -> Slot \cup {0}]
    /\ live \subseteq PageDir
    /\ forked \subseteq Slot
    /\ joined \in BOOLEAN

Alive(p) == state[p] \in {"SLEEPING", "RUNNABLE", "RUNNING"}

Process(p) == Alive(p) \/ state[p] = "ZOMBIE"

(* Nobody is left with a dead parent: exit() hands every child over to     *)
(* init before its slot can be collected and given to somebody else, so    *)
(* the parent that wait(), growproc() and exit() follow is alive.          *)
ParentAlive ==
    \A q \in Slot : Process(q) =>
        q = initproc \/ (parent[q] \in Slot /\ Alive(parent[q]))

InWait(p) == pc[p] \in {"wait", "thread_join"}

WaitsFor(p) == Kids(p, IF pc[p] = "thread_join" THEN 1 ELSE 0)

(* No lost wakeup in wait() and thread_join(): while a process sleeps in   *)
(* them, one of the children it waits for is still going to exit and call  *)
(* wakeup1(), and none has exited already.                                 *)
WaiterHasChild ==
    \A p \in Slot : state[p] = "SLEEPING" /\ InWait(p) =>
        WaitsFor(p) # {} /\ \A q \in WaitsFor(p) : Alive(q)

(* kill() reaches a process in wait() or thread_join(), whatever the order *)
(* of their steps: a killed process never sleeps there.                    *)
KillReachesWaiter ==
    \A p \in Slot : killed[p] /\ InWait(p) => state[p] # "SLEEPING"

(* A slot that fork() or thread_create() is filling in is EMBRYO and is    *)
(* theirs alone, although they work on it without ptable.lock.             *)
EmbryoOwned ==
    /\ \A p \in Slot : np[p] # 0 => Alive(p) /\ state[np[p]] = "EMBRYO"
    /\ \A p, q \in Slot : np[p] = np[q] /\ np[p] # 0 => p = q

\* What a sleeping or creating process, a child and a free slot look like.
SlotInv ==
    /\ Alive(initproc)
    /\ \A p \in Slot :
        /\ np[p] # 0 <=> pc[p] \in {"fork", "thread_create"}
        /\ pc[p] # "user" => Alive(p)
        /\ state[p] = "SLEEPING" =>
             (InWait(p) /\ chan[p] = p) \/ pc[p] = "slept"
        /\ parent[p] # p
        /\ ~Process(p) \/ p = initproc => parent[p] = 0

(* The inductive invariant behind the four properties above: the slots in  *)
(* every phase of fork(), thread_create(), exit(), wait() and thread_join()*)
(* on any number of CPUs.                                                  *)
ProcInv == ParentAlive /\ WaiterHasChild /\ KillReachesWaiter /\ EmbryoOwned /\ SlotInv

(* Nobody runs on a page directory that was freed: the "kernel uses the    *)
(* current process's page table during system calls and interrupts"        *)
(* (vm.c:106).  It holds as long as programs join their threads before     *)
(* they exit or exec, which nothing in proc.c or exec.c enforces.          *)
AddressSpaceLive == joined => \A p \in Slot : Alive(p) => pgdir[p] \in live

OwnSpaces ==
    \A p, q \in forked :
        Process(p) /\ Process(q) /\ pgdir[p] = pgdir[q] => p = q

(* Processes made by fork() have address spaces of their own, as long as   *)
(* programs join their threads.                                            *)
AddressSpacesSeparate == joined => OwnSpaces

\* A process made by fork() has a live directory to itself, and a thread has
\* that of its parent, which is older, so that the parents of a thread lead to
\* the process whose directory they share.
Spaces ==
    /\ initproc \in forked
    /\ \A q \in Slot : pid[q] < nextpid /\ (np[q] # 0 => pid[q] < pid[np[q]])
    /\ \A q \in forked : Process(q) /\ pgdir[q] \in live
    /\ \A q \in Slot \ forked : Process(q) =>
          isthread[q] = 1 /\ pgdir[q] = pgdir[parent[q]] /\ pid[parent[q]] < pid[q]
    /\ OwnSpaces

(* The inductive invariant behind the two properties above.                *)
SpaceInv == joined => Spaces

(* wait() "returns -1 if this process has no children": when it would, the *)
(* process has no child made by fork(); of programs that join their        *)
(* threads.                                                                *)
WaitSeesChildren ==
    joined => \A p \in Slot : Syscall(p) /\ Kids(p, 0) = {} =>
        \A q \in forked : Alive(q) => parent[q] # p

(* A killed process exits: kill() and the timer wake it from any sleep.    *)
KilledExits == \A p \in Slot \ {initproc} : killed[p] /\ Alive(p) ~> ~Alive(p)

(* init collects the orphans: a zombie whose parent is init leaves the     *)
(* table.                                                                  *)
OrphanCollected ==
    \A q \in Slot \ {initproc} :
        state[q] = "ZOMBIE" /\ parent[q] = initproc /\ isthread[q] = 0 ~> state[q] = "UNUSED"
=============================================================================
