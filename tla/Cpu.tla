--------------------------------- MODULE Cpu ---------------------------------
(***************************************************************************)
(* Spin locks, interrupts and context switches: spinlock.c, the timer      *)
(* interrupt of trap.c, sched(), yield(), sleep() and scheduler() of       *)
(* proc.c, and the start of the other processors in main.c.                *)
(*                                                                         *)
(* A context is a kernel thread or the scheduler of a processor; code[x]   *)
(* is what it has still to do, one memory access or instruction that other *)
(* processors can see at a time.  The system call modelled is sys_sleep(), *)
(* which takes tickslock and, through sleep(), ptable.lock.                *)
(***************************************************************************)
EXTENDS Naturals, Sequences, FiniteSets, SequencesExt

CONSTANTS CPU, BootCPU, Thread, None

VARIABLES
    cpu,        \* CPU -> thread it runs, flag FL_IF, ncli, intena, started
    lock,       \* lock -> locked, cpu
    code,       \* context -> operations to do
    intena,     \* Thread -> local variable intena of sched()
    state       \* Thread -> p->state

cpuVars == <<cpu, lock, code, intena, state>>

Lock == {"ptable", "tickslock"}
Context(c) == IF cpu[c].proc = None THEN c ELSE cpu[c].proc

Op(name) == <<name, "">>
acquire(lk) == <<"acquire", lk>>
release(lk) == <<"release", lk>>

(***************************************************************************)
(* The bodies of the functions.                                            *)
(***************************************************************************)
yield == <<acquire("ptable"), Op("RUNNABLE"), Op("sched"), release("ptable")>>
\* Mutant: the lock of the caller is not released.
sleep_keeps_lock == <<acquire("ptable"), Op("SLEEPING"), Op("sched"), release("ptable")>>

sleep == <<acquire("ptable"), release("tickslock"), Op("SLEEPING"), Op("sched"),
           release("ptable"), acquire("tickslock")>>
wakeup == <<acquire("ptable"), Op("wakeup1"), release("ptable")>>
tick == <<acquire("tickslock")>> \o wakeup \o <<release("tickslock")>>
sys_sleep == <<acquire("tickslock"), Op("while"), release("tickslock")>>
forkret == <<release("ptable"), Op("trapret")>>
scheduler == <<acquire("ptable"), Op("scan"), release("ptable")>>
userinit == <<acquire("ptable"), Op("allocproc"), release("ptable"),
              acquire("ptable"), Op("userinit"), release("ptable")>>
main == FlattenSeq([i \in 1..Cardinality(CPU \ {BootCPU}) |-> <<Op("startap"), Op("started")>>])
            \o userinit

Init ==
    /\ cpu = [c \in CPU |-> [proc |-> None, FL_IF |-> FALSE, ncli |-> 0, intena |-> FALSE,
                             up |-> c = BootCPU, started |-> FALSE]]
    /\ lock = [lk \in Lock |-> [locked |-> FALSE, cpu |-> None]]
    /\ code = [x \in CPU \cup Thread |-> IF x = BootCPU THEN main
                                         ELSE IF x \in Thread THEN forkret ELSE <<>>]
    /\ intena = [t \in Thread |-> FALSE]
    /\ state = [t \in Thread |-> "UNUSED"]

holding(c, lk) == lock[lk].locked /\ lock[lk].cpu = c
pushcli(x) == [x EXCEPT !.FL_IF = FALSE, !.ncli = @ + 1,
                        !.intena = IF x.ncli = 0 THEN x.FL_IF ELSE @]

\* Mutant: sti whatever the flag was at the outermost pushcli().
popcli_always_sti(x) == [x EXCEPT !.ncli = @ - 1, !.FL_IF = x.ncli = 1]

popcli(x) == [x EXCEPT !.ncli = @ - 1, !.FL_IF = x.ncli = 1 /\ x.intena]

(***************************************************************************)
(* Processor c is about to do an operation, and does it.                   *)
(***************************************************************************)
At(c, name) == cpu[c].up /\ code[Context(c)] # <<>> /\ Head(code[Context(c)])[1] = name
LockAt(c) == Head(code[Context(c)])[2]
Did(c) == code' = [code EXCEPT ![Context(c)] = Tail(@)]
Then(c, names) == code' = [code EXCEPT ![Context(c)] = names \o Tail(@)]

-----------------------------------------------------------------------------
(***************************************************************************)
(* acquire(): interrupts off, spin on xchg, record the owner.              *)
(***************************************************************************)
acquire_cli(c) ==
    /\ At(c, "acquire")
    /\ cpu' = [cpu EXCEPT ![c] = pushcli(@)]
    /\ Then(c, << <<"xchg", LockAt(c)>>, <<"own", LockAt(c)>> >>)
    /\ UNCHANGED <<lock, intena, state>>

\* Mutant: the old value is not tested.
xchg_untested(c) ==
    /\ At(c, "xchg")
    /\ lock' = [lock EXCEPT ![LockAt(c)].locked = TRUE]
    /\ Did(c)
    /\ UNCHANGED <<cpu, intena, state>>

xchg(c) ==
    /\ At(c, "xchg") /\ ~lock[LockAt(c)].locked
    /\ lock' = [lock EXCEPT ![LockAt(c)].locked = TRUE]
    /\ Did(c)
    /\ UNCHANGED <<cpu, intena, state>>

acquire_own(c) ==
    /\ At(c, "own")
    /\ lock' = [lock EXCEPT ![LockAt(c)].cpu = c]
    /\ Did(c)
    /\ UNCHANGED <<cpu, intena, state>>

(***************************************************************************)
(* release(): forget the owner, then free the lock and popcli().           *)
(***************************************************************************)
release_disown(c) ==
    /\ At(c, "release")
    /\ lock' = [lock EXCEPT ![LockAt(c)].cpu = None]
    /\ Then(c, << <<"unlock", LockAt(c)>> >>)
    /\ UNCHANGED <<cpu, intena, state>>

release_unlock(c) ==
    /\ At(c, "unlock")
    /\ lock' = [lock EXCEPT ![LockAt(c)].locked = FALSE]
    /\ cpu' = [cpu EXCEPT ![c] = popcli(@)]
    /\ Did(c)
    /\ UNCHANGED <<intena, state>>

(***************************************************************************)
(* trap() for a timer interrupt: processor 0 counts the tick, a process    *)
(* yields, and iret turns interrupts on again.                             *)
(***************************************************************************)
trap(c) ==
    /\ cpu[c].up /\ cpu[c].FL_IF
    /\ cpu' = [cpu EXCEPT ![c].FL_IF = FALSE]
    /\ code' = [code EXCEPT ![Context(c)] =
          (IF c = BootCPU THEN tick ELSE <<>>)
             \o (IF cpu[c].proc # None THEN yield ELSE <<>>) \o <<Op("iret")>> \o @]
    /\ UNCHANGED <<lock, intena, state>>

iret(c) ==
    /\ At(c, "iret") \/ At(c, "trapret")
    /\ cpu' = [cpu EXCEPT ![c].FL_IF = TRUE]
    /\ Did(c)
    /\ UNCHANGED <<lock, intena, state>>

(***************************************************************************)
(* A process in user space makes a system call; its loop sleeps or ends.   *)
(***************************************************************************)
syscall(c) ==
    /\ cpu[c].proc # None /\ code[cpu[c].proc] = <<>>
    /\ code' = [code EXCEPT ![cpu[c].proc] = sys_sleep]
    /\ UNCHANGED <<cpu, lock, intena, state>>

sys_sleep_loop(c) ==
    /\ At(c, "while")
    /\ Then(c, sleep \o <<Op("while")>>) \/ Did(c)
    /\ UNCHANGED <<cpu, lock, intena, state>>

SetState(c, s) ==
    /\ At(c, s)
    /\ state' = [state EXCEPT ![cpu[c].proc] = s]
    /\ Did(c)
    /\ UNCHANGED <<cpu, lock, intena>>

wakeup1(c) ==
    /\ At(c, "wakeup1")
    /\ state' = [t \in Thread |-> IF state[t] = "SLEEPING" THEN "RUNNABLE" ELSE state[t]]
    /\ Did(c)
    /\ UNCHANGED <<cpu, lock, intena>>

(***************************************************************************)
(* sched(): keep intena, switch to the scheduler of this processor.  The   *)
(* operation "resume" is what sched() does when it is switched back to.    *)
(***************************************************************************)
sched(c) ==
    /\ At(c, "sched")
    /\ intena' = [intena EXCEPT ![cpu[c].proc] = cpu[c].intena]
    /\ Then(c, <<Op("resume")>>)
    /\ cpu' = [cpu EXCEPT ![c].proc = None]
    /\ UNCHANGED <<lock, state>>

sched_resume(c) ==
    /\ At(c, "resume")
    /\ cpu' = [cpu EXCEPT ![c].intena = intena[cpu[c].proc]]
    /\ Did(c)
    /\ UNCHANGED <<lock, intena, state>>

(***************************************************************************)
(* scheduler(): sti, then scan the table under ptable.lock.  The scan may  *)
(* go on with any process or end: its order is immaterial here.            *)
(***************************************************************************)
scheduler_loop(c) ==
    /\ cpu[c].started /\ cpu[c].proc = None /\ code[c] = <<>>
    /\ cpu' = [cpu EXCEPT ![c].FL_IF = TRUE]
    /\ code' = [code EXCEPT ![c] = scheduler]
    /\ UNCHANGED <<lock, intena, state>>

scheduler_swtch(c) ==
    /\ At(c, "scan") /\ cpu[c].proc = None
    /\ \/ /\ Did(c)
          /\ UNCHANGED <<cpu, state>>
       \/ \E t \in Thread :
            /\ state[t] = "RUNNABLE"
            /\ state' = [state EXCEPT ![t] = "RUNNING"]
            /\ cpu' = [cpu EXCEPT ![c].proc = t]
            /\ UNCHANGED code
    /\ UNCHANGED <<lock, intena>>

(***************************************************************************)
(* main(): startothers() starts one processor and waits for it, then       *)
(* userinit() makes the first process, here every thread of the model.     *)
(***************************************************************************)
startothers(c) ==
    /\ At(c, "startap")
    /\ \E o \in CPU : /\ ~cpu[o].up
                      /\ cpu' = [cpu EXCEPT ![o].up = TRUE]
    /\ Did(c)
    /\ UNCHANGED <<lock, intena, state>>

mpmain(c) ==
    /\ cpu[c].up /\ ~cpu[c].started /\ (c = BootCPU => code[c] = <<>>)
    /\ cpu' = [cpu EXCEPT ![c].started = TRUE]
    /\ UNCHANGED <<lock, code, intena, state>>

startothers_wait(c) ==
    /\ At(c, "started") /\ \A o \in CPU \ {c} : cpu[o].up => cpu[o].started
    /\ Did(c)
    /\ UNCHANGED <<cpu, lock, intena, state>>

allocproc(c) ==
    /\ At(c, "allocproc")
    /\ state' = [t \in Thread |-> "EMBRYO"]
    /\ Did(c)
    /\ UNCHANGED <<cpu, lock, intena>>

userinit_run(c) ==
    /\ At(c, "userinit")
    /\ state' = [t \in Thread |-> "RUNNABLE"]
    /\ Did(c)
    /\ UNCHANGED <<cpu, lock, intena>>

Next == \E c \in CPU :
    \/ acquire_cli(c) \/ xchg(c) \/ acquire_own(c) \/ release_disown(c) \/ release_unlock(c)
    \/ trap(c) \/ iret(c) \/ syscall(c) \/ sys_sleep_loop(c)
    \/ SetState(c, "RUNNABLE") \/ SetState(c, "SLEEPING") \/ wakeup1(c)
    \/ sched(c) \/ sched_resume(c) \/ scheduler_loop(c) \/ scheduler_swtch(c)
    \/ startothers(c) \/ startothers_wait(c) \/ mpmain(c)
    \/ allocproc(c) \/ userinit_run(c)

Spec == Init /\ [][Next]_cpuVars

-----------------------------------------------------------------------------
(***************************************************************************)
(* Where a processor is: between xchg and the store that frees the lock.   *)
(***************************************************************************)
Mentions(c, lk) == SelectSeq(code[Context(c)], LAMBDA o : o[2] = lk)
InSection(c, lk) == Mentions(c, lk) # <<>> /\ Head(Mentions(c, lk))[1] \in {"own", "release", "unlock"}
InHandler(c) == Op("iret") \in ToSet(code[Context(c)])
InForkret(c) == Op("trapret") \in ToSet(code[Context(c)])

(* At most one processor is inside the section of a spin lock, although    *)
(* ptable.lock is acquired by one context and released by another.         *)
LocksExclude ==
    \A lk \in Lock : \A c, d \in CPU :
        InSection(c, lk) /\ InSection(d, lk) => c = d /\ lock[lk].locked

(* Interrupts are on only outside every section and every handler, so a    *)
(* handler never spins for a lock its own processor holds and never nests; *)
(* and a process outside both has them on, whichever processor it was      *)
(* switched to and whatever intena that one had (proc.c:400-405); a new    *)
(* process has them on from its first return to user space.                *)
InterruptsRight ==
    \A c \in CPU :
        /\ cpu[c].FL_IF => cpu[c].ncli = 0 /\ ~InHandler(c) /\ \A lk \in Lock : ~InSection(c, lk)
        /\ cpu[c].proc # None /\ ~cpu[c].FL_IF => cpu[c].ncli > 0 \/ InHandler(c) \/ InForkret(c)

(* None of the panics of acquire(), release(), popcli() and sched() is     *)
(* reached: locks and interrupts nest as these functions expect.           *)
NoCpuPanic ==
    \A c \in CPU :
        /\ At(c, "acquire") => ~holding(c, LockAt(c))
        /\ At(c, "release") => holding(c, LockAt(c))
        /\ At(c, "unlock") => ~cpu[c].FL_IF /\ cpu[c].ncli > 0
        /\ At(c, "sched") => /\ holding(c, "ptable") /\ cpu[c].ncli = 1 /\ ~cpu[c].FL_IF
                             /\ state[cpu[c].proc] # "RUNNING"
=============================================================================
