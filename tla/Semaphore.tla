----------------------------- MODULE Semaphore ------------------------------
(***************************************************************************)
(* The semaphores of thread_lock_impl.h as the producers and consumers of  *)
(* extracredit_semaphore.c use them.  A semaphore is a struct q: a count,  *)
(* a mutex and a condition variable, both called by the semaphore's name.  *)
(*                                                                         *)
(* Each access to shared memory is a step: a count or an index is loaded   *)
(* into old[t] in one step and stored in another, which clears old[t].     *)
(***************************************************************************)
EXTENDS ThreadLock, FiniteSets

CONSTANTS Producer, Consumer,
          N     \* the size of the buffer, and the values each thread moves

Sem == {"producer", "consumer"}

ASSUME SemaphoreAssumption ==
    /\ N \in Nat \ {0}
    /\ Thread = Producer \cup Consumer
    /\ Producer \cap Consumer = {}
    /\ IsFiniteSet(Thread)
    /\ Cond = Sem
    /\ Mutex = Sem \cup {"mLock"}

VARIABLES
    count,          \* sem->count
    buffer,
    buffer_index,
    pc,             \* where each thread is
    i,              \* the loop counter of prod_work() and cons_work()
    old,            \* what the thread loaded last
    value           \* what each consumer dequeued last

vars == <<lockVars, count, buffer, buffer_index, pc, i, old, value>>

Waits(t) == IF t \in Producer THEN "consumer" ELSE "producer"
Posts(t) == IF t \in Producer THEN "producer" ELSE "consumer"

Goto(t, from, to) == pc[t] = from /\ pc' = [pc EXCEPT ![t] = to]

-----------------------------------------------------------------------------
\* main() before it creates the threads.
Init ==
    /\ LockInit
    /\ count = [s \in Sem |-> IF s = "consumer" THEN N ELSE 0]
    /\ buffer = [n \in 0 .. N - 1 |-> 0]
    /\ buffer_index = 0
    /\ pc = [t \in Thread |-> "sem_wait"]
    /\ i = [t \in Thread |-> 0]
    /\ old = [t \in Thread |-> 0]
    /\ value = [c \in Consumer |-> 0]

\* The loop test, and thread_mutex_lock() in sem_wait().
sem_wait(t) ==
    /\ Goto(t, "sem_wait", "test")
    /\ i[t] < N
    /\ i' = [i EXCEPT ![t] = @ + 1]
    /\ thread_mutex_lock(Waits(t))
    /\ UNCHANGED <<count, buffer, buffer_index, old, value>>

\* Mutant: the test spins with the mutex held, as send() of
\* extracredit_cond_var.c does.
sem_wait_test_spins(t) ==
    /\ Goto(t, "test", IF count[Waits(t)] = 0 THEN "test" ELSE "take")
    /\ old' = [old EXCEPT ![t] = count[Waits(t)]]
    /\ UNCHANGED <<lockVars, count, buffer, buffer_index, i, value>>

\* while (sem->count == 0)
sem_wait_test(t) ==
    /\ Goto(t, "test", IF count[Waits(t)] = 0 THEN "cond_wait" ELSE "take")
    /\ old' = [old EXCEPT ![t] = count[Waits(t)]]
    /\ UNCHANGED <<lockVars, count, buffer, buffer_index, i, value>>

thread_cond_wait(t) ==
    /\ Goto(t, "cond_wait", "sched")
    /\ thread_sleep(t, Waits(t))
    /\ UNCHANGED <<count, buffer, buffer_index, i, old, value>>

thread_cond_wait_sched(t) ==
    /\ Goto(t, "sched", "asleep")
    /\ thread_sleep_sched(t, Waits(t))
    /\ UNCHANGED <<count, buffer, buffer_index, i, old, value>>

thread_cond_wait_return(t) ==
    /\ Goto(t, "asleep", "test")
    /\ thread_sleep_return(t, Waits(t))
    /\ UNCHANGED <<count, buffer, buffer_index, i, old, value>>

sem_wait_take(t) ==
    /\ Goto(t, "take", "taken")
    /\ count' = [count EXCEPT ![Waits(t)] = old[t] - 1]
    /\ old' = [old EXCEPT ![t] = 0]
    /\ UNCHANGED <<lockVars, buffer, buffer_index, i, value>>

sem_wait_return(t) ==
    /\ Goto(t, "taken", "enter")
    /\ thread_mutex_unlock(Waits(t))
    /\ UNCHANGED <<count, buffer, buffer_index, i, old, value>>

enter(t) ==
    /\ Goto(t, "enter", "buffer")
    /\ thread_mutex_lock("mLock")
    /\ UNCHANGED <<count, buffer, buffer_index, i, old, value>>

\* insertbuffer() and dequeuebuffer() test the index; on overflow and
\* underflow they do nothing.
test_index(t) ==
    /\ Goto(t, "buffer", IF (IF t \in Producer THEN buffer_index < N ELSE buffer_index > 0)
                         THEN "move" ELSE "leave")
    /\ old' = [old EXCEPT ![t] = buffer_index]
    /\ UNCHANGED <<lockVars, count, buffer, buffer_index, i, value>>

insertbuffer(t) ==
    /\ t \in Producer
    /\ Goto(t, "move", "leave")
    /\ buffer' = [buffer EXCEPT ![old[t]] = i[t]]
    /\ buffer_index' = old[t] + 1
    /\ old' = [old EXCEPT ![t] = 0]
    /\ UNCHANGED <<lockVars, count, i, value>>

\* Mutant: buffer[buffer_index--].
dequeuebuffer_post(t) ==
    /\ t \in Consumer
    /\ Goto(t, "move", "leave")
    /\ value' = [value EXCEPT ![t] = buffer[old[t] % N]]
    /\ buffer_index' = old[t] - 1
    /\ old' = [old EXCEPT ![t] = 0]
    /\ UNCHANGED <<lockVars, count, buffer, i>>

dequeuebuffer(t) ==
    /\ t \in Consumer
    /\ Goto(t, "move", "leave")
    /\ value' = [value EXCEPT ![t] = buffer[old[t] - 1]]
    /\ buffer_index' = old[t] - 1
    /\ old' = [old EXCEPT ![t] = 0]
    /\ UNCHANGED <<lockVars, count, buffer, i>>

leave(t) ==
    /\ Goto(t, "leave", "sem_post")
    /\ thread_mutex_unlock("mLock")
    /\ UNCHANGED <<count, buffer, buffer_index, i, old, value>>

sem_post(t) ==
    /\ Goto(t, "sem_post", "load")
    /\ thread_mutex_lock(Posts(t))
    /\ UNCHANGED <<count, buffer, buffer_index, i, old, value>>

sem_post_load(t) ==
    /\ Goto(t, "load", "store")
    /\ old' = [old EXCEPT ![t] = count[Posts(t)]]
    /\ UNCHANGED <<lockVars, count, buffer, buffer_index, i, value>>

sem_post_store(t) ==
    /\ Goto(t, "store", "posted")
    /\ count' = [count EXCEPT ![Posts(t)] = old[t] + 1]
    /\ old' = [old EXCEPT ![t] = 0]
    /\ UNCHANGED <<lockVars, buffer, buffer_index, i, value>>

sem_post_unlock(t) ==
    /\ Goto(t, "posted", "signal")
    /\ thread_mutex_unlock(Posts(t))
    /\ UNCHANGED <<count, buffer, buffer_index, i, old, value>>

thread_cond_signal(t) ==
    /\ Goto(t, "signal", "sem_wait")
    /\ thread_wakeup(Posts(t))
    /\ UNCHANGED <<count, buffer, buffer_index, i, old, value>>

thread_exit(t) ==
    /\ Goto(t, "sem_wait", "done")
    /\ i[t] = N
    /\ UNCHANGED <<lockVars, count, buffer, buffer_index, i, old, value>>

Step(t) ==
    \/ sem_wait(t) \/ sem_wait_test(t) \/ sem_wait_take(t) \/ sem_wait_return(t)
    \/ thread_cond_wait(t) \/ thread_cond_wait_sched(t) \/ thread_cond_wait_return(t)
    \/ enter(t) \/ test_index(t) \/ insertbuffer(t) \/ dequeuebuffer(t) \/ leave(t)
    \/ sem_post(t) \/ sem_post_load(t) \/ sem_post_store(t) \/ sem_post_unlock(t)
    \/ thread_cond_signal(t) \/ thread_exit(t)

\* Every thread has exited; main() joins them.
Finished == \A t \in Thread : pc[t] = "done"

Next == (\E t \in Thread : Step(t)) \/ (Finished /\ UNCHANGED vars)

Spec == Init /\ [][Next]_vars

\* The scheduler gives every thread its turn; nothing more is assumed of who
\* wins a mutex.
FairSpec == Spec /\ \A t \in Thread : WF_vars(Step(t))

-----------------------------------------------------------------------------
Label == {"sem_wait", "test", "cond_wait", "sched", "asleep", "take", "taken", "enter", "buffer",
          "move", "leave", "sem_post", "load", "store", "posted", "signal", "done"}

(* Type correctness: counts and the index stay between 0 and N.            *)
TypeOK ==
    /\ LockTypeOK
    /\ count \in [Sem -> 0 .. N]
    /\ buffer \in [0 .. N - 1 -> 0 .. N]
    /\ buffer_index \in 0 .. N
    /\ pc \in [Thread -> Label]
    /\ i \in [Thread -> 0 .. N]
    /\ old \in [Thread -> 0 .. N]
    /\ value \in [Consumer -> 0 .. N]

\* t is between thread_mutex_lock(m) and thread_mutex_unlock(m).
Holds(t, m) ==
    \/ pc[t] \in {"test", "cond_wait", "take", "taken"} /\ m = Waits(t)
    \/ pc[t] \in {"buffer", "move", "leave"} /\ m = "mLock"
    \/ pc[t] \in {"load", "store", "posted"} /\ m = Posts(t)

(* Mutual exclusion: a mutex has at most one holder, also while a thread   *)
(* goes to sleep in thread_sleep() and takes the mutex again in the kernel.*)
MutualExclusion ==
    \A m \in Mutex, t, u \in Thread : Holds(t, m) /\ Holds(u, m) => t = u

(* No lost wakeup: a thread sleeps, or is about to sleep, on a semaphore   *)
(* whose count is positive only while some thread that has posted it has   *)
(* yet to call thread_wakeup().                                            *)
NoLostWakeup ==
    \A t \in Thread :
        chan[t] # None \/ pc[t] = "sched" =>
            \/ count[Waits(t)] = 0
            \/ \E u \in Thread : pc[u] \in {"posted", "signal"} /\ Posts(u) = Waits(t)

\* The threads in a part of their loop.
At(T, L) == {t \in T : pc[t] \in L}
Took == {"taken", "enter", "buffer", "move"}
Moved == {"leave", "sem_post", "load", "store"}

(* Conservation: every slot of the buffer is counted free, held by a       *)
(* producer that has taken it and not filled it, full, or emptied by a     *)
(* consumer that has not posted it yet; and so is every value.             *)
Conservation ==
    /\ count["consumer"] + Cardinality(At(Producer, Took)) + buffer_index
         + Cardinality(At(Consumer, Moved)) = N
    /\ count["producer"] + Cardinality(At(Consumer, Took))
         + Cardinality(At(Producer, Moved)) = buffer_index

\* What a thread knows from the mutexes it holds.
Local(t) ==
    /\ pc[t] = "sched" <=> holder = t
    /\ chan[t] # None => pc[t] = "asleep" /\ chan[t] = Waits(t)
    /\ pc[t] = "cond_wait" => count[Waits(t)] = 0
    /\ pc[t] = "take" => old[t] = count[Waits(t)] /\ old[t] > 0
    /\ pc[t] = "store" => old[t] = count[Posts(t)]
    /\ pc[t] = "move" => old[t] = buffer_index
    /\ pc[t] \notin {"sem_wait", "done"} => i[t] > 0
LocalInv == \A t \in Thread : Local(t)

\* A mutex that is held is locked.
HeldLocked == \A t \in Thread, m \in Mutex : Holds(t, m) => locked[m] = 1

(* The inductive invariant behind the properties above: the mutexes, the   *)
(* sleepers and the counts at every step of sem_wait() and sem_post().     *)
SemInv == HeldLocked /\ LocalInv /\ MutualExclusion /\ NoLostWakeup /\ Conservation

(* Neither "Buffer overflow" nor "Buffer underflow" is ever printed.       *)
NoOverflow ==
    \A t \in Thread : pc[t] = "buffer" =>
        IF t \in Producer THEN buffer_index < N ELSE buffer_index > 0

(* The threads implement a bounded stack: every value inserted is dequeued *)
(* once, from the top, although indices and counts are not updated         *)
(* atomically.                                                             *)
moved == [t \in Thread |->
            IF pc[t] \in {"test", "cond_wait", "sched", "asleep", "take"} \cup Took
            THEN i[t] - 1 ELSE i[t]]
Stack == INSTANCE BoundedStack WITH
    stack <- [n \in 1 .. buffer_index |-> buffer[n - 1]]
ImplementsStack == Stack!Spec

(* With as many consumers as producers the program ends: no thread waits   *)
(* for ever for a semaphore or a mutex.                                    *)
Termination == <>Finished
=============================================================================
