----------------------------- MODULE ThreadLock -----------------------------
(***************************************************************************)
(* The mutexes and condition variables of thread_lock_impl.h, and the      *)
(* system calls thread_sleep() and thread_wakeup() they rest on.           *)
(*                                                                         *)
(* thread_sleep() is two steps, for it holds ptable.lock but not the mutex *)
(* between them: another CPU can take the mutex meanwhile.                 *)
(***************************************************************************)
EXTENDS Integers

CONSTANTS Thread, Mutex, Cond, None

ASSUME ThreadLockAssumption == None \notin Thread /\ None \notin Cond

VARIABLES
    locked,   \* m->locked
    holder,   \* the thread inside thread_sleep() with ptable.lock, or None
    chan      \* the condition variable a thread is SLEEPING on, or None

lockVars == <<locked, holder, chan>>

LockInit ==
    /\ locked = [m \in Mutex |-> 0]
    /\ holder = None
    /\ chan = [t \in Thread |-> None]

LockTypeOK ==
    /\ locked \in [Mutex -> {0, 1}]
    /\ holder \in Thread \cup {None}
    /\ chan \in [Thread -> Cond \cup {None}]

\* Mutant: the test and the assignment of m->locked are not one xchg.
thread_mutex_lock_racy(m) ==
    /\ locked' = [locked EXCEPT ![m] = 1]
    /\ UNCHANGED <<holder, chan>>

\* The xchg that finds the mutex free; one that does not changes nothing and
\* is tried again after sleep(1).  mutex_lock() of proc.c yields instead.
thread_mutex_lock(m) ==
    /\ locked[m] = 0
    /\ locked' = [locked EXCEPT ![m] = 1]
    /\ UNCHANGED <<holder, chan>>

thread_mutex_unlock(m) ==
    /\ locked' = [locked EXCEPT ![m] = 0]
    /\ UNCHANGED <<holder, chan>>

\* thread_sleep() up to mutex_unlock().
thread_sleep(t, m) ==
    /\ holder = None
    /\ holder' = t
    /\ locked' = [locked EXCEPT ![m] = 0]
    /\ UNCHANGED chan

\* thread_sleep() goes to sleep; the scheduler releases ptable.lock.
thread_sleep_sched(t, c) ==
    /\ holder = t
    /\ chan' = [chan EXCEPT ![t] = c]
    /\ holder' = None
    /\ UNCHANGED locked

\* thread_sleep() after sched(): the mutex is taken again.
thread_sleep_return(t, m) == chan[t] = None /\ thread_mutex_lock(m)

\* thread_wakeup() is wakeup(): every sleeper on c, under ptable.lock.
thread_wakeup(c) ==
    /\ holder = None
    /\ chan' = [t \in Thread |-> IF chan[t] = c THEN None ELSE chan[t]]
    /\ UNCHANGED <<locked, holder>>
=============================================================================
