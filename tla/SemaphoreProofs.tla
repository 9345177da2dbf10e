-------------------------- MODULE SemaphoreProofs ---------------------------
(***************************************************************************)
(* Proofs about the semaphores of thread_lock_impl.h, for any number of    *)
(* producers and consumers and any size of the buffer.                     *)
(***************************************************************************)
EXTENDS Semaphore, Sequences, FiniteSetTheorems, TLAPS

\* Time for the provers, in seconds: a goal that one gives up is tried again.
USE SMTT(60), SMTT(55), SMTT(50), SMTT(45), SMTT(40), SMTT(30), ZenonT(60)

Ind == TypeOK /\ SemInv

LEMMA SemFacts ==
    /\ N \in Nat /\ N > 0 /\ None \notin Thread /\ None \notin Sem
    /\ Thread = Producer \cup Consumer /\ Producer \cap Consumer = {}
    /\ Cond = Sem /\ Mutex = Sem \cup {"mLock"}
    /\ \A t \in Thread : Waits(t) \in Sem /\ Posts(t) \in Sem /\ Waits(t) # Posts(t)
BY SemaphoreAssumption, ThreadLockAssumption DEF Sem, Waits, Posts

LEMMA AtCard ==
    ASSUME NEW T \in SUBSET Thread, NEW L \in SUBSET Label
    PROVE  /\ IsFiniteSet(At(T, L)) /\ Cardinality(At(T, L)) \in Nat
           /\ \A t \in T : pc[t] \in L => Cardinality(At(T, L)) > 0
<1>1. IsFiniteSet(T)
  BY SemaphoreAssumption, FS_Subset
<1>2. IsFiniteSet(At(T, L)) /\ Cardinality(At(T, L)) \in Nat
  BY <1>1, FS_Subset, FS_CardinalityType DEF At
<1>3. ASSUME NEW t \in T, pc[t] \in L PROVE Cardinality(At(T, L)) > 0
  <2>1. t \in At(T, L)
    BY <1>3 DEF At
  <2>. QED BY <1>2, <2>1, FS_EmptySet
<1>. QED BY <1>2, <1>3

\* How many threads of T are in a part of their loop, after one of them moved.
LEMMA AtStep ==
    ASSUME TypeOK, NEW T \in SUBSET Thread, NEW L \in SUBSET Label, NEW t \in Thread, NEW to,
           pc' = [pc EXCEPT ![t] = to]
    PROVE  Cardinality(At(T, L)') = Cardinality(At(T, L))
                + (IF t \in T /\ to \in L THEN 1 ELSE 0)
                - (IF t \in T /\ pc[t] \in L THEN 1 ELSE 0)
<1>1. IsFiniteSet(At(T, L)) /\ Cardinality(At(T, L)) \in Nat
  BY AtCard
<1>2. \A u \in Thread : pc'[u] = IF u = t THEN to ELSE pc[u]
  BY DEF TypeOK
<1>3. CASE t \in T /\ to \in L /\ pc[t] \notin L
  <2>1. At(T, L)' = At(T, L) \cup {t} /\ t \notin At(T, L)
    BY <1>2, <1>3 DEF At
  <2>2. Cardinality(At(T, L)') = Cardinality(At(T, L)) + 1
    BY <1>1, <2>1, FS_AddElement
  <2>. QED BY <1>1, <1>3, <2>2
<1>4. CASE t \in T /\ to \notin L /\ pc[t] \in L
  <2>1. At(T, L)' = At(T, L) \ {t} /\ t \in At(T, L)
    BY <1>2, <1>4 DEF At
  <2>2. Cardinality(At(T, L)') = Cardinality(At(T, L)) - 1
    BY <1>1, <2>1, FS_RemoveElement
  <2>. QED BY <1>1, <1>4, <2>2
<1>5. CASE (to \in L <=> pc[t] \in L) \/ t \notin T
  <2>1. At(T, L)' = At(T, L)
    BY <1>2, <1>5 DEF At
  <2>. QED BY <1>1, <1>5, <2>1
<1>. QED BY <1>3, <1>4, <1>5

\* What the counts say about a thread that is about to store one.
LEMMA Bounds ==
    ASSUME Ind, NEW t \in Thread
    PROVE  /\ pc[t] = "store" => count[Posts(t)] < N
           /\ pc[t] \in {"buffer", "move"} =>
                IF t \in Producer THEN buffer_index < N ELSE buffer_index > 0
<1>1. TypeOK /\ Conservation
  BY DEF Ind, SemInv
<1>2. /\ Producer \in SUBSET Thread /\ Consumer \in SUBSET Thread
      /\ Took \in SUBSET Label /\ Moved \in SUBSET Label
  BY SemFacts DEF Took, Moved, Label
<1> DEFINE a == Cardinality(At(Producer, Took))
           b == Cardinality(At(Consumer, Moved))
           c == Cardinality(At(Consumer, Took))
           d == Cardinality(At(Producer, Moved))
<1>3. a \in Nat /\ b \in Nat /\ c \in Nat /\ d \in Nat
  BY <1>2, AtCard
<1>4. /\ t \in Producer /\ pc[t] \in Took => a > 0
      /\ t \in Consumer /\ pc[t] \in Moved => b > 0
      /\ t \in Consumer /\ pc[t] \in Took => c > 0
      /\ t \in Producer /\ pc[t] \in Moved => d > 0
  BY <1>2, AtCard
<1>5. /\ count["consumer"] \in 0 .. N /\ count["producer"] \in 0 .. N /\ buffer_index \in 0 .. N
      /\ count["consumer"] + a + buffer_index + b = N
      /\ count["producer"] + c + d = buffer_index
  BY <1>1, SemFacts DEF TypeOK, Conservation, Sem
<1> HIDE DEF a, b, c, d
<1>6. /\ a > 0 => buffer_index < N
      /\ b > 0 => count["consumer"] < N
      /\ c > 0 => buffer_index > 0
      /\ d > 0 => count["producer"] < N
  BY <1>3, <1>5, SemFacts
<1>7. /\ pc[t] = "store" => pc[t] \in Moved
      /\ pc[t] \in {"buffer", "move"} => pc[t] \in Took
  BY DEF Took, Moved
<1>. QED BY <1>4, <1>6, <1>7, SemFacts DEF Posts

-----------------------------------------------------------------------------
\* A thread moves from one label of its loop to another.
LEMMA PcStep ==
    ASSUME TypeOK, NEW t \in Thread, Step(t)
    PROVE  \E to \in Label : pc' = [pc EXCEPT ![t] = to]
BY DEF Step, Goto, Label, sem_wait, sem_wait_test, sem_wait_take, sem_wait_return, thread_cond_wait,
       thread_cond_wait_sched, thread_cond_wait_return, enter, test_index, insertbuffer,
       dequeuebuffer, leave, sem_post, sem_post_load, sem_post_store, sem_post_unlock,
       thread_cond_signal, thread_exit

\* The steps keep the types.
LEMMA TypeStep == ASSUME Ind, NEW t \in Thread, Step(t) PROVE TypeOK'
<1> USE SemFacts
<1>0. TypeOK /\ LocalInv
  BY DEF Ind, SemInv
<1>1. pc' \in [Thread -> Label]
  <2>1. PICK to \in Label : pc' = [pc EXCEPT ![t] = to]
    BY <1>0, PcStep
  <2>. QED BY <1>0, <2>1 DEF TypeOK
<1>2. LockTypeOK'
  BY <1>0, ZenonT(120) DEF TypeOK, LockTypeOK, lockVars, Step, sem_wait, sem_wait_test, sem_wait_take,
       sem_wait_return, thread_cond_wait, thread_cond_wait_sched, thread_cond_wait_return, enter,
       test_index, insertbuffer, dequeuebuffer, leave, sem_post, sem_post_load, sem_post_store,
       sem_post_unlock, thread_cond_signal, thread_exit, thread_mutex_lock, thread_mutex_unlock,
       thread_sleep, thread_sleep_sched, thread_sleep_return, thread_wakeup
<1>3. count' \in [Sem -> 0 .. N]
  <2>1. CASE sem_wait_take(t)
    BY <1>0, <2>1 DEF TypeOK, LocalInv, Local, sem_wait_take, Goto
  <2>2. CASE sem_post_store(t)
    BY <1>0, <2>2, Bounds DEF TypeOK, LocalInv, Local, sem_post_store, Goto
  <2>. QED BY <1>0, <2>1, <2>2
    DEF TypeOK, Step, sem_wait, sem_wait_test, sem_wait_return, thread_cond_wait,
        thread_cond_wait_sched, thread_cond_wait_return, enter, test_index, insertbuffer,
        dequeuebuffer, leave, sem_post, sem_post_load, sem_post_unlock, thread_cond_signal,
        thread_exit
<1>4. buffer' \in [0 .. N - 1 -> 0 .. N] /\ buffer_index' \in 0 .. N /\ value' \in [Consumer -> 0 .. N]
  <2>1. CASE insertbuffer(t)
    BY <1>0, <2>1, Bounds DEF TypeOK, LocalInv, Local, insertbuffer, Goto
  <2>2. CASE dequeuebuffer(t)
    BY <1>0, <2>2, Bounds DEF TypeOK, LocalInv, Local, dequeuebuffer, Goto
  <2>. QED BY <1>0, <2>1, <2>2, ZenonT(120)
    DEF TypeOK, Step, sem_wait, sem_wait_test, sem_wait_take, sem_wait_return, thread_cond_wait,
        thread_cond_wait_sched, thread_cond_wait_return, enter, test_index, leave, sem_post,
        sem_post_load, sem_post_store, sem_post_unlock, thread_cond_signal, thread_exit
<1>5. i' \in [Thread -> 0 .. N] /\ old' \in [Thread -> 0 .. N]
  <2>1. CASE sem_wait(t)
    BY <1>0, <2>1 DEF TypeOK, sem_wait
  <2>2. CASE sem_wait_test(t) \/ test_index(t) \/ sem_post_load(t)
    BY <1>0, <2>2, ZenonT(120) DEF TypeOK, sem_wait_test, test_index, sem_post_load
  <2>3. CASE sem_wait_take(t) \/ insertbuffer(t) \/ dequeuebuffer(t) \/ sem_post_store(t)
    <3>1. i' = i /\ old' = [old EXCEPT ![t] = 0]
      BY <2>3, Zenon DEF sem_wait_take, insertbuffer, dequeuebuffer, sem_post_store
    <3>2. 0 \in 0 .. N
      OBVIOUS
    <3>. QED BY <1>0, <3>1, <3>2 DEF TypeOK
  <2>. QED BY <1>0, <2>1, <2>2, <2>3
    DEF TypeOK, Step, sem_wait_return, thread_cond_wait, thread_cond_wait_sched,
        thread_cond_wait_return, enter, leave, sem_post, sem_post_unlock, thread_cond_signal,
        thread_exit
<1>. QED BY <1>1, <1>2, <1>3, <1>4, <1>5 DEF TypeOK

-----------------------------------------------------------------------------
\* The mutexes a thread holds depend on where it is.
LEMMA OthersHold ==
    ASSUME TypeOK, NEW t \in Thread, NEW to, pc' = [pc EXCEPT ![t] = to]
    PROVE  \A u \in Thread \ {t}, m \in Mutex : Holds(u, m)' <=> Holds(u, m)
<1>1. \A u \in Thread \ {t} : pc'[u] = pc[u]
  BY DEF TypeOK
<1>. QED BY <1>1 DEF Holds, Waits, Posts

LEMMA LockStep ==
    ASSUME Ind, NEW t \in Thread, NEW to, pc' = [pc EXCEPT ![t] = to], NEW m \in Mutex,
           locked[m] = 0, locked' = [locked EXCEPT ![m] = 1],
           \A n \in Mutex : Holds(t, n)' => n = m
    PROVE  HeldLocked' /\ MutualExclusion'
<1>0. TypeOK /\ HeldLocked /\ MutualExclusion
  BY DEF Ind, SemInv
<1>1. \A u \in Thread \ {t}, n \in Mutex : Holds(u, n)' <=> Holds(u, n)
  BY <1>0, OthersHold, ZenonT(120)
<1>2. \A n \in Mutex : locked'[n] = IF n = m THEN 1 ELSE locked[n]
  BY <1>0 DEF TypeOK, LockTypeOK
<1>3. HeldLocked'
  <2>1. ASSUME NEW u \in Thread, NEW n \in Mutex, Holds(u, n)' PROVE locked'[n] = 1
    BY <1>0, <1>1, <1>2, <2>1 DEF HeldLocked, MutualExclusion
  <2>. QED BY <2>1 DEF HeldLocked
<1>4. MutualExclusion'
  <2>1. ASSUME NEW n \in Mutex, NEW u \in Thread, NEW v \in Thread, Holds(u, n)', Holds(v, n)'
        PROVE  u = v
    BY <1>0, <1>1, <2>1 DEF HeldLocked, MutualExclusion
  <2>. QED BY <2>1 DEF MutualExclusion
<1>. QED BY <1>3, <1>4

LEMMA UnlockStep ==
    ASSUME Ind, NEW t \in Thread, NEW to, pc' = [pc EXCEPT ![t] = to], NEW m \in Mutex,
           Holds(t, m), locked' = [locked EXCEPT ![m] = 0],
           \A n \in Mutex : ~Holds(t, n)'
    PROVE  HeldLocked' /\ MutualExclusion'
<1>0. TypeOK /\ HeldLocked /\ MutualExclusion
  BY DEF Ind, SemInv
<1>1. \A u \in Thread \ {t}, n \in Mutex : Holds(u, n)' <=> Holds(u, n)
  BY <1>0, OthersHold, ZenonT(120)
<1>2. \A n \in Mutex : locked'[n] = IF n = m THEN 0 ELSE locked[n]
  BY <1>0 DEF TypeOK, LockTypeOK
<1>3. HeldLocked'
  <2>1. ASSUME NEW u \in Thread, NEW n \in Mutex, Holds(u, n)' PROVE locked'[n] = 1
    BY <1>0, <1>1, <1>2, <2>1 DEF HeldLocked, MutualExclusion
  <2>. QED BY <2>1 DEF HeldLocked
<1>4. MutualExclusion'
  <2>1. ASSUME NEW n \in Mutex, NEW u \in Thread, NEW v \in Thread, Holds(u, n)', Holds(v, n)'
        PROVE  u = v
    BY <1>0, <1>1, <2>1 DEF HeldLocked, MutualExclusion
  <2>. QED BY <2>1 DEF MutualExclusion
<1>. QED BY <1>3, <1>4

LEMMA KeepStep ==
    ASSUME Ind, NEW t \in Thread, NEW to, pc' = [pc EXCEPT ![t] = to], UNCHANGED locked,
           \A n \in Mutex : Holds(t, n)' => Holds(t, n)
    PROVE  HeldLocked' /\ MutualExclusion'
<1>0. TypeOK /\ HeldLocked /\ MutualExclusion
  BY DEF Ind, SemInv
<1>1. \A u \in Thread \ {t}, n \in Mutex : Holds(u, n)' <=> Holds(u, n)
  BY <1>0, OthersHold, ZenonT(120)
<1>2. \A n \in Mutex : locked'[n] = locked[n]
  BY <1>0 DEF TypeOK, LockTypeOK
<1>3. HeldLocked'
  <2>1. ASSUME NEW u \in Thread, NEW n \in Mutex, Holds(u, n)' PROVE locked'[n] = 1
    BY <1>0, <1>1, <1>2, <2>1 DEF HeldLocked, MutualExclusion
  <2>. QED BY <2>1 DEF HeldLocked
<1>4. MutualExclusion'
  <2>1. ASSUME NEW n \in Mutex, NEW u \in Thread, NEW v \in Thread, Holds(u, n)', Holds(v, n)'
        PROVE  u = v
    BY <1>0, <1>1, <2>1 DEF HeldLocked, MutualExclusion
  <2>. QED BY <2>1 DEF MutualExclusion
<1>. QED BY <1>3, <1>4

\* The steps keep the mutexes exclusive.
LEMMA MutexStep == ASSUME Ind, NEW t \in Thread, Step(t) PROVE HeldLocked' /\ MutualExclusion'
<1>0. TypeOK /\ t \in DOMAIN pc
  BY DEF Ind, TypeOK
<1>1. Waits(t) \in Mutex /\ Posts(t) \in Mutex /\ "mLock" \in Mutex /\ Waits(t)' = Waits(t)
      /\ Posts(t)' = Posts(t)
  BY SemFacts DEF Waits, Posts
<1>2. CASE sem_wait(t) \/ thread_cond_wait_return(t)
  BY <1>0, <1>1, <1>2, LockStep
     DEF sem_wait, thread_cond_wait_return, thread_sleep_return, thread_mutex_lock, Goto, Holds
<1>3. CASE enter(t)
  BY <1>0, <1>1, <1>3, LockStep, ZenonT(120) DEF enter, thread_mutex_lock, Goto, Holds
<1>4. CASE sem_post(t)
  BY <1>0, <1>1, <1>4, LockStep, ZenonT(120) DEF sem_post, thread_mutex_lock, Goto, Holds
<1>5. CASE thread_cond_wait(t)
  BY <1>0, <1>1, <1>5, UnlockStep, ZenonT(120) DEF thread_cond_wait, thread_sleep, Goto, Holds
<1>6. CASE sem_wait_return(t)
  BY <1>0, <1>1, <1>6, UnlockStep, ZenonT(120) DEF sem_wait_return, thread_mutex_unlock, Goto, Holds
<1>7. CASE leave(t)
  BY <1>0, <1>1, <1>7, UnlockStep, ZenonT(120) DEF leave, thread_mutex_unlock, Goto, Holds
<1>8. CASE sem_post_unlock(t)
  BY <1>0, <1>1, <1>8, UnlockStep, ZenonT(120) DEF sem_post_unlock, thread_mutex_unlock, Goto, Holds
<1>9. CASE sem_wait_test(t) \/ sem_wait_take(t)
  BY <1>0, <1>1, <1>9, KeepStep DEF sem_wait_test, sem_wait_take, lockVars, Goto, Holds
<1>10. CASE test_index(t) \/ insertbuffer(t) \/ dequeuebuffer(t)
  BY <1>0, <1>1, <1>10, KeepStep DEF test_index, insertbuffer, dequeuebuffer, lockVars, Goto, Holds
<1>11. CASE sem_post_load(t) \/ sem_post_store(t)
  BY <1>0, <1>1, <1>11, KeepStep DEF sem_post_load, sem_post_store, lockVars, Goto, Holds
<1>12. CASE thread_cond_wait_sched(t) \/ thread_cond_signal(t) \/ thread_exit(t)
  BY <1>0, <1>1, <1>12, KeepStep
     DEF thread_cond_wait_sched, thread_cond_signal, thread_exit, thread_sleep_sched,
         thread_wakeup, lockVars, Goto, Holds
<1>. QED BY <1>2, <1>3, <1>4, <1>5, <1>6, <1>7, <1>8, <1>9, <1>10, <1>11, <1>12 DEF Step

-----------------------------------------------------------------------------
\* A step of t keeps what another thread knows, for they hold different mutexes.
LEMMA OthersLocal ==
    ASSUME Ind, NEW t \in Thread, Step(t), NEW u \in Thread \ {t} PROVE Local(u)'
<1> USE SemFacts DEF Goto
<1>0. TypeOK /\ Local(t) /\ Local(u) /\ MutualExclusion
  BY DEF Ind, SemInv, LocalInv
<1>1. pc'[u] = pc[u] /\ Waits(u)' = Waits(u) /\ Posts(u)' = Posts(u)
  BY <1>0, PcStep DEF TypeOK, Waits, Posts
<1>2. i'[u] = i[u] /\ old'[u] = old[u]
  BY <1>0 DEF TypeOK, Step, sem_wait, sem_wait_test, sem_wait_take, sem_wait_return, thread_cond_wait,
       thread_cond_wait_sched, thread_cond_wait_return, enter, test_index, insertbuffer,
       dequeuebuffer, leave, sem_post, sem_post_load, sem_post_store, sem_post_unlock,
       thread_cond_signal, thread_exit
<1>3. chan'[u] # None => chan'[u] = chan[u]
  BY <1>0 DEF TypeOK, LockTypeOK, Step, sem_wait, sem_wait_test, sem_wait_take, sem_wait_return,
       thread_cond_wait, thread_cond_wait_sched, thread_cond_wait_return, enter, test_index,
       insertbuffer, dequeuebuffer, leave, sem_post, sem_post_load, sem_post_store, sem_post_unlock,
       thread_cond_signal, thread_exit, lockVars, thread_sleep, thread_sleep_sched,
       thread_sleep_return, thread_mutex_lock, thread_mutex_unlock, thread_wakeup
<1>4. holder' = u <=> holder = u
  BY <1>0 DEF Step, sem_wait, sem_wait_test, sem_wait_take, sem_wait_return, thread_cond_wait,
       thread_cond_wait_sched, thread_cond_wait_return, enter, test_index,
       insertbuffer, dequeuebuffer, leave, sem_post, sem_post_load, sem_post_store, sem_post_unlock,
       thread_cond_signal, thread_exit, lockVars, thread_sleep, thread_sleep_sched,
       thread_sleep_return, thread_mutex_lock, thread_mutex_unlock, thread_wakeup
<1>5. \A m \in Mutex : Holds(t, m) => ~Holds(u, m)
  BY <1>0 DEF MutualExclusion
<1>6. /\ pc[u] \in {"cond_wait", "take"} => count'[Waits(u)] = count[Waits(u)]
      /\ pc[u] = "store" => count'[Posts(u)] = count[Posts(u)]
  <2>1. CASE sem_wait_take(t)
    BY <1>0, <1>5, <2>1 DEF TypeOK, sem_wait_take, Holds
  <2>2. CASE sem_post_store(t)
    BY <1>0, <1>5, <2>2 DEF TypeOK, sem_post_store, Holds
  <2>3. CASE UNCHANGED count
    BY <2>3
  <2>. QED BY <2>1, <2>2, <2>3
    DEF Step, sem_wait, sem_wait_test, sem_wait_return, thread_cond_wait,
        thread_cond_wait_sched, thread_cond_wait_return, enter, test_index, insertbuffer,
        dequeuebuffer, leave, sem_post, sem_post_load, sem_post_unlock, thread_cond_signal,
        thread_exit
<1>7. pc[u] = "move" => buffer_index' = buffer_index
  <2>1. CASE insertbuffer(t) \/ dequeuebuffer(t)
    BY <1>5, <2>1 DEF insertbuffer, dequeuebuffer, Holds
  <2>. QED BY <2>1
    DEF Step, sem_wait, sem_wait_test, sem_wait_take, sem_wait_return, thread_cond_wait,
        thread_cond_wait_sched, thread_cond_wait_return, enter, test_index, leave, sem_post,
        sem_post_load, sem_post_store, sem_post_unlock, thread_cond_signal, thread_exit
<1>. QED BY <1>0, <1>1, <1>2, <1>3, <1>4, <1>6, <1>7 DEF Local

\* A step of t keeps or sets up what t itself knows.
LEMMA OwnLocal == ASSUME Ind, NEW t \in Thread, Step(t) PROVE Local(t)'
<1> USE SemFacts DEF Goto, lockVars
<1>0. TypeOK /\ LockTypeOK /\ Local(t)
  BY DEF Ind, TypeOK, SemInv, LocalInv
<1>1. Waits(t)' = Waits(t) /\ Posts(t)' = Posts(t)
  BY DEF Waits, Posts
<1>2. CASE sem_wait(t)
  BY <1>0, <1>1, <1>2 DEF Local, TypeOK, sem_wait, thread_mutex_lock
<1>3. CASE sem_wait_test(t)
  BY <1>0, <1>1, <1>3 DEF Local, TypeOK, sem_wait_test
<1>4. CASE sem_wait_take(t) \/ insertbuffer(t) \/ dequeuebuffer(t) \/ sem_post_store(t)
  BY <1>0, <1>1, <1>4 DEF Local, TypeOK, sem_wait_take, insertbuffer, dequeuebuffer, sem_post_store
<1>5. CASE sem_wait_return(t) \/ leave(t) \/ sem_post_unlock(t)
  BY <1>0, <1>1, <1>5
     DEF Local, TypeOK, sem_wait_return, leave, sem_post_unlock, thread_mutex_unlock
<1>6. CASE enter(t) \/ sem_post(t)
  BY <1>0, <1>1, <1>6 DEF Local, TypeOK, enter, sem_post, thread_mutex_lock
<1>7. CASE thread_cond_wait(t)
  BY <1>0, <1>1, <1>7 DEF Local, TypeOK, thread_cond_wait, thread_sleep
<1>8. CASE thread_cond_wait_sched(t)
  BY <1>0, <1>1, <1>8 DEF Local, TypeOK, LockTypeOK, thread_cond_wait_sched, thread_sleep_sched
<1>9. CASE thread_cond_wait_return(t)
  BY <1>0, <1>1, <1>9
     DEF Local, TypeOK, thread_cond_wait_return, thread_sleep_return, thread_mutex_lock
<1>10. CASE test_index(t) \/ sem_post_load(t)
  BY <1>0, <1>1, <1>10 DEF Local, TypeOK, test_index, sem_post_load
<1>11. CASE thread_cond_signal(t) \/ thread_exit(t)
  BY <1>0, <1>1, <1>11 DEF Local, TypeOK, LockTypeOK, thread_cond_signal, thread_wakeup, thread_exit
<1>. QED BY <1>2, <1>3, <1>4, <1>5, <1>6, <1>7, <1>8, <1>9, <1>10, <1>11 DEF Step

LEMMA LocalStep == ASSUME Ind, NEW t \in Thread, Step(t) PROVE LocalInv'
BY OthersLocal, OwnLocal DEF LocalInv

-----------------------------------------------------------------------------
\* A thread asleep on a positive count has a waker.
Poster(t) == \E u \in Thread : pc[u] \in {"posted", "signal"} /\ Posts(u) = Waits(t)

\* No step loses a wakeup.
LEMMA WakeupStep == ASSUME Ind, NEW t \in Thread, Step(t) PROVE NoLostWakeup'
<1> USE SemFacts DEF Goto
<1>0. TypeOK /\ LockTypeOK /\ LocalInv /\ NoLostWakeup
  BY DEF Ind, TypeOK, SemInv
<1>1. PICK to \in Label : pc' = [pc EXCEPT ![t] = to]
  BY <1>0, PcStep
<1>2. /\ \A u \in Thread : Waits(u)' = Waits(u) /\ Posts(u)' = Posts(u)
      /\ \A u \in Thread : pc'[u] = IF u = t THEN to ELSE pc[u]
  BY <1>0, <1>1 DEF TypeOK, Waits, Posts
<1>3. SUFFICES ASSUME NEW s \in Thread, chan'[s] # None \/ pc'[s] = "sched",
                      count'[Waits(s)] # 0
               PROVE  Poster(s)'
  BY <1>2 DEF NoLostWakeup, Poster
<1>4. CASE thread_cond_signal(t)
  <2>1. holder = None /\ pc[s] # "sched" /\ pc'[s] # "sched"
    BY <1>0, <1>2, <1>4 DEF thread_cond_signal, thread_wakeup, LocalInv, Local
  <2>2. chan[s] # None /\ chan[s] # Posts(t) /\ chan[s] = Waits(s) /\ count' = count
    BY <1>0, <1>3, <1>4, <2>1
       DEF thread_cond_signal, thread_wakeup, LockTypeOK, LocalInv, Local
  <2>3. PICK u \in Thread : pc[u] \in {"posted", "signal"} /\ Posts(u) = Waits(s)
    BY <1>0, <1>3, <2>2 DEF NoLostWakeup
  <2>. QED BY <1>2, <2>2, <2>3 DEF Poster
<1>5. CASE sem_post_store(t)
  <2>1. CASE Posts(t) = Waits(s)
    <3>1. pc'[t] = "posted"
      BY <1>0, <1>5 DEF sem_post_store, TypeOK
    <3>. QED BY <1>2, <2>1, <3>1 DEF Poster
  <2>2. CASE Posts(t) # Waits(s)
    <3>1. count'[Waits(s)] = count[Waits(s)] /\ chan' = chan /\ (pc'[s] = "sched" => pc[s] = "sched")
      BY <1>0, <1>2, <1>5, <2>2 DEF sem_post_store, TypeOK, lockVars
    <3>2. PICK u \in Thread : pc[u] \in {"posted", "signal"} /\ Posts(u) = Waits(s)
      BY <1>0, <1>3, <3>1 DEF NoLostWakeup
    <3>. QED BY <1>2, <1>5, <3>2 DEF Poster, sem_post_store
  <2>. QED BY <2>1, <2>2
<1>6. CASE thread_cond_wait(t)
  <2>1. s # t /\ count' = count /\ chan' = chan
    BY <1>0, <1>3, <1>6
       DEF thread_cond_wait, thread_sleep, LocalInv, Local
  <2>2. PICK u \in Thread : pc[u] \in {"posted", "signal"} /\ Posts(u) = Waits(s)
    BY <1>0, <1>2, <1>3, <2>1 DEF NoLostWakeup
  <2>. QED BY <1>2, <1>6, <2>2 DEF Poster, thread_cond_wait
<1>7. CASE /\ \A u \in Sem : count'[u] # 0 => count[u] # 0
           /\ chan'[s] # None \/ pc'[s] = "sched" => chan[s] # None \/ pc[s] = "sched"
           /\ pc[t] \in {"posted", "signal"} => pc'[t] \in {"posted", "signal"}
  <2>1. PICK u \in Thread : pc[u] \in {"posted", "signal"} /\ Posts(u) = Waits(s)
    BY <1>0, <1>3, <1>7 DEF NoLostWakeup
  <2>. QED BY <1>2, <1>7, <2>1 DEF Poster
<1>8. CASE sem_wait_take(t)
  BY <1>0, <1>2, <1>7, <1>8 DEF sem_wait_take, LocalInv, Local, TypeOK, lockVars
<1>9. CASE thread_cond_wait_sched(t)
  BY <1>0, <1>2, <1>7, <1>9 DEF thread_cond_wait_sched, thread_sleep_sched, LockTypeOK
<1>10. CASE sem_wait(t) \/ thread_cond_wait_return(t) \/ enter(t) \/ sem_post(t)
  BY <1>0, <1>2, <1>7, <1>10
     DEF sem_wait, thread_cond_wait_return, enter, sem_post, thread_sleep_return,
         thread_mutex_lock, TypeOK
<1>11. CASE sem_wait_return(t) \/ leave(t) \/ sem_post_unlock(t)
  BY <1>0, <1>2, <1>7, <1>11
     DEF sem_wait_return, leave, sem_post_unlock, thread_mutex_unlock, TypeOK
<1>12. CASE sem_wait_test(t) \/ test_index(t) \/ insertbuffer(t) \/ dequeuebuffer(t)
            \/ sem_post_load(t) \/ thread_exit(t)
  BY <1>0, <1>2, <1>7, <1>12
     DEF sem_wait_test, test_index, insertbuffer, dequeuebuffer, sem_post_load, thread_exit,
         lockVars, TypeOK
<1>. QED BY <1>4, <1>5, <1>6, <1>8, <1>9, <1>10, <1>11, <1>12 DEF Step

-----------------------------------------------------------------------------
\* No step loses a free slot or a value.
LEMMA ConservationStep == ASSUME Ind, NEW t \in Thread, Step(t) PROVE Conservation'
<1> USE SemFacts DEF Goto
<1>0. TypeOK /\ LocalInv /\ Conservation
  BY DEF Ind, SemInv
<1>1. PICK to \in Label : pc' = [pc EXCEPT ![t] = to]
  BY <1>0, PcStep
<1>2. /\ Producer \in SUBSET Thread /\ Consumer \in SUBSET Thread
      /\ Took \in SUBSET Label /\ Moved \in SUBSET Label
  BY DEF Took, Moved, Label
<1>3. pc'[t] = to
  BY <1>0, <1>1 DEF TypeOK
<1> DEFINE a == Cardinality(At(Producer, Took))
           b == Cardinality(At(Consumer, Moved))
           c == Cardinality(At(Consumer, Took))
           d == Cardinality(At(Producer, Moved))
           joins(T, L) == IF t \in T /\ to \in L THEN 1 ELSE 0
           leaves(T, L) == IF t \in T /\ pc[t] \in L THEN 1 ELSE 0
<1>4. a \in Nat /\ b \in Nat /\ c \in Nat /\ d \in Nat
  BY <1>2, AtCard
<1>5. /\ a' = a + joins(Producer, Took) - leaves(Producer, Took)
      /\ b' = b + joins(Consumer, Moved) - leaves(Consumer, Moved)
      /\ c' = c + joins(Consumer, Took) - leaves(Consumer, Took)
      /\ d' = d + joins(Producer, Moved) - leaves(Producer, Moved)
  BY <1>0, <1>1, <1>2, AtStep, ZenonT(120)
<1>6. /\ count["consumer"] \in 0 .. N /\ count["producer"] \in 0 .. N /\ buffer_index \in 0 .. N
      /\ count["consumer"] + a + buffer_index + b = N
      /\ count["producer"] + c + d = buffer_index
  BY <1>0 DEF TypeOK, Conservation, Sem
<1>7. SUFFICES /\ count'["consumer"] + a' + buffer_index' + b' = N
               /\ count'["producer"] + c' + d' = buffer_index'
  BY DEF Conservation
<1> HIDE DEF a, b, c, d
<1>8. CASE /\ UNCHANGED <<count, buffer_index>>
           /\ to \in Took <=> pc[t] \in Took
           /\ to \in Moved <=> pc[t] \in Moved
  BY <1>4, <1>5, <1>6, <1>8
<1>9. CASE sem_wait_take(t)
  <2>1. /\ pc[t] = "take" /\ to = "taken" /\ buffer_index' = buffer_index
        /\ \A s \in Sem : count'[s] = IF s = Waits(t) THEN count[s] - 1 ELSE count[s]
    BY <1>0, <1>3, <1>9 DEF sem_wait_take, LocalInv, Local, TypeOK
  <2>2. pc[t] \notin Took \cup Moved /\ to \in Took /\ to \notin Moved
    BY <2>1 DEF Took, Moved
  <2>. QED BY <1>4, <1>5, <1>6, <2>1, <2>2 DEF Waits, Sem
<1>10. CASE sem_post_store(t)
  <2>1. /\ pc[t] = "store" /\ to = "posted" /\ buffer_index' = buffer_index
        /\ \A s \in Sem : count'[s] = IF s = Posts(t) THEN count[s] + 1 ELSE count[s]
    BY <1>0, <1>3, <1>10 DEF sem_post_store, LocalInv, Local, TypeOK
  <2>2. to \notin Took \cup Moved /\ pc[t] \in Moved /\ pc[t] \notin Took
    BY <2>1 DEF Took, Moved
  <2>. QED BY <1>4, <1>5, <1>6, <2>1, <2>2 DEF Posts, Sem
<1>11. CASE insertbuffer(t) \/ dequeuebuffer(t)
  <2>1. /\ pc[t] = "move" /\ to = "leave" /\ count' = count
        /\ buffer_index' = IF t \in Producer THEN buffer_index + 1 ELSE buffer_index - 1
    BY <1>0, <1>3, <1>11 DEF insertbuffer, dequeuebuffer, LocalInv, Local, TypeOK
  <2>2. to \notin Took /\ to \in Moved /\ pc[t] \in Took /\ pc[t] \notin Moved
    BY <2>1 DEF Took, Moved
  <2>. QED BY <1>4, <1>5, <1>6, <2>1, <2>2
<1>12. CASE test_index(t)
  BY <1>0, <1>3, <1>8, <1>12, Bounds DEF test_index, TypeOK, Took, Moved
<1>13. CASE sem_wait(t) \/ sem_wait_test(t) \/ sem_wait_return(t) \/ thread_cond_wait(t)
            \/ thread_cond_wait_sched(t) \/ thread_cond_wait_return(t)
  BY <1>0, <1>3, <1>8, <1>13
     DEF sem_wait, sem_wait_test, sem_wait_return, thread_cond_wait, thread_cond_wait_sched,
         thread_cond_wait_return, TypeOK, Took, Moved
<1>14. CASE enter(t) \/ leave(t) \/ sem_post(t) \/ sem_post_load(t) \/ sem_post_unlock(t)
            \/ thread_cond_signal(t) \/ thread_exit(t)
  BY <1>0, <1>3, <1>8, <1>14
     DEF enter, leave, sem_post, sem_post_load, sem_post_unlock, thread_cond_signal, thread_exit,
         TypeOK, Took, Moved
<1>. QED BY <1>9, <1>10, <1>11, <1>12, <1>13, <1>14 DEF Step

-----------------------------------------------------------------------------
\* main() establishes the invariant.
LEMMA IndInit == Init => Ind
<1> SUFFICES ASSUME Init PROVE Ind
  OBVIOUS
<1> USE SemFacts
<1>1. TypeOK
  BY DEF Init, LockInit, TypeOK, LockTypeOK, Label
<1>2. HeldLocked /\ LocalInv /\ MutualExclusion /\ NoLostWakeup
  BY DEF Init, LockInit, HeldLocked, LocalInv, Local, MutualExclusion, NoLostWakeup, Holds
<1>3. At(Producer, Took) = {} /\ At(Consumer, Moved) = {} /\ At(Consumer, Took) = {}
      /\ At(Producer, Moved) = {}
  BY DEF Init, At, Took, Moved
<1>4. count["consumer"] = N /\ count["producer"] = 0 /\ buffer_index = 0
  BY DEF Init, Sem
<1>5. Conservation
  BY <1>3, <1>4, FS_EmptySet DEF Conservation
<1>. QED BY <1>1, <1>2, <1>5 DEF Ind, SemInv

\* Every step keeps it.
LEMMA IndNext == Ind /\ [Next]_vars => Ind'
<1> SUFFICES ASSUME Ind, [Next]_vars PROVE Ind'
  OBVIOUS
<1>1. ASSUME NEW t \in Thread, Step(t) PROVE Ind'
  BY <1>1, TypeStep, MutexStep, LocalStep, WakeupStep, ConservationStep DEF Ind, SemInv
<1>2. CASE UNCHANGED vars
  <2>1. TypeOK' /\ HeldLocked' /\ LocalInv' /\ MutualExclusion'
    BY <1>2 DEF Ind, SemInv, vars, lockVars, TypeOK, LockTypeOK, HeldLocked, LocalInv, Local,
       MutualExclusion, Holds, Waits, Posts
  <2>2. NoLostWakeup' /\ Conservation'
    BY <1>2 DEF Ind, SemInv, vars, lockVars, NoLostWakeup, Conservation, At, Waits, Posts
  <2>. QED BY <2>1, <2>2 DEF Ind, SemInv
<1>. QED BY <1>1, <1>2 DEF Next

LEMMA Invariance == Spec => []Ind
BY IndInit, IndNext, PTL DEF Spec

(* The counts of the semaphores and buffer_index stay between 0 and N.     *)
THEOREM SemTypeOK == Spec => []TypeOK
<1>1. Ind => TypeOK
  BY DEF Ind
<1>. QED BY <1>1, Invariance, PTL

(* The inductive invariant of sem_wait() and sem_post().                   *)
THEOREM SemInvariant == Spec => []SemInv
<1>1. Ind => SemInv
  BY DEF Ind
<1>. QED BY <1>1, Invariance, PTL

(* A mutex never has two holders, however many threads compete for it.     *)
THEOREM SemMutualExclusion == Spec => []MutualExclusion
<1>1. SemInv => MutualExclusion
  BY DEF SemInv
<1>. QED BY <1>1, SemInvariant, PTL

(* thread_sleep() and thread_wakeup() lose no wakeup: no thread sleeps on  *)
(* a positive semaphore without a poster about to wake it.                 *)
THEOREM SemNoLostWakeup == Spec => []NoLostWakeup
<1>1. SemInv => NoLostWakeup
  BY DEF SemInv
<1>. QED BY <1>1, SemInvariant, PTL

(* The counts of the two semaphores always account for every slot of the   *)
(* buffer and every value in it.                                           *)
THEOREM SemConservation == Spec => []Conservation
<1>1. SemInv => Conservation
  BY DEF SemInv
<1>. QED BY <1>1, SemInvariant, PTL

(* insertbuffer() never finds the buffer full and dequeuebuffer() never    *)
(* finds it empty.                                                         *)
THEOREM SemNoOverflow == Spec => []NoOverflow
<1>1. Ind => NoOverflow
  BY Bounds DEF NoOverflow
<1>. QED BY <1>1, Invariance, PTL

-----------------------------------------------------------------------------
\* The buffer as a sequence.
LEMMA StackSeq ==
    ASSUME TypeOK
    PROVE  LET s == [n \in 1 .. buffer_index |-> buffer[n - 1]]
           IN  /\ s \in Seq(0 .. N) /\ Len(s) = buffer_index
               /\ \A n \in 1 .. buffer_index : s[n] = buffer[n - 1]
BY SemFacts DEF TypeOK

LEMMA InsertPuts ==
    ASSUME Ind, NEW t \in Thread, insertbuffer(t) PROVE Stack!Put(t)
<1> USE SemFacts DEF Goto
<1>0. TypeOK /\ Local(t)
  BY DEF Ind, SemInv, LocalInv
<1> DEFINE s == [n \in 1 .. buffer_index |-> buffer[n - 1]]
<1>1. pc[t] = "move" /\ old[t] = buffer_index /\ buffer_index < N /\ buffer_index \in 0 .. N
  BY <1>0, Bounds DEF insertbuffer, Local, TypeOK
<1>2. buffer_index' = buffer_index + 1 /\ buffer' = [buffer EXCEPT ![buffer_index] = i[t]]
  BY <1>1 DEF insertbuffer
<1>3. i[t] \in 1 .. N /\ moved[t] = i[t] - 1
  BY <1>0, <1>1 DEF Local, TypeOK, moved, Took
<1>4. s \in Seq(0 .. N) /\ Len(s) = buffer_index
  BY <1>0, StackSeq, ZenonT(120)
<1>5. s' = Append(s, i[t])
  BY <1>0, <1>1, <1>2, <1>3, <1>4 DEF TypeOK
<1>6. moved' = [moved EXCEPT ![t] = @ + 1]
  <2>1. i' = i /\ \A u \in Thread : pc'[u] = IF u = t THEN "leave" ELSE pc[u]
    BY <1>0 DEF insertbuffer, TypeOK
  <2>2. \A u \in Thread : moved'[u] = IF u = t THEN moved[u] + 1 ELSE moved[u]
    BY <1>3, <2>1 DEF moved, Took
  <2>. QED BY <2>2, ZenonT(120) DEF moved
<1>7. UNCHANGED value
  BY DEF insertbuffer
<1>8. moved[t] < N /\ moved[t] + 1 = i[t]
  BY <1>3
<1>9. Len(s) < N
  BY <1>1, <1>4
<1>. QED BY <1>5, <1>6, <1>7, <1>8, <1>9, ZenonT(120) DEF Stack!Put

LEMMA DequeueTakes ==
    ASSUME Ind, NEW t \in Thread, dequeuebuffer(t) PROVE Stack!Take(t)
<1> USE SemFacts DEF Goto
<1>0. TypeOK /\ Local(t)
  BY DEF Ind, SemInv, LocalInv
<1> DEFINE s == [n \in 1 .. buffer_index |-> buffer[n - 1]]
<1>1. pc[t] = "move" /\ old[t] = buffer_index /\ buffer_index > 0 /\ buffer_index \in 0 .. N
  BY <1>0, Bounds DEF dequeuebuffer, Local, TypeOK
<1>2. buffer_index' = buffer_index - 1 /\ buffer' = buffer
      /\ value' = [value EXCEPT ![t] = buffer[buffer_index - 1]]
  BY <1>1 DEF dequeuebuffer
<1>3. i[t] \in 1 .. N /\ moved[t] = i[t] - 1
  BY <1>0, <1>1 DEF Local, TypeOK, moved, Took
<1>4. s \in Seq(0 .. N) /\ Len(s) = buffer_index /\ s # <<>> /\ s[Len(s)] = buffer[buffer_index - 1]
  BY <1>0, <1>1, StackSeq
<1>5. s' = SubSeq(s, 1, Len(s) - 1)
  BY <1>0, <1>1, <1>2, <1>4 DEF TypeOK
<1>6. moved' = [moved EXCEPT ![t] = @ + 1]
  <2>1. i' = i /\ \A u \in Thread : pc'[u] = IF u = t THEN "leave" ELSE pc[u]
    BY <1>0 DEF dequeuebuffer, TypeOK
  <2>2. \A u \in Thread : moved'[u] = IF u = t THEN moved[u] + 1 ELSE moved[u]
    BY <1>3, <2>1 DEF moved, Took
  <2>. QED BY <2>2, ZenonT(120) DEF moved
<1>7. moved[t] < N
  BY <1>3
<1>8. value' = [value EXCEPT ![t] = s[Len(s)]]
  BY <1>2, <1>4, ZenonT(120)
<1>. QED BY <1>4, <1>5, <1>6, <1>7, <1>8, ZenonT(120) DEF Stack!Take

\* Every other step leaves the stack alone.
LEMMA OtherStepsStutter ==
    ASSUME Ind, NEW t \in Thread, Step(t), ~insertbuffer(t), ~dequeuebuffer(t)
    PROVE  UNCHANGED Stack!vars
<1> USE SemFacts DEF Goto
<1>0. TypeOK /\ Local(t)
  BY DEF Ind, SemInv, LocalInv
<1>1. UNCHANGED <<buffer, buffer_index, value>>
  BY ZenonT(120) DEF Step, sem_wait, sem_wait_test, sem_wait_take, sem_wait_return, thread_cond_wait,
         thread_cond_wait_sched, thread_cond_wait_return, enter, test_index, leave, sem_post,
         sem_post_load, sem_post_store, sem_post_unlock, thread_cond_signal, thread_exit
<1> DEFINE Before == {"test", "cond_wait", "sched", "asleep", "take"} \cup Took
<1>2. PICK to \in Label : pc' = [pc EXCEPT ![t] = to]
  BY <1>0, PcStep
<1>3. \A u \in Thread : pc'[u] = IF u = t THEN to ELSE pc[u]
  BY <1>0, <1>2 DEF TypeOK
<1>4. \/ i' = i /\ (to \in Before <=> pc[t] \in Before)
      \/ i' = [i EXCEPT ![t] = @ + 1] /\ pc[t] \notin Before /\ to \in Before
  <2>1. CASE sem_wait(t)
    <3>1. pc[t] = "sem_wait" /\ to = "test" /\ i' = [i EXCEPT ![t] = @ + 1]
      BY <1>0, <1>3, <2>1 DEF sem_wait, TypeOK
    <3>. QED BY <3>1 DEF Took
  <2>2. CASE test_index(t)
    <3>1. pc[t] = "buffer" /\ to = "move" /\ i' = i
      BY <1>0, <1>3, <2>2, Bounds DEF test_index, TypeOK
    <3>. QED BY <3>1 DEF Took
  <2>3. CASE sem_wait_test(t) \/ sem_wait_take(t) \/ sem_wait_return(t) \/ thread_cond_wait(t)
             \/ thread_cond_wait_sched(t) \/ thread_cond_wait_return(t) \/ enter(t)
    <3>1. i' = i /\ pc[t] \in Before
      BY <2>3 DEF sem_wait_test, sem_wait_take, sem_wait_return, thread_cond_wait,
                  thread_cond_wait_sched, thread_cond_wait_return, enter, Took
    <3>2. pc'[t] \in Before
      <4>1. CASE sem_wait_test(t)
        BY <1>0, <4>1 DEF sem_wait_test, TypeOK
      <4>2. CASE sem_wait_take(t) \/ sem_wait_return(t) \/ enter(t)
        BY <1>0, <4>2 DEF sem_wait_take, sem_wait_return, enter, TypeOK, Took
      <4>3. CASE thread_cond_wait(t) \/ thread_cond_wait_sched(t) \/ thread_cond_wait_return(t)
        BY <1>0, <4>3 DEF thread_cond_wait, thread_cond_wait_sched, thread_cond_wait_return, TypeOK
      <4>. QED BY <2>3, <4>1, <4>2, <4>3
    <3>. QED BY <1>3, <3>1, <3>2
  <2>4. CASE leave(t) \/ sem_post(t) \/ sem_post_load(t) \/ sem_post_store(t)
             \/ sem_post_unlock(t) \/ thread_cond_signal(t) \/ thread_exit(t)
    <3>1. i' = i /\ pc[t] \notin Before
      BY <2>4 DEF leave, sem_post, sem_post_load, sem_post_store, sem_post_unlock,
                  thread_cond_signal, thread_exit, Took
    <3>2. pc'[t] \notin Before
      <4>1. pc'[t] \in {"sem_post", "load", "store", "posted", "signal", "sem_wait", "done"}
        BY <1>0, <2>4 DEF leave, sem_post, sem_post_load, sem_post_store, sem_post_unlock,
                          thread_cond_signal, thread_exit, TypeOK
      <4>. QED BY <4>1 DEF Took
    <3>. QED BY <1>3, <3>1, <3>2
  <2>. QED BY <2>1, <2>2, <2>3, <2>4 DEF Step
<1>5. \A u \in Thread : moved'[u] = moved[u]
  <2>1. CASE i' = i /\ (to \in Before <=> pc[t] \in Before)
    BY <1>3, <2>1 DEF moved
  <2>2. CASE i' = [i EXCEPT ![t] = @ + 1] /\ pc[t] \notin Before /\ to \in Before
    <3>1. \A u \in Thread : i[u] \in Nat /\ i'[u] = IF u = t THEN i[u] + 1 ELSE i[u]
      BY <1>0, <2>2 DEF TypeOK
    <3>2. moved'[t] = moved[t]
      BY <1>3, <2>2, <3>1 DEF moved
    <3>3. \A u \in Thread \ {t} : moved'[u] = moved[u]
      BY <1>3, <3>1 DEF moved
    <3>. QED BY <3>2, <3>3
  <2>. QED BY <1>4, <2>1, <2>2
<1>6. moved' = moved
  BY <1>5, ZenonT(120) DEF moved
<1>. QED BY <1>1, <1>6 DEF Stack!vars

(* Producers and consumers implement a bounded stack: every step of the    *)
(* threads puts or takes one value, or changes nothing that matters.       *)
THEOREM SemImplementsStack == Spec => ImplementsStack
<1>1. Init => Stack!Init
  BY SemFacts DEF Init, Stack!Init, moved, Took
<1>2. Ind /\ [Next]_vars => [Stack!Next]_(Stack!vars)
  <2> SUFFICES ASSUME Ind, [Next]_vars PROVE Stack!Next \/ UNCHANGED Stack!vars
    OBVIOUS
  <2>1. ASSUME NEW t \in Thread, Step(t) PROVE Stack!Next \/ UNCHANGED Stack!vars
    <3>1. CASE insertbuffer(t)
      BY <3>1, InsertPuts, ZenonT(120) DEF Stack!Next, insertbuffer
    <3>2. CASE dequeuebuffer(t)
      BY <3>2, DequeueTakes, ZenonT(120) DEF Stack!Next, dequeuebuffer
    <3>. QED BY <2>1, <3>1, <3>2, OtherStepsStutter
  <2>2. CASE UNCHANGED vars
    BY <2>2 DEF vars, lockVars, Stack!vars, moved
  <2>. QED BY <2>1, <2>2 DEF Next
<1>. QED BY <1>1, <1>2, Invariance, PTL DEF Spec, ImplementsStack, Stack!Spec
=============================================================================
