----------------------------- MODULE ProcProofs -----------------------------
(***************************************************************************)
(* Proofs about the process table of proc.c and the address spaces of its  *)
(* processes, for any number of slots, CPUs and page directories.          *)
(***************************************************************************)
EXTENDS Proc, WellFoundedInduction, TLAPS

\* Time for the provers, in seconds: a goal that one gives up is tried again.
USE SMTT(60), SMTT(55), SMTT(50), SMTT(45), SMTT(40), SMTT(30), ZenonT(60)

Ind == TypeOK /\ ProcInv

LEMMA SlotFacts ==
    initproc \in Slot /\ 0 \notin Slot /\ ticks \notin Slot /\ ticks # 0
BY ProcAssumption DEF Slot, initproc, ticks

LEMMA Filling ==
    ASSUME Ind, NEW p \in Slot, pc[p] \in {"fork", "thread_create"}
    PROVE  np[p] \in Slot /\ state[np[p]] = "EMBRYO" /\ np[p] # p /\ Alive(p)
BY DEF Ind, TypeOK, ProcInv, SlotInv, EmbryoOwned, Alive

-----------------------------------------------------------------------------
\* Each step keeps the types.
LEMMA TypeStep == ASSUME Ind, [Next]_vars PROVE TypeOK'
<1> USE SlotFacts DEF table
<1>0. TypeOK
  BY DEF Ind
<1> USE <1>0
<1>1. ASSUME NEW p \in Slot, NEW call \in {"fork", "thread_create"}, allocproc(p, call)
      PROVE  TypeOK'
  <2> USE <1>1
  <2>1. nextpid \in 0 .. MaxPid /\ nextpid' \in 1 .. MaxPid + 1
    BY ProcAssumption DEF allocproc, TypeOK
  <2>2. pid' \in [Slot -> 0 .. MaxPid]
    BY <2>1 DEF allocproc, TypeOK
  <2>3. state' \in [Slot -> State] /\ pc' \in [Slot -> Call] /\ np' \in [Slot -> Slot \cup {0}]
    BY DEF allocproc, TypeOK, State, Call
  <2>. QED BY <2>1, <2>2, <2>3 DEF allocproc, TypeOK
<1>2. ASSUME NEW p \in Slot, kstack_failed(p) PROVE TypeOK'
  BY <1>2, ZenonT(120) DEF kstack_failed, TypeOK, State, Call
<1>3. ASSUME NEW p \in Slot, copyuvm_failed(p) PROVE TypeOK'
  BY <1>3, ZenonT(120) DEF copyuvm_failed, TypeOK, State, Call
<1>4. ASSUME NEW p \in Slot, fork(p) PROVE TypeOK'
  BY <1>4, Filling DEF fork, TypeOK, State, Call
<1>5. ASSUME NEW p \in Slot, thread_create(p) PROVE TypeOK'
  BY <1>5, ZenonT(120) DEF thread_create, TypeOK, State, Call
<1>6. ASSUME NEW p \in Slot, exec(p) PROVE TypeOK'
  BY <1>6 DEF exec, TypeOK
<1>7. ASSUME NEW p \in Slot, exit(p) PROVE TypeOK'
  BY <1>7 DEF exit, wakeup1, TypeOK, State
<1>8. ASSUME NEW p \in Slot, NEW t, NEW call \in {"wait", "thread_join"}, NEW frees,
             Collect(p, Kids(p, t), call, frees)
      PROVE  TypeOK'
  <2> USE <1>8
  <2>0. UNCHANGED <<isthread, pgdir, nextpid, np, joined>>
    BY DEF Collect
  <2> USE <2>0
  <2>1. ASSUME NEW q \in Slot, Reap(p, q, frees) PROVE TypeOK'
    <3> USE <2>1
    <3>1. pid' \in [Slot -> 0 .. MaxPid]
      BY ProcAssumption DEF Reap, TypeOK
    <3>2. live' \subseteq PageDir
      BY DEF Reap, TypeOK
    <3>. QED BY <3>1, <3>2 DEF Reap, TypeOK, State, Call
  <2>2. CASE ReturnError(p)
    BY <2>2 DEF ReturnError, TypeOK, Call
  <2>3. CASE SleepOnSelf(p, call)
    BY <2>3 DEF SleepOnSelf, TypeOK, State, Call
  <2>. QED BY <2>1, <2>2, <2>3, ZenonT(120) DEF Collect, Kids
<1>9. ASSUME NEW k \in KillPids, kill(k) PROVE TypeOK'
  BY <1>9 DEF kill, TypeOK, State
<1>10. ASSUME NEW p \in Slot, sys_sleep(p) PROVE TypeOK'
  BY <1>10 DEF sys_sleep, TypeOK, Call
<1>11. ASSUME NEW p \in Slot, sleep(p) PROVE TypeOK'
  BY <1>11 DEF sleep, TypeOK, State, Call
<1>12. ASSUME NEW p \in Slot, sleep_return(p) PROVE TypeOK'
  BY <1>12 DEF sleep_return, TypeOK, Call
<1>13. ASSUME NEW p \in Slot, scheduler(p) PROVE TypeOK'
  BY <1>13 DEF scheduler, TypeOK, State
<1>14. ASSUME NEW p \in Slot, yield(p) PROVE TypeOK'
  BY <1>14 DEF yield, TypeOK, State
<1>15. CASE wakeup
  BY <1>15 DEF wakeup, wakeup1, TypeOK, State
<1>16. CASE UNCHANGED vars
  BY <1>16 DEF vars, TypeOK
<1>. QED
  BY <1>1, <1>2, <1>3, <1>4, <1>5, <1>6, <1>7, <1>8, <1>9, <1>10, <1>11, <1>12, <1>13,
     <1>14, <1>15, <1>16, ZenonT(120) DEF Next, Step, ThreadStep, thread_exit, wait, thread_join

-----------------------------------------------------------------------------
\* A step after which the same slots are alive, zombies and embryos, with the
\* same parents, keeps ProcInv if it treats the sleepers right.
LEMMA SameProcesses ==
    ASSUME Ind, UNCHANGED <<parent, isthread, np>>,
           \A q \in Slot : /\ Alive(q)' <=> Alive(q)
                           /\ state'[q] = "ZOMBIE" <=> state[q] = "ZOMBIE"
                           /\ state'[q] = "EMBRYO" <=> state[q] = "EMBRYO",
           \A q \in Slot : pc'[q] \in {"fork", "thread_create"} <=>
                           pc[q] \in {"fork", "thread_create"},
           \A q \in Slot : pc'[q] # "user" => Alive(q),
           \A q \in Slot : state'[q] = "SLEEPING" =>
                           (InWait(q)' /\ chan'[q] = q) \/ pc'[q] = "slept",
           \A q \in Slot : killed'[q] /\ InWait(q)' => state'[q] # "SLEEPING",
           \A q \in Slot : state'[q] = "SLEEPING" /\ InWait(q)' =>
               \/ state[q] = "SLEEPING" /\ pc'[q] = pc[q]
               \/ WaitsFor(q)' # {} /\ \A r \in WaitsFor(q)' : Alive(r)'
    PROVE  ProcInv'
<1>0. TypeOK /\ ProcInv
  BY DEF Ind
<1> USE <1>0
<1>1. \A q \in Slot : Process(q)' <=> Process(q)
  BY DEF Process
<1>2. ParentAlive'
  BY <1>1 DEF ProcInv, ParentAlive
<1>3. EmbryoOwned'
  BY DEF TypeOK, ProcInv, EmbryoOwned
<1>4. SlotInv'
  BY <1>1, SlotFacts DEF ProcInv, SlotInv
<1>5. KillReachesWaiter'
  BY DEF KillReachesWaiter
<1>6. ASSUME NEW q \in Slot, (state[q] = "SLEEPING" /\ InWait(q))'
      PROVE  WaitsFor(q)' # {} /\ \A r \in WaitsFor(q)' : Alive(r)'
  <2> USE <1>6
  <2>1. CASE state[q] = "SLEEPING" /\ pc'[q] = pc[q]
    <3> USE <2>1
    <3>1. WaitsFor(q)' = WaitsFor(q) /\ InWait(q)
      BY DEF WaitsFor, Kids, InWait
    <3>2. WaitsFor(q) # {} /\ \A r \in WaitsFor(q) : r \in Slot /\ Alive(r)
      BY <3>1 DEF ProcInv, WaiterHasChild, WaitsFor, Kids
    <3>. QED BY <3>1, <3>2
  <2>. QED BY <2>1
<1>7. WaiterHasChild'
  BY <1>6 DEF WaiterHasChild
<1>. QED BY <1>2, <1>3, <1>4, <1>5, <1>7 DEF ProcInv

\* The steps that move processes between the states of living ones.
LEMMA QuietStep ==
    ASSUME Ind,
           \/ wakeup
           \/ UNCHANGED vars
           \/ \E k \in KillPids : kill(k)
           \/ \E p \in Slot : exec(p) \/ sys_sleep(p) \/ sleep(p) \/ sleep_return(p)
                               \/ scheduler(p) \/ yield(p)
    PROVE  ProcInv'
<1> USE DEF table, Running, Syscall, InUser
<1>0. TypeOK /\ SlotInv /\ KillReachesWaiter
  BY DEF Ind, ProcInv
<1> USE <1>0
<1>1. CASE wakeup
  BY <1>1, SameProcesses DEF wakeup, wakeup1, TypeOK, SlotInv, KillReachesWaiter, Alive, InWait
<1>2. CASE UNCHANGED vars
  BY <1>2, SameProcesses DEF vars, SlotInv, KillReachesWaiter, Alive, InWait
<1>3. ASSUME NEW k \in KillPids, kill(k) PROVE ProcInv'
  BY <1>3, SameProcesses DEF kill, TypeOK, SlotInv, KillReachesWaiter, Alive, InWait
<1>4. ASSUME NEW p \in Slot, exec(p) PROVE ProcInv'
  BY <1>4, SameProcesses DEF exec, SlotInv, KillReachesWaiter, Alive, InWait
<1>5. ASSUME NEW p \in Slot, sys_sleep(p) PROVE ProcInv'
  BY <1>5, SameProcesses DEF sys_sleep, TypeOK, SlotInv, KillReachesWaiter, Alive, InWait
<1>6. ASSUME NEW p \in Slot, sleep(p) PROVE ProcInv'
  BY <1>6, SameProcesses DEF sleep, TypeOK, SlotInv, KillReachesWaiter, Alive, InWait
<1>7. ASSUME NEW p \in Slot, sleep_return(p) PROVE ProcInv'
  BY <1>7, SameProcesses DEF sleep_return, TypeOK, SlotInv, KillReachesWaiter, Alive, InWait
<1>8. ASSUME NEW p \in Slot, scheduler(p) PROVE ProcInv'
  BY <1>8, SameProcesses DEF scheduler, TypeOK, SlotInv, KillReachesWaiter, Alive, InWait
<1>9. ASSUME NEW p \in Slot, yield(p) PROVE ProcInv'
  BY <1>9, SameProcesses DEF yield, TypeOK, SlotInv, KillReachesWaiter, Alive, InWait
<1>. QED BY <1>1, <1>2, <1>3, <1>4, <1>5, <1>6, <1>7, <1>8, <1>9

-----------------------------------------------------------------------------
\* allocproc() reserves a free slot for p.
LEMMA AllocStep ==
    ASSUME Ind, NEW p \in Slot, NEW call \in {"fork", "thread_create"}, allocproc(p, call)
    PROVE  ProcInv'
<1> USE DEF Running, Syscall, InUser
<1>0. TypeOK /\ ParentAlive /\ WaiterHasChild /\ KillReachesWaiter /\ EmbryoOwned /\ SlotInv
  BY DEF Ind, ProcInv
<1> USE <1>0
<1>1. PICK c \in Slot : state[c] = "UNUSED" /\ state' = [state EXCEPT ![c] = "EMBRYO"]
                        /\ np' = [np EXCEPT ![p] = c]
  BY ZenonT(120) DEF allocproc, First
<1> USE <1>1
<1>2. \A q \in Slot : /\ state'[q] = IF q = c THEN "EMBRYO" ELSE state[q]
                      /\ np'[q] = IF q = p THEN c ELSE np[q]
                      /\ pc'[q] = IF q = p THEN call ELSE pc[q]
  BY DEF allocproc, TypeOK
<1> USE <1>2
<1>3. UNCHANGED <<parent, isthread, chan, killed>> /\ state[p] = "RUNNING" /\ pc[p] = "user"
  BY DEF allocproc
<1> USE <1>3
<1>4. \A q \in Slot : /\ Alive(q)' <=> Alive(q)
                      /\ Process(q)' <=> Process(q)
  BY DEF Alive, Process
<1> USE <1>4
<1>5. ParentAlive'
  BY DEF ParentAlive
<1>6. EmbryoOwned'
  BY SlotFacts DEF EmbryoOwned, TypeOK, Alive
<1>7. SlotInv'
  BY SlotFacts DEF SlotInv, Alive, InWait
<1>8. KillReachesWaiter'
  BY DEF KillReachesWaiter, InWait
<1>9. ASSUME NEW q \in Slot, (state[q] = "SLEEPING" /\ InWait(q))'
      PROVE  WaitsFor(q)' # {} /\ \A r \in WaitsFor(q)' : Alive(r)'
  <2>1. state[q] = "SLEEPING" /\ InWait(q) /\ WaitsFor(q)' = WaitsFor(q)
    BY <1>9 DEF WaitsFor, Kids, InWait
  <2>2. WaitsFor(q) # {} /\ \A r \in WaitsFor(q) : r \in Slot /\ Alive(r)
    BY <2>1 DEF WaiterHasChild, WaitsFor, Kids
  <2>. QED BY <2>1, <2>2
<1>. QED BY <1>5, <1>6, <1>7, <1>8, <1>9 DEF ProcInv, WaiterHasChild

\* A failed allocation gives the slot back.
LEMMA FailedStep ==
    ASSUME Ind, NEW p \in Slot, kstack_failed(p) \/ copyuvm_failed(p) PROVE ProcInv'
<1> USE DEF Running
<1>0. TypeOK /\ ParentAlive /\ WaiterHasChild /\ KillReachesWaiter /\ EmbryoOwned /\ SlotInv
  BY DEF Ind, ProcInv
<1> USE <1>0
<1>1. PICK c \in Slot : c = np[p] /\ state[c] = "EMBRYO" /\ c # p /\ Alive(p)
  BY Filling DEF kstack_failed, copyuvm_failed
<1> USE <1>1
<1>2. \A q \in Slot : /\ state'[q] = IF q = c THEN "UNUSED" ELSE state[q]
                      /\ np'[q] = IF q = p THEN 0 ELSE np[q]
                      /\ pc'[q] = IF q = p THEN "user" ELSE pc[q]
  BY DEF kstack_failed, copyuvm_failed, TypeOK
<1> USE <1>2
<1>3. UNCHANGED <<parent, isthread, chan, killed>> /\ state[p] = "RUNNING"
  BY DEF kstack_failed, copyuvm_failed
<1> USE <1>3
<1>4. \A q \in Slot : /\ Alive(q)' <=> Alive(q)
                      /\ Process(q)' <=> Process(q)
  BY DEF Alive, Process
<1> USE <1>4
<1>5. ParentAlive'
  BY DEF ParentAlive
<1>6. EmbryoOwned'
  <2>1. ASSUME NEW q \in Slot, np'[q] # 0 PROVE Alive(q)' /\ state'[np'[q]] = "EMBRYO"
    <3> USE <2>1
    <3>1. q # p /\ np'[q] = np[q] /\ np[q] # c /\ np[q] \in Slot
      BY DEF EmbryoOwned, TypeOK
    <3>. QED BY <3>1 DEF EmbryoOwned
  <2>2. ASSUME NEW q \in Slot, NEW r \in Slot, np'[q] = np'[r], np'[q] # 0 PROVE q = r
    BY <2>2 DEF EmbryoOwned
  <2>. QED BY <2>1, <2>2 DEF EmbryoOwned
<1>7. SlotInv'
  BY SlotFacts DEF SlotInv, Alive, InWait
<1>8. KillReachesWaiter'
  BY DEF KillReachesWaiter, InWait
<1>9. ASSUME NEW q \in Slot, (state[q] = "SLEEPING" /\ InWait(q))'
      PROVE  WaitsFor(q)' # {} /\ \A r \in WaitsFor(q)' : Alive(r)'
  <2>1. state[q] = "SLEEPING" /\ InWait(q) /\ WaitsFor(q)' = WaitsFor(q)
    BY <1>9 DEF WaitsFor, Kids, InWait
  <2>2. WaitsFor(q) # {} /\ \A r \in WaitsFor(q) : r \in Slot /\ Alive(r)
    BY <2>1 DEF WaiterHasChild, WaitsFor, Kids
  <2>. QED BY <2>1, <2>2
<1>. QED BY <1>5, <1>6, <1>7, <1>8, <1>9 DEF ProcInv, WaiterHasChild

\* fork() and thread_create() turn the slot into a child of p.
LEMMA CreateStep ==
    ASSUME Ind, NEW p \in Slot, fork(p) \/ thread_create(p) PROVE ProcInv'
<1> USE DEF Running
<1>0. TypeOK /\ ParentAlive /\ WaiterHasChild /\ KillReachesWaiter /\ EmbryoOwned /\ SlotInv
  BY DEF Ind, ProcInv
<1> USE <1>0
<1>1. PICK c \in Slot : c = np[p] /\ state[c] = "EMBRYO" /\ c # p /\ Alive(p) /\ state[p] = "RUNNING"
  BY Filling DEF fork, thread_create
<1> USE <1>1
<1>2. \A q \in Slot : /\ state'[q] = IF q = c THEN "RUNNABLE" ELSE state[q]
                      /\ parent'[q] = IF q = c THEN p ELSE parent[q]
                      /\ q # c => isthread'[q] = isthread[q]
                      /\ np'[q] = IF q = p THEN 0 ELSE np[q]
                      /\ pc'[q] = IF q \in {p, c} THEN "user" ELSE pc[q]
  BY DEF fork, thread_create, TypeOK
<1> USE <1>2
<1>3. UNCHANGED <<chan, killed>>
  BY DEF fork, thread_create
<1>4. /\ \A q \in Slot \ {c} : (Alive(q)' <=> Alive(q)) /\ (Process(q)' <=> Process(q))
      /\ ~Process(c) /\ Alive(c)' /\ Process(c)' /\ c # initproc /\ parent[c] = 0
  BY DEF Alive, Process, SlotInv
<1> USE <1>4
<1>5. ParentAlive'
  <2>1. ASSUME NEW q \in Slot, Process(q)', q # initproc
        PROVE  parent'[q] \in Slot /\ Alive(parent[q])'
    <3>1. CASE q = c
      BY <3>1
    <3>2. CASE q # c
      <4>1. parent'[q] = parent[q] /\ parent[q] \in Slot /\ Alive(parent[q])
        BY <2>1, <3>2 DEF ParentAlive
      <4>. QED BY <4>1
    <3>. QED BY <3>1, <3>2
  <2>. QED BY <2>1 DEF ParentAlive
<1>6. EmbryoOwned'
  <2>1. ASSUME NEW q \in Slot, np'[q] # 0 PROVE Alive(q)' /\ state'[np'[q]] = "EMBRYO"
    <3> USE <2>1
    <3>1. q # p /\ np'[q] = np[q] /\ np[q] # c /\ np[q] \in Slot
      BY DEF EmbryoOwned, TypeOK
    <3>2. q # c
      BY <3>1 DEF EmbryoOwned, Alive
    <3>. QED BY <3>1, <3>2 DEF EmbryoOwned
  <2>2. ASSUME NEW q \in Slot, NEW r \in Slot, np'[q] = np'[r], np'[q] # 0 PROVE q = r
    BY <2>2 DEF EmbryoOwned
  <2>. QED BY <2>1, <2>2 DEF EmbryoOwned
<1>7. SlotInv'
  <2>1. Alive(initproc)'
    BY SlotFacts DEF SlotInv
  <2>2. np[c] = 0
    BY DEF EmbryoOwned, Alive
  <2>3. ASSUME NEW q \in Slot, q # c
        PROVE  /\ np'[q] # 0 <=> pc'[q] \in {"fork", "thread_create"}
               /\ pc'[q] # "user" => Alive(q)'
               /\ state'[q] = "SLEEPING" => (InWait(q)' /\ chan'[q] = q) \/ pc'[q] = "slept"
               /\ parent'[q] # q
               /\ ~Process(q)' \/ q = initproc => parent'[q] = 0
    BY <1>3, <2>3 DEF SlotInv, InWait
  <2>4. /\ np'[c] # 0 <=> pc'[c] \in {"fork", "thread_create"}
        /\ pc'[c] = "user" /\ state'[c] = "RUNNABLE" /\ parent'[c] # c
    BY <2>2
  <2>. QED BY <2>1, <2>3, <2>4 DEF SlotInv
<1>8. KillReachesWaiter'
  BY <1>3 DEF KillReachesWaiter, InWait
<1>9. ASSUME NEW q \in Slot, (state[q] = "SLEEPING" /\ InWait(q))'
      PROVE  WaitsFor(q)' # {} /\ \A r \in WaitsFor(q)' : Alive(r)'
  <2>1. q # p /\ q # c /\ state[q] = "SLEEPING" /\ InWait(q) /\ pc'[q] = pc[q]
    BY <1>9 DEF InWait
  <2>2. WaitsFor(q)' = WaitsFor(q) /\ c \notin WaitsFor(q)
    BY <2>1, SlotFacts DEF WaitsFor, Kids
  <2>3. WaitsFor(q) # {} /\ \A r \in WaitsFor(q) : r \in Slot /\ Alive(r)
    BY <2>1 DEF WaiterHasChild, WaitsFor, Kids
  <2>. QED BY <2>2, <2>3
<1>. QED BY <1>5, <1>6, <1>7, <1>8, <1>9 DEF ProcInv, WaiterHasChild

-----------------------------------------------------------------------------
\* exit() leaves no child behind and wakes whoever waits for the zombies.
LEMMA ExitStep ==
    ASSUME Ind, NEW p \in Slot, exit(p) PROVE ProcInv'
<1> USE DEF Running, InUser
<1>0. TypeOK /\ ParentAlive /\ WaiterHasChild /\ KillReachesWaiter /\ EmbryoOwned /\ SlotInv
  BY DEF Ind, ProcInv
<1> USE <1>0
<1>1. state[p] = "RUNNING" /\ pc[p] = "user" /\ p # initproc
      /\ UNCHANGED <<isthread, chan, killed, np, pc>>
  BY DEF exit
<1> USE <1>1
<1>2. \A q \in Slot : parent'[q] = IF parent[q] = p THEN initproc ELSE parent[q]
  BY DEF exit
<1> USE <1>2
<1>3. \A q \in Slot \ {p} :
        /\ state'[q] = state[q] \/ (state[q] = "SLEEPING" /\ state'[q] = "RUNNABLE")
        /\ state'[q] = "SLEEPING" => chan[q] # parent[p]
        /\ state'[q] = "SLEEPING" /\ chan[q] = initproc =>
             \A r \in Slot : parent[r] = p => state[r] # "ZOMBIE"
  BY DEF exit, wakeup1
<1> USE <1>3
<1>4. state'[p] = "ZOMBIE"
  BY DEF exit, wakeup1
<1> USE <1>4
<1>5. /\ \A q \in Slot \ {p} : Alive(q)' <=> Alive(q)
      /\ \A q \in Slot : Process(q)' <=> Process(q)
      /\ Alive(p) /\ Alive(initproc) /\ parent[p] # p
  BY DEF Alive, Process, SlotInv
<1> USE <1>5
<1>6. ParentAlive'
  <2>1. ASSUME NEW q \in Slot, Process(q)', q # initproc
        PROVE  parent'[q] \in Slot /\ Alive(parent[q])'
    <3>1. Alive(initproc)' /\ initproc \in Slot
      BY SlotFacts
    <3>2. parent[q] \in Slot /\ Alive(parent[q])
      BY <2>1 DEF ParentAlive
    <3>3. CASE parent[q] = p
      BY <3>1, <3>3
    <3>4. CASE parent[q] # p
      BY <3>2, <3>4
    <3>. QED BY <3>3, <3>4
  <2>. QED BY <2>1 DEF ParentAlive
<1>7. EmbryoOwned'
  <2>1. np[p] = 0
    BY DEF SlotInv
  <2>2. ASSUME NEW q \in Slot, np[q] # 0 PROVE Alive(q)' /\ state'[np[q]] = "EMBRYO"
    <3>1. q # p /\ Alive(q) /\ np[q] \in Slot \ {p} /\ state[np[q]] = "EMBRYO"
      BY <2>1, <2>2 DEF EmbryoOwned, TypeOK
    <3>. QED BY <3>1
  <2>. QED BY <2>2 DEF EmbryoOwned
<1>8. SlotInv'
  BY SlotFacts DEF SlotInv, InWait
<1>9. KillReachesWaiter'
  BY DEF KillReachesWaiter, InWait
<1>10. ASSUME NEW q \in Slot, (state[q] = "SLEEPING" /\ InWait(q))'
       PROVE  WaitsFor(q)' # {} /\ \A r \in WaitsFor(q)' : Alive(r)'
  <2> USE <1>10
  <2>1. q # p /\ state[q] = "SLEEPING" /\ InWait(q) /\ chan[q] = q /\ q # parent[p]
    BY DEF SlotInv, InWait
  <2> USE <2>1
  <2>2. WaitsFor(q) # {} /\ \A r \in WaitsFor(q) : r \in Slot /\ Alive(r) /\ r # p
    BY DEF WaiterHasChild, WaitsFor, Kids
  <2>3. WaitsFor(q) \subseteq WaitsFor(q)'
    BY DEF WaitsFor, Kids
  <2>4. ASSUME NEW r \in WaitsFor(q)' PROVE Alive(r)'
    <3>1. r \in Slot /\ parent'[r] = q /\ (r \in WaitsFor(q) \/ parent[r] # q)
      BY <2>4 DEF WaitsFor, Kids
    <3> USE <3>1
    <3>2. CASE r \in WaitsFor(q)
      BY <2>2, <3>2
    <3>3. CASE parent[r] # q
      <4>1. parent[r] = p /\ q = initproc /\ r # p
        BY <3>3
      <4>2. state[r] # "ZOMBIE" /\ Process(r)
        BY <4>1, SlotFacts DEF SlotInv
      <4>. QED BY <4>1, <4>2 DEF Process
    <3>. QED BY <3>2, <3>3
  <2>. QED BY <2>2, <2>3, <2>4
<1>. QED BY <1>6, <1>7, <1>8, <1>9, <1>10 DEF ProcInv, WaiterHasChild

\* wait() or thread_join() removes a zombie of p from the table.
LEMMA ReapStep ==
    ASSUME Ind, NEW p \in Slot, NEW q \in Slot, NEW frees, Reap(p, q, frees),
           state[p] = "RUNNING", pc[p] \in {"user", "wait", "thread_join"},
           parent[q] = p, state[q] = "ZOMBIE", UNCHANGED <<isthread, np>>
    PROVE  ProcInv'
<1>0. TypeOK /\ ParentAlive /\ WaiterHasChild /\ KillReachesWaiter /\ EmbryoOwned /\ SlotInv
  BY DEF Ind, ProcInv
<1> USE <1>0
<1>1. q # p /\ q # initproc /\ pc[q] = "user" /\ np[p] = 0 /\ np[q] = 0
  BY SlotFacts DEF SlotInv, Alive
<1>2. \A r \in Slot : /\ state'[r] = IF r = q THEN "UNUSED" ELSE state[r]
                      /\ parent'[r] = IF r = q THEN 0 ELSE parent[r]
                      /\ killed'[r] = IF r = q THEN FALSE ELSE killed[r]
                      /\ pc'[r] = IF r = p THEN "user" ELSE pc[r]
                      /\ chan'[r] = IF r = p THEN 0 ELSE chan[r]
  BY DEF Reap, TypeOK
<1>3. /\ \A r \in Slot : Alive(r)' <=> Alive(r)
      /\ \A r \in Slot \ {q} : Process(r)' <=> Process(r)
      /\ ~Process(q)' /\ ~Alive(q)
  BY <1>2, ZenonT(120) DEF Alive, Process
<1>4. ParentAlive'
  BY <1>2, <1>3, ZenonT(120) DEF ParentAlive
<1>5. EmbryoOwned'
  BY <1>2, <1>3, ZenonT(120) DEF EmbryoOwned, TypeOK
<1>6. SlotInv'
  <2>1. Alive(initproc)'
    BY <1>3, SlotFacts DEF SlotInv
  <2>2. ASSUME NEW r \in Slot
        PROVE  /\ np'[r] # 0 <=> pc'[r] \in {"fork", "thread_create"}
               /\ pc'[r] # "user" => Alive(r)'
               /\ parent'[r] # r
    <3>1. /\ np[r] # 0 <=> pc[r] \in {"fork", "thread_create"}
          /\ pc[r] # "user" => Alive(r)
          /\ parent[r] # r
      BY DEF SlotInv
    <3>2. np'[r] # 0 <=> pc'[r] \in {"fork", "thread_create"}
      BY <1>1, <1>2, <3>1, ZenonT(120)
    <3>3. pc'[r] # "user" => Alive(r)'
      BY <1>2, <1>3, <3>1, ZenonT(120)
    <3>4. parent'[r] # r
      BY <1>2, <3>1, SlotFacts, ZenonT(120)
    <3>. QED BY <3>2, <3>3, <3>4
  <2>3. ASSUME NEW r \in Slot, state'[r] = "SLEEPING"
        PROVE  (InWait(r)' /\ chan'[r] = r) \/ pc'[r] = "slept"
    BY <1>1, <1>2, <2>3, ZenonT(120) DEF SlotInv, InWait
  <2>4. ASSUME NEW r \in Slot, ~Process(r)' \/ r = initproc PROVE parent'[r] = 0
    BY <1>1, <1>2, <1>3, <2>4, ZenonT(120) DEF SlotInv
  <2>. QED BY <2>1, <2>2, <2>3, <2>4 DEF SlotInv
<1>7. KillReachesWaiter'
  BY <1>2, ZenonT(120) DEF KillReachesWaiter, InWait
<1>8. ASSUME NEW r \in Slot, (state[r] = "SLEEPING" /\ InWait(r))'
      PROVE  WaitsFor(r)' # {} /\ \A s \in WaitsFor(r)' : Alive(s)'
  <2>1. r # p /\ state[r] = "SLEEPING" /\ InWait(r) /\ pc'[r] = pc[r]
    BY <1>2, <1>8, ZenonT(120) DEF InWait
  <2>2. WaitsFor(r) # {} /\ \A s \in WaitsFor(r) : s \in Slot /\ Alive(s)
    BY <2>1 DEF WaiterHasChild, WaitsFor, Kids
  <2>3. WaitsFor(r)' = WaitsFor(r)
    <3>1. \A s \in Slot : parent'[s] = r <=> parent[s] = r
      BY <1>2, <2>1, SlotFacts, ZenonT(120)
    <3>. QED BY <2>1, <3>1 DEF WaitsFor, Kids
  <2>. QED BY <1>3, <2>2, <2>3
<1>. QED BY <1>4, <1>5, <1>6, <1>7, <1>8 DEF ProcInv, WaiterHasChild

\* A scan of wait() or thread_join(), whatever it finds.
LEMMA CollectStep ==
    ASSUME Ind, NEW p \in Slot, NEW t \in {0, 1}, NEW call \in {"wait", "thread_join"},
           NEW frees, Collect(p, Kids(p, t), call, frees), call = "thread_join" <=> t = 1
    PROVE  ProcInv'
<1>0. TypeOK /\ SlotInv /\ KillReachesWaiter
  BY DEF Ind, ProcInv
<1> USE <1>0
<1>1. /\ state[p] = "RUNNING" /\ pc[p] \in {"user", "wait", "thread_join"}
      /\ UNCHANGED <<isthread, np>>
  BY DEF Collect, Running
<1> USE <1>1
<1>2. ASSUME NEW q \in Kids(p, t), state[q] = "ZOMBIE", Reap(p, q, frees) PROVE ProcInv'
  BY <1>2, ReapStep DEF Kids
<1>3. CASE ReturnError(p)
  BY <1>3, SameProcesses
     DEF ReturnError, TypeOK, SlotInv, KillReachesWaiter, Alive, InWait
<1>4. CASE /\ SleepOnSelf(p, call) /\ Kids(p, t) # {} /\ ~killed[p]
           /\ \A q \in Kids(p, t) : state[q] # "ZOMBIE"
  <2> USE <1>4
  <2>1. /\ UNCHANGED <<parent, killed>>
        /\ \A q \in Slot : /\ state'[q] = IF q = p THEN "SLEEPING" ELSE state[q]
                           /\ pc'[q] = IF q = p THEN call ELSE pc[q]
                           /\ chan'[q] = IF q = p THEN p ELSE chan[q]
    BY DEF SleepOnSelf, TypeOK
  <2> USE <2>1
  <2>2. WaitsFor(p)' = Kids(p, t)
    BY DEF WaitsFor, Kids
  <2>3. \A r \in Kids(p, t) : Alive(r)'
    <3>1. ASSUME NEW r \in Kids(p, t) PROVE Alive(r)'
      <4>1. r \in Slot /\ parent[r] = p /\ Process(r) /\ state[r] # "ZOMBIE"
        BY SlotFacts DEF Kids, SlotInv
      <4>. QED BY <4>1 DEF Process, Alive
    <3>. QED BY <3>1
  <2>4. \A q \in Slot : state'[q] = "SLEEPING" /\ InWait(q)' =>
               \/ state[q] = "SLEEPING" /\ pc'[q] = pc[q]
               \/ WaitsFor(q)' # {} /\ \A r \in WaitsFor(q)' : Alive(r)'
    BY <2>2, <2>3
  <2>5. \A q \in Slot : /\ Alive(q)' <=> Alive(q)
                        /\ state'[q] = "ZOMBIE" <=> state[q] = "ZOMBIE"
                        /\ state'[q] = "EMBRYO" <=> state[q] = "EMBRYO"
    BY DEF Alive
  <2>6. \A q \in Slot : /\ pc'[q] \in {"fork", "thread_create"} <=>
                           pc[q] \in {"fork", "thread_create"}
                        /\ pc'[q] # "user" => Alive(q)
    BY DEF SlotInv, Alive
  <2>7. \A q \in Slot : state'[q] = "SLEEPING" =>
                        (InWait(q)' /\ chan'[q] = q) \/ pc'[q] = "slept"
    BY DEF SlotInv, InWait
  <2>8. \A q \in Slot : killed'[q] /\ InWait(q)' => state'[q] # "SLEEPING"
    BY DEF KillReachesWaiter, InWait
  <2>. QED BY <2>4, <2>5, <2>6, <2>7, <2>8, SameProcesses
<1>. QED
  BY <1>2, <1>3, <1>4, ZenonT(120) DEF Collect, First

-----------------------------------------------------------------------------
\* userinit() establishes the invariant.
LEMMA IndInit == Init => Ind
<1> SUFFICES ASSUME Init PROVE Ind
  OBVIOUS
<1>1. TypeOK
  BY ProcAssumption, SlotFacts DEF Init, TypeOK, State, Call
<1>2. \A q \in Slot : /\ state[q] = IF q = initproc THEN "RUNNABLE" ELSE "UNUSED"
                      /\ parent[q] = 0 /\ killed[q] = FALSE /\ pc[q] = "user" /\ np[q] = 0
  BY DEF Init
<1>3. ParentAlive /\ WaiterHasChild /\ KillReachesWaiter
  BY <1>2 DEF ParentAlive, WaiterHasChild, KillReachesWaiter, Process, Alive, InWait
<1>4. EmbryoOwned /\ SlotInv
  BY <1>2, SlotFacts DEF EmbryoOwned, SlotInv, Alive
<1>. QED BY <1>1, <1>3, <1>4 DEF Ind, ProcInv

\* Every step keeps it.
LEMMA IndNext == Ind /\ [Next]_vars => Ind'
<1> SUFFICES ASSUME Ind, [Next]_vars PROVE ProcInv'
  BY TypeStep DEF Ind
<1>1. ASSUME NEW p \in Slot, Step(p) PROVE ProcInv'
  <2>1. CASE wait(p)
    <3>1. 0 \in {0, 1} /\ "wait" \in {"wait", "thread_join"}
          /\ ("wait" = "thread_join" <=> 0 = 1)
      OBVIOUS
    <3>. QED BY <2>1, <3>1, CollectStep, ZenonT(120) DEF wait
  <2>. QED BY <1>1, <2>1, AllocStep, FailedStep, CreateStep, QuietStep, ZenonT(120) DEF Step
<1>2. ASSUME NEW p \in Slot, ThreadStep(p) PROVE ProcInv'
  <2>1. CASE thread_join(p)
    BY <2>1, CollectStep, ZenonT(120) DEF thread_join
  <2>. QED
    BY <1>2, <2>1, AllocStep, CreateStep, ExitStep, QuietStep, ZenonT(120) DEF ThreadStep, thread_exit
<1>. QED BY <1>1, <1>2, QuietStep, ZenonT(120) DEF Next

LEMMA Invariance == Spec => []Ind
BY IndInit, IndNext, PTL DEF Spec

(* The fields of the process table keep their types: pids stay below the   *)
(* bound on nextpid and parent, chan and np stay pointers into the table.  *)
THEOREM ProcTypeOK == Spec => []TypeOK
<1>1. Ind => TypeOK
  BY DEF Ind
<1>. QED BY <1>1, Invariance, PTL

(* The inductive invariant of the process table, in every phase of fork(), *)
(* thread_create(), exit(), wait() and thread_join().                      *)
THEOREM ProcInvariant == Spec => []ProcInv
<1>1. Ind => ProcInv
  BY DEF Ind
<1>. QED BY <1>1, Invariance, PTL

(* The parent of every process is alive, for exit() hands the children of  *)
(* an exiting process over to init.                                        *)
THEOREM ProcParentAlive == Spec => []ParentAlive
<1>1. ProcInv => ParentAlive
  BY DEF ProcInv
<1>. QED BY <1>1, ProcInvariant, PTL

(* A process asleep in wait() or thread_join() has a living child to wake  *)
(* it and no zombie to collect: sleep() and exit() lose no wakeup.         *)
THEOREM ProcWaiterHasChild == Spec => []WaiterHasChild
<1>1. ProcInv => WaiterHasChild
  BY DEF ProcInv
<1>. QED BY <1>1, ProcInvariant, PTL

(* A killed process is never asleep in wait() or thread_join().            *)
THEOREM ProcKillReachesWaiter == Spec => []KillReachesWaiter
<1>1. ProcInv => KillReachesWaiter
  BY DEF ProcInv
<1>. QED BY <1>1, ProcInvariant, PTL

(* The slot fork() or thread_create() fills in without ptable.lock is an   *)
(* EMBRYO of its own.                                                      *)
THEOREM ProcEmbryoOwned == Spec => []EmbryoOwned
<1>1. ProcInv => EmbryoOwned
  BY DEF ProcInv
<1>. QED BY <1>1, ProcInvariant, PTL
-----------------------------------------------------------------------------
(***************************************************************************)
(* The address spaces of programs that join their threads: who has which   *)
(* page directory, from the order in which pids are given out.             *)
(***************************************************************************)
\* A set of natural numbers has a least element.
LEMMA Least == ASSUME NEW S \in SUBSET Nat, S # {} PROVE \E n \in S : \A m \in S : n <= m
<1> DEFINE R == {ss \in Nat \X Nat : ss[1] < ss[2]}
<1>1. IsWellFoundedOn(R, Nat)
  BY NatLessThanWellFounded DEF OpToRel
<1>2. \A m, n \in S : ~(<<m, n>> \in R) => n <= m
  OBVIOUS
<1> HIDE DEF R
<1>3. PICK n \in S : \A m \in S : ~(<<m, n>> \in R)
  BY <1>1, WFMin, Zenon
<1>4. \A m \in S : n <= m
  BY <1>2, <1>3, Zenon
<1>. QED BY <1>4

\* What a thread's parent is.
LEMMA ThreadParent ==
    ASSUME Ind, Spaces, NEW t \in Slot \ forked, Process(t)
    PROVE  /\ parent[t] \in Slot /\ Alive(parent[t]) /\ pgdir[parent[t]] = pgdir[t]
           /\ pid[parent[t]] < pid[t] /\ t \in Threads(parent[t])
<1>1. parent[t] \in Slot /\ Alive(parent[t])
  BY DEF Ind, ProcInv, ParentAlive, Spaces
<1>2. state[t] # "UNUSED"
  BY DEF Process, Alive
<1>. QED BY <1>1, <1>2 DEF Spaces, Threads

\* Among the threads of an address space, the oldest is a thread of the
\* process that was forked with it.
LEMMA Leader ==
    ASSUME Ind, Spaces, NEW t \in Slot \ forked, Process(t)
    PROVE  \E f \in forked : Alive(f) /\ pgdir[f] = pgdir[t] /\ Threads(f) # {}
<1> DEFINE T == {q \in Slot \ forked : Process(q) /\ pgdir[q] = pgdir[t]}
<1> DEFINE P == {pid[q] : q \in T}
<1>1. (\A q \in T : pid[q] \in Nat) /\ t \in T
  BY DEF Ind, TypeOK
<1> HIDE DEF T
<1>2. PICK q \in T : \A r \in T : pid[q] <= pid[r]
  <2>1. P \in SUBSET Nat /\ P # {}
    BY <1>1
  <2>2. PICK n \in P : \A m \in P : n <= m
    BY <2>1, Least, Zenon
  <2>. QED BY <2>2
<1> USE DEF T
<1>3. /\ parent[q] \in Slot /\ Alive(parent[q]) /\ pgdir[parent[q]] = pgdir[q]
      /\ pid[parent[q]] < pid[q] /\ q \in Threads(parent[q])
  BY ThreadParent
<1>4. pid[parent[q]] \in Nat /\ pid[q] \in Nat
  BY <1>3 DEF Ind, TypeOK
<1>5. parent[q] \in forked
  BY <1>2, <1>3, <1>4 DEF Process
<1>. QED BY <1>3, <1>5

\* A forked process without threads is alone in its address space.
LEMMA Alone ==
    ASSUME Ind, Spaces, NEW f \in forked, Threads(f) = {} \/ ~Alive(f),
           NEW q \in Slot, Process(q), q # f
    PROVE  pgdir[q] # pgdir[f]
<1>1. forked \subseteq Slot /\ \A r \in forked : Process(r) /\ (pgdir[r] = pgdir[f] => r = f)
  BY DEF Ind, TypeOK, Spaces, OwnSpaces
<1>2. CASE q \in forked
  BY <1>1, <1>2
<1>3. CASE q \notin forked
  BY <1>1, <1>3, Leader
<1>. QED BY <1>2, <1>3

LEMMA SpaceTypes ==
    ASSUME Ind
    PROVE  /\ state \in [Slot -> State] /\ pid \in [Slot -> Nat] /\ nextpid \in Nat
           /\ parent \in [Slot -> Slot \cup {0}] /\ np \in [Slot -> Slot \cup {0}]
           /\ isthread \in [Slot -> {0, 1}] /\ pgdir \in [Slot -> PageDir \cup {0}]
           /\ forked \subseteq Slot
BY DEF Ind, TypeOK

\* Steps that leave the address spaces alone.
LEMMA SpaceFrame ==
    ASSUME Ind, Spaces, UNCHANGED <<pid, nextpid, isthread, live, forked>>,
           \A q \in Slot : /\ Process(q)' <=> Process(q)
                           /\ Process(q) => pgdir'[q] = pgdir[q]
                           /\ Process(q) /\ q \notin forked => parent'[q] = parent[q]
                           /\ np'[q] \in {0, np[q]}
    PROVE  Spaces'
<1>1. forked \subseteq Slot
  BY DEF Ind, TypeOK
<1>2. \A q \in Slot \ forked : Process(q) =>
          pgdir'[q] = pgdir'[parent'[q]] /\ pid[parent'[q]] < pid[q] /\ isthread[q] = 1
  BY ThreadParent DEF Process, Spaces
<1>3. OwnSpaces'
  BY <1>1 DEF Spaces, OwnSpaces
<1>. QED BY <1>1, <1>2, <1>3 DEF Spaces

\* The slot of a new process is younger than its creator and nobody's parent.
LEMMA SpaceAlloc ==
    ASSUME Ind, Spaces, NEW p \in Slot, NEW call, allocproc(p, call) PROVE Spaces'
<1>1. PICK c \in Slot : /\ state[c] = "UNUSED" /\ state' = [state EXCEPT ![c] = "EMBRYO"]
                        /\ pid' = [pid EXCEPT ![c] = nextpid] /\ np' = [np EXCEPT ![p] = c]
  BY ZenonT(120) DEF allocproc, First
<1>2. /\ nextpid' = nextpid + 1 /\ c # p
      /\ UNCHANGED <<parent, isthread, pgdir, live, forked>>
  BY <1>1 DEF allocproc, Syscall, InUser, Running
<1>3. /\ \A q \in Slot : /\ pid'[q] = IF q = c THEN nextpid ELSE pid[q]
                         /\ np'[q] = IF q = p THEN c ELSE np[q]
                         /\ pid[q] \in Nat /\ pid[q] < nextpid
      /\ nextpid \in Nat
  BY SpaceTypes, <1>1 DEF Spaces
<1>4. \A q \in Slot : Process(q)' <=> Process(q)
  BY SpaceTypes, <1>1 DEF Process, Alive
<1>5. \A q \in Slot : np[q] # 0 => np[q] \in Slot /\ np[q] # c /\ q # c
  BY SpaceTypes, <1>1 DEF Ind, ProcInv, EmbryoOwned, Alive
<1>6. \A q \in Slot \ forked : Process(q) =>
          parent[q] \in Slot /\ parent[q] # c /\ q # c
  BY <1>1, ThreadParent DEF Process, Alive
<1>7. \A q \in Slot : pid'[q] < nextpid' /\ (np'[q] # 0 => pid'[q] < pid'[np'[q]])
  BY <1>2, <1>3, <1>5 DEF Spaces
<1>8. \A q \in Slot \ forked : Process(q) =>
          isthread[q] = 1 /\ pgdir[q] = pgdir[parent[q]] /\ pid'[parent[q]] < pid'[q]
  BY <1>2, <1>3, <1>6 DEF Spaces
<1>9. OwnSpaces'
  BY SpaceTypes, <1>2, <1>3, <1>4 DEF Spaces, OwnSpaces
<1>. QED BY SpaceTypes, <1>2, <1>3, <1>4, <1>7, <1>8, <1>9 DEF Spaces

\* fork() gives its child a directory that nobody has, thread_create() the
\* directory of the caller.
LEMMA SpaceCreate ==
    ASSUME Ind, Spaces, NEW p \in Slot, fork(p) \/ thread_create(p) PROVE Spaces'
<1>1. PICK c \in Slot : c = np[p] /\ state[c] = "EMBRYO" /\ c # p /\ Alive(p)
  BY Filling DEF fork, thread_create
<1>2. /\ parent' = [parent EXCEPT ![c] = p] /\ state' = [state EXCEPT ![c] = "RUNNABLE"]
      /\ np' = [np EXCEPT ![p] = 0] /\ UNCHANGED <<pid, nextpid>>
  BY <1>1 DEF fork, thread_create
<1>3. /\ \A q \in Slot \ {c} : Process(q)' <=> Process(q)
      /\ ~Process(c) /\ Process(c)' /\ Process(p)
  BY SpaceTypes, <1>1, <1>2 DEF Process, Alive
<1>4. /\ c \notin forked /\ pid[p] < pid[c]
      /\ \A q \in Slot : pid[q] < nextpid /\ (np'[q] # 0 => pid[q] < pid[np'[q]])
      /\ \A q \in forked : Process(q) /\ pgdir[q] \in live
      /\ \A q, r \in forked : Process(q) /\ Process(r) /\ pgdir[q] = pgdir[r] => q = r
      /\ initproc \in forked
  BY SpaceTypes, <1>1, <1>2, <1>3, SlotFacts DEF Spaces, OwnSpaces
<1>5. \A q \in Slot \ forked : Process(q) =>
          /\ parent[q] \in Slot /\ parent[q] # c /\ q # c /\ parent'[q] = parent[q]
          /\ isthread[q] = 1 /\ pgdir[q] = pgdir[parent[q]] /\ pid[parent[q]] < pid[q]
  BY SpaceTypes, <1>2, <1>3, ThreadParent DEF Process, Spaces
<1>6. CASE fork(p)
  <2>1. PICK d \in PageDir \ live : pgdir' = [pgdir EXCEPT ![c] = d] /\ live' = live \cup {d}
    BY <1>1, <1>6, ZenonT(120) DEF fork
  <2>2. forked' = forked \cup {c} /\ isthread' = isthread
    BY <1>1, <1>6 DEF fork
  <2>3. OwnSpaces'
    BY SpaceTypes, <1>3, <1>4, <2>1, <2>2 DEF OwnSpaces
  <2>4. \A q \in forked' : Process(q)' /\ pgdir'[q] \in live'
    BY SpaceTypes, <1>3, <1>4, <2>1, <2>2
  <2>5. \A q \in Slot \ forked' : Process(q)' =>
            isthread'[q] = 1 /\ pgdir'[q] = pgdir'[parent'[q]] /\ pid[parent'[q]] < pid[q]
    BY SpaceTypes, <1>3, <1>5, <2>1, <2>2
  <2>. QED BY <1>2, <1>4, <2>2, <2>3, <2>4, <2>5 DEF Spaces
<1>7. CASE thread_create(p)
  <2>1. /\ pgdir' = [pgdir EXCEPT ![c] = pgdir[p]] /\ isthread' = [isthread EXCEPT ![c] = 1]
        /\ forked' = forked /\ live' = live
    BY <1>1, <1>4, <1>7 DEF thread_create
  <2>2. OwnSpaces'
    BY SpaceTypes, <1>3, <1>4, <2>1 DEF OwnSpaces
  <2>3. \A q \in forked' : Process(q)' /\ pgdir'[q] \in live'
    BY SpaceTypes, <1>3, <1>4, <2>1
  <2>4. \A q \in Slot \ forked' : Process(q)' =>
            isthread'[q] = 1 /\ pgdir'[q] = pgdir'[parent'[q]] /\ pid[parent'[q]] < pid[q]
    BY SpaceTypes, <1>1, <1>2, <1>3, <1>4, <1>5, <2>1
  <2>. QED BY <1>2, <1>4, <2>1, <2>2, <2>3, <2>4 DEF Spaces
<1>. QED BY <1>6, <1>7

\* exec() frees a directory that only its caller has.
LEMMA SpaceExec ==
    ASSUME Ind, Spaces, joined', NEW p \in Slot, exec(p) PROVE Spaces'
<1>0. p \in forked /\ Threads(p) = {}
  BY Zenon DEF exec
<1>1. /\ p \in forked /\ Threads(p) = {} /\ Process(p)
      /\ UNCHANGED <<state, pid, parent, isthread, nextpid, np, forked>>
  BY <1>0 DEF exec, Syscall, InUser, Running, Process, Alive
<1>2. PICK d \in PageDir \ live : pgdir' = [pgdir EXCEPT ![p] = d]
                                  /\ live' = (live \cup {d}) \ {pgdir[p]}
  BY ZenonT(120) DEF exec
<1>3. /\ \A q \in Slot : pgdir'[q] = IF q = p THEN d ELSE pgdir[q]
      /\ d # pgdir[p] /\ \A q \in forked : Process(q) /\ pgdir[q] \in live
  BY SpaceTypes, <1>1, <1>2 DEF Spaces
<1>4. \A q \in Slot : Process(q) /\ q # p => pgdir[q] # pgdir[p]
  BY <1>1, Alone
<1>5. \A q \in Slot \ forked : Process(q) => parent[q] \in Slot /\ parent[q] # p /\ q # p
  BY <1>1, ThreadParent
<1>6. \A q \in Slot : Process(q)' <=> Process(q)
  BY <1>1 DEF Process, Alive
<1>7. OwnSpaces'
  BY SpaceTypes, <1>1, <1>2, <1>3, <1>4, <1>6 DEF Spaces, OwnSpaces
<1>. QED BY SpaceTypes, <1>1, <1>2, <1>3, <1>4, <1>5, <1>6, <1>7 DEF Spaces

\* wait() frees the directory of a zombie, which nobody alive has.
LEMMA SpaceReap ==
    ASSUME Ind, Spaces, NEW p \in Slot, NEW q \in Slot, NEW frees \in BOOLEAN, Reap(p, q, frees),
           parent[q] = p, state[q] = "ZOMBIE", frees => isthread[q] = 0,
           UNCHANGED <<isthread, pgdir, nextpid, np>>
    PROVE  Spaces'
<1>0. /\ state' = [state EXCEPT ![q] = "UNUSED"] /\ pid' = [pid EXCEPT ![q] = 0]
      /\ parent' = [parent EXCEPT ![q] = 0] /\ forked' = forked \ {q}
      /\ live' = IF frees THEN live \ {pgdir[q]} ELSE live
  BY DEF Reap
<1>1. Process(q) /\ ~Alive(q) /\ q # initproc /\ forked \subseteq Slot
  BY SlotFacts, SpaceTypes DEF Process, Alive, Ind, ProcInv, SlotInv
<1>2. \A r \in Slot : /\ parent'[r] = IF r = q THEN 0 ELSE parent[r]
                      /\ pid'[r] = IF r = q THEN 0 ELSE pid[r]
                      /\ pid[r] \in Nat /\ pid[r] < nextpid
                      /\ Process(r)' <=> Process(r) /\ r # q
  BY SpaceTypes, <1>0, <1>1 DEF Process, Alive, Spaces
<1>3. \A r \in Slot : np[r] # 0 => np[r] \in Slot /\ np[r] # q /\ r # q
  BY SpaceTypes, <1>1 DEF Ind, ProcInv, EmbryoOwned, Alive
<1>4. \A r \in Slot \ forked : Process(r) => parent[r] \in Slot /\ parent[r] # q
  BY <1>1, ThreadParent
<1>5. \A r \in Slot : pid'[r] < nextpid /\ (np[r] # 0 => pid'[r] < pid'[np[r]])
  BY SpaceTypes, <1>2, <1>3 DEF Spaces
<1>6. \A r \in forked \ {q} : Process(r) /\ pgdir[r] \in live'
  <2>1. frees => q \in forked
    BY <1>1 DEF Spaces
  <2>2. \A r \in forked : r \in Slot /\ Process(r) /\ pgdir[r] \in live
    BY <1>1 DEF Spaces
  <2>3. q \in forked => \A r \in Slot : Process(r) /\ r # q => pgdir[r] # pgdir[q]
    BY <1>1, Alone
  <2>. QED BY <1>0, <1>1, <2>1, <2>2, <2>3
<1>7. OwnSpaces'
  BY <1>0, <1>1, <1>2 DEF Spaces, OwnSpaces
<1>8. \A r \in Slot \ forked' : Process(r)' =>
          isthread[r] = 1 /\ pgdir[r] = pgdir[parent'[r]] /\ pid'[parent'[r]] < pid'[r]
  BY <1>0, <1>1, <1>2, <1>4 DEF Spaces
<1>9. initproc \in forked'
  BY <1>0, <1>1 DEF Spaces
<1>. QED BY <1>0, <1>1, <1>2, <1>5, <1>6, <1>7, <1>8, <1>9 DEF Spaces

\* A process that joined its threads leaves none: exit() gives no thread to init.
LEMMA SpaceExit ==
    ASSUME Ind, Spaces, joined', NEW p \in Slot, exit(p) PROVE Spaces'
<1>0. Threads(p) = {}
  BY Zenon DEF exit
<1>1. /\ UNCHANGED <<pid, nextpid, isthread, pgdir, np, live, forked>> /\ Threads(p) = {}
      /\ \A q \in Slot : parent'[q] = IF parent[q] = p THEN initproc ELSE parent[q]
  BY <1>0, SpaceTypes DEF exit
<1>2. \A q \in Slot : Process(q)' <=> Process(q)
  BY SpaceTypes DEF exit, wakeup1, InUser, Running, Process, Alive
<1>3. \A q \in Slot : Process(q) /\ q \notin forked => parent[q] # p
  BY <1>1, ThreadParent
<1>. QED BY <1>1, <1>2, <1>3, SpaceFrame

LEMMA SpaceCollect ==
    ASSUME Ind, Spaces, NEW p \in Slot, wait(p) \/ thread_join(p) PROVE Spaces'
<1>1. PICK call \in {"wait", "thread_join"}, t \in {0, 1}, frees \in BOOLEAN :
          Collect(p, Kids(p, t), call, frees) /\ (frees => t = 0)
  BY ZenonT(120) DEF wait, thread_join
<1>2. Running(p) /\ UNCHANGED <<isthread, pgdir, nextpid, np>>
  BY <1>1 DEF Collect
<1>3. CASE ReturnError(p)
  <2>1. UNCHANGED <<state, pid, parent, live, forked>>
    BY <1>3 DEF ReturnError
  <2>. QED BY <1>2, <2>1, SpaceFrame DEF Process, Alive
<1>4. CASE SleepOnSelf(p, call)
  <2>1. state' = [state EXCEPT ![p] = "SLEEPING"] /\ UNCHANGED <<pid, parent, live, forked>>
    BY <1>4 DEF SleepOnSelf
  <2>2. \A q \in Slot : Process(q)' <=> Process(q)
    BY SpaceTypes, <1>2, <2>1 DEF Process, Alive, Running
  <2>. QED BY <1>2, <2>1, <2>2, SpaceFrame
<1>5. ASSUME NEW q \in Kids(p, t), state[q] = "ZOMBIE", Reap(p, q, frees) PROVE Spaces'
  BY <1>1, <1>2, <1>5, SpaceReap DEF Kids
<1>. QED BY <1>1, <1>3, <1>4, <1>5, ZenonT(120) DEF Collect, First

\* Every other step leaves the address spaces alone.
LEMMA SpaceQuiet ==
    ASSUME Ind, Spaces,
           \/ wakeup
           \/ UNCHANGED vars
           \/ \E k \in KillPids : kill(k)
           \/ \E p \in Slot : kstack_failed(p) \/ copyuvm_failed(p) \/ sys_sleep(p) \/ sleep(p)
                               \/ sleep_return(p) \/ scheduler(p) \/ yield(p)
    PROVE  Spaces'
<1> USE SpaceTypes DEF Running, Process, Alive
<1>1. CASE wakeup
  BY <1>1, SpaceFrame DEF wakeup, wakeup1
<1>2. CASE UNCHANGED vars
  BY <1>2, SpaceFrame DEF vars, table
<1>3. ASSUME NEW k \in KillPids, kill(k) PROVE Spaces'
  <2>1. /\ UNCHANGED <<pid, parent, isthread, pgdir, nextpid, np, live, forked>>
        /\ \A q \in Slot : state'[q] = state[q] \/ (state[q] = "SLEEPING" /\ state'[q] = "RUNNABLE")
    BY <1>3 DEF kill
  <2>. QED BY <2>1, SpaceFrame
<1>4. ASSUME NEW p \in Slot, kstack_failed(p) PROVE Spaces'
  BY <1>4, Filling, SpaceFrame DEF kstack_failed
<1>5. ASSUME NEW p \in Slot, copyuvm_failed(p) PROVE Spaces'
  <2>1. /\ state' = [state EXCEPT ![np[p]] = "UNUSED"] /\ pgdir' = [pgdir EXCEPT ![np[p]] = 0]
        /\ np' = [np EXCEPT ![p] = 0] /\ UNCHANGED <<pid, nextpid, parent, isthread, live, forked>>
        /\ np[p] \in Slot /\ state[np[p]] = "EMBRYO"
    BY <1>5, Filling DEF copyuvm_failed
  <2>. QED BY <2>1, SpaceFrame
<1>6. ASSUME NEW p \in Slot, sys_sleep(p) PROVE Spaces'
  BY <1>6, SpaceFrame DEF sys_sleep, table
<1>7. ASSUME NEW p \in Slot, sleep(p) PROVE Spaces'
  BY <1>7, SpaceFrame DEF sleep
<1>8. ASSUME NEW p \in Slot, sleep_return(p) PROVE Spaces'
  BY <1>8, SpaceFrame DEF sleep_return
<1>9. ASSUME NEW p \in Slot, scheduler(p) PROVE Spaces'
  BY <1>9, SpaceFrame DEF scheduler
<1>10. ASSUME NEW p \in Slot, yield(p) PROVE Spaces'
  BY <1>10, SpaceFrame DEF yield
<1>. QED BY <1>1, <1>2, <1>3, <1>4, <1>5, <1>6, <1>7, <1>8, <1>9, <1>10

LEMMA SpaceInit == Init => Spaces
<1> SUFFICES ASSUME Init PROVE Spaces
  OBVIOUS
<1>1. PICK d \in PageDir : pgdir = [q \in Slot |-> IF q = initproc THEN d ELSE 0] /\ live = {d}
  BY ZenonT(120) DEF Init
<1>. QED BY <1>1, SlotFacts DEF Init, Spaces, OwnSpaces, Process, Alive

\* A step that is by the rule comes after steps by the rule.
LEMMA JoinedBefore == ASSUME [Next]_vars, joined' PROVE joined
<1> USE DEF vars, table
<1>1. ASSUME NEW p \in Slot, exec(p) \/ exit(p) PROVE joined
  BY <1>1, Zenon DEF exec, exit
<1>2. ASSUME NEW p \in Slot, NEW t, NEW call, NEW frees, Collect(p, Kids(p, t), call, frees)
      PROVE  joined' = joined
  BY <1>2, Zenon DEF Collect
<1>3. ASSUME NEW p \in Slot, wait(p) \/ thread_join(p) PROVE joined' = joined
  BY <1>2, <1>3, Zenon DEF wait, thread_join
<1>4. ASSUME NEW p \in Slot, NEW call, allocproc(p, call) PROVE joined' = joined
  BY <1>4, Zenon DEF allocproc
<1>5. ASSUME NEW p \in Slot, Step(p) PROVE joined
  BY <1>1, <1>3, <1>4, <1>5, ZenonT(120)
     DEF Step, kstack_failed, copyuvm_failed, fork, scheduler, yield
<1>6. ASSUME NEW p \in Slot, ThreadStep(p) PROVE joined
  BY <1>1, <1>3, <1>4, <1>6, ZenonT(120)
     DEF ThreadStep, thread_create, thread_exit, sys_sleep, sleep, sleep_return
<1>. QED BY <1>5, <1>6, ZenonT(120) DEF Next, kill, wakeup

LEMMA SpaceNext == Ind /\ SpaceInv /\ [Next]_vars => SpaceInv'
<1> SUFFICES ASSUME Ind, SpaceInv, [Next]_vars, joined' PROVE Spaces'
  BY DEF SpaceInv
<1>0. Spaces
  BY JoinedBefore, Zenon DEF SpaceInv
<1>1. ASSUME NEW p \in Slot, Step(p) PROVE Spaces'
  BY <1>0, <1>1, SpaceAlloc, SpaceCreate, SpaceExec, SpaceCollect, SpaceQuiet, ZenonT(120) DEF Step
<1>2. ASSUME NEW p \in Slot, ThreadStep(p) PROVE Spaces'
  BY <1>0, <1>2, SpaceAlloc, SpaceCreate, SpaceExit, SpaceCollect, SpaceQuiet, ZenonT(120)
     DEF ThreadStep, thread_exit
<1>. QED BY <1>0, <1>1, <1>2, SpaceQuiet, ZenonT(120) DEF Next

(* As long as programs join their threads before they call exec() or       *)
(* exit(), a process made by fork() has a live page directory of its own   *)
(* and a thread has the directory of its older parent.                     *)
THEOREM ProcSpaces == Spec => []SpaceInv
<1>1. Init => SpaceInv
  BY SpaceInit DEF SpaceInv
<1>. QED BY <1>1, Invariance, SpaceNext, PTL DEF Spec

(* Until a program breaks that rule, nobody runs on a page directory that  *)
(* exec() or wait() freed.                                                 *)
THEOREM ProcAddressSpaceLive == Spec => []AddressSpaceLive
<1>1. ASSUME Ind, SpaceInv PROVE AddressSpaceLive
  BY <1>1, Leader DEF AddressSpaceLive, SpaceInv, Spaces, Process
<1>. QED BY <1>1, Invariance, ProcSpaces, PTL

(* Until a program breaks that rule, two processes made by fork() never    *)
(* share a page directory, whatever order exec(), exit() and wait() come   *)
(* in.                                                                     *)
THEOREM ProcAddressSpacesSeparate == Spec => []AddressSpacesSeparate
<1>1. SpaceInv => AddressSpacesSeparate
  BY DEF SpaceInv, Spaces, AddressSpacesSeparate
<1>. QED BY <1>1, ProcSpaces, PTL
=============================================================================
