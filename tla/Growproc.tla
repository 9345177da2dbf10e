------------------------------ MODULE Growproc ------------------------------
(***************************************************************************)
(* sbrk() in a process and the threads that share its page directory:      *)
(* growproc() of proc.c with allocuvm(), deallocuvm() and mappages() of    *)
(* vm.c.  Each thread has its own copy of sz.  growproc() takes no lock    *)
(* before its scan of the table, so each access to sz or to a page table   *)
(* entry is a step of its own.  Threads do not create threads.             *)
(***************************************************************************)
EXTENDS Integers

CONSTANTS Main,        \* the process
          Thread,      \* the threads it may create
          PGSIZE, KERNBASE,
          Base,        \* the size of the process when exec() returns
          Increment,   \* the arguments of sbrk()
          Serialized,  \* whether the program has a mutex around sbrk() and thread_create()
          None

ASSUME GrowprocAssumption ==
    /\ PGSIZE \in Nat \ {0} /\ KERNBASE \in Nat /\ Base \in 1 .. KERNBASE - 1
    /\ Increment \subseteq Int
    /\ Serialized \in BOOLEAN
    /\ Main \notin Thread /\ None \notin Thread \cup {Main}

Proc == {Main} \cup Thread

VARIABLES
    sz,        \* p->sz
    parent,    \* p->parent: None for Main and for threads not created yet
    isthread,  \* p->isthread
    present,   \* the pages with PTE_P in the page directory they share
    panicked,  \* mappages() found a page present: panic("remap")
    pc,
    addr,      \* sys_sbrk()'s copy of sz, which it returns
    oldsz,     \* growproc()'s
    newsz,
    a,         \* the page allocuvm() or deallocuvm() is at, or the thread being created
    owns       \* history: the bytes that each one's calls of sbrk() returned

tableVars == <<sz, parent, isthread>>
callVars == <<pc, addr, oldsz, newsz, a>>
vars == <<tableVars, present, panicked, callVars, owns>>

PGROUNDUP(n) == (n + PGSIZE - 1) \div PGSIZE      \* as a page number
Pages(n) == 0 .. PGROUNDUP(n) - 1

Runs(p) == p = Main \/ isthread[p]
MayCall(p) == Runs(p) /\ pc[p] = "user" /\ (Serialized => \A q \in Proc : pc[q] = "user")

Goto(p, l) == pc' = [pc EXCEPT ![p] = l]

\* The call returns; its locals are gone.
Return(p) ==
    /\ Goto(p, "user")
    /\ addr' = [addr EXCEPT ![p] = 0]
    /\ oldsz' = [oldsz EXCEPT ![p] = 0]
    /\ newsz' = [newsz EXCEPT ![p] = 0]
    /\ a' = [a EXCEPT ![p] = 0]

-----------------------------------------------------------------------------
\* exec() has loaded the program; no thread exists.
Init ==
    /\ sz = [p \in Proc |-> IF p = Main THEN Base ELSE 0]
    /\ parent = [p \in Proc |-> None]
    /\ isthread = [p \in Proc |-> FALSE]
    /\ present = Pages(Base)
    /\ panicked = FALSE
    /\ pc = [p \in Proc |-> "user"]
    /\ addr = [p \in Proc |-> 0]
    /\ oldsz = [p \in Proc |-> 0]
    /\ newsz = [p \in Proc |-> 0]
    /\ a = [p \in Proc |-> 0]
    /\ owns = [p \in Proc |-> {}]

\* thread_create() copies sz ...
thread_create(p, t) ==
    /\ p = Main /\ MayCall(p)
    /\ ~isthread[t]
    /\ sz' = [sz EXCEPT ![t] = sz[p]]
    /\ a' = [a EXCEPT ![p] = t]
    /\ Goto(p, "create")
    /\ UNCHANGED <<parent, isthread, present, panicked, addr, oldsz, newsz, owns>>

\* ... and only then sets parent and isthread.
thread_create_return(p) ==
    /\ pc[p] = "create"
    /\ parent' = [parent EXCEPT ![a[p]] = p]
    /\ isthread' = [isthread EXCEPT ![a[p]] = TRUE]
    /\ Return(p)
    /\ UNCHANGED <<sz, present, panicked, owns>>

\* sys_sbrk(), up to the call of growproc().
sys_sbrk(p) ==
    /\ MayCall(p)
    /\ addr' = [addr EXCEPT ![p] = sz[p]]
    /\ Goto(p, "sbrk")
    /\ UNCHANGED <<tableVars, present, panicked, oldsz, newsz, a, owns>>

\* growproc() loads sz and calls allocuvm() or deallocuvm().  A program does
\* not give back the memory it was loaded into.
growproc(p, n) ==
    /\ pc[p] = "sbrk"
    /\ sz[p] + n >= Base
    /\ oldsz' = [oldsz EXCEPT ![p] = sz[p]]
    /\ newsz' = [newsz EXCEPT ![p] = sz[p] + n]
    /\ \/ /\ n >= 0 /\ sz[p] + n < KERNBASE
          /\ a' = [a EXCEPT ![p] = PGROUNDUP(sz[p])]
          /\ Goto(p, "alloc")
       \/ /\ n < 0 /\ ~isthread[p]
          /\ a' = [a EXCEPT ![p] = PGROUNDUP(sz[p] + n)]
          /\ Goto(p, "dealloc")
    /\ UNCHANGED <<tableVars, present, panicked, addr, owns>>

\* -1 for too large a size, and for a thread that wants to shrink.
growproc_refused(p, n) ==
    /\ pc[p] = "sbrk"
    /\ IF n < 0 THEN isthread[p] ELSE sz[p] + n >= KERNBASE
    /\ Return(p)
    /\ UNCHANGED <<tableVars, present, panicked, owns>>

\* One turn of the loop of allocuvm(): kalloc() and mappages().
allocuvm(p) ==
    /\ pc[p] = "alloc" /\ a[p] < PGROUNDUP(newsz[p])
    /\ panicked' = (a[p] \in present)
    /\ present' = present \cup {a[p]}
    /\ a' = [a EXCEPT ![p] = @ + 1]
    /\ UNCHANGED <<tableVars, pc, addr, oldsz, newsz, owns>>

\* kalloc() or mappages() failed: deallocuvm() back to oldsz.
allocuvm_failed(p) ==
    /\ pc[p] = "alloc" /\ a[p] < PGROUNDUP(newsz[p])
    /\ a' = [a EXCEPT ![p] = PGROUNDUP(oldsz[p])]
    /\ Goto(p, "undo")
    /\ UNCHANGED <<tableVars, present, panicked, addr, oldsz, newsz, owns>>

\* Where deallocuvm() stops.
End(p) == PGROUNDUP(IF pc[p] = "undo" THEN newsz[p] ELSE oldsz[p])

\* One turn of the loop of deallocuvm().
deallocuvm(p) ==
    /\ pc[p] \in {"dealloc", "undo"} /\ a[p] < End(p)
    /\ present' = present \ {a[p]}
    /\ a' = [a EXCEPT ![p] = @ + 1]
    /\ UNCHANGED <<tableVars, panicked, pc, addr, oldsz, newsz, owns>>

\* growproc() returns -1 after deallocuvm().
growproc_failed(p) ==
    /\ pc[p] = "undo" /\ a[p] >= End(p)
    /\ Return(p)
    /\ UNCHANGED <<tableVars, present, panicked, owns>>

\* curproc->sz = sz;
set_sz(p) ==
    /\ \/ pc[p] = "alloc" /\ a[p] >= PGROUNDUP(newsz[p])
       \/ pc[p] = "dealloc" /\ a[p] >= End(p)
    /\ sz' = [sz EXCEPT ![p] = newsz[p]]
    /\ Goto(p, "parent")
    /\ UNCHANGED <<parent, isthread, present, panicked, addr, oldsz, newsz, a, owns>>

\* if (curproc->isthread) curproc->parent->sz = sz;
set_parent_sz(p) ==
    /\ pc[p] = "parent"
    /\ sz' = IF isthread[p] THEN [sz EXCEPT ![parent[p]] = newsz[p]] ELSE sz
    /\ Goto(p, "scan")
    /\ UNCHANGED <<parent, isthread, present, panicked, addr, oldsz, newsz, a, owns>>

\* What the return value of sbrk() means to the program.
Grant(p) ==
    owns' = IF newsz[p] >= oldsz[p]
            THEN [owns EXCEPT ![p] = @ \cup (addr[p] .. addr[p] + newsz[p] - oldsz[p] - 1)]
            ELSE [q \in Proc |-> owns[q] \ (newsz[p] .. oldsz[p] - 1)]

\* Mutant: only the threads of curproc.
set_threads_sz_own(p) ==
    /\ pc[p] = "scan"
    /\ sz' = [q \in Proc |-> IF isthread[q] /\ parent[q] = p THEN sz[p] ELSE sz[q]]
    /\ Grant(p) /\ Return(p)
    /\ UNCHANGED <<parent, isthread, present, panicked>>

\* The scan for sibling and child threads; sys_sbrk() returns addr.
set_threads_sz(p) ==
    /\ pc[p] = "scan"
    /\ sz' = [q \in Proc |-> IF isthread[q] /\ parent[q] \in {parent[p], p} THEN sz[p] ELSE sz[q]]
    /\ Grant(p) /\ Return(p)
    /\ UNCHANGED <<parent, isthread, present, panicked>>

Step(p) ==
    \/ \E t \in Thread : thread_create(p, t)
    \/ thread_create_return(p)
    \/ sys_sbrk(p)
    \/ \E n \in Increment : growproc(p, n) \/ growproc_refused(p, n)
    \/ allocuvm(p) \/ allocuvm_failed(p)
    \/ deallocuvm(p) \/ growproc_failed(p)
    \/ set_sz(p) \/ set_parent_sz(p) \/ set_threads_sz(p)

Next == ~panicked /\ \E p \in Proc : Step(p)

Spec == Init /\ [][Next]_vars

-----------------------------------------------------------------------------
PcState == {"user", "create", "sbrk", "alloc", "dealloc", "undo", "parent", "scan"}

\* Types of the state; sizes stay between Base and KERNBASE.
TypeOK ==
    /\ sz \in [Proc -> 0 .. KERNBASE - 1]
    /\ \A p \in Proc : Runs(p) => sz[p] >= Base
    /\ parent \in [Proc -> Proc \cup {None}]
    /\ isthread \in [Proc -> BOOLEAN]
    /\ present \subseteq Nat
    /\ panicked \in BOOLEAN
    /\ pc \in [Proc -> PcState]
    /\ addr \in [Proc -> 0 .. KERNBASE - 1]
    /\ oldsz \in [Proc -> 0 .. KERNBASE - 1]
    /\ newsz \in [Proc -> 0 .. KERNBASE - 1]
    /\ DOMAIN a = Proc
    /\ \A p \in Proc : a[p] \in IF pc[p] = "create" THEN Thread ELSE Nat
    /\ owns \in [Proc -> SUBSET Nat]

Quiet == \A p \in Proc : pc[p] = "user"

\* Between calls, a process and its threads, which share a page directory,
\* agree on its size.
SizesAgree == Quiet => \A p \in Proc : Runs(p) => sz[p] = sz[Main]

\* Between calls the pages below that size, and only they, are mapped.
MappedExactly == Quiet => present = Pages(sz[Main])

(* sbrk() never returns the same memory to two threads of a process, nor   *)
(* memory the program was loaded into.                                     *)
GrantsDisjoint ==
    \A p, q \in Proc :
        /\ p # q => owns[p] \cap owns[q] = {}
        /\ owns[p] \cap (0 .. Base - 1) = {}

(***************************************************************************)
(* A call at each of its steps.                                            *)
(***************************************************************************)
Family ==
    /\ ~isthread[Main] /\ parent[Main] = None
    /\ \A t \in Thread : parent[t] = IF isthread[t] THEN Main ELSE None

Size(n) == \A p \in Proc : Runs(p) => sz[p] = n
Owned(n) == \A p \in Proc : owns[p] \subseteq Base .. n - 1

Growing(p) == newsz[p] >= oldsz[p]
From(p) == PGROUNDUP(oldsz[p])
To(p) == PGROUNDUP(newsz[p])
InGrowproc(p) ==
    /\ addr[p] = oldsz[p] /\ oldsz[p] >= Base /\ newsz[p] >= Base
    /\ Owned(oldsz[p])

CallInv(p) ==
    CASE pc[p] = "user" -> TRUE
      [] pc[p] = "create" -> /\ p = Main /\ ~isthread[a[p]] /\ sz[a[p]] = sz[Main]
                             /\ Size(sz[Main]) /\ present = Pages(sz[Main]) /\ Owned(sz[Main])
      [] pc[p] = "sbrk" -> /\ Runs(p) /\ addr[p] = sz[p]
                           /\ Size(sz[p]) /\ present = Pages(sz[p]) /\ Owned(sz[p])
      [] pc[p] = "alloc" -> /\ Runs(p) /\ InGrowproc(p) /\ Size(oldsz[p]) /\ Growing(p)
                            /\ a[p] \in From(p) .. To(p)
                            /\ present = 0 .. a[p] - 1
      [] pc[p] = "undo" -> /\ Runs(p) /\ InGrowproc(p) /\ Size(oldsz[p]) /\ Growing(p)
                           /\ a[p] \in From(p) .. To(p)
                           /\ present \subseteq (0 .. From(p) - 1) \cup (a[p] .. To(p) - 1)
                           /\ 0 .. From(p) - 1 \subseteq present
      [] pc[p] = "dealloc" -> /\ p = Main /\ InGrowproc(p) /\ Size(oldsz[p]) /\ ~Growing(p)
                              /\ a[p] \in To(p) .. From(p)
                              /\ present = (0 .. To(p) - 1) \cup (a[p] .. From(p) - 1)
      [] pc[p] = "parent" -> /\ Runs(p) /\ InGrowproc(p) /\ sz[p] = newsz[p]
                             /\ present = Pages(newsz[p])
      [] pc[p] = "scan" -> /\ Runs(p) /\ InGrowproc(p) /\ sz[p] = newsz[p] /\ sz[Main] = newsz[p]
                           /\ present = Pages(newsz[p])

(* Whatever growproc() did, for the process or for any of its threads, has *)
(* reached all of them when the call returns, the pages below their size,  *)
(* and only they, are mapped, also when allocuvm() failed half-way,        *)
(* mappages() never meets a page that is mapped ("remap"), and no byte is  *)
(* given out twice: the inductive invariant of a program with a mutex      *)
(* around sbrk() and thread_create().                                      *)
GrowInv ==
    /\ Family /\ GrantsDisjoint /\ ~panicked
    /\ \A p, q \in Proc : pc[p] # "user" /\ pc[q] # "user" => p = q
    /\ SizesAgree /\ MappedExactly /\ (Quiet => Owned(sz[Main]))
    /\ \A p \in Proc : CallInv(p)
=============================================================================
