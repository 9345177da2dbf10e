------------------------------- MODULE Memory -------------------------------
(***************************************************************************)
(* Physical pages: the free list of kalloc.c and the page tables that      *)
(* vm.c builds from it for fork(), exec() and growproc() and takes apart   *)
(* on failure and after exit.  A step is one kalloc(); several processors  *)
(* compete for the last pages, so any of them can fail half-way.  Pipes    *)
(* and threads take a page each from the same list.                        *)
(*                                                                         *)
(* Sizes are in pages.  The order of the free list is immaterial.          *)
(***************************************************************************)
EXTENDS Naturals, FiniteSets

CONSTANTS Proc, InitProc,
          Other,            \* pipes and threads
          NPAGE,            \* pages that kvmalloc() and startothers() left
          NKPT,             \* page tables that the kernel part of a space needs
          NPTENTRIES,       \* entries of a page table
          MaxSz,            \* bound on the size of a process
          MaxCalls,         \* bound on fork(), exec(), sbrk() and pipe()
          None

\* What the model needs of its constants: userinit() found its pages.
MemoryAssumption ==
    /\ InitProc \in Proc
    /\ NKPT \in Nat /\ NPTENTRIES \in Nat \ {0} /\ MaxSz \in Nat \ {0}
    /\ NPAGE \in Nat /\ NKPT + 4 <= NPAGE
    /\ None \notin 1..NPAGE /\ None \notin Proc

ASSUME MemoryConstants == MemoryAssumption

VARIABLES
    freelist,   \* kmem.freelist
    page,       \* Owner -> Entry -> the page it refers to
    used,       \* the processes whose slot is not UNUSED, threads left out
    sz,         \* Proc -> its size
    call,       \* Proc -> the call it executes
    child,      \* Proc -> the child of fork()
    i, to,      \* Proc -> the next page to map, and where to stop
    calls       \* calls so far

opVars == <<call, child, i, to>>
memVars == <<freelist, page, used, sz, opVars, calls>>

Pages == 1..NPAGE

(***************************************************************************)
(* A page is referred to from the slot of a process, or from the variables *)
(* of the call it executes; there, by a page directory and what hangs from *)
(* it, by p->kstack, or by mem, a page that is not mapped yet.  A pipe is  *)
(* a page, and a thread has one of its own, its kernel stack.              *)
(***************************************************************************)
Cur(p) == <<p, "cur">>
New(p) == <<p, "new">>
Kern(x) == <<x, "kern">>
Owner == {Cur(p) : p \in Proc} \cup {New(p) : p \in Proc} \cup {Kern(x) : x \in Other}

PDX(n) == n \div NPTENTRIES

Kstack == <<"kstack", 0>>
Mem == <<"mem", 0>>
Pgdir == <<"pgdir", 0>>
Kpt(j) == <<"kpt", j>>          \* page tables of the kernel part
Pt(j) == <<"pt", j>>            \* page tables of the user part
Pte(n) == <<"pte", n>>          \* user pages
VmEntry == {Pgdir} \cup {Kpt(j) : j \in 1..NKPT} \cup {Pt(PDX(n)) : n \in 0..(MaxSz - 1)}
              \cup {Pte(n) : n \in 0..(MaxSz - 1)}
Entry == VmEntry \cup {Kstack, Mem}

(***************************************************************************)
(* userinit() has run, with kinit2() before it.  What kvmalloc() took for  *)
(* kpgdir and startothers() for the stacks of the other processors is      *)
(* never freed, and is not among the pages of the model.                   *)
(***************************************************************************)
InitPage(e) ==
    IF e = Kstack THEN 1
    ELSE IF e = Pgdir THEN 2
    ELSE IF e = Pt(PDX(0)) THEN 3
    ELSE IF e = Pte(0) THEN 4
    ELSE IF \E j \in 1..NKPT : e = Kpt(j) THEN 4 + e[2]
    ELSE None

Init ==
    /\ freelist = (NKPT + 5)..NPAGE
    /\ page = [o \in Owner |-> [e \in Entry |-> IF o = Cur(InitProc) THEN InitPage(e) ELSE None]]
    /\ used = {InitProc}
    /\ sz = [p \in Proc |-> IF p = InitProc THEN 1 ELSE 0]
    /\ call = [p \in Proc |-> "none"]
    /\ child = [p \in Proc |-> None]
    /\ i = [p \in Proc |-> 0] /\ to = [p \in Proc |-> 0]
    /\ calls = 0

Idle(p) == p \in used /\ call[p] = "none"

\* The owner of the space a call is filling.
Space(p) == IF call[p] = "grow" THEN Cur(p) ELSE New(p)

(***************************************************************************)
(* kalloc() takes a page, for entry e of o; kfree() puts pages back.       *)
(***************************************************************************)
Page == CHOOSE pg \in freelist : TRUE
kalloc(o, e) ==
    /\ freelist # {}
    /\ freelist' = freelist \ {Page}
    /\ page' = [page EXCEPT ![o] = [@ EXCEPT ![e] = Page]]
kfree(pages) == freelist' = freelist \cup (pages \ {None})

PagesOf(o, E) == {page[o][e] : e \in E}
Cleared(o, E) == [e \in Entry |-> IF e \in E THEN None ELSE page[o][e]]

-----------------------------------------------------------------------------
(***************************************************************************)
(* The calls.                                                              *)
(***************************************************************************)
fork(p, q) ==
    /\ Idle(p) /\ q \notin used
    /\ used' = used \cup {q}
    /\ call' = [call EXCEPT ![p] = "fork", ![q] = "embryo"]
    /\ child' = [child EXCEPT ![p] = q]
    /\ to' = [to EXCEPT ![p] = sz[p]]
    /\ UNCHANGED <<freelist, page, sz, i>>

exec(p, n) ==
    /\ Idle(p)
    /\ call' = [call EXCEPT ![p] = "exec"]
    /\ to' = [to EXCEPT ![p] = n]
    /\ UNCHANGED <<freelist, page, used, sz, child, i>>

growproc(p, n) ==
    /\ Idle(p) /\ n > sz[p]
    /\ call' = [call EXCEPT ![p] = "grow"]
    /\ i' = [i EXCEPT ![p] = sz[p]]
    /\ to' = [to EXCEPT ![p] = n]
    /\ UNCHANGED <<freelist, page, used, sz, child>>

(***************************************************************************)
(* deallocuvm(): unmap from page n on; page tables stay.                   *)
(***************************************************************************)
From(n) == {Pte(k) : k \in n..(MaxSz - 1)}

deallocuvm(p, n) ==
    /\ Idle(p) /\ n < sz[p]
    /\ kfree(PagesOf(Cur(p), From(n)))
    /\ page' = [page EXCEPT ![Cur(p)] = Cleared(Cur(p), From(n))]
    /\ sz' = [sz EXCEPT ![p] = n]
    /\ UNCHANGED <<used, opVars>>

(***************************************************************************)
(* What a call allocates next: the stack of allocproc(), the directory and *)
(* the kernel part of setupkvm(), a page of allocuvm() or copyuvm(), or    *)
(* the page table that walkpgdir() lacks to map that page.                 *)
(***************************************************************************)
Lacks(o, e) == page[o][e] = None

Needs(p) ==
    IF call[p] \in {"none", "embryo"} THEN "nothing"
    ELSE IF call[p] = "fork" /\ Lacks(Cur(child[p]), Kstack) THEN "kstack"
    ELSE IF Lacks(Space(p), Pgdir) THEN "pgdir"
    ELSE IF \E j \in 1..NKPT : Lacks(Space(p), Kpt(j)) THEN "kpt"
    ELSE IF ~Lacks(New(p), Mem) THEN "pt"
    ELSE IF i[p] < to[p] THEN "page"
    ELSE "nothing"

allocproc(p) ==
    /\ Needs(p) = "kstack"
    /\ kalloc(Cur(child[p]), Kstack)
    /\ UNCHANGED <<used, sz, opVars>>

setupkvm(p) ==
    /\ \/ Needs(p) = "pgdir" /\ kalloc(Space(p), Pgdir)
       \/ /\ Needs(p) = "kpt"
          /\ \E j \in 1..NKPT :
              /\ Lacks(Space(p), Kpt(j)) /\ \A k \in 1..(j - 1) : ~Lacks(Space(p), Kpt(k))
              /\ kalloc(Space(p), Kpt(j))
    /\ UNCHANGED <<used, sz, opVars>>

\* The page is mapped at once, or waits for its page table.
allocuvm(p) ==
    /\ Needs(p) = "page"
    /\ IF Lacks(Space(p), Pt(PDX(i[p])))
       THEN kalloc(New(p), Mem) /\ UNCHANGED i
       ELSE kalloc(Space(p), Pte(i[p])) /\ i' = [i EXCEPT ![p] = @ + 1]
    /\ UNCHANGED <<used, sz, call, child, to>>

walkpgdir(p) ==
    /\ Needs(p) = "pt"
    /\ freelist # {}
    /\ freelist' = freelist \ {Page}
    /\ page' = [o \in Owner |-> [e \in Entry |->
                  IF o = Space(p) /\ e = Pt(PDX(i[p])) THEN Page
                  ELSE IF o = Space(p) /\ e = Pte(i[p]) THEN page[New(p)][Mem]
                  ELSE IF o = New(p) /\ e = Mem THEN None
                  ELSE page[o][e]]]
    /\ i' = [i EXCEPT ![p] = @ + 1]
    /\ UNCHANGED <<used, sz, call, child, to>>

(***************************************************************************)
(* kalloc() returned 0: growproc() frees what it had mapped, fork() and    *)
(* exec() the space they were building.                                    *)
(***************************************************************************)
OutOfMemory(p) == freelist = {} /\ Needs(p) # "nothing"

\* The processes of P have returned.
Return(P) ==
    /\ call' = [p \in Proc |-> IF p \in P THEN "none" ELSE call[p]]
    /\ child' = [p \in Proc |-> IF p \in P THEN None ELSE child[p]]
    /\ i' = [p \in Proc |-> IF p \in P THEN 0 ELSE i[p]]
    /\ to' = [p \in Proc |-> IF p \in P THEN 0 ELSE to[p]]

\* Mutant: the page that is not mapped yet is not given back.
growproc_failed_keeps_page(p) ==
    /\ call[p] = "grow" /\ OutOfMemory(p)
    /\ kfree(PagesOf(Cur(p), From(sz[p])))
    /\ page' = [page EXCEPT ![Cur(p)] = Cleared(Cur(p), From(sz[p])),
                            ![New(p)] = Cleared(New(p), {Mem})]
    /\ Return({p})
    /\ UNCHANGED <<used, sz>>


growproc_failed(p) ==
    /\ call[p] = "grow" /\ OutOfMemory(p)
    /\ kfree(PagesOf(Cur(p), From(sz[p])) \cup PagesOf(New(p), {Mem}))
    /\ page' = [page EXCEPT ![Cur(p)] = Cleared(Cur(p), From(sz[p])),
                            ![New(p)] = Cleared(New(p), {Mem})]
    /\ Return({p})
    /\ UNCHANGED <<used, sz>>

fork_failed(p) ==
    /\ call[p] = "fork" /\ OutOfMemory(p)
    /\ kfree(PagesOf(New(p), Entry) \cup PagesOf(Cur(child[p]), {Kstack}))
    /\ page' = [page EXCEPT ![New(p)] = Cleared(New(p), Entry),
                            ![Cur(child[p])] = Cleared(Cur(child[p]), {Kstack})]
    /\ used' = used \ {child[p]}
    /\ Return({p, child[p]})
    /\ UNCHANGED sz

(***************************************************************************)
(* exec() also gives up on a bad program or a stack that is too small.     *)
(***************************************************************************)
exec_bad(p) ==
    /\ call[p] = "exec"
    /\ OutOfMemory(p) \/ Needs(p) \in {"page", "nothing"}
    /\ kfree(PagesOf(New(p), Entry))
    /\ page' = [page EXCEPT ![New(p)] = Cleared(New(p), Entry)]
    /\ Return({p})
    /\ UNCHANGED <<used, sz>>

(***************************************************************************)
(* The call succeeds: the child has its space, exec() frees the old one.   *)
(***************************************************************************)
Complete(p, name) == call[p] = name /\ Needs(p) = "nothing"

\* The space that p built becomes that of q.
Moved(p, q) ==
    page' = [page EXCEPT ![Cur(q)] = [e \in Entry |-> IF e \in VmEntry THEN page[New(p)][e] ELSE @[e]],
                         ![New(p)] = Cleared(New(p), VmEntry)]

forked(p) ==
    /\ Complete(p, "fork")
    /\ Moved(p, child[p])
    /\ sz' = [sz EXCEPT ![child[p]] = to[p]]
    /\ Return({p, child[p]})
    /\ UNCHANGED <<freelist, used>>

freevm(p) ==
    /\ Complete(p, "exec")
    /\ kfree(PagesOf(Cur(p), VmEntry))
    /\ Moved(p, p)
    /\ sz' = [sz EXCEPT ![p] = to[p]]
    /\ Return({p})
    /\ UNCHANGED used

grown(p) ==
    /\ Complete(p, "grow")
    /\ sz' = [sz EXCEPT ![p] = to[p]]
    /\ Return({p})
    /\ UNCHANGED <<freelist, page, used>>

(***************************************************************************)
(* wait() collects a process that exited.  It leaves sz of the slot alone, *)
(* which fork() sets before anybody reads it; the model clears it.         *)
(***************************************************************************)
wait(q) ==
    /\ Idle(q) /\ q # InitProc
    /\ kfree(PagesOf(Cur(q), Entry))
    /\ page' = [page EXCEPT ![Cur(q)] = Cleared(Cur(q), Entry)]
    /\ used' = used \ {q}
    /\ sz' = [sz EXCEPT ![q] = 0]
    /\ UNCHANGED opVars

(***************************************************************************)
(* pipealloc() and thread_create() take a page, or fail and change nothing *)
(* here; pipeclose() at the last end, and thread_join(), give it back.     *)
(***************************************************************************)
pipealloc(x) ==
    /\ Lacks(Kern(x), Mem)
    /\ kalloc(Kern(x), Mem)
    /\ UNCHANGED <<used, sz, opVars>>

pipeclose(x) ==
    /\ ~Lacks(Kern(x), Mem)
    /\ kfree(PagesOf(Kern(x), {Mem}))
    /\ page' = [page EXCEPT ![Kern(x)] = Cleared(Kern(x), {Mem})]
    /\ UNCHANGED <<used, sz, opVars>>

Step(p) ==
    \/ allocproc(p) \/ setupkvm(p) \/ allocuvm(p) \/ walkpgdir(p)
    \/ growproc_failed(p) \/ fork_failed(p) \/ exec_bad(p)
    \/ forked(p) \/ freevm(p) \/ grown(p) \/ wait(p)

Next ==
    \/ \E p \in Proc :
       \/ /\ calls < MaxCalls /\ calls' = calls + 1
          /\ \/ \E q \in Proc : fork(p, q)
             \/ \E n \in 1..MaxSz : exec(p, n) \/ growproc(p, n) \/ deallocuvm(p, n)
       \/ Step(p) /\ UNCHANGED calls
    \/ \E x \in Other :
       \/ calls < MaxCalls /\ calls' = calls + 1 /\ pipealloc(x)
       \/ pipeclose(x) /\ UNCHANGED calls
    \/ /\ calls = MaxCalls /\ \A p \in used : Idle(p)
       /\ UNCHANGED memVars

Spec == Init /\ [][Next]_memVars

-----------------------------------------------------------------------------
(***************************************************************************)
(* getmeminfo() of proc.c, in pages, for a process without threads: those  *)
(* have entries of their own, which count the directory they share again.  *)
(***************************************************************************)
getmeminfo(p) ==
    sz[p] + 2 + Cardinality({e \in Entry : e[1] \in {"pt", "kpt"} /\ ~Lacks(Cur(p), e)})

(* Type correctness of the free list, the page tables and the calls.       *)
TypeOK ==
    /\ freelist \subseteq Pages
    /\ page \in [Owner -> [Entry -> Pages \cup {None}]]
    /\ used \subseteq Proc
    /\ sz \in [Proc -> 0..MaxSz]
    /\ call \in [Proc -> {"none", "fork", "embryo", "exec", "grow"}]
    /\ child \in [Proc -> Proc \cup {None}]
    /\ i \in [Proc -> 0..MaxSz] /\ to \in [Proc -> 0..MaxSz]
    /\ calls \in Nat

\* Exactly the first n pages of a space are mapped.
Mapped(o, n) == \A k \in 0..(MaxSz - 1) : Lacks(o, Pte(k)) <=> k >= n

(* A page that is not free has a use.                                      *)
NoneLost == \A pg \in Pages \ freelist : \E o \in Owner, e \in Entry : page[o][e] = pg

(* A page that is free has no use, and a page has one use at most.         *)
UsedOnce ==
    \A o \in Owner, e \in Entry : ~Lacks(o, e) =>
        /\ page[o][e] \notin freelist
        /\ \A o2 \in Owner, e2 \in Entry : page[o2][e2] = page[o][e] => o2 = o /\ e2 = e

(* Every physical page has exactly one use, in whatever order the          *)
(* allocations of several processors fail: none is lost, none is given     *)
(* twice, none is freed while it is mapped (vm.c, kalloc.c); and a call    *)
(* that ran out of memory leaves its caller exactly the pages below its    *)
(* size, so that copyuvm() meets no missing page (vm.c:353-356).           *)
PagesAccounted == NoneLost /\ UsedOnce /\ \A p \in Proc : Idle(p) => Mapped(Cur(p), sz[p])


(* How far the call of a process has come, and what it has mapped by then. *)
CallInv(p) ==
    /\ i[p] <= to[p]
    /\ call[p] = "none" => i[p] = 0
    /\ call[p] \in {"fork", "exec"} => Mapped(New(p), i[p])
    /\ call[p] = "grow" => Mapped(Cur(p), i[p]) /\ sz[p] <= i[p]
    /\ p \in used /\ call[p] \in {"none", "fork", "exec"} => Mapped(Cur(p), sz[p])
    /\ ~Lacks(New(p), Mem) => /\ call[p] \in {"fork", "exec", "grow"} /\ i[p] < to[p]
                              /\ Lacks(Space(p), Pt(PDX(i[p])))

(* Entries that are empty, whatever the other processes do.                *)
EmptyInv(p) ==
    /\ Lacks(Cur(p), Mem) /\ Lacks(New(p), Kstack)
    /\ p \notin used => call[p] = "none" /\ \A e \in Entry : Lacks(Cur(p), e)
    /\ call[p] = "embryo" => \A e \in VmEntry : Lacks(Cur(p), e)
    /\ call[p] \notin {"fork", "exec"} => \A e \in VmEntry : Lacks(New(p), e)

(* The slot that fork() fills is its own.                                  *)
ForkInv ==
    \A p \in Proc : call[p] = "fork" =>
        /\ child[p] \in Proc /\ call[child[p]] = "embryo"
        /\ \A q \in Proc : call[q] = "fork" /\ child[q] = child[p] => q = p

(* The inductive invariant behind PagesAccounted.                          *)
MemoryInv ==
    /\ TypeOK /\ NoneLost /\ UsedOnce /\ ForkInv
    /\ \A p \in Proc : CallInv(p) /\ EmptyInv(p)
=============================================================================
