---------------------------- MODULE MemoryProofs ----------------------------
(***************************************************************************)
(* Proofs about the physical pages of kalloc.c and vm.c, for any number of *)
(* processes and pages.                                                    *)
(***************************************************************************)
EXTENDS Memory, TLAPS

\* Time for the provers, in seconds: a goal that one gives up is tried again.
USE SMTT(60), SMTT(55), SMTT(50), SMTT(45), SMTT(40), SMTT(30), ZenonT(60)

\* The owners of pages differ, and so do the entries of each.
LEMMA Owners ==
    /\ \A p \in Proc : Cur(p) \in Owner /\ New(p) \in Owner
    /\ \A p, q \in Proc : /\ Cur(p) # New(q)
                          /\ Cur(p) = Cur(q) => p = q
                          /\ New(p) = New(q) => p = q
    /\ \A x \in Other : /\ Kern(x) \in Owner
                         /\ \A p \in Proc : Kern(x) # Cur(p) /\ Kern(x) # New(p)
BY DEF Owner, Cur, New, Kern

LEMMA Entries ==
    /\ VmEntry \subseteq Entry /\ Kstack \in Entry \ VmEntry /\ Mem \in Entry \ VmEntry
    /\ Kstack # Mem /\ Pgdir \in VmEntry
    /\ \A j \in 1..NKPT : Kpt(j) \in VmEntry
    /\ \A n \in 0..(MaxSz - 1) : Pte(n) \in VmEntry /\ Pt(PDX(n)) \in VmEntry
BY DEF Entry, VmEntry, Kstack, Mem, Pgdir, Kpt, Pt, Pte

LEMMA EntriesDiffer ==
    /\ \A n, k : Pte(n) # Pt(k) /\ Pte(n) # Kpt(k) /\ Pt(n) # Kpt(k)
    /\ \A n : Pte(n) # Pgdir /\ Pt(n) # Pgdir /\ Kpt(n) # Pgdir
    /\ \A n, k : Pte(n) = Pte(k) => n = k
BY DEF Pgdir, Kpt, Pt, Pte

\* A page is taken from the free list for one entry.
LEMMA Allocated ==
    ASSUME TypeOK, NEW o \in Owner, NEW e \in Entry, kalloc(o, e)
    PROVE  /\ page' \in [Owner -> [Entry -> Pages \cup {None}]]
           /\ \E pg \in freelist :
                /\ freelist' = freelist \ {pg}
                /\ page'[o][e] = pg
                /\ \A o2 \in Owner, e2 \in Entry : (o2 = o /\ e2 = e) \/ page'[o2][e2] = page[o2][e2]
<1>1. /\ freelist \subseteq Pages /\ page \in [Owner -> [Entry -> Pages \cup {None}]]
  BY DEF TypeOK
<1>2. Page \in freelist
  BY DEF kalloc, Page
<1>3. freelist' = freelist \ {Page} /\ page' = [page EXCEPT ![o] = [page[o] EXCEPT ![e] = Page]]
  BY DEF kalloc
<1>4. page' \in [Owner -> [Entry -> Pages \cup {None}]] /\ page'[o][e] = Page
      /\ \A o2 \in Owner, e2 \in Entry : (o2 = o /\ e2 = e) \/ page'[o2][e2] = page[o2][e2]
  BY <1>1, <1>2, <1>3
<1>. QED BY <1>2, <1>3, <1>4

LEMMA AllocAccounted ==
    ASSUME TypeOK, MemoryAssumption, NoneLost, UsedOnce,
           NEW o \in Owner, NEW e \in Entry, Lacks(o, e), kalloc(o, e)
    PROVE  NoneLost' /\ UsedOnce'
<1>1. /\ freelist \subseteq Pages /\ None \notin Pages
      /\ \A o2 \in Owner, e2 \in Entry : page[o2][e2] \in Pages \cup {None}
  BY DEF TypeOK, MemoryAssumption, Pages
<1>2. PICK pg \in freelist :
        /\ freelist' = freelist \ {pg}
        /\ page'[o][e] = pg
        /\ \A o2 \in Owner, e2 \in Entry : (o2 = o /\ e2 = e) \/ page'[o2][e2] = page[o2][e2]
  BY Allocated
<1>3. NoneLost'
  BY <1>1, <1>2 DEF NoneLost, Lacks
<1>4. UsedOnce'
  BY <1>1, <1>2 DEF UsedOnce, Lacks
<1>. QED BY <1>3, <1>4

\* Pages are freed where the entries that referred to them are cleared.
LEMMA FreeAccounted ==
    ASSUME MemoryAssumption, NoneLost, UsedOnce,
           \A o \in Owner, e \in Entry : page'[o][e] \in {None, page[o][e]},
           \A pg : pg \in freelist' <=>
               \/ pg \in freelist
               \/ pg # None /\ \E o \in Owner, e \in Entry : page[o][e] = pg /\ page'[o][e] = None
    PROVE  NoneLost' /\ UsedOnce'
<1>1. NoneLost'
  BY DEF NoneLost, MemoryAssumption, Pages
<1>2. UsedOnce'
  BY DEF UsedOnce, Lacks
<1>. QED BY <1>1, <1>2

\* A space changes hands, and the one that it replaces is freed.
LEMMA MoveAccounted ==
    ASSUME MemoryAssumption, NoneLost, UsedOnce, NEW p \in Proc, NEW q \in Proc,
           \A e \in VmEntry : page'[Cur(q)][e] = page[New(p)][e] /\ page'[New(p)][e] = None,
           \A o \in Owner, e \in Entry :
               (e \in VmEntry /\ o \in {Cur(q), New(p)}) \/ page'[o][e] = page[o][e],
           \A pg : pg \in freelist' <=>
               \/ pg \in freelist
               \/ pg # None /\ \E e \in VmEntry : page[Cur(q)][e] = pg
    PROVE  NoneLost' /\ UsedOnce'
<1>0. VmEntry \subseteq Entry /\ Cur(q) \in Owner /\ New(p) \in Owner /\ Cur(q) # New(p)
  BY Owners, Entries
<1>1. NoneLost'
  <2> SUFFICES ASSUME NEW pg \in Pages \ freelist'
               PROVE  \E o \in Owner, e \in Entry : page'[o][e] = pg
    BY Zenon DEF NoneLost
  <2>0. pg \in Pages \ freelist
    OBVIOUS
  <2>1. PICK o \in Owner, e \in Entry : page[o][e] = pg
    BY <2>0, Zenon DEF NoneLost
  <2>2. CASE o = New(p) /\ e \in VmEntry
    BY <1>0, <2>1, <2>2
  <2>3. ~(o = Cur(q) /\ e \in VmEntry)
    BY <2>1 DEF MemoryAssumption, Pages
  <2>. QED BY <2>1, <2>2, <2>3
<1>2. UsedOnce'
  BY <1>0 DEF UsedOnce, Lacks
<1>. QED BY <1>1, <1>2

\* A page that waited is mapped through a page table that is new.
LEMMA WalkAccounted ==
    ASSUME NoneLost, UsedOnce, None \notin freelist,
           NEW s \in Owner, NEW pt \in Entry, NEW pte \in Entry, pt # pte, NEW n \in Owner,
           page[s][pt] = None, page[s][pte] = None, page[n][Mem] # None, Mem \in Entry \ {pt, pte},
           NEW pg \in freelist, freelist' = freelist \ {pg},
           page'[s][pt] = pg, page'[s][pte] = page[n][Mem], page'[n][Mem] = None,
           \A o \in Owner, e \in Entry : \/ o = s /\ e = pt
                                         \/ o = s /\ e = pte
                                         \/ o = n /\ e = Mem
                                         \/ page'[o][e] = page[o][e]
    PROVE  NoneLost' /\ UsedOnce'
<1>1. NoneLost'
  <2> SUFFICES ASSUME NEW q \in Pages \ freelist'
               PROVE  \E o \in Owner, e \in Entry : page'[o][e] = q
    BY DEF NoneLost
  <2>1. CASE q = pg
    BY <2>1
  <2>2. CASE q # pg
    <3>1. PICK o \in Owner, e \in Entry : page[o][e] = q
      BY <2>2 DEF NoneLost
    <3>. QED BY <3>1
  <2>. QED BY <2>1, <2>2
<1>2. \A o \in Owner, e \in Entry : page[o][e] # None =>
          /\ page[o][e] \notin freelist
          /\ \A o2 \in Owner, e2 \in Entry : page[o2][e2] = page[o][e] => o2 = o /\ e2 = e
  BY DEF UsedOnce, Lacks
<1>3. UsedOnce'
  <2> SUFFICES ASSUME NEW o \in Owner, NEW e \in Entry, page'[o][e] # None
               PROVE  /\ page'[o][e] \notin freelist'
                      /\ \A o2 \in Owner, e2 \in Entry : page'[o2][e2] = page'[o][e] => o2 = o /\ e2 = e
    BY DEF UsedOnce, Lacks
  <2>1. CASE o = s /\ e = pt
    BY <1>2, <2>1
  <2>2. CASE o = s /\ e = pte
    BY <1>2, <2>2
  <2>3. CASE ~(o = s /\ e \in {pt, pte})
    <3>1. page'[o][e] = page[o][e] /\ ~(o = n /\ e = Mem)
      BY <2>3
    <3>. QED BY <1>2, <2>3, <3>1
  <2>. QED BY <2>1, <2>2, <2>3
<1>. QED BY <1>1, <1>3

-----------------------------------------------------------------------------
(***************************************************************************)
(* The parts of MemoryInv: the pages, the calls, and each process.         *)
(***************************************************************************)
PageInv ==
    /\ freelist \subseteq Pages /\ page \in [Owner -> [Entry -> Pages \cup {None}]]
    /\ NoneLost /\ UsedOnce

CallTypes ==
    /\ used \subseteq Proc /\ sz \in [Proc -> 0..MaxSz] /\ child \in [Proc -> Proc \cup {None}]
    /\ call \in [Proc -> {"none", "fork", "embryo", "exec", "grow"}]
    /\ i \in [Proc -> 0..MaxSz] /\ to \in [Proc -> 0..MaxSz] /\ calls \in Nat

ProcInv(p) == CallInv(p) /\ EmptyInv(p)

Ind == MemoryAssumption /\ MemoryInv

LEMMA Parts ==
    ASSUME Ind
    PROVE  PageInv /\ CallTypes /\ ForkInv /\ MemoryAssumption /\ \A p \in Proc : ProcInv(p)
BY DEF Ind, MemoryInv, TypeOK, PageInv, CallTypes, ProcInv

LEMMA Whole ==
    ASSUME PageInv', CallTypes', ForkInv', \A p \in Proc : ProcInv(p)'
    PROVE  MemoryInv'
BY DEF MemoryInv, TypeOK, PageInv, CallTypes, ProcInv

LEMMA PageTypes ==
    ASSUME Ind
    PROVE  /\ freelist \subseteq Pages /\ page \in [Owner -> [Entry -> Pages \cup {None}]]
           /\ None \notin Pages
BY Parts DEF PageInv, MemoryAssumption, Pages

LEMMA ProcTypes ==
    ASSUME Ind
    PROVE  /\ used \subseteq Proc /\ sz \in [Proc -> 0..MaxSz] /\ child \in [Proc -> Proc \cup {None}]
           /\ call \in [Proc -> {"none", "fork", "embryo", "exec", "grow"}]
           /\ i \in [Proc -> 0..MaxSz] /\ to \in [Proc -> 0..MaxSz] /\ calls \in Nat
BY Parts DEF CallTypes

\* How far a call has come.
LEMMA Progress ==
    ASSUME Ind, NEW p \in Proc
    PROVE  /\ MaxSz \in Nat /\ i[p] \in 0..MaxSz /\ to[p] \in 0..MaxSz /\ sz[p] \in 0..MaxSz
           /\ i[p] <= to[p]
<1>1. ProcInv(p) /\ MaxSz \in Nat
  BY Parts DEF MemoryAssumption
<1>2. i[p] <= to[p]
  BY <1>1 DEF ProcInv, CallInv
<1>. QED BY <1>1, <1>2, ProcTypes

\* What no process has, whatever it calls.
LEMMA Slot ==
    ASSUME Ind, NEW p \in Proc
    PROVE  /\ page[Cur(p)][Mem] = None /\ page[New(p)][Kstack] = None
           /\ call[p] # "none" => p \in used
<1>1. EmptyInv(p)
  BY Parts DEF ProcInv
<1>. QED BY <1>1 DEF EmptyInv, Lacks

\* A process that builds no space.
LEMMA NoSpace ==
    ASSUME Ind, NEW p \in Proc, call[p] \in {"none", "embryo"}
    PROVE  \A e \in Entry : page[New(p)][e] = None
<1>1. EmptyInv(p) /\ Lacks(New(p), Mem)
  BY Parts DEF ProcInv, CallInv
<1>2. (\A e \in VmEntry : page[New(p)][e] = None) /\ page[New(p)][Mem] = None
  BY <1>1 DEF EmptyInv, Lacks
<1>. QED BY <1>2, Slot DEF Entry

LEMMA EmbryoFacts ==
    ASSUME Ind, NEW p \in Proc, call[p] = "embryo"
    PROVE  \A e \in VmEntry : page[Cur(p)][e] = None
<1>1. EmptyInv(p)
  BY Parts DEF ProcInv
<1>. QED BY <1>1 DEF EmptyInv, Lacks

LEMMA GrowFacts ==
    ASSUME Ind, NEW p \in Proc, call[p] = "grow"
    PROVE  /\ \A k \in 0..(MaxSz - 1) : page[Cur(p)][Pte(k)] = None <=> k >= i[p]
           /\ \A e \in VmEntry : page[New(p)][e] = None
           /\ sz[p] <= i[p]
<1>1. CallInv(p) /\ EmptyInv(p)
  BY Parts DEF ProcInv
<1>2. Mapped(Cur(p), i[p]) /\ sz[p] <= i[p]
  BY <1>1 DEF CallInv
<1>3. \A e \in VmEntry : page[New(p)][e] = None
  BY <1>1 DEF EmptyInv, Lacks
<1>. QED BY <1>2, <1>3 DEF Mapped, Lacks

LEMMA BuildFacts ==
    ASSUME Ind, NEW p \in Proc, call[p] \in {"fork", "exec"}
    PROVE  \A k \in 0..(MaxSz - 1) : /\ page[New(p)][Pte(k)] = None <=> k >= i[p]
                                     /\ page[Cur(p)][Pte(k)] = None <=> k >= sz[p]
<1>1. CallInv(p) /\ p \in used
  BY Parts, Slot DEF ProcInv
<1>2. Mapped(New(p), i[p]) /\ Mapped(Cur(p), sz[p])
  BY <1>1 DEF CallInv
<1>. QED BY <1>2 DEF Mapped, Lacks

\* A process between calls.
LEMMA IdleFacts ==
    ASSUME Ind, NEW p \in Proc, Idle(p)
    PROVE  /\ p \in used /\ call[p] = "none" /\ i[p] = 0
           /\ \A k \in 0..(MaxSz - 1) : page[Cur(p)][Pte(k)] = None <=> k >= sz[p]
<1>1. CallInv(p) /\ p \in used /\ call[p] = "none"
  BY Parts DEF ProcInv, Idle
<1>2. Mapped(Cur(p), sz[p]) /\ i[p] = 0
  BY <1>1 DEF CallInv
<1>. QED BY <1>1, <1>2 DEF Mapped, Lacks

\* A process whose entries and call are left alone keeps its invariants.
LEMMA Frame ==
    ASSUME Ind, NEW r \in Proc,
           \A e \in Entry : page'[Cur(r)][e] = page[Cur(r)][e] /\ page'[New(r)][e] = page[New(r)][e],
           r \in used' <=> r \in used, sz'[r] = sz[r],
           call'[r] = call[r], i'[r] = i[r], to'[r] = to[r]
    PROVE  ProcInv(r)'
<1>1. CallInv(r) /\ EmptyInv(r)
  BY Parts DEF ProcInv
<1>2. CallInv(r)'
  BY <1>1, Progress, Entries DEF CallInv, Mapped, Lacks, Space
<1>3. EmptyInv(r)'
  BY <1>1, Entries DEF EmptyInv, Lacks
<1>. QED BY <1>2, <1>3 DEF ProcInv

SameCall(p) ==
    /\ p \in used' <=> p \in used
    /\ sz'[p] = sz[p] /\ call'[p] = call[p] /\ i'[p] = i[p] /\ to'[p] = to[p]

\* An embryo gets its kernel stack.
LEMMA StackFilled ==
    ASSUME Ind, NEW c \in Proc, call[c] = "embryo", SameCall(c),
           \A e \in Entry \ {Kstack} : page'[Cur(c)][e] = page[Cur(c)][e],
           \A e \in Entry : page'[New(c)][e] = page[New(c)][e]
    PROVE  ProcInv(c)'
<1>1. CallInv(c) /\ EmptyInv(c) /\ c \in used
  BY Parts, Slot DEF ProcInv
<1>2. CallInv(c)'
  BY <1>1, Entries DEF CallInv, SameCall, Lacks
<1>3. EmptyInv(c)'
  BY <1>1, Entries DEF EmptyInv, SameCall, Lacks
<1>. QED BY <1>2, <1>3 DEF ProcInv

\* A call gets a page directory or a page table of the space it fills.
LEMMA SpaceFilled ==
    ASSUME Ind, NEW p \in Proc, call[p] \in {"fork", "exec", "grow"}, SameCall(p),
           NEW x \in VmEntry, \A n : x # Pte(n) /\ x # Pt(n),
           \A e \in Entry \ {x} : page'[Cur(p)][e] = page[Cur(p)][e] /\ page'[New(p)][e] = page[New(p)][e],
           call[p] = "grow" => page'[New(p)][x] = page[New(p)][x]
    PROVE  ProcInv(p)'
<1>1. CallInv(p) /\ EmptyInv(p) /\ p \in used
  BY Parts, Slot DEF ProcInv
<1>2. CallInv(p)'
  BY <1>1, Progress, Entries DEF CallInv, SameCall, Mapped, Lacks, Space
<1>3. EmptyInv(p)'
  BY <1>1, Entries DEF EmptyInv, SameCall, Lacks
<1>. QED BY <1>2, <1>3 DEF ProcInv

\* A call gets a page that waits for its page table.
LEMMA MemFilled ==
    ASSUME Ind, NEW p \in Proc, call[p] \in {"fork", "exec", "grow"}, i[p] < to[p], SameCall(p),
           Lacks(Space(p), Pt(PDX(i[p]))),
           \A e \in Entry : page'[Cur(p)][e] = page[Cur(p)][e],
           \A e \in Entry \ {Mem} : page'[New(p)][e] = page[New(p)][e]
    PROVE  ProcInv(p)'
<1>1. CallInv(p) /\ EmptyInv(p)
  BY Parts DEF ProcInv
<1>2. CallInv(p)'
  BY <1>1, Progress, Entries DEF CallInv, SameCall, Mapped, Lacks, Space
<1>3. EmptyInv(p)'
  BY <1>1, Entries DEF EmptyInv, SameCall, Lacks
<1>. QED BY <1>2, <1>3 DEF ProcInv

\* A process that is between calls begins one.
LEMMA Begun ==
    ASSUME Ind, NEW p \in Proc, Idle(p), page' = page, p \in used', sz'[p] = sz[p],
           call'[p] \in {"fork", "exec", "grow"}, i'[p] = (IF call'[p] = "grow" THEN sz[p] ELSE 0),
           i'[p] <= to'[p]
    PROVE  ProcInv(p)'
<1>1. /\ \A k \in 0..(MaxSz - 1) : page[Cur(p)][Pte(k)] = None <=> k >= sz[p]
      /\ call[p] = "none" /\ page[Cur(p)][Mem] = None /\ \A e \in Entry : page[New(p)][e] = None
  BY IdleFacts, Slot, NoSpace
<1>2. CallInv(p)'
  BY <1>1, Progress, Entries DEF CallInv, Mapped, Lacks
<1>3. EmptyInv(p)'
  BY <1>1, Entries DEF EmptyInv, Lacks
<1>. QED BY <1>2, <1>3 DEF ProcInv

\* A free slot becomes an embryo.
LEMMA EmbryoBegun ==
    ASSUME Ind, NEW q \in Proc, q \notin used, page' = page, q \in used', call'[q] = "embryo",
           i'[q] = i[q], to'[q] = to[q]
    PROVE  ProcInv(q)'
<1>1. EmptyInv(q) /\ i[q] <= to[q] /\ call[q] = "none"
  BY Parts, Progress, Slot DEF ProcInv
<1>2. \A e \in Entry : page[New(q)][e] = None /\ page[Cur(q)][e] = None
  BY <1>1, NoSpace DEF EmptyInv, Lacks
<1>3. CallInv(q)'
  BY <1>1, <1>2, Entries DEF CallInv, Lacks
<1>4. EmptyInv(q)'
  BY <1>2, Entries DEF EmptyInv, Lacks
<1>. QED BY <1>3, <1>4 DEF ProcInv

\* A process that is between calls, or whose slot is free.
LEMMA Settled ==
    ASSUME NEW r \in Proc, call'[r] = "none", i'[r] = 0, to'[r] \in Nat, page'[Cur(r)][Mem] = None,
           \A e \in Entry : page'[New(r)][e] = None,
           r \in used' => \A k \in 0..(MaxSz - 1) : page'[Cur(r)][Pte(k)] = None <=> k >= sz'[r],
           r \notin used' => \A e \in Entry : page'[Cur(r)][e] = None
    PROVE  ProcInv(r)'
<1>1. CallInv(r)'
  BY Entries DEF CallInv, Lacks, Mapped
<1>2. EmptyInv(r)'
  BY Entries DEF EmptyInv, Lacks
<1>. QED BY <1>1, <1>2 DEF ProcInv

\* exec() or growproc() returns.
LEMMA OneReturns ==
    ASSUME Ind, NEW p \in Proc, call[p] \in {"exec", "grow"}, Return({p}), UNCHANGED <<used, calls>>,
           PageInv', sz' \in [Proc -> 0..MaxSz], \A r \in Proc \ {p} : sz'[r] = sz[r],
           \A o \in Owner \ {Cur(p), New(p)} : page'[o] = page[o],
           page'[Cur(p)][Mem] = None, \A e \in Entry : page'[New(p)][e] = None,
           \A k \in 0..(MaxSz - 1) : page'[Cur(p)][Pte(k)] = None <=> k >= sz'[p]
    PROVE  MemoryInv'
<1>1. /\ call'[p] = "none" /\ i'[p] = 0 /\ to'[p] = 0
      /\ \A r \in Proc \ {p} : /\ call'[r] = call[r] /\ i'[r] = i[r] /\ to'[r] = to[r]
                               /\ child'[r] = child[r]
  BY DEF Return
<1>2. ForkInv'
  BY <1>1, Parts DEF ForkInv
<1>3. CallTypes'
  BY ProcTypes, Progress DEF CallTypes, Return
<1>4. ProcInv(p)'
  <2>1. p \in used'
    BY Slot
  <2>. QED BY <1>1, <2>1, Settled
<1>5. ASSUME NEW r \in Proc, r # p PROVE ProcInv(r)'
  <2>1. page'[New(r)] = page[New(r)] /\ page'[Cur(r)] = page[Cur(r)]
    BY <1>5, Owners
  <2>. QED BY <1>1, <1>5, <2>1, Frame
<1>. QED BY <1>2, <1>3, <1>4, <1>5, Whole

\* The child of a fork() that is under way.
LEMMA Child ==
    ASSUME Ind, NEW p \in Proc, call[p] = "fork"
    PROVE  child[p] \in Proc /\ call[child[p]] = "embryo" /\ child[p] # p
BY Parts DEF ForkInv

\* fork() returns, in its caller and in the slot it was filling.
ChildPages(p, c) ==
    /\ PageInv'
    /\ \A o \in Owner \ {New(p), Cur(c)} : page'[o] = page[o]
    /\ \A e \in Entry : page'[New(p)][e] = None
    /\ page'[Cur(c)][Mem] = None
    /\ c \in used' => \A k \in 0..(MaxSz - 1) : page'[Cur(c)][Pte(k)] = None <=> k >= sz'[c]
    /\ c \notin used' => \A e \in Entry : page'[Cur(c)][e] = None

ChildSize(c) ==
    /\ used' \subseteq Proc /\ sz' \in [Proc -> 0..MaxSz]
    /\ \A r \in Proc \ {c} : sz'[r] = sz[r] /\ (r \in used' <=> r \in used)

LEMMA TwoReturn ==
    ASSUME Ind, NEW p \in Proc, NEW c \in Proc, call[p] = "fork", child[p] = c, Return({p, c}),
           UNCHANGED calls, ChildPages(p, c), ChildSize(c)
    PROVE  MemoryInv'
<1>0. call[c] = "embryo" /\ c # p
  BY Child
<1>1. /\ call'[p] = "none" /\ i'[p] = 0 /\ to'[p] = 0
      /\ call'[c] = "none" /\ i'[c] = 0 /\ to'[c] = 0
      /\ \A r \in Proc \ {p, c} : /\ call'[r] = call[r] /\ i'[r] = i[r] /\ to'[r] = to[r]
                                  /\ child'[r] = child[r]
  BY DEF Return
<1>2. ForkInv'
  BY <1>1, Parts DEF ForkInv
<1>3. CallTypes'
  BY ProcTypes, Progress DEF CallTypes, Return, ChildSize
<1>4. ProcInv(p)'
  <2>1. p \in used' /\ sz'[p] = sz[p] /\ page'[Cur(p)] = page[Cur(p)]
    BY <1>0, Slot, Owners DEF ChildPages, ChildSize
  <2>2. /\ page'[Cur(p)][Mem] = None
        /\ \A k \in 0..(MaxSz - 1) : page'[Cur(p)][Pte(k)] = None <=> k >= sz'[p]
    BY <2>1, Slot, BuildFacts
  <2>3. \A e \in Entry : page'[New(p)][e] = None
    BY DEF ChildPages
  <2>. QED BY <1>1, <2>1, <2>2, <2>3, Settled
<1>5. ProcInv(c)'
  <2>1. page'[New(c)] = page[New(c)]
    BY <1>0, Owners DEF ChildPages
  <2>2. \A e \in Entry : page'[New(c)][e] = None
    BY <1>0, <2>1, NoSpace
  <2>. QED BY <1>1, <2>2, Settled DEF ChildPages
<1>6. ASSUME NEW r \in Proc, r \notin {p, c} PROVE ProcInv(r)'
  <2>1. page'[New(r)] = page[New(r)] /\ page'[Cur(r)] = page[Cur(r)]
    BY <1>6, Owners DEF ChildPages
  <2>2. sz'[r] = sz[r] /\ (r \in used' <=> r \in used)
    BY <1>6 DEF ChildSize
  <2>. QED BY <1>1, <1>6, <2>1, <2>2, Frame
<1>7. PageInv'
  BY DEF ChildPages
<1>. QED BY <1>2, <1>3, <1>4, <1>5, <1>6, <1>7, Whole

\* The pages of a process that is between calls are freed.
LEMMA IdleChanges ==
    ASSUME Ind, NEW p \in Proc, Idle(p), UNCHANGED opVars, calls' \in Nat,
           PageInv', used' \subseteq Proc, sz' \in [Proc -> 0..MaxSz],
           \A r \in Proc \ {p} : sz'[r] = sz[r] /\ (r \in used' <=> r \in used),
           \A o \in Owner \ {Cur(p)} : page'[o] = page[o], page'[Cur(p)][Mem] = None,
           p \in used' => \A k \in 0..(MaxSz - 1) : page'[Cur(p)][Pte(k)] = None <=> k >= sz'[p],
           p \notin used' => \A e \in Entry : page'[Cur(p)][e] = None
    PROVE  MemoryInv'
<1>1. UNCHANGED <<call, child, i, to>>
  BY DEF opVars
<1>2. ForkInv'
  BY <1>1, Parts DEF ForkInv
<1>3. CallTypes'
  BY <1>1, ProcTypes DEF CallTypes
<1>4. ProcInv(p)'
  <2>1. call'[p] = "none" /\ i'[p] = 0 /\ to'[p] \in Nat
    BY <1>1, IdleFacts, Progress
  <2>2. page'[New(p)] = page[New(p)]
    BY Owners
  <2>3. \A e \in Entry : page'[New(p)][e] = None
    BY <2>2, IdleFacts, NoSpace
  <2>. QED BY <2>1, <2>3, Settled
<1>5. ASSUME NEW r \in Proc, r # p PROVE ProcInv(r)'
  <2>1. page'[New(r)] = page[New(r)] /\ page'[Cur(r)] = page[Cur(r)]
    BY <1>5, Owners
  <2>. QED BY <1>1, <1>5, <2>1, Frame
<1>. QED BY <1>2, <1>3, <1>4, <1>5, Whole

-----------------------------------------------------------------------------
(***************************************************************************)
(* The steps that end a call, or free pages between calls.                 *)
(***************************************************************************)
LEMMA ClearOne ==
    ASSUME Ind, NEW o \in Owner, NEW E \in SUBSET Entry,
           kfree(PagesOf(o, E)), page' = [page EXCEPT ![o] = Cleared(o, E)]
    PROVE  /\ PageInv'
           /\ \A e \in E : page'[o][e] = None
           /\ \A e \in Entry \ E : page'[o][e] = page[o][e]
           /\ \A o2 \in Owner \ {o} : page'[o2] = page[o2]
<1>1. /\ \A e \in E : page'[o][e] = None
      /\ \A e \in Entry \ E : page'[o][e] = page[o][e]
      /\ \A o2 \in Owner \ {o} : page'[o2] = page[o2]
      /\ page' \in [Owner -> [Entry -> Pages \cup {None}]]
  BY PageTypes DEF Cleared
<1>2. \A pg : pg \in freelist' <=>
          \/ pg \in freelist
          \/ pg # None /\ \E e \in E : page[o][e] = pg
  BY DEF kfree, PagesOf
<1>3. freelist' \subseteq Pages
  BY <1>2, PageTypes
<1>4. \A pg : pg \in freelist' <=>
          \/ pg \in freelist
          \/ pg # None /\ \E o2 \in Owner, e \in Entry : page[o2][e] = pg /\ page'[o2][e] = None
  BY <1>1, <1>2
<1>5. \A o2 \in Owner, e \in Entry : page'[o2][e] \in {None, page[o2][e]}
  BY <1>1
<1>6. MemoryAssumption /\ NoneLost /\ UsedOnce
  BY Parts DEF PageInv
<1>7. NoneLost' /\ UsedOnce'
  BY <1>4, <1>5, <1>6, FreeAccounted, ZenonT(120)
<1>. QED BY <1>1, <1>3, <1>7 DEF PageInv

FreedBoth(o, E, q, F) ==
    /\ kfree(PagesOf(o, E) \cup PagesOf(q, F))
    /\ page' = [page EXCEPT ![o] = Cleared(o, E), ![q] = Cleared(q, F)]

EmptiedBoth(o, E, q, F) ==
    /\ \A e \in E : page'[o][e] = None
    /\ \A e \in Entry \ E : page'[o][e] = page[o][e]
    /\ \A e \in F : page'[q][e] = None
    /\ \A e \in Entry \ F : page'[q][e] = page[q][e]
    /\ \A o2 \in Owner \ {o, q} : page'[o2] = page[o2]

LEMMA ClearTwo ==
    ASSUME Ind, NEW o \in Owner, NEW E \in SUBSET Entry, NEW q \in Owner, q # o, NEW F \in SUBSET Entry,
           FreedBoth(o, E, q, F)
    PROVE  PageInv' /\ EmptiedBoth(o, E, q, F)
<1>1. /\ \A e \in E : page'[o][e] = None
      /\ \A e \in Entry \ E : page'[o][e] = page[o][e]
      /\ \A e \in F : page'[q][e] = None
      /\ \A e \in Entry \ F : page'[q][e] = page[q][e]
      /\ \A o2 \in Owner \ {o, q} : page'[o2] = page[o2]
      /\ page' \in [Owner -> [Entry -> Pages \cup {None}]]
  BY PageTypes DEF FreedBoth, Cleared
<1>2. \A pg : pg \in freelist' <=>
          \/ pg \in freelist
          \/ pg # None /\ \E e \in E : page[o][e] = pg
          \/ pg # None /\ \E e \in F : page[q][e] = pg
  BY DEF FreedBoth, kfree, PagesOf
<1>3. freelist' \subseteq Pages
  BY <1>2, PageTypes
<1>4. \A pg : pg \in freelist' <=>
          \/ pg \in freelist
          \/ pg # None /\ \E o2 \in Owner, e \in Entry : page[o2][e] = pg /\ page'[o2][e] = None
  BY <1>1, <1>2
<1>5. \A o2 \in Owner, e \in Entry : page'[o2][e] \in {None, page[o2][e]}
  BY <1>1
<1>6. MemoryAssumption /\ NoneLost /\ UsedOnce
  BY Parts DEF PageInv
<1>7. NoneLost' /\ UsedOnce'
  BY <1>4, <1>5, <1>6, FreeAccounted, ZenonT(120)
<1>. QED BY <1>1, <1>3, <1>7, ZenonT(120) DEF PageInv, EmptiedBoth

\* The space that p has built becomes that of q.
LEMMA MoveSpace ==
    ASSUME Ind, NEW p \in Proc, NEW q \in Proc, Moved(p, q),
           \A pg : pg \in freelist' <=>
               \/ pg \in freelist
               \/ pg # None /\ \E e \in VmEntry : page[Cur(q)][e] = pg
    PROVE  /\ PageInv'
           /\ \A e \in VmEntry : page'[Cur(q)][e] = page[New(p)][e] /\ page'[New(p)][e] = None
           /\ \A e \in Entry \ VmEntry : /\ page'[Cur(q)][e] = page[Cur(q)][e]
                                         /\ page'[New(p)][e] = page[New(p)][e]
           /\ \A o \in Owner \ {Cur(q), New(p)} : page'[o] = page[o]
<1>1. VmEntry \subseteq Entry /\ Cur(q) \in Owner /\ New(p) \in Owner /\ Cur(q) # New(p)
  BY Owners, Entries
<1>2. page' = [page EXCEPT ![Cur(q)] = [e \in Entry |-> IF e \in VmEntry THEN page[New(p)][e]
                                                          ELSE page[Cur(q)][e]],
                           ![New(p)] = [e \in Entry |-> IF e \in VmEntry THEN None
                                                          ELSE page[New(p)][e]]]
  BY DEF Moved, Cleared
<1>3. /\ page' \in [Owner -> [Entry -> Pages \cup {None}]]
      /\ \A e \in VmEntry : page'[Cur(q)][e] = page[New(p)][e] /\ page'[New(p)][e] = None
      /\ \A e \in Entry \ VmEntry : /\ page'[Cur(q)][e] = page[Cur(q)][e]
                                    /\ page'[New(p)][e] = page[New(p)][e]
      /\ \A o \in Owner \ {Cur(q), New(p)} : page'[o] = page[o]
  BY <1>1, <1>2, PageTypes
<1>4. freelist' \subseteq Pages
  BY <1>1, PageTypes
<1>5. \A o \in Owner, e \in Entry :
          (e \in VmEntry /\ o \in {Cur(q), New(p)}) \/ page'[o][e] = page[o][e]
  BY <1>3
<1>6. MemoryAssumption /\ NoneLost /\ UsedOnce
  BY Parts DEF PageInv
<1>7. NoneLost' /\ UsedOnce'
  BY <1>3, <1>5, <1>6, MoveAccounted
<1>. QED BY <1>3, <1>4, <1>7 DEF PageInv

LEMMA FromEntry ==
    ASSUME Ind, NEW n \in Nat
    PROVE  /\ From(n) \subseteq VmEntry
           /\ \A k \in 0..(MaxSz - 1) : Pte(k) \in From(n) <=> k >= n
<1>1. MaxSz \in Nat
  BY Parts DEF MemoryAssumption
<1>. QED BY <1>1, Entries, EntriesDiffer DEF From

LEMMA DeallocuvmStep ==
    ASSUME Ind, NEW p \in Proc, NEW n \in 1..MaxSz, deallocuvm(p, n), calls' \in Nat
    PROVE  MemoryInv'
<1>1. /\ Idle(p) /\ n < sz[p] /\ UNCHANGED <<used, opVars>>
      /\ sz' = [sz EXCEPT ![p] = n] /\ n \in Nat
  BY DEF deallocuvm
<1>2. /\ From(n) \in SUBSET Entry /\ Cur(p) \in Owner /\ Mem \notin From(n)
      /\ \A k \in 0..(MaxSz - 1) : Pte(k) \in From(n) <=> k >= n
  BY <1>1, FromEntry, Entries, Owners
<1>3. /\ PageInv'
      /\ \A e \in From(n) : page'[Cur(p)][e] = None
      /\ \A e \in Entry \ From(n) : page'[Cur(p)][e] = page[Cur(p)][e]
      /\ \A o2 \in Owner \ {Cur(p)} : page'[o2] = page[o2]
  BY <1>2, ClearOne, ZenonT(120) DEF deallocuvm
<1>4. /\ sz' \in [Proc -> 0..MaxSz] /\ sz'[p] = n /\ used \subseteq Proc
      /\ \A r \in Proc \ {p} : sz'[r] = sz[r]
  BY <1>1, ProcTypes
<1>5. page'[Cur(p)][Mem] = None
  BY <1>2, <1>3, Slot, Entries
<1>6. \A k \in 0..(MaxSz - 1) : page'[Cur(p)][Pte(k)] = None <=> k >= sz'[p]
  <2>1. \A k \in 0..(MaxSz - 1) : page[Cur(p)][Pte(k)] = None <=> k >= sz[p]
    BY <1>1, IdleFacts
  <2>. QED BY <1>1, <1>2, <1>3, <1>4, <2>1, Entries, Progress
<1>7. p \in used'
  BY <1>1, IdleFacts
<1>. QED BY <1>1, <1>3, <1>4, <1>5, <1>6, <1>7, IdleChanges, ZenonT(120)

LEMMA WaitStep ==
    ASSUME Ind, NEW p \in Proc, wait(p), UNCHANGED calls PROVE MemoryInv'
<1>1. Idle(p) /\ used' = used \ {p} /\ sz' = [sz EXCEPT ![p] = 0] /\ UNCHANGED opVars
  BY DEF wait
<1>2. Cur(p) \in Owner /\ Entry \in SUBSET Entry
  BY Owners
<1>3. /\ PageInv'
      /\ \A e \in Entry : page'[Cur(p)][e] = None
      /\ \A o2 \in Owner \ {Cur(p)} : page'[o2] = page[o2]
  BY <1>2, ClearOne, ZenonT(120) DEF wait
<1>4. /\ sz' \in [Proc -> 0..MaxSz] /\ used' \subseteq Proc /\ calls' \in Nat /\ p \notin used'
      /\ \A r \in Proc \ {p} : sz'[r] = sz[r] /\ (r \in used' <=> r \in used)
  BY <1>1, ProcTypes, Progress
<1>5. \A e \in Entry : page'[Cur(p)][e] = None
  BY <1>3
<1>6. page'[Cur(p)][Mem] = None
  BY <1>5, Entries
<1>. QED BY <1>1, <1>3, <1>4, <1>5, <1>6, IdleChanges, ZenonT(120)

Waiting == {Mem}
Stack == {Kstack}

LEMMA GrowprocFailedStep ==
    ASSUME Ind, NEW p \in Proc, growproc_failed(p), UNCHANGED calls PROVE MemoryInv'
<1>1. call[p] = "grow" /\ UNCHANGED <<used, sz>> /\ Return({p}) /\ sz[p] \in Nat
  BY Progress DEF growproc_failed
<1>2. /\ From(sz[p]) \in SUBSET Entry /\ Waiting \in SUBSET Entry /\ Mem \notin From(sz[p])
      /\ Cur(p) \in Owner /\ New(p) \in Owner /\ New(p) # Cur(p)
      /\ \A k \in 0..(MaxSz - 1) : Pte(k) \in From(sz[p]) <=> k >= sz[p]
  BY <1>1, FromEntry, Entries, Owners DEF Waiting
<1>3. /\ PageInv'
      /\ \A e \in From(sz[p]) : page'[Cur(p)][e] = None
      /\ \A e \in Entry \ From(sz[p]) : page'[Cur(p)][e] = page[Cur(p)][e]
      /\ \A e \in Waiting : page'[New(p)][e] = None
      /\ \A e \in Entry \ Waiting : page'[New(p)][e] = page[New(p)][e]
      /\ \A o2 \in Owner \ {Cur(p), New(p)} : page'[o2] = page[o2]
  <2>1. FreedBoth(Cur(p), From(sz[p]), New(p), Waiting)
    BY DEF growproc_failed, FreedBoth, Waiting
  <2>2. PageInv' /\ EmptiedBoth(Cur(p), From(sz[p]), New(p), Waiting)
    BY <1>2, <2>1, ClearTwo, ZenonT(120)
  <2>. QED BY <2>2 DEF EmptiedBoth
<1>4. sz' \in [Proc -> 0..MaxSz] /\ sz'[p] = sz[p]
  BY <1>1, ProcTypes
<1>5. page'[Cur(p)][Mem] = None
  BY <1>2, <1>3, Slot, Entries
<1>6. \A e \in Entry : page'[New(p)][e] = None
  <2>1. \A e \in VmEntry \cup {Kstack} : page[New(p)][e] = None
    BY <1>1, GrowFacts, Slot
  <2>. QED BY <1>3, <2>1 DEF Entry, Waiting
<1>7. \A k \in 0..(MaxSz - 1) : page'[Cur(p)][Pte(k)] = None <=> k >= sz'[p]
  <2>1. sz[p] <= i[p] /\ \A k \in 0..(MaxSz - 1) : page[Cur(p)][Pte(k)] = None <=> k >= i[p]
    BY <1>1, GrowFacts
  <2>. QED BY <1>2, <1>3, <1>4, <2>1, Entries, Progress
<1>. QED BY <1>1, <1>3, <1>4, <1>5, <1>6, <1>7, OneReturns, ZenonT(120)

LEMMA ForkFailedStep ==
    ASSUME Ind, NEW p \in Proc, fork_failed(p), UNCHANGED calls PROVE MemoryInv'
<1>0. PICK c \in Proc : c = child[p]
  BY Child DEF fork_failed
<1>1. call[p] = "fork" /\ used' = used \ {c} /\ Return({p, c}) /\ sz' = sz
  BY <1>0 DEF fork_failed
<1>2. /\ PageInv'
      /\ \A e \in Entry : page'[New(p)][e] = None
      /\ \A e \in Stack : page'[Cur(c)][e] = None
      /\ \A e \in Entry \ Stack : page'[Cur(c)][e] = page[Cur(c)][e]
      /\ \A o2 \in Owner \ {New(p), Cur(c)} : page'[o2] = page[o2]
  <2>1. /\ Entry \in SUBSET Entry /\ Stack \in SUBSET Entry
        /\ New(p) \in Owner /\ Cur(c) \in Owner /\ Cur(c) # New(p)
    BY Entries, Owners DEF Stack
  <2>2. FreedBoth(New(p), Entry, Cur(c), Stack)
    BY <1>0 DEF fork_failed, FreedBoth, Stack
  <2>3. PageInv' /\ EmptiedBoth(New(p), Entry, Cur(c), Stack)
    BY <2>1, <2>2, ClearTwo, ZenonT(120)
  <2>. QED BY <2>3 DEF EmptiedBoth
<1>3. \A e \in Entry : page'[Cur(c)][e] = None
  <2>1. \A e \in VmEntry \cup {Mem} : page[Cur(c)][e] = None
    BY <1>0, <1>1, Child, EmbryoFacts, Slot
  <2>. QED BY <1>2, <2>1 DEF Entry, Stack
<1>4. /\ used' \subseteq Proc /\ c \notin used' /\ sz' \in [Proc -> 0..MaxSz]
      /\ \A r \in Proc \ {c} : sz'[r] = sz[r] /\ (r \in used' <=> r \in used)
  BY <1>1, ProcTypes
<1>5. page'[Cur(c)][Mem] = None /\ \A e \in Entry : page'[New(p)][e] = None
  BY <1>2, <1>3, Entries
<1>6. ChildSize(c)
  BY <1>4 DEF ChildSize
<1>7. ChildPages(p, c)
  BY <1>2, <1>3, <1>4, <1>5, Zenon DEF ChildPages
<1>. QED BY <1>0, <1>1, <1>6, <1>7, TwoReturn

LEMMA ExecBadStep ==
    ASSUME Ind, NEW p \in Proc, exec_bad(p), UNCHANGED calls PROVE MemoryInv'
<1>1. call[p] = "exec" /\ UNCHANGED <<used, sz>> /\ Return({p})
  BY DEF exec_bad
<1>2. New(p) \in Owner /\ Entry \in SUBSET Entry
  BY Owners
<1>3. /\ PageInv'
      /\ \A e \in Entry : page'[New(p)][e] = None
      /\ \A o2 \in Owner \ {New(p)} : page'[o2] = page[o2]
  BY <1>2, ClearOne, ZenonT(120) DEF exec_bad
<1>4. /\ sz' \in [Proc -> 0..MaxSz] /\ \A e \in Entry : page'[New(p)][e] = None
      /\ page'[Cur(p)] = page[Cur(p)]
  BY <1>1, <1>3, ProcTypes, Owners
<1>5. /\ page'[Cur(p)][Mem] = None
      /\ \A k \in 0..(MaxSz - 1) : page'[Cur(p)][Pte(k)] = None <=> k >= sz'[p]
  BY <1>1, <1>4, Slot, BuildFacts
<1>. QED BY <1>1, <1>3, <1>4, <1>5, OneReturns, ZenonT(120)

\* A call that has everything it needs.
LEMMA Done ==
    ASSUME Ind, NEW p \in Proc, call[p] \in {"fork", "exec", "grow"}, Needs(p) = "nothing"
    PROVE  page[New(p)][Mem] = None /\ i[p] = to[p] /\ to[p] \in 0..MaxSz
<1>1. page[New(p)][Mem] = None /\ ~(i[p] < to[p])
  BY DEF Needs, Lacks
<1>. QED BY <1>1, Progress

\* Unused pages and entries that do not change.
LEMMA NoPages ==
    ASSUME Ind, UNCHANGED <<freelist, page>>
    PROVE  PageInv'
BY Parts DEF PageInv, NoneLost, UsedOnce, Lacks

LEMMA GrownStep ==
    ASSUME Ind, NEW p \in Proc, grown(p), UNCHANGED calls PROVE MemoryInv'
<1>1. /\ call[p] = "grow" /\ UNCHANGED <<freelist, page, used>> /\ Return({p})
      /\ sz' = [sz EXCEPT ![p] = to[p]] /\ Needs(p) = "nothing"
  BY DEF grown, Complete
<1>2. page[New(p)][Mem] = None /\ i[p] = to[p] /\ to[p] \in 0..MaxSz
  BY <1>1, Done
<1>3. sz' \in [Proc -> 0..MaxSz] /\ sz'[p] = i[p] /\ \A r \in Proc \ {p} : sz'[r] = sz[r]
  BY <1>1, <1>2, ProcTypes
<1>4. \A e \in Entry : page'[New(p)][e] = None
  <2>1. \A e \in VmEntry \cup {Kstack} : page[New(p)][e] = None
    BY <1>1, GrowFacts, Slot
  <2>. QED BY <1>1, <1>2, <2>1 DEF Entry
<1>5. \A k \in 0..(MaxSz - 1) : page'[Cur(p)][Pte(k)] = None <=> k >= sz'[p]
  BY <1>1, <1>3, GrowFacts
<1>6. page'[Cur(p)][Mem] = None /\ PageInv' /\ \A o \in Owner : page'[o] = page[o]
  BY <1>1, Slot, NoPages
<1>. QED BY <1>1, <1>3, <1>4, <1>5, <1>6, OneReturns, ZenonT(120)

LEMMA ForkedStep ==
    ASSUME Ind, NEW p \in Proc, forked(p), UNCHANGED calls PROVE MemoryInv'
<1>0. PICK c \in Proc : c = child[p]
  BY Child DEF forked, Complete
<1>1. /\ call[p] = "fork" /\ UNCHANGED <<freelist, used>> /\ Return({p, c})
      /\ sz' = [sz EXCEPT ![c] = to[p]] /\ Moved(p, c) /\ Needs(p) = "nothing"
  BY <1>0 DEF forked, Complete
<1>2. page[New(p)][Mem] = None /\ i[p] = to[p] /\ to[p] \in 0..MaxSz
  BY <1>1, Done
<1>3. c \in used /\ \A e \in VmEntry : page[Cur(c)][e] = None
  BY <1>0, <1>1, Child, EmbryoFacts, Slot
<1>4. /\ PageInv'
      /\ \A e \in VmEntry : page'[Cur(c)][e] = page[New(p)][e] /\ page'[New(p)][e] = None
      /\ \A e \in Entry \ VmEntry : /\ page'[Cur(c)][e] = page[Cur(c)][e]
                                    /\ page'[New(p)][e] = page[New(p)][e]
      /\ \A o \in Owner \ {Cur(c), New(p)} : page'[o] = page[o]
  <2>1. \A pg : pg \in freelist' <=>
            \/ pg \in freelist
            \/ pg # None /\ \E e \in VmEntry : page[Cur(c)][e] = pg
    BY <1>1, <1>3
  <2>. QED BY <1>1, <2>1, MoveSpace, ZenonT(120)
<1>5. /\ sz' \in [Proc -> 0..MaxSz] /\ sz'[c] = i[p] /\ used' \subseteq Proc
      /\ \A r \in Proc \ {c} : sz'[r] = sz[r] /\ (r \in used' <=> r \in used)
  BY <1>1, <1>2, ProcTypes
<1>6. \A e \in Entry : page'[New(p)][e] = None
  BY <1>2, <1>4, Slot, Entries DEF Entry
<1>7. page'[Cur(c)][Mem] = None
  BY <1>4, Slot, Entries
<1>8. \A k \in 0..(MaxSz - 1) : page'[Cur(c)][Pte(k)] = None <=> k >= sz'[c]
  BY <1>1, <1>4, <1>5, BuildFacts, Entries
<1>9. c \in used' /\ PageInv' /\ \A o \in Owner \ {New(p), Cur(c)} : page'[o] = page[o]
  BY <1>1, <1>3, <1>4
<1>10. ChildSize(c)
  BY <1>5 DEF ChildSize
<1>11. ChildPages(p, c)
  BY <1>6, <1>7, <1>8, <1>9, Zenon DEF ChildPages
<1>. QED BY <1>0, <1>1, <1>10, <1>11, TwoReturn

LEMMA FreevmStep ==
    ASSUME Ind, NEW p \in Proc, freevm(p), UNCHANGED calls PROVE MemoryInv'
<1>1. /\ call[p] = "exec" /\ used' = used /\ Return({p}) /\ Moved(p, p)
      /\ sz' = [sz EXCEPT ![p] = to[p]] /\ Needs(p) = "nothing"
  BY DEF freevm, Complete
<1>2. page[New(p)][Mem] = None /\ i[p] = to[p] /\ to[p] \in 0..MaxSz
  BY <1>1, Done
<1>3. /\ PageInv'
      /\ \A e \in VmEntry : page'[Cur(p)][e] = page[New(p)][e] /\ page'[New(p)][e] = None
      /\ \A e \in Entry \ VmEntry : /\ page'[Cur(p)][e] = page[Cur(p)][e]
                                    /\ page'[New(p)][e] = page[New(p)][e]
      /\ \A o \in Owner \ {Cur(p), New(p)} : page'[o] = page[o]
  <2>1. \A pg : pg \in freelist' <=>
            \/ pg \in freelist
            \/ pg # None /\ \E e \in VmEntry : page[Cur(p)][e] = pg
    BY DEF freevm, kfree, PagesOf
  <2>. QED BY <1>1, <2>1, MoveSpace, ZenonT(120)
<1>4. sz' \in [Proc -> 0..MaxSz] /\ sz'[p] = i[p] /\ \A r \in Proc \ {p} : sz'[r] = sz[r]
  BY <1>1, <1>2, ProcTypes
<1>5. \A e \in Entry : page'[New(p)][e] = None
  BY <1>2, <1>3, Slot, Entries DEF Entry
<1>6. page'[Cur(p)][Mem] = None
  BY <1>3, Slot, Entries
<1>7. \A k \in 0..(MaxSz - 1) : page'[Cur(p)][Pte(k)] = None <=> k >= sz'[p]
  BY <1>1, <1>3, <1>4, BuildFacts, Entries
<1>. QED BY <1>1, <1>3, <1>4, <1>5, <1>6, <1>7, OneReturns, ZenonT(120)

-----------------------------------------------------------------------------
(***************************************************************************)
(* The steps that begin a call.                                            *)
(***************************************************************************)
LEMMA ForkStep ==
    ASSUME Ind, NEW p \in Proc, NEW q \in Proc, fork(p, q), calls' \in Nat
    PROVE  MemoryInv'
<1>1. Idle(p) /\ q \notin used /\ UNCHANGED <<freelist, page, sz, i>> /\ used' = used \cup {q}
  BY DEF fork
<1>2. /\ p \in used /\ p # q /\ call[p] = "none" /\ call[q] = "none"
      /\ i[p] = 0 /\ MaxSz \in Nat /\ sz[p] \in 0..MaxSz
  BY <1>1, IdleFacts, Slot, Progress
<1>3. /\ call'[p] = "fork" /\ call'[q] = "embryo" /\ child'[p] = q /\ to'[p] = sz[p]
      /\ \A r \in Proc \ {p} : child'[r] = child[r] /\ to'[r] = to[r]
      /\ \A r \in Proc \ {p, q} : call'[r] = call[r]
  BY <1>2, ProcTypes DEF fork
<1>4. CallTypes'
  BY <1>1, <1>2, ProcTypes DEF CallTypes, fork
<1>5. ForkInv'
  BY <1>2, <1>3, Parts DEF ForkInv
<1>6. ProcInv(p)'
  BY <1>1, <1>2, <1>3, Begun
<1>7. ProcInv(q)'
  BY <1>1, <1>2, <1>3, EmbryoBegun
<1>8. ASSUME NEW r \in Proc, r \notin {p, q} PROVE ProcInv(r)'
  BY <1>1, <1>3, <1>8, Frame
<1>. QED BY <1>1, <1>4, <1>5, <1>6, <1>7, <1>8, NoPages, Whole

\* exec() and growproc() begin with a target, and from a first page to map.
LEMMA OneBegins ==
    ASSUME Ind, NEW p \in Proc, Idle(p), UNCHANGED <<freelist, page, used, sz, child>>, CallTypes',
           call'[p] \in {"exec", "grow"}, i'[p] = (IF call'[p] = "grow" THEN sz[p] ELSE 0),
           i'[p] <= to'[p],
           \A r \in Proc \ {p} : call'[r] = call[r] /\ to'[r] = to[r] /\ i'[r] = i[r]
    PROVE  MemoryInv'
<1>1. p \in used /\ call[p] = "none" /\ MaxSz \in Nat /\ sz[p] \in 0..MaxSz
  BY IdleFacts, Progress
<1>2. ForkInv'
  BY <1>1, Parts DEF ForkInv
<1>3. ProcInv(p)'
  BY <1>1, Begun
<1>4. ASSUME NEW r \in Proc, r # p PROVE ProcInv(r)'
  BY <1>4, Frame
<1>. QED BY <1>2, <1>3, <1>4, NoPages, Whole

LEMMA ExecStep ==
    ASSUME Ind, NEW p \in Proc, NEW n \in 1..MaxSz, exec(p, n), calls' \in Nat
    PROVE  MemoryInv'
<1>1. Idle(p) /\ UNCHANGED <<freelist, page, used, sz, child, i>>
  BY DEF exec
<1>2. /\ call'[p] = "exec" /\ to'[p] = n
      /\ \A r \in Proc \ {p} : call'[r] = call[r] /\ to'[r] = to[r]
  BY ProcTypes DEF exec
<1>3. CallTypes'
  BY <1>1, ProcTypes, Progress DEF exec, CallTypes
<1>4. i'[p] = 0
  BY <1>1, IdleFacts
<1>. QED BY <1>1, <1>2, <1>3, <1>4, OneBegins

LEMMA GrowprocStep ==
    ASSUME Ind, NEW p \in Proc, NEW n \in 1..MaxSz, growproc(p, n), calls' \in Nat
    PROVE  MemoryInv'
<1>1. Idle(p) /\ n > sz[p] /\ UNCHANGED <<freelist, page, used, sz, child>>
  BY DEF growproc
<1>2. /\ call'[p] = "grow" /\ to'[p] = n /\ i'[p] = sz[p]
      /\ \A r \in Proc \ {p} : call'[r] = call[r] /\ to'[r] = to[r] /\ i'[r] = i[r]
  BY ProcTypes DEF growproc
<1>3. CallTypes'
  BY <1>1, ProcTypes, Progress DEF growproc, CallTypes
<1>4. i'[p] <= to'[p]
  BY <1>1, <1>2, Progress
<1>. QED BY <1>1, <1>2, <1>3, <1>4, OneBegins

-----------------------------------------------------------------------------
(***************************************************************************)
(* The steps that allocate a page.                                         *)
(***************************************************************************)
LEMMA AllocPages ==
    ASSUME Ind, NEW o \in Owner, NEW e \in Entry, Lacks(o, e), kalloc(o, e)
    PROVE  /\ PageInv' /\ page'[o][e] # None
           /\ \A o2 \in Owner, e2 \in Entry : (o2 = o /\ e2 = e) \/ page'[o2][e2] = page[o2][e2]
<1>1. TypeOK /\ MemoryAssumption /\ NoneLost /\ UsedOnce
  BY DEF Ind, MemoryInv
<1>2. NoneLost' /\ UsedOnce'
  BY <1>1, AllocAccounted
<1>3. /\ page' \in [Owner -> [Entry -> Pages \cup {None}]]
      /\ \E pg \in freelist :
            /\ freelist' = freelist \ {pg}
            /\ page'[o][e] = pg
            /\ \A o2 \in Owner, e2 \in Entry : (o2 = o /\ e2 = e) \/ page'[o2][e2] = page[o2][e2]
  BY <1>1, Allocated
<1>4. freelist' \subseteq Pages /\ page'[o][e] # None
  BY <1>3, PageTypes
<1>. QED BY <1>2, <1>3, <1>4 DEF PageInv

\* An allocation that leaves every call where it is.
LEMMA SameCalls ==
    ASSUME Ind, UNCHANGED <<used, sz, call, child, i, to, calls>>, PageInv',
           \A r \in Proc : ProcInv(r)'
    PROVE  MemoryInv'
<1>1. CallTypes'
  BY ProcTypes DEF CallTypes
<1>2. ForkInv'
  BY Parts DEF ForkInv
<1>. QED BY <1>1, <1>2, Whole

OnlyEntry(o, e) ==
    /\ UNCHANGED <<used, sz, call, child, i, to, calls>>
    /\ \A o2 \in Owner, e2 \in Entry : (o2 = o /\ e2 = e) \/ page'[o2][e2] = page[o2][e2]

LEMMA Filled ==
    ASSUME Ind, NEW p \in Proc, NEW o, o = Cur(p) \/ o = New(p), NEW e, OnlyEntry(o, e),
           PageInv', ProcInv(p)'
    PROVE  MemoryInv'
<1>1. ASSUME NEW r \in Proc, r # p PROVE ProcInv(r)'
  <2>1. \A e2 \in Entry : page'[Cur(r)][e2] = page[Cur(r)][e2] /\ page'[New(r)][e2] = page[New(r)][e2]
    BY <1>1, Owners DEF OnlyEntry
  <2>. QED BY <2>1, Frame DEF OnlyEntry
<1>. QED BY <1>1, SameCalls DEF OnlyEntry

LEMMA AllocprocStep == ASSUME Ind, NEW p \in Proc, allocproc(p), UNCHANGED calls PROVE MemoryInv'
<1>0. call[p] = "fork" /\ Lacks(Cur(child[p]), Kstack)
  BY DEF allocproc, Needs
<1>1. PICK c \in Proc : c = child[p] /\ call[c] = "embryo"
  BY <1>0, Child
<1>2. kalloc(Cur(c), Kstack) /\ UNCHANGED <<used, sz, call, child, i, to>>
  BY <1>1 DEF allocproc, opVars
<1>3. Cur(c) \in Owner /\ Kstack \in Entry /\ Lacks(Cur(c), Kstack)
  BY <1>0, <1>1, Owners, Entries
<1>4. /\ PageInv'
      /\ \A o2 \in Owner, e2 \in Entry :
             (o2 = Cur(c) /\ e2 = Kstack) \/ page'[o2][e2] = page[o2][e2]
  BY <1>2, <1>3, AllocPages
<1>5. /\ \A e \in Entry \ {Kstack} : page'[Cur(c)][e] = page[Cur(c)][e]
      /\ \A e \in Entry : page'[New(c)][e] = page[New(c)][e]
  BY <1>4, Owners
<1>6. ProcInv(c)'
  BY <1>1, <1>2, <1>5, StackFilled DEF SameCall
<1>7. OnlyEntry(Cur(c), Kstack)
  BY <1>2, <1>4 DEF OnlyEntry
<1>. QED BY <1>4, <1>6, <1>7, Filled

\* An entry of the space that a call is filling, other than a user page.
LEMMA SpaceEntry ==
    ASSUME Ind, NEW p \in Proc, call[p] \in {"fork", "exec", "grow"}, NEW e \in VmEntry,
           Lacks(Space(p), e), kalloc(Space(p), e), \A n : e # Pte(n) /\ e # Pt(n),
           UNCHANGED <<used, sz, call, child, i, to, calls>>
    PROVE  MemoryInv'
<1>1. Space(p) \in Owner /\ e \in Entry
  BY Owners, Entries DEF Space
<1>2. /\ PageInv'
      /\ \A o2 \in Owner, e2 \in Entry : (o2 = Space(p) /\ e2 = e) \/ page'[o2][e2] = page[o2][e2]
  BY <1>1, AllocPages
<1>3. /\ \A e2 \in Entry \ {e} : page'[Cur(p)][e2] = page[Cur(p)][e2] /\ page'[New(p)][e2] = page[New(p)][e2]
      /\ call[p] = "grow" => page'[New(p)][e] = page[New(p)][e]
  BY <1>1, <1>2, Owners DEF Space
<1>4. ProcInv(p)'
  BY <1>3, SpaceFilled DEF SameCall
<1>5. Space(p) = Cur(p) \/ Space(p) = New(p)
  BY DEF Space
<1>6. OnlyEntry(Space(p), e)
  BY <1>2 DEF OnlyEntry
<1>. QED BY <1>2, <1>4, <1>5, <1>6, Filled

LEMMA SetupkvmStep == ASSUME Ind, NEW p \in Proc, setupkvm(p), UNCHANGED calls PROVE MemoryInv'
<1>1. UNCHANGED <<used, sz, call, child, i, to>>
  BY DEF setupkvm, opVars
<1>2. CASE Needs(p) = "pgdir" /\ kalloc(Space(p), Pgdir)
  <2>1. call[p] \in {"fork", "exec", "grow"} /\ Lacks(Space(p), Pgdir)
    BY <1>2, ProcTypes DEF Needs
  <2>. QED BY <1>1, <1>2, <2>1, SpaceEntry, Entries, EntriesDiffer
<1>3. ASSUME NEW j \in 1..NKPT, Needs(p) = "kpt", Lacks(Space(p), Kpt(j)), kalloc(Space(p), Kpt(j))
      PROVE  MemoryInv'
  <2>1. call[p] \in {"fork", "exec", "grow"}
    BY <1>3, ProcTypes DEF Needs
  <2>. QED BY <1>1, <1>3, <2>1, SpaceEntry, Entries, EntriesDiffer
<1>. QED BY <1>2, <1>3 DEF setupkvm

\* A page that waits for its page table.
LEMMA MemStep ==
    ASSUME Ind, NEW p \in Proc, call[p] \in {"fork", "exec", "grow"}, i[p] < to[p],
           Lacks(Space(p), Pt(PDX(i[p]))), Lacks(New(p), Mem),
           kalloc(New(p), Mem), UNCHANGED <<used, sz, call, child, i, to, calls>>
    PROVE  MemoryInv'
<1>1. New(p) \in Owner /\ Mem \in Entry
  BY Owners, Entries
<1>2. /\ PageInv'
      /\ \A o2 \in Owner, e2 \in Entry : (o2 = New(p) /\ e2 = Mem) \/ page'[o2][e2] = page[o2][e2]
  BY <1>1, AllocPages
<1>3. /\ \A e \in Entry : page'[Cur(p)][e] = page[Cur(p)][e]
      /\ \A e \in Entry \ {Mem} : page'[New(p)][e] = page[New(p)][e]
  BY <1>2, Owners
<1>4. ProcInv(p)'
  BY <1>3, MemFilled DEF SameCall
<1>5. OnlyEntry(New(p), Mem)
  BY <1>2 DEF OnlyEntry
<1>. QED BY <1>2, <1>4, <1>5, Filled

\* The entry of the next user page is empty.
LEMMA NextEntry ==
    ASSUME Ind, NEW p \in Proc, call[p] \in {"fork", "exec", "grow"}, i[p] < to[p]
    PROVE  i[p] \in 0..(MaxSz - 1) /\ Lacks(Space(p), Pte(i[p]))
<1>1. i[p] \in 0..(MaxSz - 1)
  BY Progress
<1>2. CASE call[p] = "grow"
  BY <1>1, <1>2, GrowFacts DEF Lacks, Space
<1>3. CASE call[p] # "grow"
  BY <1>1, <1>3, BuildFacts DEF Lacks, Space
<1>. QED BY <1>1, <1>2, <1>3

\* The next user page is mapped.
LEMMA Grown ==
    ASSUME Ind, NEW p \in Proc, call[p] \in {"fork", "exec", "grow"}, i[p] < to[p],
           UNCHANGED <<used, sz, call, child, to, calls>>, i' = [i EXCEPT ![p] = i[p] + 1], PageInv',
           page'[New(p)][Mem] = None, page'[Space(p)][Pte(i[p])] # None,
           \A o2 \in Owner, e2 \in Entry :
               \/ o2 = Space(p) /\ e2 \in {Pt(PDX(i[p])), Pte(i[p])}
               \/ o2 = New(p) /\ e2 = Mem
               \/ page'[o2][e2] = page[o2][e2]
    PROVE  MemoryInv'
<1>1. i[p] \in 0..(MaxSz - 1) /\ MaxSz \in Nat /\ to[p] \in 0..MaxSz
  BY Progress
<1>2. CallTypes' /\ i'[p] = i[p] + 1 /\ \A r \in Proc \ {p} : i'[r] = i[r]
  BY <1>1, ProcTypes DEF CallTypes
<1>3. ForkInv'
  BY Parts DEF ForkInv
<1>4. ASSUME NEW r \in Proc, r # p PROVE ProcInv(r)'
  <2>1. Cur(r) # Space(p) /\ New(r) # Space(p) /\ New(r) # New(p) /\ Cur(r) # New(p)
    BY <1>4, Owners DEF Space
  <2>2. \A e \in Entry : page'[Cur(r)][e] = page[Cur(r)][e] /\ page'[New(r)][e] = page[New(r)][e]
    BY <2>1, Owners
  <2>. QED BY <1>2, <1>4, <2>2, Frame
<1>5. /\ \A k \in 0..(MaxSz - 1) : k # i[p] => page'[Space(p)][Pte(k)] = page[Space(p)][Pte(k)]
      /\ page'[Cur(p)][Mem] = page[Cur(p)][Mem] /\ page'[New(p)][Kstack] = page[New(p)][Kstack]
  BY <1>1, Owners, Entries, EntriesDiffer DEF Space
<1>6. p \in used /\ page'[Cur(p)][Mem] = None /\ page'[New(p)][Kstack] = None
  BY <1>5, Slot
<1>7. ASSUME call[p] = "grow" PROVE ProcInv(p)'
  <2>1. /\ \A e \in VmEntry : page'[New(p)][e] = None
        /\ \A k \in 0..(MaxSz - 1) : page[Cur(p)][Pte(k)] = None <=> k >= i[p]
        /\ sz[p] <= i[p]
    BY <1>7, GrowFacts, Owners, Entries DEF Space
  <2>2. \A k \in 0..(MaxSz - 1) : page'[Cur(p)][Pte(k)] = None <=> k >= i'[p]
    BY <1>1, <1>2, <1>5, <1>7, <2>1 DEF Space
  <2>3. sz[p] <= i'[p] /\ i'[p] <= to[p]
    BY <1>1, <1>2, <2>1, Progress
  <2>4. CallInv(p)'
    BY <1>7, <2>2, <2>3 DEF CallInv, Mapped, Lacks
  <2>5. EmptyInv(p)'
    BY <1>6, <1>7, <2>1 DEF EmptyInv, Lacks
  <2>. QED BY <2>4, <2>5 DEF ProcInv
<1>8. ASSUME call[p] # "grow" PROVE ProcInv(p)'
  <2>1. /\ \A e \in Entry : page'[Cur(p)][e] = page[Cur(p)][e]
        /\ Space(p) = New(p) /\ call[p] \in {"fork", "exec"}
    BY <1>8, Owners DEF Space
  <2>2. \A k \in 0..(MaxSz - 1) : /\ page[New(p)][Pte(k)] = None <=> k >= i[p]
                                  /\ page'[Cur(p)][Pte(k)] = None <=> k >= sz[p]
    BY <2>1, BuildFacts, Entries
  <2>3. \A k \in 0..(MaxSz - 1) : page'[New(p)][Pte(k)] = None <=> k >= i'[p]
    BY <1>1, <1>2, <1>5, <2>1, <2>2
  <2>4. i'[p] <= to[p]
    BY <1>1, <1>2
  <2>5. CallInv(p)'
    BY <2>1, <2>2, <2>3, <2>4 DEF CallInv, Mapped, Lacks
  <2>6. EmptyInv(p)'
    BY <1>6, <2>1 DEF EmptyInv, Lacks
  <2>. QED BY <2>5, <2>6 DEF ProcInv
<1>. QED BY <1>2, <1>3, <1>4, <1>7, <1>8, Whole

LEMMA AllocuvmStep == ASSUME Ind, NEW p \in Proc, allocuvm(p), UNCHANGED calls PROVE MemoryInv'
<1>1. /\ Lacks(New(p), Mem) /\ i[p] < to[p] /\ call[p] \in {"fork", "exec", "grow"}
  BY ProcTypes DEF allocuvm, Needs
<1>2. UNCHANGED <<used, sz, call, child, to>>
  BY DEF allocuvm
<1>3. CASE Lacks(Space(p), Pt(PDX(i[p])))
  <2>1. kalloc(New(p), Mem) /\ UNCHANGED i
    BY <1>3 DEF allocuvm
  <2>. QED BY <1>1, <1>2, <1>3, <2>1, MemStep
<1>4. CASE ~Lacks(Space(p), Pt(PDX(i[p])))
  <2>1. kalloc(Space(p), Pte(i[p])) /\ i' = [i EXCEPT ![p] = i[p] + 1]
    BY <1>4 DEF allocuvm
  <2>2. i[p] \in 0..(MaxSz - 1) /\ Lacks(Space(p), Pte(i[p]))
    BY <1>1, NextEntry
  <2>3. Space(p) \in Owner /\ New(p) \in Owner /\ Pte(i[p]) \in Entry /\ Pte(i[p]) # Mem
    BY <2>2, Owners, Entries DEF Space
  <2>4. /\ PageInv' /\ page'[Space(p)][Pte(i[p])] # None
        /\ \A o2 \in Owner, e2 \in Entry :
               (o2 = Space(p) /\ e2 = Pte(i[p])) \/ page'[o2][e2] = page[o2][e2]
    BY <2>1, <2>2, <2>3, AllocPages
  <2>5. page'[New(p)][Mem] = None
    BY <1>1, <2>3, <2>4, Entries DEF Lacks
  <2>6. \A o2 \in Owner, e2 \in Entry :
            \/ o2 = Space(p) /\ e2 \in {Pt(PDX(i[p])), Pte(i[p])}
            \/ o2 = New(p) /\ e2 = Mem
            \/ page'[o2][e2] = page[o2][e2]
    BY <2>4
  <2>. QED BY <1>1, <1>2, <2>1, <2>4, <2>5, <2>6, Grown, ZenonT(120)
<1>. QED BY <1>3, <1>4

LEMMA WalkpgdirStep == ASSUME Ind, NEW p \in Proc, walkpgdir(p), UNCHANGED calls PROVE MemoryInv'
<1> DEFINE pt == Pt(PDX(i[p]))
           pte == Pte(i[p])
           mem == page[New(p)][Mem]
<1>1. /\ mem # None /\ i[p] < to[p] /\ Lacks(Space(p), pt) /\ call[p] \in {"fork", "exec", "grow"}
  <2>1. CallInv(p) /\ mem # None
    BY Parts DEF ProcInv, walkpgdir, Needs, Lacks
  <2>. QED BY <2>1 DEF CallInv, Lacks
<1>2. UNCHANGED <<used, sz, call, child, to>> /\ i' = [i EXCEPT ![p] = i[p] + 1]
  BY DEF walkpgdir
<1>3. i[p] \in 0..(MaxSz - 1) /\ Lacks(Space(p), pte)
  BY <1>1, NextEntry
<1>4. /\ Space(p) \in Owner /\ New(p) \in Owner /\ pte \in Entry /\ pt \in Entry
      /\ Mem \in Entry /\ pte # Mem /\ pt # Mem /\ pt # pte
  BY <1>3, Owners, Entries, EntriesDiffer DEF Space
<1>5. Page \in freelist /\ freelist' = freelist \ {Page}
  BY DEF walkpgdir, Page
<1>6. /\ page' \in [Owner -> [Entry -> Pages \cup {None}]]
      /\ page'[Space(p)][pt] = Page /\ page'[Space(p)][pte] = mem /\ page'[New(p)][Mem] = None
      /\ \A o2 \in Owner, e2 \in Entry :
               \/ o2 = Space(p) /\ e2 \in {pt, pte}
               \/ o2 = New(p) /\ e2 = Mem
               \/ page'[o2][e2] = page[o2][e2]
  BY <1>4, <1>5, PageTypes DEF walkpgdir
<1>7. NoneLost' /\ UsedOnce'
  <2>1. NoneLost /\ UsedOnce /\ None \notin freelist /\ Mem \in Entry \ {pt, pte}
    BY <1>4, Parts, PageTypes DEF PageInv
  <2>2. page[Space(p)][pt] = None /\ page[Space(p)][pte] = None
    BY <1>1, <1>3 DEF Lacks
  <2>3. \A o \in Owner, e \in Entry : \/ o = Space(p) /\ e = pt
                                      \/ o = Space(p) /\ e = pte
                                      \/ o = New(p) /\ e = Mem
                                      \/ page'[o][e] = page[o][e]
    BY <1>6
  <2> HIDE DEF pt, pte
  <2>. QED BY <1>1, <1>4, <1>5, <1>6, <2>1, <2>2, <2>3, WalkAccounted
<1>8. PageInv' /\ page'[Space(p)][pte] # None
  BY <1>1, <1>5, <1>6, <1>7, PageTypes DEF PageInv
<1>. QED BY <1>1, <1>2, <1>6, <1>8, Grown, ZenonT(120)

-----------------------------------------------------------------------------
(***************************************************************************)
(* The pages of pipes and threads.                                         *)
(***************************************************************************)
LEMMA KernelPage ==
    ASSUME Ind, UNCHANGED <<used, sz, opVars>>, calls' \in Nat, PageInv',
           \A r \in Proc : \A e \in Entry : /\ page'[Cur(r)][e] = page[Cur(r)][e]
                                            /\ page'[New(r)][e] = page[New(r)][e]
    PROVE  MemoryInv'
<1>1. UNCHANGED <<used, sz, call, child, i, to>>
  BY DEF opVars
<1>2. CallTypes'
  BY <1>1, ProcTypes DEF CallTypes
<1>3. ForkInv'
  BY <1>1, Parts DEF ForkInv
<1>4. \A r \in Proc : ProcInv(r)'
  BY <1>1, Frame
<1>. QED BY <1>2, <1>3, <1>4, Whole

LEMMA PipeallocStep ==
    ASSUME Ind, NEW x \in Other, pipealloc(x), calls' \in Nat PROVE MemoryInv'
<1>1. Lacks(Kern(x), Mem) /\ kalloc(Kern(x), Mem) /\ UNCHANGED <<used, sz, opVars>>
  BY DEF pipealloc
<1>2. Kern(x) \in Owner /\ Mem \in Entry
  BY Owners, Entries
<1>3. /\ PageInv'
      /\ \A o2 \in Owner, e2 \in Entry : (o2 = Kern(x) /\ e2 = Mem) \/ page'[o2][e2] = page[o2][e2]
  BY <1>1, <1>2, AllocPages
<1>4. \A r \in Proc : \A e \in Entry : /\ page'[Cur(r)][e] = page[Cur(r)][e]
                                       /\ page'[New(r)][e] = page[New(r)][e]
  BY <1>3, Owners
<1>. QED BY <1>1, <1>3, <1>4, KernelPage

LEMMA PipecloseStep ==
    ASSUME Ind, NEW x \in Other, pipeclose(x), UNCHANGED calls PROVE MemoryInv'
<1>1. UNCHANGED <<used, sz, opVars>> /\ calls' \in Nat
  BY ProcTypes DEF pipeclose
<1>2. Kern(x) \in Owner /\ {Mem} \in SUBSET Entry
  BY Owners, Entries
<1>3. kfree(PagesOf(Kern(x), {Mem})) /\ page' = [page EXCEPT ![Kern(x)] = Cleared(Kern(x), {Mem})]
  BY DEF pipeclose
<1>4. PageInv' /\ \A o2 \in Owner \ {Kern(x)} : page'[o2] = page[o2]
  BY <1>2, <1>3, ClearOne, ZenonT(120)
<1>5. \A r \in Proc : \A e \in Entry : /\ page'[Cur(r)][e] = page[Cur(r)][e]
                                       /\ page'[New(r)][e] = page[New(r)][e]
  BY <1>4, Owners
<1>. QED BY <1>1, <1>4, <1>5, KernelPage

-----------------------------------------------------------------------------
LEMMA InitPages ==
    ASSUME MemoryAssumption
    PROVE  /\ \A e \in Entry : InitPage(e) \in 1..(NKPT + 4) \cup {None}
           /\ \A pg \in 1..(NKPT + 4) : \E e \in Entry : InitPage(e) = pg
           /\ \A e, f \in Entry : InitPage(e) = InitPage(f) /\ InitPage(e) # None => e = f
           /\ InitPage(Mem) = None
           /\ \A k \in 0..(MaxSz - 1) : InitPage(Pte(k)) = None <=> k >= 1
<1>1. /\ NKPT \in Nat /\ MaxSz \in Nat \ {0} /\ None \notin 1..(NKPT + 4)
  BY DEF MemoryAssumption
<1>2. /\ InitPage(Kstack) = 1 /\ InitPage(Pgdir) = 2 /\ InitPage(Pt(PDX(0))) = 3
      /\ InitPage(Pte(0)) = 4 /\ InitPage(Mem) = None
      /\ \A j \in 1..NKPT : InitPage(Kpt(j)) = 4 + j
  <2>1. /\ \A n : Pt(n) # Kstack /\ Pte(n) # Kstack /\ Kpt(n) # Kstack /\ Kpt(n)[2] = n
        /\ Pgdir # Kstack /\ Mem # Kstack /\ Mem # Pgdir
        /\ \A n : Mem # Pt(n) /\ Mem # Pte(n) /\ Mem # Kpt(n)
    BY DEF Kstack, Pgdir, Pt, Pte, Kpt, Mem
  <2>. QED BY <2>1, EntriesDiffer DEF InitPage
<1>3. \A e \in Entry : \/ e \in {Kstack, Pgdir, Pt(PDX(0)), Pte(0)}
                       \/ \E j \in 1..NKPT : e = Kpt(j)
                       \/ InitPage(e) = None
  BY DEF InitPage
<1>4. \A k \in 0..(MaxSz - 1) : k >= 1 => InitPage(Pte(k)) = None
  BY <1>1 DEF InitPage, Kstack, Pgdir, Pt, Pte, Kpt
<1>5. \A e \in Entry : InitPage(e) \in 1..(NKPT + 4) \cup {None}
  BY <1>1, <1>2, <1>3
<1>6. ASSUME NEW pg \in 1..(NKPT + 4) PROVE \E e \in Entry : InitPage(e) = pg
  <2>1. Kstack \in Entry /\ Pgdir \in Entry /\ Pt(PDX(0)) \in Entry /\ Pte(0) \in Entry
        /\ \A j \in 1..NKPT : Kpt(j) \in Entry
    BY <1>1, Entries
  <2>2. CASE pg > 4
    <3>1. pg - 4 \in 1..NKPT /\ 4 + (pg - 4) = pg
      BY <1>1, <2>2
    <3>. QED BY <1>2, <2>1, <3>1
  <2>3. CASE pg \in {1, 2, 3, 4}
    BY <1>2, <2>1, <2>3
  <2>. QED BY <1>1, <2>2, <2>3
<1>7. ASSUME NEW e \in Entry, NEW f \in Entry, InitPage(e) = InitPage(f), InitPage(e) # None
      PROVE  e = f
  BY <1>1, <1>2, <1>3, <1>7
<1>. QED BY <1>1, <1>2, <1>4, <1>5, <1>6, <1>7

LEMMA MemoryInit == ASSUME MemoryAssumption, Init PROVE MemoryInv
<1>1. /\ NKPT \in Nat /\ NPAGE \in Nat /\ MaxSz \in Nat \ {0} /\ NKPT + 4 <= NPAGE
      /\ None \notin Pages /\ InitProc \in Proc
  BY DEF MemoryAssumption, Pages
<1>2. /\ freelist = (NKPT + 5)..NPAGE /\ used = {InitProc} /\ calls = 0
      /\ \A o \in Owner, e \in Entry : page[o][e] = IF o = Cur(InitProc) THEN InitPage(e) ELSE None
      /\ \A p \in Proc : /\ sz[p] = (IF p = InitProc THEN 1 ELSE 0) /\ call[p] = "none"
                         /\ i[p] = 0 /\ to[p] = 0
  BY DEF Init
<1>3. 1..(NKPT + 4) \subseteq Pages /\ freelist \subseteq Pages /\ Cur(InitProc) \in Owner
  BY <1>1, <1>2, Owners DEF Pages
<1>4. TypeOK
  <2>1. page \in [Owner -> [Entry -> Pages \cup {None}]]
    BY <1>3, InitPages DEF Init
  <2>. QED BY <1>1, <1>3, <2>1 DEF Init, TypeOK
<1>5. NoneLost
  BY <1>1, <1>2, <1>3, InitPages DEF NoneLost, Pages
<1>6. UsedOnce
  BY <1>1, <1>2, <1>3, InitPages DEF UsedOnce, Lacks
<1>7. ForkInv
  BY <1>2 DEF ForkInv
<1>8. ASSUME NEW p \in Proc PROVE CallInv(p) /\ EmptyInv(p)
  <2>1. /\ Cur(p) \in Owner /\ New(p) \in Owner /\ New(p) # Cur(InitProc)
        /\ Cur(p) = Cur(InitProc) => p = InitProc
    BY <1>1, Owners
  <2>2. \A e \in Entry : page[New(p)][e] = None /\ (p # InitProc => page[Cur(p)][e] = None)
    BY <1>2, <2>1
  <2>3. page[Cur(p)][Mem] = None /\ (p = InitProc => Mapped(Cur(p), 1))
    BY <1>1, <1>2, <2>1, <2>2, Entries, InitPages DEF Mapped, Lacks
  <2>. QED BY <1>2, <2>2, <2>3, Entries DEF CallInv, EmptyInv, Lacks
<1>. QED BY <1>4, <1>5, <1>6, <1>7, <1>8 DEF MemoryInv

LEMMA MemoryStep == ASSUME MemoryAssumption PROVE MemoryInv /\ [Next]_memVars => MemoryInv'
<1> SUFFICES ASSUME MemoryInv, [Next]_memVars PROVE MemoryInv'
  OBVIOUS
<1>0. Ind /\ calls \in Nat
  <2>1. Ind
    BY DEF Ind
  <2>. QED BY <2>1, ProcTypes
<1>1. ASSUME NEW p \in Proc, Step(p), UNCHANGED calls PROVE MemoryInv'
  BY <1>0, <1>1, AllocprocStep, SetupkvmStep, AllocuvmStep, WalkpgdirStep, GrowprocFailedStep,
     ForkFailedStep, ExecBadStep, ForkedStep, FreevmStep, GrownStep, WaitStep, ZenonT(120) DEF Step
<1>2. ASSUME NEW p \in Proc, calls' = calls + 1,
             \/ \E q \in Proc : fork(p, q)
             \/ \E n \in 1..MaxSz : exec(p, n) \/ growproc(p, n) \/ deallocuvm(p, n)
      PROVE  MemoryInv'
  <2>1. calls' \in Nat
    BY <1>0, <1>2
  <2>. QED BY <1>0, <1>2, <2>1, ForkStep, ExecStep, GrowprocStep, DeallocuvmStep, ZenonT(120)
<1>3. CASE UNCHANGED memVars
  <2>1. UNCHANGED <<freelist, page>> /\ UNCHANGED <<used, sz, call, child, i, to, calls>>
    BY <1>3 DEF memVars, opVars
  <2>2. \A r \in Proc : ProcInv(r)'
    BY <1>0, <2>1, Frame
  <2>. QED BY <1>0, <2>1, <2>2, NoPages, SameCalls
<1>4. ASSUME NEW x \in Other, (calls' = calls + 1 /\ pipealloc(x)) \/ (pipeclose(x) /\ UNCHANGED calls)
      PROVE  MemoryInv'
  <2>1. calls + 1 \in Nat
    BY <1>0
  <2>. QED BY <1>0, <1>4, <2>1, PipeallocStep, PipecloseStep, Zenon
<1>. QED BY <1>1, <1>2, <1>3, <1>4, ZenonT(120) DEF Next

(* Every page is on the free list or has exactly one use, whichever        *)
(* allocations of fork(), exec(), growproc() and pipe() fail; a call has   *)
(* mapped exactly the pages that it has come to.                           *)
THEOREM MemoryInductive == Spec => []MemoryInv
<1>1. Init => MemoryInv
  BY MemoryConstants, MemoryInit
<1>2. MemoryInv /\ [Next]_memVars => MemoryInv'
  BY MemoryConstants, MemoryStep
<1>. QED BY <1>1, <1>2, PTL DEF Spec

(* No page of kalloc.c is lost, given twice or freed while it is mapped,   *)
(* and a process between calls has exactly the pages below its size, so    *)
(* that copyuvm() meets no missing page (vm.c:353-356).                    *)
THEOREM MemoryPagesAccounted == Spec => []PagesAccounted
<1>1. ASSUME MemoryInv PROVE PagesAccounted
  <2>1. Ind
    BY <1>1, MemoryConstants DEF Ind
  <2>2. NoneLost /\ UsedOnce
    BY <2>1, Parts DEF PageInv
  <2>3. \A p \in Proc : Idle(p) => Mapped(Cur(p), sz[p])
    BY <2>1, IdleFacts DEF Mapped, Lacks
  <2>. QED BY <2>2, <2>3 DEF PagesAccounted
<1>. QED BY <1>1, MemoryInductive, PTL
=============================================================================
