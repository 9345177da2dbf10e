--------------------------- MODULE GrowprocProofs ---------------------------
(***************************************************************************)
(* GrowInv holds in every program that has a mutex around sbrk() and       *)
(* thread_create(), for any number of threads, page size and increments.   *)
(***************************************************************************)
EXTENDS Growproc, TLAPS

\* Time for the provers, in seconds: a goal that one gives up is tried again.
USE SMTT(60), SMTT(55), SMTT(50), SMTT(45), SMTT(40), SMTT(30), ZenonT(60)

\* What the proof needs of PGROUNDUP, and all it needs of it: the round-up
\* of a size is a number of pages, and a larger size has no fewer pages.
LEMMA DivNat == ASSUME NEW x \in Nat, NEW d \in Nat \ {0} PROVE x \div d \in Nat
  OBVIOUS

\* Division rounds down.
LEMMA DivBounds ==
  ASSUME NEW x \in Nat, NEW d \in Nat \ {0}
  PROVE  d * (x \div d) <= x /\ x < d * (x \div d) + d
  OBVIOUS

\* Division by a positive number is monotone.
LEMMA DivMonotone ==
  ASSUME NEW x \in Nat, NEW y \in Nat, x <= y, NEW d \in Nat \ {0}
  PROVE  x \div d <= y \div d
<1> DEFINE m == x \div d
           n == y \div d
<1>1. m \in Nat /\ n \in Nat
  BY DivNat
<1>2. d * m <= x /\ y < d * n + d
  BY DivBounds
<1> HIDE DEF m, n
<1>3. SUFFICES ASSUME n + 1 <= m PROVE FALSE
  BY <1>1 DEF m, n
<1>4. d * (n + 1) <= d * m
  BY <1>1, <1>3
<1>5. d * (n + 1) = d * n + d
  BY <1>1
<1>. QED  BY <1>1, <1>2, <1>4, <1>5

\* PGROUNDUP gives a number of pages.
LEMMA RoundUpNat == \A n \in Nat : PGROUNDUP(n) \in Nat
<1> SUFFICES ASSUME NEW n \in Nat PROVE PGROUNDUP(n) \in Nat
  OBVIOUS
<1>1. n + PGSIZE - 1 \in Nat /\ PGSIZE \in Nat \ {0}
  BY GrowprocAssumption
<1>. QED  BY <1>1, DivNat DEF PGROUNDUP

\* PGROUNDUP is monotone.
LEMMA RoundUpMonotone == \A m, n \in Nat : m <= n => PGROUNDUP(m) <= PGROUNDUP(n)
<1> SUFFICES ASSUME NEW m \in Nat, NEW n \in Nat, m <= n PROVE PGROUNDUP(m) <= PGROUNDUP(n)
  OBVIOUS
<1>1. m + PGSIZE - 1 \in Nat /\ n + PGSIZE - 1 \in Nat /\ PGSIZE \in Nat \ {0}
  BY GrowprocAssumption
<1>2. m + PGSIZE - 1 <= n + PGSIZE - 1
  BY <1>1
<1>. QED  BY <1>1, <1>2, DivMonotone DEF PGROUNDUP

Inv == TypeOK /\ GrowInv

\* In the initial state nothing runs but the process, and exec() has mapped it.
LEMMA InitInv == Init => Inv
<1> SUFFICES ASSUME Init PROVE Inv
  OBVIOUS
<1> USE GrowprocAssumption
<1>1. TypeOK
  <2>1. present \subseteq Nat
    BY RoundUpNat DEF Init, Pages
  <2>2. 0 \in 0 .. KERNBASE - 1 /\ Base \in 0 .. KERNBASE - 1 /\ Main \in Proc
    BY DEF Proc
  <2>3. sz \in [Proc -> 0 .. KERNBASE - 1] /\ \A p \in Proc : Runs(p) => sz[p] >= Base
    BY <2>2 DEF Init, Runs
  <2>4. /\ addr \in [Proc -> 0 .. KERNBASE - 1] /\ oldsz \in [Proc -> 0 .. KERNBASE - 1]
        /\ newsz \in [Proc -> 0 .. KERNBASE - 1]
    BY <2>2 DEF Init
  <2>5. /\ parent \in [Proc -> Proc \cup {None}] /\ isthread \in [Proc -> BOOLEAN]
        /\ panicked \in BOOLEAN /\ pc \in [Proc -> PcState] /\ owns \in [Proc -> SUBSET Nat]
    BY ZenonT(120) DEF Init, PcState
  <2>6. DOMAIN a = Proc /\ \A p \in Proc : a[p] \in IF pc[p] = "create" THEN Thread ELSE Nat
    BY DEF Init
  <2>. QED  BY <2>1, <2>3, <2>4, <2>5, <2>6 DEF TypeOK
<1>2. Quiet
  BY DEF Init, Quiet
<1>3. Family /\ GrantsDisjoint /\ ~panicked
  BY DEF Init, Family, GrantsDisjoint, Proc
<1>4. SizesAgree /\ MappedExactly /\ Owned(sz[Main])
  BY ZenonT(120) DEF Init, SizesAgree, MappedExactly, Owned, Runs, Proc
<1>5. \A p \in Proc : CallInv(p)
  BY <1>2, ZenonT(120) DEF Quiet, CallInv
<1>. QED  BY <1>1, <1>2, <1>3, <1>4, <1>5 DEF Inv, GrowInv, Quiet

\* While one call is under way, the mutex keeps everybody else in user code.
LEMMA OthersInUser ==
  ASSUME Inv, NEW p \in Proc, pc[p] # "user"
  PROVE  /\ \A q \in Proc \ {p} : pc[q] = "user"
         /\ ~Quiet /\ ~panicked
  BY DEF Inv, GrowInv, Quiet

\* There is nothing to know about a process in user code.
LEMMA InUserCode == ASSUME NEW p \in Proc, pc'[p] = "user" PROVE CallInv(p)'
  BY ZenonT(120) DEF CallInv

\* A step of p that leaves p inside its call keeps what concerns everybody.
LEMMA StaysInCall ==
  ASSUME Inv, NEW p \in Proc, pc' = [pc EXCEPT ![p] = pc'[p]], pc'[p] # "user",
         \A q \in Proc \ {p} : pc[q] = "user",
         TypeOK', UNCHANGED <<parent, isthread, owns>>, ~panicked', CallInv(p)'
  PROVE  Inv'
<1>0. pc \in [Proc -> PcState]
  BY DEF Inv, TypeOK
<1>1. \A q \in Proc \ {p} : pc'[q] = "user"
  BY <1>0
<1>2. ~Quiet'
  BY DEF Quiet
<1>3. Family' /\ GrantsDisjoint'
  BY DEF Inv, GrowInv, Family, GrantsDisjoint
<1>4. (SizesAgree /\ MappedExactly /\ (Quiet => Owned(sz[Main])))'
  BY <1>2 DEF SizesAgree, MappedExactly
<1>5. \A q \in Proc : CallInv(q)'
  BY <1>1, InUserCode
<1>. QED  BY <1>1, <1>3, <1>4, <1>5 DEF Inv, GrowInv

\* A step with which p returns leaves everybody in user code.
LEMMA Returns ==
  ASSUME Inv, NEW p \in Proc, pc[p] # "user", Goto(p, "user"), TypeOK',
         Family', GrantsDisjoint', ~panicked', Size(sz[Main])',
         present' = Pages(sz'[Main]), Owned(sz[Main])'
  PROVE  Inv'
<1>1. \A q \in Proc : pc'[q] = "user"
  BY OthersInUser DEF Inv, TypeOK, Goto
<1>2. (SizesAgree /\ MappedExactly)'
  BY DEF SizesAgree, MappedExactly, Size
<1>3. \A q \in Proc : CallInv(q)'
  BY <1>1, InUserCode
<1>. QED  BY <1>1, <1>2, <1>3 DEF Inv, GrowInv

\* thread_create() copies the size everybody agrees on.
LEMMA ThreadCreate ==
  ASSUME Inv, Serialized, NEW p \in Proc, NEW t \in Thread, thread_create(p, t)
  PROVE  Inv'
<1>1. /\ p = Main /\ Quiet /\ pc[p] = "user" /\ ~isthread[t] /\ t \in Proc /\ t # Main
      /\ \A q \in Proc : pc[q] = "user"
  BY GrowprocAssumption DEF thread_create, MayCall, Quiet, Proc
<1>2. pc' = [pc EXCEPT ![p] = "create"] /\ pc'[p] = "create"
  BY DEF thread_create, Goto, Inv, TypeOK
<1>3. sz' = [sz EXCEPT ![t] = sz[p]] /\ a' = [a EXCEPT ![p] = t]
  BY DEF thread_create
<1>4. TypeOK'
  <2>1. sz' \in [Proc -> 0 .. KERNBASE - 1] /\ \A q \in Proc : Runs(q)' => sz'[q] >= Base
    BY <1>1, <1>3 DEF thread_create, Inv, TypeOK, Runs
  <2>2. pc' \in [Proc -> PcState]
    BY <1>2 DEF Inv, TypeOK, PcState
  <2>3. DOMAIN a' = Proc /\ \A q \in Proc : a'[q] \in IF pc'[q] = "create" THEN Thread ELSE Nat
    BY <1>2, <1>3 DEF Inv, TypeOK
  <2>. QED  BY <2>1, <2>2, <2>3 DEF thread_create, Inv, TypeOK
<1>5. CallInv(p)'
  <2>1. a'[p] = t /\ ~isthread'[t] /\ sz'[t] = sz[Main] /\ sz'[Main] = sz[Main]
    BY <1>1, <1>3 DEF thread_create, Inv, TypeOK
  <2>2. Size(sz[Main])'
    BY <1>1, <1>3, <2>1 DEF thread_create, Inv, TypeOK, GrowInv, SizesAgree, Size, Runs
  <2>3. present' = Pages(sz'[Main]) /\ Owned(sz[Main])'
    BY <1>1, <2>1 DEF thread_create, Inv, GrowInv, MappedExactly, Owned
  <2>. QED  BY <1>1, <1>2, <2>1, <2>2, <2>3, ZenonT(120) DEF CallInv
<1>6. UNCHANGED <<parent, isthread, owns>> /\ ~panicked'
  BY DEF thread_create, Inv, GrowInv
<1>. QED  BY <1>1, <1>2, <1>4, <1>5, <1>6, StaysInCall, ZenonT(120)

\* The call returns: the types of its locals.
LEMMA ReturnTypes ==
  ASSUME Inv, NEW p \in Proc, Return(p), UNCHANGED <<panicked, present>>
  PROVE  /\ pc' \in [Proc -> PcState] /\ panicked' \in BOOLEAN /\ present' \subseteq Nat
         /\ addr' \in [Proc -> 0 .. KERNBASE - 1]
         /\ oldsz' \in [Proc -> 0 .. KERNBASE - 1]
         /\ newsz' \in [Proc -> 0 .. KERNBASE - 1]
         /\ DOMAIN a' = Proc
         /\ \A q \in Proc : a'[q] \in IF pc'[q] = "create" THEN Thread ELSE Nat
<1>1. 0 \in 0 .. KERNBASE - 1
  BY GrowprocAssumption
<1>. QED  BY <1>1 DEF Return, Goto, Inv, TypeOK, PcState

\* The new thread becomes visible with the size that the process still has.
LEMMA ThreadCreateReturn ==
  ASSUME Inv, NEW p \in Proc, thread_create_return(p)
  PROVE  Inv'
<1>1. /\ p = Main /\ a[p] \in Thread /\ ~isthread[a[p]] /\ sz[a[p]] = sz[Main]
      /\ Size(sz[Main]) /\ present = Pages(sz[Main]) /\ Owned(sz[Main])
  BY ZenonT(120) DEF thread_create_return, Inv, TypeOK, GrowInv, CallInv
<1>2. /\ a[p] \in Proc /\ a[p] # Main /\ Main \in Proc
      /\ \A t \in Thread : t # Main
  BY <1>1, GrowprocAssumption DEF Proc
<1>3. /\ parent' = [parent EXCEPT ![a[p]] = p] /\ isthread' = [isthread EXCEPT ![a[p]] = TRUE]
      /\ UNCHANGED <<sz, present, panicked, owns>> /\ Return(p)
  BY DEF thread_create_return
<1>4. TypeOK'
  <2>1. \A q \in Proc : Runs(q)' => sz'[q] >= Base
    BY <1>1, <1>2, <1>3 DEF Inv, TypeOK, Runs
  <2>2. parent' \in [Proc -> Proc \cup {None}] /\ isthread' \in [Proc -> BOOLEAN]
    BY <1>2, <1>3 DEF Inv, TypeOK
  <2>. QED  BY <1>3, <2>1, <2>2, ReturnTypes DEF Inv, TypeOK
<1>5. Family'
  BY <1>1, <1>2, <1>3 DEF Inv, TypeOK, GrowInv, Family, Proc
<1>6. Size(sz[Main])' /\ Owned(sz[Main])' /\ GrantsDisjoint' /\ ~panicked'
  BY <1>1, <1>2, <1>3 DEF Inv, TypeOK, GrowInv, Size, Owned, Runs, GrantsDisjoint
<1>7. present' = Pages(sz'[Main])
  BY <1>1, <1>3
<1>. QED  BY <1>3, <1>4, <1>5, <1>6, <1>7, Returns DEF thread_create_return, Return

\* sys_sbrk() notes the size that everybody agrees on.
LEMMA SysSbrk ==
  ASSUME Inv, Serialized, NEW p \in Proc, sys_sbrk(p)
  PROVE  Inv'
<1>1. Runs(p) /\ Quiet /\ \A q \in Proc : pc[q] = "user"
  BY DEF sys_sbrk, MayCall, Quiet
<1>2. pc' = [pc EXCEPT ![p] = "sbrk"] /\ pc'[p] = "sbrk" /\ addr' = [addr EXCEPT ![p] = sz[p]]
  BY DEF sys_sbrk, Goto, Inv, TypeOK
<1>3. UNCHANGED <<sz, parent, isthread, present, panicked, oldsz, newsz, a, owns>>
  BY DEF sys_sbrk, tableVars
<1>4. TypeOK'
  BY <1>1, <1>2, <1>3 DEF Inv, TypeOK, PcState, Runs
<1>5. CallInv(p)'
  <2>1. sz[p] = sz[Main] /\ Size(sz[p])
    BY <1>1 DEF Inv, GrowInv, SizesAgree, Size
  <2>2. present = Pages(sz[p]) /\ Owned(sz[p])
    BY <1>1, <2>1 DEF Inv, GrowInv, MappedExactly
  <2>3. addr'[p] = sz'[p]
    BY <1>2, <1>3 DEF Inv, TypeOK
  <2>. QED  BY <1>1, <1>2, <1>3, <2>1, <2>2, <2>3, ZenonT(120) DEF CallInv, Runs, Size, Owned
<1>6. ~panicked'
  BY <1>3 DEF Inv, GrowInv
<1>. QED  BY <1>1, <1>2, <1>3, <1>4, <1>5, <1>6, StaysInCall, ZenonT(120)

\* growproc() begins to map or to unmap at the page after the old or the new
\* end.
LEMMA GrowprocStep ==
  ASSUME Inv, NEW p \in Proc, NEW n \in Increment, growproc(p, n)
  PROVE  Inv'
<1>1. /\ Runs(p) /\ addr[p] = sz[p] /\ Size(sz[p]) /\ present = Pages(sz[p]) /\ Owned(sz[p])
      /\ pc[p] = "sbrk" /\ sz[p] >= Base /\ sz[p] + n >= Base
  BY ZenonT(120) DEF growproc, Inv, TypeOK, GrowInv, CallInv
<1>2. n \in Int /\ sz[p] \in 0 .. KERNBASE - 1 /\ Base \in Nat /\ KERNBASE \in Nat
  BY GrowprocAssumption DEF Inv, TypeOK
<1>3. /\ oldsz' = [oldsz EXCEPT ![p] = sz[p]] /\ newsz' = [newsz EXCEPT ![p] = sz[p] + n]
      /\ oldsz'[p] = sz[p] /\ newsz'[p] = sz[p] + n
      /\ UNCHANGED <<sz, parent, isthread, present, panicked, addr, owns>>
  BY DEF growproc, tableVars, Inv, TypeOK
<1>4. sz[p] + n \in 0 .. KERNBASE - 1
  BY <1>1, <1>2 DEF growproc
<1>5. /\ PGROUNDUP(sz[p]) \in Nat /\ PGROUNDUP(sz[p] + n) \in Nat
      /\ n >= 0 => PGROUNDUP(sz[p]) <= PGROUNDUP(sz[p] + n)
      /\ n < 0 => PGROUNDUP(sz[p] + n) <= PGROUNDUP(sz[p])
  BY <1>2, <1>4, RoundUpNat, RoundUpMonotone
<1>6. /\ InGrowproc(p)' /\ Size(oldsz[p])'
      /\ From(p)' = PGROUNDUP(sz[p]) /\ To(p)' = PGROUNDUP(sz[p] + n)
      /\ Growing(p)' <=> n >= 0
  BY <1>1, <1>2, <1>3, <1>4 DEF InGrowproc, Size, Owned, Runs, Growing, From, To
<1>7. \A q \in Proc \ {p} : pc[q] = "user"
  BY <1>1, OthersInUser
<1>8. ASSUME NEW l \in {"alloc", "dealloc"}, NEW b \in Nat, pc' = [pc EXCEPT ![p] = l],
             a' = [a EXCEPT ![p] = b]
      PROVE  TypeOK' /\ pc'[p] = l /\ a'[p] = b
  <2>1. oldsz' \in [Proc -> 0 .. KERNBASE - 1] /\ newsz' \in [Proc -> 0 .. KERNBASE - 1]
    BY <1>2, <1>3, <1>4 DEF Inv, TypeOK
  <2>2. pc' \in [Proc -> PcState] /\ pc'[p] = l /\ a'[p] = b
    BY <1>8 DEF Inv, TypeOK, PcState
  <2>3. DOMAIN a' = Proc /\ \A q \in Proc : a'[q] \in IF pc'[q] = "create" THEN Thread ELSE Nat
    BY <1>8 DEF Inv, TypeOK
  <2>. QED  BY <1>3, <2>1, <2>2, <2>3 DEF Inv, TypeOK, Runs
<1>9. ~panicked'
  BY <1>3 DEF Inv, GrowInv
<1>10. CASE n >= 0
  <2>1. pc' = [pc EXCEPT ![p] = "alloc"] /\ a' = [a EXCEPT ![p] = PGROUNDUP(sz[p])]
    BY <1>2, <1>10 DEF growproc, Goto
  <2>2. TypeOK' /\ pc'[p] = "alloc" /\ a'[p] = PGROUNDUP(sz[p])
    BY <1>5, <1>8, <2>1, ZenonT(120)
  <2>3. CallInv(p)'
    BY <1>1, <1>3, <1>5, <1>6, <1>10, <2>2 DEF CallInv, Runs, Pages
  <2>. QED  BY <1>3, <1>7, <1>9, <2>1, <2>2, <2>3, StaysInCall, ZenonT(120)
<1>11. CASE n < 0
  <2>1. /\ pc' = [pc EXCEPT ![p] = "dealloc"] /\ a' = [a EXCEPT ![p] = PGROUNDUP(sz[p] + n)]
        /\ p = Main
    BY <1>1, <1>2, <1>11 DEF growproc, Goto, Runs
  <2>2. TypeOK' /\ pc'[p] = "dealloc" /\ a'[p] = PGROUNDUP(sz[p] + n)
    BY <1>5, <1>8, <2>1, ZenonT(120)
  <2>3. present' = (0 .. To(p)' - 1) \cup (a'[p] .. From(p)' - 1)
    BY <1>1, <1>3, <1>5, <1>6, <1>11, <2>2 DEF Pages
  <2>4. a'[p] \in To(p)' .. From(p)' /\ ~Growing(p)'
    BY <1>2, <1>5, <1>6, <1>11, <2>2
  <2>5. CallInv(p)'
    BY <1>6, <2>1, <2>2, <2>3, <2>4, ZenonT(120) DEF CallInv
  <2>. QED  BY <1>3, <1>7, <1>9, <2>1, <2>2, <2>5, StaysInCall, ZenonT(120)
<1>. QED  BY <1>2, <1>10, <1>11

\* A refused request changes nothing.
LEMMA GrowprocRefused ==
  ASSUME Inv, NEW p \in Proc, NEW n \in Increment, growproc_refused(p, n)
  PROVE  Inv'
<1>1. /\ Runs(p) /\ Size(sz[p]) /\ present = Pages(sz[p]) /\ Owned(sz[p]) /\ pc[p] = "sbrk"
  BY ZenonT(120) DEF growproc_refused, Inv, TypeOK, GrowInv, CallInv
<1>2. /\ UNCHANGED <<sz, parent, isthread, present, panicked, owns>> /\ Return(p)
  BY DEF growproc_refused, tableVars
<1>3. sz[p] = sz[Main]
  BY <1>1 DEF Size, Runs, Proc
<1>4. TypeOK'
  BY <1>2, ReturnTypes DEF Inv, TypeOK, Runs
<1>5. Family' /\ GrantsDisjoint' /\ ~panicked'
  BY <1>2 DEF Inv, GrowInv, Family, GrantsDisjoint
<1>6. Size(sz[Main])' /\ Owned(sz[Main])' /\ present' = Pages(sz'[Main])
  BY <1>1, <1>2, <1>3 DEF Size, Owned, Runs
<1>. QED  BY <1>1, <1>2, <1>4, <1>5, <1>6, Returns DEF Return

\* The numbers of pages at the ends of a call.
LEMMA FromTo ==
  ASSUME Inv, NEW p \in Proc
  PROVE  From(p) \in Nat /\ To(p) \in Nat
<1>1. oldsz[p] \in Nat /\ newsz[p] \in Nat
  BY GrowprocAssumption DEF Inv, TypeOK
<1>. QED  BY <1>1, RoundUpNat DEF From, To

\* A turn of the loop of allocuvm() maps the next page, which is not mapped.
LEMMA AllocuvmStep ==
  ASSUME Inv, NEW p \in Proc, allocuvm(p)
  PROVE  Inv'
<1>1. /\ Runs(p) /\ InGrowproc(p) /\ Size(oldsz[p]) /\ Growing(p) /\ pc[p] = "alloc"
      /\ a[p] \in From(p) .. To(p) /\ present = 0 .. a[p] - 1 /\ a[p] < To(p)
  BY ZenonT(120) DEF allocuvm, Inv, TypeOK, GrowInv, CallInv, To
<1>2. a[p] \in Nat
  BY <1>1, FromTo
<1>3. /\ a' = [a EXCEPT ![p] = a[p] + 1] /\ a'[p] = a[p] + 1
      /\ UNCHANGED <<sz, parent, isthread, pc, addr, oldsz, newsz, owns>>
  BY DEF allocuvm, tableVars, Inv, TypeOK
<1>4. ~panicked' /\ panicked' \in BOOLEAN /\ present' = 0 .. a[p]
  <2>1. a[p] \notin present
    BY <1>1, <1>2
  <2>2. panicked' = (a[p] \in present) /\ present' = present \cup {a[p]}
    BY DEF allocuvm
  <2>3. (a[p] \in present) = FALSE
    BY <2>1
  <2>5. panicked' = FALSE
    BY <2>2, <2>3, ZenonT(120)
  <2>4. present' = 0 .. a[p]
    BY <1>1, <1>2, <2>2
  <2>. QED  BY <2>4, <2>5, ZenonT(120)
<1>5. TypeOK'
  <2>1. DOMAIN a' = Proc /\ \A q \in Proc : a'[q] \in IF pc'[q] = "create" THEN Thread ELSE Nat
    BY <1>1, <1>2, <1>3 DEF Inv, TypeOK
  <2>2. present' \subseteq Nat /\ panicked' \in BOOLEAN
    <3>1. 0 .. a[p] \subseteq Nat
      BY <1>2
    <3>. QED  BY <1>4, <3>1, ZenonT(120)
  <2>. QED  BY <1>3, <2>1, <2>2 DEF Inv, TypeOK, Runs
<1>6. CallInv(p)'
  <2>1. From(p)' = From(p) /\ To(p)' = To(p) /\ From(p) \in Nat /\ To(p) \in Nat
    BY <1>3, FromTo DEF From, To
  <2>2. a'[p] \in From(p)' .. To(p)' /\ present' = 0 .. a'[p] - 1
    BY <1>1, <1>2, <1>3, <1>4, <2>1
  <2>3. (Runs(p) /\ InGrowproc(p) /\ Size(oldsz[p]) /\ Growing(p))'
    BY <1>1, <1>3 DEF Runs, InGrowproc, Size, Growing, Owned
  <2>. QED  BY <1>1, <1>3, <2>2, <2>3, ZenonT(120) DEF CallInv
<1>7. \A q \in Proc \ {p} : pc[q] = "user"
  BY <1>1, OthersInUser
<1>8. pc' = [pc EXCEPT ![p] = pc'[p]] /\ pc'[p] # "user"
  BY <1>1, <1>3 DEF Inv, TypeOK
<1>. QED  BY <1>3, <1>4, <1>5, <1>6, <1>7, <1>8, StaysInCall

\* When memory runs out, what was mapped is between the two ends.
LEMMA AllocuvmFailed ==
  ASSUME Inv, NEW p \in Proc, allocuvm_failed(p)
  PROVE  Inv'
<1>1. /\ Runs(p) /\ InGrowproc(p) /\ Size(oldsz[p]) /\ Growing(p) /\ pc[p] = "alloc"
      /\ a[p] \in From(p) .. To(p) /\ present = 0 .. a[p] - 1
  BY ZenonT(120) DEF allocuvm_failed, Inv, TypeOK, GrowInv, CallInv
<1>2. /\ pc' = [pc EXCEPT ![p] = "undo"] /\ pc'[p] = "undo"
      /\ a' = [a EXCEPT ![p] = From(p)] /\ a'[p] = From(p)
      /\ UNCHANGED <<sz, parent, isthread, present, panicked, addr, oldsz, newsz, owns>>
  BY DEF allocuvm_failed, Goto, tableVars, Inv, TypeOK, From
<1>3. From(p) \in Nat /\ To(p) \in Nat /\ From(p)' = From(p) /\ To(p)' = To(p)
  BY <1>2, FromTo DEF From, To
<1>4. TypeOK'
  <2>1. pc' \in [Proc -> PcState]
    BY <1>2 DEF Inv, TypeOK, PcState
  <2>2. DOMAIN a' = Proc /\ \A q \in Proc : a'[q] \in IF pc'[q] = "create" THEN Thread ELSE Nat
    BY <1>2, <1>3 DEF Inv, TypeOK
  <2>. QED  BY <1>2, <2>1, <2>2 DEF Inv, TypeOK, Runs
<1>5. CallInv(p)'
  <2>1. /\ present' \subseteq (0 .. From(p)' - 1) \cup (a'[p] .. To(p)' - 1)
        /\ 0 .. From(p)' - 1 \subseteq present' /\ a'[p] \in From(p)' .. To(p)'
    BY <1>1, <1>2, <1>3
  <2>2. (Runs(p) /\ InGrowproc(p) /\ Size(oldsz[p]) /\ Growing(p))'
    BY <1>1, <1>2 DEF Runs, InGrowproc, Size, Growing, Owned
  <2>. QED  BY <1>2, <2>1, <2>2, ZenonT(120) DEF CallInv
<1>6. ~panicked' /\ \A q \in Proc \ {p} : pc[q] = "user"
  BY <1>1, <1>2, OthersInUser
<1>. QED  BY <1>2, <1>4, <1>5, <1>6, StaysInCall, ZenonT(120)

\* A turn of the loop of deallocuvm() takes one page away, above the size
\* that stays.
LEMMA DeallocuvmStep ==
  ASSUME Inv, NEW p \in Proc, deallocuvm(p)
  PROVE  Inv'
<1>1. From(p) \in Nat /\ To(p) \in Nat
  BY FromTo
<1>2. /\ present' = present \ {a[p]} /\ a' = [a EXCEPT ![p] = a[p] + 1] /\ a'[p] = a[p] + 1
      /\ UNCHANGED <<sz, parent, isthread, panicked, pc, addr, oldsz, newsz, owns>>
      /\ pc[p] \in {"dealloc", "undo"} /\ a[p] < End(p) /\ a[p] \in Nat
  BY DEF deallocuvm, tableVars, Inv, TypeOK
<1>3. From(p)' = From(p) /\ To(p)' = To(p)
  BY <1>2 DEF From, To
<1>4. TypeOK'
  <2>1. DOMAIN a' = Proc /\ \A q \in Proc : a'[q] \in IF pc'[q] = "create" THEN Thread ELSE Nat
    BY <1>2 DEF Inv, TypeOK
  <2>2. present' \subseteq Nat
    BY <1>2, ZenonT(120) DEF Inv, TypeOK
  <2>. QED  BY <1>2, <2>1, <2>2 DEF Inv, TypeOK, Runs
<1>5. CallInv(p)'
  <2>1. CASE pc[p] = "undo"
    <3>1. /\ Runs(p) /\ InGrowproc(p) /\ Size(oldsz[p]) /\ Growing(p)
          /\ a[p] \in From(p) .. To(p) /\ a[p] < To(p)
          /\ present \subseteq (0 .. From(p) - 1) \cup (a[p] .. To(p) - 1)
          /\ 0 .. From(p) - 1 \subseteq present
      BY <1>2, <2>1, ZenonT(120) DEF Inv, GrowInv, CallInv, End, To
    <3>2. /\ a'[p] \in From(p)' .. To(p)'
          /\ present' \subseteq (0 .. From(p)' - 1) \cup (a'[p] .. To(p)' - 1)
          /\ 0 .. From(p)' - 1 \subseteq present'
      <4>1. a'[p] \in From(p)' .. To(p)' /\ a[p] \notin 0 .. From(p) - 1
        BY <1>1, <1>2, <1>3, <3>1
      <4>2. (a[p] .. To(p) - 1) \ {a[p]} = a'[p] .. To(p) - 1
        <5>1. /\ a[p] \in Nat /\ a'[p] = a[p] + 1 /\ To(p) \in Nat
          BY <1>1, <1>2
        <5>. QED  BY ONLY <5>1
      <4>3. /\ present \ {a[p]} \subseteq (0 .. From(p) - 1) \cup ((a[p] .. To(p) - 1) \ {a[p]})
            /\ 0 .. From(p) - 1 \subseteq present \ {a[p]}
        BY <3>1, <4>1, ZenonT(120)
      <4>. QED  BY <1>2, <1>3, <4>1, <4>2, <4>3
    <3>3. (Runs(p) /\ InGrowproc(p) /\ Size(oldsz[p]) /\ Growing(p))'
      BY <1>2, <3>1 DEF Runs, InGrowproc, Size, Growing, Owned
    <3>. QED  BY <1>2, <2>1, <3>2, <3>3 DEF CallInv
  <2>2. CASE pc[p] = "dealloc"
    <3>1. /\ p = Main /\ InGrowproc(p) /\ Size(oldsz[p]) /\ ~Growing(p)
          /\ a[p] \in To(p) .. From(p) /\ a[p] < From(p)
          /\ present = (0 .. To(p) - 1) \cup (a[p] .. From(p) - 1)
      BY <1>2, <2>2, ZenonT(120) DEF Inv, GrowInv, CallInv, End, From
    <3>2. /\ a'[p] \in To(p)' .. From(p)'
          /\ present' = (0 .. To(p)' - 1) \cup (a'[p] .. From(p)' - 1)
      BY <1>1, <1>2, <1>3, <3>1
    <3>3. (InGrowproc(p) /\ Size(oldsz[p]) /\ ~Growing(p))'
      BY <1>2, <3>1 DEF Runs, InGrowproc, Size, Growing, Owned
    <3>. QED  BY <1>2, <2>2, <3>1, <3>2, <3>3 DEF CallInv
  <2>. QED  BY <1>2, <2>1, <2>2
<1>6. ~panicked' /\ \A q \in Proc \ {p} : pc[q] = "user"
  BY <1>2, OthersInUser
<1>7. pc' = [pc EXCEPT ![p] = pc'[p]] /\ pc'[p] # "user"
  BY <1>2 DEF Inv, TypeOK
<1>. QED  BY <1>2, <1>4, <1>5, <1>6, <1>7, StaysInCall

\* After the undoing, the pages of the old size are left.
LEMMA GrowprocFailed ==
  ASSUME Inv, NEW p \in Proc, growproc_failed(p)
  PROVE  Inv'
<1>1. /\ pc[p] = "undo" /\ Runs(p) /\ InGrowproc(p) /\ Size(oldsz[p])
      /\ a[p] \in From(p) .. To(p) /\ a[p] >= To(p)
      /\ present \subseteq (0 .. From(p) - 1) \cup (a[p] .. To(p) - 1)
      /\ 0 .. From(p) - 1 \subseteq present
  BY ZenonT(120) DEF growproc_failed, Inv, GrowInv, CallInv, End, To
<1>2. From(p) \in Nat /\ To(p) \in Nat
  BY FromTo
<1>3. UNCHANGED <<sz, parent, isthread, present, panicked, owns>> /\ Return(p)
  BY DEF growproc_failed, tableVars
<1>4. sz[Main] = oldsz[p] /\ Size(sz[Main]) /\ Owned(sz[Main])
  BY <1>1 DEF Size, Runs, Proc, InGrowproc
<1>5. present = 0 .. From(p) - 1
  <2>1. a[p] .. To(p) - 1 = {}
    BY <1>1, <1>2
  <2>. QED  BY <1>1, <2>1, ZenonT(120)
<1>6. TypeOK'
  BY <1>3, ReturnTypes DEF Inv, TypeOK, Runs
<1>7. Family' /\ GrantsDisjoint' /\ ~panicked'
  BY <1>3 DEF Inv, GrowInv, Family, GrantsDisjoint
<1>8. Size(sz[Main])' /\ Owned(sz[Main])'
  BY <1>3, <1>4 DEF Size, Owned, Runs
<1>9. present' = Pages(sz'[Main])
  BY <1>3, <1>4, <1>5 DEF Pages, From
<1>. QED  BY <1>1, <1>3, <1>6, <1>7, <1>8, <1>9, Returns DEF Return

\* The loops end with the pages of the new size.
LEMMA SetSz ==
  ASSUME Inv, NEW p \in Proc, set_sz(p)
  PROVE  Inv'
<1>1. /\ sz' = [sz EXCEPT ![p] = newsz[p]] /\ sz'[p] = newsz[p]
      /\ pc' = [pc EXCEPT ![p] = "parent"] /\ pc'[p] = "parent" /\ pc[p] \in {"alloc", "dealloc"}
      /\ UNCHANGED <<parent, isthread, present, panicked, addr, oldsz, newsz, a, owns>>
  BY DEF set_sz, Goto, Inv, TypeOK
<1>2. From(p) \in Nat /\ To(p) \in Nat
  BY FromTo
<1>3. Runs(p) /\ InGrowproc(p) /\ present = 0 .. To(p) - 1
  <2>1. CASE pc[p] = "alloc"
    <3>1. /\ Runs(p) /\ InGrowproc(p) /\ a[p] \in From(p) .. To(p) /\ present = 0 .. a[p] - 1
          /\ a[p] >= To(p)
      BY <2>1, ZenonT(120) DEF set_sz, Inv, GrowInv, CallInv, To
    <3>2. a[p] = To(p)
      BY <1>2, <3>1
    <3>. QED  BY <3>1, <3>2
  <2>2. CASE pc[p] = "dealloc"
    <3>1. /\ p = Main /\ InGrowproc(p) /\ a[p] \in To(p) .. From(p) /\ a[p] >= From(p)
          /\ present = (0 .. To(p) - 1) \cup (a[p] .. From(p) - 1)
      BY <2>2, ZenonT(120) DEF set_sz, Inv, GrowInv, CallInv, End, From
    <3>2. a[p] .. From(p) - 1 = {}
      BY <1>2, <3>1
    <3>. QED  BY <3>1, <3>2 DEF Runs
  <2>. QED  BY <1>1, <2>1, <2>2
<1>4. newsz[p] >= Base /\ newsz[p] \in 0 .. KERNBASE - 1
  BY <1>3 DEF InGrowproc, Inv, TypeOK
<1>5. TypeOK'
  <2>1. sz' \in [Proc -> 0 .. KERNBASE - 1] /\ \A q \in Proc : Runs(q)' => sz'[q] >= Base
    BY <1>1, <1>4 DEF Inv, TypeOK, Runs
  <2>2. pc' \in [Proc -> PcState]
    BY <1>1 DEF Inv, TypeOK, PcState
  <2>3. DOMAIN a' = Proc /\ \A q \in Proc : a'[q] \in IF pc'[q] = "create" THEN Thread ELSE Nat
    BY <1>1 DEF Inv, TypeOK
  <2>. QED  BY <1>1, <2>1, <2>2, <2>3 DEF Inv, TypeOK
<1>6. CallInv(p)'
  BY <1>1, <1>3, ZenonT(120) DEF CallInv, InGrowproc, Owned, Pages, To, Runs
<1>7. ~panicked' /\ \A q \in Proc \ {p} : pc[q] = "user"
  BY <1>1, OthersInUser
<1>. QED  BY <1>1, <1>5, <1>6, <1>7, StaysInCall, ZenonT(120)

\* The parent of a thread is the process.
LEMMA SetParentSz ==
  ASSUME Inv, NEW p \in Proc, set_parent_sz(p)
  PROVE  Inv'
<1>1. /\ Runs(p) /\ InGrowproc(p) /\ sz[p] = newsz[p] /\ present = Pages(newsz[p])
      /\ pc[p] = "parent" /\ newsz[p] \in 0 .. KERNBASE - 1
  BY ZenonT(120) DEF set_parent_sz, Inv, TypeOK, GrowInv, CallInv
<1>2. /\ pc' = [pc EXCEPT ![p] = "scan"] /\ pc'[p] = "scan"
      /\ UNCHANGED <<parent, isthread, present, panicked, addr, oldsz, newsz, a, owns>>
  BY DEF set_parent_sz, Goto, Inv, TypeOK
<1>3. Main \in Proc /\ (isthread[p] => parent[p] = Main) /\ (~isthread[p] => p = Main)
  BY <1>1 DEF Inv, GrowInv, Family, Proc, Runs
<1>4. sz' = [sz EXCEPT ![Main] = newsz[p]]
  <2>1. CASE isthread[p]
    BY <1>3, <2>1, ZenonT(120) DEF set_parent_sz
  <2>2. CASE ~isthread[p]
    BY <1>1, <1>3, <2>2 DEF set_parent_sz, Inv, TypeOK
  <2>. QED  BY <2>1, <2>2
<1>5. sz'[Main] = newsz[p] /\ sz'[p] = newsz[p]
  BY <1>1, <1>3, <1>4 DEF Inv, TypeOK
<1>6. TypeOK'
  <2>1. sz' \in [Proc -> 0 .. KERNBASE - 1] /\ \A q \in Proc : Runs(q)' => sz'[q] >= Base
    BY <1>1, <1>2, <1>3, <1>4 DEF Inv, TypeOK, Runs, InGrowproc
  <2>2. pc' \in [Proc -> PcState]
    BY <1>2 DEF Inv, TypeOK, PcState
  <2>3. DOMAIN a' = Proc /\ \A q \in Proc : a'[q] \in IF pc'[q] = "create" THEN Thread ELSE Nat
    BY <1>1, <1>2 DEF Inv, TypeOK
  <2>. QED  BY <1>2, <2>1, <2>2, <2>3 DEF Inv, TypeOK
<1>7. CallInv(p)'
  BY <1>1, <1>2, <1>5, ZenonT(120) DEF CallInv, InGrowproc, Owned, Pages, Runs
<1>8. ~panicked' /\ \A q \in Proc \ {p} : pc[q] = "user"
  BY <1>1, <1>2, OthersInUser
<1>. QED  BY <1>2, <1>6, <1>7, <1>8, StaysInCall, ZenonT(120)

\* The memory that sbrk() returns begins where all that was given out ends.
LEMMA GrantIsNew ==
  ASSUME Inv, NEW p \in Proc, InGrowproc(p), Grant(p)
  PROVE  /\ owns' \in [Proc -> SUBSET Nat]
         /\ \A q \in Proc : owns'[q] \subseteq Base .. newsz[p] - 1
         /\ \A q, r \in Proc : q # r => owns'[q] \cap owns'[r] = {}
<1>1. /\ addr[p] = oldsz[p] /\ oldsz[p] \in Nat /\ newsz[p] \in Nat /\ Base \in Nat
      /\ oldsz[p] >= Base /\ newsz[p] >= Base /\ owns \in [Proc -> SUBSET Nat]
      /\ \A q \in Proc : owns[q] \subseteq Base .. oldsz[p] - 1
      /\ \A q, r \in Proc : q # r => owns[q] \cap owns[r] = {}
  BY GrowprocAssumption DEF Inv, TypeOK, GrowInv, GrantsDisjoint, InGrowproc, Owned
<1>2. CASE newsz[p] >= oldsz[p]
  <2> DEFINE new == oldsz[p] .. newsz[p] - 1
  <2>1. addr[p] .. addr[p] + newsz[p] - oldsz[p] - 1 = new
    BY <1>1
  <2>2. owns' = [owns EXCEPT ![p] = owns[p] \cup new]
    BY <1>2, <2>1, ZenonT(120) DEF Grant
  <2>3. new \subseteq Nat /\ new \subseteq Base .. newsz[p] - 1
    BY <1>1
  <2>4. \A q \in Proc : owns[q] \cap new = {}
    BY <1>1
  <2>5. \A q \in Proc : owns[q] \subseteq Base .. newsz[p] - 1
    BY <1>1, <1>2
  <2> HIDE DEF new
  <2>. QED  BY <1>1, <2>2, <2>3, <2>4, <2>5, ZenonT(120)
<1>3. CASE ~(newsz[p] >= oldsz[p])
  <2>1. owns' = [q \in Proc |-> owns[q] \ (newsz[p] .. oldsz[p] - 1)]
    BY <1>3 DEF Grant
  <2>2. \A q \in Proc : owns'[q] \subseteq Base .. newsz[p] - 1
    BY <1>1, <1>3, <2>1
  <2>. QED  BY <1>1, <2>1, <2>2
<1>. QED  BY <1>2, <1>3

\* The scan reaches every thread, and the call returns.
LEMMA SetThreadsSz ==
  ASSUME Inv, NEW p \in Proc, set_threads_sz(p)
  PROVE  Inv'
<1>1. /\ Runs(p) /\ InGrowproc(p) /\ sz[p] = newsz[p] /\ sz[Main] = newsz[p]
      /\ present = Pages(newsz[p]) /\ pc[p] = "scan" /\ newsz[p] \in 0 .. KERNBASE - 1
      /\ newsz[p] >= Base
  BY ZenonT(120) DEF set_threads_sz, Inv, TypeOK, GrowInv, CallInv, InGrowproc
<1>2. /\ UNCHANGED <<parent, isthread, present, panicked>> /\ Return(p) /\ Grant(p)
      /\ sz' = [q \in Proc |-> IF isthread[q] /\ parent[q] \in {parent[p], p}
                               THEN sz[p] ELSE sz[q]]
  BY DEF set_threads_sz
<1>3. \A q \in Proc : isthread[q] => parent[q] = Main /\ q # Main
  BY GrowprocAssumption DEF Inv, GrowInv, Family, Proc
<1>4. p = Main \/ parent[p] = Main
  BY <1>1, <1>3 DEF Runs
<1>5. Main \in Proc /\ sz'[Main] = newsz[p] /\ \A q \in Proc : Runs(q) => sz'[q] = newsz[p]
  BY <1>1, <1>2, <1>3, <1>4 DEF Runs, Proc
<1>6. TypeOK'
  <2>1. sz' \in [Proc -> 0 .. KERNBASE - 1]
    BY <1>1, <1>2 DEF Inv, TypeOK
  <2>2. \A q \in Proc : Runs(q)' => sz'[q] >= Base
    <3>1. \A q \in Proc : Runs(q)' = Runs(q)
      BY <1>2 DEF Runs
    <3>2. newsz[p] >= Base
      BY <1>1
    <3>. QED  BY <1>5, <3>1, <3>2
  <2>3. owns' \in [Proc -> SUBSET Nat]
    BY <1>1, <1>2, GrantIsNew
  <2>. QED  BY <1>2, <2>1, <2>2, <2>3, ReturnTypes DEF Inv, TypeOK
<1>7. Family' /\ ~panicked'
  BY <1>2 DEF Inv, GrowInv, Family
<1>8. Size(sz[Main])' /\ present' = Pages(sz'[Main])
  BY <1>1, <1>2, <1>5 DEF Size, Runs
<1>9. Owned(sz[Main])' /\ GrantsDisjoint'
  <2>1. /\ \A q \in Proc : owns'[q] \subseteq Base .. newsz[p] - 1
        /\ \A q, r \in Proc : q # r => owns'[q] \cap owns'[r] = {}
    BY <1>1, <1>2, GrantIsNew
  <2>2. \A q \in Proc : owns'[q] \cap (0 .. Base - 1) = {}
    BY <2>1, GrowprocAssumption
  <2>. QED  BY <1>5, <2>1, <2>2 DEF Owned, GrantsDisjoint
<1>. QED  BY <1>1, <1>2, <1>6, <1>7, <1>8, <1>9, Returns DEF Return

\* Every step keeps the invariant.
LEMMA NextInv == ASSUME Serialized, Inv, [Next]_vars PROVE Inv'
<1>1. CASE Next
  <2>1. PICK p \in Proc : Step(p)
    BY <1>1 DEF Next
  <2>2. CASE \E t \in Thread : thread_create(p, t)
    BY <2>2, ThreadCreate
  <2>3. CASE thread_create_return(p)
    BY <2>3, ThreadCreateReturn
  <2>4. CASE sys_sbrk(p)
    BY <2>4, SysSbrk
  <2>5. CASE \E n \in Increment : growproc(p, n) \/ growproc_refused(p, n)
    BY <2>5, GrowprocStep, GrowprocRefused
  <2>6. CASE allocuvm(p) \/ allocuvm_failed(p)
    BY <2>6, AllocuvmStep, AllocuvmFailed
  <2>7. CASE deallocuvm(p) \/ growproc_failed(p)
    BY <2>7, DeallocuvmStep, GrowprocFailed
  <2>8. CASE set_sz(p) \/ set_parent_sz(p) \/ set_threads_sz(p)
    BY <2>8, SetSz, SetParentSz, SetThreadsSz
  <2>. QED  BY <2>1, <2>2, <2>3, <2>4, <2>5, <2>6, <2>7, <2>8 DEF Step
<1>2. CASE UNCHANGED vars
  <2>1. /\ UNCHANGED <<sz, parent, isthread, present, panicked, owns>>
        /\ UNCHANGED <<pc, addr, oldsz, newsz, a>>
    BY <1>2 DEF vars, tableVars, callVars
  <2>2. TypeOK'
    BY <2>1 DEF Inv, TypeOK, Runs
  <2>3. (Family /\ GrantsDisjoint /\ ~panicked)'
    BY <2>1 DEF Inv, GrowInv, Family, GrantsDisjoint
  <2>4. (SizesAgree /\ MappedExactly /\ (Quiet => Owned(sz[Main])))'
    BY <2>1 DEF Inv, GrowInv, SizesAgree, MappedExactly, Quiet, Owned, Runs
  <2>5. ASSUME NEW p \in Proc PROVE CallInv(p)'
    <3>1. CallInv(p)' <=> CallInv(p)
      BY <2>1 DEF CallInv, Owned, Runs, Size, InGrowproc, Growing, From, To
    <3>. QED  BY <3>1 DEF Inv, GrowInv
  <2>. QED  BY <2>1, <2>2, <2>3, <2>4, <2>5 DEF Inv, GrowInv
<1>. QED  BY <1>1, <1>2

\* In a program with a mutex around sbrk() and thread_create(), growproc()
\* keeps the sizes of the process and of its threads equal, maps the pages
\* below that size and only those, never maps one twice, and gives no byte
\* out twice, whatever the page size, the increments and the failures.
THEOREM GrowInvariant == ASSUME Serialized PROVE Spec => []GrowInv
<1>1. Inv /\ [Next]_vars => Inv'
  BY NextInv
<1>2. Inv => GrowInv
  BY DEF Inv
<1>. QED  BY InitInv, <1>1, <1>2, PTL DEF Spec

\* The sizes stay between the program's own and KERNBASE, and every local has
\* its type.
THEOREM GrowTypes == ASSUME Serialized PROVE Spec => []TypeOK
<1>1. Inv /\ [Next]_vars => Inv'
  BY NextInv
<1>2. Inv => TypeOK
  BY DEF Inv
<1>. QED  BY InitInv, <1>1, <1>2, PTL DEF Spec

\* What programs rely on: no two threads are given the same byte by sbrk().
THEOREM GrowGrantsDisjoint == ASSUME Serialized PROVE Spec => []GrantsDisjoint
<1>1. GrowInv => GrantsDisjoint
  BY DEF GrowInv
<1>. QED  BY GrowInvariant, <1>1, PTL
=============================================================================
