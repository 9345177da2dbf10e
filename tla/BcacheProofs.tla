---------------------------- MODULE BcacheProofs ----------------------------
(***************************************************************************)
(* What bio.c, sleeplock.c and the disk drivers guarantee for any number   *)
(* of processes, buffers and blocks.                                       *)
(***************************************************************************)
EXTENDS Bcache, FiniteSetTheorems, TLAPS

\* Time for the provers, in seconds: a goal that one gives up is tried again.
USE SMTT(60), SMTT(55), SMTT(50), SMTT(45), SMTT(40), SMTT(30), ZenonT(60)

LEMMA Channels ==
    ASSUME BcacheAssumption, NEW x \in Buf, NEW y \in Buf
    PROVE  /\ Lock(x) \in Channel /\ Request(x) \in Channel
           /\ Lock(x) # None /\ Request(x) # None /\ Lock(x) # Request(y)
           /\ Lock(x) = Lock(y) => x = y
           /\ Request(x) = Request(y) => x = y
<1>1. Lock(x) \in Channel /\ Request(x) \in Channel
  BY DEF Channel
<1>2. Lock(x) # Request(y)
  BY DEF Lock, Request
<1>3. (Lock(x) = Lock(y) => x = y) /\ (Request(x) = Request(y) => x = y)
  BY DEF Lock, Request
<1>. QED BY <1>1, <1>2, <1>3 DEF BcacheAssumption

\* The queue of ide.c: iderw() appends, ideintr() removes the head.
LEMMA RangeAppend ==
    ASSUME NEW S, NEW s \in Seq(S), NEW x \in S, x \notin Range(s),
           \A i, j \in DOMAIN s : s[i] = s[j] => i = j
    PROVE  /\ Range(Append(s, x)) = Range(s) \cup {x}
           /\ \A i, j \in DOMAIN Append(s, x) : Append(s, x)[i] = Append(s, x)[j] => i = j
<1>1. /\ DOMAIN Append(s, x) = DOMAIN s \cup {Len(s) + 1} /\ Append(s, x)[Len(s) + 1] = x
      /\ \A i \in DOMAIN s : Append(s, x)[i] = s[i]
  OBVIOUS
<1>. QED BY <1>1 DEF Range

LEMMA RangeTail ==
    ASSUME NEW S, NEW s \in Seq(S), s # <<>>,
           \A i, j \in DOMAIN s : s[i] = s[j] => i = j
    PROVE  /\ Tail(s) \in Seq(S) /\ Head(s) \in Range(s) /\ Head(s) \in S
           /\ Range(Tail(s)) = Range(s) \ {Head(s)}
           /\ \A i, j \in DOMAIN Tail(s) : Tail(s)[i] = Tail(s)[j] => i = j
<1>1. Tail(s) \in Seq(S) /\ Head(s) \in S /\ Head(s) = s[1] /\ 1 \in DOMAIN s
  OBVIOUS
<1>2. \A i \in DOMAIN Tail(s) : Tail(s)[i] = s[i + 1] /\ i + 1 \in DOMAIN s /\ i \in Nat
  OBVIOUS
<1>3. \A i \in DOMAIN s : i # 1 => i - 1 \in DOMAIN Tail(s) /\ Tail(s)[i - 1] = s[i]
  OBVIOUS
<1>4. \A i, j \in DOMAIN Tail(s) : Tail(s)[i] = Tail(s)[j] => i = j
  BY <1>2
<1>5. Range(Tail(s)) \subseteq Range(s) \ {Head(s)}
  BY <1>1, <1>2 DEF Range
<1>6. ASSUME NEW e \in Range(s) \ {Head(s)} PROVE e \in Range(Tail(s))
  <2>1. PICK i \in DOMAIN s : e = s[i]
    BY DEF Range
  <2>2. i - 1 \in DOMAIN Tail(s) /\ Tail(s)[i - 1] = e
    BY <1>1, <1>3, <2>1
  <2>. QED BY <2>2, ZenonT(120) DEF Range
<1>7. Range(Tail(s)) = Range(s) \ {Head(s)}
  BY <1>5, <1>6
<1>8. Head(s) \in Range(s)
  BY <1>1, ZenonT(120) DEF Range
<1>. QED BY <1>1, <1>4, <1>7, <1>8

\* Moving a buffer to the front of the list loses none.
LEMMA ToFrontKeeps ==
    ASSUME BcacheAssumption, NEW s \in [Buf -> Buf], NEW i \in Buf
    PROVE  /\ ToFront(s, i) \in [Buf -> Buf]
           /\ \A j \in Buf : \E m \in Buf : ToFront(s, i)[m] = s[j]
<1>1. NBUF \in Nat /\ Buf = 1 .. NBUF
  BY DEF BcacheAssumption, Buf
<1>2. ASSUME NEW j \in Buf PROVE ToFront(s, i)[j] \in Buf
  BY <1>1 DEF ToFront
<1>3. ToFront(s, i) \in [Buf -> Buf]
  BY <1>2 DEF ToFront
<1>4. ASSUME NEW j \in Buf PROVE \E m \in Buf : ToFront(s, i)[m] = s[j]
  <2>1. CASE j = i
    <3>1. 1 \in Buf /\ ToFront(s, i)[1] = s[i]
      BY <1>1 DEF ToFront
    <3>. QED BY <2>1, <3>1
  <2>2. CASE j < i
    <3>1. j + 1 \in Buf /\ ToFront(s, i)[j + 1] = s[j]
      BY <1>1, <2>2 DEF ToFront
    <3>. QED BY <3>1
  <2>3. CASE j > i
    <3>1. ToFront(s, i)[j] = s[j]
      BY <1>1, <2>3 DEF ToFront
    <3>. QED BY <3>1
  <2>. QED BY <1>1, <2>1, <2>2, <2>3
<1>. QED BY <1>3, <1>4

\* The processes that have a buffer.
LEMMA UsersFinite ==
    ASSUME BcacheAssumption, NEW x PROVE IsFiniteSet(Users(x)) /\ Cardinality(Users(x)) \in Nat
BY FS_Subset, FS_CardinalityType DEF BcacheAssumption, Users

LEMMA HasBuffer ==
    ASSUME BcacheAssumption, CacheInv, NEW p \in Proc, doing[p] # "idle"
    PROVE  /\ b[p] \in Buf /\ b[p] # None /\ refcnt[b[p]] \in Nat \ {0}
           /\ blockno[b[p]] \in Block
<1>1. b[p] \in Buf /\ b[p] # None
  BY DEF CacheInv, HolderInv, BcacheTypeOK
<1>2. Cardinality(Users(b[p])) # 0
  <2>1. p \in Users(b[p])
    BY DEF Users
  <2>. QED BY <2>1, UsersFinite, FS_EmptySet
<1>. QED BY <1>1, <1>2, UsersFinite DEF CacheInv, BlockInv, BcacheTypeOK

\* A buffer is locked by one process at a time.
LEMMA Holder ==
    ASSUME BcacheAssumption, CacheInv, NEW p \in Proc, doing[p] \in {"locked", "iderw", "hold"}
    PROVE  /\ b[p] \in Buf /\ locked[b[p]] = p
           /\ \A q \in Proc \ {p} : doing[q] \in {"locked", "iderw", "hold"} => b[q] # b[p]
           /\ doing[p] # "iderw" => b[p] \notin Range(idequeue)
<1>1. \A q \in Proc : doing[q] \in {"locked", "iderw", "hold"} => b[q] \in Buf /\ locked[b[q]] = q
  BY DEF CacheInv, HolderInv, BcacheTypeOK
<1>. QED BY <1>1 DEF CacheInv, QueueInv
-----------------------------------------------------------------------------

\* A request is of a buffer with a block.
LEMMA Queued ==
    ASSUME BcacheAssumption, CacheInv, idequeue # <<>>
    PROVE  /\ Head(idequeue) \in Buf /\ Tail(idequeue) \in Seq(Buf)
           /\ Range(Tail(idequeue)) = Range(idequeue) \ {Head(idequeue)}
           /\ \A i, j \in DOMAIN Tail(idequeue) : Tail(idequeue)[i] = Tail(idequeue)[j] => i = j
           /\ Head(idequeue) \in Range(idequeue)
           /\ blockno[Head(idequeue)] \in Block
           /\ \E p \in Proc : doing[p] = "iderw" /\ b[p] = Head(idequeue)
<1>1. idequeue \in Seq(Buf) /\ \A i, j \in DOMAIN idequeue : idequeue[i] = idequeue[j] => i = j
  BY DEF CacheInv, BcacheTypeOK, QueueInv
<1>2. PICK p \in Proc : doing[p] = "iderw" /\ b[p] = Head(idequeue)
  BY <1>1, RangeTail DEF CacheInv, QueueInv
<1>. QED BY <1>1, <1>2, RangeTail, HasBuffer

(***************************************************************************)
(* The steps: bget() finds a buffer, or it panics, and then nothing else   *)
(* changes; so it is when panic() spins.                                   *)
(***************************************************************************)
Got(p, k) ==
    /\ Ready(p, "idle") /\ panicking = {}
    /\ bget_hit(p, k) \/ bget_recycle(p, k)
    /\ UNCHANGED <<driver, panicking, disk, lru, locked, idequeue, waits, latest, writes>>

Still ==
    /\ UNCHANGED <<driver, disk, bufVars, lru, locked, idequeue, procVars, latest, writes>>
    /\ panicking' = panicking \/ (Unused = {} /\ \E p \in Proc : panicking' = {p})

LEMMA Steps ==
    ASSUME [BcacheNext]_bcacheVars
    PROVE  \/ ideintr \/ Still
           \/ \E p \in Proc :
                 \/ BcacheStep(p)
                 \/ \E k \in Block : Got(p, k)
                 \/ \E d \in Data : bwrite(p, d) \/ log_write(p, d)
<1>1. ASSUME UNCHANGED bcacheVars PROVE Still
  BY <1>1 DEF bcacheVars, Still
<1>2. ASSUME NEW p \in Proc, NEW k \in Block, bget(p, k) PROVE Still \/ Got(p, k)
  <2>1. CASE bget_panic(p, k)
    BY <1>2, <2>1 DEF bget, bget_panic, Still, procVars
  <2>2. CASE (bget_hit(p, k) \/ bget_recycle(p, k)) /\ UNCHANGED panicking
    BY <1>2, <2>2, Zenon DEF bget, Got
  <2>. QED BY <1>2, <2>1, <2>2, Zenon DEF bget
<1>. QED BY <1>1, <1>2, ZenonT(120) DEF BcacheNext, panic

LEMMA TypeStep == ASSUME BcacheAssumption, CacheInv, [BcacheNext]_bcacheVars PROVE BcacheTypeOK'
<1> USE DEF procVars, bufVars, Goto, Sleep, Wakeup, Ready, Store
<1>0. BcacheTypeOK
  BY DEF CacheInv
<1> USE <1>0
<1>1. ASSUME NEW p \in Proc, NEW k \in Block, Got(p, k) PROVE BcacheTypeOK'
  <2>1. CASE bget_hit(p, k)
    <3>1. PICK x \in Buf : /\ refcnt' = [refcnt EXCEPT ![x] = @ + 1]
                           /\ b' = [b EXCEPT ![p] = x]
      BY <2>1, ZenonT(120) DEF bget_hit, Cached, BcacheTypeOK
    <3>. QED BY <1>1, <2>1, <3>1 DEF Got, bget_hit, BcacheTypeOK
  <2>2. CASE bget_recycle(p, k)
    <3>1. PICK x \in Buf : Recycle(p, k, x)
      BY <2>2, ZenonT(120) DEF bget_recycle, Unused, BcacheTypeOK
    <3>. QED BY <1>1, <3>1 DEF Got, Recycle, BcacheTypeOK
  <2>. QED BY <1>1, <2>1, <2>2 DEF Got
<1>2. ASSUME NEW p \in Proc, acquiresleep(p) PROVE BcacheTypeOK'
  <2>1. b[p] \in Buf /\ Lock(b[p]) \in Channel
    BY <1>2, HasBuffer, Channels DEF acquiresleep
  <2>2. UNCHANGED <<driver, panicking, disk, bufVars, lru, idequeue, b, latest, writes>>
    BY <1>2 DEF acquiresleep
  <2>3. CASE locked[b[p]] = None
    <3>1. locked' = [locked EXCEPT ![b[p]] = p] /\ doing' = [doing EXCEPT ![p] = "locked"] /\ waits' = waits
      BY <1>2, <2>3 DEF acquiresleep
    <3>. QED BY <2>1, <2>2, <3>1 DEF BcacheTypeOK
  <2>4. CASE locked[b[p]] # None
    <3>1. waits' = [waits EXCEPT ![p] = Lock(b[p])] /\ UNCHANGED <<locked, doing>>
      BY <1>2, <2>4 DEF acquiresleep
    <3>. QED BY <2>1, <2>2, <3>1 DEF BcacheTypeOK
  <2>. QED BY <2>3, <2>4
<1>3. ASSUME NEW p \in Proc, NEW d \in Data, NEW D \in SUBSET Buf, iderw(p, d, D),
             doing[p] # "idle", UNCHANGED <<driver, panicking, blockno, refcnt, lru, locked, b>>,
             latest' \in [Block -> Data], writes' \in Nat
      PROVE  BcacheTypeOK'
  <2>1. b[p] \in Buf /\ blockno[b[p]] \in Block /\ Request(b[p]) \in Channel
    BY <1>3, HasBuffer, Channels
  <2>2. CASE ide_iderw(p, d, D)
    BY <1>3, <2>1, <2>2 DEF ide_iderw, BcacheTypeOK
  <2>3. CASE memide_iderw(p, d, D)
    <3>1. disk' \in [Block -> Data]
      BY <2>1, <2>3 DEF memide_iderw, BcacheTypeOK
    <3>. QED BY <1>3, <2>1, <2>3, <3>1 DEF memide_iderw, BcacheTypeOK
  <2>. QED BY <1>3, <2>2, <2>3 DEF iderw
<1>4. ASSUME NEW p \in Proc, bread(p) PROVE BcacheTypeOK'
  <2>1. b[p] \in Buf /\ data[b[p]] \in Data
    BY <1>4, HasBuffer DEF bread, BcacheTypeOK
  <2>2. UNCHANGED <<driver, panicking, blockno, refcnt, lru, locked, b, latest, writes>>
    BY <1>4 DEF bread
  <2>3. CASE b[p] \in valid
    <3>1. doing' = [doing EXCEPT ![p] = "hold"] /\ UNCHANGED <<disk, data, valid, dirty, idequeue, waits>>
      BY <1>4, <2>3 DEF bread
    <3>. QED BY <2>2, <3>1 DEF BcacheTypeOK
  <2>4. CASE b[p] \notin valid
    <3>1. iderw(p, data[b[p]], dirty) /\ doing[p] # "idle"
      BY <1>4, <2>4 DEF bread
    <3>2. latest' \in [Block -> Data] /\ writes' \in Nat /\ dirty \in SUBSET Buf
      BY <2>2 DEF BcacheTypeOK
    <3>. QED BY <1>3, <2>1, <2>2, <3>1, <3>2
  <2>. QED BY <2>3, <2>4
<1>5. ASSUME NEW p \in Proc, iderw_wait(p) PROVE BcacheTypeOK'
  <2>1. Request(b[p]) \in Channel
    BY <1>5, HasBuffer, Channels DEF iderw_wait
  <2>2. UNCHANGED <<driver, panicking, disk, bufVars, lru, locked, idequeue, b, latest, writes>>
    BY <1>5 DEF iderw_wait
  <2>3. CASE Synced(b[p])
    <3>1. doing' = [doing EXCEPT ![p] = "hold"] /\ waits' = waits
      BY <1>5, <2>3 DEF iderw_wait
    <3>. QED BY <2>2, <3>1 DEF BcacheTypeOK
  <2>4. CASE ~Synced(b[p])
    <3>1. waits' = [waits EXCEPT ![p] = Request(b[p])] /\ doing' = doing
      BY <1>5, <2>4 DEF iderw_wait
    <3>. QED BY <2>1, <2>2, <3>1 DEF BcacheTypeOK
  <2>. QED BY <2>3, <2>4
<1>6. CASE ideintr
  <2> DEFINE x == Head(idequeue)
  <2>1. x \in Buf /\ blockno[x] \in Block /\ Tail(idequeue) \in Seq(Buf)
    BY <1>6, Queued DEF ideintr
  <2>2. disk' \in [Block -> Data]
    BY <1>6, <2>1 DEF ideintr, BcacheTypeOK
  <2>. QED BY <1>6, <2>1, <2>2 DEF ideintr, BcacheTypeOK
<1>7. ASSUME NEW p \in Proc, NEW d \in Data, bwrite(p, d) PROVE BcacheTypeOK'
  <2>1. b[p] \in Buf /\ blockno[b[p]] \in Block
    BY <1>7, HasBuffer DEF bwrite
  <2>2. latest' \in [Block -> Data] /\ writes' \in Nat
    <3>1. CASE d = data[b[p]]
      BY <1>7, <3>1 DEF bwrite, BcacheTypeOK
    <3>2. CASE d # data[b[p]]
      <4>1. latest' = [latest EXCEPT ![blockno[b[p]]] = d] /\ writes' = writes + 1
        BY <1>7, <3>2 DEF bwrite
      <4>. QED BY <2>1, <4>1 DEF BcacheTypeOK
    <3>. QED BY <3>1, <3>2
  <2>3. dirty \cup {b[p]} \in SUBSET Buf
    BY <2>1 DEF BcacheTypeOK
  <2>. QED BY <1>3, <1>7, <2>2, <2>3 DEF bwrite
<1>8. ASSUME NEW p \in Proc, NEW d \in Data, log_write(p, d) PROVE BcacheTypeOK'
  <2>1. b[p] \in Buf /\ blockno[b[p]] \in Block
    BY <1>8, HasBuffer DEF log_write
  <2>. QED BY <1>8, <2>1 DEF log_write, BcacheTypeOK
<1>9. ASSUME NEW p \in Proc, releasesleep(p) PROVE BcacheTypeOK'
  <2>1. b[p] \in Buf
    BY <1>9, HasBuffer DEF releasesleep
  <2>. QED BY <1>9, <2>1 DEF releasesleep, BcacheTypeOK
<1>10. ASSUME NEW p \in Proc, brelse(p) PROVE BcacheTypeOK'
  <2>1. b[p] \in Buf /\ refcnt[b[p]] - 1 \in Nat
    BY <1>10, HasBuffer DEF brelse
  <2>2. lru' \in [Buf -> Buf]
    <3>1. PICK i \in DOMAIN lru : lru' = IF refcnt[b[p]] = 1 THEN ToFront(lru, i) ELSE lru
      BY <1>10 DEF brelse
    <3>2. ToFront(lru, i) \in [Buf -> Buf]
      <4>1. lru \in [Buf -> Buf] /\ i \in Buf
        BY DEF BcacheTypeOK
      <4>. QED BY <4>1, ToFrontKeeps
    <3>. QED BY <3>1, <3>2 DEF BcacheTypeOK
  <2>. QED BY <1>10, <2>1, <2>2 DEF brelse, BcacheTypeOK
<1>11. CASE Still
  BY <1>11 DEF Still, BcacheTypeOK
<1>. QED BY Steps, <1>1, <1>2, <1>4, <1>5, <1>6, <1>7, <1>8, <1>9, <1>10, <1>11, ZenonT(120)
        DEF BcacheStep
-----------------------------------------------------------------------------
LEMMA HolderStep == ASSUME BcacheAssumption, CacheInv, [BcacheNext]_bcacheVars PROVE HolderInv'
<1> USE DEF procVars, Goto, Sleep, Wakeup, Ready
<1>0. /\ BcacheTypeOK /\ HolderInv
      /\ None \notin Buf /\ None \notin Proc /\ \A x \in Buf : Lock(x) # None /\ Request(x) # None
  BY Channels DEF CacheInv, BcacheAssumption
<1> USE <1>0
<1>1. ASSUME NEW p \in Proc, NEW k \in Block, Got(p, k) PROVE HolderInv'
  <2>1. PICK x \in Buf : b' = [b EXCEPT ![p] = x]
    BY <1>1, ZenonT(120) DEF Got, bget_hit, bget_recycle, Recycle, Cached, Unused, BcacheTypeOK
  <2>2. doing[p] = "idle" /\ waits[p] = None /\ doing' = [doing EXCEPT ![p] = "acquiresleep"]
        /\ UNCHANGED <<locked, waits>>
    BY <1>1 DEF Got, bget_hit, bget_recycle, Recycle
  <2>. QED BY <2>1, <2>2 DEF HolderInv, BcacheTypeOK
<1>2. ASSUME NEW p \in Proc, acquiresleep(p) PROVE HolderInv'
  <2>1. b[p] \in Buf /\ doing[p] = "acquiresleep" /\ waits[p] = None /\ b' = b
    BY <1>2, HasBuffer DEF acquiresleep
  <2>2. CASE locked[b[p]] = None
    <3>1. locked' = [locked EXCEPT ![b[p]] = p] /\ doing' = [doing EXCEPT ![p] = "locked"] /\ waits' = waits
      BY <1>2, <2>2 DEF acquiresleep
    <3>. QED BY <2>1, <2>2, <3>1 DEF HolderInv, BcacheTypeOK
  <2>3. CASE locked[b[p]] # None
    <3>1. waits' = [waits EXCEPT ![p] = Lock(b[p])] /\ UNCHANGED <<locked, doing>>
      BY <1>2, <2>3 DEF acquiresleep
    <3>. QED BY <2>1, <2>3, <3>1, Channels DEF HolderInv, BcacheTypeOK
  <2>. QED BY <2>2, <2>3
<1>3. ASSUME NEW p \in Proc, NEW d, NEW D, iderw(p, d, D), Ready(p, "locked") \/ Ready(p, "hold"),
             UNCHANGED <<locked, b>>
      PROVE  HolderInv'
  <2>1. b[p] \in Buf /\ waits[p] = None
    BY <1>3, HasBuffer
  <2>2. CASE ide_iderw(p, d, D)
    <3>1. doing' = [doing EXCEPT ![p] = "iderw"] /\ waits' = [waits EXCEPT ![p] = Request(b[p])]
      BY <2>2 DEF ide_iderw
    <3>. QED BY <1>3, <2>1, <3>1, Channels DEF HolderInv, BcacheTypeOK
  <2>3. CASE memide_iderw(p, d, D)
    <3>1. doing' = [doing EXCEPT ![p] = "hold"] /\ waits' = waits
      BY <2>3 DEF memide_iderw
    <3>. QED BY <1>3, <2>1, <3>1 DEF HolderInv, BcacheTypeOK
  <2>. QED BY <1>3, <2>2, <2>3 DEF iderw
<1>4. ASSUME NEW p \in Proc, bread(p) PROVE HolderInv'
  <2>1. doing[p] = "locked" /\ waits[p] = None /\ UNCHANGED <<locked, b>>
    BY <1>4 DEF bread
  <2>2. CASE b[p] \in valid
    <3>1. doing' = [doing EXCEPT ![p] = "hold"] /\ waits' = waits
      BY <1>4, <2>2 DEF bread
    <3>. QED BY <2>1, <3>1 DEF HolderInv, BcacheTypeOK
  <2>3. CASE b[p] \notin valid
    <3>1. iderw(p, data[b[p]], dirty)
      BY <1>4, <2>3 DEF bread
    <3>. QED BY <1>3, <2>1, <3>1
  <2>. QED BY <2>2, <2>3
<1>5. ASSUME NEW p \in Proc, iderw_wait(p) PROVE HolderInv'
  <2>1. b[p] \in Buf /\ doing[p] = "iderw" /\ waits[p] = None /\ UNCHANGED <<locked, b>>
    BY <1>5, HasBuffer DEF iderw_wait
  <2>2. CASE Synced(b[p])
    <3>1. doing' = [doing EXCEPT ![p] = "hold"] /\ waits' = waits
      BY <1>5, <2>2 DEF iderw_wait
    <3>. QED BY <2>1, <3>1 DEF HolderInv, BcacheTypeOK
  <2>3. CASE ~Synced(b[p])
    <3>1. waits' = [waits EXCEPT ![p] = Request(b[p])] /\ doing' = doing
      BY <1>5, <2>3 DEF iderw_wait
    <3>. QED BY <2>1, <3>1, Channels DEF HolderInv, BcacheTypeOK
  <2>. QED BY <2>2, <2>3
<1>6. CASE ideintr
  BY <1>6 DEF ideintr, HolderInv, BcacheTypeOK
<1>7. ASSUME NEW p \in Proc, NEW d \in Data, bwrite(p, d) PROVE HolderInv'
  BY <1>3, <1>7 DEF bwrite
<1>8. ASSUME NEW p \in Proc, NEW d \in Data, log_write(p, d) PROVE HolderInv'
  BY <1>8 DEF log_write, HolderInv
<1>9. ASSUME NEW p \in Proc, releasesleep(p) PROVE HolderInv'
  <2>1. b[p] \in Buf /\ doing[p] = "hold" /\ waits[p] = None /\ b' = b
        /\ locked' = [locked EXCEPT ![b[p]] = None] /\ doing' = [doing EXCEPT ![p] = "brelse"]
    BY <1>9, HasBuffer DEF releasesleep
  <2>2. waits' = [q \in Proc |-> IF waits[q] = Lock(b[p]) THEN None ELSE waits[q]]
    BY <1>9 DEF releasesleep
  <2>. QED BY <2>1, <2>2, Holder DEF HolderInv, BcacheTypeOK
<1>10. ASSUME NEW p \in Proc, brelse(p) PROVE HolderInv'
  <2>1. doing[p] = "brelse" /\ waits[p] = None /\ b' = [b EXCEPT ![p] = None]
        /\ doing' = [doing EXCEPT ![p] = "idle"] /\ UNCHANGED <<locked, waits>>
    BY <1>10 DEF brelse
  <2>. QED BY <2>1 DEF HolderInv, BcacheTypeOK
<1>11. CASE Still
  BY <1>11 DEF Still, HolderInv
<1>. QED BY Steps, <1>1, <1>2, <1>4, <1>5, <1>6, <1>7, <1>8, <1>9, <1>10, <1>11, ZenonT(120)
        DEF BcacheStep
-----------------------------------------------------------------------------
\* bget() recycles a buffer of nobody.
LEMMA Unreferenced ==
    ASSUME BcacheAssumption, CacheInv, NEW x \in Buf, refcnt[x] = 0
    PROVE  (\A q \in Proc : b[q] # x) /\ x \notin Range(idequeue)
<1>1. Users(x) = {}
  BY UsersFinite, FS_EmptySet DEF CacheInv, BlockInv
<1>. QED BY <1>1 DEF Users, CacheInv, QueueInv

LEMMA QueueFrame ==
    ASSUME QueueInv, UNCHANGED <<valid, dirty, idequeue>>,
           \A q \in Proc : /\ doing'[q] = "iderw" <=> doing[q] = "iderw"
                           /\ doing[q] = "iderw" => b'[q] = b[q]
    PROVE  QueueInv'
BY DEF QueueInv, Synced

LEMMA QueueStep == ASSUME BcacheAssumption, CacheInv, [BcacheNext]_bcacheVars PROVE QueueInv'
<1> USE DEF procVars, bufVars, Goto, Ready
<1>0. QueueInv /\ doing \in [Proc -> {"idle", "acquiresleep", "locked", "iderw", "hold", "brelse"}]
      /\ b \in [Proc -> Buf \cup {None}] /\ idequeue \in Seq(Buf)
      /\ lru \in [Buf -> Buf]
  BY DEF CacheInv, BcacheTypeOK
<1> USE <1>0
<1>1. ASSUME NEW p \in Proc, NEW k \in Block, Got(p, k) PROVE QueueInv'
  <2>1. doing[p] = "idle" /\ doing' = [doing EXCEPT ![p] = "acquiresleep"] /\ idequeue' = idequeue
    BY <1>1 DEF Got, bget_hit, bget_recycle, Recycle
  <2>2. PICK y \in Buf : b' = [b EXCEPT ![p] = y]
    BY <1>1, ZenonT(120) DEF Got, bget_hit, bget_recycle, Recycle, Cached, Unused
  <2>3. CASE bget_hit(p, k)
    BY <2>1, <2>2, <2>3, QueueFrame DEF bget_hit
  <2>4. CASE bget_recycle(p, k)
    <3>1. PICK x \in Buf : refcnt[x] = 0 /\ Recycle(p, k, x)
      BY <2>4, ZenonT(120) DEF bget_recycle, Unused
    <3>2. (\A q \in Proc : b[q] # x) /\ x \notin Range(idequeue)
      BY <3>1, Unreferenced
    <3>3. valid' = valid \ {x} /\ dirty' = dirty \ {x}
      BY <3>1 DEF Recycle
    <3>4. \A q \in Proc : /\ doing'[q] = "iderw" <=> doing[q] = "iderw"
                          /\ doing[q] = "iderw" => b'[q] = b[q]
      BY <2>1, <2>2
    <3>. QED BY <2>1, <3>2, <3>3, <3>4 DEF QueueInv, Synced
  <2>. QED BY <1>1, <2>3, <2>4 DEF Got
<1>2. ASSUME NEW p \in Proc, acquiresleep(p) PROVE QueueInv'
  <2>1. doing[p] = "acquiresleep" /\ UNCHANGED <<valid, dirty, idequeue, b>>
    BY <1>2 DEF acquiresleep
  <2>2. \A q \in Proc : doing'[q] = "iderw" <=> doing[q] = "iderw"
    BY <1>2, <2>1 DEF acquiresleep
  <2>. QED BY <2>1, <2>2, QueueFrame
<1>3. ASSUME NEW p \in Proc, NEW d, NEW D, iderw(p, d, D), doing[p] \in {"locked", "hold"}, b' = b,
             dirty \subseteq D, D \subseteq dirty \cup {b[p]}, b[p] \in D \/ b[p] \notin valid
      PROVE  QueueInv'
  <2>1. /\ b[p] \in Buf /\ b[p] \notin Range(idequeue)
        /\ \A q \in Proc \ {p} : doing[q] = "iderw" => b[q] # b[p]
    BY <1>3, Holder
  <2>2. CASE ide_iderw(p, d, D)
    <3>1. idequeue' = Append(idequeue, b[p]) /\ doing' = [doing EXCEPT ![p] = "iderw"]
          /\ dirty' = D /\ valid' = valid
      BY <2>2 DEF ide_iderw
    <3>2. Range(idequeue') = Range(idequeue) \cup {b[p]}
          /\ \A i, j \in DOMAIN idequeue' : idequeue'[i] = idequeue'[j] => i = j
      BY <2>1, <3>1, RangeAppend DEF QueueInv
    <3>. QED BY <1>3, <2>1, <3>1, <3>2 DEF QueueInv, Synced
  <2>3. CASE memide_iderw(p, d, D)
    <3>1. idequeue' = idequeue /\ doing' = [doing EXCEPT ![p] = "hold"]
          /\ dirty' = D \ {b[p]} /\ valid' = valid \cup {b[p]}
      BY <2>3 DEF memide_iderw
    <3>. QED BY <1>3, <2>1, <3>1 DEF QueueInv, Synced
  <2>. QED BY <1>3, <2>2, <2>3 DEF iderw
<1>4. ASSUME NEW p \in Proc, bread(p) PROVE QueueInv'
  <2>1. doing[p] = "locked" /\ b' = b
    BY <1>4 DEF bread
  <2>2. CASE b[p] \in valid
    <3>1. doing' = [doing EXCEPT ![p] = "hold"] /\ UNCHANGED <<valid, dirty, idequeue>>
      BY <1>4, <2>2 DEF bread
    <3>. QED BY <2>1, <3>1, QueueFrame
  <2>3. CASE b[p] \notin valid
    <3>1. iderw(p, data[b[p]], dirty)
      BY <1>4, <2>3 DEF bread
    <3>. QED BY <1>3, <2>1, <2>3, <3>1
  <2>. QED BY <2>2, <2>3
<1>5. ASSUME NEW p \in Proc, iderw_wait(p) PROVE QueueInv'
  <2>1. doing[p] = "iderw" /\ UNCHANGED <<b, valid, dirty, idequeue>>
    BY <1>5 DEF iderw_wait
  <2>2. CASE Synced(b[p])
    <3>1. doing' = [doing EXCEPT ![p] = "hold"]
      BY <1>5, <2>2 DEF iderw_wait
    <3>. QED BY <2>1, <2>2, <3>1 DEF QueueInv, Synced
  <2>3. CASE ~Synced(b[p])
    <3>1. doing' = doing
      BY <1>5, <2>3 DEF iderw_wait
    <3>. QED BY <2>1, <3>1, QueueFrame
  <2>. QED BY <2>2, <2>3
<1>6. CASE ideintr
  <2> DEFINE x == Head(idequeue)
  <2>1. /\ idequeue' = Tail(idequeue) /\ valid' = valid \cup {x} /\ dirty' = dirty \ {x}
        /\ UNCHANGED <<doing, b>> /\ idequeue # <<>>
    BY <1>6 DEF ideintr
  <2>2. Range(idequeue') = Range(idequeue) \ {x}
        /\ \A i, j \in DOMAIN idequeue' : idequeue'[i] = idequeue'[j] => i = j
    BY <2>1, Queued
  <2>. QED BY <2>1, <2>2 DEF QueueInv, Synced
<1>7. ASSUME NEW p \in Proc, NEW d \in Data, bwrite(p, d) PROVE QueueInv'
  <2>1. doing[p] = "hold" /\ b' = b /\ iderw(p, d, dirty \cup {b[p]})
    BY <1>7 DEF bwrite
  <2>. QED BY <1>3, <2>1
<1>8. ASSUME NEW p \in Proc, NEW d \in Data, log_write(p, d) PROVE QueueInv'
  <2>1. doing[p] = "hold" /\ dirty' = dirty \cup {b[p]} /\ UNCHANGED <<valid, idequeue, doing, b>>
    BY <1>8 DEF log_write
  <2>2. b[p] \notin Range(idequeue) /\ \A q \in Proc \ {p} : doing[q] = "iderw" => b[q] # b[p]
    BY <2>1, Holder
  <2>. QED BY <2>1, <2>2 DEF QueueInv, Synced
<1>9. ASSUME NEW p \in Proc, releasesleep(p) PROVE QueueInv'
  <2>1. doing[p] = "hold" /\ doing' = [doing EXCEPT ![p] = "brelse"] /\ UNCHANGED <<valid, dirty, idequeue, b>>
    BY <1>9 DEF releasesleep
  <2>. QED BY <2>1, QueueFrame
<1>10. ASSUME NEW p \in Proc, brelse(p) PROVE QueueInv'
  <2>1. doing[p] = "brelse" /\ b' = [b EXCEPT ![p] = None]
        /\ doing' = [doing EXCEPT ![p] = "idle"] /\ UNCHANGED <<valid, dirty, idequeue>>
    BY <1>10 DEF brelse
  <2>. QED BY <2>1, QueueFrame
<1>11. CASE Still
  BY <1>11, QueueFrame DEF Still
<1>. QED BY Steps, <1>1, <1>2, <1>4, <1>5, <1>6, <1>7, <1>8, <1>9, <1>10, <1>11, ZenonT(120)
        DEF BcacheStep
-----------------------------------------------------------------------------
LEMMA BlockFrame ==
    ASSUME BlockInv, UNCHANGED <<blockno, refcnt, lru, b>>,
           \A x \in valid' : x \in valid \/ blockno[x] # None
    PROVE  BlockInv'
BY DEF BlockInv, Users

\* A process that gets a buffer, or gives it back, is counted.
LEMMA UserEnters ==
    ASSUME BcacheAssumption, CacheInv, NEW p \in Proc, NEW x \in Buf,
           b[p] = None, b' = [b EXCEPT ![p] = x]
    PROVE  /\ Cardinality(Users(x)') = Cardinality(Users(x)) + 1
           /\ \A y \in Buf \ {x} : Users(y)' = Users(y)
<1>1. b \in [Proc -> Buf \cup {None}] /\ None \notin Buf
  BY DEF CacheInv, BcacheTypeOK, BcacheAssumption
<1>2. Users(x)' = Users(x) \cup {p} /\ p \notin Users(x)
  BY <1>1 DEF Users
<1>3. \A y \in Buf \ {x} : Users(y)' = Users(y)
  BY <1>1 DEF Users
<1>4. Cardinality(Users(x) \cup {p}) = Cardinality(Users(x)) + 1
  BY <1>2, UsersFinite, FS_AddElement
<1>. QED BY <1>2, <1>3, <1>4

LEMMA UserLeaves ==
    ASSUME BcacheAssumption, CacheInv, NEW p \in Proc, b[p] \in Buf, b' = [b EXCEPT ![p] = None]
    PROVE  \A y \in Buf : Cardinality(Users(y)') =
                IF y = b[p] THEN Cardinality(Users(y)) - 1 ELSE Cardinality(Users(y))
<1>1. b \in [Proc -> Buf \cup {None}] /\ None \notin Buf
  BY DEF CacheInv, BcacheTypeOK, BcacheAssumption
<1>2. ASSUME NEW y \in Buf, y = b[p] PROVE Cardinality(Users(y)') = Cardinality(Users(y)) - 1
  <2>1. Users(y)' = Users(y) \ {p} /\ p \in Users(y)
    BY <1>1, <1>2 DEF Users
  <2>2. Cardinality(Users(y) \ {p}) = Cardinality(Users(y)) - 1
    BY <2>1, UsersFinite, FS_RemoveElement
  <2>. QED BY <2>1, <2>2
<1>3. ASSUME NEW y \in Buf, y # b[p] PROVE Users(y)' = Users(y)
  BY <1>1, <1>3 DEF Users
<1>. QED BY <1>2, <1>3

LEMMA BlockStep == ASSUME BcacheAssumption, CacheInv, [BcacheNext]_bcacheVars PROVE BlockInv'
<1> USE DEF procVars, bufVars, Ready
<1>0. BlockInv /\ b \in [Proc -> Buf \cup {None}] /\ lru \in [Buf -> Buf] /\ refcnt \in [Buf -> Nat]
      /\ blockno \in [Buf -> Block \cup {None}] /\ None \notin Block
  BY DEF CacheInv, BcacheTypeOK, BcacheAssumption
<1> USE <1>0
<1>1. ASSUME NEW p \in Proc, NEW k \in Block, Got(p, k) PROVE BlockInv'
  <2>1. b[p] = None /\ lru' = lru
    BY <1>1 DEF Got, CacheInv, HolderInv
  <2>2. CASE bget_hit(p, k)
    <3>1. PICK x \in Buf : /\ blockno[x] = k /\ b' = [b EXCEPT ![p] = x]
                           /\ refcnt' = [refcnt EXCEPT ![x] = @ + 1]
      BY <2>2, ZenonT(120) DEF bget_hit, Cached
    <3>2. UNCHANGED <<blockno, valid>>
      BY <2>2 DEF bget_hit
    <3>3. Cardinality(Users(x)') = Cardinality(Users(x)) + 1
          /\ \A y \in Buf \ {x} : Users(y)' = Users(y)
      BY <2>1, <3>1, UserEnters, ZenonT(120) DEF Users
    <3>. QED BY <2>1, <3>1, <3>2, <3>3 DEF BlockInv
  <2>3. CASE bget_recycle(p, k)
    <3>1. PICK x \in Buf : refcnt[x] = 0 /\ Recycle(p, k, x)
      BY <2>3, ZenonT(120) DEF bget_recycle, Unused
    <3>2. /\ blockno' = [blockno EXCEPT ![x] = k] /\ refcnt' = [refcnt EXCEPT ![x] = 1]
          /\ valid' = valid \ {x} /\ b' = [b EXCEPT ![p] = x]
      BY <3>1 DEF Recycle
    <3>3. Cardinality(Users(x)') = Cardinality(Users(x)) + 1
          /\ \A y \in Buf \ {x} : Users(y)' = Users(y)
      BY <2>1, <3>2, UserEnters, ZenonT(120) DEF Users
    <3>4. \A y \in Buf : blockno[y] # k
      <4>1. \A i \in Buf : blockno[lru[i]] # k
        BY <2>3 DEF bget_recycle, Cached
      <4>. QED BY <4>1 DEF BlockInv
    <3>5. Cardinality(Users(x)') = 1
      BY <3>1, <3>3 DEF BlockInv
    <3>. QED BY <2>1, <3>2, <3>3, <3>4, <3>5 DEF BlockInv
  <2>. QED BY <1>1, <2>2, <2>3 DEF Got
<1>2. ASSUME NEW p \in Proc, acquiresleep(p) PROVE BlockInv'
  BY <1>2, BlockFrame DEF acquiresleep
<1>3. ASSUME NEW p \in Proc, NEW d, NEW D, iderw(p, d, D), doing[p] # "idle",
             UNCHANGED <<blockno, refcnt, lru, b>>
      PROVE  BlockInv'
  <2>1. blockno[b[p]] \in Block
    BY <1>3, HasBuffer
  <2>2. valid' \subseteq valid \cup {b[p]}
    BY <1>3 DEF iderw, ide_iderw, memide_iderw
  <2>. QED BY <1>3, <2>1, <2>2, BlockFrame
<1>4. ASSUME NEW p \in Proc, bread(p) PROVE BlockInv'
  <2>1. doing[p] = "locked" /\ UNCHANGED <<blockno, refcnt, lru, b>>
    BY <1>4 DEF bread
  <2>2. CASE b[p] \in valid
    <3>1. valid' = valid
      BY <1>4, <2>2 DEF bread
    <3>. QED BY <2>1, <3>1, BlockFrame
  <2>3. CASE b[p] \notin valid
    <3>1. iderw(p, data[b[p]], dirty)
      BY <1>4, <2>3 DEF bread
    <3>. QED BY <1>3, <2>1, <3>1
  <2>. QED BY <2>2, <2>3
<1>5. ASSUME NEW p \in Proc, iderw_wait(p) PROVE BlockInv'
  BY <1>5, BlockFrame DEF iderw_wait
<1>6. CASE ideintr
  <2>1. valid' = valid \cup {Head(idequeue)} /\ UNCHANGED <<blockno, refcnt, lru, b>>
        /\ idequeue # <<>>
    BY <1>6 DEF ideintr
  <2>2. blockno[Head(idequeue)] \in Block
    BY <2>1, Queued
  <2>. QED BY <2>1, <2>2, BlockFrame
<1>7. ASSUME NEW p \in Proc, NEW d \in Data, bwrite(p, d) PROVE BlockInv'
  <2>1. doing[p] = "hold" /\ UNCHANGED <<blockno, refcnt, lru, b>> /\ iderw(p, d, dirty \cup {b[p]})
    BY <1>7 DEF bwrite
  <2>. QED BY <1>3, <2>1
<1>8. ASSUME NEW p \in Proc, NEW d \in Data, log_write(p, d) PROVE BlockInv'
  BY <1>8, BlockFrame DEF log_write
<1>9. ASSUME NEW p \in Proc, releasesleep(p) PROVE BlockInv'
  BY <1>9, BlockFrame DEF releasesleep
<1>10. ASSUME NEW p \in Proc, brelse(p) PROVE BlockInv'
  <2>1. doing[p] = "brelse" /\ b' = [b EXCEPT ![p] = None]
        /\ refcnt' = [refcnt EXCEPT ![b[p]] = @ - 1] /\ UNCHANGED <<blockno, valid>>
    BY <1>10 DEF brelse
  <2>2. b[p] \in Buf /\ blockno[b[p]] \in Block
    BY <2>1, HasBuffer
  <2>3. \A y \in Buf : Cardinality(Users(y)') =
            IF y = b[p] THEN Cardinality(Users(y)) - 1 ELSE Cardinality(Users(y))
    BY <2>1, <2>2, UserLeaves, ZenonT(120) DEF Users
  <2>4. \A x \in Buf : \E i \in Buf : lru'[i] = x
    <3>1. PICK i \in DOMAIN lru : lru' = IF refcnt[b[p]] = 1 THEN ToFront(lru, i) ELSE lru
      BY <1>10 DEF brelse
    <3>2. \A j \in Buf : \E m \in Buf : ToFront(lru, i)[m] = lru[j]
      <4>1. i \in Buf
        OBVIOUS
      <4>. QED BY <4>1, ToFrontKeeps, ZenonT(120)
    <3>3. \A x \in Buf : \E j \in Buf : lru[j] = x
      BY DEF BlockInv
    <3>4. CASE refcnt[b[p]] = 1
      <4>1. lru' = ToFront(lru, i)
        BY <3>1, <3>4
      <4>. QED BY <3>2, <3>3, <4>1
    <3>5. CASE refcnt[b[p]] # 1
      BY <3>1, <3>3, <3>5
    <3>. QED BY <3>4, <3>5
  <2>5. \A x \in Buf : refcnt'[x] = Cardinality(Users(x)')
    BY <2>1, <2>2, <2>3 DEF BlockInv
  <2>6. \A x \in Buf : blockno'[x] = None => refcnt'[x] = 0 /\ x \notin valid'
    BY <2>1, <2>2 DEF BlockInv
  <2>. QED BY <2>1, <2>4, <2>5, <2>6 DEF BlockInv
<1>11. CASE Still
  BY <1>11, BlockFrame DEF Still
<1>. QED BY Steps, <1>1, <1>2, <1>4, <1>5, <1>6, <1>7, <1>8, <1>9, <1>10, <1>11, ZenonT(120)
        DEF BcacheStep
-----------------------------------------------------------------------------
LEMMA LatestFrame ==
    ASSUME LatestInv, UNCHANGED <<disk, blockno, data, valid, dirty, latest>>,
           \A q \in Proc : doing'[q] = "hold" => b'[q] = b[q] /\ (doing[q] = "hold" \/ b[q] \in valid)
    PROVE  LatestInv'
BY DEF LatestInv

\* The only buffer of a block tells whether the disk has its contents.
LEMMA DiskLatest ==
    ASSUME CacheInv, NEW x \in Buf, blockno[x] \in Block, None \notin Block, x \notin dirty
    PROVE  disk[blockno[x]] = latest[blockno[x]]
<1>1. ASSUME NEW y \in dirty, blockno[y] = blockno[x] PROVE y = x
  BY <1>1 DEF CacheInv, BlockInv, BcacheTypeOK
<1>. QED BY <1>1 DEF CacheInv, LatestInv

LEMMA LatestStep == ASSUME BcacheAssumption, CacheInv, [BcacheNext]_bcacheVars PROVE LatestInv'
<1> USE DEF procVars, bufVars, Goto, Ready, Store
<1>0. /\ LatestInv /\ b \in [Proc -> Buf \cup {None}] /\ lru \in [Buf -> Buf]
      /\ doing \in [Proc -> {"idle", "acquiresleep", "locked", "iderw", "hold", "brelse"}]
      /\ blockno \in [Buf -> Block \cup {None}] /\ None \notin Block
      /\ valid \subseteq Buf /\ dirty \subseteq Buf /\ data \in [Buf -> Data]
      /\ disk \in [Block -> Data] /\ latest \in [Block -> Data]
      /\ \A x, y \in Buf : blockno[x] = blockno[y] => x = y \/ blockno[x] = None
  BY DEF CacheInv, BcacheTypeOK, BcacheAssumption, BlockInv
<1> USE <1>0
<1>1. ASSUME NEW p \in Proc, NEW k \in Block, Got(p, k) PROVE LatestInv'
  <2>1. doing' = [doing EXCEPT ![p] = "acquiresleep"] /\ UNCHANGED <<disk, data, latest>>
    BY <1>1 DEF Got, bget_hit, bget_recycle, Recycle
  <2>2. PICK y \in Buf : b' = [b EXCEPT ![p] = y]
    BY <1>1, ZenonT(120) DEF Got, bget_hit, bget_recycle, Recycle, Cached, Unused
  <2>3. \A q \in Proc : doing'[q] = "hold" => b'[q] = b[q] /\ doing[q] = "hold"
    BY <2>1, <2>2
  <2>4. CASE bget_hit(p, k)
    <3>1. UNCHANGED <<blockno, valid, dirty>>
      BY <2>4 DEF bget_hit
    <3>. QED BY <2>1, <2>3, <3>1, LatestFrame
  <2>5. CASE bget_recycle(p, k)
    <3>1. PICK x \in Buf : refcnt[x] = 0 /\ x \notin dirty /\ Recycle(p, k, x)
      BY <2>5, ZenonT(120) DEF bget_recycle, Unused
    <3>2. \A q \in Proc : b[q] # x
      BY <3>1, Unreferenced
    <3>3. valid' = valid \ {x} /\ dirty' = dirty \ {x} /\ blockno' = [blockno EXCEPT ![x] = k]
      BY <3>1 DEF Recycle
    <3>. QED BY <2>1, <2>3, <3>1, <3>2, <3>3 DEF LatestInv
  <2>. QED BY <1>1, <2>4, <2>5 DEF Got
<1>2. ASSUME NEW p \in Proc, acquiresleep(p) PROVE LatestInv'
  <2>1. UNCHANGED <<disk, blockno, data, valid, dirty, latest, b>>
    BY <1>2 DEF acquiresleep
  <2>2. \A q \in Proc : doing'[q] = "hold" => doing[q] = "hold"
    BY <1>2 DEF acquiresleep
  <2>. QED BY <2>1, <2>2, LatestFrame
<1>3. ASSUME NEW p \in Proc, doing[p] = "hold"
      PROVE  b[p] \in valid /\ b[p] \in Buf /\ blockno[b[p]] \in Block /\ latest[blockno[b[p]]] = data[b[p]]
  BY <1>3, HasBuffer DEF LatestInv
<1>4. ASSUME NEW p \in Proc, bread(p) PROVE LatestInv'
  <2>1. b[p] \in Buf /\ blockno[b[p]] \in Block /\ doing[p] = "locked" /\ UNCHANGED <<blockno, latest, b>>
    BY <1>4, HasBuffer DEF bread
  <2>2. CASE b[p] \in valid
    <3>1. doing' = [doing EXCEPT ![p] = "hold"] /\ UNCHANGED <<disk, data, valid, dirty>>
      BY <1>4, <2>2 DEF bread
    <3>. QED BY <2>1, <2>2, <3>1, LatestFrame
  <2>3. CASE b[p] \notin valid
    <3>1. iderw(p, data[b[p]], dirty)
      BY <1>4, <2>3 DEF bread
    <3>2. CASE ide_iderw(p, data[b[p]], dirty)
      <4>1. doing' = [doing EXCEPT ![p] = "iderw"] /\ UNCHANGED <<disk, data, valid, dirty>>
        BY <2>1, <3>2 DEF ide_iderw
      <4>. QED BY <2>1, <4>1, LatestFrame
    <3>3. CASE memide_iderw(p, data[b[p]], dirty)
      <4>1. b[p] \notin dirty
        BY <2>3 DEF LatestInv
      <4>2. /\ doing' = [doing EXCEPT ![p] = "hold"] /\ disk' = disk
            /\ data' = [data EXCEPT ![b[p]] = disk[blockno[b[p]]]]
            /\ valid' = valid \cup {b[p]} /\ dirty' = dirty
        BY <3>3, <4>1 DEF memide_iderw
      <4>3. disk[blockno[b[p]]] = latest[blockno[b[p]]]
        BY <2>1, <4>1, DiskLatest
      <4>. QED BY <2>1, <4>1, <4>2, <4>3 DEF LatestInv
    <3>. QED BY <3>1, <3>2, <3>3 DEF iderw
  <2>. QED BY <2>2, <2>3
<1>5. ASSUME NEW p \in Proc, iderw_wait(p) PROVE LatestInv'
  <2>1. UNCHANGED <<disk, blockno, data, valid, dirty, latest, b>>
    BY <1>5 DEF iderw_wait
  <2>2. \A q \in Proc : doing'[q] = "hold" => doing[q] = "hold" \/ b[q] \in valid
    BY <1>5 DEF iderw_wait, Synced
  <2>. QED BY <2>1, <2>2, LatestFrame
<1>6. CASE ideintr
  <2> DEFINE x == Head(idequeue)
             k == blockno[x]
  <2>1. x \in Buf /\ k \in Block
    <3>1. idequeue # <<>>
      BY <1>6 DEF ideintr
    <3>. QED BY <3>1, Queued
  <2>2. /\ valid' = valid \cup {x} /\ dirty' = dirty \ {x}
        /\ data' = [data EXCEPT ![x] = disk'[k]] /\ UNCHANGED <<doing, b, blockno, latest>>
        /\ disk' = IF x \in dirty THEN [disk EXCEPT ![k] = data[x]] ELSE disk
    BY <1>6 DEF ideintr
  <2>3. disk'[k] = latest[k] /\ \A h \in Block \ {k} : disk'[h] = disk[h]
    <3>1. CASE x \in dirty
      BY <2>1, <2>2, <3>1 DEF LatestInv
    <3>2. CASE x \notin dirty
      BY <2>1, <2>2, <3>2, DiskLatest
    <3>. QED BY <3>1, <3>2
  <2> HIDE DEF x, k
  <2>4. \A y \in valid' : data'[y] = latest[blockno[y]]
    BY <2>1, <2>2, <2>3 DEF LatestInv, k
  <2>5. \A h \in Block : disk'[h] = latest[h] \/ \E y \in dirty' : blockno[y] = h
    BY <2>1, <2>2, <2>3 DEF LatestInv, k
  <2>6. dirty' \subseteq valid' /\ \A q \in Proc : doing[q] = "hold" => b[q] \in valid'
    BY <2>2 DEF LatestInv
  <2>. QED BY <2>2, <2>4, <2>5, <2>6 DEF LatestInv
<1>7. ASSUME NEW p \in Proc, NEW d \in Data, bwrite(p, d) PROVE LatestInv'
  <2>1. doing[p] = "hold" /\ UNCHANGED <<b, blockno>> /\ iderw(p, d, dirty \cup {b[p]})
    BY <1>7 DEF bwrite
  <2>2. latest' = [latest EXCEPT ![blockno[b[p]]] = d]
    BY <1>3, <1>7, <2>1 DEF bwrite
  <2>3. CASE ide_iderw(p, d, dirty \cup {b[p]})
    <3>1. /\ doing' = [doing EXCEPT ![p] = "iderw"] /\ data' = [data EXCEPT ![b[p]] = d]
          /\ dirty' = dirty \cup {b[p]} /\ UNCHANGED <<disk, valid>>
      BY <2>3 DEF ide_iderw
    <3>. QED BY <1>3, <2>1, <2>2, <3>1 DEF LatestInv
  <2>4. CASE memide_iderw(p, d, dirty \cup {b[p]})
    <3>1. /\ doing' = [doing EXCEPT ![p] = "hold"] /\ disk' = [disk EXCEPT ![blockno[b[p]]] = d]
          /\ data' = [data EXCEPT ![b[p]] = disk'[blockno[b[p]]]]
          /\ valid' = valid \cup {b[p]} /\ dirty' = (dirty \cup {b[p]}) \ {b[p]}
      <4> DEFINE D == dirty \cup {b[p]}
      <4>1. memide_iderw(p, d, D) /\ b[p] \in D
        BY <2>4
      <4> HIDE DEF D
      <4>2. /\ doing' = [doing EXCEPT ![p] = "hold"] /\ disk' = [disk EXCEPT ![blockno[b[p]]] = d]
            /\ data' = [data EXCEPT ![b[p]] = disk'[blockno[b[p]]]]
            /\ valid' = valid \cup {b[p]} /\ dirty' = D \ {b[p]}
        BY <4>1 DEF memide_iderw
      <4>. QED BY <4>2 DEF D
    <3>2. data' = [data EXCEPT ![b[p]] = d] /\ dirty' = dirty \ {b[p]} /\ valid' = valid
      <4>1. disk'[blockno[b[p]]] = d /\ b[p] \in valid
        BY <1>3, <2>1, <3>1
      <4>2. data' = [data EXCEPT ![b[p]] = d]
        BY <3>1, <4>1, ZenonT(120)
      <4>3. dirty' = dirty \ {b[p]} /\ valid' = valid
        BY <3>1, <4>1
      <4>. QED BY <4>2, <4>3
    <3>. QED BY <1>3, <2>1, <2>2, <3>1, <3>2 DEF LatestInv
  <2>. QED BY <2>1, <2>3, <2>4 DEF iderw
<1>8. ASSUME NEW p \in Proc, NEW d \in Data, log_write(p, d) PROVE LatestInv'
  <2>1. /\ doing[p] = "hold" /\ data' = [data EXCEPT ![b[p]] = d]
        /\ dirty' = dirty \cup {b[p]} /\ UNCHANGED <<disk, valid, blockno, doing, b>>
        /\ latest' = [latest EXCEPT ![blockno[b[p]]] = d]
    BY <1>8 DEF log_write
  <2>. QED BY <1>3, <2>1 DEF LatestInv
<1>9. ASSUME NEW p \in Proc, releasesleep(p) PROVE LatestInv'
  <2>1. doing' = [doing EXCEPT ![p] = "brelse"] /\ UNCHANGED <<disk, blockno, data, valid, dirty, latest, b>>
    BY <1>9 DEF releasesleep
  <2>. QED BY <2>1, LatestFrame
<1>10. ASSUME NEW p \in Proc, brelse(p) PROVE LatestInv'
  <2>1. b' = [b EXCEPT ![p] = None] /\ doing' = [doing EXCEPT ![p] = "idle"]
        /\ UNCHANGED <<disk, blockno, data, valid, dirty, latest>>
    BY <1>10 DEF brelse
  <2>. QED BY <2>1, LatestFrame
<1>11. CASE Still
  BY <1>11, LatestFrame DEF Still
<1>. QED BY Steps, <1>1, <1>2, <1>4, <1>5, <1>6, <1>7, <1>8, <1>9, <1>10, <1>11, ZenonT(120)
        DEF BcacheStep
-----------------------------------------------------------------------------
LEMMA PinnedFinite ==
    ASSUME BcacheAssumption, BcacheTypeOK
    PROVE  IsFiniteSet(Pinned) /\ \A S \in SUBSET Pinned : Cardinality(S) <= Cardinality(Pinned)
<1>1. IsFiniteSet(Buf)
  BY FS_Interval DEF BcacheAssumption, Buf
<1>2. IsFiniteSet(Pinned)
  BY <1>1, FS_Subset DEF Pinned, BcacheTypeOK
<1>. QED BY <1>2, FS_Subset

\* Only log_write() pins a buffer, and it counts them.
LEMMA PinnedStep ==
    ASSUME BcacheAssumption, CacheInv, [BcacheNext]_bcacheVars PROVE Cardinality(Pinned') <= MaxPinned
<1> USE DEF procVars, bufVars, Ready
<1>0. /\ BcacheTypeOK /\ IsFiniteSet(Pinned) /\ Cardinality(Pinned) <= MaxPinned
      /\ Cardinality(Pinned) \in Nat /\ MaxPinned \in Nat
  BY PinnedFinite, FS_CardinalityType DEF CacheInv, BcacheAssumption
<1>1. ASSUME NEW S \in SUBSET Pinned PROVE Cardinality(S) <= MaxPinned
  <2>1. Cardinality(S) <= Cardinality(Pinned) /\ Cardinality(S) \in Nat
    BY <1>0, FS_Subset, FS_CardinalityType
  <2>. QED BY <1>0, <2>1
<1>2. ASSUME NEW p \in Proc, NEW d \in Data, log_write(p, d) PROVE Cardinality(Pinned') <= MaxPinned
  <2>1. /\ dirty' = dirty \cup {b[p]} /\ idequeue' = idequeue /\ doing[p] = "hold"
        /\ Cardinality(Pinned \ {b[p]}) < MaxPinned
    BY <1>2 DEF log_write
  <2>2. b[p] \notin Range(idequeue)
    BY <2>1, Holder
  <2>3. Pinned' = (Pinned \ {b[p]}) \cup {b[p]}
    BY <2>1, <2>2 DEF Pinned
  <2>4. IsFiniteSet(Pinned \ {b[p]}) /\ Cardinality(Pinned \ {b[p]}) \in Nat
    BY <1>0, FS_Subset, FS_CardinalityType
  <2>5. Cardinality((Pinned \ {b[p]}) \cup {b[p]}) = Cardinality(Pinned \ {b[p]}) + 1
    <3>1. b[p] \notin Pinned \ {b[p]}
      OBVIOUS
    <3>. QED BY <2>4, <3>1, FS_AddElement, ZenonT(120)
  <2>. QED BY <1>0, <2>1, <2>3, <2>4, <2>5
<1>3. ASSUME NEW p \in Proc, NEW d, NEW D, iderw(p, d, D), D \subseteq dirty \cup {b[p]},
             doing[p] \in {"locked", "hold"}
      PROVE  Pinned' \subseteq Pinned
  <2>1. CASE ide_iderw(p, d, D)
    <3>1. dirty' = D /\ idequeue' = Append(idequeue, b[p])
      BY <2>1 DEF ide_iderw
    <3>2. Range(idequeue') = Range(idequeue) \cup {b[p]}
      <4>1. idequeue \in Seq(Buf) /\ \A i, j \in DOMAIN idequeue : idequeue[i] = idequeue[j] => i = j
        BY <1>0 DEF CacheInv, QueueInv, BcacheTypeOK
      <4>2. b[p] \in Buf /\ b[p] \notin Range(idequeue)
        BY <1>3, Holder
      <4>. QED BY <3>1, <4>1, <4>2, RangeAppend
    <3>. QED BY <1>3, <3>1, <3>2 DEF Pinned
  <2>2. CASE memide_iderw(p, d, D)
    BY <1>3, <2>2 DEF memide_iderw, Pinned
  <2>. QED BY <1>3, <2>1, <2>2 DEF iderw
<1>4. CASE ideintr
  <2>1. dirty' = dirty \ {Head(idequeue)} /\ idequeue' = Tail(idequeue) /\ idequeue # <<>>
    BY <1>4 DEF ideintr
  <2>2. Range(idequeue') = Range(idequeue) \ {Head(idequeue)}
    BY <2>1, Queued
  <2>3. Pinned' \subseteq Pinned
    BY <2>1, <2>2 DEF Pinned
  <2>. QED BY <1>1, <2>3
<1>5. ASSUME NEW p \in Proc, bread(p) PROVE Pinned' \subseteq Pinned
  <2>1. CASE b[p] \in valid
    BY <1>5, <2>1 DEF bread, Pinned
  <2>2. CASE b[p] \notin valid
    <3>1. iderw(p, data[b[p]], dirty) /\ doing[p] = "locked"
      BY <1>5, <2>2 DEF bread
    <3>. QED BY <1>3, <3>1
  <2>. QED BY <2>1, <2>2
<1>6. ASSUME NEW p \in Proc, NEW d \in Data, bwrite(p, d) PROVE Pinned' \subseteq Pinned
  <2>1. iderw(p, d, dirty \cup {b[p]}) /\ doing[p] = "hold"
    BY <1>6 DEF bwrite
  <2>. QED BY <1>3, <2>1
<1>7. ASSUME NEW p \in Proc, NEW k \in Block, Got(p, k) PROVE Pinned' \subseteq Pinned
  <2>1. dirty' \subseteq dirty /\ idequeue' = idequeue
    BY <1>7, ZenonT(120) DEF Got, bget_hit, bget_recycle, Recycle
  <2>. QED BY <2>1 DEF Pinned
<1>8. ASSUME UNCHANGED <<dirty, idequeue>> PROVE Pinned' \subseteq Pinned
  BY <1>8 DEF Pinned
<1>9. ASSUME NEW p \in Proc, acquiresleep(p) \/ iderw_wait(p) \/ releasesleep(p) \/ brelse(p)
      PROVE  UNCHANGED <<dirty, idequeue>>
  <2>1. CASE acquiresleep(p)
    BY <2>1 DEF acquiresleep
  <2>2. CASE iderw_wait(p)
    BY <2>2 DEF iderw_wait
  <2>3. CASE releasesleep(p) \/ brelse(p)
    BY <2>3 DEF releasesleep, brelse
  <2>. QED BY <1>9, <2>1, <2>2, <2>3
<1>10. CASE Still
  BY <1>1, <1>8, <1>10 DEF Still
<1>. QED BY Steps, <1>1, <1>2, <1>4, <1>5, <1>6, <1>7, <1>8, <1>9, <1>10, ZenonT(120) DEF BcacheStep
-----------------------------------------------------------------------------
\* Without bcache.lock no buffer is given back, and a buffer that the disk
\* cleans has a user.
LEMMA PanicFrame ==
    ASSUME PanicInv, UNCHANGED <<panicking, lru, refcnt>>,
           \A i \in DOMAIN lru : lru[i] \in dirty => lru[i] \in dirty' \/ refcnt[lru[i]] # 0
    PROVE  PanicInv'
BY DEF PanicInv, Unused

LEMMA PanicStep == ASSUME BcacheAssumption, CacheInv, [BcacheNext]_bcacheVars PROVE PanicInv'
<1> USE DEF procVars, bufVars, Ready
<1>0. PanicInv /\ lru \in [Buf -> Buf]
  BY DEF CacheInv, BcacheTypeOK
<1>1. ASSUME NEW p \in Proc, NEW k \in Block, Got(p, k) PROVE PanicInv'
  BY <1>1 DEF Got, PanicInv
<1>2. ASSUME UNCHANGED <<panicking, lru, refcnt>>, dirty \subseteq dirty' PROVE PanicInv'
  BY <1>0, <1>2, PanicFrame
<1>3. ASSUME NEW p \in Proc, NEW d, NEW D, iderw(p, d, D), dirty \subseteq D, doing[p] # "idle",
             UNCHANGED <<panicking, lru, refcnt>>
      PROVE  PanicInv'
  <2>1. refcnt[b[p]] # 0
    BY <1>3, HasBuffer
  <2>2. D \ {b[p]} \subseteq dirty'
    BY <1>3 DEF iderw, ide_iderw, memide_iderw
  <2>. QED BY <1>0, <1>3, <2>1, <2>2, PanicFrame
<1>4. ASSUME NEW p \in Proc, bread(p) PROVE PanicInv'
  <2>1. doing[p] = "locked" /\ UNCHANGED <<panicking, lru, refcnt>>
    BY <1>4 DEF bread
  <2>2. CASE b[p] \in valid
    <3>1. dirty' = dirty
      BY <1>4, <2>2 DEF bread
    <3>. QED BY <1>2, <2>1, <3>1
  <2>3. CASE b[p] \notin valid
    <3>1. iderw(p, data[b[p]], dirty)
      BY <1>4, <2>3 DEF bread
    <3>. QED BY <1>3, <2>1, <3>1
  <2>. QED BY <2>2, <2>3
<1>5. CASE ideintr
  <2>1. /\ idequeue # <<>> /\ dirty' = dirty \ {Head(idequeue)} /\ UNCHANGED <<panicking, lru, refcnt>>
    BY <1>5 DEF ideintr
  <2>2. PICK p \in Proc : doing[p] = "iderw" /\ b[p] = Head(idequeue)
    BY <2>1, Queued
  <2>3. refcnt[Head(idequeue)] # 0
    BY <2>2, HasBuffer
  <2>. QED BY <1>0, <2>1, <2>3, PanicFrame
<1>6. ASSUME NEW p \in Proc, NEW d \in Data, bwrite(p, d) PROVE PanicInv'
  <2>1. /\ doing[p] = "hold" /\ UNCHANGED <<panicking, lru, refcnt>>
        /\ iderw(p, d, dirty \cup {b[p]}) /\ dirty \subseteq dirty \cup {b[p]}
    BY <1>6 DEF bwrite
  <2>. QED BY <1>3, <2>1
<1>7. ASSUME NEW p \in Proc, NEW d \in Data, log_write(p, d) PROVE PanicInv'
  <2>1. UNCHANGED <<panicking, lru, refcnt>> /\ dirty \subseteq dirty'
    BY <1>7 DEF log_write
  <2>. QED BY <1>2, <2>1
<1>8. ASSUME NEW p \in Proc, acquiresleep(p) \/ iderw_wait(p) \/ releasesleep(p) PROVE PanicInv'
  <2>1. UNCHANGED <<panicking, lru, refcnt, dirty>>
    BY <1>8 DEF acquiresleep, iderw_wait, releasesleep
  <2>. QED BY <1>2, <2>1
<1>9. ASSUME NEW p \in Proc, brelse(p) PROVE PanicInv'
  BY <1>9 DEF brelse, PanicInv
<1>10. CASE Still
  <2>1. UNCHANGED <<refcnt, dirty, lru>> /\ (panicking' = panicking \/ Unused = {})
    BY <1>10, Zenon DEF Still
  <2>2. Unused' = Unused
    BY <2>1 DEF Unused
  <2>. QED BY <1>0, <2>1, <2>2 DEF PanicInv
<1>. QED BY Steps, <1>1, <1>4, <1>5, <1>6, <1>7, <1>8, <1>9, <1>10, ZenonT(120) DEF BcacheStep
-----------------------------------------------------------------------------
LEMMA CacheInit == ASSUME BcacheAssumption, BcacheInit PROVE CacheInv
<1> USE DEF BcacheInit, BcacheAssumption
<1>1. BcacheTypeOK
  <2>1. (CHOOSE d \in Data : TRUE) \in Data
    OBVIOUS
  <2>2. lru \in [Buf -> Buf]
    BY DEF Buf
  <2>. QED BY <2>1, <2>2 DEF BcacheTypeOK
<1>2. HolderInv
  BY Channels DEF HolderInv
<1>3. Range(idequeue) = {}
  BY DEF Range
<1>4. QueueInv
  BY <1>3 DEF QueueInv
<1>5. BlockInv
  <2>1. ASSUME NEW x \in Buf PROVE Users(x) = {}
    BY DEF Users
  <2>2. ASSUME NEW x \in Buf PROVE \E i \in Buf : lru[i] = x
    <3>1. NBUF + 1 - x \in Buf /\ lru[NBUF + 1 - x] = x
      BY DEF Buf
    <3>. QED BY <3>1
  <2>3. ASSUME NEW x \in Buf PROVE Cardinality(Users(x)) = 0
    BY <2>1, FS_EmptySet, ZenonT(120)
  <2>4. ASSUME NEW x \in Buf PROVE blockno[x] = None /\ refcnt[x] = 0 /\ x \notin valid
    OBVIOUS
  <2>. QED BY <2>2, <2>3, <2>4 DEF BlockInv
<1>6. LatestInv
  BY DEF LatestInv
<1>7. Pinned = {}
  BY DEF Pinned
<1>8. PanicInv
  BY DEF PanicInv
<1>. QED BY <1>1, <1>2, <1>4, <1>5, <1>6, <1>7, <1>8, FS_EmptySet DEF CacheInv

\* If no buffer is left, each is pinned by the log or is somebody's.
LEMMA NoneLeft ==
    ASSUME BcacheAssumption, CacheInv, Unused = {}
    PROVE  Cardinality(Pinned) + Cardinality({p \in Proc : b[p] # None}) >= NBUF
<1> DEFINE H == {p \in Proc : b[p] # None}
           B == {b[p] : p \in H}
           f == [p \in H |-> b[p]]
<1>1. IsFiniteSet(H) /\ Cardinality(H) \in Nat
  BY FS_Subset, FS_CardinalityType DEF BcacheAssumption
<1>2. IsFiniteSet(B) /\ Cardinality(B) <= Cardinality(H) /\ Cardinality(B) \in Nat
  <2>1. f \in Surjection(H, B)
    BY DEF Surjection
  <2>2. IsFiniteSet(B) /\ Cardinality(B) <= Cardinality(H)
    BY <1>1, <2>1, FS_Surjection
  <2>. QED BY <2>2, FS_CardinalityType
<1>3. IsFiniteSet(Pinned) /\ Cardinality(Pinned) \in Nat
  BY PinnedFinite, FS_CardinalityType DEF CacheInv
<1>4. ASSUME NEW x \in Buf PROVE x \in Pinned \cup B
  <2>1. CASE refcnt[x] # 0
    <3>1. PICK p \in Proc : b[p] = x
      BY <2>1, FS_EmptySet DEF CacheInv, BlockInv, Users
    <3>. QED BY <3>1 DEF BcacheAssumption
  <2>2. CASE refcnt[x] = 0
    <3>1. x \notin Range(idequeue)
      BY <2>2, Unreferenced
    <3>2. x \in dirty
      BY <2>2 DEF CacheInv, BlockInv, BcacheTypeOK, Unused
    <3>. QED BY <3>1, <3>2 DEF Pinned
  <2>. QED BY <2>1, <2>2
<1> HIDE DEF H, B
<1>5. IsFiniteSet(Pinned \cup B) /\ Cardinality(Pinned \cup B) <= Cardinality(Pinned) + Cardinality(B)
  <2>1. IsFiniteSet(Pinned \cap B) /\ Cardinality(Pinned \cap B) \in Nat
    BY <1>3, FS_Subset, FS_CardinalityType
  <2>2. IsFiniteSet(Pinned \cup B)
        /\ Cardinality(Pinned \cup B) = Cardinality(Pinned) + Cardinality(B) - Cardinality(Pinned \cap B)
    BY <1>2, <1>3, FS_Union
  <2>. QED BY <1>2, <1>3, <2>1, <2>2
<1>6. Cardinality(Buf) = NBUF /\ Cardinality(Buf) <= Cardinality(Pinned \cup B)
  <2>1. Cardinality(Buf) = NBUF
    BY FS_Interval DEF BcacheAssumption, Buf
  <2>2. Buf \in SUBSET (Pinned \cup B)
    BY <1>4
  <2>. QED BY <1>5, <2>1, <2>2, FS_Subset
<1>7. Cardinality(Pinned \cup B) \in Nat /\ NBUF \in Nat
  BY <1>5, FS_CardinalityType DEF BcacheAssumption
<1>8. Cardinality(Pinned) + Cardinality(H) >= NBUF
  BY <1>1, <1>2, <1>3, <1>5, <1>6, <1>7
<1>. QED BY <1>8 DEF H

LEMMA CacheBuffers == ASSUME BcacheAssumption, CacheInv PROVE BufferInv
<1>1. \A p \in Proc : doing[p] \in {"locked", "iderw", "hold"} <=> b[p] # None /\ locked[b[p]] = p
  BY DEF CacheInv, HolderInv, BcacheTypeOK
<1>2. OneBufferPerBlock
  BY <1>1 DEF CacheInv, BlockInv, OneBufferPerBlock
<1>3. LockWaiterWakes
  BY DEF CacheInv, HolderInv, LockWaiterWakes
<1>4. BuffersSuffice
  BY NoneLeft DEF CacheInv, PanicInv, BuffersSuffice
<1>. QED BY <1>2, <1>3, <1>4 DEF BufferInv

LEMMA CacheReads == ASSUME BcacheAssumption, CacheInv PROVE ReadsLatest
<1> SUFFICES ASSUME NEW k \in Block
             PROVE  \/ \E x \in dirty : blockno[x] = k /\ data[x] = latest[k]
                    \/ /\ disk[k] = latest[k]
                       /\ \A x \in valid : blockno[x] = k => data[x] = latest[k]
  BY DEF ReadsLatest
<1>. QED BY DEF CacheInv, LatestInv

(* The inductive invariant of the cache holds for any number of processes, *)
(* buffers and blocks, with ide.c or memide.c, under every interleaving of *)
(* bget(), the sleep locks, iderw(), the disk interrupt and brelse().      *)
THEOREM BcacheInductive == BcacheSpec => []CacheInv
<1>1. BcacheInit => CacheInv
  BY BcacheConstants, CacheInit
<1>2. CacheInv /\ [BcacheNext]_bcacheVars => CacheInv'
  <2> SUFFICES ASSUME CacheInv, [BcacheNext]_bcacheVars PROVE CacheInv'
    OBVIOUS
  <2>1. BcacheTypeOK' /\ HolderInv' /\ QueueInv' /\ BlockInv' /\ LatestInv' /\ PanicInv'
    BY BcacheConstants, TypeStep, HolderStep, QueueStep, BlockStep, LatestStep, PanicStep
  <2>2. Cardinality(Pinned') <= MaxPinned
    BY BcacheConstants, PinnedStep
  <2>. QED BY <2>1, <2>2 DEF CacheInv
<1>. QED BY <1>1, <1>2, PTL DEF BcacheSpec

(* A block has one buffer, which counts its users and is locked by one of  *)
(* them; nobody sleeps for a buffer that is free with no one awake to take *)
(* it; bget() panics for want of buffers only when the log and the holders *)
(* have them all.                                                          *)
THEOREM BcacheBuffers == BcacheSpec => []BufferInv
<1>1. CacheInv => BufferInv
  BY BcacheConstants, CacheBuffers
<1>. QED BY <1>1, BcacheInductive, PTL

(* Whoever reads a block gets what was last stored in it, however often    *)
(* its buffer was recycled, pinned or written in between.                  *)
THEOREM BcacheReadsLatest == BcacheSpec => []ReadsLatest
<1>1. CacheInv => ReadsLatest
  BY BcacheConstants, CacheReads
<1>. QED BY <1>1, BcacheInductive, PTL
=============================================================================
