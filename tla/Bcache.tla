------------------------------- MODULE Bcache -------------------------------
(***************************************************************************)
(* The buffer cache (bio.c), the sleep lock of each buffer (sleeplock.c)   *)
(* and the disk driver beneath it: ide.c with its request queue and        *)
(* interrupt, or memide.c, which copies at once.                           *)
(*                                                                         *)
(* A process gets the buffer of a block with bread(), perhaps changes it   *)
(* with bwrite() or log_write(), and gives it back with brelse().  What    *)
(* runs under bcache.lock, a lock's own spin lock or idelock is one step;  *)
(* sleep() lets go of that lock and sleeps in the same step (proc.c:452).  *)
(***************************************************************************)
EXTENDS Integers, Sequences, FiniteSets, Functions

CONSTANTS Proc,         \* processes
          Block,        \* block numbers of the device
          Data,         \* contents of a block
          None,         \* no process, no buffer, no block
          NBUF,         \* buffers
          MaxPinned,    \* blocks the log keeps in the cache at most
          MaxWrites     \* bound on changes of blocks in a behaviour

Buf == 1..NBUF

(***************************************************************************)
(* The two channels of a buffer: its lock, and the buffer for its request. *)
(***************************************************************************)
Lock(x) == <<"lock", x>>
Request(x) == <<"buf", x>>
Channel == {Lock(x) : x \in Buf} \cup {Request(x) : x \in Buf}

\* What the constants are.
BcacheAssumption ==
    /\ NBUF \in Nat \ {0}
    /\ MaxPinned \in Nat
    /\ MaxWrites \in Nat
    /\ IsFiniteSet(Proc)
    /\ Data # {}
    /\ None \notin Proc \cup Block \cup Data \cup Buf /\ None \notin Channel

ASSUME BcacheConstants == BcacheAssumption

VARIABLES
    driver,     \* "ide" or "memide"
    disk,       \* Block -> Data
    blockno, refcnt, data,  \* Buf -> the fields of a buffer
    valid, dirty,           \* buffers with B_VALID, with B_DIRTY
    lru,        \* list of the buffers, head.next first
    locked,     \* Buf -> the process that holds b->lock, or None
    idequeue,   \* buffers whose request is queued; the first is with the disk
    doing, b,   \* what a process does, and its buffer
    waits,      \* Proc -> the channel it sleeps on
    panicking,  \* the process that panicked in bget(), with bcache.lock
    latest,     \* Block -> what was last stored in it (history)
    writes      \* changes of blocks so far

procVars == <<doing, b, waits>>
bufVars == <<blockno, refcnt, data, valid, dirty>>
bcacheVars == <<driver, disk, bufVars, lru, locked, idequeue, procVars, panicking,
                latest, writes>>

BcacheInit ==
    /\ driver \in {"ide", "memide"}
    /\ disk \in [Block -> Data] /\ \A k1, k2 \in Block : disk[k1] = disk[k2]
    /\ blockno = [x \in Buf |-> None]
    /\ refcnt = [x \in Buf |-> 0]
    /\ data = [x \in Buf |-> CHOOSE d \in Data : TRUE]
    /\ valid = {} /\ dirty = {}
    /\ lru = [i \in Buf |-> NBUF + 1 - i]
    /\ locked = [x \in Buf |-> None]
    /\ idequeue = <<>>
    /\ doing = [p \in Proc |-> "idle"]
    /\ b = [p \in Proc |-> None]
    /\ waits = [p \in Proc |-> None]
    /\ panicking = {}
    /\ latest = disk
    /\ writes = 0

Goto(p, l) == doing' = [doing EXCEPT ![p] = l]
Sleep(p, c) == waits' = [waits EXCEPT ![p] = c]
Wakeup(c) == waits' = [q \in Proc |-> IF waits[q] = c THEN None ELSE waits[q]]
Ready(p, l) == doing[p] = l /\ waits[p] = None

\* Mutant: only buffers that were read are found.
Cached_valid(k) == {i \in DOMAIN lru : blockno[lru[i]] = k /\ lru[i] \in valid}

(***************************************************************************)
(* bget(): the buffer that has the block, the first from the front of the  *)
(* list; else the first from the back that nobody uses and the log does    *)
(* not need; else panic, which never releases bcache.lock.                 *)
(***************************************************************************)
Cached(k) == {i \in DOMAIN lru : blockno[lru[i]] = k}
Unused == {i \in DOMAIN lru : refcnt[lru[i]] = 0 /\ lru[i] \notin dirty}

bget_hit(p, k) ==
    \E i \in Cached(k) :
        /\ \A j \in Cached(k) : i <= j
        /\ refcnt' = [refcnt EXCEPT ![lru[i]] = @ + 1]
        /\ b' = [b EXCEPT ![p] = lru[i]]
        /\ Goto(p, "acquiresleep")
        /\ UNCHANGED <<blockno, data, valid, dirty>>

Recycle(p, k, x) ==
    /\ blockno' = [blockno EXCEPT ![x] = k]
    /\ refcnt' = [refcnt EXCEPT ![x] = 1]
    /\ valid' = valid \ {x} /\ dirty' = dirty \ {x}
    /\ b' = [b EXCEPT ![p] = x]
    /\ Goto(p, "acquiresleep")
    /\ UNCHANGED data

\* Mutant: a buffer the log needs is recycled.
bget_recycle_pinned(p, k) ==
    /\ Cached(k) = {}
    /\ \E i \in DOMAIN lru :
        /\ refcnt[lru[i]] = 0
        /\ \A j \in DOMAIN lru : refcnt[lru[j]] = 0 => j <= i
        /\ Recycle(p, k, lru[i])

bget_recycle(p, k) ==
    /\ Cached(k) = {}
    /\ \E i \in Unused : (\A j \in Unused : j <= i) /\ Recycle(p, k, lru[i])

bget_panic(p, k) ==
    /\ Cached(k) = {} /\ Unused = {}
    /\ panicking' = {p}
    /\ UNCHANGED <<bufVars, doing, b>>

bget(p, k) ==
    /\ Ready(p, "idle") /\ panicking = {}
    /\ \/ (bget_hit(p, k) \/ bget_recycle(p, k)) /\ UNCHANGED panicking
       \/ bget_panic(p, k)
    /\ UNCHANGED <<driver, disk, lru, locked, idequeue, waits, latest, writes>>

(***************************************************************************)
(* acquiresleep() sleeps while the lock is taken; releasesleep() wakes all *)
(* who wait for it, and they race.                                         *)
(***************************************************************************)
acquiresleep(p) ==
    /\ Ready(p, "acquiresleep")
    /\ \/ /\ locked[b[p]] = None
          /\ locked' = [locked EXCEPT ![b[p]] = p]
          /\ Goto(p, "locked")
          /\ UNCHANGED waits
       \/ /\ locked[b[p]] # None
          /\ Sleep(p, Lock(b[p]))
          /\ UNCHANGED <<locked, doing>>
    /\ UNCHANGED <<driver, panicking, disk, bufVars, lru, idequeue, b, latest, writes>>

(***************************************************************************)
(* iderw(): append the buffer to the queue, start the disk when the queue  *)
(* was empty, and sleep until the request is done.  memide.c copies.  The  *)
(* caller left d in the buffer and D are the dirty buffers.                *)
(***************************************************************************)
Synced(x) == x \in valid /\ x \notin dirty

\* Mutant: the newest request is served first.
ide_iderw_front(p, d, D) ==
    /\ driver = "ide"
    /\ data' = [data EXCEPT ![b[p]] = d]
    /\ dirty' = D
    /\ idequeue' = <<b[p]>> \o idequeue
    /\ Sleep(p, Request(b[p]))
    /\ Goto(p, "iderw")
    /\ UNCHANGED <<disk, valid>>

ide_iderw(p, d, D) ==
    /\ driver = "ide"
    /\ data' = [data EXCEPT ![b[p]] = d]
    /\ dirty' = D
    /\ idequeue' = Append(idequeue, b[p])
    /\ Sleep(p, Request(b[p]))
    /\ Goto(p, "iderw")
    /\ UNCHANGED <<disk, valid>>

memide_iderw(p, d, D) ==
    /\ driver = "memide"
    /\ LET k == blockno[b[p]]
       IN  /\ disk' = IF b[p] \in D THEN [disk EXCEPT ![k] = d] ELSE disk
           /\ data' = [data EXCEPT ![b[p]] = disk'[k]]
    /\ valid' = valid \cup {b[p]} /\ dirty' = D \ {b[p]}
    /\ Goto(p, "hold")
    /\ UNCHANGED <<idequeue, waits>>

iderw(p, d, D) == ide_iderw(p, d, D) \/ memide_iderw(p, d, D)

iderw_wait(p) ==
    /\ Ready(p, "iderw")
    /\ IF Synced(b[p]) THEN Goto(p, "hold") /\ UNCHANGED waits
                       ELSE Sleep(p, Request(b[p])) /\ UNCHANGED doing
    /\ UNCHANGED <<driver, panicking, disk, bufVars, lru, locked, idequeue, b, latest, writes>>

(***************************************************************************)
(* ideintr(): the request at the head of the queue is done; the next one   *)
(* goes to the disk, which is idle only when the queue is empty.           *)
(***************************************************************************)
ideintr ==
    /\ idequeue # <<>>
    /\ LET x == Head(idequeue)
           k == blockno[x]
       IN  /\ disk' = IF x \in dirty THEN [disk EXCEPT ![k] = data[x]] ELSE disk
           /\ data' = [data EXCEPT ![x] = disk'[k]]
           /\ valid' = valid \cup {x} /\ dirty' = dirty \ {x}
           /\ Wakeup(Request(x))
    /\ idequeue' = Tail(idequeue)
    /\ UNCHANGED <<driver, panicking, blockno, refcnt, lru, locked, doing, b, latest, writes>>

bread(p) ==
    /\ Ready(p, "locked")
    /\ IF b[p] \in valid THEN /\ Goto(p, "hold")
                              /\ UNCHANGED <<disk, data, valid, dirty, idequeue, waits>>
                         ELSE iderw(p, data[b[p]], dirty)
    /\ UNCHANGED <<driver, panicking, blockno, refcnt, lru, locked, b, latest, writes>>

(***************************************************************************)
(* The holder changes the block and writes it through, or leaves it to the *)
(* log, which pins the buffer with B_DIRTY (log.c:231) until it installs   *)
(* the block with bwrite().                                                *)
(***************************************************************************)
Store(p, d) ==
    /\ writes < MaxWrites
    /\ writes' = writes + 1
    /\ latest' = [latest EXCEPT ![blockno[b[p]]] = d]

bwrite(p, d) ==
    /\ Ready(p, "hold")
    /\ IF d = data[b[p]] THEN UNCHANGED <<latest, writes>> ELSE Store(p, d)
    /\ iderw(p, d, dirty \cup {b[p]})
    /\ UNCHANGED <<driver, panicking, blockno, refcnt, lru, locked, b>>

Pinned == dirty \ Range(idequeue)

log_write(p, d) ==
    /\ Ready(p, "hold")
    /\ Cardinality(Pinned \ {b[p]}) < MaxPinned
    /\ Store(p, d)
    /\ data' = [data EXCEPT ![b[p]] = d]
    /\ dirty' = dirty \cup {b[p]}
    /\ UNCHANGED <<driver, panicking, disk, blockno, refcnt, valid, lru, locked, idequeue, procVars>>

(***************************************************************************)
(* brelse(): releasesleep(), and then, under bcache.lock, the reference.   *)
(* The last one out moves the buffer to the front of the list.             *)
(***************************************************************************)
releasesleep(p) ==
    /\ Ready(p, "hold")
    /\ locked' = [locked EXCEPT ![b[p]] = None]
    /\ Wakeup(Lock(b[p]))
    /\ Goto(p, "brelse")
    /\ UNCHANGED <<driver, panicking, disk, bufVars, lru, idequeue, b, latest, writes>>

ToFront(s, i) == [j \in DOMAIN s |-> IF j = 1 THEN s[i] ELSE IF j <= i THEN s[j - 1] ELSE s[j]]

brelse(p) ==
    /\ Ready(p, "brelse") /\ panicking = {}
    /\ refcnt' = [refcnt EXCEPT ![b[p]] = @ - 1]
    /\ \E i \in DOMAIN lru :
        /\ lru[i] = b[p]
        /\ lru' = IF refcnt[b[p]] = 1 THEN ToFront(lru, i) ELSE lru
    /\ b' = [b EXCEPT ![p] = None]
    /\ Goto(p, "idle")
    /\ UNCHANGED <<driver, panicking, disk, blockno, data, valid, dirty, locked, idequeue, waits>>
    /\ UNCHANGED <<latest, writes>>

\* panic() ends in for(;;).
panic == panicking # {} /\ UNCHANGED bcacheVars

BcacheStep(p) ==
    \/ acquiresleep(p) \/ bread(p) \/ iderw_wait(p) \/ releasesleep(p) \/ brelse(p)

BcacheNext ==
    \/ ideintr \/ panic
    \/ \E p \in Proc :
          \/ BcacheStep(p)
          \/ \E k \in Block : bget(p, k)
          \/ \E d \in Data : bwrite(p, d) \/ log_write(p, d)

BcacheSpec == BcacheInit /\ [][BcacheNext]_bcacheVars

(***************************************************************************)
(* The disk answers every request, and a process that can run, runs; what  *)
(* still runs after a panic, no property asks.                             *)
(***************************************************************************)
BcacheFairness == WF_bcacheVars(ideintr) /\ \A p \in Proc : WF_bcacheVars(BcacheStep(p))

-----------------------------------------------------------------------------
Users(x) == {p \in Proc : b[p] = x}

\* The cache has one buffer per block, counts its users, and the one who is
\* past acquiresleep() is the only one: what bget() promises with "return
\* locked buffer" (bio.c:60).
OneBufferPerBlock ==
    /\ \A x, y \in Buf : blockno[x] = blockno[y] => x = y \/ blockno[x] = None
    /\ \A x \in Buf : refcnt[x] = Cardinality(Users(x))
    /\ \A p \in Proc : doing[p] \in {"locked", "iderw", "hold"} <=> b[p] # None /\ locked[b[p]] = p

\* A process that waits for a buffer is woken when it is released: nobody
\* sleeps on a free lock without somebody awake who will take it.
LockWaiterWakes ==
    \A p \in Proc : \A x \in Buf : waits[p] = Lock(x) =>
        locked[x] # None \/ \E q \in Proc : Ready(q, "acquiresleep") /\ b[q] = x

\* bget() panics (bio.c:92) only when the blocks the log pins and the processes
\* with a buffer are as many as there are buffers.
BuffersSuffice ==
    /\ Cardinality(Pinned) <= MaxPinned
    /\ panicking # {} => Cardinality(Pinned) + Cardinality({p \in Proc : b[p] # None}) >= NBUF

(* Two processes never get two buffers of a block or the same buffer at    *)
(* the same time, no wakeup of a sleep lock is lost, and bget() does not   *)
(* panic while there are enough buffers (bget, acquiresleep, brelse).       *)
BufferInv == OneBufferPerBlock /\ LockWaiterWakes /\ BuffersSuffice

(* Whoever reads a block through the cache gets what was last stored in    *)
(* it, by whomever: valid buffers are up to date, and so is the disk for   *)
(* every block the cache may have to read again (bget, ideintr, log_write).*)
ReadsLatest ==
    \A k \in Block :
        \/ \E x \in dirty : blockno[x] = k /\ data[x] = latest[k]
        \/ /\ disk[k] = latest[k]
           /\ \A x \in valid : blockno[x] = k => data[x] = latest[k]

(***************************************************************************)
(* The inductive invariant behind these two.                               *)
(***************************************************************************)
BcacheTypeOK ==
    /\ driver \in {"ide", "memide"} /\ writes \in Nat
    /\ disk \in [Block -> Data] /\ latest \in [Block -> Data]
    /\ blockno \in [Buf -> Block \cup {None}] /\ refcnt \in [Buf -> Nat]
    /\ data \in [Buf -> Data] /\ valid \subseteq Buf /\ dirty \subseteq Buf
    /\ lru \in [Buf -> Buf]
    /\ locked \in [Buf -> Proc \cup {None}]
    /\ idequeue \in Seq(Buf)
    /\ doing \in [Proc -> {"idle", "acquiresleep", "locked", "iderw", "hold", "brelse"}]
    /\ b \in [Proc -> Buf \cup {None}]
    /\ waits \in [Proc -> Channel \cup {None}]
    /\ panicking \subseteq Proc

\* Who has a buffer, who has it locked, and who sleeps for it: nobody for a
\* lock that is free.
HolderInv ==
    \A p \in Proc :
        /\ doing[p] = "idle" <=> b[p] = None
        /\ doing[p] \in {"locked", "iderw", "hold"} => locked[b[p]] = p
        /\ \A x \in Buf :
            /\ locked[x] = p => doing[p] \in {"locked", "iderw", "hold"} /\ b[p] = x
            /\ waits[p] = Lock(x) => doing[p] = "acquiresleep" /\ b[p] = x /\ locked[x] # None
            /\ waits[p] = Request(x) => doing[p] = "iderw" /\ b[p] = x

\* The queue has every request that is not done, once.
QueueInv ==
    /\ \A i, j \in DOMAIN idequeue : idequeue[i] = idequeue[j] => i = j
    /\ \A x \in Buf : x \in Range(idequeue) <=>
            ~Synced(x) /\ \E p \in Proc : doing[p] = "iderw" /\ b[p] = x

\* Which block a buffer has; every buffer is on the list.
BlockInv ==
    /\ \A x, y \in Buf : blockno[x] = blockno[y] => x = y \/ blockno[x] = None
    /\ \A x \in Buf : /\ refcnt[x] = Cardinality(Users(x))
                      /\ blockno[x] = None => refcnt[x] = 0 /\ x \notin valid
                      /\ \E i \in Buf : lru[i] = x

\* Where the latest contents of a block are: in a buffer that is valid, and on
\* the disk unless the buffer is dirty.
LatestInv ==
    /\ \A p \in Proc : doing[p] = "hold" => b[p] \in valid
    /\ dirty \subseteq valid
    /\ \A x \in valid : data[x] = latest[blockno[x]]
    /\ \A k \in Block : disk[k] = latest[k] \/ \E x \in dirty : blockno[x] = k

\* After a panic every buffer stays in use.
PanicInv == panicking # {} => Unused = {}

CacheInv ==
    /\ BcacheTypeOK /\ HolderInv /\ QueueInv /\ BlockInv /\ LatestInv /\ PanicInv
    /\ Cardinality(Pinned) <= MaxPinned

(* A request that was handed to the disk is served, and whoever waits for  *)
(* it returns from iderw(), unless bget() panics: ideintr() wakes the      *)
(* right sleeper and starts the next request.                              *)
RequestServed ==
    \A p \in Proc : doing[p] = "iderw" ~> doing[p] = "hold" \/ panicking # {}
=============================================================================
