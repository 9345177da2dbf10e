-------------------------------- MODULE Log ---------------------------------
(***************************************************************************)
(* The redo log of log.c together with the part of the buffer cache        *)
(* (bio.c) it depends on: begin_op, log_write, end_op and commit run by    *)
(* concurrent processes, a crash at any point, and recovery at boot.       *)
(*                                                                         *)
(* Each action is a region of code that no other process can observe half  *)
(* done: a critical section of log.lock, or one block written to disk      *)
(* (a disk write of one block is atomic).                                  *)
(***************************************************************************)
EXTENDS Integers, Sequences, FiniteSets

CONSTANTS Proc,         \* processes that run file system calls
          Block,        \* home blocks of the file system
          Val,          \* contents of a block
          None,         \* no buffer in the cache, or no block held
          LOGSIZE,      \* param.h: max data blocks in the on-disk log
          MAXOPBLOCKS,  \* param.h: blocks begin_op reserves for an operation
          nlog,         \* log.size, read from the superblock
          OpBlocks      \* most distinct blocks an operation really logs

ASSUME LogAssumption ==
    /\ None \notin Val \cup Block
    /\ IsFiniteSet(Proc)
    /\ LOGSIZE \in Nat
    /\ nlog \in Nat
    /\ MAXOPBLOCKS \in Nat \ {0}
    /\ OpBlocks \in 0 .. MAXOPBLOCKS

VARIABLES
    \* on disk
    disk,         \* home location of every block
    logarea,      \* the log blocks, logarea[i] at log.start + i
    hdr,          \* the header block: block numbers of a committed group
    \* in memory
    buf,          \* the buffer cache: contents of the cached blocks
    dirty,        \* blocks whose buffer has B_DIRTY
    lh,           \* log.lh: block numbers logged so far
    outstanding,  \* log.outstanding
    committing,   \* log.committing
    pc,           \* where each process is
    target,       \* the block whose buffer a process holds in log_write
    wrote,        \* blocks the current operation of a process has logged
    tail,         \* loop counter of write_log and install_trans
    boot,         \* progress of recover_from_log, "up" when done
    panicked      \* the message of a panic, or "none"

diskVars == <<disk, logarea, hdr>>
logVars  == <<lh, outstanding, committing>>
procVars == <<pc, target, wrote>>
vars == <<diskVars, buf, dirty, logVars, procVars, tail, boot, panicked>>

-----------------------------------------------------------------------------
Entries(s) == {s[i] : i \in 1 .. Len(s)}

\* bread(): a cached buffer, or the disk's contents.
bread(b) == IF buf[b] = None THEN disk[b] ELSE buf[b]

Running == boot = "up" /\ panicked = "none"

Held == {target[p] : p \in Proc} \ {None}

Goto(p, l) == pc' = [pc EXCEPT ![p] = l]

\* wakeup(&log) makes every sleeper in begin_op runnable, then p moves to l.
WakeupGoto(p, l) ==
    pc' = [q \in Proc |-> IF q = p THEN l
                          ELSE IF pc[q] = "asleep" THEN "woken" ELSE pc[q]]

Panic(msg) ==
    /\ panicked' = msg
    /\ UNCHANGED <<diskVars, buf, dirty, logVars, procVars, tail, boot>>

-----------------------------------------------------------------------------
Init ==
    /\ disk \in [Block -> Val]
    /\ \E zero \in Val : logarea = [i \in 1 .. LOGSIZE |-> zero]
    /\ hdr = <<>>
    /\ buf = [b \in Block |-> None]
    /\ dirty = {}
    /\ lh = <<>>
    /\ outstanding = 0
    /\ committing = FALSE
    /\ pc = [p \in Proc |-> "idle"]
    /\ target = [p \in Proc |-> None]
    /\ wrote = [p \in Proc |-> {}]
    /\ tail = 1
    /\ boot = "read_head"
    /\ panicked = "none"

\* Room for one more operation, as begin_op computes it.
NoSpace == Len(lh) + (outstanding + 1) * MAXOPBLOCKS > LOGSIZE

\* Mutant: an operation starts although a commit is in progress.
begin_op_during_commit(p) ==
    /\ Running
    /\ pc[p] \in {"idle", "woken"}
    /\ ~NoSpace
    /\ outstanding' = outstanding + 1
    /\ wrote' = [wrote EXCEPT ![p] = {}]
    /\ Goto(p, "op")
    /\ UNCHANGED <<diskVars, buf, dirty, lh, committing, target, tail, boot, panicked>>

\* begin_op(): a process that starts a call, or one that wakeup made runnable.
begin_op(p) ==
    /\ Running
    /\ pc[p] \in {"idle", "woken"}
    /\ IF committing \/ NoSpace
       THEN Goto(p, "asleep") /\ UNCHANGED <<outstanding, wrote>>
       ELSE /\ outstanding' = outstanding + 1
            /\ wrote' = [wrote EXCEPT ![p] = {}]
            /\ Goto(p, "op")
    /\ UNCHANGED <<diskVars, buf, dirty, lh, committing, target, tail, boot, panicked>>

\* The caller modifies the buffer it got from bread() and calls log_write(),
\* which tests log.lh.n and log.outstanding before it takes log.lock.
log_write(p, b, v) ==
    /\ Running
    /\ pc[p] = "op"
    /\ b \notin Held
    /\ Cardinality(wrote[p] \cup {b}) <= OpBlocks
    /\ IF Len(lh) >= LOGSIZE \/ Len(lh) >= nlog - 1
       THEN Panic("too_big")
       ELSE IF outstanding < 1
       THEN Panic("outside_trans")
       ELSE /\ buf' = [buf EXCEPT ![b] = v]
            /\ target' = [target EXCEPT ![p] = b]
            /\ Goto(p, "logging")
            /\ UNCHANGED <<diskVars, dirty, logVars, wrote, tail, boot, panicked>>

\* The part of log_write() under log.lock, then brelse(): absorption keeps
\* one entry for each block, B_DIRTY pins the buffer.
log_record(p) ==
    /\ Running
    /\ pc[p] = "logging"
    /\ lh' = IF target[p] \in Entries(lh) THEN lh ELSE Append(lh, target[p])
    /\ dirty' = dirty \cup {target[p]}
    /\ wrote' = [wrote EXCEPT ![p] = @ \cup {target[p]}]
    /\ target' = [target EXCEPT ![p] = None]
    /\ Goto(p, "op")
    /\ UNCHANGED <<diskVars, buf, outstanding, committing, tail, boot, panicked>>

\* The first critical section of end_op().
end_op(p) ==
    /\ Running
    /\ pc[p] = "op"
    /\ IF committing
       THEN Panic("committing")
       ELSE /\ outstanding' = outstanding - 1
            /\ committing' = (outstanding = 1)
            /\ IF outstanding = 1
               THEN Goto(p, "commit")
               ELSE WakeupGoto(p, "idle")
            /\ UNCHANGED <<diskVars, buf, dirty, lh, target, wrote, tail, boot, panicked>>

\* Mutant: the header is written before the log blocks.
commit_header_first(p) ==
    /\ Running
    /\ pc[p] = "commit"
    /\ tail' = 1
    /\ Goto(p, IF Len(lh) > 0 THEN "write_head" ELSE "committed")
    /\ UNCHANGED <<diskVars, buf, dirty, logVars, target, wrote, boot, panicked>>

\* commit() tests log.lh.n; an empty transaction writes nothing.
commit(p) ==
    /\ Running
    /\ pc[p] = "commit"
    /\ tail' = 1
    /\ Goto(p, IF Len(lh) > 0 THEN "write_log" ELSE "committed")
    /\ UNCHANGED <<diskVars, buf, dirty, logVars, target, wrote, boot, panicked>>

\* One iteration of write_log(): cache block to log block.
write_log(p) ==
    /\ Running
    /\ pc[p] = "write_log"
    /\ logarea' = [logarea EXCEPT ![tail] = bread(lh[tail])]
    /\ buf' = [buf EXCEPT ![lh[tail]] = bread(lh[tail])]
    /\ tail' = IF tail = Len(lh) THEN 1 ELSE tail + 1
    /\ Goto(p, IF tail = Len(lh) THEN "write_head" ELSE "write_log")
    /\ UNCHANGED <<disk, hdr, dirty, logVars, target, wrote, boot, panicked>>

\* The first write_head() of commit(): the transaction commits here.
write_head(p) ==
    /\ Running
    /\ pc[p] = "write_head"
    /\ hdr' = lh
    /\ Goto(p, "install_trans")
    /\ UNCHANGED <<disk, logarea, buf, dirty, logVars, target, wrote, tail, boot, panicked>>

\* One iteration of the loop of install_trans(), in commit() and in recovery:
\* log block to cache to home block; bwrite() clears B_DIRTY.
install_block ==
    /\ buf' = [buf EXCEPT ![lh[tail]] = logarea[tail]]
    /\ disk' = [disk EXCEPT ![lh[tail]] = logarea[tail]]
    /\ dirty' = dirty \ {lh[tail]}
    /\ UNCHANGED <<logarea, hdr, outstanding, committing, lh, target, wrote, panicked>>

install_trans(p) ==
    /\ Running
    /\ pc[p] = "install_trans"
    /\ install_block
    /\ tail' = IF tail = Len(lh) THEN 1 ELSE tail + 1
    /\ Goto(p, IF tail = Len(lh) THEN "clear" ELSE "install_trans")
    /\ UNCHANGED boot

\* Mutant: log.lh.n is not reset.
clear_keeps_lh(p) ==
    /\ Running
    /\ pc[p] = "clear"
    /\ hdr' = <<>>
    /\ Goto(p, "committed")
    /\ UNCHANGED <<disk, logarea, buf, dirty, logVars, target, wrote, tail, boot, panicked>>

\* log.lh.n = 0 and the second write_head() erase the transaction.
clear(p) ==
    /\ Running
    /\ pc[p] = "clear"
    /\ lh' = <<>>
    /\ hdr' = <<>>
    /\ Goto(p, "committed")
    /\ UNCHANGED <<disk, logarea, buf, dirty, outstanding, committing, target, wrote,
                   tail, boot, panicked>>

\* Mutant: nobody is woken after a commit.
end_commit_no_wakeup(p) ==
    /\ Running
    /\ pc[p] = "committed"
    /\ committing' = FALSE
    /\ Goto(p, "idle")
    /\ UNCHANGED <<diskVars, buf, dirty, lh, outstanding, target, wrote, tail, boot, panicked>>

\* The second critical section of end_op().
end_commit(p) ==
    /\ Running
    /\ pc[p] = "committed"
    /\ committing' = FALSE
    /\ WakeupGoto(p, "idle")
    /\ UNCHANGED <<diskVars, buf, dirty, lh, outstanding, target, wrote, tail, boot, panicked>>

\* bget() recycles a buffer that nobody holds and that is not B_DIRTY.
evict(b) ==
    /\ Running
    /\ buf[b] # None
    /\ b \notin dirty \cup Held
    /\ buf' = [buf EXCEPT ![b] = None]
    /\ UNCHANGED <<diskVars, dirty, logVars, procVars, tail, boot, panicked>>

-----------------------------------------------------------------------------
\* Power failure, or a reset after a panic: memory is lost.
Crash ==
    /\ buf' = [b \in Block |-> None]
    /\ dirty' = {}
    /\ lh' = <<>>
    /\ outstanding' = 0
    /\ committing' = FALSE
    /\ pc' = [p \in Proc |-> "idle"]
    /\ target' = [p \in Proc |-> None]
    /\ wrote' = [p \in Proc |-> {}]
    /\ tail' = 1
    /\ boot' = "read_head"
    /\ panicked' = "none"
    /\ UNCHANGED diskVars

\* initlog(): recover_from_log() reads the header ...
read_head ==
    /\ boot = "read_head"
    /\ lh' = hdr
    /\ tail' = 1
    /\ boot' = IF Len(hdr) > 0 THEN "install_trans" ELSE "clear"
    /\ UNCHANGED <<diskVars, buf, dirty, outstanding, committing, procVars, panicked>>

\* Mutant: the loop does not advance.
recover_install_stuck ==
    /\ boot = "install_trans"
    /\ install_block
    /\ UNCHANGED <<tail, boot, pc>>

\* ... installs what it lists ...
recover_install ==
    /\ boot = "install_trans"
    /\ install_block
    /\ tail' = IF tail = Len(lh) THEN 1 ELSE tail + 1
    /\ boot' = IF tail = Len(lh) THEN "clear" ELSE "install_trans"
    /\ UNCHANGED pc

\* ... and clears the log.
recover_clear ==
    /\ boot = "clear"
    /\ lh' = <<>>
    /\ hdr' = <<>>
    /\ boot' = "up"
    /\ UNCHANGED <<disk, logarea, buf, dirty, outstanding, committing, procVars, tail, panicked>>

Recover == read_head \/ recover_install \/ recover_clear

CommitStep(p) ==
    commit(p) \/ write_log(p) \/ write_head(p) \/ install_trans(p) \/ clear(p) \/ end_commit(p)

Next ==
    \/ \E p \in Proc : begin_op(p) \/ log_record(p) \/ end_op(p) \/ CommitStep(p)
    \/ \E p \in Proc, b \in Block, v \in Val : log_write(p, b, v)
    \/ \E b \in Block : evict(b)
    \/ Crash
    \/ Recover

Spec == Init /\ [][Next]_vars

(***************************************************************************)
(* A process inside a call keeps running and finishes it; nothing obliges  *)
(* a process to start one.  The scheduler of proc.c visits every runnable  *)
(* process in turn, so each of these steps is taken eventually.  end_op is *)
(* strongly fair because a call makes finitely many log_writes.            *)
(***************************************************************************)
Fairness ==
    /\ WF_vars(Recover)
    /\ \A p \in Proc :
        /\ WF_vars(pc[p] = "woken" /\ begin_op(p))
        /\ WF_vars(log_record(p))
        /\ SF_vars(end_op(p))
        /\ WF_vars(CommitStep(p))

FairSpec == Spec /\ Fairness

-----------------------------------------------------------------------------
PcState == {"idle", "asleep", "woken", "op", "logging", "commit", "write_log",
            "write_head", "install_trans", "clear", "committed"}

(* Type correctness of the log, the cache and the processes of log.c.      *)
TypeOK ==
    /\ disk \in [Block -> Val]
    /\ logarea \in [1 .. LOGSIZE -> Val]
    /\ hdr \in Seq(Block) /\ Len(hdr) <= LOGSIZE
    /\ buf \in [Block -> Val \cup {None}]
    /\ dirty \subseteq Block
    /\ lh \in Seq(Block) /\ Len(lh) <= LOGSIZE
    /\ outstanding \in 0 .. Cardinality(Proc)
    /\ committing \in BOOLEAN
    /\ pc \in [Proc -> PcState]
    /\ target \in [Proc -> Block \cup {None}]
    /\ wrote \in [Proc -> SUBSET Block]
    /\ tail \in 1 .. LOGSIZE + 1
    /\ boot \in {"read_head", "install_trans", "clear", "up"}
    /\ panicked \in {"none", "too_big", "outside_trans", "committing"}

Entry(s, b) == CHOOSE i \in 1 .. Len(s) : s[i] = b

\* What recovery would make of the disk: the header's blocks come from the log.
Durable == [b \in Block |-> IF b \in Entries(hdr) THEN logarea[Entry(hdr, b)] ELSE disk[b]]

Current == IF boot = "up" THEN [b \in Block |-> bread(b)] ELSE Durable

Active == {p \in Proc : pc[p] \in {"op", "logging"}}

(* log.c implements AtomicDisk: whatever the interleaving of begin_op,     *)
(* log_write, end_op and commit, and wherever a crash falls (in write_log, *)
(* between the two write_head calls, in recovery itself), the disk moves   *)
(* from one group of whole operations to the next at one instant.          *)
Abstract == INSTANCE AtomicDisk WITH
    durable <- Durable,
    current <- Current,
    active  <- Active,
    phase   <- IF committing THEN "committing" ELSE "open"

ImplementsAtomicDisk == Abstract!Spec

(* None of the panics of log_write and end_op is reached.                  *)
NoPanic == panicked = "none"

\* The log slots that running operations may still claim.
Unused == {t \in Proc \X (1 .. OpBlocks) :
               t[1] \in Active /\ t[2] > Cardinality(wrote[t[1]])}

(* begin_op's test keeps its promise: the slots in use, those the running  *)
(* operations may still claim, and the rest of their reservations fit in   *)
(* the log, although log_write tests log.lh.n before it takes log.lock.    *)
SpaceReserved ==
    Len(lh) + Cardinality(Unused) + outstanding * (MAXOPBLOCKS - OpBlocks) <= LOGSIZE

(* A change that log_write recorded is in a pinned buffer, so evicting     *)
(* buffers never loses it: a buffer that bget may recycle holds exactly    *)
(* what the disk holds.                                                    *)
EvictionLosesNothing ==
    boot = "up" =>
        \A b \in Block : buf[b] \notin {None, disk[b]} => b \in dirty \cup Held

(* commit() runs alone: while one process is in it, no operation is open   *)
(* (end_op's do_commit, begin_op's test of log.committing) and no other    *)
(* process commits.                                                        *)
Committing(p) == pc[p] \in {"commit", "write_log", "write_head", "install_trans",
                            "clear", "committed"}
CommitAlone ==
    \A p \in Proc : Committing(p) =>
        /\ outstanding = 0 /\ Active = {}
        /\ \A q \in Proc \ {p} : ~Committing(q)

(* No lost wakeup in begin_op: while a process sleeps on &log there is an  *)
(* operation or a commit in progress whose end_op will call wakeup(&log).  *)
SleeperHasWaker ==
    (\E p \in Proc : pc[p] = "asleep") => outstanding > 0 \/ committing

(* Write-ahead rule: a home block changes on disk only while the header    *)
(* lists it, that is between write_head and the erasing write_head.        *)
WriteAhead ==
    [][\A b \in Block : disk'[b] # disk[b] => b \in Entries(hdr)]_vars

(* A process that sleeps in begin_op is made runnable again.               *)
SleeperWakes == \A p \in Proc : pc[p] = "asleep" ~> pc[p] # "asleep"

(* Recovery ends: unless the machine crashes again and again, the file     *)
(* system comes up.                                                        *)
RecoveryEnds == []<>(boot = "up") \/ []<><<Crash>>_vars

-----------------------------------------------------------------------------
Distinct(s) == \A i, j \in 1 .. Len(s) : s[i] = s[j] => i = j

\* The log blocks 1 .. n hold what the cache holds for the logged blocks.
Copied(n) == \A i \in 1 .. n : logarea[i] = bread(lh[i])

\* The first n logged blocks have reached their home locations.
Installed(n) == \A i \in 1 .. n : disk[lh[i]] = logarea[i] /\ lh[i] \notin dirty

\* Before the commit point: nothing on disk, every logged block pinned.
Logging == hdr = <<>> /\ Entries(lh) \subseteq dirty

\* What each step of commit() relies on.
CommitInv(p) ==
    /\ pc[p] = "commit" => Logging
    /\ pc[p] = "write_log" => Logging /\ tail \in 1 .. Len(lh) /\ Copied(tail - 1)
    /\ pc[p] = "write_head" => Logging /\ tail = 1 /\ Len(lh) > 0 /\ Copied(Len(lh))
    /\ pc[p] = "install_trans" =>
        /\ hdr = lh /\ tail \in 1 .. Len(lh)
        /\ Copied(Len(lh)) /\ Installed(tail - 1)
        /\ \A i \in tail .. Len(lh) : lh[i] \in dirty
    /\ pc[p] = "clear" => hdr = lh /\ Copied(Len(lh)) /\ Installed(Len(lh))
    /\ pc[p] = "committed" => lh = <<>> /\ hdr = <<>>

\* What each step of recover_from_log() relies on.
RecoverInv ==
    /\ boot = "read_head" => lh = <<>>
    /\ boot = "install_trans" => lh = hdr /\ tail \in 1 .. Len(lh) /\ Installed(tail - 1)
    /\ boot = "clear" => lh = hdr /\ Installed(Len(lh))

\* What an operation has logged is in the log and within its bound.
WroteInv(p) ==
    /\ IsFiniteSet(wrote[p])
    /\ p \in Active => wrote[p] \subseteq Entries(lh)
    /\ p \in Active => Cardinality(wrote[p]) <= OpBlocks
    /\ pc[p] = "logging" => Cardinality(wrote[p] \cup {target[p]}) <= OpBlocks

\* Who is running what: operations, the one commit, the buffers held.
ProcInv ==
    /\ outstanding = Cardinality(Active)
    /\ committing <=> \E p \in Proc : Committing(p)
    /\ CommitAlone
    /\ \A p \in Proc : target[p] # None <=> pc[p] = "logging"
    /\ \A p, q \in Proc : target[p] = target[q] /\ target[p] # None => p = q
    /\ boot # "up" => \A p \in Proc : pc[p] = "idle"

\* Which buffers are pinned, and what the others hold.
CacheInv ==
    /\ dirty \subseteq Entries(lh)
    /\ boot # "up" => dirty = {}
    /\ \A b \in dirty \cup Held : buf[b] # None
    /\ \A b \in Block : buf[b] \notin {None, disk[b]} => b \in dirty \cup Held

\* Where the contents that count are, in each phase.
DiskInv ==
    /\ Distinct(lh) /\ Distinct(hdr)
    /\ boot = "up" /\ ~committing => Logging
    /\ \A p \in Proc : CommitInv(p)
    /\ RecoverInv

SpaceInv == SpaceReserved /\ \A p \in Proc : WroteInv(p)

(* The inductive invariant behind ImplementsAtomicDisk: in every phase of  *)
(* end_op's commit and of recover_from_log it says which of cache, log and *)
(* home location holds the contents that count.                            *)
LogInv == ProcInv /\ CacheInv /\ DiskInv /\ SpaceInv
=============================================================================
