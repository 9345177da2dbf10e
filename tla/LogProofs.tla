----------------------------- MODULE LogProofs ------------------------------
(***************************************************************************)
(* What log.c guarantees, for any number of processes, blocks and log      *)
(* slots.  First the other half of the proof that LogInv is inductive: the *)
(* disk in every phase of commit and recovery.                             *)
(***************************************************************************)
EXTENDS LogInduction

\* Time for the provers, in seconds: a goal that one gives up is tried again.
USE SMTT(60), SMTT(55), SMTT(50), SMTT(45), SMTT(40), SMTT(30), ZenonT(60)

\* A step of which commit and recovery see nothing, but for a commit that
\* starts.
LEMMA DiskFrame ==
    ASSUME Ind, UNCHANGED <<disk, logarea, hdr, lh, dirty, tail, boot>>,
           \A b \in Block : bread(b)' = bread(b),
           \A q \in Proc : Committing(q)' => pc'[q] = pc[q] \/ (pc'[q] = "commit" /\ Logging),
           boot = "up" /\ ~committing' => Logging
    PROVE  DiskInv'
<1>1. Logging' <=> Logging
  BY DEF Logging
<1> USE <1>1
<1>2. \A i \in 1 .. Len(lh) : bread(lh[i])' = bread(lh[i])
  BY LogSeqs
<1>3. ASSUME NEW n \in Int, n <= Len(lh), Copied(n) PROVE Copied(n)'
  BY <1>2, <1>3, LogSeqs DEF Copied
<1>4. ASSUME NEW q \in Proc PROVE CommitInv(q)'
  <2>1. CASE ~Committing(q)'
    BY <2>1 DEF CommitInv, Committing
  <2>2. CASE pc'[q] = "commit" /\ Logging
    BY <2>2 DEF CommitInv
  <2>3. CASE pc'[q] = pc[q]
    <3>1. CommitInv(q)
      BY DEF Ind, LogInv, DiskInv
    <3> USE <3>1
    <3>2. pc[q] = "write_log" => Copied(tail - 1)'
      BY <1>3, LogSeqs DEF CommitInv
    <3>3. pc[q] \in {"write_head", "install_trans", "clear"} => Copied(Len(lh))'
      BY <1>3, LogSeqs DEF CommitInv
    <3>. QED BY <2>3, <3>2, <3>3 DEF CommitInv, Installed
  <2>. QED BY <2>1, <2>2, <2>3
<1>5. RecoverInv'
  BY DEF Ind, LogInv, DiskInv, RecoverInv, Installed
<1>. QED BY <1>4, <1>5 DEF Ind, LogInv, DiskInv, Distinct

LEMMA DiskStep == ASSUME Ind, [Next]_vars PROVE DiskInv'
<1> USE DEF Goto, diskVars, logVars, procVars, Running
<1>0. TypeOK /\ ProcInv /\ CacheInv /\ DiskInv
  BY DEF Ind, LogInv
<1> USE <1>0
<1>1. ASSUME NEW p \in Proc, begin_op(p) PROVE DiskInv'
  <2> USE <1>1
  <2>1. UNCHANGED <<disk, logarea, hdr, lh, dirty, tail, boot>> /\ \A b \in Block : bread(b)' = bread(b)
    BY DEF begin_op, bread
  <2>2. \A q \in Proc : Committing(q)' => pc'[q] = pc[q]
    BY DEF begin_op, TypeOK, Committing
  <2>3. committing' = committing
    BY DEF begin_op
  <2>. QED BY <2>1, <2>2, <2>3, DiskFrame DEF DiskInv
<1>2. ASSUME NEW p \in Proc, log_record(p) PROVE DiskInv'
  <2> USE <1>2
  <2> DEFINE t == target[p]
  <2>1. ~committing /\ ~committing' /\ boot = "up" /\ t \in Block
    BY DEF log_record, ProcInv, CommitAlone, Active, TypeOK
  <2> USE <2>1
  <2>2. \A q \in Proc : ~Committing(q)'
    BY DEF log_record, TypeOK, ProcInv, Committing
  <2>3. UNCHANGED <<hdr, boot>> /\ dirty' = dirty \cup {t}
    BY DEF log_record
  <2>4. Entries(lh') = Entries(lh) \cup {t}
    BY LogSeqs, EntriesAppend DEF log_record
  <2>5. Distinct(lh')
    BY LogSeqs DEF log_record, DiskInv, Distinct, Entries
  <2>6. Logging'
    BY <2>3, <2>4 DEF DiskInv, Logging
  <2>. QED BY <2>2, <2>3, <2>5, <2>6 DEF DiskInv, Distinct, CommitInv, RecoverInv, Committing
<1>3. ASSUME NEW p \in Proc, end_op(p) PROVE DiskInv'
  <2> USE <1>3
  <2>1. UNCHANGED <<disk, logarea, hdr, lh, dirty, tail, boot>> /\ \A b \in Block : bread(b)' = bread(b)
    BY DEF end_op, Panic, bread
  <2>2. ~committing /\ boot = "up" /\ Logging
    BY DEF end_op, ProcInv, CommitAlone, Active, DiskInv
  <2>3. \A q \in Proc : Committing(q)' => pc'[q] = pc[q] \/ pc'[q] = "commit"
    BY DEF end_op, Panic, WakeupGoto, TypeOK, Committing
  <2>. QED BY <2>1, <2>2, <2>3, DiskFrame
<1>4. ASSUME NEW p \in Proc, commit(p) PROVE DiskInv'
  <2> USE <1>4
  <2>1. Logging /\ UNCHANGED <<disk, logarea, hdr, lh, dirty, buf, boot, committing>> /\ tail' = 1
    BY DEF commit, DiskInv, CommitInv
  <2>2. committing /\ boot = "up"
    BY DEF commit, ProcInv, Committing
  <2>3. Len(lh) = 0 => lh = <<>>
    BY LogSeqs
  <2>4. CommitInv(p)'
    BY <2>1, <2>3, LogSeqs DEF commit, CommitInv, Logging, Copied, TypeOK
  <2>5. ASSUME NEW q \in Proc, q # p PROVE CommitInv(q)'
    BY <2>5 DEF commit, ProcInv, CommitAlone, Committing, TypeOK, CommitInv
  <2>. QED BY <2>1, <2>2, <2>4, <2>5 DEF DiskInv, Distinct, RecoverInv
<1>5. ASSUME NEW p \in Proc, write_log(p) PROVE DiskInv'
  <2> USE <1>5
  <2> DEFINE x == lh[tail]
  <2>1. /\ tail \in 1 .. Len(lh) /\ Logging /\ x \in dirty /\ x \in Block
        /\ tail \in 1 .. LOGSIZE /\ Copied(tail - 1)
    BY LogSeqs, LogAssumption DEF write_log, DiskInv, CommitInv, Logging, Entries
  <2> USE <2>1
  <2>2. buf' = buf
    BY DEF write_log, bread, CacheInv, TypeOK
  <2>3. UNCHANGED <<disk, hdr, dirty, lh, committing, boot>>
    BY DEF write_log
  <2> USE <2>3
  <2>4. /\ logarea'[tail] = bread(x)
        /\ \A i \in 1 .. tail - 1 : logarea'[i] = logarea[i]
    BY LogAssumption DEF write_log, TypeOK
  <2>5. \A i \in 1 .. tail : logarea'[i] = bread(lh[i])'
    BY <2>2, <2>4, LogSeqs DEF Copied, bread
  <2>6. CommitInv(p)'
    <3>1. CASE tail = Len(lh)
      BY <2>5, <3>1, LogSeqs DEF write_log, CommitInv, Logging, Copied, TypeOK
    <3>2. CASE tail # Len(lh)
      BY <2>5, <3>2, LogSeqs DEF write_log, CommitInv, Logging, Copied, TypeOK
    <3>. QED BY <3>1, <3>2
  <2>7. ASSUME NEW q \in Proc, q # p PROVE CommitInv(q)'
    BY <2>7 DEF write_log, ProcInv, CommitAlone, Committing, TypeOK, CommitInv
  <2>8. committing /\ boot = "up"
    BY DEF write_log, ProcInv, Committing
  <2>. QED BY <2>6, <2>7, <2>8 DEF DiskInv, Distinct, RecoverInv
<1>6. ASSUME NEW p \in Proc, write_head(p) PROVE DiskInv'
  <2> USE <1>6
  <2>1. Logging /\ tail = 1 /\ Len(lh) > 0 /\ Copied(Len(lh))
    BY DEF write_head, DiskInv, CommitInv
  <2>2. UNCHANGED <<disk, logarea, lh, dirty, buf, tail, boot, committing>> /\ hdr' = lh
    BY DEF write_head
  <2>3. committing /\ boot = "up"
    BY DEF write_head, ProcInv, Committing
  <2>4. \A i \in 1 .. Len(lh) : lh[i] \in dirty
    BY <2>1 DEF Logging, Entries
  <2>5. CommitInv(p)'
    BY <2>1, <2>2, <2>4, LogSeqs DEF write_head, CommitInv, Copied, Installed, bread, TypeOK
  <2>6. ASSUME NEW q \in Proc, q # p PROVE CommitInv(q)'
    BY <2>6 DEF write_head, ProcInv, CommitAlone, Committing, TypeOK, CommitInv
  <2>. QED BY <2>2, <2>3, <2>5, <2>6 DEF DiskInv, Distinct, RecoverInv
<1>7. ASSUME NEW p \in Proc, install_trans(p) PROVE DiskInv'
  <2> USE <1>7
  <2> DEFINE x == lh[tail]
  <2>1. /\ tail \in 1 .. Len(lh) /\ x \in Block /\ lh = hdr
        /\ Copied(Len(lh)) /\ Installed(tail - 1)
        /\ \A i \in tail .. Len(lh) : lh[i] \in dirty
    BY LogSeqs DEF install_trans, DiskInv, CommitInv
  <2> USE <2>1
  <2>2. UNCHANGED <<logarea, lh, hdr, boot, committing>> /\ dirty' = dirty \ {x}
    BY DEF install_trans, install_block
  <2> USE <2>2
  <2>3. committing /\ boot = "up"
    BY DEF install_trans, ProcInv, Committing
  <2>4. /\ disk'[x] = logarea[tail] /\ \A b \in Block \ {x} : disk'[b] = disk[b]
        /\ buf'[x] = logarea[tail] /\ \A b \in Block \ {x} : buf'[b] = buf[b]
    BY DEF install_trans, install_block, TypeOK
  <2>5. \A i \in 1 .. Len(lh) : lh[i] \in Block /\ (lh[i] = x => i = tail)
    BY LogSeqs DEF DiskInv, Distinct
  <2> USE <2>5
  <2>6. \A i \in 1 .. tail : disk'[lh[i]] = logarea[i] /\ lh[i] \notin dirty'
    BY <2>4, LogSeqs DEF Installed
  <2>7. \A i \in tail + 1 .. Len(lh) : lh[i] \in dirty'
    BY LogSeqs
  <2>8. Copied(Len(lh))'
    BY <2>4, LogSeqs DEF Copied, bread
  <2>9. CommitInv(p)'
    <3>1. CASE tail = Len(lh)
      <4>1. pc'[p] = "clear"
        BY <3>1 DEF install_trans, TypeOK
      <4>. QED BY <2>6, <2>8, <3>1, <4>1 DEF CommitInv, Installed
    <3>2. CASE tail # Len(lh)
      <4>1. pc'[p] = "install_trans" /\ tail' = tail + 1 /\ tail' \in 1 .. Len(lh)
        BY <3>2, LogSeqs DEF install_trans, TypeOK
      <4>2. Installed(tail - 1)'
        BY <2>6, <4>1, LogSeqs DEF Installed
      <4>. QED BY <2>7, <2>8, <4>1, <4>2 DEF CommitInv
    <3>. QED BY <3>1, <3>2
  <2>10. ASSUME NEW q \in Proc, q # p PROVE CommitInv(q)'
    BY <2>10 DEF install_trans, ProcInv, CommitAlone, Committing, TypeOK, CommitInv
  <2>. QED BY <2>3, <2>9, <2>10 DEF DiskInv, Distinct, RecoverInv
<1>8. ASSUME NEW p \in Proc, clear(p) PROVE DiskInv'
  <2> USE <1>8
  <2>1. lh' = <<>> /\ hdr' = <<>> /\ UNCHANGED <<boot, committing>>
    BY DEF clear
  <2>2. committing /\ boot = "up"
    BY DEF clear, ProcInv, Committing
  <2>3. CommitInv(p)'
    BY <2>1 DEF clear, CommitInv, TypeOK
  <2>4. ASSUME NEW q \in Proc, q # p PROVE CommitInv(q)'
    BY <2>4 DEF clear, ProcInv, CommitAlone, Committing, TypeOK, CommitInv
  <2>. QED BY <2>1, <2>2, <2>3, <2>4 DEF DiskInv, Distinct, RecoverInv
<1>9. ASSUME NEW p \in Proc, end_commit(p) PROVE DiskInv'
  <2> USE <1>9
  <2>1. UNCHANGED <<disk, logarea, hdr, lh, dirty, tail, boot>> /\ \A b \in Block : bread(b)' = bread(b)
    BY DEF end_commit, bread
  <2>2. \A q \in Proc : Committing(q)' => pc'[q] = pc[q]
    BY DEF end_commit, WakeupGoto, TypeOK, Committing
  <2>3. Logging
    BY DEF end_commit, DiskInv, CommitInv, Logging, Entries
  <2>. QED BY <2>1, <2>2, <2>3, DiskFrame
<1>10. ASSUME NEW p \in Proc, NEW b \in Block, NEW v \in Val, log_write(p, b, v) PROVE DiskInv'
  <2>1. ~committing /\ UNCHANGED <<lh, hdr, dirty, committing, boot>> /\ boot = "up"
    BY <1>10, ZenonT(120) DEF log_write, Panic, ProcInv, CommitAlone, Active
  <2> USE <2>1
  <2>2. \A q \in Proc : ~Committing(q)
    BY DEF ProcInv
  <2>3. \A q \in Proc : ~Committing(q)'
    BY <1>10, <2>2 DEF log_write, Panic, Committing, TypeOK
  <2>4. \A q \in Proc : CommitInv(q)'
    BY <2>3 DEF CommitInv, Committing
  <2>5. RecoverInv'
    BY DEF RecoverInv
  <2>. QED BY <2>4, <2>5 DEF DiskInv, Distinct, Logging
<1>11. ASSUME NEW b \in Block, evict(b) PROVE DiskInv'
  <2>1. UNCHANGED <<disk, logarea, hdr, lh, dirty, tail, boot, committing, pc>>
    BY <1>11 DEF evict
  <2>2. \A x \in Block : bread(x)' = bread(x)
    BY <1>11 DEF evict, bread, CacheInv, TypeOK
  <2>. QED BY <2>1, <2>2, DiskFrame DEF DiskInv
<1>12. CASE Crash
  BY <1>12 DEF Crash, DiskInv, Distinct, CommitInv, RecoverInv
<1>13. CASE read_head
  <2> USE <1>13
  <2>1. \A q \in Proc : pc'[q] = "idle"
    BY ZenonT(120) DEF read_head, ProcInv
  <2>2. lh' = hdr /\ hdr' = hdr /\ tail' = 1 /\ boot' \in {"install_trans", "clear"}
    BY DEF read_head
  <2> USE <2>2
  <2>3. boot' = "install_trans" => tail' \in 1 .. Len(lh') /\ Installed(tail - 1)'
    BY LogSeqs DEF read_head, Installed
  <2>4. boot' = "clear" => Installed(Len(lh))'
    BY LogSeqs DEF read_head, Installed
  <2>5. RecoverInv'
    BY <2>3, <2>4 DEF RecoverInv
  <2>. QED BY <2>1, <2>5 DEF DiskInv, Distinct, CommitInv
<1>14. CASE recover_install
  <2> USE <1>14
  <2> DEFINE x == lh[tail]
  <2>1. tail \in 1 .. Len(lh) /\ x \in Block /\ lh = hdr /\ Installed(tail - 1)
    BY LogSeqs DEF recover_install, DiskInv, RecoverInv
  <2> USE <2>1
  <2>2. dirty' = {} /\ UNCHANGED <<logarea, lh, hdr, pc>> /\ boot' \in {"install_trans", "clear"}
    BY DEF recover_install, install_block, CacheInv
  <2> USE <2>2
  <2>3. disk'[x] = logarea[tail] /\ \A b \in Block \ {x} : disk'[b] = disk[b]
    BY DEF recover_install, install_block, TypeOK
  <2>4. \A i \in 1 .. tail - 1 : lh[i] # x /\ lh[i] \in Block
    BY LogSeqs DEF DiskInv, Distinct
  <2>5. \A i \in 1 .. tail : disk'[lh[i]] = logarea[i]
    BY <2>3, <2>4, LogSeqs DEF Installed
  <2>6. RecoverInv'
    <3>1. CASE tail = Len(lh)
      BY <2>5, <3>1 DEF recover_install, RecoverInv, Installed
    <3>2. CASE tail # Len(lh)
      BY <2>5, <3>2, LogSeqs DEF recover_install, RecoverInv, Installed
    <3>. QED BY <3>1, <3>2
  <2>7. \A q \in Proc : CommitInv(q)'
    BY DEF recover_install, ProcInv, CommitInv
  <2>. QED BY <2>6, <2>7 DEF DiskInv, Distinct
<1>15. CASE recover_clear
  <2>1. lh' = <<>> /\ hdr' = <<>> /\ boot' = "up"
    BY <1>15 DEF recover_clear
  <2>2. \A q \in Proc : CommitInv(q)'
    BY <1>15, ZenonT(120) DEF recover_clear, ProcInv, CommitInv
  <2>. QED BY <2>1, <2>2 DEF DiskInv, Distinct, RecoverInv, Logging, Entries
<1>16. CASE UNCHANGED vars
  <2>1. UNCHANGED <<disk, logarea, hdr, lh, dirty, tail, boot, committing, pc, buf>>
    BY <1>16 DEF vars
  <2>. QED BY <2>1, DiskFrame DEF DiskInv, bread
<1>. QED
  BY <1>1, <1>2, <1>3, <1>4, <1>5, <1>6, <1>7, <1>8, <1>9, <1>10, <1>11, <1>12, <1>13, <1>14, <1>15, <1>16 DEF Next, CommitStep, Recover

(* LogInv, together with TypeOK, is inductive.                             *)
LEMMA IndStep == Ind /\ [Next]_vars => Ind'
<1> SUFFICES ASSUME Ind, [Next]_vars PROVE Ind'
  OBVIOUS
<1>1. SpaceInv'
  BY SpaceStep, WroteStep DEF SpaceInv
<1>. QED BY <1>1, TypeStep, ProcStep, CacheStep, DiskStep DEF Ind, LogInv

-----------------------------------------------------------------------------
(* For any number of processes, blocks and log slots, the variables of the *)
(* log keep their types; in particular log.lh.n never exceeds LOGSIZE, so  *)
(* log_write never writes past lh.block[].                                 *)
THEOREM LogTypeOK == Spec => []TypeOK
<1>1. Ind => TypeOK
  BY DEF Ind
<1>. QED BY <1>1, InitInd, IndStep, PTL DEF Spec

(* The inductive invariant of commit and recovery holds in every reachable *)
(* state of log.c, crashes included.                                       *)
THEOREM LogInvariant == Spec => []LogInv
<1>1. Ind => LogInv
  BY DEF Ind
<1>. QED BY <1>1, InitInd, IndStep, PTL DEF Spec

(* begin_op reserves enough: the slots used and those still claimable      *)
(* never exceed LOGSIZE.                                                   *)
THEOREM LogSpaceReserved == Spec => []SpaceReserved
<1>1. Ind => SpaceReserved
  BY DEF Ind, LogInv, SpaceInv
<1>. QED BY <1>1, InitInd, IndStep, PTL DEF Spec

(* No panic of log_write or end_op is reached, provided every operation    *)
(* logs fewer blocks than begin_op reserves for it, by enough to make up   *)
(* for the slot that log.size - 1 leaves out.  With nlog = LOGSIZE, the    *)
(* value mkfs.c writes, an operation may log MAXOPBLOCKS - 2 blocks.       *)
THEOREM LogNoPanic ==
    ASSUME OpBlocks < MAXOPBLOCKS, LOGSIZE - (MAXOPBLOCKS - OpBlocks) < nlog - 1
    PROVE  Spec => []NoPanic
<1>1. ASSUME Ind, Active # {}
      PROVE  outstanding >= 1 /\ ~committing /\ Len(lh) <= LOGSIZE - (MAXOPBLOCKS - OpBlocks)
  <2> USE <1>1
  <2> DEFINE k == outstanding - 1
             d == MAXOPBLOCKS - OpBlocks
             u == Cardinality(Unused)
  <2>1. outstanding = k + 1 /\ k \in Nat
    BY ActiveFinite, FS_EmptySet DEF Ind, LogInv, ProcInv
  <2> USE <2>1
  <2>2. ~committing
    BY DEF Ind, LogInv, ProcInv, CommitAlone
  <2>3. (k + 1) * d = k * d + d /\ k * d \in Nat /\ d \in Nat
    BY LogAssumption, Products
  <2>4. Len(lh) + u + (k + 1) * d <= LOGSIZE
    BY ZenonT(120) DEF Ind, LogInv, SpaceInv, SpaceReserved
  <2>5. u \in Nat /\ Len(lh) \in Nat
    BY UnusedFinite, LogSeqs
  <2>6. Len(lh) <= LOGSIZE - d
    <3> HIDE DEF k, d, u
    <3>. QED BY <2>3, <2>4, <2>5, LogAssumption
  <2>. QED BY <2>2, <2>6
<1>2. Ind /\ NoPanic /\ [Next]_vars => NoPanic'
  <2> SUFFICES ASSUME Ind, NoPanic, [Next]_vars PROVE NoPanic'
    OBVIOUS
  <2>1. ASSUME NEW p \in Proc, NEW b \in Block, NEW v \in Val, log_write(p, b, v)
        PROVE  NoPanic'
    <3>1. Active # {}
      BY <2>1 DEF log_write, Active
    <3>2. ~(Len(lh) >= LOGSIZE \/ Len(lh) >= nlog - 1) /\ ~(outstanding < 1)
      BY <3>1, <1>1, LogSeqs, LogAssumption, ActiveFinite DEF Ind, LogInv, ProcInv
    <3>. QED BY <2>1, <3>2 DEF log_write, NoPanic
  <2>2. ASSUME NEW p \in Proc, end_op(p) PROVE NoPanic'
    <3>1. Active # {}
      BY <2>2 DEF end_op, Active
    <3>. QED BY <1>1, <2>2, <3>1 DEF end_op, NoPanic
  <2>3. ASSUME NEW p \in Proc, begin_op(p) \/ log_record(p) \/ CommitStep(p)
        PROVE  NoPanic'
    BY <2>3 DEF NoPanic, begin_op, log_record, CommitStep, commit, write_log, write_head,
                install_trans, install_block, clear, end_commit
  <2>4. ASSUME NEW b \in Block, evict(b) PROVE NoPanic'
    BY <2>4 DEF evict, NoPanic
  <2>5. CASE Crash \/ Recover
    BY <2>5 DEF Crash, Recover, read_head, recover_install, install_block, recover_clear, NoPanic
  <2>6. CASE UNCHANGED vars
    BY <2>6 DEF vars, NoPanic
  <2>. QED BY <2>1, <2>2, <2>3, <2>4, <2>5, <2>6 DEF Next
<1>3. Init => NoPanic
  BY DEF Init, NoPanic
<1>. QED BY <1>2, <1>3, InitInd, IndStep, PTL DEF Spec

-----------------------------------------------------------------------------
LEMMA EntryUnique ==
    ASSUME NEW s, Distinct(s), NEW i \in 1 .. Len(s)
    PROVE  s[i] \in Entries(s) /\ Entry(s, s[i]) = i
BY DEF Distinct, Entry, Entries

\* With an empty header the durable contents are those of the disk.
LEMMA DurableEmpty == ASSUME Ind, hdr = <<>> PROVE Durable = disk
<1>1. Entries(hdr) = {}
  BY DEF Entries
<1>2. disk \in [Block -> Val]
  BY DEF Ind, TypeOK
<1>. QED BY <1>1, <1>2 DEF Durable

LEMMA DurableEmptyNext == ASSUME Ind', hdr' = <<>> PROVE Durable' = disk'
<1>1. Entries(hdr') = {}
  BY DEF Entries
<1>2. disk' \in [Block -> Val]
  BY DEF Ind, TypeOK
<1>. QED BY <1>1, <1>2 DEF Durable

\* Once everything is installed the log and the home locations agree.
LEMMA DurableInstalled ==
    ASSUME Ind, hdr = lh, Installed(Len(lh)) PROVE Durable = disk
<1>1. ASSUME NEW b \in Entries(hdr) PROVE logarea[Entry(hdr, b)] = disk[b]
  <2>1. PICK i \in 1 .. Len(hdr) : b = hdr[i]
    BY <1>1 DEF Entries
  <2>2. Entry(hdr, b) = i
    BY <2>1, EntryUnique DEF Ind, LogInv, DiskInv
  <2>. QED BY <2>1, <2>2 DEF Installed
<1>. QED BY <1>1 DEF Ind, TypeOK, Durable

\* Writing the home location of a block the header lists changes nothing.
LEMMA DurableInstall ==
    ASSUME Ind, UNCHANGED <<hdr, logarea>>, NEW x \in Entries(hdr),
           \A b \in Block \ {x} : disk'[b] = disk[b]
    PROVE  Durable' = Durable
BY DEF Durable

-----------------------------------------------------------------------------
(***************************************************************************)
(* Each step of Log is a step of AtomicDisk or leaves its state alone.     *)
(***************************************************************************)
AbstractStep == [Abstract!Next]_(Abstract!vars)

LEMMA Stutter ==
    ASSUME UNCHANGED <<Durable, Current, Active, committing>> PROVE AbstractStep
BY DEF AbstractStep, Abstract!vars

\* A step that changes neither the disk nor what bread() returns.
LEMMA SameContents ==
    ASSUME UNCHANGED <<disk, logarea, hdr, boot>>, \A b \in Block : bread(b)' = bread(b)
    PROVE  UNCHANGED <<Durable, Current>>
<1>1. UNCHANGED Durable
  BY DEF Durable
<1>2. [b \in Block |-> bread(b)]' = [b \in Block |-> bread(b)]
  OBVIOUS
<1>. QED BY <1>1, <1>2 DEF Current

LEMMA InitRefines == ASSUME Init, Ind PROVE Abstract!Init
<1>1. Durable = disk /\ Current = Durable
  BY DurableEmpty DEF Init, Current
<1>2. Durable \in [Block -> Val]
  BY <1>1 DEF Init
<1>3. Active = {} /\ ~committing
  BY DEF Init, Active
<1>. QED BY <1>1, <1>2, <1>3 DEF Abstract!Init

LEMMA StepRefines == ASSUME Ind, Ind', [Next]_vars PROVE AbstractStep
<1> USE DEF Goto, diskVars, logVars, procVars, Running
<1>0. TypeOK /\ ProcInv /\ CacheInv /\ DiskInv
  BY DEF Ind, LogInv
<1> USE <1>0
<1>1. ASSUME NEW p \in Proc, begin_op(p) PROVE AbstractStep
  <2> USE <1>1
  <2>1. UNCHANGED <<Durable, Current, committing>>
    BY SameContents DEF begin_op, bread
  <2>2. CASE committing \/ NoSpace
    <3>1. Active' = Active
      BY <2>2 DEF begin_op, TypeOK, Active
    <3>. QED BY <2>1, <3>1, Stutter
  <2>3. CASE ~(committing \/ NoSpace)
    <3>1. Active' = Active \cup {p} /\ p \notin Active /\ ~committing
      BY <2>3 DEF begin_op, TypeOK, Active
    <3>2. Abstract!Begin(p)
      BY <2>1, <3>1 DEF Abstract!Begin
    <3>. QED BY <3>2 DEF AbstractStep, Abstract!Next
  <2>. QED BY <2>2, <2>3
<1>2. ASSUME NEW p \in Proc, log_record(p) PROVE AbstractStep
  <2>1. UNCHANGED <<Durable, Current, committing>>
    BY <1>2, SameContents DEF log_record, bread
  <2>2. Active' = Active
    BY <1>2 DEF log_record, TypeOK, Active
  <2>. QED BY <2>1, <2>2, Stutter
<1>3. ASSUME NEW p \in Proc, end_op(p) PROVE AbstractStep
  <2> USE <1>3
  <2>1. UNCHANGED <<Durable, Current>>
    BY SameContents DEF end_op, Panic, bread
  <2>2. p \in Active /\ ~committing
    BY DEF end_op, ProcInv, CommitAlone, Active
  <2> USE <2>2
  <2>3. Active' = Active \ {p}
    BY DEF end_op, WakeupGoto, TypeOK, Active
  <2>4. outstanding = 1 <=> Active = {p}
    BY ActiveFinite, FS_Singleton DEF ProcInv
  <2>5. committing' = (Active = {p})
    BY <2>4 DEF end_op
  <2>6. Abstract!End(p)
    BY ZenonT(120), <2>1, <2>3, <2>5 DEF Abstract!End
  <2>. QED BY <2>6 DEF AbstractStep, Abstract!Next
<1>4. ASSUME NEW p \in Proc, commit(p) PROVE AbstractStep
  <2>1. UNCHANGED <<Durable, Current, committing>>
    BY <1>4, SameContents DEF commit, bread
  <2>2. Active' = Active
    BY <1>4 DEF commit, TypeOK, Active
  <2>. QED BY <2>1, <2>2, Stutter
<1>5. ASSUME NEW p \in Proc, write_log(p) PROVE AbstractStep
  <2>1. hdr = <<>> /\ hdr' = <<>> /\ disk' = disk /\ boot' = boot /\ committing' = committing
    BY <1>5 DEF write_log, DiskInv, CommitInv, Logging
  <2>2. Durable' = Durable
    <3>1. Entries(hdr) = {}
      BY <2>1 DEF Entries
    <3>. QED BY <2>1, <3>1 DEF Durable
  <2>3. \A b \in Block : bread(b)' = bread(b)
    <3>1. DOMAIN buf = Block /\ \A b \in Block : disk[b] # None
      BY LogAssumption DEF TypeOK
    <3>. QED BY <1>5, <3>1 DEF write_log, bread
  <2>4. Current' = Current
    BY <1>5, <2>1, <2>3 DEF write_log, Current
  <2>5. Active' = Active
    BY <1>5 DEF write_log, TypeOK, Active
  <2>. QED BY <2>1, <2>2, <2>4, <2>5, Stutter
<1>6. ASSUME NEW p \in Proc, write_head(p) PROVE AbstractStep
  <2> USE <1>6
  <2>1. Logging /\ Copied(Len(lh)) /\ boot = "up" /\ Held = {}
    BY NoneHeld DEF write_head, DiskInv, CommitInv, Committing
  <2> USE <2>1
  <2>2. UNCHANGED <<disk, logarea, lh, buf, boot, committing>> /\ hdr' = lh /\ committing
    BY DEF write_head, ProcInv, Committing
  <2> USE <2>2
  <2>3. Active' = Active
    BY DEF write_head, TypeOK, Active
  <2>4. ASSUME NEW b \in Block
        PROVE  (IF b \in Entries(lh) THEN logarea[Entry(lh, b)] ELSE disk[b]) = bread(b)
    <3>1. CASE b \in Entries(lh)
      <4>1. PICK i \in 1 .. Len(lh) : b = lh[i]
        BY <3>1 DEF Entries
      <4>2. Entry(lh, b) = i
        BY <4>1, EntryUnique DEF DiskInv
      <4>. QED BY <3>1, <4>1, <4>2 DEF Copied
    <3>2. CASE b \notin Entries(lh)
      BY <3>2 DEF CacheInv, bread
    <3>. QED BY <3>1, <3>2
  <2>5. Durable' = [b \in Block |-> bread(b)]
    BY <2>4 DEF Durable
  <2>6. Current = [b \in Block |-> bread(b)] /\ Current' = Current
    BY DEF Current, bread
  <2>7. Abstract!Commit
    BY <2>3, <2>5, <2>6 DEF Abstract!Commit
  <2>. QED BY <2>7 DEF AbstractStep, Abstract!Next
<1>7. ASSUME NEW p \in Proc, install_trans(p) PROVE AbstractStep
  <2> USE <1>7
  <2> DEFINE x == lh[tail]
  <2>1. hdr = lh /\ tail \in 1 .. Len(lh) /\ Copied(Len(lh)) /\ x \in Block /\ x \in Entries(hdr)
    BY LogSeqs DEF install_trans, DiskInv, CommitInv, Entries
  <2>2. Durable' = Durable
    BY <2>1, DurableInstall DEF install_trans, install_block, TypeOK
  <2>3. \A b \in Block : bread(b)' = bread(b)
    BY <2>1, LogAssumption DEF install_trans, install_block, TypeOK, bread, Copied
  <2>4. Current' = Current
    BY <2>3 DEF install_trans, Current
  <2>5. Active' = Active /\ committing' = committing
    BY DEF install_trans, install_block, TypeOK, Active
  <2>. QED BY <2>2, <2>4, <2>5, Stutter
<1>8. ASSUME NEW p \in Proc, clear(p) PROVE AbstractStep
  <2> USE <1>8
  <2>1. Durable = disk
    BY DurableInstalled DEF clear, DiskInv, CommitInv
  <2>2. Durable' = disk'
    BY DurableEmptyNext DEF clear
  <2>3. disk' = disk /\ committing' = committing /\ Current' = Current
    BY DEF clear, Current, bread
  <2>4. Active' = Active
    BY DEF clear, TypeOK, Active
  <2>. QED BY <2>1, <2>2, <2>3, <2>4, Stutter
<1>9. ASSUME NEW p \in Proc, end_commit(p) PROVE AbstractStep
  <2> USE <1>9
  <2>1. UNCHANGED <<Durable, Current>>
    BY SameContents DEF end_commit, bread
  <2>2. hdr = <<>> /\ lh = <<>> /\ committing /\ ~committing' /\ boot = "up"
    BY ZenonT(120) DEF end_commit, DiskInv, CommitInv, ProcInv, Committing
  <2> USE <2>2
  <2>3. Held = {} /\ dirty = {}
    <3>1. pc[p] = "committed" /\ Active = {}
      BY DEF end_commit, ProcInv, CommitAlone, Committing
    <3>2. \A q \in Proc : pc[q] # "logging"
      BY <3>1 DEF Active
    <3>3. Held = {}
      BY <3>2 DEF ProcInv, Held
    <3>4. dirty = {}
      BY DEF CacheInv, Entries
    <3>. QED BY <3>3, <3>4
  <2>4. \A b \in Block : bread(b) = disk[b]
    BY <2>3 DEF CacheInv, bread
  <2>5. Current = Durable
    BY <2>4, DurableEmpty DEF Current, TypeOK
  <2>6. Active' = Active
    BY DEF end_commit, WakeupGoto, TypeOK, Active
  <2>7. Abstract!Return
    BY <2>1, <2>5, <2>6 DEF Abstract!Return
  <2>. QED BY <2>7 DEF AbstractStep, Abstract!Next
<1>10. ASSUME NEW p \in Proc, NEW b \in Block, NEW v \in Val, log_write(p, b, v)
       PROVE  AbstractStep
  <2> USE <1>10
  <2>1. Active' = Active /\ committing' = committing
    BY DEF log_write, Panic, TypeOK, Active
  <2>2. Durable' = Durable
    BY DEF log_write, Panic, Durable
  <2> USE <2>2
  <2>3. CASE buf' = buf
    <3>1. Current' = Current
      BY <2>3 DEF log_write, Panic, Current, bread
    <3>. QED BY <2>1, <3>1, Stutter
  <2>4. CASE buf' = [buf EXCEPT ![b] = v]
    <3>1. boot = "up" /\ boot' = "up" /\ disk' = disk /\ p \in Active
      BY DEF log_write, Panic, Active
    <3> USE <3>1
    <3>2. \A x \in Block : bread(x)' = IF x = b THEN v ELSE bread(x)
      BY <2>4, LogAssumption DEF bread, TypeOK
    <3>3. Current' = [Current EXCEPT ![b] = v]
      BY ZenonT(120), <3>2 DEF Current
    <3>4. Abstract!Write(p, b, v)
      BY <2>1, <3>3 DEF Abstract!Write
    <3>. QED BY <3>4 DEF AbstractStep, Abstract!Next
  <2>. QED BY <2>3, <2>4 DEF log_write, Panic
<1>11. ASSUME NEW b \in Block, evict(b) PROVE AbstractStep
  <2> USE <1>11
  <2>1. \A x \in Block : bread(x)' = bread(x)
    BY DEF evict, bread, CacheInv, TypeOK
  <2>2. UNCHANGED <<Durable, Current>>
    BY <2>1, SameContents DEF evict
  <2>. QED BY <2>2, Stutter DEF evict, Active
<1>12. CASE Crash
  <2>1. Durable' = Durable /\ boot' # "up"
    BY <1>12 DEF Crash, Durable
  <2>2. Current' = Durable
    BY <2>1 DEF Current
  <2>3. Active' = {} /\ ~committing'
    BY <1>12 DEF Crash, Active
  <2>4. Abstract!Crash
    BY <2>1, <2>2, <2>3 DEF Abstract!Crash
  <2>. QED BY <2>4 DEF AbstractStep, Abstract!Next
<1>13. CASE read_head
  <2> USE <1>13
  <2>1. Durable' = Durable
    BY DEF read_head, Durable
  <2>2. Current' = Durable' /\ Current = Durable
    BY DEF read_head, Current
  <2>. QED BY <2>1, <2>2, Stutter DEF read_head, Active
<1>14. CASE recover_install
  <2> USE <1>14
  <2> DEFINE x == lh[tail]
  <2>1. hdr = lh /\ tail \in 1 .. Len(lh) /\ x \in Block /\ x \in Entries(hdr)
    BY LogSeqs DEF recover_install, DiskInv, RecoverInv, Entries
  <2>2. Durable' = Durable
    BY <2>1, DurableInstall DEF recover_install, install_block, TypeOK
  <2>3. Current' = Durable' /\ Current = Durable
    BY DEF recover_install, Current
  <2>. QED BY <2>2, <2>3, Stutter DEF recover_install, install_block, Active
<1>15. CASE recover_clear
  <2> USE <1>15
  <2>1. Durable = disk /\ Current = Durable
    BY DurableInstalled DEF recover_clear, DiskInv, RecoverInv, Current
  <2>2. Durable' = disk' /\ disk' = disk
    BY DurableEmptyNext DEF recover_clear
  <2>3. Held = {} /\ dirty = {}
    BY DEF recover_clear, ProcInv, Held, CacheInv
  <2>4. \A b \in Block : bread(b)' = disk[b]
    BY <2>3 DEF recover_clear, CacheInv, bread
  <2>5. Current' = disk
    BY <2>4 DEF recover_clear, Current, TypeOK
  <2>. QED BY <2>1, <2>2, <2>5, Stutter DEF recover_clear, Active
<1>16. CASE UNCHANGED vars
  <2>1. UNCHANGED <<Durable, Current>>
    BY <1>16, SameContents DEF vars, bread
  <2>. QED BY <1>16, <2>1, Stutter DEF vars, Active
<1>. QED
  BY <1>1, <1>2, <1>3, <1>4, <1>5, <1>6, <1>7, <1>8, <1>9, <1>10, <1>11, <1>12, <1>13,
     <1>14, <1>15, <1>16 DEF Next, CommitStep, Recover

(* log.c implements AtomicDisk: for any number of processes, blocks and    *)
(* log slots, and wherever crashes fall, groups of operations reach the    *)
(* disk whole, and the end_op that commits returns only when they have.    *)
THEOREM LogRefinesAtomicDisk == Spec => ImplementsAtomicDisk
<1>1. Init => Abstract!Init
  BY InitInd, InitRefines
<1>2. Ind /\ Ind' /\ [Next]_vars => [Abstract!Next]_(Abstract!vars)
  BY StepRefines DEF AbstractStep
<1>. QED BY <1>1, <1>2, InitInd, IndStep, PTL DEF Spec, ImplementsAtomicDisk, Abstract!Spec

-----------------------------------------------------------------------------
(* Evicting buffers never loses what log_write recorded: what bget() may   *)
(* recycle holds what the disk holds.                                      *)
THEOREM LogEvictionLosesNothing == Spec => []EvictionLosesNothing
<1>1. Ind => EvictionLosesNothing
  BY DEF Ind, LogInv, CacheInv, EvictionLosesNothing
<1>. QED BY <1>1, InitInd, IndStep, PTL DEF Spec

\* Between groups of operations the log is empty.
IdleEmpty == boot = "up" /\ outstanding = 0 /\ ~committing => lh = <<>>

\* An open operation counts.
LEMMA ActiveCounts ==
    ASSUME Ind, NEW p \in Proc, pc[p] \in {"op", "logging"}
    PROVE  outstanding \in Nat \ {0}
<1>1. Active # {}
  BY DEF Active
<1>. QED BY <1>1, ActiveFinite, FS_EmptySet DEF Ind, LogInv, ProcInv

\* Every step keeps the log empty between groups.
LEMMA IdleEmptyStep == ASSUME Ind, IdleEmpty, [Next]_vars PROVE IdleEmpty'
<1>0. outstanding \in Nat
  BY ActiveFinite DEF Ind, LogInv, ProcInv
<1>1. ASSUME NEW p \in Proc, begin_op(p) PROVE IdleEmpty'
  BY <1>0, <1>1 DEF begin_op, IdleEmpty
<1>2. ASSUME NEW p \in Proc, log_record(p) PROVE IdleEmpty'
  BY <1>2, ActiveCounts DEF log_record, IdleEmpty
<1>3. ASSUME NEW p \in Proc, end_op(p) PROVE IdleEmpty'
  <2> USE <1>3
  <2>1. outstanding \in Nat \ {0}
    BY ActiveCounts DEF end_op
  <2>2. CASE committing
    BY <2>2 DEF end_op, Panic, logVars, IdleEmpty
  <2>3. CASE ~committing /\ outstanding = 1
    BY ZenonT(120), <2>3 DEF end_op, IdleEmpty
  <2>4. CASE ~committing /\ outstanding # 1
    BY <2>1, <2>4 DEF end_op, IdleEmpty
  <2>. QED BY <2>2, <2>3, <2>4
<1>4. ASSUME NEW p \in Proc, CommitStep(p) PROVE IdleEmpty'
  <2>1. committing
    BY <1>4 DEF CommitStep, commit, write_log, write_head, install_trans, clear, end_commit,
                Ind, LogInv, ProcInv, Committing
  <2>2. CASE commit(p) \/ write_log(p) \/ write_head(p) \/ install_trans(p) \/ clear(p)
    BY ZenonT(120), <2>1, <2>2 DEF commit, write_log, write_head, install_trans, install_block, clear,
                      logVars, IdleEmpty
  <2>3. CASE end_commit(p)
    BY <2>3 DEF end_commit, IdleEmpty, Ind, LogInv, DiskInv, CommitInv
  <2>. QED BY <1>4, <2>2, <2>3 DEF CommitStep
<1>5. ASSUME NEW p \in Proc, NEW b \in Block, NEW v \in Val, log_write(p, b, v)
      PROVE  IdleEmpty'
  BY <1>5, ZenonT(120) DEF log_write, Panic, logVars, IdleEmpty
<1>6. ASSUME NEW b \in Block, evict(b) PROVE IdleEmpty'
  BY <1>6 DEF evict, logVars, IdleEmpty
<1>7. CASE Crash \/ Recover
  BY <1>7 DEF Crash, Recover, read_head, recover_install, recover_clear, IdleEmpty
<1>8. CASE UNCHANGED vars
  BY <1>8 DEF vars, logVars, IdleEmpty
<1>. QED BY <1>1, <1>2, <1>3, <1>4, <1>5, <1>6, <1>7, <1>8 DEF Next

\* Every step leaves somebody to wake whoever sleeps on &log.
LEMMA SleeperStep ==
    ASSUME MAXOPBLOCKS <= LOGSIZE, Ind, IdleEmpty, SleeperHasWaker, [Next]_vars
    PROVE  SleeperHasWaker'
<1>0. outstanding \in Nat /\ pc \in [Proc -> PcState]
  BY ActiveFinite DEF Ind, TypeOK, LogInv, ProcInv
<1> USE <1>0
<1>1. ASSUME NEW p \in Proc, begin_op(p) PROVE SleeperHasWaker'
  <2> USE <1>1
  <2>1. CASE committing \/ NoSpace
    <3>1. UNCHANGED <<outstanding, committing>>
      BY <2>1 DEF begin_op
    <3>2. SUFFICES ASSUME outstanding = 0, ~committing PROVE FALSE
      BY <3>1 DEF SleeperHasWaker
    <3> USE <3>2
    <3>3. lh = <<>>
      BY DEF begin_op, Running, IdleEmpty
    <3>4. Len(lh) + (outstanding + 1) * MAXOPBLOCKS = MAXOPBLOCKS
      BY <3>3, LogAssumption
    <3>. QED BY <2>1, <3>4, LogAssumption DEF NoSpace
  <2>2. CASE ~(committing \/ NoSpace)
    BY <2>2 DEF begin_op, SleeperHasWaker
  <2>. QED BY <2>1, <2>2
<1>2. ASSUME NEW p \in Proc, log_record(p) PROVE SleeperHasWaker'
  BY <1>2 DEF log_record, Goto, SleeperHasWaker
<1>3. ASSUME NEW p \in Proc, end_op(p) PROVE SleeperHasWaker'
  <2> USE <1>3
  <2>1. CASE committing
    BY <2>1 DEF end_op, Panic, logVars, procVars, SleeperHasWaker
  <2>2. CASE ~committing /\ outstanding = 1
    BY ZenonT(120), <2>2 DEF end_op, SleeperHasWaker
  <2>3. CASE ~committing /\ outstanding # 1
    BY <2>3 DEF end_op, WakeupGoto, SleeperHasWaker
  <2>. QED BY <2>1, <2>2, <2>3
<1>4. ASSUME NEW p \in Proc, CommitStep(p) PROVE SleeperHasWaker'
  <2>1. CASE end_commit(p)
    BY <2>1 DEF end_commit, WakeupGoto, SleeperHasWaker
  <2>2. CASE commit(p) \/ write_log(p) \/ write_head(p) \/ install_trans(p) \/ clear(p)
    <3>1. UNCHANGED committing /\ committing
      BY <2>2, ZenonT(120) DEF commit, write_log, write_head, install_trans, install_block, clear, logVars,
                  Ind, LogInv, ProcInv, Committing
    <3>. QED BY <3>1 DEF SleeperHasWaker
  <2>. QED BY <1>4, <2>1, <2>2 DEF CommitStep
<1>5. ASSUME NEW p \in Proc, NEW b \in Block, NEW v \in Val, log_write(p, b, v)
      PROVE  SleeperHasWaker'
  BY <1>5, ZenonT(120) DEF log_write, Panic, Goto, logVars, procVars, SleeperHasWaker
<1>6. ASSUME NEW b \in Block, evict(b) PROVE SleeperHasWaker'
  BY <1>6 DEF evict, logVars, procVars, SleeperHasWaker
<1>7. CASE Crash
  BY <1>7 DEF Crash, SleeperHasWaker
<1>8. CASE Recover
  BY <1>8 DEF Recover, read_head, recover_install, install_block, recover_clear, procVars,
              SleeperHasWaker
<1>9. CASE UNCHANGED vars
  BY <1>9 DEF vars, logVars, procVars, SleeperHasWaker
<1>. QED BY <1>1, <1>2, <1>3, <1>4, <1>5, <1>6, <1>7, <1>8, <1>9 DEF Next

(* No lost wakeup in begin_op: as long as one operation fits into an empty *)
(* log, somebody is there to wake whoever sleeps on &log.                  *)
THEOREM LogSleeperHasWaker ==
    ASSUME MAXOPBLOCKS <= LOGSIZE PROVE Spec => []SleeperHasWaker
<1>1. Init => Ind /\ IdleEmpty /\ SleeperHasWaker
  BY InitInd DEF Init, IdleEmpty, SleeperHasWaker
<1>2. Ind /\ IdleEmpty /\ SleeperHasWaker /\ [Next]_vars => (Ind /\ IdleEmpty /\ SleeperHasWaker)'
  BY IndStep, IdleEmptyStep, SleeperStep
<1>. QED BY <1>1, <1>2, PTL DEF Spec

(* Write-ahead: a home block changes on disk only while the header on disk *)
(* lists it, in install_trans() of a commit or of recovery.                *)
THEOREM LogWriteAhead == Spec => WriteAhead
<1> DEFINE Listed == \A b \in Block : disk'[b] # disk[b] => b \in Entries(hdr)
<1>1. Ind /\ [Next]_vars => [Listed]_vars
  <2> SUFFICES ASSUME Ind, [Next]_vars PROVE Listed
    OBVIOUS
  <2>1. ASSUME install_block, hdr = lh, tail \in 1 .. Len(lh) PROVE Listed
    BY <2>1 DEF install_block, Entries, Ind, TypeOK
  <2>2. ASSUME NEW p \in Proc, install_trans(p) PROVE Listed
    BY <2>1, <2>2 DEF install_trans, Ind, LogInv, DiskInv, CommitInv
  <2>3. CASE recover_install
    BY <2>1, <2>3 DEF recover_install, Ind, LogInv, DiskInv, RecoverInv
  <2>4. ASSUME NEW p \in Proc, begin_op(p) \/ log_record(p) \/ end_op(p) PROVE Listed
    BY <2>4 DEF begin_op, log_record, end_op, Panic, diskVars
  <2>5. ASSUME NEW p \in Proc,
               commit(p) \/ write_log(p) \/ write_head(p) \/ clear(p) \/ end_commit(p)
        PROVE  Listed
    BY <2>5 DEF commit, write_log, write_head, clear, end_commit, diskVars
  <2>6. ASSUME NEW p \in Proc, NEW b \in Block, NEW v \in Val, log_write(p, b, v) PROVE Listed
    BY <2>6, ZenonT(120) DEF log_write, Panic, diskVars
  <2>7. ASSUME NEW b \in Block, evict(b) PROVE Listed
    BY <2>7 DEF evict, diskVars
  <2>8. CASE Crash \/ read_head \/ recover_clear
    BY <2>8 DEF Crash, read_head, recover_clear, diskVars
  <2>9. CASE UNCHANGED vars
    BY <2>9 DEF vars, diskVars
  <2> HIDE DEF Listed
  <2>. QED BY <2>2, <2>3, <2>4, <2>5, <2>6, <2>7, <2>8, <2>9 DEF Next, CommitStep, Recover
<1>. QED BY <1>1, InitInd, IndStep, PTL DEF Spec, WriteAhead
=============================================================================
