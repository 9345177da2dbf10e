---------------------------- MODULE LogInduction ----------------------------
(***************************************************************************)
(* How the steps of Log change the processes, the reservations of log      *)
(* space, the types and the buffer cache: the first half of the proof that *)
(* LogInv is inductive.                                                    *)
(***************************************************************************)
EXTENDS Log, FiniteSetTheorems, TLAPS

\* Time for the provers, in seconds: a goal that one gives up is tried again.
USE SMTT(60), SMTT(55), SMTT(50), SMTT(45), SMTT(40), SMTT(30), ZenonT(60)

Ind == TypeOK /\ LogInv

LEMMA ActiveFinite ==
    /\ IsFiniteSet(Active) /\ Cardinality(Active) \in Nat
    /\ Cardinality(Active) <= Cardinality(Proc) /\ Cardinality(Proc) \in Nat
BY LogAssumption, FS_Subset, FS_CardinalityType DEF Active

LEMMA ProcInit == Init => TypeOK /\ ProcInv
<1> SUFFICES ASSUME Init PROVE TypeOK /\ ProcInv
  OBVIOUS
<1>1. Active = {}
  BY DEF Init, Active
<1>2. TypeOK
  <2>1. logarea \in [1 .. LOGSIZE -> Val]
    BY DEF Init
  <2>2. hdr \in Seq(Block) /\ Len(hdr) <= LOGSIZE /\ lh \in Seq(Block) /\ Len(lh) <= LOGSIZE
    BY LogAssumption DEF Init
  <2>3. outstanding \in 0 .. Cardinality(Proc) /\ tail \in 1 .. LOGSIZE + 1
    BY LogAssumption, ActiveFinite DEF Init
  <2>4. pc \in [Proc -> PcState]
    BY DEF Init, PcState
  <2>. QED BY ZenonT(120), <2>1, <2>2, <2>3, <2>4 DEF Init, TypeOK
<1>3. ProcInv
  BY <1>1, FS_EmptySet DEF Init, ProcInv, CommitAlone, Committing
<1>. QED BY <1>2, <1>3

THEOREM InitInd == Init => Ind
<1> SUFFICES ASSUME Init PROVE LogInv
  BY ProcInit DEF Ind
<1>1. CacheInv /\ DiskInv
  BY DEF Init, CacheInv, DiskInv, Distinct, Logging, Entries, CommitInv, RecoverInv, Held
<1>2. Unused = {} /\ Active = {}
  BY DEF Init, Unused, Active
<1>3. SpaceInv
  BY <1>2, FS_EmptySet, LogAssumption DEF Init, SpaceInv, SpaceReserved, WroteInv
<1>. QED BY <1>1, <1>3, ProcInit DEF LogInv

LEMMA ProcStep == ASSUME Ind, [Next]_vars PROVE ProcInv'
<1> USE DEF Goto, diskVars, logVars, procVars, Running
<1>0. TypeOK /\ ProcInv
  BY DEF Ind, LogInv
<1> USE <1>0
<1>1. ASSUME NEW p \in Proc, begin_op(p) PROVE ProcInv'
  <2> USE <1>1
  <2>1. CASE committing \/ NoSpace
    <3> USE <2>1
    <3>1. Active' = Active /\ \A q \in Proc : Committing(q)' <=> Committing(q)
      BY DEF begin_op, TypeOK, Active, Committing
    <3>2. \A q \in Proc : pc'[q] = "logging" <=> pc[q] = "logging"
      BY DEF begin_op, TypeOK
    <3>. QED
      BY <3>1, <3>2 DEF begin_op, ProcInv, CommitAlone
  <2>2. CASE ~(committing \/ NoSpace)
    <3> USE <2>2
    <3>1. Active' = Active \cup {p} /\ p \notin Active
      BY DEF begin_op, TypeOK, Active
    <3>2. Cardinality(Active') = Cardinality(Active) + 1
      BY <3>1, ActiveFinite, FS_AddElement
    <3>3. outstanding' = Cardinality(Active')
      BY <3>2 DEF begin_op, ProcInv
    <3>. QED
      BY <3>3 DEF begin_op, TypeOK, PcState, ProcInv, CommitAlone, Committing
  <2>. QED BY <2>1, <2>2
<1>2. ASSUME NEW p \in Proc, log_record(p) PROVE ProcInv'
  BY ZenonT(120), <1>2 DEF log_record, TypeOK, PcState, ProcInv, Active, CommitAlone, Committing
<1>3. ASSUME NEW p \in Proc, end_op(p) PROVE ProcInv'
  <2> USE <1>3
  <2>1. CASE committing
    BY <2>1 DEF end_op, Panic, TypeOK, PcState, ProcInv, Active, CommitAlone, Committing
  <2>2. CASE ~committing
    <3> USE <2>2
    <3>1. p \in Active /\ Active' = Active \ {p}
      BY DEF end_op, WakeupGoto, TypeOK, Active
    <3>2. Cardinality(Active') = Cardinality(Active) - 1
      BY <3>1, ActiveFinite, FS_RemoveElement
    <3>3. outstanding' = Cardinality(Active')
      BY <3>2 DEF end_op, ProcInv
    <3>4. outstanding = 1 => Active' = {}
      BY <3>1, <3>2, ActiveFinite, FS_RemoveElement, FS_EmptySet DEF ProcInv
    <3>5. \A q \in Proc : ~Committing(q)
      BY DEF ProcInv
    <3>6. \A q \in Proc : Committing(q)' <=> q = p /\ outstanding = 1
      BY <3>5 DEF end_op, WakeupGoto, TypeOK, Committing
    <3>7. CommitAlone' /\ (committing' <=> \E q \in Proc : Committing(q)')
      BY ZenonT(120), <3>3, <3>4, <3>6, FS_EmptySet DEF end_op, CommitAlone
    <3>. QED
      BY <3>3, <3>7 DEF end_op, WakeupGoto, TypeOK, PcState, ProcInv
  <2>. QED BY <2>1, <2>2
<1>4. ASSUME NEW p \in Proc, commit(p) PROVE ProcInv'
  <2> USE <1>4
  <2>1. \A q \in Proc : Committing(q)' <=> Committing(q)
    BY DEF commit, TypeOK, Committing
  <2>2. Active' = Active
    BY DEF commit, TypeOK, Active
  <2>3. \A q \in Proc : pc'[q] = "logging" <=> pc[q] = "logging"
    BY DEF commit, TypeOK
  <2>. QED
    BY <2>1, <2>2, <2>3 DEF commit, ProcInv, CommitAlone
<1>5. ASSUME NEW p \in Proc, write_log(p) PROVE ProcInv'
  <2> USE <1>5
  <2>1. \A q \in Proc : Committing(q)' <=> Committing(q)
    BY DEF write_log, TypeOK, Committing
  <2>2. Active' = Active
    BY DEF write_log, TypeOK, Active
  <2>3. \A q \in Proc : pc'[q] = "logging" <=> pc[q] = "logging"
    BY DEF write_log, TypeOK
  <2>. QED
    BY <2>1, <2>2, <2>3 DEF write_log, ProcInv, CommitAlone
<1>6. ASSUME NEW p \in Proc, write_head(p) PROVE ProcInv'
  <2> USE <1>6
  <2>1. \A q \in Proc : Committing(q)' <=> Committing(q)
    BY DEF write_head, TypeOK, Committing
  <2>2. Active' = Active
    BY DEF write_head, TypeOK, Active
  <2>3. \A q \in Proc : pc'[q] = "logging" <=> pc[q] = "logging"
    BY DEF write_head, TypeOK
  <2>. QED
    BY <2>1, <2>2, <2>3 DEF write_head, ProcInv, CommitAlone
<1>7. ASSUME NEW p \in Proc, install_trans(p) PROVE ProcInv'
  <2> USE <1>7
  <2>1. \A q \in Proc : Committing(q)' <=> Committing(q)
    BY DEF install_trans, install_block, TypeOK, Committing
  <2>2. Active' = Active
    BY DEF install_trans, install_block, TypeOK, Active
  <2>3. \A q \in Proc : pc'[q] = "logging" <=> pc[q] = "logging"
    BY DEF install_trans, install_block, TypeOK
  <2>. QED
    BY <2>1, <2>2, <2>3 DEF install_trans, install_block, ProcInv, CommitAlone
<1>8. ASSUME NEW p \in Proc, clear(p) PROVE ProcInv'
  <2> USE <1>8
  <2>1. \A q \in Proc : Committing(q)' <=> Committing(q)
    BY DEF clear, TypeOK, Committing
  <2>2. Active' = Active
    BY DEF clear, TypeOK, Active
  <2>3. \A q \in Proc : pc'[q] = "logging" <=> pc[q] = "logging"
    BY DEF clear, TypeOK
  <2>. QED
    BY <2>1, <2>2, <2>3 DEF clear, ProcInv, CommitAlone
<1>9. ASSUME NEW p \in Proc, end_commit(p) PROVE ProcInv'
  BY ZenonT(120), <1>9 DEF end_commit, WakeupGoto, TypeOK, PcState, ProcInv, Active, CommitAlone, Committing
<1>10. ASSUME NEW p \in Proc, NEW b \in Block, NEW v \in Val, log_write(p, b, v) PROVE ProcInv'
  <2> USE <1>10
  <2>1. CASE UNCHANGED <<pc, target, outstanding, committing, boot>>
    BY <2>1 DEF TypeOK, PcState, ProcInv, Active, CommitAlone, Committing
  <2>2. CASE /\ pc' = [pc EXCEPT ![p] = "logging"]
             /\ target' = [target EXCEPT ![p] = b]
             /\ UNCHANGED <<outstanding, committing, boot>>
    <3> USE <2>2
    <3>1. Active' = Active
      BY DEF log_write, TypeOK, Active
    <3>2. \A q \in Proc : Committing(q)' <=> Committing(q)
      BY DEF log_write, TypeOK, Committing
    <3>3. b # None
      BY LogAssumption
    <3>4. \A q \in Proc : target[q] # b
      BY <3>3 DEF log_write, Held
    <3>. QED
      BY <3>1, <3>2, <3>3, <3>4 DEF log_write, TypeOK, PcState, ProcInv, CommitAlone
  <2>. QED BY <2>1, <2>2 DEF log_write, Panic
<1>11. ASSUME NEW b \in Block, evict(b) PROVE ProcInv'
  BY <1>11 DEF evict, TypeOK, PcState, ProcInv, Active, CommitAlone, Committing
<1>12. CASE Crash
  <2>1. Active' = {}
    BY <1>12 DEF Crash, Active
  <2>. QED
    BY <1>12, <2>1, FS_EmptySet DEF Crash, ProcInv, CommitAlone, Committing
<1>13. CASE read_head
  BY <1>13 DEF read_head, TypeOK, PcState, ProcInv, Active, CommitAlone, Committing
<1>14. CASE recover_install
  BY <1>14 DEF recover_install, install_block, TypeOK, PcState, ProcInv, Active, CommitAlone, Committing
<1>15. CASE recover_clear
  BY <1>15 DEF recover_clear, TypeOK, PcState, ProcInv, Active, CommitAlone, Committing
<1>16. CASE UNCHANGED vars
  BY <1>16 DEF vars, diskVars, logVars, procVars, TypeOK, PcState, ProcInv, Active, CommitAlone, Committing
<1>. QED
  BY <1>1, <1>2, <1>3, <1>4, <1>5, <1>6, <1>7, <1>8, <1>9, <1>10, <1>11, <1>12, <1>13, <1>14, <1>15, <1>16 DEF Next, CommitStep, Recover

LEMMA EntriesAppend ==
    ASSUME NEW s \in Seq(Block), NEW b \in Block
    PROVE  Entries(Append(s, b)) = Entries(s) \cup {b}
<1>1. /\ Append(s, b) \in Seq(Block) /\ Len(Append(s, b)) = Len(s) + 1
      /\ \A i \in 1 .. Len(s) : Append(s, b)[i] = s[i]
      /\ Append(s, b)[Len(s) + 1] = b
      /\ Len(s) \in Nat
  OBVIOUS
<1> USE <1>1
<1>2. Entries(Append(s, b)) \subseteq Entries(s) \cup {b}
  BY DEF Entries
<1>3. \A i \in 1 .. Len(s) : i \in 1 .. Len(Append(s, b))
  OBVIOUS
<1>4. Len(s) + 1 \in 1 .. Len(Append(s, b))
  OBVIOUS
<1>5. Entries(s) \cup {b} \subseteq Entries(Append(s, b))
  BY <1>3, <1>4 DEF Entries
<1>. QED BY <1>2, <1>5

LEMMA UnusedFinite ==
    /\ IsFiniteSet(Unused) /\ Cardinality(Unused) \in Nat
    /\ Cardinality(Unused) <= Cardinality(Active) * OpBlocks
<1>1. IsFiniteSet(1 .. OpBlocks) /\ Cardinality(1 .. OpBlocks) = OpBlocks
  BY LogAssumption, FS_Interval
<1>2. /\ IsFiniteSet(Active \X (1 .. OpBlocks))
      /\ Cardinality(Active \X (1 .. OpBlocks)) = Cardinality(Active) * OpBlocks
  BY ZenonT(120), <1>1, ActiveFinite, FS_Product
<1>3. Unused \in SUBSET (Active \X (1 .. OpBlocks))
  BY DEF Unused
<1>. QED BY <1>2, <1>3, FS_Subset, FS_CardinalityType

\* Facts of arithmetic that hold a product.
LEMMA Products ==
    ASSUME NEW a \in Nat, NEW m \in Nat, NEW k \in Nat, k <= m
    PROVE  /\ a * (m - k) \in Nat
           /\ (a + 1) * (m - k) = a * (m - k) + (m - k)
           /\ a * k + a * (m - k) = a * m
<1>1. m - k \in Nat
  OBVIOUS
<1>. QED BY <1>1, SMT

LEMMA LogSeqs ==
    ASSUME Ind
    PROVE  /\ lh \in Seq(Block) /\ Len(lh) \in Nat /\ Len(lh) <= LOGSIZE
           /\ hdr \in Seq(Block) /\ Len(hdr) \in Nat /\ Len(hdr) <= LOGSIZE
<1>1. /\ lh \in Seq(Block) /\ Len(lh) <= LOGSIZE
      /\ hdr \in Seq(Block) /\ Len(hdr) <= LOGSIZE
  BY DEF Ind, TypeOK
<1>. QED BY <1>1

LEMMA Reserved == ASSUME Ind PROVE outstanding * (MAXOPBLOCKS - OpBlocks) \in Nat
<1>1. outstanding \in Nat /\ MAXOPBLOCKS \in Nat /\ OpBlocks \in Nat /\ OpBlocks <= MAXOPBLOCKS
  BY LogAssumption, ActiveFinite DEF Ind, LogInv, ProcInv
<1>. QED BY <1>1, Products

\* A step that leaves the operations alone and does not lengthen the log.
LEMMA SpaceFrame ==
    ASSUME Ind, Active' = Active, UNCHANGED <<wrote, outstanding>>,
           lh' = lh \/ lh' = <<>>
    PROVE  SpaceReserved'
<1>1. Unused' = Unused
  BY DEF Unused
<1>2. outstanding' * (MAXOPBLOCKS - OpBlocks) = outstanding * (MAXOPBLOCKS - OpBlocks)
  OBVIOUS
<1>3. outstanding * (MAXOPBLOCKS - OpBlocks) \in Nat
  BY Reserved
<1>4. Len(lh) + Cardinality(Unused) + outstanding * (MAXOPBLOCKS - OpBlocks) <= LOGSIZE
  BY DEF Ind, LogInv, SpaceInv, SpaceReserved
<1> DEFINE r == outstanding * (MAXOPBLOCKS - OpBlocks)
           u == Cardinality(Unused)
<1>5. r \in Nat /\ u \in Nat
  BY <1>3, UnusedFinite
<1>8. Len(lh) \in Nat /\ Len(lh') \in Nat /\ Len(lh') <= Len(lh)
  <2>1. Len(lh) \in Nat /\ Len(<<>>) = 0
    BY LogSeqs
  <2>. QED BY <2>1
<1>6. Len(lh) + u + r <= LOGSIZE
  BY <1>4
<1> HIDE DEF r, u
<1>7. Len(lh') + u + r <= LOGSIZE
  BY <1>5, <1>6, <1>8, LogAssumption
<1>. QED
  BY <1>1, <1>2, <1>7 DEF SpaceReserved, r, u

\* The same bound after a step.
LEMMA UnusedFiniteNext ==
    ASSUME IsFiniteSet(Active')
    PROVE  /\ IsFiniteSet(Unused') /\ Cardinality(Unused') \in Nat
           /\ Cardinality(Unused') <= Cardinality(Active') * OpBlocks
<1>1. IsFiniteSet(1 .. OpBlocks) /\ Cardinality(1 .. OpBlocks) = OpBlocks
  BY LogAssumption, FS_Interval
<1>2. /\ IsFiniteSet(Active' \X (1 .. OpBlocks))
      /\ Cardinality(Active' \X (1 .. OpBlocks)) = Cardinality(Active') * OpBlocks
  BY ZenonT(120), <1>1, FS_Product
<1>3. Unused' \in SUBSET (Active' \X (1 .. OpBlocks))
  BY DEF Unused
<1>. QED BY <1>2, <1>3, FS_Subset, FS_CardinalityType

LEMMA SpaceStep == ASSUME Ind, [Next]_vars PROVE SpaceReserved'
<1> USE DEF Goto, diskVars, logVars, procVars, Running
<1>0. TypeOK /\ ProcInv /\ SpaceInv
  BY DEF Ind, LogInv
<1> USE <1>0
<1>1. ASSUME NEW p \in Proc, begin_op(p) PROVE SpaceReserved'
  <2> USE <1>1
  <2>1. CASE committing \/ NoSpace
    <3>1. Active' = Active /\ UNCHANGED <<wrote, outstanding, lh>>
      BY <2>1 DEF begin_op, TypeOK, Active
    <3>. QED BY <3>1, SpaceFrame
  <2>2. CASE ~(committing \/ NoSpace)
    <3> USE <2>2
    <3> DEFINE m == outstanding + 1
    <3>1. m \in Nat /\ outstanding' = m /\ Cardinality(Active') = m
      BY ProcStep, ActiveFinite DEF begin_op, ProcInv
    <3> USE <3>1
    <3>2. IsFiniteSet(Active')
      BY LogAssumption, FS_Subset DEF Active
    <3>3. Cardinality(Unused') \in Nat /\ Cardinality(Unused') <= m * OpBlocks
      BY <3>2, UnusedFiniteNext
    <3>4. Len(lh) + m * MAXOPBLOCKS <= LOGSIZE
      <4>1. Len(lh) \in Nat
        BY LogSeqs
      <4>2. m * MAXOPBLOCKS \in Nat
        BY LogAssumption
      <4>3. ~(Len(lh) + m * MAXOPBLOCKS > LOGSIZE)
        BY DEF NoSpace
      <4> HIDE DEF m
      <4>. QED BY <4>1, <4>2, <4>3, LogAssumption
    <3>5. /\ m * OpBlocks + m * (MAXOPBLOCKS - OpBlocks) = m * MAXOPBLOCKS
          /\ m * OpBlocks \in Nat /\ m * (MAXOPBLOCKS - OpBlocks) \in Nat
      BY LogAssumption, Products
    <3>6. Len(lh) \in Nat /\ lh' = lh
      BY DEF begin_op, TypeOK
    <3> HIDE DEF m
    <3>. QED
      BY <3>3, <3>4, <3>5, <3>6, LogAssumption DEF SpaceReserved
  <2>. QED BY <2>1, <2>2
<1>2. ASSUME NEW p \in Proc, log_record(p) PROVE SpaceReserved'
  <2> DEFINE t == target[p]
             r == outstanding * (MAXOPBLOCKS - OpBlocks)
             n == Cardinality(wrote[p])
  <2>1. /\ p \in Active /\ t \in Block /\ Active' = Active
        /\ outstanding' = outstanding
        /\ wrote' = [wrote EXCEPT ![p] = wrote[p] \cup {t}]
    BY <1>2 DEF log_record, TypeOK, Active, ProcInv
  <2>2. /\ IsFiniteSet(wrote[p]) /\ n \in Nat
        /\ Cardinality(wrote'[p]) = IF t \in wrote[p] THEN n ELSE n + 1
    <3>1. IsFiniteSet(wrote[p])
      BY Zenon DEF SpaceInv, WroteInv
    <3>2. wrote'[p] = wrote[p] \cup {t}
      BY <2>1 DEF TypeOK
    <3>. QED BY <3>1, <3>2, FS_AddElement, FS_CardinalityType
  <2>3. \A q \in Proc \ {p} : wrote'[q] = wrote[q]
    BY <2>1 DEF TypeOK
  <2>4. r \in Nat /\ Len(lh) + Cardinality(Unused) + r <= LOGSIZE
    BY Reserved DEF SpaceInv, SpaceReserved
  <2>5. CASE t \in Entries(lh)
    <3>1. Unused' \subseteq Unused
      BY <2>1, <2>2, <2>3 DEF Unused
    <3>2. Cardinality(Unused') <= Cardinality(Unused) /\ Cardinality(Unused') \in Nat
      BY <3>1, UnusedFinite, FS_Subset, FS_CardinalityType
    <3>3. Len(lh') = Len(lh) /\ Len(lh) \in Nat
      BY <1>2, <2>5 DEF log_record, TypeOK
    <3>4. outstanding' * (MAXOPBLOCKS - OpBlocks) = r
      BY <2>1
    <3> HIDE DEF r
    <3>. QED BY <2>4, <3>2, <3>3, <3>4, UnusedFinite, LogAssumption DEF SpaceReserved
  <2>6. CASE t \notin Entries(lh)
    <3>1. t \notin wrote[p] /\ n + 1 <= OpBlocks
      BY ZenonT(120), <1>2, <2>1, <2>2, <2>6 DEF log_record, SpaceInv, WroteInv, TypeOK
    <3>2. Unused' = Unused \ {<<p, n + 1>>} /\ <<p, n + 1>> \in Unused
      BY <2>1, <2>2, <2>3, <3>1, LogAssumption DEF Unused
    <3>3. Cardinality(Unused') = Cardinality(Unused) - 1
      BY ZenonT(120), <3>2, UnusedFinite, FS_RemoveElement
    <3>4. Len(lh') = Len(lh) + 1 /\ Len(lh) \in Nat
      BY <1>2, <2>1, <2>6 DEF log_record, TypeOK
    <3>5. outstanding' * (MAXOPBLOCKS - OpBlocks) = r
      BY <2>1
    <3> HIDE DEF r
    <3>. QED BY <2>4, <3>3, <3>4, <3>5, UnusedFinite, LogAssumption DEF SpaceReserved
  <2>. QED BY <2>5, <2>6
<1>3. ASSUME NEW p \in Proc, end_op(p) PROVE SpaceReserved'
  <2> USE <1>3
  <2>1. CASE committing
    <3>1. Active' = Active /\ UNCHANGED <<wrote, outstanding, lh>>
      BY <2>1 DEF end_op, Panic, Active
    <3>. QED BY <3>1, SpaceFrame
  <2>2. CASE ~committing
    <3> DEFINE k == outstanding - 1
               d == MAXOPBLOCKS - OpBlocks
    <3>1. p \in Active /\ Active' = Active \ {p} /\ lh' = lh /\ wrote' = wrote
      BY <2>2 DEF end_op, WakeupGoto, TypeOK, Active
    <3> USE <3>1
    <3>2. Unused' \subseteq Unused
      BY DEF Unused
    <3>3. Cardinality(Unused') <= Cardinality(Unused) /\ Cardinality(Unused') \in Nat
      BY <3>2, UnusedFinite, FS_Subset, FS_CardinalityType
    <3>4. k \in Nat /\ outstanding = k + 1 /\ outstanding' = k
      BY <2>2, ActiveFinite, FS_EmptySet DEF end_op, ProcInv
    <3> USE <3>4
    <3>5. (k + 1) * d = k * d + d /\ k * d \in Nat /\ d \in Nat
      BY LogAssumption, Products
    <3>6. Len(lh) + Cardinality(Unused) + (k + 1) * d <= LOGSIZE
      BY ZenonT(120) DEF SpaceInv, SpaceReserved
    <3>7. Len(lh) + Cardinality(Unused') + k * d <= LOGSIZE
      <4> HIDE DEF k, d
      <4>. QED BY <3>3, <3>5, <3>6, LogSeqs, UnusedFinite, LogAssumption
    <3>. QED BY <3>7 DEF SpaceReserved
  <2>. QED BY <2>1, <2>2
<1>4. ASSUME NEW p \in Proc, commit(p) PROVE SpaceReserved'
  <2>1. Active' = Active /\ UNCHANGED <<wrote, outstanding, lh>>
    BY <1>4 DEF commit, TypeOK, Active
  <2>. QED BY <2>1, SpaceFrame
<1>5. ASSUME NEW p \in Proc, write_log(p) PROVE SpaceReserved'
  <2>1. Active' = Active /\ UNCHANGED <<wrote, outstanding, lh>>
    BY <1>5 DEF write_log, TypeOK, Active
  <2>. QED BY <2>1, SpaceFrame
<1>6. ASSUME NEW p \in Proc, write_head(p) PROVE SpaceReserved'
  <2>1. Active' = Active /\ UNCHANGED <<wrote, outstanding, lh>>
    BY <1>6 DEF write_head, TypeOK, Active
  <2>. QED BY <2>1, SpaceFrame
<1>7. ASSUME NEW p \in Proc, install_trans(p) PROVE SpaceReserved'
  <2>1. Active' = Active /\ UNCHANGED <<wrote, outstanding, lh>>
    BY <1>7 DEF install_trans, install_block, TypeOK, Active
  <2>. QED BY <2>1, SpaceFrame
<1>8. ASSUME NEW p \in Proc, clear(p) PROVE SpaceReserved'
  <2>1. Active' = Active /\ UNCHANGED <<wrote, outstanding>> /\ lh' = <<>>
    BY <1>8 DEF clear, TypeOK, Active
  <2>. QED BY <2>1, SpaceFrame
<1>9. ASSUME NEW p \in Proc, end_commit(p) PROVE SpaceReserved'
  <2>1. Active' = Active /\ UNCHANGED <<wrote, outstanding, lh>>
    BY <1>9 DEF end_commit, WakeupGoto, TypeOK, Active
  <2>. QED BY <2>1, SpaceFrame
<1>10. ASSUME NEW p \in Proc, NEW b \in Block, NEW v \in Val, log_write(p, b, v) PROVE SpaceReserved'
  <2>1. UNCHANGED <<wrote, outstanding, lh>>
    BY <1>10 DEF log_write, Panic
  <2>2. Active' = Active
    BY <1>10 DEF log_write, Panic, TypeOK, Active
  <2>. QED BY <2>1, <2>2, SpaceFrame
<1>11. ASSUME NEW b \in Block, evict(b) PROVE SpaceReserved'
  <2>1. Active' = Active /\ UNCHANGED <<wrote, outstanding, lh>>
    BY <1>11 DEF evict, TypeOK, Active
  <2>. QED BY <2>1, SpaceFrame
<1>12. CASE Crash
  <2>1. Unused' = {} /\ outstanding' = 0 /\ lh' = <<>>
    BY <1>12 DEF Crash, Unused, Active
  <2>. QED BY <2>1, FS_EmptySet, LogAssumption DEF SpaceReserved
<1>13. CASE read_head
  <2> USE <1>13
  <2>1. Active = {} /\ Active' = {}
    BY DEF read_head, ProcInv, Active
  <2>2. Unused' = {} /\ lh' = hdr
    BY <2>1 DEF read_head, Unused
  <2>3. outstanding' = 0
    BY <2>1, FS_EmptySet DEF read_head, ProcInv
  <2>. QED BY <2>2, <2>3, LogSeqs, FS_EmptySet, LogAssumption DEF SpaceReserved
<1>14. CASE recover_install
  <2>1. Active' = Active /\ UNCHANGED <<wrote, outstanding, lh>>
    BY <1>14 DEF recover_install, install_block, TypeOK, Active
  <2>. QED BY <2>1, SpaceFrame
<1>15. CASE recover_clear
  <2>1. Active' = Active /\ UNCHANGED <<wrote, outstanding>> /\ lh' = <<>>
    BY <1>15 DEF recover_clear, TypeOK, Active
  <2>. QED BY <2>1, SpaceFrame
<1>16. CASE UNCHANGED vars
  <2>1. Active' = Active /\ UNCHANGED <<wrote, outstanding, lh>>
    BY <1>16 DEF vars, TypeOK, Active
  <2>. QED BY <2>1, SpaceFrame
<1>. QED
  BY <1>1, <1>2, <1>3, <1>4, <1>5, <1>6, <1>7, <1>8, <1>9, <1>10, <1>11, <1>12, <1>13, <1>14, <1>15, <1>16 DEF Next, CommitStep, Recover

\* A step after which no operation is new and the log lists the same blocks.
LEMMA WroteFrame ==
    ASSUME Ind, UNCHANGED <<wrote, target, lh>>,
           \A q \in Active' : q \in Active,
           \A q \in Proc : pc'[q] = "logging" => pc[q] = "logging"
    PROVE  \A q \in Proc : WroteInv(q)'
BY DEF Ind, LogInv, SpaceInv, WroteInv

LEMMA WroteStep == ASSUME Ind, [Next]_vars PROVE \A q \in Proc : WroteInv(q)'
<1> USE DEF Goto, diskVars, logVars, procVars, Running
<1>0. TypeOK /\ ProcInv /\ SpaceInv
  BY DEF Ind, LogInv
<1> USE <1>0
<1>1. ASSUME NEW p \in Proc, begin_op(p) PROVE \A q \in Proc : WroteInv(q)'
  <2> USE <1>1
  <2>1. CASE committing \/ NoSpace
    <3>1. /\ \A q \in Active' : q \in Active
          /\ \A q \in Proc : pc'[q] = "logging" => pc[q] = "logging"
      BY <2>1 DEF begin_op, TypeOK, Active
    <3>2. UNCHANGED <<wrote, target, lh>>
      BY <2>1 DEF begin_op
    <3>. QED BY <3>1, <3>2, WroteFrame
  <2>2. CASE ~(committing \/ NoSpace)
    <3>1. WroteInv(p)'
      <4>1. wrote'[p] = {} /\ pc'[p] = "op"
        BY <2>2 DEF begin_op, TypeOK
      <4>. QED BY <4>1, FS_EmptySet, LogAssumption DEF WroteInv
    <3>2. ASSUME NEW q \in Proc, q # p PROVE WroteInv(q)'
      BY ZenonT(120), <2>2, <3>2 DEF begin_op, TypeOK, SpaceInv, WroteInv, Active
    <3>. QED BY <3>1, <3>2
  <2>. QED BY <2>1, <2>2
<1>2. ASSUME NEW p \in Proc, log_record(p) PROVE \A q \in Proc : WroteInv(q)'
  <2> DEFINE t == target[p]
  <2>1. /\ t \in Block /\ p \in Active
        /\ wrote' = [wrote EXCEPT ![p] = wrote[p] \cup {t}]
        /\ pc' = [pc EXCEPT ![p] = "op"] /\ target' = [target EXCEPT ![p] = None]
    BY <1>2 DEF log_record, TypeOK, Active, ProcInv
  <2>2. Entries(lh') = Entries(lh) \cup {t}
    <3>1. CASE t \in Entries(lh)
      BY <1>2, <3>1 DEF log_record
    <3>2. CASE t \notin Entries(lh)
      BY <1>2, <2>1, <3>2, LogSeqs, EntriesAppend DEF log_record
    <3>. QED BY <3>1, <3>2
  <2>a. wrote'[p] = wrote[p] \cup {t}
    BY <2>1 DEF TypeOK
  <2>b. IsFiniteSet(wrote[p]) /\ Cardinality(wrote[p] \cup {t}) <= OpBlocks
    BY <1>2 DEF log_record, SpaceInv, WroteInv
  <2>3. IsFiniteSet(wrote'[p]) /\ Cardinality(wrote'[p]) <= OpBlocks
    BY <2>a, <2>b, FS_AddElement
  <2>4. wrote'[p] \subseteq Entries(lh') /\ pc'[p] = "op"
    BY ZenonT(120), <2>1, <2>2 DEF TypeOK, SpaceInv, WroteInv
  <2>5. WroteInv(p)'
    BY <2>3, <2>4 DEF WroteInv
  <2>6. ASSUME NEW q \in Proc, q # p PROVE WroteInv(q)'
    <3>1. /\ wrote'[q] = wrote[q] /\ pc'[q] = pc[q] /\ target'[q] = target[q]
          /\ q \in Active' <=> q \in Active
      BY <2>1, <2>6 DEF TypeOK, Active
    <3>2. WroteInv(q)
      BY DEF SpaceInv
    <3>. QED BY <2>2, <3>1, <3>2 DEF WroteInv
  <2>. QED BY <2>5, <2>6
<1>3. ASSUME NEW p \in Proc, end_op(p) PROVE \A q \in Proc : WroteInv(q)'
  <2>1. /\ \A q \in Active' : q \in Active
        /\ \A q \in Proc : pc'[q] = "logging" => pc[q] = "logging"
    BY <1>3 DEF end_op, Panic, WakeupGoto, TypeOK, Active
  <2>2. UNCHANGED <<wrote, target, lh>>
    BY <1>3 DEF end_op, Panic, WakeupGoto
  <2>. QED BY <2>1, <2>2, WroteFrame
<1>4. ASSUME NEW p \in Proc, commit(p) PROVE \A q \in Proc : WroteInv(q)'
  <2>1. /\ \A q \in Active' : q \in Active
        /\ \A q \in Proc : pc'[q] = "logging" => pc[q] = "logging"
    BY <1>4 DEF commit, TypeOK, Active
  <2>2. UNCHANGED <<wrote, target, lh>>
    BY <1>4 DEF commit
  <2>. QED BY <2>1, <2>2, WroteFrame
<1>5. ASSUME NEW p \in Proc, write_log(p) PROVE \A q \in Proc : WroteInv(q)'
  <2>1. /\ \A q \in Active' : q \in Active
        /\ \A q \in Proc : pc'[q] = "logging" => pc[q] = "logging"
    BY <1>5 DEF write_log, TypeOK, Active
  <2>2. UNCHANGED <<wrote, target, lh>>
    BY <1>5 DEF write_log
  <2>. QED BY <2>1, <2>2, WroteFrame
<1>6. ASSUME NEW p \in Proc, write_head(p) PROVE \A q \in Proc : WroteInv(q)'
  <2>1. /\ \A q \in Active' : q \in Active
        /\ \A q \in Proc : pc'[q] = "logging" => pc[q] = "logging"
    BY <1>6 DEF write_head, TypeOK, Active
  <2>2. UNCHANGED <<wrote, target, lh>>
    BY <1>6 DEF write_head
  <2>. QED BY <2>1, <2>2, WroteFrame
<1>7. ASSUME NEW p \in Proc, install_trans(p) PROVE \A q \in Proc : WroteInv(q)'
  <2>1. /\ \A q \in Active' : q \in Active
        /\ \A q \in Proc : pc'[q] = "logging" => pc[q] = "logging"
    BY <1>7 DEF install_trans, install_block, TypeOK, Active
  <2>2. UNCHANGED <<wrote, target, lh>>
    BY <1>7 DEF install_trans, install_block
  <2>. QED BY <2>1, <2>2, WroteFrame
<1>8. ASSUME NEW p \in Proc, clear(p) PROVE \A q \in Proc : WroteInv(q)'
  <2>1. Active' = {} /\ \A q \in Proc : pc'[q] # "logging"
    BY <1>8 DEF clear, TypeOK, ProcInv, CommitAlone, Committing, Active
  <2>. QED BY ZenonT(120), <1>8, <2>1 DEF clear, SpaceInv, WroteInv
<1>9. ASSUME NEW p \in Proc, end_commit(p) PROVE \A q \in Proc : WroteInv(q)'
  <2>1. /\ \A q \in Active' : q \in Active
        /\ \A q \in Proc : pc'[q] = "logging" => pc[q] = "logging"
    BY <1>9 DEF end_commit, WakeupGoto, TypeOK, Active
  <2>2. UNCHANGED <<wrote, target, lh>>
    BY <1>9 DEF end_commit, WakeupGoto
  <2>. QED BY <2>1, <2>2, WroteFrame
<1>10. ASSUME NEW p \in Proc, NEW b \in Block, NEW v \in Val, log_write(p, b, v) PROVE \A q \in Proc : WroteInv(q)'
  <2>1. CASE UNCHANGED <<pc, wrote, target, lh>>
    BY <2>1, WroteFrame DEF Active
  <2>2. CASE UNCHANGED <<wrote, lh>> /\ pc' = [pc EXCEPT ![p] = "logging"]
             /\ target' = [target EXCEPT ![p] = b]
    <3>1. WroteInv(p)'
      BY ZenonT(120), <1>10, <2>2 DEF log_write, TypeOK, SpaceInv, WroteInv, Active
    <3>2. ASSUME NEW q \in Proc, q # p PROVE WroteInv(q)'
      BY ZenonT(120), <2>2, <3>2 DEF TypeOK, SpaceInv, WroteInv, Active
    <3>. QED BY <3>1, <3>2
  <2>. QED BY <1>10, <2>1, <2>2 DEF log_write, Panic
<1>11. ASSUME NEW b \in Block, evict(b) PROVE \A q \in Proc : WroteInv(q)'
  <2>1. /\ \A q \in Active' : q \in Active
        /\ \A q \in Proc : pc'[q] = "logging" => pc[q] = "logging"
    BY <1>11 DEF evict, TypeOK, Active
  <2>2. UNCHANGED <<wrote, target, lh>>
    BY <1>11 DEF evict
  <2>. QED BY <2>1, <2>2, WroteFrame
<1>12. CASE Crash
  BY <1>12, FS_EmptySet DEF Crash, WroteInv, Active
<1>13. CASE read_head
  <2>1. Active' = {} /\ \A q \in Proc : pc'[q] # "logging"
    BY <1>13 DEF read_head, ProcInv, Active
  <2>. QED BY <1>13, <2>1 DEF read_head, SpaceInv, WroteInv
<1>14. CASE recover_install
  <2>1. /\ \A q \in Active' : q \in Active
        /\ \A q \in Proc : pc'[q] = "logging" => pc[q] = "logging"
    BY <1>14 DEF recover_install, install_block, TypeOK, Active
  <2>2. UNCHANGED <<wrote, target, lh>>
    BY <1>14 DEF recover_install, install_block
  <2>. QED BY <2>1, <2>2, WroteFrame
<1>15. CASE recover_clear
  <2>1. Active' = {} /\ \A q \in Proc : pc'[q] # "logging"
    BY <1>15 DEF recover_clear, ProcInv, Active
  <2>. QED BY <1>15, <2>1 DEF recover_clear, SpaceInv, WroteInv
<1>16. CASE UNCHANGED vars
  <2>1. /\ \A q \in Active' : q \in Active
        /\ \A q \in Proc : pc'[q] = "logging" => pc[q] = "logging"
    BY <1>16 DEF vars, TypeOK, Active
  <2>2. UNCHANGED <<wrote, target, lh>>
    BY <1>16 DEF vars
  <2>. QED BY <2>1, <2>2, WroteFrame
<1>. QED
  BY <1>1, <1>2, <1>3, <1>4, <1>5, <1>6, <1>7, <1>8, <1>9, <1>10, <1>11, <1>12, <1>13, <1>14, <1>15, <1>16 DEF Next, CommitStep, Recover

LEMMA TypeStep == ASSUME Ind, [Next]_vars PROVE TypeOK'
<1> USE DEF Goto, diskVars, logVars, procVars, Running
<1>0. TypeOK /\ ProcInv
  BY DEF Ind, LogInv
<1>a. outstanding' \in 0 .. Cardinality(Proc)
  <2>1. IsFiniteSet(Proc) /\ Active' \in SUBSET Proc
    BY LogAssumption DEF Active
  <2>2. Cardinality(Active') \in Nat /\ Cardinality(Active') <= Cardinality(Proc) /\ Cardinality(Proc) \in Nat
    BY <2>1, FS_Subset, FS_CardinalityType
  <2>. QED BY <2>2, ProcStep DEF ProcInv
<1>b. 1 \in 1 .. LOGSIZE + 1 /\ <<>> \in Seq(Block) /\ Len(<<>>) <= LOGSIZE
  BY LogAssumption
<1> USE <1>0, <1>a, <1>b
<1>1. ASSUME NEW p \in Proc, begin_op(p) PROVE TypeOK'
  BY ZenonT(120), <1>1 DEF begin_op, NoSpace, TypeOK, PcState
<1>2. ASSUME NEW p \in Proc, log_record(p) PROVE TypeOK'
  <2>1. target[p] \in Block
    BY <1>2 DEF log_record, TypeOK, ProcInv
  <2>2. lh' \in Seq(Block) /\ Len(lh') \in Nat
    BY <1>2, <2>1, LogSeqs DEF log_record
  <2>3. Len(lh') <= LOGSIZE
    <3>1. /\ Cardinality(Unused') \in Nat
          /\ outstanding' * (MAXOPBLOCKS - OpBlocks) \in Nat
      <4>1. IsFiniteSet(Active') /\ outstanding' = outstanding
        BY <1>2, LogAssumption, FS_Subset DEF log_record, Active
      <4>. QED BY <4>1, UnusedFiniteNext, Reserved
    <3>2. Len(lh') + Cardinality(Unused') + outstanding' * (MAXOPBLOCKS - OpBlocks) <= LOGSIZE
      BY SpaceStep DEF SpaceReserved
    <3> DEFINE r == outstanding' * (MAXOPBLOCKS - OpBlocks)
    <3> HIDE DEF r
    <3>. QED BY <2>2, <3>1, <3>2, LogAssumption DEF r
  <2>4. wrote' \in [Proc -> SUBSET Block]
    BY <1>2, <2>1 DEF log_record, TypeOK
  <2>. QED BY <1>2, <2>1, <2>2, <2>3, <2>4 DEF log_record, TypeOK, PcState
<1>3. ASSUME NEW p \in Proc, end_op(p) PROVE TypeOK'
  BY ZenonT(120), <1>3 DEF end_op, Panic, WakeupGoto, TypeOK, PcState
<1>4. ASSUME NEW p \in Proc, commit(p) PROVE TypeOK'
  BY <1>4 DEF commit, TypeOK, PcState
<1>5. ASSUME NEW p \in Proc, write_log(p) PROVE TypeOK'
  <2>1. tail \in 1 .. Len(lh) /\ lh[tail] \in Block /\ tail \in 1 .. LOGSIZE
    <3>1. tail \in 1 .. Len(lh)
      BY <1>5 DEF write_log, Ind, LogInv, DiskInv, CommitInv
    <3>. QED BY <3>1, LogSeqs, LogAssumption
  <2>2. bread(lh[tail]) \in Val
    BY <2>1 DEF bread, TypeOK
  <2>3. tail' \in 1 .. LOGSIZE + 1
    BY <1>5, <2>1, LogSeqs, LogAssumption DEF write_log
  <2>4. logarea' \in [1 .. LOGSIZE -> Val] /\ buf' \in [Block -> Val \cup {None}]
    BY <1>5, <2>1, <2>2 DEF write_log, TypeOK
  <2>. QED BY <1>5, <2>3, <2>4 DEF write_log, TypeOK, PcState
<1>6. ASSUME NEW p \in Proc, write_head(p) PROVE TypeOK'
  BY <1>6 DEF write_head, TypeOK, PcState
<1>7. ASSUME NEW p \in Proc, install_trans(p) PROVE TypeOK'
  <2>1. tail \in 1 .. Len(lh) /\ lh[tail] \in Block /\ tail \in 1 .. LOGSIZE
    <3>1. tail \in 1 .. Len(lh)
      BY <1>7 DEF install_trans, Ind, LogInv, DiskInv, CommitInv
    <3>. QED BY <3>1, LogSeqs, LogAssumption
  <2>2. tail' \in 1 .. LOGSIZE + 1
    BY <1>7, <2>1, LogSeqs, LogAssumption DEF install_trans
  <2>3. disk' \in [Block -> Val] /\ buf' \in [Block -> Val \cup {None}] /\ dirty' \subseteq Block
    BY <1>7, <2>1 DEF install_trans, install_block, TypeOK
  <2>. QED BY <1>7, <2>2, <2>3 DEF install_trans, install_block, TypeOK, PcState
<1>8. ASSUME NEW p \in Proc, clear(p) PROVE TypeOK'
  BY <1>8 DEF clear, TypeOK, PcState
<1>9. ASSUME NEW p \in Proc, end_commit(p) PROVE TypeOK'
  BY ZenonT(120), <1>9 DEF end_commit, WakeupGoto, TypeOK, PcState
<1>10. ASSUME NEW p \in Proc, NEW b \in Block, NEW v \in Val, log_write(p, b, v) PROVE TypeOK'
  BY ZenonT(120), <1>10 DEF log_write, Panic, TypeOK, PcState
<1>11. ASSUME NEW b \in Block, evict(b) PROVE TypeOK'
  BY <1>11 DEF evict, TypeOK, PcState
<1>12. CASE Crash
  BY ZenonT(120), <1>12 DEF Crash, TypeOK, PcState
<1>13. CASE read_head
  BY <1>13 DEF read_head, TypeOK, PcState
<1>14. CASE recover_install
  <2>1. tail \in 1 .. Len(lh) /\ lh[tail] \in Block /\ tail \in 1 .. LOGSIZE
    <3>1. tail \in 1 .. Len(lh)
      BY <1>14 DEF recover_install, Ind, LogInv, DiskInv, RecoverInv
    <3>. QED BY <3>1, LogSeqs, LogAssumption
  <2>2. tail' \in 1 .. LOGSIZE + 1
    BY <1>14, <2>1, LogSeqs, LogAssumption DEF recover_install
  <2>3. disk' \in [Block -> Val] /\ buf' \in [Block -> Val \cup {None}] /\ dirty' \subseteq Block
    BY ZenonT(120), <1>14, <2>1 DEF recover_install, install_block, TypeOK
  <2>. QED BY <1>14, <2>2, <2>3 DEF recover_install, install_block, TypeOK, PcState
<1>15. CASE recover_clear
  BY <1>15 DEF recover_clear, TypeOK, PcState
<1>16. CASE UNCHANGED vars
  BY <1>16 DEF vars, diskVars, logVars, procVars, TypeOK, PcState
<1>. QED
  BY <1>1, <1>2, <1>3, <1>4, <1>5, <1>6, <1>7, <1>8, <1>9, <1>10, <1>11, <1>12, <1>13, <1>14, <1>15, <1>16 DEF Next, CommitStep, Recover

\* No buffer is held while somebody commits.
LEMMA NoneHeld == ASSUME Ind, NEW p \in Proc, Committing(p) PROVE Held = {}
<1>1. \A q \in Proc : pc[q] # "logging"
  BY DEF Ind, LogInv, ProcInv, CommitAlone, Active
<1>2. \A q \in Proc : target[q] = None
  BY <1>1 DEF Ind, LogInv, ProcInv
<1>. QED BY <1>2 DEF Held

LEMMA CacheStep == ASSUME Ind, [Next]_vars PROVE CacheInv'
<1> USE DEF Goto, diskVars, logVars, procVars, Running
<1>0. TypeOK /\ ProcInv /\ CacheInv /\ DiskInv
  BY DEF Ind, LogInv
<1> USE <1>0
<1>1. ASSUME NEW p \in Proc, begin_op(p) PROVE CacheInv'
  BY <1>1 DEF begin_op, CacheInv, Held
<1>2. ASSUME NEW p \in Proc, log_record(p) PROVE CacheInv'
  <2> USE <1>2
  <2> DEFINE t == target[p]
  <2>1. t \in Held /\ t \in Block /\ boot = "up"
    BY DEF log_record, TypeOK, ProcInv, Held
  <2> USE <2>1
  <2>2. Held' = Held \ {t}
    BY DEF log_record, TypeOK, ProcInv, Held
  <2>3. Entries(lh') = Entries(lh) \cup {t}
    BY LogSeqs, EntriesAppend DEF log_record
  <2>4. dirty' \cup Held' = dirty \cup Held /\ dirty' = dirty \cup {t}
    BY <2>2 DEF log_record
  <2>. QED BY <2>3, <2>4 DEF log_record, CacheInv
<1>3. ASSUME NEW p \in Proc, end_op(p) PROVE CacheInv'
  BY <1>3 DEF end_op, Panic, WakeupGoto, TypeOK, CacheInv, ProcInv, Held
<1>4. ASSUME NEW p \in Proc, commit(p) PROVE CacheInv'
  BY <1>4 DEF commit, CacheInv, Held
<1>5. ASSUME NEW p \in Proc, write_log(p) PROVE CacheInv'
  <2> USE <1>5
  <2> DEFINE x == lh[tail]
  <2>1. tail \in 1 .. Len(lh) /\ Logging /\ x \in dirty /\ x \in Block
    BY LogSeqs DEF write_log, DiskInv, CommitInv, Logging, Entries
  <2>2. buf' = buf
    BY <2>1 DEF write_log, bread, CacheInv, TypeOK
  <2>. QED BY <2>2 DEF write_log, CacheInv, Held
<1>6. ASSUME NEW p \in Proc, write_head(p) PROVE CacheInv'
  BY <1>6 DEF write_head, CacheInv, Held
<1>7. ASSUME NEW p \in Proc, install_trans(p) PROVE CacheInv'
  <2> DEFINE x == lh[tail]
  <2>1. tail \in 1 .. Len(lh) /\ x \in Block
    BY <1>7, LogSeqs DEF install_trans, DiskInv, CommitInv
  <2>2. Held = {} /\ Held' = Held
    <3>1. Held = {}
      BY <1>7, NoneHeld DEF install_trans, Committing
    <3>2. target' = target
      BY <1>7 DEF install_trans, install_block
    <3>. QED BY <3>1, <3>2 DEF Held
  <2>3. /\ \A b \in Block \ {x} : buf'[b] = buf[b] /\ disk'[b] = disk[b]
        /\ buf'[x] = disk'[x]
    <3>1. DOMAIN buf = Block /\ DOMAIN disk = Block
      BY DEF TypeOK
    <3>. QED BY <1>7, <2>1, <3>1 DEF install_trans, install_block
  <2>5. dirty' = dirty \ {x} /\ UNCHANGED <<lh, boot>>
    BY <1>7 DEF install_trans, install_block
  <2>. QED BY <2>2, <2>3, <2>5 DEF CacheInv, TypeOK
<1>8. ASSUME NEW p \in Proc, clear(p) PROVE CacheInv'
  <2>1. dirty = {}
    BY <1>8, LogSeqs DEF clear, DiskInv, CommitInv, Installed, CacheInv, Entries
  <2>. QED BY <1>8, <2>1 DEF clear, CacheInv, Held
<1>9. ASSUME NEW p \in Proc, end_commit(p) PROVE CacheInv'
  BY <1>9 DEF end_commit, CacheInv, Held
<1>10. ASSUME NEW p \in Proc, NEW b \in Block, NEW v \in Val, log_write(p, b, v) PROVE CacheInv'
  <2>1. CASE UNCHANGED <<buf, disk, dirty, target, lh, boot>>
    BY <2>1 DEF CacheInv, Held
  <2>2. CASE /\ buf' = [buf EXCEPT ![b] = v] /\ target' = [target EXCEPT ![p] = b]
             /\ UNCHANGED <<disk, dirty, lh, boot>>
    <3> USE <2>2
    <3>1. b # None /\ v # None /\ target[p] = None
      BY <1>10, LogAssumption DEF log_write, ProcInv
    <3>2. Held' = Held \cup {b}
      BY <3>1 DEF TypeOK, Held
    <3>3. buf'[b] = v /\ \A x \in Block \ {b} : buf'[x] = buf[x]
      BY DEF TypeOK
    <3>4. Held \subseteq Block /\ dirty \subseteq Block
      BY DEF TypeOK, Held
    <3>5. \A x \in dirty' \cup Held' : buf'[x] # None
      BY <3>1, <3>2, <3>3, <3>4 DEF CacheInv
    <3>6. \A x \in Block : buf'[x] \notin {None, disk'[x]} => x \in dirty' \cup Held'
      BY <3>2, <3>3 DEF CacheInv
    <3>. QED BY <3>5, <3>6 DEF CacheInv
  <2>. QED BY <1>10, <2>1, <2>2 DEF log_write, Panic
<1>11. ASSUME NEW b \in Block, evict(b) PROVE CacheInv'
  BY <1>11 DEF evict, TypeOK, CacheInv, ProcInv, Held
<1>12. CASE Crash
  <2>1. Held' = {} /\ dirty' = {}
    BY <1>12 DEF Crash, Held
  <2>. QED BY <1>12, <2>1 DEF Crash, CacheInv
<1>13. CASE read_head
  <2>1. Held' = Held /\ dirty = {}
    BY <1>13 DEF read_head, Held, CacheInv
  <2>. QED BY <1>13, <2>1 DEF read_head, CacheInv
<1>14. CASE recover_install
  <2> USE <1>14
  <2> DEFINE x == lh[tail]
  <2>1. tail \in 1 .. Len(lh) /\ x \in Block
    BY LogSeqs DEF recover_install, DiskInv, RecoverInv
  <2>2. Held' = Held /\ dirty' = {} /\ dirty = {}
    BY DEF recover_install, install_block, Held, CacheInv
  <2>3. Held = {}
    BY DEF recover_install, Held, ProcInv
  <2>4. \A b \in Block \ {x} : buf'[b] = buf[b] /\ disk'[b] = disk[b]
    BY <2>1 DEF recover_install, install_block, TypeOK
  <2>5. buf'[x] = disk'[x]
    BY <2>1 DEF recover_install, install_block, TypeOK
  <2>. QED BY <2>2, <2>3, <2>4, <2>5 DEF CacheInv
<1>15. CASE recover_clear
  <2>1. Held' = Held /\ dirty = {}
    BY <1>15 DEF recover_clear, Held, CacheInv
  <2>. QED BY <1>15, <2>1 DEF recover_clear, CacheInv
<1>16. CASE UNCHANGED vars
  <2>1. Held' = Held /\ Entries(lh') = Entries(lh)
    BY <1>16 DEF vars, Held
  <2>2. UNCHANGED <<disk, buf, dirty, boot>>
    BY <1>16 DEF vars
  <2>. QED BY <2>1, <2>2 DEF CacheInv
<1>. QED
  BY <1>1, <1>2, <1>3, <1>4, <1>5, <1>6, <1>7, <1>8, <1>9, <1>10, <1>11, <1>12, <1>13, <1>14, <1>15, <1>16 DEF Next, CommitStep, Recover
=============================================================================
