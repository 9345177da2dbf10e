-------------------------------- MODULE Blocks --------------------------------
(***************************************************************************)
(* The contents of files: block allocation, the linked list of indirect    *)
(* blocks that replaces xv6's direct and indirect addresses, reading,      *)
(* writing and truncating (fs.c, file.c), and mkfs.c, which lays out the   *)
(* first files.                                                            *)
(*                                                                         *)
(* A block is NINDIRECT words, and a file is a sequence of words.  The     *)
(* address of an indirect block is in addrs[0] or in the last word of the  *)
(* one before it; its other words are the addresses of data blocks.  The   *)
(* inode is locked during a call, so a call is a step; a long write is a   *)
(* call per chunk.  fs is the state on disk, text what the files should    *)
(* hold.                                                                   *)
(***************************************************************************)
EXTENDS Integers, Sequences, FiniteSets, FiniteSetsExt

CONSTANTS NINDIRECT,    \* words of a block
          NBLOCKS,      \* blocks of the disk; block 0 is metadata
          MAXFILE,      \* blocks of a file
          MaxChunk,     \* words that filewrite() writes in a transaction
          Sizes,        \* numbers of words that are read and written
          MkfsSizes,    \* sizes of the files mkfs is given
          MaxOps        \* bound on calls

Root == 1
Inode == {Root, 2}      \* the root directory and a file
Fd == {1, 2}
Block == 0..(NBLOCKS - 1)
Word == 0..(NINDIRECT - 1)
BSIZE == NINDIRECT

VARIABLES fs, text, fd, ops
blocksVars == <<fs, text, fd, ops>>

(***************************************************************************)
(* The disk: the bitmap, the blocks, and of each inode size and addrs[0].  *)
(* ret is the value the last operation returned.                           *)
(***************************************************************************)
ZeroBlock == [w \in Word |-> 0]
EmptyDisk == [bitmap |-> {0}, block |-> [b \in Block |-> ZeroBlock],
              size |-> [i \in Inode |-> 0], addr |-> [i \in Inode |-> 0], ret |-> 0]

balloc(s) ==
    LET b == Min(Block \ s.bitmap)
    IN  [s EXCEPT !.bitmap = @ \cup {b}, !.block[b] = ZeroBlock, !.ret = b]

bfree(s, b) == [s EXCEPT !.bitmap = @ \ {b}]

(***************************************************************************)
(* The address in word w of block b, allocated when it is missing.         *)
(***************************************************************************)
Address(s, b, w) ==
    IF s.block[b][w] # 0 THEN [s EXCEPT !.ret = s.block[b][w]]
    ELSE LET t == balloc(s) IN [t EXCEPT !.block[b][w] = t.ret]

FirstIndirect(s, i) ==
    IF s.addr[i] # 0 THEN [s EXCEPT !.ret = s.addr[i]]
    ELSE LET t == balloc(s) IN [t EXCEPT !.addr[i] = t.ret]

RECURSIVE NthIndirect(_, _, _)
NthIndirect(s, i, n) ==
    IF n = 0 THEN FirstIndirect(s, i)
    ELSE LET t == NthIndirect(s, i, n - 1) IN Address(t, t.ret, NINDIRECT - 1)

bmap(s, i, bn) ==
    LET t == NthIndirect(s, i, bn \div (NINDIRECT - 1))
    IN  Address(t, t.ret, bn % (NINDIRECT - 1))

(***************************************************************************)
(* readi() and writei(), a block at a time.                                *)
(***************************************************************************)
MinOf(a, b) == IF a < b THEN a ELSE b
Within(off) == off % BSIZE
Part(off, n) == MinOf(n, BSIZE - Within(off))

RECURSIVE ReadFrom(_, _, _, _)
ReadFrom(s, i, off, n) ==
    IF n = 0 THEN <<>>
    ELSE LET t == bmap(s, i, off \div BSIZE)
             m == Part(off, n)
         IN  [k \in 1..m |-> t.block[t.ret][Within(off) + k - 1]]
             \o ReadFrom(t, i, off + m, n - m)

readi(s, i, off, n) ==
    IF off > s.size[i] THEN <<>> ELSE ReadFrom(s, i, off, MinOf(n, s.size[i] - off))

Copy(block, w, data) ==
    [k \in Word |-> IF k \in w..(w + Len(data) - 1) THEN data[k - w + 1] ELSE block[k]]

RECURSIVE WriteTo(_, _, _, _)
WriteTo(s, i, off, data) ==
    IF data = <<>> THEN s
    ELSE LET t == bmap(s, i, off \div BSIZE)
             m == Part(off, Len(data))
         IN  WriteTo([t EXCEPT !.block[t.ret] = Copy(@, Within(off), SubSeq(data, 1, m))], i, off + m,
                     SubSeq(data, m + 1, Len(data)))

\* Mutant: the size is set to where the write ended.
writei_size(s, i, off, data) ==
    IF off > s.size[i] \/ off + Len(data) > MAXFILE * BSIZE THEN [s EXCEPT !.ret = -1]
    ELSE [WriteTo(s, i, off, data) EXCEPT !.size[i] = off + Len(data), !.ret = Len(data)]

writei(s, i, off, data) ==
    IF off > s.size[i] \/ off + Len(data) > MAXFILE * BSIZE THEN [s EXCEPT !.ret = -1]
    ELSE LET t == WriteTo(s, i, off, data)
             end == off + Len(data)
         IN  [t EXCEPT !.size[i] = IF Len(data) > 0 /\ end > @ THEN end ELSE @,
                       !.ret = Len(data)]

\* Mutant: addrs[0] keeps the freed block.
itrunc_keeps_addr(s, i) ==
    LET t == IF s.addr[i] # 0 THEN bfree(s, s.addr[i]) ELSE s
    IN  [t EXCEPT !.size[i] = 0]

(***************************************************************************)
(* itrunc() frees the blocks in addrs[], of which bmap() uses the first.   *)
(***************************************************************************)
itrunc(s, i) ==
    LET t == IF s.addr[i] # 0 THEN bfree(s, s.addr[i]) ELSE s
    IN  [t EXCEPT !.addr[i] = 0, !.size[i] = 0]

-----------------------------------------------------------------------------
(***************************************************************************)
(* mkfs: iappend() has its own copy of the walk; it takes blocks in order  *)
(* from freeblock (here ret of the disk being made), and balloc() of mkfs  *)
(* marks them all in the end.                                              *)
(***************************************************************************)
Take(s, b, w) ==
    IF s.block[b][w] # 0 THEN s
    ELSE [s EXCEPT !.block[b][w] = s.ret, !.ret = @ + 1]

RECURSIVE Walk(_, _, _)
Walk(s, b, n) ==
    IF n = 0 THEN [disk |-> s, last |-> b]
    ELSE LET t == Take(s, b, NINDIRECT - 1) IN Walk(t, t.block[b][NINDIRECT - 1], n - 1)

RECURSIVE iappend(_, _, _)
iappend(s, i, data) ==
    IF data = <<>> THEN s
    ELSE LET off == s.size[i]
             fbn == off \div BSIZE
             head == IF s.addr[i] = 0 THEN [s EXCEPT !.addr[i] = s.ret, !.ret = @ + 1] ELSE s
             w == Walk(head, head.addr[i], fbn \div (NINDIRECT - 1))
             t == Take(w.disk, w.last, fbn % (NINDIRECT - 1))
             x == t.block[w.last][fbn % (NINDIRECT - 1)]
             m == Part(off, Len(data))
         IN  iappend([t EXCEPT !.size[i] = off + m,
                               !.block[x] = Copy(@, Within(off), SubSeq(data, 1, m))],
                     i, SubSeq(data, m + 1, Len(data)))

(***************************************************************************)
(* The end of main(): the size of the root directory is rounded up beyond  *)
(* its last block, which then must not be full.                            *)
(***************************************************************************)
Rounded(n) == (n \div BSIZE + 1) * BSIZE
mkfs(s) == [s EXCEPT !.size[Root] = Rounded(@), !.bitmap = 0..(s.ret - 1)]

(***************************************************************************)
(* Words that tell which call wrote them and where.                        *)
(***************************************************************************)
Pattern(call, n) == [k \in 1..n |-> 100 * call + k]

Init ==
    /\ \E n1, n2 \in MkfsSizes :
          LET t1 == Pattern(1, n1)
              t2 == Pattern(2, n2)
          IN  /\ n1 % BSIZE # 0
              /\ fs = mkfs(iappend(iappend([EmptyDisk EXCEPT !.ret = 1], Root, t1), 2, t2))
              /\ text = [i \in Inode |-> IF i = Root THEN t1 \o [k \in 1..(Rounded(n1) - n1) |-> 0]
                                                  ELSE t2]
    /\ fd = [f \in Fd |-> [ip |-> 0, off |-> 0, data |-> <<>>]]
    /\ ops = 2

(***************************************************************************)
(* balloc() panics on a full disk, so calls leave room for the longest     *)
(* file.                                                                   *)
(***************************************************************************)
Room == Cardinality(Block \ fs.bitmap) > 2 * MAXFILE + 1
Op == ops < MaxOps /\ ops' = ops + 1

open(f, i) ==
    /\ Op
    /\ fd[f].data = <<>>
    /\ fd' = [fd EXCEPT ![f] = [ip |-> i, off |-> 0, data |-> <<>>]]
    /\ UNCHANGED <<fs, text>>

sys_write(f, n) ==
    /\ Op
    /\ fd[f].ip \notin {0, Root} /\ fd[f].data = <<>>
    /\ fd' = [fd EXCEPT ![f].data = Pattern(ops', n)]
    /\ UNCHANGED <<fs, text>>

(***************************************************************************)
(* What a write should do to the text of a file.                           *)
(***************************************************************************)
Overwrite(t, off, data) ==
    [k \in 1..Max({Len(t), off + Len(data)}) |->
        IF k \in (off + 1)..(off + Len(data)) THEN data[k - off] ELSE t[k]]

(***************************************************************************)
(* A turn of the loop of filewrite(): the offset moves with ip locked.     *)
(***************************************************************************)
filewrite(f) ==
    LET d == fd[f]
        i == d.ip
        n == MinOf(Len(d.data), MaxChunk)
        s == writei(fs, i, d.off, SubSeq(d.data, 1, n))
    IN
    /\ d.data # <<>> /\ Room
    /\ fs' = s
    /\ IF s.ret < 0
       THEN fd' = [fd EXCEPT ![f].data = <<>>] /\ UNCHANGED text
       ELSE /\ fd' = [fd EXCEPT ![f] = [@ EXCEPT !.off = d.off + s.ret,
                                                 !.data = SubSeq(d.data, n + 1, Len(d.data))]]
            /\ text' = [text EXCEPT ![i] = Overwrite(@, d.off, SubSeq(d.data, 1, n))]
    /\ UNCHANGED ops

fileread(f, n) ==
    /\ Op
    /\ fd[f].ip # 0 /\ fd[f].data = <<>>
    /\ LET r == readi(fs, fd[f].ip, fd[f].off, n)
       IN  r # <<>> /\ fd' = [fd EXCEPT ![f].off = @ + Len(r)]
    /\ UNCHANGED <<fs, text>>

(***************************************************************************)
(* The directory, one word per entry: dirlink() takes the first empty one  *)
(* or the end, and sys_unlink() clears one.  A full directory would panic. *)
(***************************************************************************)
WriteEntry(off, word) ==
    /\ Op /\ Room /\ off < MAXFILE * BSIZE
    /\ fs' = writei(fs, Root, off, <<word>>)
    /\ text' = [text EXCEPT ![Root] = Overwrite(@, off, <<word>>)]
    /\ UNCHANGED fd

Entry(off) == readi(fs, Root, off, 1)

dirlink ==
    LET empty == {off \in 0..(fs.size[Root] - 1) : Entry(off) = <<0>>}
    IN  WriteEntry(IF empty = {} THEN fs.size[Root] ELSE Min(empty), 100 * ops')

unlink == \E off \in 0..(fs.size[Root] - 1) : Entry(off) # <<0>> /\ WriteEntry(off, 0)

(***************************************************************************)
(* The last close of a file without links: iput() truncates it, and its    *)
(* inode serves a new file.                                                *)
(***************************************************************************)
remove(i) ==
    /\ Op
    /\ i # Root
    /\ \A f \in Fd : fd[f].ip = i => fd[f].data = <<>>
    /\ fd' = [f \in Fd |-> IF fd[f].ip = i THEN [fd[f] EXCEPT !.ip = 0] ELSE fd[f]]
    /\ fs' = itrunc(fs, i)
    /\ text' = [text EXCEPT ![i] = <<>>]

Finished == ops = MaxOps /\ (\A f \in Fd : fd[f].data = <<>> \/ ~Room) /\ UNCHANGED blocksVars

Next ==
    \/ \E f \in Fd :
          \/ filewrite(f)
          \/ \E i \in Inode : open(f, i)
          \/ \E n \in Sizes : sys_write(f, n) \/ fileread(f, n)
    \/ \E i \in Inode : remove(i)
    \/ dirlink \/ unlink
    \/ Finished

Spec == Init /\ [][Next]_blocksVars

-----------------------------------------------------------------------------
(***************************************************************************)
(* The blocks of a file, found as bmap() finds them.                       *)
(***************************************************************************)
RECURSIVE Chain(_)
Chain(b) == IF b = 0 THEN {} ELSE {b} \cup Chain(fs.block[b][NINDIRECT - 1])

Indirect(i) == Chain(fs.addr[i])
DataBlocks(i) == {fs.block[b][w] : b \in Indirect(i), w \in 0..(NINDIRECT - 2)} \ {0}
FileBlocks(i) == Indirect(i) \cup DataBlocks(i)
BlocksOfSize(n) == (n + BSIZE - 1) \div BSIZE

(* Files hold what was written to them, whoever wrote it, mkfs or the      *)
(* kernel, and whatever was overwritten, extended or removed before        *)
(* (bmap, readi, writei, itrunc, iappend).                                 *)
ReadBack == \A i \in Inode : readi(fs, i, 0, Len(text[i]) + 1) = text[i]

(* No block belongs to two files or to one file twice, every block of a    *)
(* file is marked, and every block below its size is there, so that        *)
(* reading, which runs outside a transaction (file.c:107), allocates none. *)
BlocksOwned ==
    /\ \A i, j \in Inode : i # j => FileBlocks(i) \cap FileBlocks(j) = {}
    /\ \A i \in Inode : /\ FileBlocks(i) \subseteq fs.bitmap \ {0}
                        /\ Indirect(i) \cap DataBlocks(i) = {}
                        /\ Cardinality(DataBlocks(i)) = BlocksOfSize(fs.size[i])

(* itrunc() discards the contents of a file ("discard contents",           *)
(* fs.c:469): every marked block belongs to a file.                        *)
NoBlockLost == fs.bitmap \ {0} = UNION {FileBlocks(i) : i \in Inode}
=============================================================================
