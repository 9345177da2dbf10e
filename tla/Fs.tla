---------------------------------- MODULE Fs ----------------------------------
(***************************************************************************)
(* Inodes, directories, path names, the file table and the system calls on *)
(* them (fs.c, file.c, sysfile.c, and what fork() and exit() do to files). *)
(*                                                                         *)
(* A disk inode has a type and a link count; a directory maps names to     *)
(* inode numbers.  An entry of the inode cache has a count of references   *)
(* and, when valid, a copy of the disk inode.  What a process does with    *)
(* one inode locked is one step; a process that locks a second inode keeps *)
(* the first in `lock'.  iput() is a subroutine: put is its argument and   *)
(* then the label it returns to.  The contents of files are in Blocks, the *)
(* transactions in Log: a crash finds each call done or not begun.         *)
(***************************************************************************)
EXTENDS Integers, Sequences, FiniteSets, FiniteSetsExt

CONSTANTS Process, FirstProc,  \* processes; the one that never exits
          Name, Path,          \* names of files, and the paths calls are given
          NINUM,               \* disk inodes; number 1 is the root directory
          NFILE, NOFILE,       \* files of the system, descriptors of a process
          Nobody,
          MaxSyscalls, MaxCrashes \* bounds of a behaviour

ASSUME FsAssumption ==
    /\ IsFiniteSet(Process) /\ FirstProc \in Process
    /\ Path \subseteq Seq(Name)
    /\ NINUM \in Nat \ {0} /\ NFILE \in Nat /\ NOFILE \in Nat

NINODE == NINUM                \* the inode cache does not run out
Inum == 1..NINUM
Slot == 1..NINODE
File == 1..NFILE
Fd == 1..NOFILE
ROOTINO == 1

VARIABLES
    dinode,     \* Inum -> type and nlink, on disk
    dirs,       \* Inum -> entries of the directory, on disk
    icache,     \* Slot -> inum, ref, valid and the copy of the disk inode
    lock,       \* Slot -> who holds ip->lock between steps
    ftable,     \* File -> ref and ip
    ofile, cwd, \* Process -> descriptors, current directory (0: no process)
    proc,       \* Process -> pc and registers of its system call
    orphaned,   \* something was created in a removed directory (history)
    syscalls, crashes

disk == <<dinode, dirs>>
memory == <<icache, lock, ftable, ofile, cwd, proc>>
fsVars == <<disk, memory, orphaned, syscalls, crashes>>

NoCall == [pc |-> "idle", call |-> "none", path |-> <<>>, new |-> <<>>, ip |-> 0, dp |-> 0,
           old |-> 0, put |-> 0, then |-> "none"]
FreeInode == [inum |-> 0, ref |-> 0, valid |-> FALSE, type |-> "free", nlink |-> 0]

(***************************************************************************)
(* What mkfs makes, and memory after boot: namei("/") of userinit().       *)
(***************************************************************************)
BootedIcache == [s \in Slot |-> IF s = 1 THEN [FreeInode EXCEPT !.inum = ROOTINO, !.ref = 1]
                                         ELSE FreeInode]
Unlocked == [s \in Slot |-> Nobody]
NoFiles == [f \in File |-> [ref |-> 0, ip |-> 0]]
NoDescriptors == [p \in Process |-> [fd \in Fd |-> 0]]
BootedCwd == [p \in Process |-> IF p = FirstProc THEN 1 ELSE 0]

FsInit ==
    /\ dinode = [i \in Inum |-> IF i = ROOTINO THEN [type |-> "dir", nlink |-> 1]
                                               ELSE [type |-> "free", nlink |-> 0]]
    /\ dirs = [i \in Inum |-> IF i = ROOTINO THEN [x \in {".", ".."} |-> ROOTINO] ELSE <<>>]
    /\ icache = BootedIcache /\ lock = Unlocked
    /\ ftable = NoFiles /\ ofile = NoDescriptors /\ cwd = BootedCwd
    /\ proc = [p \in Process |-> NoCall]
    /\ orphaned = FALSE /\ syscalls = 0 /\ crashes = 0

-----------------------------------------------------------------------------
(***************************************************************************)
(* The inode cache.                                                        *)
(***************************************************************************)
IgetSlot(i) ==
    LET cached == {s \in Slot : icache[s].ref > 0 /\ icache[s].inum = i}
    IN  IF cached # {} THEN Min(cached) ELSE Min({s \in Slot : icache[s].ref = 0})

idup(s) == [icache EXCEPT ![s].ref = @ + 1]

iget(i) ==
    LET s == IgetSlot(i)
    IN  IF icache[s].ref > 0 THEN idup(s)
        ELSE [icache EXCEPT ![s] = [FreeInode EXCEPT !.inum = i, !.ref = 1]]

Load(c, s) ==
    IF c[s].valid THEN c
    ELSE [c EXCEPT ![s] = [@ EXCEPT !.valid = TRUE, !.type = dinode[c[s].inum].type,
                                    !.nlink = dinode[c[s].inum].nlink]]

ilock(s) == Load(icache, s)

Free(s) == lock[s] = Nobody

(***************************************************************************)
(* iupdate() after ip->nlink += n: cache and disk together.                *)
(***************************************************************************)
Linked(c, s, n) == [c EXCEPT ![s].nlink = @ + n]
iupdate(c, s) == [dinode EXCEPT ![c[s].inum] = [type |-> c[s].type, nlink |-> c[s].nlink]]

(***************************************************************************)
(* iput(): with the lock, free an inode that has no link and no other      *)
(* reference; then, with icache.lock, drop the reference.                  *)
(***************************************************************************)
LastReference(s) == icache[s].valid /\ icache[s].nlink = 0 /\ icache[s].ref = 1
NoLinks(s) == icache[s].valid /\ icache[s].nlink = 0

\* Mutant: other references are ignored.
iput_ignores_ref(p) ==
    LET s == proc[p].put IN
    /\ proc[p].pc = "iput" /\ Free(s)
    /\ IF NoLinks(s)
       THEN lock' = [lock EXCEPT ![s] = p] /\ proc' = [proc EXCEPT ![p].pc = "iput_free"]
       ELSE lock' = lock /\ proc' = [proc EXCEPT ![p].pc = "iput_unref"]
    /\ UNCHANGED <<disk, icache, ftable, ofile, cwd, orphaned, syscalls, crashes>>

iput(p) ==
    LET s == proc[p].put IN
    /\ proc[p].pc = "iput" /\ Free(s)
    /\ IF LastReference(s)
       THEN lock' = [lock EXCEPT ![s] = p] /\ proc' = [proc EXCEPT ![p].pc = "iput_free"]
       ELSE lock' = lock /\ proc' = [proc EXCEPT ![p].pc = "iput_unref"]
    /\ UNCHANGED <<disk, icache, ftable, ofile, cwd, orphaned, syscalls, crashes>>

iput_free(p) ==
    LET s == proc[p].put IN
    /\ proc[p].pc = "iput_free"
    /\ dinode' = [dinode EXCEPT ![icache[s].inum].type = "free"]
    /\ dirs' = [dirs EXCEPT ![icache[s].inum] = <<>>]
    /\ icache' = [icache EXCEPT ![s] = [@ EXCEPT !.type = "free", !.valid = FALSE]]
    /\ lock' = [lock EXCEPT ![s] = Nobody]
    /\ proc' = [proc EXCEPT ![p].pc = "iput_unref"]
    /\ UNCHANGED <<ftable, ofile, cwd, orphaned, syscalls, crashes>>

(***************************************************************************)
(* The call returns when iput() was its last act; chdir() then sets cwd.   *)
(***************************************************************************)
iput_unref(p) ==
    LET r == proc[p] IN
    /\ r.pc = "iput_unref"
    /\ icache' = [icache EXCEPT ![r.put].ref = @ - 1]
    /\ cwd' = IF r.then = "chdir" THEN [cwd EXCEPT ![p] = r.ip] ELSE cwd
    /\ proc' = [proc EXCEPT ![p] = IF r.then \in {"idle", "chdir"} THEN NoCall
                                   ELSE [r EXCEPT !.pc = r.then, !.put = 0]]
    /\ UNCHANGED <<disk, lock, ftable, ofile, orphaned, syscalls, crashes>>

-----------------------------------------------------------------------------
(***************************************************************************)
(* namex(): from the root or, for the relative paths, from cwd, one locked *)
(* directory at a time.  The calls that name a file to make or to remove   *)
(* stop one level early, with the parent unlocked.                         *)
(***************************************************************************)
Parent(call) == call \in {"create", "mkdir", "mknod", "unlink", "link_new"}
At(p, l) == proc[p].pc = l
Put(p, r, s, l) == proc' = [proc EXCEPT ![p] = [r EXCEPT !.pc = "iput", !.put = s, !.then = l]]
Fail(r) == IF r.call = "link_new" THEN "link_bad" ELSE "idle"
Inode(s) == ilock(s)[s]
dirlookup(s, n) == LET d == dirs[icache[s].inum] IN IF n \in DOMAIN d THEN d[n] ELSE 0

(***************************************************************************)
(* skipelem() and dirlookup() on the next element.                         *)
(***************************************************************************)
namex(p) ==
    LET r == proc[p]
        s == r.ip
        last == Parent(r.call) /\ Len(r.path) = 1
        next == dirlookup(s, Head(r.path))
    IN
    /\ At(p, "namex") /\ r.path # <<>> /\ Free(s)
    /\ IF Inode(s).type # "dir" \/ (~last /\ next = 0)
       THEN icache' = ilock(s) /\ Put(p, [r EXCEPT !.ip = 0], s, Fail(r))
       ELSE IF last
       THEN /\ icache' = ilock(s)
            /\ proc' = [proc EXCEPT ![p] = [r EXCEPT !.pc = "parent", !.ip = 0, !.dp = s]]
       ELSE /\ icache' = Load(iget(next), s)
            /\ Put(p, [r EXCEPT !.ip = IgetSlot(next), !.path = Tail(@)], s, "namex")
    /\ UNCHANGED <<disk, lock, ftable, ofile, cwd, orphaned, syscalls, crashes>>

(***************************************************************************)
(* The path was empty: "/" has no parent.                                  *)
(***************************************************************************)
namex_no_parent(p) ==
    LET r == proc[p] IN
    /\ At(p, "namex") /\ r.path = <<>> /\ Parent(r.call)
    /\ Put(p, [r EXCEPT !.ip = 0], r.ip, Fail(r))
    /\ UNCHANGED <<disk, icache, lock, ftable, ofile, cwd, orphaned, syscalls, crashes>>

Found(p, call) == At(p, "namex") /\ proc[p].path = <<>> /\ proc[p].call = call /\ Free(proc[p].ip)

(***************************************************************************)
(* Start of a system call: begin_op(), and namex() takes its first         *)
(* reference.  ialloc() panics when the disk has no inode left, so as many *)
(* are kept free as there are calls that make one.                         *)
(***************************************************************************)
Makers == {p \in Process : proc[p].call \in {"create", "mkdir", "mknod"}}
FreeInums == {i \in Inum : dinode[i].type = "free"}

Begin(p, call, path, new, relative) ==
    /\ At(p, "idle") /\ cwd[p] # 0 /\ syscalls < MaxSyscalls
    /\ call \in {"create", "mkdir", "mknod"} => Cardinality(FreeInums) > Cardinality(Makers)
    /\ syscalls' = syscalls + 1
    /\ LET s == IF relative THEN cwd[p] ELSE IgetSlot(ROOTINO)
       IN  /\ icache' = IF relative THEN idup(s) ELSE iget(ROOTINO)
           /\ proc' = [proc EXCEPT ![p] = [NoCall EXCEPT !.pc = "namex", !.call = call,
                                           !.path = path, !.new = new, !.ip = s]]
    /\ UNCHANGED <<disk, lock, ftable, ofile, cwd, orphaned, crashes>>

(***************************************************************************)
(* End of sys_open() with ip locked by the caller: filealloc() and         *)
(* fdalloc() give a descriptor, or the inode is put back.                  *)
(***************************************************************************)
filealloc(p, s) ==
    LET files == {f \in File : ftable[f].ref = 0}
        fds == {fd \in Fd : ofile[p][fd] = 0}
    IN  IF files = {} \/ fds = {}
        THEN Put(p, [proc[p] EXCEPT !.ip = 0], s, "idle") /\ UNCHANGED <<ftable, ofile>>
        ELSE /\ ftable' = [ftable EXCEPT ![Min(files)] = [ref |-> 1, ip |-> s]]
             /\ ofile' = [ofile EXCEPT ![p][Min(fds)] = Min(files)]
             /\ proc' = [proc EXCEPT ![p] = NoCall]

sys_open(p, rdonly) ==
    LET s == proc[p].ip IN
    /\ Found(p, "open")
    /\ icache' = ilock(s)
    /\ IF Inode(s).type = "dir" /\ ~rdonly
       THEN Put(p, [proc[p] EXCEPT !.ip = 0], s, "idle") /\ UNCHANGED <<ftable, ofile>>
       ELSE filealloc(p, s)
    /\ UNCHANGED <<disk, lock, cwd, orphaned, syscalls, crashes>>

(***************************************************************************)
(* The old directory is put before cwd names the new one.                  *)
(***************************************************************************)
sys_chdir(p) ==
    LET s == proc[p].ip IN
    /\ Found(p, "chdir")
    /\ icache' = ilock(s)
    /\ IF Inode(s).type # "dir" THEN Put(p, [proc[p] EXCEPT !.ip = 0], s, "idle")
                                ELSE Put(p, proc[p], cwd[p], "chdir")
    /\ UNCHANGED <<disk, lock, ftable, ofile, cwd, orphaned, syscalls, crashes>>

(***************************************************************************)
(* create(): an entry that is there is returned when it is a file and a    *)
(* file was asked for.  Else ialloc() takes the first free disk inode.     *)
(***************************************************************************)
TypeOf(call) == IF call = "mkdir" THEN "dir" ELSE IF call = "mknod" THEN "dev" ELSE "file"

create_parent(p) ==
    LET r == proc[p]
        i == dirlookup(r.dp, Head(r.path))
    IN
    /\ At(p, "parent") /\ p \in Makers /\ Free(r.dp)
    /\ IF i # 0
       THEN /\ icache' = Load(iget(i), r.dp)
            /\ Put(p, [r EXCEPT !.ip = IgetSlot(i), !.dp = 0], r.dp, "create_exists")
            /\ UNCHANGED <<dinode, lock>>
       ELSE \E new \in FreeInums :
            /\ \A j \in FreeInums : new <= j
            /\ dinode' = [dinode EXCEPT ![new] = [type |-> TypeOf(r.call), nlink |-> 0]]
            /\ icache' = Load(iget(new), r.dp)
            /\ lock' = [lock EXCEPT ![r.dp] = p]
            /\ proc' = [proc EXCEPT ![p] = [r EXCEPT !.pc = "create", !.ip = IgetSlot(new)]]
    /\ UNCHANGED <<dirs, ftable, ofile, cwd, orphaned, syscalls, crashes>>

create_exists(p) ==
    LET s == proc[p].ip IN
    /\ At(p, "create_exists") /\ Free(s)
    /\ icache' = ilock(s)
    /\ IF proc[p].call = "create" /\ Inode(s).type = "file"
       THEN filealloc(p, s)
       ELSE Put(p, [proc[p] EXCEPT !.ip = 0], s, "idle") /\ UNCHANGED <<ftable, ofile>>
    /\ UNCHANGED <<disk, lock, cwd, orphaned, syscalls, crashes>>

(***************************************************************************)
(* A new directory gets "." and "..", and ".." counts as a link of dp.     *)
(***************************************************************************)
dirlink(d, s, n, i) ==
    [d EXCEPT ![icache[s].inum] = [x \in DOMAIN @ \cup {n} |-> IF x = n THEN i ELSE @[x]]]

create(p) ==
    LET r == proc[p]
        i == icache[r.ip].inum
        c1 == Linked(ilock(r.ip), r.ip, 1)
        dir == r.call = "mkdir"
        c2 == IF dir THEN Linked(c1, r.dp, 1) ELSE c1
        d1 == IF dir THEN dirlink(dirlink(dirs, r.ip, ".", i), r.ip, "..", icache[r.dp].inum)
                     ELSE dirs
    IN
    /\ At(p, "create") /\ Free(r.ip)
    /\ icache' = c2
    /\ dinode' = [dinode EXCEPT ![i].nlink = 1, ![icache[r.dp].inum].nlink = c2[r.dp].nlink]
    /\ dirs' = dirlink(d1, r.dp, Head(r.path), i)
    /\ orphaned' = (orphaned \/ icache[r.dp].nlink = 0)
    /\ lock' = [lock EXCEPT ![r.dp] = Nobody, ![r.ip] = p]
    /\ Put(p, [r EXCEPT !.dp = 0], r.dp, "created")
    /\ UNCHANGED <<ftable, ofile, cwd, syscalls, crashes>>

created(p) ==
    LET s == proc[p].ip IN
    /\ At(p, "created")
    /\ lock' = [lock EXCEPT ![s] = Nobody]
    /\ IF proc[p].call = "create" THEN filealloc(p, s)
       ELSE Put(p, [proc[p] EXCEPT !.ip = 0], s, "idle") /\ UNCHANGED <<ftable, ofile>>
    /\ UNCHANGED <<disk, icache, cwd, orphaned, syscalls, crashes>>

(***************************************************************************)
(* sys_unlink(): lock the parent, then the file; a directory must be empty.*)
(* The parent is released before the link count of the file goes down.     *)
(***************************************************************************)
isdirempty(s) == DOMAIN dirs[icache[s].inum] \subseteq {".", ".."}

unlink_parent(p) ==
    LET r == proc[p]
        i == dirlookup(r.dp, Head(r.path))
    IN
    /\ At(p, "parent") /\ r.call = "unlink" /\ Free(r.dp)
    /\ IF i = 0 \/ Head(r.path) \in {".", ".."}
       THEN icache' = ilock(r.dp) /\ Put(p, [r EXCEPT !.dp = 0], r.dp, "idle") /\ UNCHANGED lock
       ELSE /\ icache' = Load(iget(i), r.dp)
            /\ lock' = [lock EXCEPT ![r.dp] = p]
            /\ proc' = [proc EXCEPT ![p] = [r EXCEPT !.pc = "unlink", !.ip = IgetSlot(i)]]
    /\ UNCHANGED <<disk, ftable, ofile, cwd, orphaned, syscalls, crashes>>

sys_unlink(p) ==
    LET r == proc[p]
        n == Head(r.path)
        d == icache[r.dp].inum
        dir == Inode(r.ip).type = "dir"
        c == IF dir THEN Linked(ilock(r.ip), r.dp, -1) ELSE ilock(r.ip)
    IN
    /\ At(p, "unlink") /\ Free(r.ip)
    /\ IF dir /\ ~isdirempty(r.ip)
       THEN /\ Put(p, [r EXCEPT !.ip = 0], r.ip, "unlock_dp")
            /\ icache' = ilock(r.ip)
            /\ UNCHANGED <<disk, lock>>
       ELSE /\ dirs' = [dirs EXCEPT ![d] = [x \in DOMAIN @ \ {n} |-> @[x]]]
            /\ icache' = c
            /\ dinode' = iupdate(c, r.dp)
            /\ lock' = [lock EXCEPT ![r.dp] = Nobody, ![r.ip] = p]
            /\ Put(p, [r EXCEPT !.dp = 0], r.dp, "unlinked")
    /\ UNCHANGED <<ftable, ofile, cwd, orphaned, syscalls, crashes>>

unlinked(p) ==
    LET s == proc[p].ip
        c == Linked(icache, s, -1)
    IN
    /\ At(p, "unlinked")
    /\ icache' = c
    /\ dinode' = iupdate(c, s)
    /\ lock' = [lock EXCEPT ![s] = Nobody]
    /\ Put(p, [proc[p] EXCEPT !.ip = 0], s, "idle")
    /\ UNCHANGED <<dirs, ftable, ofile, cwd, orphaned, syscalls, crashes>>

(***************************************************************************)
(* iunlockput(dp) of the paths that give up with the parent locked.        *)
(***************************************************************************)
unlock_dp(p) ==
    LET r == proc[p] IN
    /\ At(p, "unlock_dp")
    /\ lock' = [lock EXCEPT ![r.dp] = Nobody]
    /\ Put(p, [r EXCEPT !.dp = 0], r.dp, Fail(r))
    /\ UNCHANGED <<disk, icache, ftable, ofile, cwd, orphaned, syscalls, crashes>>

(***************************************************************************)
(* sys_link(): count the new link first, then look for its directory; when *)
(* that fails, `bad' takes the count back.                                 *)
(***************************************************************************)
link_old(p) ==
    LET r == proc[p]
        c == Linked(ilock(r.ip), r.ip, 1)
    IN
    /\ Found(p, "link")
    /\ IF Inode(r.ip).type = "dir"
       THEN /\ icache' = ilock(r.ip)
            /\ Put(p, [r EXCEPT !.ip = 0], r.ip, "idle")
            /\ UNCHANGED dinode
       ELSE /\ dinode' = iupdate(c, r.ip)
            /\ icache' = c
            /\ proc' = [proc EXCEPT ![p] = [r EXCEPT !.pc = "link_namex", !.call = "link_new",
                                            !.old = r.ip, !.ip = 0, !.path = r.new, !.new = <<>>]]
    /\ UNCHANGED <<dirs, lock, ftable, ofile, cwd, orphaned, syscalls, crashes>>

link_namex(p) ==
    /\ At(p, "link_namex")
    /\ icache' = iget(ROOTINO)
    /\ proc' = [proc EXCEPT ![p] = [@ EXCEPT !.pc = "namex", !.ip = IgetSlot(ROOTINO)]]
    /\ UNCHANGED <<disk, lock, ftable, ofile, cwd, orphaned, syscalls, crashes>>

sys_link(p) ==
    LET r == proc[p]
        i == dirlookup(r.dp, Head(r.path))
    IN
    /\ At(p, "parent") /\ r.call = "link_new" /\ Free(r.dp)
    /\ IF i # 0
       THEN /\ icache' = Load(iget(i), r.dp)
            /\ lock' = [lock EXCEPT ![r.dp] = p]
            /\ Put(p, r, IgetSlot(i), "unlock_dp")
            /\ UNCHANGED <<dirs, orphaned>>
       ELSE /\ icache' = ilock(r.dp)
            /\ dirs' = dirlink(dirs, r.dp, Head(r.path), icache[r.old].inum)
            /\ orphaned' = (orphaned \/ Inode(r.dp).nlink = 0)
            /\ Put(p, [r EXCEPT !.dp = 0, !.call = "linked"], r.dp, "linked")
            /\ UNCHANGED lock
    /\ UNCHANGED <<dinode, ftable, ofile, cwd, syscalls, crashes>>

linked(p) ==
    /\ At(p, "linked")
    /\ Put(p, [proc[p] EXCEPT !.old = 0], proc[p].old, "idle")
    /\ UNCHANGED <<disk, icache, lock, ftable, ofile, cwd, orphaned, syscalls, crashes>>

\* Mutant: the link that was not made stays counted.
link_bad_keeps_count(p) ==
    /\ At(p, "link_bad") /\ Free(proc[p].old)
    /\ icache' = ilock(proc[p].old)
    /\ Put(p, [proc[p] EXCEPT !.old = 0], proc[p].old, "idle")
    /\ UNCHANGED <<disk, lock, ftable, ofile, cwd, orphaned, syscalls, crashes>>

link_bad(p) ==
    LET s == proc[p].old
        c == Linked(ilock(s), s, -1)
    IN
    /\ At(p, "link_bad") /\ Free(s)
    /\ icache' = c
    /\ dinode' = iupdate(c, s)
    /\ Put(p, [proc[p] EXCEPT !.old = 0], s, "idle")
    /\ UNCHANGED <<dirs, lock, ftable, ofile, cwd, orphaned, syscalls, crashes>>

-----------------------------------------------------------------------------
(***************************************************************************)
(* Descriptors: dup(), close(), and what fork() and exit() do to them.     *)
(***************************************************************************)
Call == syscalls < MaxSyscalls /\ syscalls' = syscalls + 1

sys_dup(p, fd) ==
    /\ At(p, "idle") /\ ofile[p][fd] # 0 /\ Call
    /\ \E n \in Fd :
          /\ ofile[p][n] = 0 /\ \A m \in 1..(n - 1) : ofile[p][m] # 0
          /\ ofile' = [ofile EXCEPT ![p][n] = ofile[p][fd]]
    /\ ftable' = [ftable EXCEPT ![ofile[p][fd]].ref = @ + 1]
    /\ UNCHANGED <<disk, icache, lock, cwd, proc, orphaned, crashes>>

\* Mutant: the inode is put although others have the file open.
fileclose_always_puts(p, fd, l) ==
    LET f == ofile[p][fd] IN
    /\ f # 0
    /\ ofile' = [ofile EXCEPT ![p][fd] = 0]
    /\ ftable' = [ftable EXCEPT ![f] = IF ftable[f].ref > 1 THEN [ftable[f] EXCEPT !.ref = @ - 1]
                                                              ELSE [ref |-> 0, ip |-> 0]]
    /\ Put(p, NoCall, ftable[f].ip, l)
    /\ UNCHANGED <<disk, icache, lock, cwd, orphaned, crashes>>

fileclose(p, fd, l) ==
    LET f == ofile[p][fd] IN
    /\ f # 0
    /\ ofile' = [ofile EXCEPT ![p][fd] = 0]
    /\ ftable' = [ftable EXCEPT ![f] = IF ftable[f].ref > 1 THEN [ftable[f] EXCEPT !.ref = @ - 1]
                                                              ELSE [ref |-> 0, ip |-> 0]]
    /\ IF ftable[f].ref > 1
       THEN proc' = [proc EXCEPT ![p] = IF l = "idle" THEN NoCall ELSE [NoCall EXCEPT !.pc = l]]
       ELSE Put(p, NoCall, ftable[f].ip, l)
    /\ UNCHANGED <<disk, icache, lock, cwd, orphaned, crashes>>

sys_close(p, fd) == At(p, "idle") /\ Call /\ fileclose(p, fd, "idle")

Copies(p, f) == Cardinality({fd \in Fd : ofile[p][fd] = f})

fork_files(p, q) ==
    /\ At(p, "idle") /\ cwd[p] # 0 /\ At(q, "idle") /\ cwd[q] = 0 /\ Call
    /\ ofile' = [ofile EXCEPT ![q] = ofile[p]]
    /\ ftable' = [f \in File |-> [ftable[f] EXCEPT !.ref = @ + Copies(p, f)]]
    /\ icache' = idup(cwd[p])
    /\ cwd' = [cwd EXCEPT ![q] = cwd[p]]
    /\ UNCHANGED <<disk, lock, proc, orphaned, crashes>>

exit(p) ==
    /\ p # FirstProc /\ At(p, "idle") /\ cwd[p] # 0 /\ Call
    /\ proc' = [proc EXCEPT ![p].pc = "exit"]
    /\ UNCHANGED <<disk, icache, lock, ftable, ofile, cwd, orphaned, crashes>>

exit_close(p) ==
    /\ At(p, "exit")
    /\ \/ \E fd \in Fd : ofile[p][fd] # 0 /\ fileclose(p, fd, "exit")
       \/ /\ \A fd \in Fd : ofile[p][fd] = 0
          /\ Put(p, NoCall, cwd[p], "chdir")
          /\ UNCHANGED <<disk, icache, lock, ftable, ofile, cwd, orphaned, crashes>>
    /\ UNCHANGED syscalls

(***************************************************************************)
(* A crash between transactions: the disk stays, memory is booted again.   *)
(***************************************************************************)
Crash ==
    /\ crashes < MaxCrashes
    /\ \A p \in Process : At(p, "idle")
    /\ crashes' = crashes + 1
    /\ icache' = BootedIcache /\ lock' = Unlocked
    /\ ftable' = NoFiles /\ ofile' = NoDescriptors /\ cwd' = BootedCwd
    /\ UNCHANGED <<disk, proc, orphaned, syscalls>>

FsStep(p) ==
    \/ iput(p) \/ iput_free(p) \/ iput_unref(p) \/ namex(p) \/ namex_no_parent(p)
    \/ (\E rdonly \in BOOLEAN : sys_open(p, rdonly)) \/ sys_chdir(p)
    \/ create_parent(p) \/ create_exists(p) \/ create(p) \/ created(p)
    \/ unlink_parent(p) \/ sys_unlink(p) \/ unlinked(p) \/ unlock_dp(p)
    \/ link_old(p) \/ link_namex(p) \/ sys_link(p) \/ linked(p) \/ link_bad(p)
    \/ exit_close(p)

Start(p) ==
    \/ \E path \in Path, relative \in BOOLEAN :
          \/ \E call \in {"open", "chdir", "create", "mkdir", "mknod", "unlink"} :
                Begin(p, call, path, <<>>, relative)
          \/ \E new \in Path : Begin(p, "link", path, new, relative)
    \/ \E fd \in Fd : sys_dup(p, fd) \/ sys_close(p, fd)
    \/ \E q \in Process : fork_files(p, q)
    \/ exit(p)

Done == syscalls = MaxSyscalls /\ (\A p \in Process : At(p, "idle")) /\ UNCHANGED fsVars

(***************************************************************************)
(* Two processes wait for each other in acquiresleep(), for ever: create() *)
(* and sys_unlink() call iput(dp) with ip locked (sysfile.c:281, 226), and *)
(* iput() locks dp again.                                                  *)
(***************************************************************************)
Wanted(p) ==
    LET r == proc[p]
    IN  CASE r.pc = "iput" -> r.put
          [] r.pc \in {"create", "create_exists", "unlink", "namex"} -> r.ip
          [] r.pc = "parent" -> r.dp
          [] r.pc = "link_bad" -> r.old
          [] OTHER -> 0

Stuck ==
    /\ \E p, q \in Process : /\ Wanted(p) # 0 /\ lock[Wanted(p)] = q
                             /\ Wanted(q) # 0 /\ lock[Wanted(q)] = p
    /\ UNCHANGED fsVars

FsNext == Crash \/ Done \/ Stuck \/ \E p \in Process : FsStep(p) \/ Start(p)

FsSpec == FsInit /\ [][FsNext]_fsVars

-----------------------------------------------------------------------------
(***************************************************************************)
(* Who may hold a reference to a cache entry: current directories, local   *)
(* variables of system calls, and open files.  While chdir() and exit()    *)
(* put the old directory, cwd still names it.                              *)
(***************************************************************************)
Register == {"ip", "dp", "old", "put"}
Holder == ((Register \cup {"cwd"}) \X Process) \cup ({"file"} \X File)

holds ==
    [x \in Holder |-> IF x[1] = "file" THEN IF ftable[x[2]].ref > 0 THEN ftable[x[2]].ip ELSE 0
                      ELSE IF x[1] = "cwd" THEN IF proc[x[2]].then # "chdir" THEN cwd[x[2]] ELSE 0
                      ELSE proc[x[2]][x[1]]]

Refs(s) == {x \in Holder : holds[x] = s}

(* Every reference is counted once, in the inode cache and in the file     *)
(* table, on every path through the system calls: iget(), idup(), iput(),  *)
(* filedup() and fileclose() balance, and an inode has one cache entry.    *)
RefCount ==
    /\ \A s \in Slot : icache[s].ref = Cardinality(Refs(s))
    /\ \A f \in File : ftable[f].ref = Cardinality({x \in Process \X Fd : ofile[x[1]][x[2]] = f})
    /\ \A s, t \in Slot : icache[s].ref > 0 /\ icache[t].ref > 0 /\ icache[s].inum = icache[t].inum
                             => s = t

(* An inode is not freed while somebody can reach it: ilock() never meets  *)
(* "no type" (fs.c:319), through a reference or through a directory entry, *)
(* and a valid cache entry agrees with the disk.  ".." of a directory that *)
(* was removed is left out.                                                *)
InodeLive ==
    /\ \A s \in Slot : (\E x \in Refs(s) : x[1] # "put") => dinode[icache[s].inum].type # "free"
    /\ \A s \in Slot : icache[s].ref > 0 /\ icache[s].valid =>
          [type |-> icache[s].type, nlink |-> icache[s].nlink] = dinode[icache[s].inum]
    /\ \A i \in Inum : \A n \in DOMAIN dirs[i] :
          n # ".." \/ dinode[i].nlink > 0 => dinode[dirs[i][n]].type # "free"

(* Links of an inode: entries that name it, and ".." of the directories in *)
(* it.                                                                     *)
Entries(i) == {x \in Inum \X Name : x[2] \in DOMAIN dirs[x[1]] /\ dirs[x[1]][x[2]] = i}
Subdirs(i) == {d \in Inum \ {ROOTINO} : /\ ".." \in DOMAIN dirs[d] /\ dirs[d][".."] = i
                                        /\ Entries(d) # {}}
Links(i) == Cardinality(Entries(i)) + Cardinality(Subdirs(i))

(* Links that sys_link() counted and did not enter, or sys_unlink() erased *)
(* and still counts.                                                       *)
Pending(i) ==
    Cardinality({p \in Process : \/ proc[p].old # 0 /\ icache[proc[p].old].inum = i
                                    /\ proc[p].call = "link_new"
                                 \/ proc[p].ip # 0 /\ icache[proc[p].ip].inum = i
                                    /\ "unlinked" \in {proc[p].pc, proc[p].then}})

LinkCountExact ==
    \A i \in Inum : dinode[i].nlink = Links(i) + Pending(i) + (IF i = ROOTINO THEN 1 ELSE 0)

(* "the number of links referring to it" (fs.c:105) is what nlink says, at *)
(* any moment and after any crash, unless something was created in a       *)
(* directory that had been removed.                                        *)
LinkCount == ~orphaned => LinkCountExact

(* "iput() frees if the reference and link counts have fallen to zero"     *)
(* (fs.c:121): an inode that no directory names is free or still in use,   *)
(* unless the machine crashed while it was in use.                         *)
NothingLost ==
    \A i \in Inum : dinode[i].type # "free" /\ dinode[i].nlink = 0 =>
        crashes > 0 \/ \E s \in Slot : icache[s].ref > 0 /\ icache[s].inum = i
=============================================================================
