-------------------------------- MODULE Pipe --------------------------------
(***************************************************************************)
(* pipe.c: a ring buffer between processes, with counters that wrap.       *)
(*                                                                         *)
(* p->lock is held from acquire() or the end of sleep() to release() or    *)
(* the next sleep(), so each such stretch is one step, except that kill()  *)
(* does not take p->lock and may come between the test of killed and the   *)
(* sleep.                                                                  *)
(***************************************************************************)
EXTENDS Integers, Sequences

CONSTANTS Writer, Reader,
          PIPESIZE,
          UINT,       \* the values of a uint: 2^32, or less for TLC
          Byte,
          Alphabet,   \* the bytes that each writer writes
          MaxN,       \* bound on the n of read() and write()
          Killable,   \* the processes that kill() is called for
          None

ASSUME PipeAssumption ==
    /\ PIPESIZE \in Nat \ {0}
    /\ UINT \in Nat /\ UINT > PIPESIZE /\ UINT % PIPESIZE = 0
    /\ MaxN \in Nat \ {0}
    /\ Alphabet \in [Writer -> SUBSET Byte]
    /\ Writer \cap Reader = {}
    /\ Killable \subseteq Writer \cup Reader
    /\ None \notin Writer \cup Reader

Proc == Writer \cup Reader

VARIABLES
    data, nread, nwrite, readopen, writeopen,
    lock,    \* the process between its test of killed and its sleep, or None
    pc,      \* "user", "call" (in the call, awake), "sleep" (about to), "asleep"
    rest,    \* what is left of addr in pipewrite()
    n,       \* the n of piperead()
    open,    \* the processes that have their end open
    killed,
    got      \* history: who was given which bytes in the last step, or None

pipeVars == <<data, nread, nwrite, readopen, writeopen>>
vars == <<pipeVars, lock, pc, rest, n, open, killed, got>>

Used == (nwrite - nread) % UINT
Full == nwrite = (nread + PIPESIZE) % UINT
Empty == nread = nwrite

Least(a, b) == IF a < b THEN a ELSE b

\* pc after process p goes to l and the sleepers in S are woken.
Wakeup(S, p, l) ==
    [q \in Proc |-> IF q = p THEN l ELSE IF q \in S /\ pc[q] = "asleep" THEN "call" ELSE pc[q]]

-----------------------------------------------------------------------------
\* pipealloc(), and fork() of the processes that get its ends.
Init ==
    /\ data = [j \in 0 .. PIPESIZE - 1 |-> CHOOSE b \in Byte : TRUE]
    /\ nread = 0 /\ nwrite = 0
    /\ readopen = 1 /\ writeopen = 1
    /\ lock = None
    /\ pc = [p \in Proc |-> "user"]
    /\ rest = [w \in Writer |-> <<>>]
    /\ n = [r \in Reader |-> 0]
    /\ open = Proc
    /\ killed = {}
    /\ got = None

\* The next pipe, in the page that the last one was freed from.
pipealloc ==
    /\ open = {}
    /\ nread' = 0 /\ nwrite' = 0
    /\ readopen' = 1 /\ writeopen' = 1
    /\ open' = Proc
    /\ killed' = {}
    /\ got' = None
    /\ UNCHANGED <<data, lock, pc, rest, n>>

\* trap() lets a process into a system call only if it was not killed.
write(w) ==
    /\ w \in open /\ pc[w] = "user" /\ w \notin killed
    /\ \E k \in 1 .. MaxN : \E addr \in [1 .. k -> Alphabet[w]] : rest' = [rest EXCEPT ![w] = addr]
    /\ pc' = [pc EXCEPT ![w] = "call"]
    /\ got' = None
    /\ UNCHANGED <<pipeVars, lock, n, open, killed>>

read(r) ==
    /\ r \in open /\ pc[r] = "user" /\ r \notin killed
    /\ \E k \in 1 .. MaxN : n' = [n EXCEPT ![r] = k]
    /\ pc' = [pc EXCEPT ![r] = "call"]
    /\ got' = None
    /\ UNCHANGED <<pipeVars, lock, rest, open, killed>>

\* p->data[p->nwrite++ % PIPESIZE] = addr[i], for the next k bytes.
Put(w, k) ==
    /\ data' = [j \in 0 .. PIPESIZE - 1 |->
                  IF (j - nwrite) % PIPESIZE < k THEN rest[w][1 + ((j - nwrite) % PIPESIZE)]
                  ELSE data[j]]
    /\ nwrite' = (nwrite + k) % UINT

\* Mutant: a writer spins on the full pipe, without a word to the readers.
pipewrite_spins(w) ==
    /\ pc[w] = "call" /\ lock = None
    /\ LET k == Least(PIPESIZE - Used, Len(rest[w])) IN
        /\ Put(w, k)
        /\ rest' = [rest EXCEPT ![w] = SubSeq(@, k + 1, Len(@))]
        /\ pc' = IF k = Len(rest[w]) THEN Wakeup(Reader, w, "user") ELSE pc
    /\ got' = None
    /\ UNCHANGED <<nread, readopen, writeopen, lock, n, open, killed>>

\* Mutant: one byte more than fits.
pipewrite_overrun(w) ==
    /\ pc[w] = "call" /\ lock = None
    /\ LET k == Least(PIPESIZE + 1 - Used, Len(rest[w])) IN
        /\ Put(w, k)
        /\ \/ /\ k = Len(rest[w])
              /\ rest' = [rest EXCEPT ![w] = <<>>]
              /\ pc' = Wakeup(Reader, w, "user")
              /\ UNCHANGED lock
           \/ /\ k < Len(rest[w]) /\ readopen = 1 /\ w \notin killed
              /\ rest' = [rest EXCEPT ![w] = SubSeq(@, k + 1, Len(@))]
              /\ pc' = Wakeup(Reader, w, "sleep")
              /\ lock' = w
    /\ got' = None
    /\ UNCHANGED <<nread, readopen, writeopen, n, open, killed>>

\* pipewrite() until it is done, fails or finds the pipe full.
pipewrite(w) ==
    /\ pc[w] = "call" /\ lock = None
    /\ LET k == Least(PIPESIZE - Used, Len(rest[w])) IN
        /\ Put(w, k)
        /\ \/ /\ k = Len(rest[w])
              /\ rest' = [rest EXCEPT ![w] = <<>>]
              /\ pc' = Wakeup(Reader, w, "user")
              /\ UNCHANGED lock
           \/ /\ k < Len(rest[w]) /\ (readopen = 0 \/ w \in killed)
              /\ rest' = [rest EXCEPT ![w] = <<>>]
              /\ pc' = [pc EXCEPT ![w] = "user"]
              /\ UNCHANGED lock
           \/ /\ k < Len(rest[w]) /\ readopen = 1 /\ w \notin killed
              /\ rest' = [rest EXCEPT ![w] = SubSeq(@, k + 1, Len(@))]
              /\ pc' = Wakeup(Reader, w, "sleep")
              /\ lock' = w
    /\ got' = None
    /\ UNCHANGED <<nread, readopen, writeopen, n, open, killed>>

\* The test of the empty pipe in piperead().
piperead_empty(r) ==
    /\ pc[r] = "call" /\ lock = None
    /\ Empty /\ writeopen = 1
    /\ \/ r \in killed /\ pc' = [pc EXCEPT ![r] = "user"] /\ UNCHANGED lock
       \/ r \notin killed /\ pc' = [pc EXCEPT ![r] = "sleep"] /\ lock' = r
    /\ got' = None
    /\ UNCHANGED <<pipeVars, rest, n, open, killed>>

\* Mutant: the writers are not woken.
piperead_silent(r) ==
    /\ pc[r] = "call" /\ lock = None
    /\ ~Empty \/ writeopen = 0
    /\ LET k == Least(n[r], Used) IN
        /\ got' = [reader |-> r,
                   bytes |-> [x \in 1 .. k |-> data[(nread + x - 1) % PIPESIZE]]]
        /\ nread' = (nread + k) % UINT
    /\ pc' = [pc EXCEPT ![r] = "user"]
    /\ UNCHANGED <<data, nwrite, readopen, writeopen, lock, rest, n, open, killed>>

\* piperead() copies what there is.
piperead(r) ==
    /\ pc[r] = "call" /\ lock = None
    /\ ~Empty \/ writeopen = 0
    /\ LET k == Least(n[r], Used) IN
        /\ got' = [reader |-> r,
                   bytes |-> [x \in 1 .. k |-> data[(nread + x - 1) % PIPESIZE]]]
        /\ nread' = (nread + k) % UINT
    /\ pc' = Wakeup(Writer, r, "user")
    /\ UNCHANGED <<data, nwrite, readopen, writeopen, lock, rest, n, open, killed>>

\* sleep() releases p->lock and goes to sleep under ptable.lock.
sleep(p) ==
    /\ pc[p] = "sleep"
    /\ pc' = [pc EXCEPT ![p] = "asleep"]
    /\ lock' = None
    /\ got' = None
    /\ UNCHANGED <<pipeVars, rest, n, open, killed>>

\* Mutant: the other side is not woken.
close_silent(p) ==
    /\ p \in open /\ pc[p] = "user" /\ lock = None
    /\ open' = open \ {p}
    /\ writeopen' = IF open' \cap Writer = {} THEN 0 ELSE writeopen
    /\ readopen' = IF open' \cap Reader = {} THEN 0 ELSE readopen
    /\ got' = None
    /\ UNCHANGED <<data, nread, nwrite, lock, pc, rest, n, killed>>

\* close() or exit(): fileclose() calls pipeclose() for the last reference.
\* The page is freed with the second end.
close(p) ==
    /\ p \in open /\ pc[p] = "user" /\ lock = None
    /\ open' = open \ {p}
    /\ LET side == IF p \in Writer THEN Writer ELSE Reader
           last == open' \cap side = {}
       IN  /\ writeopen' = IF last /\ p \in Writer THEN 0 ELSE writeopen
           /\ readopen' = IF last /\ p \in Reader THEN 0 ELSE readopen
           /\ pc' = IF last THEN Wakeup(Proc \ side, p, "user") ELSE pc
    /\ got' = None
    /\ UNCHANGED <<data, nread, nwrite, lock, rest, n, killed>>

\* kill(): under ptable.lock only.
kill(p) ==
    /\ p \in Killable \ killed /\ p \in open
    /\ killed' = killed \cup {p}
    /\ pc' = [pc EXCEPT ![p] = IF @ = "asleep" THEN "call" ELSE @]
    /\ got' = None
    /\ UNCHANGED <<pipeVars, lock, rest, n, open>>

WriterStep(w) == write(w) \/ pipewrite(w)
ReaderStep(r) == read(r) \/ piperead_empty(r) \/ piperead(r)

Next ==
    \/ \E w \in Writer : WriterStep(w)
    \/ \E r \in Reader : ReaderStep(r)
    \/ \E p \in Proc : sleep(p) \/ close(p) \/ kill(p)
    \/ pipealloc

Spec == Init /\ [][Next]_vars

(***************************************************************************)
(* A process that is awake runs, and programs go on reading and writing    *)
(* until they close their end.                                             *)
(***************************************************************************)
FairSpec ==
    /\ Spec
    /\ \A p \in Proc : WF_vars(sleep(p))
    /\ \A w \in Writer : WF_vars(WriterStep(w) \/ close(w))
    /\ \A r \in Reader : WF_vars(ReaderStep(r) \/ close(r))

-----------------------------------------------------------------------------
(* Type correctness; the counters are never more than PIPESIZE apart.      *)
TypeOK ==
    /\ data \in [0 .. PIPESIZE - 1 -> Byte]
    /\ nread \in 0 .. UINT - 1 /\ nwrite \in 0 .. UINT - 1
    /\ Used <= PIPESIZE
    /\ readopen \in {0, 1} /\ writeopen \in {0, 1}
    /\ lock \in Proc \cup {None}
    /\ pc \in [Proc -> {"user", "call", "sleep", "asleep"}]
    /\ DOMAIN rest = Writer /\ \A w \in Writer : Len(rest[w]) <= MaxN
    /\ n \in [Reader -> 0 .. MaxN]
    /\ open \subseteq Proc /\ killed \subseteq Proc

(* No lost wakeup for writers: one sleeps only while the pipe is full and  *)
(* some process can still read from it, whoever is killed.                 *)
WriterSleepsOnFull ==
    \A w \in Writer : pc[w] \in {"sleep", "asleep"} => Full /\ readopen = 1

(* No lost wakeup for readers: one sleeps only while the pipe is empty and *)
(* some process can still write to it.                                     *)
ReaderSleepsOnEmpty ==
    \A r \in Reader : pc[r] \in {"sleep", "asleep"} => Empty /\ writeopen = 1

(* The same, as long as no writer of the pipe is killed.                   *)
ReaderWakes == killed \cap Writer = {} => ReaderSleepsOnEmpty

(* pipe.c implements a bounded FIFO channel although its counters wrap.    *)
Chan == INSTANCE Channel WITH
    queue <- [x \in 1 .. Used |-> data[(nread + x - 1) % PIPESIZE]]
ImplementsChannel == Chan!Spec

Competitors(p) == (open \cap (IF p \in Writer THEN Writer ELSE Reader)) \ {p}

(* While nobody is killed, a write ends when the reader goes on reading or *)
(* closes its end, and a read ends when the writer goes on writing or      *)
(* closes its end; only another process at the same end can overtake it    *)
(* again and again.                                                        *)
CallEnds ==
    \A p \in Proc : pc[p] # "user" ~> pc[p] = "user" \/ Competitors(p) # {} \/ killed # {}
=============================================================================
