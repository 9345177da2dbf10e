----------------------------- MODULE PipeProofs -----------------------------
(***************************************************************************)
(* No wakeup of a pipe is lost, for any number of readers and writers, any *)
(* size of the buffer and any width of the counters.                       *)
(***************************************************************************)
EXTENDS Pipe, TLAPS

\* Time for the provers, in seconds: a goal that one gives up is tried again.
USE SMTT(60), SMTT(55), SMTT(50), SMTT(45), SMTT(40), SMTT(30), ZenonT(60)

\* The types that the argument needs.
Types ==
    /\ nread \in 0 .. UINT - 1 /\ nwrite \in 0 .. UINT - 1 /\ Used <= PIPESIZE
    /\ readopen \in {0, 1} /\ writeopen \in {0, 1}
    /\ pc \in [Proc -> {"user", "call", "sleep", "asleep"}]
    /\ rest \in [Writer -> Seq(Byte)] /\ n \in [Reader -> Nat]

\* p->lock is with whoever is about to sleep, only those who have their end
\* open are in a call, and an end that is marked closed is nobody's.
Ends ==
    /\ \A p \in Proc : pc[p] = "sleep" <=> lock = p
    /\ \A p \in Proc \ open : pc[p] = "user"
    /\ readopen = 0 => open \cap Reader = {}
    /\ writeopen = 0 => open \cap Writer = {}

PipeInv == Types /\ Ends /\ WriterSleepsOnFull /\ ReaderWakes

-----------------------------------------------------------------------------
\* The distance of two counters that wrap.
LEMMA Distance ==
  ASSUME NEW i \in 0 .. UINT - 1, NEW j \in 0 .. UINT - 1
  PROVE  /\ (j - i) % UINT = IF j >= i THEN j - i ELSE j - i + UINT
         /\ (j - i) % UINT \in 0 .. UINT - 1
<1>1. UINT \in Nat \ {0}
  BY PipeAssumption
<1>. QED  BY <1>1

\* A counter that moves by no more than the size of the buffer.
LEMMA Advance ==
  ASSUME NEW i \in 0 .. UINT - 1, NEW k \in 0 .. PIPESIZE
  PROVE  /\ (i + k) % UINT = IF i + k < UINT THEN i + k ELSE i + k - UINT
         /\ (i + k) % UINT \in 0 .. UINT - 1
<1>1. UINT \in Nat \ {0} /\ PIPESIZE \in Nat /\ k \in 0 .. UINT - 1
  BY PipeAssumption
<1>. QED  BY <1>1

\* Counting to a full pipe, and to an empty one.
LEMMA Counting ==
  ASSUME NEW i \in 0 .. UINT - 1, NEW j \in 0 .. UINT - 1
  PROVE  /\ j = (i + PIPESIZE) % UINT <=> (j - i) % UINT = PIPESIZE
         /\ i = j <=> (j - i) % UINT = 0
<1>1. PIPESIZE \in Nat \ {0} /\ UINT \in Nat /\ UINT > PIPESIZE /\ PIPESIZE \in 0 .. PIPESIZE
  BY PipeAssumption
<1>2. (i + PIPESIZE) % UINT = IF i + PIPESIZE < UINT THEN i + PIPESIZE ELSE i + PIPESIZE - UINT
  BY <1>1, Advance, ZenonT(120)
<1>3. (j - i) % UINT = IF j >= i THEN j - i ELSE j - i + UINT
  BY Distance
<1>. QED  BY <1>1, <1>2, <1>3

\* What the tests of pipewrite() and piperead() tell about the bytes in the pipe.
LEMMA Tests == Types => /\ Used \in 0 .. PIPESIZE
                        /\ Full <=> Used = PIPESIZE
                        /\ Empty <=> Used = 0
<1> SUFFICES ASSUME Types PROVE /\ Used \in 0 .. PIPESIZE
                                /\ Full <=> Used = PIPESIZE
                                /\ Empty <=> Used = 0
  OBVIOUS
<1>1. nread \in 0 .. UINT - 1 /\ nwrite \in 0 .. UINT - 1 /\ Used <= PIPESIZE
  BY DEF Types
<1> USE <1>1
<1>2. Used \in 0 .. UINT - 1
  BY Distance DEF Used
<1>3. Used \in 0 .. PIPESIZE
  BY <1>2, PipeAssumption
<1>4. /\ Full <=> Used = PIPESIZE
      /\ Empty <=> Used = 0
  BY Counting DEF Full, Empty, Used
<1>. QED  BY <1>3, <1>4

LEMMA TestsAfter == Types' => /\ Full' <=> Used' = PIPESIZE
                              /\ Empty' <=> Used' = 0
<1> SUFFICES ASSUME Types' PROVE /\ Full' <=> Used' = PIPESIZE
                                 /\ Empty' <=> Used' = 0
  OBVIOUS
<1>1. nread' \in 0 .. UINT - 1 /\ nwrite' \in 0 .. UINT - 1
  BY DEF Types
<1>. QED  BY <1>1, Counting DEF Full, Empty, Used

\* Writing k bytes that fit.
LEMMA Written ==
  ASSUME Types, NEW k \in 0 .. PIPESIZE - Used, nread' = nread, nwrite' = (nwrite + k) % UINT
  PROVE  nwrite' \in 0 .. UINT - 1 /\ Used' = Used + k
<1>1. /\ PIPESIZE \in Nat \ {0} /\ UINT \in Nat /\ UINT > PIPESIZE /\ k \in 0 .. PIPESIZE
      /\ nread \in 0 .. UINT - 1 /\ nwrite \in 0 .. UINT - 1 /\ Used \in 0 .. PIPESIZE
  BY PipeAssumption, Tests DEF Types
<1> USE <1>1
<1>2. Used = IF nwrite >= nread THEN nwrite - nread ELSE nwrite - nread + UINT
  BY Distance DEF Used
<1>3. /\ nwrite' = IF nwrite + k < UINT THEN nwrite + k ELSE nwrite + k - UINT
      /\ nwrite' \in 0 .. UINT - 1
  BY Advance, ZenonT(120)
<1>4. Used' = IF nwrite' >= nread THEN nwrite' - nread ELSE nwrite' - nread + UINT
  BY <1>3, Distance, ZenonT(120) DEF Used
<1>. QED  BY <1>2, <1>3, <1>4

\* Reading k bytes that are there.
LEMMA WasRead ==
  ASSUME Types, NEW k \in 0 .. Used, nwrite' = nwrite, nread' = (nread + k) % UINT
  PROVE  nread' \in 0 .. UINT - 1 /\ Used' = Used - k
<1>1. /\ PIPESIZE \in Nat \ {0} /\ UINT \in Nat /\ UINT > PIPESIZE /\ k \in 0 .. PIPESIZE
      /\ nread \in 0 .. UINT - 1 /\ nwrite \in 0 .. UINT - 1 /\ Used \in 0 .. PIPESIZE
  BY PipeAssumption, Tests DEF Types
<1> USE <1>1
<1>2. Used = IF nwrite >= nread THEN nwrite - nread ELSE nwrite - nread + UINT
  BY Distance DEF Used
<1>3. /\ nread' = IF nread + k < UINT THEN nread + k ELSE nread + k - UINT
      /\ nread' \in 0 .. UINT - 1
  BY Advance, ZenonT(120)
<1>4. Used' = IF nwrite >= nread' THEN nwrite - nread' ELSE nwrite - nread' + UINT
  BY <1>3, Distance DEF Used
<1>. QED  BY <1>2, <1>3, <1>4

-----------------------------------------------------------------------------
\* A new pipe is empty and nobody sleeps.
LEMMA InitInv == Init => PipeInv
<1> SUFFICES ASSUME Init PROVE PipeInv
  OBVIOUS
<1>1. 0 \in 0 .. UINT - 1 /\ 0 <= PIPESIZE
  BY PipeAssumption
<1>2. Used = 0
  BY <1>1, Distance DEF Init, Used
<1>3. Types
  BY <1>1, <1>2 DEF Init, Types
<1>4. Ends /\ WriterSleepsOnFull /\ ReaderWakes
  BY PipeAssumption DEF Init, Ends, WriterSleepsOnFull, ReaderWakes, ReaderSleepsOnEmpty, Proc
<1>. QED  BY <1>3, <1>4 DEF PipeInv

\* pipewrite(): who writes wakes the readers, and sleeps only on a full pipe.
LEMMA PipewriteStep == ASSUME PipeInv, NEW w \in Writer, pipewrite(w) PROVE PipeInv'
<1> DEFINE k == Least(PIPESIZE - Used, Len(rest[w]))
<1>0. /\ w \in Proc /\ w \notin Reader /\ PIPESIZE \in Nat /\ None \notin Proc
      /\ \A q \in Proc : q \in Writer \/ q \in Reader
      /\ \A q \in Writer : q \in Proc /\ q \notin Reader
      /\ \A q \in Reader : q \in Proc /\ q \notin Writer
  BY PipeAssumption DEF Proc
<1> USE <1>0
<1>1. Types /\ Ends /\ WriterSleepsOnFull /\ ReaderWakes
  BY DEF PipeInv
<1> USE <1>1
<1>2. /\ pc[w] = "call" /\ lock = None /\ nwrite' = (nwrite + k) % UINT
      /\ UNCHANGED <<nread, readopen, writeopen, n, open, killed>>
  BY DEF pipewrite, Put
<1> USE <1>2
<1>3. Used \in 0 .. PIPESIZE /\ rest[w] \in Seq(Byte) /\ Len(rest[w]) \in Nat
  BY Tests DEF Types
<1> USE <1>3
<1>4. k \in 0 .. PIPESIZE - Used /\ k <= Len(rest[w])
  BY DEF Least
<1> USE <1>4
<1>5. nwrite' \in 0 .. UINT - 1 /\ Used' = Used + k
  BY Written
<1> USE <1>5
<1>6. \A q \in Proc : pc[q] # "sleep"
  BY DEF Ends
<1> USE <1>6
<1>7. ASSUME NEW l \in {"user", "sleep"}, Types',
             pc' = Wakeup(Reader, w, l) \/ pc' = [pc EXCEPT ![w] = l]
      PROVE  /\ pc'[w] = l
             /\ \A q \in Proc \ {w} : pc'[q] # "sleep"
             /\ \A q \in Writer \ {w} : pc'[q] = pc[q]
             /\ \A q \in Proc \ {w} : pc[q] = "user" => pc'[q] = "user"
             /\ \A q \in Writer \ {w} : pc'[q] = "asleep" => Full' /\ readopen' = 1
  <2>1. /\ pc'[w] = l /\ \A q \in Proc \ {w} : pc'[q] # "sleep"
        /\ \A q \in Writer \ {w} : pc'[q] = pc[q]
        /\ \A q \in Proc \ {w} : pc[q] = "user" => pc'[q] = "user"
    BY <1>7 DEF Wakeup, Types
  <2>2. ASSUME NEW q \in Writer \ {w}, pc[q] = "asleep" PROVE Full' /\ readopen' = 1
    <3>1. Full /\ readopen = 1
      BY <2>2 DEF WriterSleepsOnFull
    <3>2. Used = PIPESIZE
      BY <3>1, Tests
    <3>3. Used' = PIPESIZE
      BY <3>2
    <3>4. Full'
      BY <1>7, <3>3, TestsAfter
    <3>. QED  BY <3>1, <3>4
  <2>. QED  BY <2>1, <2>2
<1>8. Used' <= PIPESIZE
  OBVIOUS
<1> USE <1>8
<1> HIDE DEF k
<1>9. CASE k = Len(rest[w]) /\ rest' = [rest EXCEPT ![w] = <<>>]
           /\ pc' = Wakeup(Reader, w, "user") /\ UNCHANGED lock
  <2> USE <1>9
  <2>1. Types'
    BY DEF Types, Wakeup
  <2> USE <2>1
  <2>2. Ends'
    BY <1>7 DEF Ends
  <2>3. WriterSleepsOnFull'
    BY <1>7 DEF WriterSleepsOnFull
  <2>4. ReaderWakes'
    BY DEF ReaderWakes, ReaderSleepsOnEmpty, Wakeup
  <2>. QED  BY <2>2, <2>3, <2>4 DEF PipeInv
<1>10. CASE k < Len(rest[w]) /\ (readopen = 0 \/ w \in killed)
            /\ rest' = [rest EXCEPT ![w] = <<>>]
            /\ pc' = [pc EXCEPT ![w] = "user"] /\ UNCHANGED lock
  <2> USE <1>10
  <2>1. Types'
    BY DEF Types
  <2> USE <2>1
  <2>2. Ends'
    BY <1>7 DEF Ends
  <2>3. WriterSleepsOnFull'
    BY <1>7 DEF WriterSleepsOnFull
  <2>4. ReaderWakes'
    <3>1. CASE w \in killed
      BY <3>1 DEF ReaderWakes
    <3>2. CASE readopen = 0
      <4>1. \A r \in Reader : pc[r] = "user"
        BY <3>2 DEF Ends
      <4>2. \A r \in Reader : pc'[r] = "user"
        BY <4>1 DEF Types
      <4>. QED  BY <4>2 DEF ReaderWakes, ReaderSleepsOnEmpty
    <3>. QED  BY <3>1, <3>2
  <2>. QED  BY <2>2, <2>3, <2>4 DEF PipeInv
<1>11. CASE k < Len(rest[w]) /\ readopen = 1 /\ w \notin killed
            /\ rest' = [rest EXCEPT ![w] = SubSeq(rest[w], k + 1, Len(rest[w]))]
            /\ pc' = Wakeup(Reader, w, "sleep") /\ lock' = w
  <2> USE <1>11
  <2>0. SubSeq(rest[w], k + 1, Len(rest[w])) \in Seq(Byte)
    OBVIOUS
  <2>1. Types'
    BY <2>0 DEF Types, Wakeup
  <2> USE <2>1
  <2>2. Ends'
    BY <1>7 DEF Ends
  <2>3. Full' /\ readopen' = 1
    <3>1. k = PIPESIZE - Used
      BY DEF k, Least
    <3>2. Used' = PIPESIZE
      BY <3>1
    <3>. QED  BY <3>2, TestsAfter
  <2>4. WriterSleepsOnFull'
    BY <2>3 DEF WriterSleepsOnFull
  <2>5. ReaderWakes'
    BY DEF ReaderWakes, ReaderSleepsOnEmpty, Wakeup
  <2>. QED  BY <2>2, <2>4, <2>5 DEF PipeInv
<1>. QED  BY <1>9, <1>10, <1>11 DEF pipewrite, k

\* write() and read() only enter the call.
LEMMA WriteStep == ASSUME PipeInv, NEW w \in Writer, write(w) PROVE PipeInv'
<1>1. Types /\ Ends /\ WriterSleepsOnFull /\ ReaderWakes /\ w \in Proc
  BY DEF PipeInv, Proc
<1> USE <1>1
<1>2. PICK k \in 1 .. MaxN :
        \E addr \in [1 .. k -> Alphabet[w]] : rest' = [rest EXCEPT ![w] = addr]
  BY ZenonT(120) DEF write
<1>2a. PICK addr \in [1 .. k -> Alphabet[w]] : rest' = [rest EXCEPT ![w] = addr]
  BY <1>2, ZenonT(120)
<1>3. /\ w \in open /\ pc[w] = "user" /\ pc' = [pc EXCEPT ![w] = "call"]
      /\ UNCHANGED <<nread, nwrite, readopen, writeopen, lock, n, open, killed>>
  BY DEF write, pipeVars
<1> USE <1>3
<1>4. addr \in Seq(Byte)
  <2>1. k \in Nat /\ Alphabet[w] \subseteq Byte
    BY PipeAssumption
  <2>2. addr \in [1 .. k -> Byte]
    BY <2>1
  <2>. QED  BY <2>1, <2>2
<1>5. Types'
  BY <1>2a, <1>4 DEF Types, Used
<1>6. Ends'
  BY DEF Ends, Types
<1>7. WriterSleepsOnFull' /\ ReaderWakes'
  BY DEF WriterSleepsOnFull, ReaderWakes, ReaderSleepsOnEmpty, Full, Empty, Types, Proc
<1>. QED  BY <1>5, <1>6, <1>7 DEF PipeInv

LEMMA ReadStep == ASSUME PipeInv, NEW r \in Reader, read(r) PROVE PipeInv'
<1>1. Types /\ Ends /\ WriterSleepsOnFull /\ ReaderWakes /\ r \in Proc
  BY DEF PipeInv, Proc
<1> USE <1>1
<1>2. PICK k \in 1 .. MaxN : n' = [n EXCEPT ![r] = k]
  BY ZenonT(120) DEF read
<1>3. /\ r \in open /\ pc[r] = "user" /\ pc' = [pc EXCEPT ![r] = "call"]
      /\ UNCHANGED <<nread, nwrite, readopen, writeopen, lock, rest, open, killed>>
  BY DEF read, pipeVars
<1> USE <1>3
<1>4. k \in Nat
  BY PipeAssumption
<1>5. Types'
  BY <1>2, <1>4 DEF Types, Used
<1>6. Ends'
  BY DEF Ends, Types
<1>7. WriterSleepsOnFull' /\ ReaderWakes'
  BY DEF WriterSleepsOnFull, ReaderWakes, ReaderSleepsOnEmpty, Full, Empty, Types, Proc
<1>. QED  BY <1>5, <1>6, <1>7 DEF PipeInv

\* piperead() goes to sleep with the lock, on an empty pipe that can be written.
LEMMA PipereadEmptyStep == ASSUME PipeInv, NEW r \in Reader, piperead_empty(r) PROVE PipeInv'
<1>0. /\ r \in Proc /\ None \notin Proc /\ r \notin Writer
      /\ \A q \in Reader : q \in Proc
      /\ \A q \in Writer : q \in Proc
  BY PipeAssumption DEF Proc
<1> USE <1>0
<1>1. Types /\ Ends /\ WriterSleepsOnFull /\ ReaderWakes
  BY DEF PipeInv
<1> USE <1>1
<1>2. /\ pc[r] = "call" /\ lock = None /\ Empty /\ writeopen = 1
      /\ UNCHANGED <<nread, nwrite, readopen, writeopen, rest, n, open, killed>>
      /\ \/ pc' = [pc EXCEPT ![r] = "user"] /\ UNCHANGED lock
         \/ pc' = [pc EXCEPT ![r] = "sleep"] /\ lock' = r
  BY DEF piperead_empty, pipeVars
<1> USE <1>2
<1>3. Types'
  BY DEF Types, Used
<1>4. Ends'
  BY DEF Ends, Types
<1>5. WriterSleepsOnFull'
  BY DEF WriterSleepsOnFull, Full, Types
<1>6. ReaderWakes'
  BY DEF ReaderWakes, ReaderSleepsOnEmpty, Empty, Types
<1>. QED  BY <1>3, <1>4, <1>5, <1>6 DEF PipeInv

\* piperead() makes room and wakes every writer; no writer is between its
\* test and its sleep, because the lock is free.
LEMMA PipereadStep == ASSUME PipeInv, NEW r \in Reader, piperead(r) PROVE PipeInv'
<1> DEFINE k == Least(n[r], Used)
<1>0. /\ r \in Proc /\ None \notin Proc /\ r \notin Writer /\ PIPESIZE \in Nat
      /\ \A q \in Reader : q \in Proc /\ q \notin Writer
      /\ \A q \in Writer : q \in Proc
  BY PipeAssumption DEF Proc
<1> USE <1>0
<1>1. Types /\ Ends /\ WriterSleepsOnFull /\ ReaderWakes
  BY DEF PipeInv
<1> USE <1>1
<1>2. /\ pc[r] = "call" /\ lock = None /\ (~Empty \/ writeopen = 0)
      /\ nread' = (nread + k) % UINT /\ pc' = Wakeup(Writer, r, "user")
      /\ UNCHANGED <<nwrite, readopen, writeopen, lock, rest, n, open, killed>>
  BY DEF piperead
<1> USE <1>2
<1>3. Used \in 0 .. PIPESIZE /\ n[r] \in Nat
  BY Tests DEF Types
<1>4. k \in 0 .. Used
  BY <1>3 DEF Least
<1>5. nread' \in 0 .. UINT - 1 /\ Used' = Used - k
  BY <1>4, WasRead
<1>6. Used' <= PIPESIZE
  BY <1>3, <1>4, <1>5
<1> HIDE DEF k
<1>7. \A q \in Proc : pc[q] # "sleep"
  BY DEF Ends
<1>8. Types'
  BY <1>5, <1>6 DEF Types, Wakeup
<1>9. Ends'
  BY <1>7 DEF Ends, Wakeup, Types
<1>10. WriterSleepsOnFull'
  BY <1>7 DEF WriterSleepsOnFull, Wakeup
<1>11. ReaderWakes'
  <2> SUFFICES ASSUME killed \cap Writer = {}, NEW q \in Reader, pc'[q] \in {"sleep", "asleep"}
               PROVE  Empty' /\ writeopen' = 1
    BY DEF ReaderWakes, ReaderSleepsOnEmpty
  <2>1. pc[q] \in {"sleep", "asleep"}
    BY DEF Wakeup
  <2>2. Empty /\ writeopen = 1
    BY <2>1 DEF ReaderWakes, ReaderSleepsOnEmpty
  <2>. QED  BY <2>2
<1>. QED  BY <1>8, <1>9, <1>10, <1>11 DEF PipeInv

LEMMA SleepStep == ASSUME PipeInv, NEW p \in Proc, sleep(p) PROVE PipeInv'
<1>0. None \notin Proc /\ (\A q \in Reader : q \in Proc) /\ (\A q \in Writer : q \in Proc)
  BY PipeAssumption DEF Proc
<1>1. Types /\ Ends /\ WriterSleepsOnFull /\ ReaderWakes
  BY DEF PipeInv
<1> USE <1>1
<1>2. /\ pc[p] = "sleep" /\ pc' = [pc EXCEPT ![p] = "asleep"] /\ lock' = None
      /\ UNCHANGED <<nread, nwrite, readopen, writeopen, rest, n, open, killed>>
  BY DEF sleep, pipeVars
<1> USE <1>2
<1>3. Types'
  BY DEF Types, Used
<1>4. Ends'
  BY <1>0 DEF Ends, Types
<1>5. WriterSleepsOnFull' /\ ReaderWakes'
  BY <1>0 DEF WriterSleepsOnFull, ReaderWakes, ReaderSleepsOnEmpty, Full, Empty, Types
<1>. QED  BY <1>3, <1>4, <1>5 DEF PipeInv

\* The last close of an end wakes all who sleep at the other.
LEMMA CloseStep == ASSUME PipeInv, NEW p \in Proc, close(p) PROVE PipeInv'
<1> DEFINE side == IF p \in Writer THEN Writer ELSE Reader
           last == open' \cap side = {}
<1>0. /\ None \notin Proc /\ (p \in Writer \/ p \in Reader)
      /\ \A q \in Reader : q \in Proc /\ q \notin Writer
      /\ \A q \in Writer : q \in Proc /\ q \notin Reader
  BY PipeAssumption DEF Proc
<1> USE <1>0
<1>1. Types /\ Ends /\ WriterSleepsOnFull /\ ReaderWakes
  BY DEF PipeInv
<1> USE <1>1
<1>2. /\ p \in open /\ pc[p] = "user" /\ lock = None /\ open' = open \ {p}
      /\ writeopen' = IF last /\ p \in Writer THEN 0 ELSE writeopen
      /\ readopen' = IF last /\ p \in Reader THEN 0 ELSE readopen
      /\ pc' = IF last THEN Wakeup(Proc \ side, p, "user") ELSE pc
      /\ UNCHANGED <<nread, nwrite, lock, rest, n, killed>>
  BY DEF close
<1> USE <1>2
<1>3. \A q \in Proc : pc[q] # "sleep"
  BY DEF Ends
<1>4. Types'
  <2>1. readopen' \in {0, 1} /\ writeopen' \in {0, 1}
    BY DEF Types
  <2>2. pc' \in [Proc -> {"user", "call", "sleep", "asleep"}]
    BY DEF Types, Wakeup
  <2>. QED  BY <2>1, <2>2, ZenonT(120) DEF Types, Used
<1>5. \A q \in Proc : /\ pc'[q] # "sleep"
                      /\ pc'[q] = "asleep" => pc[q] = "asleep" /\ (last => q \in side)
                      /\ pc[q] = "user" => pc'[q] = "user"
  BY <1>3 DEF Wakeup, Types
<1> USE <1>5
<1>6. Ends'
  <2>1. \A q \in Proc : pc'[q] = "sleep" <=> lock' = q
    OBVIOUS
  <2>2. \A q \in Proc \ open' : pc'[q] = "user"
    BY DEF Ends
  <2>3. readopen' = 0 => open' \cap Reader = {}
    BY DEF Ends, Types
  <2>4. writeopen' = 0 => open' \cap Writer = {}
    BY DEF Ends, Types
  <2>. QED  BY <2>1, <2>2, <2>3, <2>4 DEF Ends
<1>7. WriterSleepsOnFull'
  <2> SUFFICES ASSUME NEW w \in Writer, pc'[w] \in {"sleep", "asleep"}
               PROVE  Full' /\ readopen' = 1
    BY DEF WriterSleepsOnFull
  <2>1. pc[w] = "asleep" /\ (last => w \in side)
    OBVIOUS
  <2>2. Full /\ readopen = 1
    BY <2>1 DEF WriterSleepsOnFull
  <2>3. ~(last /\ p \in Reader)
    BY <2>1
  <2>. QED  BY <2>2, <2>3 DEF Full
<1>8. ReaderWakes'
  <2> SUFFICES ASSUME killed \cap Writer = {}, NEW r \in Reader, pc'[r] \in {"sleep", "asleep"}
               PROVE  Empty' /\ writeopen' = 1
    BY DEF ReaderWakes, ReaderSleepsOnEmpty
  <2>1. pc[r] = "asleep" /\ (last => r \in side)
    OBVIOUS
  <2>2. Empty /\ writeopen = 1
    BY <2>1 DEF ReaderWakes, ReaderSleepsOnEmpty
  <2>3. ~(last /\ p \in Writer)
    BY <2>1
  <2>. QED  BY <2>2, <2>3 DEF Empty
<1>. QED  BY <1>4, <1>6, <1>7, <1>8 DEF PipeInv

LEMMA KillStep == ASSUME PipeInv, NEW p \in Proc, kill(p) PROVE PipeInv'
<1>0. (\A q \in Reader : q \in Proc) /\ (\A q \in Writer : q \in Proc)
  BY DEF Proc
<1>1. Types /\ Ends /\ WriterSleepsOnFull /\ ReaderWakes
  BY DEF PipeInv
<1> USE <1>1
<1>2. /\ p \in open /\ killed' = killed \cup {p}
      /\ pc' = [pc EXCEPT ![p] = IF @ = "asleep" THEN "call" ELSE @]
      /\ UNCHANGED <<nread, nwrite, readopen, writeopen, lock, rest, n, open>>
  BY DEF kill, pipeVars
<1> USE <1>2
<1>3. Types'
  BY DEF Types, Used
<1>4. Ends'
  BY DEF Ends, Types
<1>5. WriterSleepsOnFull'
  BY <1>0 DEF WriterSleepsOnFull, Full, Types
<1>6. ReaderWakes'
  BY <1>0 DEF ReaderWakes, ReaderSleepsOnEmpty, Empty, Types
<1>. QED  BY <1>3, <1>4, <1>5, <1>6 DEF PipeInv

\* The next pipe finds nobody in a call.
LEMMA PipeallocStep == ASSUME PipeInv, pipealloc PROVE PipeInv'
<1>1. Types /\ Ends
  BY DEF PipeInv
<1> USE <1>1
<1>2. /\ open = {} /\ nread' = 0 /\ nwrite' = 0 /\ readopen' = 1 /\ writeopen' = 1
      /\ open' = Proc /\ UNCHANGED <<lock, pc, rest, n>>
  BY DEF pipealloc
<1> USE <1>2
<1>3. \A q \in Proc : pc'[q] = "user"
  BY DEF Ends
<1>4. 0 \in 0 .. UINT - 1 /\ 0 <= PIPESIZE
  BY PipeAssumption
<1>5. Used' = 0
  BY <1>4, Distance DEF Used
<1>6. Types'
  BY <1>4, <1>5 DEF Types
<1>7. Ends'
  BY DEF Ends
<1>8. WriterSleepsOnFull' /\ ReaderWakes'
  BY <1>3 DEF WriterSleepsOnFull, ReaderWakes, ReaderSleepsOnEmpty, Proc
<1>. QED  BY <1>6, <1>7, <1>8 DEF PipeInv

LEMMA NextInv == PipeInv /\ [Next]_vars => PipeInv'
<1> SUFFICES ASSUME PipeInv, [Next]_vars PROVE PipeInv'
  OBVIOUS
<1>1. CASE \E w \in Writer : WriterStep(w)
  BY <1>1, WriteStep, PipewriteStep DEF WriterStep
<1>2. CASE \E r \in Reader : ReaderStep(r)
  BY <1>2, ReadStep, PipereadEmptyStep, PipereadStep DEF ReaderStep
<1>3. CASE \E p \in Proc : sleep(p) \/ close(p) \/ kill(p)
  BY <1>3, SleepStep, CloseStep, KillStep
<1>4. CASE pipealloc
  BY <1>4, PipeallocStep
<1>5. CASE UNCHANGED vars
  <2>1. UNCHANGED <<nread, nwrite, readopen, writeopen, lock, pc, rest, n, open, killed>>
    BY <1>5 DEF vars, pipeVars
  <2>. QED  BY <2>1 DEF PipeInv, Types, Ends, WriterSleepsOnFull, ReaderWakes, ReaderSleepsOnEmpty,
                        Full, Empty, Used
<1>. QED  BY <1>1, <1>2, <1>3, <1>4, <1>5 DEF Next

-----------------------------------------------------------------------------
(* The invariant of pipe.c.                                                *)
THEOREM PipeInvariant == Spec => []PipeInv
  BY InitInv, NextInv, PTL DEF Spec

(* A writer sleeps in pipewrite() only while the pipe is full and somebody *)
(* can read from it: piperead() and pipeclose() wake it in time.           *)
THEOREM PipeWriterWakes == Spec => []WriterSleepsOnFull
<1>1. PipeInv => WriterSleepsOnFull
  BY DEF PipeInv
<1>. QED  BY <1>1, PipeInvariant, PTL

(* While no writer is killed, a reader sleeps in piperead() only while the *)
(* pipe is empty and somebody can write to it.                             *)
THEOREM PipeReaderWakes == Spec => []ReaderWakes
<1>1. PipeInv => ReaderWakes
  BY DEF PipeInv
<1>. QED  BY <1>1, PipeInvariant, PTL

(* pipewrite() and piperead() never let the counters of a pipe get more    *)
(* than PIPESIZE apart, although they wrap.                                *)
THEOREM PipeNeverOverruns == Spec => [](Used \in 0 .. PIPESIZE)
<1>1. PipeInv => Used \in 0 .. PIPESIZE
  BY Tests DEF PipeInv
<1>. QED  BY <1>1, PipeInvariant, PTL

-----------------------------------------------------------------------------
(***************************************************************************)
(* pipe.c implements Channel.  The place of a byte in data[] is the        *)
(* remainder of a counter that wraps; that UINT is a multiple of PIPESIZE  *)
(* makes remainders as good as the counters.                               *)
(***************************************************************************)
LEMMA Index ==
  ASSUME NEW a \in Int
  PROVE  /\ a % PIPESIZE \in 0 .. PIPESIZE - 1
         /\ \E m \in Int : a = PIPESIZE * m + (a % PIPESIZE)
<1>1. PIPESIZE \in Nat /\ PIPESIZE > 0
  BY PipeAssumption
<1>2. a % PIPESIZE \in 0 .. PIPESIZE - 1
  BY <1>1
<1>3. a \div PIPESIZE \in Int
  BY <1>1
<1>4. a = PIPESIZE * (a \div PIPESIZE) + (a % PIPESIZE)
  BY <1>1
<1>. QED  BY <1>2, <1>3, <1>4

\* The remainder is the only number below PIPESIZE that differs by a multiple.
LEMMA Remainder ==
  ASSUME NEW a \in Int, NEW m \in Int, NEW c \in 0 .. PIPESIZE - 1, a = PIPESIZE * m + c
  PROVE  a % PIPESIZE = c
<1>1. PIPESIZE \in Nat \ {0} /\ c \in Int
  BY PipeAssumption
<1>2. PICK q \in Int : a = PIPESIZE * q + (a % PIPESIZE)
  BY Index
<1>3. ASSUME NEW x \in Int, NEW y \in Int, x < y PROVE PIPESIZE * y >= PIPESIZE * x + PIPESIZE
  BY <1>1, <1>3
<1>4. a % PIPESIZE \in 0 .. PIPESIZE - 1
  BY Index
<1>5. ~(q < m) /\ ~(m < q)
  BY <1>1, <1>2, <1>3, <1>4
<1>6. q = m
  BY <1>5
<1>. QED  BY <1>1, <1>2, <1>4, <1>6

\* A counter that wraps stays at the same place.
LEMMA Wraps ==
  ASSUME NEW a \in Int
  PROVE  (a + UINT) % PIPESIZE = a % PIPESIZE /\ (a - UINT) % PIPESIZE = a % PIPESIZE
<1>1. PIPESIZE \in Nat /\ UINT \in Int /\ UINT % PIPESIZE = 0
  BY PipeAssumption
<1>2. PICK u \in Int : UINT = PIPESIZE * u + (UINT % PIPESIZE)
  BY <1>1, Index, Zenon
<1>3. PICK m \in Int : a = PIPESIZE * m + (a % PIPESIZE)
  BY Index
<1>4. a % PIPESIZE \in 0 .. PIPESIZE - 1
  BY Index
<1>5. PIPESIZE * (m + u) = PIPESIZE * m + PIPESIZE * u /\ PIPESIZE * (m - u) = PIPESIZE * m - PIPESIZE * u
  BY <1>1
<1>6. PIPESIZE * m \in Int /\ PIPESIZE * u \in Int /\ m + u \in Int /\ m - u \in Int
  BY <1>1
<1>7. UINT = PIPESIZE * u
  BY <1>1, <1>2, <1>6
<1> DEFINE c == a % PIPESIZE
<1>8. c \in 0 .. PIPESIZE - 1 /\ a = PIPESIZE * m + c
  BY <1>3, <1>4
<1> HIDE DEF c
<1>9. a + UINT = PIPESIZE * (m + u) + c /\ a - UINT = PIPESIZE * (m - u) + c
  BY <1>1, <1>5, <1>6, <1>7, <1>8
<1>10. a + UINT \in Int /\ a - UINT \in Int
  BY <1>1
<1>11. (a + UINT) % PIPESIZE = c /\ (a - UINT) % PIPESIZE = c
  BY <1>6, <1>8, <1>9, <1>10, Remainder, Zenon
<1>. QED  BY <1>11, Zenon DEF c

LEMMA Congruent ==
  ASSUME NEW a \in Int, NEW b \in Int
  PROVE  ((a % PIPESIZE) - b) % PIPESIZE = (a - b) % PIPESIZE
<1>1. PIPESIZE \in Nat /\ a - b \in Int
  BY PipeAssumption
<1>2. PICK m \in Int : a = PIPESIZE * m + (a % PIPESIZE)
  BY Index
<1>3. PICK q \in Int : a - b = PIPESIZE * q + ((a - b) % PIPESIZE)
  BY <1>1, Index, Zenon
<1>4. a % PIPESIZE \in 0 .. PIPESIZE - 1 /\ (a - b) % PIPESIZE \in 0 .. PIPESIZE - 1
  BY <1>1, Index
<1> DEFINE c == (a - b) % PIPESIZE
           d == a % PIPESIZE
<1>5. /\ c \in 0 .. PIPESIZE - 1 /\ d \in 0 .. PIPESIZE - 1
      /\ a = PIPESIZE * m + d /\ a - b = PIPESIZE * q + c
  BY <1>2, <1>3, <1>4
<1> HIDE DEF c, d
<1>6. PIPESIZE * (q - m) = PIPESIZE * q - PIPESIZE * m /\ PIPESIZE * m \in Int /\ PIPESIZE * q \in Int
  BY <1>1
<1>7. d - b = PIPESIZE * (q - m) + c /\ d - b \in Int /\ q - m \in Int
  BY <1>1, <1>5, <1>6
<1>8. (d - b) % PIPESIZE = c
  BY <1>5, <1>7, Remainder
<1>. QED  BY <1>8 DEF c, d

\* Counted from p->nwrite on, a byte that waits is behind all the free places,
\* and the free places are in the order in which they are filled.
LEMMA Places ==
  ASSUME Types
  PROVE  /\ \A x \in 1 .. Used :
               (((nread + x - 1) % PIPESIZE) - nwrite) % PIPESIZE = PIPESIZE + x - 1 - Used
         /\ \A y \in 1 .. PIPESIZE - Used :
               (((nread + Used + y - 1) % PIPESIZE) - nwrite) % PIPESIZE = y - 1
<1>1. /\ PIPESIZE \in Nat \ {0} /\ UINT \in Nat
      /\ nread \in Int /\ nwrite \in Int /\ Used \in 0 .. PIPESIZE
  BY PipeAssumption, Tests DEF Types
<1>2. Used = nwrite - nread \/ Used = nwrite - nread + UINT
  BY Distance DEF Used, Types
<1>3. ASSUME NEW z \in Int
      PROVE  (((nread + z) % PIPESIZE) - nwrite) % PIPESIZE = (z - Used) % PIPESIZE
  <2>1. (((nread + z) % PIPESIZE) - nwrite) % PIPESIZE = ((nread + z) - nwrite) % PIPESIZE
    <3> DEFINE a == nread + z
    <3>1. a \in Int /\ nwrite \in Int
      BY <1>1
    <3> HIDE DEF a
    <3>2. ((a % PIPESIZE) - nwrite) % PIPESIZE = (a - nwrite) % PIPESIZE
      BY <3>1, Congruent, Zenon
    <3>. QED  BY <3>2, Zenon DEF a
  <2>2. CASE Used = nwrite - nread
    <3>1. (nread + z) - nwrite = z - Used
      BY <1>1, <2>2
    <3>. QED  BY <2>1, <3>1
  <2>3. CASE Used = nwrite - nread + UINT
    <3>1. (nread + z) - nwrite = (z - Used) + UINT /\ z - Used \in Int
      BY <1>1, <2>3
    <3>2. ((z - Used) + UINT) % PIPESIZE = (z - Used) % PIPESIZE
      BY <3>1, Wraps
    <3>. QED  BY <2>1, <3>1, <3>2
  <2>. QED  BY <1>2, <2>2, <2>3
<1>4. ASSUME NEW x \in 1 .. Used
      PROVE  (((nread + x - 1) % PIPESIZE) - nwrite) % PIPESIZE = PIPESIZE + x - 1 - Used
  <2>1. /\ nread + x - 1 = nread + (x - 1) /\ x - 1 \in Int /\ (x - 1) - Used \in Int
        /\ PIPESIZE + x - 1 - Used \in 0 .. PIPESIZE - 1
        /\ (x - 1) - Used = PIPESIZE * (-1) + (PIPESIZE + x - 1 - Used)
    BY <1>1
  <2>2. ((x - 1) - Used) % PIPESIZE = PIPESIZE + x - 1 - Used
    BY <2>1, Remainder
  <2>3. (((nread + (x - 1)) % PIPESIZE) - nwrite) % PIPESIZE = ((x - 1) - Used) % PIPESIZE
    BY <1>3, <2>1
  <2>. QED  BY <2>1, <2>2, <2>3
<1>5. ASSUME NEW y \in 1 .. PIPESIZE - Used
      PROVE  (((nread + Used + y - 1) % PIPESIZE) - nwrite) % PIPESIZE = y - 1
  <2>1. /\ nread + Used + y - 1 = nread + (Used + y - 1) /\ Used + y - 1 \in Int
        /\ (Used + y - 1) - Used = y - 1 /\ y - 1 \in 0 .. PIPESIZE - 1
        /\ y - 1 = PIPESIZE * 0 + (y - 1)
    BY <1>1
  <2>2. (y - 1) % PIPESIZE = y - 1
    BY <2>1, Remainder
  <2>3. (((nread + (Used + y - 1)) % PIPESIZE) - nwrite) % PIPESIZE = ((Used + y - 1) - Used) % PIPESIZE
    BY <1>3, <2>1
  <2>. QED  BY <2>1, <2>2, <2>3
<1>. QED  BY <1>4, <1>5

-----------------------------------------------------------------------------
\* The bytes in the pipe, first in first.
Queue == [x \in 1 .. Used |-> data[(nread + x - 1) % PIPESIZE]]

\* What can be in a place of data[].
Content == Byte \cup {CHOOSE b \in Byte : TRUE}

\* What the mapping to Channel needs of the processes: a writer outside its
\* call has nothing left to write, and a reader in its call wants some byte.
CallsInv ==
    /\ data \in [0 .. PIPESIZE - 1 -> Content]
    /\ \A w \in Writer : pc[w] = "user" => rest[w] = <<>>
    /\ \A r \in Reader : pc[r] # "user" => n[r] >= 1

LEMMA Joined ==
  ASSUME NEW S, NEW q \in Seq(S), NEW t \in Seq(S), NEW u \in Seq(S),
         Len(u) = Len(q) + Len(t),
         \A x \in 1 .. Len(q) : u[x] = q[x],
         \A y \in 1 .. Len(t) : u[Len(q) + y] = t[y]
  PROVE  u = q \o t
<1>1. q \o t \in Seq(S) /\ Len(q \o t) = Len(q) + Len(t) /\ Len(q) \in Nat /\ Len(t) \in Nat
  OBVIOUS
<1>2. ASSUME NEW x \in 1 .. Len(u) PROVE u[x] = (q \o t)[x]
  <2>1. CASE x <= Len(q)
    BY <1>1, <2>1
  <2>2. CASE x > Len(q)
    <3>1. x - Len(q) \in 1 .. Len(t) /\ Len(q) + (x - Len(q)) = x
      BY <1>1, <2>2
    <3>2. u[x] = t[x - Len(q)]
      BY <3>1
    <3>3. (q \o t)[x] = t[x - Len(q)]
      BY <1>1, <2>2, <3>1
    <3>. QED  BY <3>2, <3>3
  <2>. QED  BY <1>1, <2>1, <2>2
<1>. QED  BY <1>1, <1>2

\* The bytes in the pipe are a sequence.
LEMMA QueueSeq == ASSUME Types, CallsInv PROVE Queue \in Seq(Content) /\ Len(Queue) = Used
<1>1. Used \in Nat /\ nread \in Int
  BY Tests, PipeAssumption DEF Types
<1>2. ASSUME NEW x \in 1 .. Used PROVE data[(nread + x - 1) % PIPESIZE] \in Content
  <2>1. nread + x - 1 \in Int
    BY <1>1
  <2>2. (nread + x - 1) % PIPESIZE \in 0 .. PIPESIZE - 1
    BY <2>1, Index
  <2>. QED  BY <2>2 DEF CallsInv
<1>3. Queue \in [1 .. Used -> Content]
  BY <1>2 DEF Queue
<1>. QED  BY <1>1, <1>3

\* pipewrite() appends the bytes that it puts.
LEMMA Appends ==
  ASSUME Types, CallsInv, CallsInv', Types', NEW w \in Writer, NEW k \in 0 .. Len(rest[w]),
         k <= PIPESIZE - Used, Put(w, k), nread' = nread
  PROVE  Queue' = Queue \o SubSeq(rest[w], 1, k)
<1> DEFINE t == SubSeq(rest[w], 1, k)
<1>1. /\ PIPESIZE \in Nat \ {0} /\ UINT \in Nat /\ nread \in Int /\ nwrite \in Int
      /\ Used \in 0 .. PIPESIZE /\ rest[w] \in Seq(Byte) /\ k \in 0 .. PIPESIZE - Used /\ k \in Nat
  BY PipeAssumption, Tests DEF Types
<1>2. t \in Seq(Byte) /\ Len(t) = k /\ \A y \in 1 .. k : t[y] = rest[w][y]
  BY <1>1
<1>3. t \in Seq(Content)
  BY <1>2 DEF Content
<1>4. Used' = Used + k
  BY <1>1, Written DEF Put
<1>5. Queue \in Seq(Content) /\ Len(Queue) = Used
  BY QueueSeq
<1>6. Queue' \in Seq(Content) /\ Len(Queue') = Used'
  <2>1. Used' \in Nat /\ Queue' = [x \in 1 .. Used' |-> data'[(nread + x - 1) % PIPESIZE]]
    BY <1>1, <1>4 DEF Queue
  <2>2. ASSUME NEW x \in 1 .. Used' PROVE data'[(nread + x - 1) % PIPESIZE] \in Content
    <3>1. nread + x - 1 \in Int
      BY <1>1, <2>1
    <3>2. (nread + x - 1) % PIPESIZE \in 0 .. PIPESIZE - 1
      BY <3>1, Index
    <3>. QED  BY <3>2 DEF CallsInv
  <2>3. Queue' \in [1 .. Used' -> Content]
    BY <2>1, <2>2
  <2>. QED  BY <2>1, <2>3
<1>7. ASSUME NEW x \in 1 .. Used PROVE Queue'[x] = Queue[x]
  <2> DEFINE j == (nread + x - 1) % PIPESIZE
  <2>1. j \in 0 .. PIPESIZE - 1
    <3>1. nread + x - 1 \in Int
      BY <1>1
    <3>. QED  BY <3>1, Index
  <2>2. (j - nwrite) % PIPESIZE = PIPESIZE + x - 1 - Used
    BY Places
  <2>3. Queue[x] = data[j] /\ Queue'[x] = data'[j]
    BY <1>1, <1>4 DEF Queue
  <2> HIDE DEF j
  <2>4. ~((j - nwrite) % PIPESIZE < k)
    BY <1>1, <2>2
  <2>5. data'[j] = data[j]
    BY <2>1, <2>4 DEF Put
  <2>. QED  BY <2>3, <2>5
<1>8. ASSUME NEW y \in 1 .. k PROVE Queue'[Used + y] = t[y]
  <2> DEFINE j == (nread + Used + y - 1) % PIPESIZE
  <2>1. j \in 0 .. PIPESIZE - 1
    <3>1. nread + Used + y - 1 \in Int
      BY <1>1
    <3>. QED  BY <3>1, Index
  <2>2. (j - nwrite) % PIPESIZE = y - 1
    <3>1. y \in 1 .. PIPESIZE - Used
      BY <1>1
    <3>. QED  BY <3>1, Places
  <2>3. Queue'[Used + y] = data'[j]
    <3>1. Used + y \in 1 .. Used' /\ nread + (Used + y) - 1 = nread + Used + y - 1
      BY <1>1, <1>4
    <3>2. Queue' = [x \in 1 .. Used' |-> data'[(nread + x - 1) % PIPESIZE]]
      BY DEF Queue
    <3>. QED  BY <3>1, <3>2
  <2> HIDE DEF j
  <2>4. (j - nwrite) % PIPESIZE < k /\ 1 + ((j - nwrite) % PIPESIZE) = y
    BY <1>1, <2>2
  <2>5. data'[j] = rest[w][y]
    BY <2>1, <2>4 DEF Put
  <2>. QED  BY <1>2, <2>3, <2>5
<1> HIDE DEF t
<1>9. Queue' = Queue \o t
  <2> DEFINE q == Queue
             u == Queue'
  <2>1. /\ q \in Seq(Content) /\ t \in Seq(Content) /\ u \in Seq(Content)
        /\ Len(q) = Used /\ Len(t) = k /\ Len(u) = Used + k
        /\ \A x \in 1 .. Used : u[x] = q[x]
        /\ \A y \in 1 .. k : u[Used + y] = t[y]
    BY <1>2, <1>3, <1>4, <1>5, <1>6, <1>7, <1>8
  <2> HIDE DEF q, u
  <2>2. /\ Len(u) = Len(q) + Len(t)
        /\ \A x \in 1 .. Len(q) : u[x] = q[x]
        /\ \A y \in 1 .. Len(t) : u[Len(q) + y] = t[y]
    BY <2>1
  <2>3. u = q \o t
    BY <2>1, <2>2, Joined, Zenon
  <2>. QED  BY <2>3 DEF q, u
<1>. QED  BY <1>9 DEF t

\* piperead() takes the first bytes and leaves the others.
LEMMA Takes ==
  ASSUME Types, CallsInv, NEW k \in 0 .. Used, nread' = (nread + k) % UINT,
         nwrite' = nwrite, data' = data
  PROVE  /\ Queue' = SubSeq(Queue, k + 1, Len(Queue))
         /\ SubSeq(Queue, 1, k) = [x \in 1 .. k |-> data[(nread + x - 1) % PIPESIZE]]
<1>1. /\ PIPESIZE \in Nat /\ UINT \in Nat /\ nread \in 0 .. UINT - 1
      /\ Used \in 0 .. PIPESIZE /\ k \in 0 .. PIPESIZE /\ Used \in Nat /\ k \in Nat
  BY PipeAssumption, Tests DEF Types
<1>2. Used' = Used - k
  BY WasRead
<1>3. Queue \in Seq(Content) /\ Len(Queue) = Used
  BY QueueSeq
<1>4. nread' = nread + k \/ nread' = nread + k - UINT
  BY <1>1, Advance, ZenonT(120)
<1>5. ASSUME NEW x \in 1 .. Used' PROVE Queue'[x] = Queue[k + x]
  <2>0. x \in Int /\ k \in Int /\ nread \in Int /\ UINT \in Int
    BY <1>1, <1>2
  <2>1. (nread' + x - 1) % PIPESIZE = (nread + (k + x) - 1) % PIPESIZE
    <3>1. CASE nread' = nread + k
      <4>1. nread' + x - 1 = nread + (k + x) - 1
        BY <2>0, <3>1
      <4>. QED  BY <4>1, Zenon
    <3>2. CASE nread' = nread + k - UINT
      <4>1. nread' + x - 1 = (nread + (k + x) - 1) - UINT /\ nread + (k + x) - 1 \in Int
        BY <2>0, <3>2
      <4>2. ((nread + (k + x) - 1) - UINT) % PIPESIZE = (nread + (k + x) - 1) % PIPESIZE
        BY <4>1, Wraps
      <4>. QED  BY <4>1, <4>2
    <3>. QED  BY <1>4, <3>1, <3>2
  <2>2. k + x \in 1 .. Used
    BY <1>1, <1>2
  <2>3. Queue'[x] = data[(nread' + x - 1) % PIPESIZE]
    BY DEF Queue
  <2>4. Queue[k + x] = data[(nread + (k + x) - 1) % PIPESIZE]
    BY <2>2 DEF Queue
  <2>. QED  BY <2>1, <2>3, <2>4
<1>6. Queue' = [x \in 1 .. Used' |-> Queue'[x]]
  BY DEF Queue
<1>7. SubSeq(Queue, k + 1, Len(Queue)) = [x \in 1 .. Used - k |-> Queue[k + x]]
  BY <1>1, <1>3
<1>8. Queue' = SubSeq(Queue, k + 1, Len(Queue))
  BY <1>2, <1>5, <1>6, <1>7
<1>9. SubSeq(Queue, 1, k) = [x \in 1 .. k |-> Queue[x]]
  BY <1>1, <1>3
<1>10. ASSUME NEW x \in 1 .. k PROVE Queue[x] = data[(nread + x - 1) % PIPESIZE]
  BY <1>1 DEF Queue
<1>. QED  BY <1>8, <1>9, <1>10

-----------------------------------------------------------------------------
\* Only write() and read() take a process out of "user", with something to do.
LEMMA CallsKept ==
  ASSUME CallsInv, Types, UNCHANGED <<data, rest, n>>,
         \A p \in Proc : pc[p] = "user" <=> pc'[p] = "user"
  PROVE  CallsInv'
BY DEF CallsInv, Proc

LEMMA WriteCalls == ASSUME PipeInv, CallsInv, NEW w \in Writer, write(w) PROVE CallsInv'
<1>1. /\ UNCHANGED <<data, n>> /\ pc' = [pc EXCEPT ![w] = "call"] /\ w \in Proc /\ w \notin Reader
      /\ \A q \in Reader : q \in Proc
      /\ \A q \in Writer : q \in Proc
  BY PipeAssumption DEF write, pipeVars, Proc
<1>2. \A q \in Writer \ {w} : rest'[q] = rest[q]
  BY DEF write, PipeInv, Types
<1>3. pc'[w] = "call" /\ \A q \in Proc \ {w} : pc'[q] = pc[q]
  BY <1>1 DEF PipeInv, Types
<1>. QED  BY <1>1, <1>2, <1>3 DEF CallsInv

LEMMA ReadCalls == ASSUME PipeInv, CallsInv, NEW r \in Reader, read(r) PROVE CallsInv'
<1>1. /\ UNCHANGED <<data, rest>> /\ pc' = [pc EXCEPT ![r] = "call"] /\ r \in Proc /\ r \notin Writer
      /\ \A q \in Reader : q \in Proc
      /\ \A q \in Writer : q \in Proc
  BY PipeAssumption DEF read, pipeVars, Proc
<1>2. n'[r] >= 1 /\ \A q \in Reader \ {r} : n'[q] = n[q]
  BY DEF read, PipeInv, Types
<1>3. pc'[r] = "call" /\ \A q \in Proc \ {r} : pc'[q] = pc[q]
  BY <1>1 DEF PipeInv, Types
<1>. QED  BY <1>1, <1>2, <1>3 DEF CallsInv

LEMMA PipewriteCalls ==
  ASSUME PipeInv, CallsInv, NEW w \in Writer, pipewrite(w)
  PROVE  CallsInv'
<1> DEFINE k == Least(PIPESIZE - Used, Len(rest[w]))
<1>1. /\ w \in Proc /\ w \notin Reader /\ PIPESIZE \in Nat \ {0}
      /\ \A q \in Reader : q \in Proc /\ q \notin Writer
      /\ \A q \in Writer : q \in Proc /\ q \notin Reader
  BY PipeAssumption DEF Proc
<1>2. /\ Used \in 0 .. PIPESIZE /\ rest[w] \in Seq(Byte) /\ Len(rest[w]) \in Nat
      /\ nwrite \in Int /\ pc \in [Proc -> {"user", "call", "sleep", "asleep"}]
      /\ rest \in [Writer -> Seq(Byte)]
  BY Tests, PipeAssumption DEF PipeInv, Types
<1>3. k \in Nat /\ k <= Len(rest[w])
  BY <1>1, <1>2 DEF Least
<1>4. Put(w, k) /\ UNCHANGED n /\ pc[w] = "call"
  BY DEF pipewrite
<1>5. /\ \A q \in Writer \ {w} : rest'[q] = rest[q]
      /\ pc'[w] = "user" => rest'[w] = <<>>
      /\ \A q \in Proc \ {w} : pc'[q] = "user" <=> pc[q] = "user"
  BY <1>1, <1>2 DEF pipewrite, Wakeup
<1> HIDE DEF k
<1>6. data' \in [0 .. PIPESIZE - 1 -> Content]
  <2>1. ASSUME NEW j \in 0 .. PIPESIZE - 1, (j - nwrite) % PIPESIZE < k
        PROVE  rest[w][1 + ((j - nwrite) % PIPESIZE)] \in Content
    <3>1. j - nwrite \in Int
      BY <1>1, <1>2
    <3>2. (j - nwrite) % PIPESIZE \in 0 .. PIPESIZE - 1
      BY <3>1, Index
    <3>3. 1 + ((j - nwrite) % PIPESIZE) \in 1 .. Len(rest[w])
      BY <1>1, <1>2, <1>3, <2>1, <3>2
    <3>4. rest[w][1 + ((j - nwrite) % PIPESIZE)] \in Byte
      BY <1>2, <3>3
    <3>. QED  BY <3>4 DEF Content
  <2>2. \A j \in 0 .. PIPESIZE - 1 : data[j] \in Content
    BY DEF CallsInv
  <2>. QED  BY <1>4, <2>1, <2>2 DEF Put
<1>. QED  BY <1>1, <1>4, <1>5, <1>6 DEF CallsInv

LEMMA OtherCalls ==
  ASSUME PipeInv, CallsInv,
         \/ \E r \in Reader : piperead_empty(r) \/ piperead(r)
         \/ \E p \in Proc : sleep(p) \/ close(p) \/ kill(p)
         \/ pipealloc
         \/ UNCHANGED vars
  PROVE  CallsInv'
<1>1. Types /\ \A q \in Proc : pc[q] \in {"user", "call", "sleep", "asleep"}
  BY DEF PipeInv, Types
<1>2. /\ \A q \in Reader : q \in Proc /\ q \notin Writer
      /\ \A q \in Writer : q \in Proc
      /\ pc \in [Proc -> {"user", "call", "sleep", "asleep"}]
  BY <1>1, PipeAssumption DEF Proc, Types
<1>3. ASSUME NEW r \in Reader, piperead_empty(r) PROVE CallsInv'
  <2>1. /\ UNCHANGED <<data, rest>> /\ n' = n
        /\ pc[r] = "call" /\ (pc' = [pc EXCEPT ![r] = "user"] \/ pc' = [pc EXCEPT ![r] = "sleep"])
    BY <1>3 DEF piperead_empty, pipeVars
  <2>. QED  BY <1>2, <2>1 DEF CallsInv
<1>4. ASSUME NEW r \in Reader, piperead(r) PROVE CallsInv'
  <2>1. UNCHANGED <<data, rest>> /\ n' = n /\ pc' = Wakeup(Writer, r, "user") /\ pc[r] = "call"
    BY <1>4, Zenon DEF piperead
  <2>2. pc'[r] = "user" /\ \A q \in Proc \ {r} : pc'[q] = "user" <=> pc[q] = "user"
    BY <1>2, <2>1 DEF Wakeup
  <2>. QED  BY <1>2, <2>1, <2>2 DEF CallsInv
<1>5. ASSUME NEW p \in Proc, sleep(p) PROVE CallsInv'
  <2>1. UNCHANGED <<data, rest, n>> /\ \A q \in Proc : pc[q] = "user" <=> pc'[q] = "user"
    BY <1>2, <1>5 DEF sleep, pipeVars
  <2>. QED  BY <1>1, <2>1, CallsKept
<1>6. ASSUME NEW p \in Proc, close(p) PROVE CallsInv'
  <2>1. UNCHANGED <<data, rest, n>> /\ \A q \in Proc : pc[q] = "user" <=> pc'[q] = "user"
    BY <1>2, <1>6 DEF close, Wakeup
  <2>. QED  BY <1>1, <2>1, CallsKept
<1>7. ASSUME NEW p \in Proc, kill(p) PROVE CallsInv'
  <2>1. UNCHANGED <<data, rest, n>> /\ \A q \in Proc : pc[q] = "user" <=> pc'[q] = "user"
    BY <1>2, <1>7 DEF kill, pipeVars
  <2>. QED  BY <1>1, <2>1, CallsKept
<1>8. ASSUME pipealloc \/ UNCHANGED vars PROVE CallsInv'
  BY <1>8 DEF pipealloc, vars, pipeVars, CallsInv
<1>. QED  BY <1>3, <1>4, <1>5, <1>6, <1>7, <1>8

LEMMA InitCalls == Init => CallsInv
BY DEF Init, CallsInv, Content, Proc

LEMMA NextCalls == PipeInv /\ CallsInv /\ [Next]_vars => CallsInv'
BY WriteCalls, ReadCalls, PipewriteCalls, OtherCalls DEF Next, WriterStep, ReaderStep

-----------------------------------------------------------------------------
\* An empty buffer is the empty queue.
LEMMA NoBytes == ASSUME Types, CallsInv, Used = 0 PROVE Queue = <<>>
<1>1. Queue \in Seq(Content) /\ Len(Queue) = 0
  BY QueueSeq
<1>. QED  BY <1>1

LEMMA InitChannel == Init => Chan!Init
<1> SUFFICES ASSUME Init PROVE Chan!Init
  OBVIOUS
<1>1. Types /\ CallsInv
  BY InitInv, InitCalls DEF PipeInv
<1>2. Used = 0
  BY <1>1, Tests DEF Init, Empty
<1>3. Queue = <<>>
  BY <1>1, <1>2, NoBytes
<1>. QED  BY <1>3 DEF Init, Chan!Init, Queue, Proc

\* write() is a Write.
LEMMA WriteChannel == ASSUME PipeInv, CallsInv, NEW w \in Writer, write(w) PROVE Chan!Write(w)
<1>1. rest[w] = <<>> /\ w \in open
  BY DEF write, CallsInv
<1>2. \E k \in 1 .. MaxN : \E addr \in [1 .. k -> Byte] : rest' = [rest EXCEPT ![w] = addr]
  <2>1. PICK k \in 1 .. MaxN : \E addr \in [1 .. k -> Alphabet[w]] : rest' = [rest EXCEPT ![w] = addr]
    BY Zenon DEF write
  <2>2. PICK addr \in [1 .. k -> Alphabet[w]] : rest' = [rest EXCEPT ![w] = addr]
    BY <2>1, Zenon
  <2>3. addr \in [1 .. k -> Byte]
    BY PipeAssumption
  <2>. QED  BY <2>2, <2>3, Zenon
<1>3. Queue' = Queue
  BY DEF write, pipeVars, Queue, Used
<1>4. got' = None /\ UNCHANGED <<open, killed>>
  BY DEF write
<1>. QED  BY <1>1, <1>2, <1>3, <1>4, Zenon DEF Chan!Write, Queue

\* pipewrite() is a Send of the bytes that fit.
LEMMA PipewriteChannel ==
  ASSUME PipeInv, PipeInv', CallsInv, CallsInv', NEW w \in Writer, pipewrite(w)
  PROVE  Chan!Send(w)
<1> DEFINE k == Least(PIPESIZE - Used, Len(rest[w]))
<1>1. Types /\ Types' /\ Ends /\ PIPESIZE \in Nat
  BY PipeAssumption DEF PipeInv
<1>2. Used \in 0 .. PIPESIZE /\ rest[w] \in Seq(Byte) /\ Len(rest[w]) \in Nat
  BY <1>1, Tests DEF Types
<1>3. k \in 0 .. Len(rest[w]) /\ k <= PIPESIZE - Used
  BY <1>1, <1>2 DEF Least
<1>4. Put(w, k) /\ nread' = nread /\ got' = None /\ UNCHANGED <<open, killed>>
  BY DEF pipewrite
<1>5. \/ rest' = [rest EXCEPT ![w] = SubSeq(rest[w], k + 1, Len(rest[w]))]
      \/ (open \cap Reader = {} \/ w \in killed) /\ rest' = [rest EXCEPT ![w] = <<>>]
  <2>1. CASE k = Len(rest[w]) /\ rest' = [rest EXCEPT ![w] = <<>>]
    <3>1. SubSeq(rest[w], k + 1, Len(rest[w])) = <<>>
      BY <1>2, <2>1
    <3>. QED  BY <2>1, <3>1, Zenon
  <2>2. CASE (readopen = 0 \/ w \in killed) /\ rest' = [rest EXCEPT ![w] = <<>>]
    BY <1>1, <2>2 DEF Ends
  <2>. QED  BY <2>1, <2>2 DEF pipewrite
<1> HIDE DEF k
<1>6. Queue' = Queue \o SubSeq(rest[w], 1, k)
  BY <1>1, <1>3, <1>4, Appends
<1>7. Len(Queue) + k <= PIPESIZE
  <2>1. Len(Queue) = Used
    BY <1>1, QueueSeq
  <2>. QED  BY <1>1, <1>2, <1>3, <2>1
<1>. QED  BY <1>3, <1>4, <1>5, <1>6, <1>7, Zenon DEF Chan!Send, Queue

\* piperead() is a Receive.
LEMMA PipereadChannel ==
  ASSUME PipeInv, CallsInv, NEW r \in Reader, piperead(r)
  PROVE  Chan!Receive(r)
<1> DEFINE k == Least(n[r], Used)
<1>1. Types /\ Ends
  BY DEF PipeInv
<1>2. Used \in 0 .. PIPESIZE /\ PIPESIZE \in Nat /\ n[r] \in Nat /\ n[r] >= 1
  BY <1>1, Tests, PipeAssumption DEF Types, CallsInv, piperead
<1>3. k \in 0 .. Used /\ (k = 0 => Used = 0)
  BY <1>2 DEF Least
<1>4. /\ got' = [reader |-> r, bytes |-> [x \in 1 .. k |-> data[(nread + x - 1) % PIPESIZE]]]
      /\ nread' = (nread + k) % UINT
      /\ UNCHANGED <<data, nwrite, rest, open, killed>>
      /\ ~Empty \/ writeopen = 0
  BY DEF piperead
<1> HIDE DEF k
<1>5. /\ Queue' = SubSeq(Queue, k + 1, Len(Queue))
      /\ SubSeq(Queue, 1, k) = [x \in 1 .. k |-> data[(nread + x - 1) % PIPESIZE]]
  BY <1>1, <1>3, <1>4, Takes
<1>6. k \in 0 .. Len(Queue)
  BY <1>1, <1>3, QueueSeq
<1>7. ASSUME k = 0 PROVE Queue = <<>> /\ open \cap Writer = {}
  <2>1. Used = 0 /\ Empty
    BY <1>1, <1>3, <1>7, Tests
  <2>2. writeopen = 0
    BY <1>4, <2>1
  <2>. QED  BY <1>1, <2>1, <2>2, NoBytes DEF Ends
<1>8. got' = [reader |-> r, bytes |-> SubSeq(Queue, 1, k)]
  BY <1>4, <1>5, Zenon
<1>. QED  BY <1>4, <1>5, <1>6, <1>7, <1>8, Zenon DEF Chan!Receive, Queue

\* The steps that the channel does not see.
LEMMA QuietChannel ==
  ASSUME UNCHANGED <<data, nread, nwrite, rest, open, killed>>, got' = None \/ got' = got
  PROVE  Chan!Quiet \/ UNCHANGED Chan!vars
<1>1. Queue' = Queue
  BY DEF Queue, Used
<1>2. CASE got' = got
  BY <1>1, <1>2 DEF Chan!vars, Queue
<1>3. CASE got' = None /\ got' # got
  BY <1>1, <1>3 DEF Chan!Quiet, Queue
<1>. QED  BY <1>2, <1>3

\* Closing an end, and a kill.
LEMMA CloseChannel == ASSUME NEW p \in Proc, close(p) PROVE Chan!Close(p)
<1>1. Queue' = Queue
  BY DEF Queue, Used, close
<1>. QED  BY <1>1 DEF Chan!Close, Queue, close

LEMMA KillChannel == ASSUME NEW p \in Proc, kill(p) PROVE Chan!Kill(p)
<1>1. Queue' = Queue
  BY DEF Queue, Used, kill, pipeVars
<1>. QED  BY <1>1 DEF Chan!Kill, Queue, kill

\* The next pipe in the same page starts empty, whatever is in data[].
LEMMA PipeallocChannel == ASSUME PipeInv, CallsInv, pipealloc PROVE Chan!New
<1>1. Types /\ Ends
  BY DEF PipeInv
<1>2. rest = [w \in Writer |-> <<>>]
  BY <1>1 DEF pipealloc, Ends, CallsInv, Proc, Types
<1>3. 0 \in 0 .. UINT - 1
  BY PipeAssumption
<1>4. Used' = 0
  BY <1>3, Distance DEF pipealloc, Used
<1>5. Queue' = <<>>
  BY <1>4 DEF Queue
<1>6. /\ open = {} /\ open' = Writer \cup Reader /\ killed' = {} /\ got' = None /\ rest' = rest
  BY DEF pipealloc, Proc
<1>. QED  BY <1>2, <1>5, <1>6 DEF Chan!New, Chan!Init, Queue

\* Every step of pipe.c is a step of the channel, or none.
LEMMA NextChannel ==
  ASSUME PipeInv, PipeInv', CallsInv, CallsInv', [Next]_vars
  PROVE  [Chan!Next]_(Chan!vars)
<1>1. CASE \E w \in Writer : WriterStep(w)
  BY <1>1, WriteChannel, PipewriteChannel DEF WriterStep, Chan!Next
<1>2. ASSUME NEW r \in Reader, read(r) \/ piperead_empty(r) PROVE Chan!Quiet \/ UNCHANGED Chan!vars
  BY <1>2, QuietChannel DEF read, piperead_empty, pipeVars
<1>3. CASE \E r \in Reader : ReaderStep(r)
  BY <1>2, <1>3, PipereadChannel DEF ReaderStep, Chan!Next
<1>4. ASSUME NEW p \in Proc, sleep(p) PROVE Chan!Quiet \/ UNCHANGED Chan!vars
  BY <1>4, QuietChannel DEF sleep, pipeVars
<1>5. CASE \E p \in Proc : sleep(p) \/ close(p) \/ kill(p)
  BY <1>4, <1>5, CloseChannel, KillChannel DEF Chan!Next, Proc
<1>6. CASE pipealloc
  BY <1>6, PipeallocChannel DEF Chan!Next
<1>7. CASE UNCHANGED vars
  BY <1>7, QuietChannel DEF vars, pipeVars, Chan!Next
<1>. QED  BY <1>1, <1>3, <1>5, <1>6, <1>7 DEF Next

(* pipe.c implements a FIFO channel of PIPESIZE bytes, for any processes    *)
(* and any width of the counters that is a multiple of PIPESIZE: no byte    *)
(* that pipewrite() put in data[] is lost, doubled or overtaken, a write is *)
(* cut short only when nobody can read it or the writer was killed, and     *)
(* piperead() returns no bytes only at the end of the file.                 *)
THEOREM PipeImplementsChannel == Spec => ImplementsChannel
<1>1. Init => PipeInv /\ CallsInv
  BY InitInv, InitCalls
<1>2. PipeInv /\ CallsInv /\ [Next]_vars => PipeInv' /\ CallsInv'
  BY NextInv, NextCalls
<1>3. Spec => [](PipeInv /\ CallsInv)
  BY <1>1, <1>2, PTL DEF Spec
<1>4. PipeInv /\ CallsInv /\ (PipeInv /\ CallsInv)' /\ [Next]_vars => [Chan!Next]_(Chan!vars)
  BY NextChannel
<1>. QED  BY <1>3, <1>4, InitChannel, PTL DEF Spec, ImplementsChannel, Chan!Spec
=============================================================================
