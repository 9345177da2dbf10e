------------------------------- MODULE Console -------------------------------
(***************************************************************************)
(* The console (console.c): the ring buffer that the keyboard and the      *)
(* serial line fill, a line at a time, and that read() empties, and the    *)
(* cursor of the screen.  What runs under cons.lock is one step: an        *)
(* interrupt with one character, a read() from its start or its wakeup to  *)
(* its return, a write().  A read() that has to sleep is two steps: kill() *)
(* can come between its test of killed and its sleep().                    *)
(***************************************************************************)
EXTENDS Integers, Sequences, SequencesExt

CONSTANTS Reader,           \* processes that read the console
          INPUT_BUF,        \* characters of the ring
          UINT,             \* r, w and e are modulo UINT
          COLS, ROWS,       \* the screen
          Counts,           \* values of n of read()
          MaxInput          \* bound on characters typed

VARIABLES
    buf, r, w, e,           \* input: the ring; read, write and edit index
    pos,                    \* cursor
    reader,                 \* Reader -> pc, n and target of its call, killed
    line, typed,            \* what was typed: the line being edited, lines before it
    got,                    \* what the readers received
    input                   \* characters so far

ring == <<buf, r, w, e>>
consoleVars == <<ring, pos, reader, line, typed, got, input>>

Editing == {"^H", "^U"}
Char == {"a", "nl", "^D"} \cup Editing

Minus(x, y) == (x - y) % UINT
Plus(x, y) == (x + y) % UINT

(***************************************************************************)
(* After UINT - 1 characters typed and read: the indices are about to wrap.*)
(***************************************************************************)
Init ==
    /\ buf = [i \in 0..(INPUT_BUF - 1) |-> "a"]
    /\ r = UINT - 1 /\ w = r /\ e = r
    /\ pos = 0
    /\ reader = [p \in Reader |-> [pc |-> "idle", n |-> 0, target |-> 0, killed |-> FALSE]]
    /\ line = <<>> /\ typed = <<>> /\ got = <<>>
    /\ input = 0

\* Mutant: the screen scrolls one row late.
cgaputc_late_scroll(x, c) ==
    LET y == CASE c = "nl" -> x + COLS - (x % COLS)
               [] c = "BACKSPACE" -> IF x > 0 THEN x - 1 ELSE x
               [] OTHER -> x + 1
    IN  IF y \div COLS > ROWS - 1 THEN y - COLS ELSE y

(***************************************************************************)
(* cgaputc(): move the cursor, scroll when it reaches the last row.        *)
(***************************************************************************)
cgaputc(x, c) ==
    LET y == CASE c = "nl" -> x + COLS - (x % COLS)
               [] c = "BACKSPACE" -> IF x > 0 THEN x - 1 ELSE x
               [] OTHER -> x + 1
    IN  IF y \div COLS >= ROWS - 1 THEN y - COLS ELSE y

consputc(x, cs) == FoldLeft(cgaputc, x, cs)
Backspaces(n) == [i \in 1..n |-> "BACKSPACE"]

WakeReaders == [p \in Reader |-> IF reader[p].pc = "asleep" THEN [reader[p] EXCEPT !.pc = "read"]
                                                            ELSE reader[p]]

\* Nobody is about to sleep with cons.lock held.
Unlocked == \A p \in Reader : reader[p].pc # "sleep"

-----------------------------------------------------------------------------
(***************************************************************************)
(* consoleintr().                                                          *)
(***************************************************************************)
EraseTo(x) ==
    /\ e' = x
    /\ pos' = consputc(pos, Backspaces(Minus(e, x)))
    /\ UNCHANGED <<buf, r, w, reader>>

(***************************************************************************)
(* How far ^U goes back: to w, or to just after a newline.                 *)
(***************************************************************************)
Kill == CHOOSE k \in 0..Minus(e, w) :
            /\ k = Minus(e, w) \/ buf[Minus(e, k + 1) % INPUT_BUF] = "nl"
            /\ \A j \in 0..(k - 1) : buf[Minus(e, j + 1) % INPUT_BUF] # "nl"

\* Mutant: a full ring takes one more character.
Accept_overrun(c) ==
    /\ Minus(e, r) <= INPUT_BUF
    /\ buf' = [buf EXCEPT ![e % INPUT_BUF] = c]
    /\ e' = Plus(e, 1)
    /\ pos' = cgaputc(pos, c)
    /\ IF c \in {"nl", "^D"} \/ e' = Plus(r, INPUT_BUF)
       THEN w' = e' /\ reader' = WakeReaders
       ELSE UNCHANGED <<w, reader>>
    /\ UNCHANGED r

Accept(c) ==
    /\ Minus(e, r) < INPUT_BUF
    /\ buf' = [buf EXCEPT ![e % INPUT_BUF] = c]
    /\ e' = Plus(e, 1)
    /\ pos' = cgaputc(pos, c)
    /\ IF c \in {"nl", "^D"} \/ e' = Plus(r, INPUT_BUF)
       THEN w' = e' /\ reader' = WakeReaders
       ELSE UNCHANGED <<w, reader>>
    /\ UNCHANGED r

Drop == Minus(e, r) >= INPUT_BUF /\ UNCHANGED <<ring, pos, reader>>

(***************************************************************************)
(* The same by what a terminal should do: edit the line, hand it over at   *)
(* its end or when the buffer is full.                                     *)
(***************************************************************************)
Pending == Len(typed) - Len(got)
Edit(c) ==
    CASE c = "^U" -> line' = <<>> /\ UNCHANGED typed
      [] c = "^H" -> line' = SubSeq(line, 1, Len(line) - 1) /\ UNCHANGED typed
      [] OTHER -> IF Pending + Len(line) >= INPUT_BUF THEN UNCHANGED <<line, typed>>
                  ELSE IF c \in {"nl", "^D"} \/ Pending + Len(line) + 1 = INPUT_BUF
                  THEN line' = <<>> /\ typed' = typed \o Append(line, c)
                  ELSE line' = Append(line, c) /\ UNCHANGED typed

consoleintr(c) ==
    /\ Unlocked
    /\ input < MaxInput /\ input' = input + 1
    /\ CASE c = "^U" -> EraseTo(Minus(e, Kill))
         [] c = "^H" -> EraseTo(IF e # w THEN Minus(e, 1) ELSE e)
         [] OTHER -> Accept(c) \/ Drop
    /\ Edit(c)
    /\ UNCHANGED got

(***************************************************************************)
(* consoleread(): the loop, from a state x of r, n and the characters      *)
(* given so far, until it returns or finds the ring empty.                 *)
(***************************************************************************)
RECURSIVE ReadLoop(_, _)
ReadLoop(x, target) ==
    LET c == buf[x.r % INPUT_BUF] IN
    CASE x.n = 0 -> [x EXCEPT !.pc = "idle"]
      [] x.n > 0 /\ x.r = w -> [x EXCEPT !.pc = "sleep"]
      [] x.n > 0 /\ x.r # w /\ c = "^D" ->
            [x EXCEPT !.pc = "idle", !.r = IF x.n < target THEN @ ELSE Plus(@, 1),
                      !.out = IF x.n < target THEN @ ELSE Append(@, c)]
      [] x.n > 0 /\ x.r # w /\ c = "nl" ->
            [x EXCEPT !.pc = "idle", !.r = Plus(@, 1), !.n = @ - 1, !.out = Append(@, c)]
      [] OTHER -> ReadLoop([x EXCEPT !.r = Plus(@, 1), !.n = @ - 1, !.out = Append(@, c)], target)

read(p, n) ==
    /\ reader[p].pc = "idle" /\ ~reader[p].killed
    /\ reader' = [reader EXCEPT ![p] = [@ EXCEPT !.pc = "read", !.n = n, !.target = n]]
    /\ UNCHANGED <<ring, pos, line, typed, got, input>>

ReadOn(p, target) ==
    LET x == ReadLoop([pc |-> "read", r |-> r, n |-> reader[p].n, out |-> <<>>], target) IN
    /\ reader[p].pc = "read" /\ Unlocked
    /\ reader' = [reader EXCEPT ![p] = [@ EXCEPT
                     !.pc = IF reader[p].killed THEN "idle" ELSE x.pc, !.n = x.n]]
    /\ r' = x.r
    /\ got' = got \o x.out
    /\ UNCHANGED <<buf, w, e, pos, line, typed, input>>

\* Mutant: a call that slept forgets what it has returned.
consoleread_restarts(p) == ReadOn(p, reader[p].n)

consoleread(p) == ReadOn(p, reader[p].target)

sleep(p) ==
    /\ reader[p].pc = "sleep"
    /\ reader' = [reader EXCEPT ![p].pc = "asleep"]
    /\ UNCHANGED <<ring, pos, line, typed, got, input>>

consolewrite(p) ==
    /\ reader[p].pc = "idle" /\ Unlocked /\ input < MaxInput
    /\ input' = input + 1
    /\ pos' = consputc(pos, <<"a", "nl">>)
    /\ UNCHANGED <<ring, reader, line, typed, got>>

kill(p) ==
    /\ ~reader[p].killed
    /\ reader' = [reader EXCEPT ![p] = [@ EXCEPT !.killed = TRUE,
                                                 !.pc = IF @ = "asleep" THEN "read" ELSE @]]
    /\ UNCHANGED <<ring, pos, line, typed, got, input>>

(***************************************************************************)
(* Nothing more is typed.                                                  *)
(***************************************************************************)
Quiet == input = MaxInput /\ Unlocked /\ UNCHANGED consoleVars

Next ==
    \/ Quiet
    \/ \E c \in Char : consoleintr(c)
    \/ \E p \in Reader :
          \/ \E n \in Counts : read(p, n)
          \/ consoleread(p) \/ sleep(p) \/ consolewrite(p) \/ kill(p)

Spec == Init /\ [][Next]_consoleVars

-----------------------------------------------------------------------------
Slice(from, to) == [k \in 1..Minus(to, from) |-> buf[Plus(from, k - 1) % INPUT_BUF]]

\* A reader sleeps on an empty ring only (console.c:244), but perhaps killed.
ReaderSleepsOnEmptyRing ==
    \A p \in Reader : reader[p].pc = "asleep" => r = w

(* The ring holds the lines that were handed over and not yet read, and    *)
(* behind them the line being edited; readers received what came before,   *)
(* in order and without a gap, also when r, w and e wrap and when typing   *)
(* outruns the readers; and no reader sleeps while there is a line for it  *)
(* (consoleintr, consoleread).                                             *)
RingRight ==
    /\ got \o Slice(r, w) = typed
    /\ Slice(w, e) = line
    /\ ReaderSleepsOnEmptyRing

(* An end of file is used up only by a call that returns no byte           *)
(* (console.c:255: "to make sure caller gets a 0-byte result").            *)
EofIsZeroBytes ==
    [][\A p \in Reader :
          got' # got /\ Last(got') = "^D" /\ consoleread(p)
             => reader'[p].n = reader'[p].target]_consoleVars

(* The cursor stays on the screen: neither the panic of cgaputc()          *)
(* (console.c:151) nor a write behind the last row (console.c:162).        *)
CursorOnScreen == pos \in 0..((ROWS - 1) * COLS - 1)
=============================================================================
