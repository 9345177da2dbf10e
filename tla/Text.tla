-------------------------------- MODULE Text --------------------------------
(***************************************************************************)
(* grep.c and wc.c: the pattern matcher, and the loops that read a file,   *)
(* a pipe or the console in pieces of any length.                          *)
(***************************************************************************)
EXTENDS Naturals, FiniteSets, Sequences, SequencesExt

CONSTANTS BUF,              \* sizeof(buf)
          MaxPattern, MaxText, MaxInput

VARIABLES
    prog, re,               \* the program and its pattern
    input,                  \* the whole input
    at,                     \* characters read
    buf,                    \* grep: buf[0..m-1]
    out,                    \* grep: what was written
    count,                  \* wc: l, w, c, inword
    cuts                    \* history: the values of at, where the pieces end

textVars == <<prog, re, input, at, buf, out, count, cuts>>

-----------------------------------------------------------------------------
(***************************************************************************)
(* The matcher.  The end of a sequence is the NUL of the string.           *)
(***************************************************************************)
RECURSIVE matchhere(_, _), matchstar(_, _, _)

matchhere(r, text) ==
    CASE r = <<>> -> TRUE
      [] Len(r) > 1 /\ r[2] = "*" -> matchstar(r[1], SubSeq(r, 3, Len(r)), text)
      [] r = <<"$">> -> text = <<>>
      [] OTHER -> text # <<>> /\ (r[1] = "." \/ r[1] = text[1]) /\ matchhere(Tail(r), Tail(text))

\* Mutant: one character at least.
matchstar_plus(c, r, text) ==
    text # <<>> /\ (text[1] = c \/ c = ".")
      /\ (matchhere(r, Tail(text)) \/ matchstar(c, r, Tail(text)))

matchstar(c, r, text) ==
    \/ matchhere(r, text)
    \/ text # <<>> /\ (text[1] = c \/ c = ".") /\ matchstar(c, r, Tail(text))

match(r, text) ==
    IF r # <<>> /\ r[1] = "^" THEN matchhere(Tail(r), text)
    ELSE \E i \in 1..(Len(text) + 1) : matchhere(r, SubSeq(text, i, Len(text)))

(***************************************************************************)
(* What a pattern means: a sequence of items, each a character or . with   *)
(* or without a star, that cut a stretch of the text into pieces.          *)
(***************************************************************************)
RECURSIVE Items(_)
Items(r) ==
    CASE r = <<>> -> <<>>
      [] Len(r) > 1 /\ r[2] = "*" -> <<[c |-> r[1], star |-> TRUE]>> \o Items(SubSeq(r, 3, Len(r)))
      [] OTHER -> <<[c |-> r[1], star |-> FALSE]>> \o Items(Tail(r))

Fits(item, piece) ==
    /\ ~item.star => Len(piece) = 1
    /\ \A i \in DOMAIN piece : item.c \in {".", piece[i]}

Means(r, text) ==
    LET first == r # <<>> /\ r[1] = "^"
        all == Items(IF first THEN Tail(r) ELSE r)
        last == all # <<>> /\ Last(all) = [c |-> "$", star |-> FALSE]
        items == IF last THEN Front(all) ELSE all
        m == Len(items)
    IN  \E cut \in [0..m -> 1..(Len(text) + 1)] :
            /\ first => cut[0] = 1
            /\ last => cut[m] = Len(text) + 1
            /\ \A j \in 1..m : /\ cut[j - 1] <= cut[j]
                               /\ Fits(items[j], SubSeq(text, cut[j - 1], cut[j] - 1))

-----------------------------------------------------------------------------
Init ==
    /\ \/ /\ prog = "match"
          /\ re \in BoundedSeq({"a", ".", "*", "^", "$"}, MaxPattern)
          /\ input \in BoundedSeq({"a", "b"}, MaxText)
       \/ /\ prog = "grep" /\ re = <<"^", "a">> /\ input \in BoundedSeq({"a", "b", "nl"}, MaxInput)
       \/ /\ prog = "wc" /\ re = <<>> /\ input \in BoundedSeq({"a", " ", "nl"}, MaxInput)
    /\ at = 0 /\ buf = <<>> /\ out = <<>> /\ cuts = {0}
    /\ count = [l |-> 0, w |-> 0, c |-> 0, inword |-> FALSE]

Read(n) == SubSeq(input, at + 1, at + n)
HasNewline(s) == \E i \in DOMAIN s : s[i] = "nl"

(***************************************************************************)
(* The inner loop of grep(): take lines off the front of s.                *)
(***************************************************************************)
RECURSIVE Lines(_, _, _)
Lines(r, s, o) ==
    IF ~HasNewline(s) THEN [rest |-> s, out |-> o]
    ELSE LET q == CHOOSE i \in DOMAIN s : s[i] = "nl" /\ \A j \in 1..(i - 1) : s[j] # "nl"
             line == SubSeq(s, 1, q - 1)
         IN  Lines(r, SubSeq(s, q + 1, Len(s)), IF match(r, line) THEN Append(o, line) ELSE o)

\* Mutant: the rest of the buffer is dropped.
grep_forgets(n) ==
    /\ prog = "grep" /\ n <= BUF - Len(buf) - 1
    /\ LET s == buf \o Read(n)
           x == Lines(re, s, out)
       IN  out' = x.out /\ buf' = <<>>
    /\ UNCHANGED count

grep(n) ==
    /\ prog = "grep" /\ n <= BUF - Len(buf) - 1
    /\ LET s == buf \o Read(n)
           x == Lines(re, s, out)
       IN  out' = x.out /\ buf' = IF x.rest = s THEN <<>> ELSE x.rest
    /\ UNCHANGED count

(***************************************************************************)
(* wc().                                                                   *)
(***************************************************************************)
Char(k, c) ==
    [c |-> k.c + 1, l |-> k.l + (IF c = "nl" THEN 1 ELSE 0),
     w |-> k.w + (IF c = "a" /\ ~k.inword THEN 1 ELSE 0), inword |-> c = "a"]

wc(n) ==
    /\ prog = "wc"
    /\ count' = FoldLeft(Char, count, Read(n))
    /\ UNCHANGED <<buf, out>>

Read1 == \E n \in 1..(Len(input) - at) :
            /\ at' = at + n /\ cuts' = cuts \cup {at + n}
            /\ grep(n) \/ wc(n)
            /\ UNCHANGED <<prog, re, input>>
End == (prog = "match" \/ at = Len(input) \/ Len(buf) = BUF - 1) /\ UNCHANGED textVars

Next == Read1 \/ End
Spec == Init /\ [][Next]_textVars

-----------------------------------------------------------------------------
(* The matcher finds a match exactly when the text has a stretch that the  *)
(* pattern describes, for ^ . * and $ in every combination (grep.c:1).     *)
MatchRight == prog = "match" => match(re, input) = Means(re, input)

\* grep() forgets a piece without a newline, and what it had kept of that
\* line before it (grep.c:29): it drops the character at n.
Newlines == {j \in 1..at : input[j] = "nl"}
Dropped(n) ==
    \E a, b \in cuts :
        /\ a < b /\ \A c \in cuts : c <= a \/ c >= b
        /\ n <= b /\ \A j \in Newlines : j > b \/ (j <= a /\ j < n)

\* What is left of the characters between a and b.
Kept(a, b) ==
    LET kept == SelectSeq([k \in 1..(b - a - 1) |-> a + k], LAMBDA n : ~Dropped(n))
    IN  [k \in DOMAIN kept |-> input[kept[k]]]
LineBefore(n) == Kept(Max({j \in Newlines : j < n} \cup {0}), n)

\* grep writes, in order, each line that the pattern describes, and keeps the
\* line it is in, less the characters it drops: a line is whole when none of
\* its characters came in a piece without a newline (grep.c:17-34).
GrepRight ==
    LET ends == SetToSortSeq(Newlines, <)
        lines == [k \in DOMAIN ends |-> LineBefore(ends[k])]
    IN  prog = "grep" => /\ out = SelectSeq(lines, LAMBDA l : Means(re, l))
                         /\ buf = LineBefore(at + 1)

\* wc counts a word that a read() cuts in two once.
WcRight ==
    LET Starts == {i \in 1..at : input[i] = "a" /\ (i = 1 \/ input[i - 1] # "a")} IN
    prog = "wc" => count.w = Cardinality(Starts)

(* Whatever pieces read() returns, grep writes exactly the lines that      *)
(* match, each less the pieces that hold no newline and what came before   *)
(* them in their line, and wc counts exactly the words that are there.     *)
PiecesRight == GrepRight /\ WcRight
=============================================================================
