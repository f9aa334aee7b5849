------------------------------- MODULE Filters -------------------------------
(***************************************************************************)
(* The loops of wc and grep (HW2/src/wc.c, grep.c) over the chunks that    *)
(* read() returns, and grep's matcher.                                     *)
(*                                                                         *)
(* A file fills the buffer as long as there is input; a pipe returns what  *)
(* happens to be there.  "n" is the newline.                               *)
(***************************************************************************)
EXTENDS Integers, Sequences, FiniteSets, FiniteSetsExt, SequencesExt, TLC

CONSTANTS
    Inputs,     \* the texts that are read
    Patterns,   \* grep's patterns
    BufSize     \* sizeof(buf)

ASSUME FiltersAssumption == BufSize \in Nat \ {0, 1}

VARIABLES
    source,     \* "file" or "pipe"
    text,       \* the input
    wc,         \* wc: how much it has read, its counters and inword
    grep        \* grep: how much it has read, pattern, the m bytes it keeps, output

flvars == <<source, text, wc, grep>>

-----------------------------------------------------------------------------
(* The matcher; re and the text are the rest of the strings.               *)

Is(s, i, c) == i <= Len(s) /\ s[i] = c

RECURSIVE matchhere(_, _)

OneMore(c, t, k) == t[k] = c \/ c = "."

\* The number of characters matchstar() may skip.
StarRun(c, t) == Max({k \in 0 .. Len(t) : \A j \in 1 .. k : OneMore(c, t, j)})
matchstar(c, re, t) == \E k \in 0 .. StarRun(c, t) : matchhere(re, SubSeq(t, k + 1, Len(t)))

matchhere(re, t) ==
    CASE re = <<>> -> TRUE
      [] Is(re, 2, "*") -> matchstar(re[1], SubSeq(re, 3, Len(re)), t)
      [] re = <<"$">> -> t = <<>>
      [] OTHER -> /\ t # <<>> /\ (re[1] = "." \/ re[1] = t[1])
                  /\ matchhere(Tail(re), Tail(t))

match(re, t) ==
    IF Is(re, 1, "^") THEN matchhere(Tail(re), t)
    ELSE \E k \in 0 .. Len(t) : matchhere(re, SubSeq(t, k + 1, Len(t)))

-----------------------------------------------------------------------------
(* The loops                                                               *)

\* wc's counters after one more character.
CountChar(s, c) ==
    [at |-> s.at + 1, l |-> s.l + (IF c = "n" THEN 1 ELSE 0),
     w |-> s.w + (IF c \notin {" ", "n"} /\ ~s.inword THEN 1 ELSE 0),
     inword |-> c \notin {" ", "n"}]

\* What read() may return for n bytes from position at on: 0 at the end.
Returned(at, n) ==
    LET most == Min({n, Len(text) - at}) IN
    IF source = "file" \/ most = 0 THEN {most} ELSE 1 .. most

ReadWc ==
    /\ wc.at < Len(text)
    /\ \E n \in Returned(wc.at, BufSize) :
         wc' = FoldLeft(CountChar, wc, SubSeq(text, wc.at + 1, wc.at + n))
    /\ UNCHANGED <<source, text, grep>>

\* The finished lines of a buffer that match, each with its newline.
Newlines(b) == {i \in 1 .. Len(b) : b[i] = "n"}
LineBefore(b, i) == SubSeq(b, Max({0} \cup {j \in Newlines(b) : j < i}) + 1, i - 1)
Matching(re, b) ==
    FlattenSeq([k \in 1 .. Len(b) |->
                  IF k \in Newlines(b) /\ match(re, LineBefore(b, k))
                  THEN Append(LineBefore(b, k), "n") ELSE <<>>])

KeptNothing(b) == <<>>

\* What grep keeps of the buffer: the unfinished line, unless no line was finished.
Kept(b) == IF Newlines(b) = {} THEN <<>> ELSE SubSeq(b, Max(Newlines(b)) + 1, Len(b))

ReadGrep ==
    /\ grep.at < Len(text)
    /\ \E n \in Returned(grep.at, BufSize - Len(grep.buf) - 1) \ {0} :
         LET b == grep.buf \o SubSeq(text, grep.at + 1, grep.at + n) IN
         grep' = [grep EXCEPT !.at = @ + n, !.buf = Kept(b), !.out = @ \o Matching(grep.re, b)]
    /\ UNCHANGED <<source, text, wc>>

-----------------------------------------------------------------------------
FlStart(re) ==
    /\ wc = [at |-> 0, l |-> 0, w |-> 0, inword |-> FALSE]
    /\ grep = [at |-> 0, re |-> re, buf |-> <<>>, out |-> <<>>]

FlInit == source \in {"file", "pipe"} /\ text \in Inputs /\ \E re \in Patterns : FlStart(re)

FlNext == ReadWc \/ ReadGrep

FlSpec == FlInit /\ [][FlNext]_flvars

-----------------------------------------------------------------------------
(* Properties                                                              *)

\* However the input is cut into chunks, wc has counted the lines and words of what
\* it has read, a word across two chunks once.
WcCounts ==
    LET starts == {i \in 1 .. wc.at : /\ text[i] \notin {" ", "n"}
                                      /\ i = 1 \/ text[i - 1] \in {" ", "n"}} IN
    wc.l = Cardinality({i \in Newlines(text) : i <= wc.at}) /\ wc.w = Cardinality(starts)

\* From a file whose lines fit into the buffer, grep writes each line it has read
\* that matches, whole and once, in their order.
GrepWritesMatches ==
    source = "file" /\ (\A i \in Newlines(text) : Len(LineBefore(text, i)) + 2 <= BufSize) =>
       grep.out = Matching(grep.re, SubSeq(text, 1, grep.at))

\* A reference for the matcher: the pattern's items, and the positions of the text
\* each leads to from the positions before it.
RECURSIVE Items(_)
Items(re) ==
    CASE re = <<>> -> <<>>
      [] Is(re, 2, "*") -> << <<"star", re[1]>> >> \o Items(SubSeq(re, 3, Len(re)))
      [] re = <<"$">> -> << <<"end", "$">> >>
      [] OTHER -> << <<"one", re[1]>> >> \o Items(Tail(re))
Eats(c, d) == c = "." \/ c = d
From(t, S, item) ==
    CASE item[1] = "one" -> {k + 1 : k \in {j \in S : j < Len(t) /\ Eats(item[2], t[j + 1])}}
      [] item[1] = "end" -> S \cap {Len(t)}
      [] OTHER -> {k \in 0 .. Len(t) : \E j \in S : /\ j <= k
                                                   /\ \A i \in j + 1 .. k : Eats(item[2], t[i])}
Accepts(re, t) ==
    LET anchored == Is(re, 1, "^")
        items == Items(IF anchored THEN Tail(re) ELSE re) IN
    FoldLeft(LAMBDA S, item : From(t, S, item), IF anchored THEN {0} ELSE 0 .. Len(t), items) # {}

\* match() finds a match exactly when the pattern has one in the text: backtracking
\* in matchstar() misses none.
MatchesPattern == match(grep.re, text) = Accepts(grep.re, text)

\* wc counts what it should however read() cuts its input, grep writes the matching
\* lines of a file, whose reads fill its buffer, and match() decides which they are.
FiltersAgree == WcCounts /\ GrepWritesMatches /\ MatchesPattern
=============================================================================
