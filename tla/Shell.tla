-------------------------------- MODULE Shell --------------------------------
(***************************************************************************)
(* The xv6 shell (HW2/src/sh.c; HW3/xv6-src/sh.c, where the children of a  *)
(* pipe leave their descriptors alone): its parser, and the processes that *)
(* runcmd() makes of a line.                                               *)
(*                                                                         *)
(* A line is a sequence of characters; letters stand for those of words.   *)
(* A command is a tuple <<type, ...>>, and a word the pair [q, eq] that    *)
(* argv[] and eargv[] hold.                                                *)
(***************************************************************************)
EXTENDS Integers, Sequences, FiniteSets, FiniteSetsExt, SequencesExt, TLC

CONSTANTS
    Scripts,        \* the input: sequences of lines
    Ids,            \* names for processes, 1 .. n; process 1 is the shell
    Pipes,          \* names for pipes
    MAXARGS,
    Plumbings       \* which versions of PIPE: TRUE for HW2, FALSE for HW3

ASSUME ShellAssumption ==
    1 \in Ids /\ Ids \subseteq Nat /\ MAXARGS \in Nat /\ Plumbings \subseteq BOOLEAN

VARIABLES
    typed,      \* the lines still to be read
    buf,        \* main()'s buf
    tree,       \* what parsecmd(), a function of buf, makes of it in the child
    sh,         \* the processes
    plumbed     \* whether the children of a pipe rearrange their descriptors

-----------------------------------------------------------------------------
(* The scanner                                                             *)

symbols == {"<", "|", ">", "&", ";", "(", ")"}

\* The character at i; the buffer ends with a nul.
At(s, i) == IF i \in 1 .. Len(s) THEN s[i] ELSE "nul"
First(s, i, P(_)) ==
    CHOOSE j \in i .. Len(s) + 1 : P(At(s, j)) /\ \A k \in i .. j - 1 : ~P(At(s, k))
Skip(s, i) == First(s, i, LAMBDA c : c # " ")

WordEnd(s, q) == First(s, q, LAMBDA d : d \in symbols \cup {" ", "nul"})

Kind(c, next) == CASE c \in symbols \cup {"nul"} /\ c # ">" -> c
                   [] c = ">" -> IF next = ">" THEN "+" ELSE ">"
                   [] OTHER -> "a"
EndOf(tok, s, q) == CASE tok = "nul" -> q
                      [] tok = "a" -> WordEnd(s, q)
                      [] tok = "+" -> q + 2
                      [] OTHER -> q + 1
Token(tok, q, eq, s) == [tok |-> tok, q |-> q, eq |-> eq, i |-> Skip(s, eq)]
TokenAt(s, q) ==
    LET tok == Kind(At(s, q), At(s, q + 1)) IN Token(tok, q, EndOf(tok, s, q), s)

\* gettoken(): the token, where it begins and ends, and where the next begins.
gettoken(s, i) == TokenAt(s, Skip(s, i))

peek(s, i, toks) == At(s, Skip(s, i)) \in toks
After(s, i) == gettoken(s, i).i

-----------------------------------------------------------------------------
(* The parser: each function returns a command and the position after it.  *)
(* panic() ends the process, so the rest of the line is not parsed.        *)

execcmd == <<"exec", <<>> >>
redircmd(c, file, fd) == <<"redir", c, file, fd>>
pipecmd(l, r) == <<"pipe", l, r>>
listcmd(l, r) == <<"list", l, r>>
backcmd(c) == <<"back", c>>

Panic(s) == [cmd |-> <<"panic">>, i |-> Len(s) + 1]

\* redircmd() around c, for each redirection at i.
RECURSIVE parseredirs(_, _, _)
Redirect(c, s, fd, file) ==
    IF file.tok # "a" THEN Panic(s)
    ELSE parseredirs(redircmd(c, [q |-> file.q, eq |-> file.eq], fd), s, file.i)
RedirectTo(c, s, t) == Redirect(c, s, IF t.tok = "<" THEN 0 ELSE 1, gettoken(s, t.i))
parseredirs(c, s, i) ==
    IF peek(s, i, {"<", ">"}) THEN RedirectTo(c, s, gettoken(s, i))
    ELSE [cmd |-> c, i |-> Skip(s, i)]

\* The words of a simple command with n of them so far; the argv[] being filled is
\* the innermost command of c.
RECURSIVE AddWord(_, _)
AddWord(c, w) == IF c[1] = "exec" THEN <<"exec", Append(c[2], w)>>
                 ELSE redircmd(AddWord(c[2], w), c[3], c[4])

RECURSIVE Words(_, _, _, _)
MoreWords(n, s, r) == IF r.cmd[1] = "panic" THEN Panic(s) ELSE Words(r.cmd, n, s, r.i)
WordAt(c, n, s, t) ==
    CASE t.tok = "nul" -> [cmd |-> c, i |-> t.q]
      [] t.tok \notin {"nul", "a"} \/ n + 1 >= MAXARGS -> Panic(s)
      [] OTHER -> MoreWords(n + 1, s, parseredirs(AddWord(c, [q |-> t.q, eq |-> t.eq]), s, t.i))
Words(c, n, s, i) ==
    IF peek(s, i, {"|", ")", "&", ";"}) THEN [cmd |-> c, i |-> Skip(s, i)]
    ELSE WordAt(c, n, s, gettoken(s, i))

RECURSIVE parseline(_, _)
RECURSIVE parsepipe(_, _)
RECURSIVE Backs(_, _, _)

CloseBlock(s, l) ==
    IF peek(s, l.i, {")"}) THEN parseredirs(l.cmd, s, After(s, l.i)) ELSE Panic(s)
parseblock(s, i) == CloseBlock(s, parseline(s, After(s, i)))

parseexec(s, i) ==
    IF peek(s, i, {"("}) THEN parseblock(s, i) ELSE MoreWords(0, s, parseredirs(execcmd, s, i))

PipeInto(l, r) == [cmd |-> pipecmd(l.cmd, r.cmd), i |-> r.i]
PipeFrom(s, l) == IF peek(s, l.i, {"|"}) THEN PipeInto(l, parsepipe(s, After(s, l.i))) ELSE l
parsepipe(s, i) == PipeFrom(s, parseexec(s, i))

BacksOnce(c, s, i) ==
    IF peek(s, i, {"&"}) THEN [cmd |-> backcmd(c), i |-> After(s, i)]
    ELSE [cmd |-> c, i |-> Skip(s, i)]

Backs(c, s, i) ==
    IF peek(s, i, {"&"}) THEN Backs(backcmd(c), s, After(s, i)) ELSE [cmd |-> c, i |-> Skip(s, i)]

ListWith(l, r) == [cmd |-> listcmd(l.cmd, r.cmd), i |-> r.i]
ListFrom(s, l) == IF peek(s, l.i, {";"}) THEN ListWith(l, parseline(s, After(s, l.i))) ELSE l
BacksFrom(s, p) == ListFrom(s, Backs(p.cmd, s, p.i))
parseline(s, i) == BacksFrom(s, parsepipe(s, i))

\* The commands in c, itself included.
RECURSIVE Sub(_)
Sub(c) == {c} \cup CASE c[1] \in {"pipe", "list"} -> Sub(c[2]) \cup Sub(c[3])
                     [] c[1] \in {"back", "redir"} -> Sub(c[2])
                     [] OTHER -> {}

WholeLine(s, l) ==
    IF Skip(s, l.i) # Len(s) + 1 \/ <<"panic">> \in Sub(l.cmd) THEN <<"panic">> ELSE l.cmd
parsecmd(s) == WholeLine(s, parseline(s, 1))

\* The words of a command, and the buffer after nulterminate().
WordsOf(c) == UNION {CASE d[1] = "exec" -> ToSet(d[2]) [] d[1] = "redir" -> {d[3]}
                       [] OTHER -> {} : d \in Sub(c)}
nulterminate(s, c) ==
    [i \in 1 .. Len(s) |-> IF \E w \in WordsOf(c) : i = w.eq THEN "nul" ELSE s[i]]

-----------------------------------------------------------------------------
(* The processes.  init is process 0; a descriptor is <<"con">>,           *)
(* <<"file">>, <<"r", pipe>>, <<"w", pipe>> or <<"closed">>.               *)

shvars == <<typed, buf, tree, sh, plumbed>>

Fds == 0 .. 6
NoProc == [st |-> "free", parent |-> 0, pc |-> "", cmd |-> <<"none">>, path |-> <<>>,
           fd |-> [f \in Fds |-> <<"closed">>], ends |-> <<>>, orphan |-> FALSE]
Console == [f \in Fds |-> IF f <= 2 THEN <<"con">> ELSE <<"closed">>]
Main == [NoProc EXCEPT !.st = "run", !.pc = "prompt", !.fd = Console]

Live(p) == sh[p].st = "run"
Runs(p, pc) == Live(p) /\ sh[p].pc = pc
RunsCmd(p, type) == Runs(p, "runcmd") /\ sh[p].cmd[1] = type
Set(p, r) == sh' = [sh EXCEPT ![p] = r @@ @] /\ UNCHANGED <<typed, buf, tree, plumbed>>

FreeFds(fd) == {f \in Fds : fd[f] = <<"closed">>}
Close(fd, S) == [f \in Fds |-> IF f \in S THEN <<"closed">> ELSE fd[f]]
\* open(), dup() and pipe() take the lowest descriptor.
Open(fd, x) == [fd EXCEPT ![Min(FreeFds(fd))] = x]

\* exit(): descriptors are closed, children go to init, which reaps zombies.
Exited(S, p, panic) ==
    [q \in Ids |->
       CASE q = p -> IF S[p].parent = 0 THEN NoProc
                     ELSE [NoProc EXCEPT !.st = "zombie", !.parent = S[p].parent]
         [] S[q].parent = p /\ S[q].st = "zombie" -> NoProc
         [] OTHER -> [S[q] EXCEPT !.parent = IF @ = p THEN 0 ELSE @,
                                  !.orphan = @ \/ (panic /\ S[q].st = "run"
                                                   /\ IsPrefix(S[p].path, S[q].path))]]

Exit(p) == sh' = Exited(sh, p, FALSE) /\ UNCHANGED <<typed, buf, tree, plumbed>>
PanicExit(p) == sh' = Exited(sh, p, TRUE) /\ UNCHANGED <<typed, buf, tree, plumbed>>

FreeIds == {q \in Ids : sh[q].st = "free"}

\* fork1() by p, which goes on as r; the child does the rest.  fork() may fail.
fork1(p, r, child) ==
    \/ /\ FreeIds # {}
       /\ sh' = [sh EXCEPT ![p] = r @@ @,
                           ![Min(FreeIds)] = child @@ [sh[p] EXCEPT !.parent = p, !.ends = <<>>]]
       /\ UNCHANGED <<typed, buf, tree, plumbed>>
    \/ PanicExit(p)

Reap(p, r) ==
    /\ \E q \in Ids : /\ sh[q].parent = p /\ sh[q].st = "zombie"
                      /\ sh' = [sh EXCEPT ![q] = NoProc, ![p] = r @@ @]
    /\ UNCHANGED <<typed, buf, tree, plumbed>>

\* wait(), which returns -1 at once when there are no children.
wait(p, r) ==
    \/ Reap(p, r)
    \/ ~(\E q \in Ids : sh[q].parent = p /\ sh[q].st # "free") /\ Set(p, r)

-----------------------------------------------------------------------------
(* main() and runcmd()                                                     *)

\* "cd " is done by the shell itself, in the line without its newline.
Chdir(line) == IsPrefix(<<"c", "d", " ">>, line)

\* getcmd(): a line, or the end of the input, after which init starts a new shell.
getcmd ==
    /\ Runs(1, "prompt")
    /\ IF typed = <<>> THEN Exit(1)
       ELSE /\ typed' = Tail(typed) /\ UNCHANGED plumbed
            /\ IF Chdir(Head(typed)) THEN buf' = Front(Head(typed)) /\ UNCHANGED <<tree, sh>>
               ELSE /\ buf' = Head(typed) /\ tree' = parsecmd(buf')
                    /\ sh' = [sh EXCEPT ![1].pc = "fork"]
Restart ==
    /\ sh[1].st = "free"
    /\ sh' = [sh EXCEPT ![1] = Main] /\ UNCHANGED <<typed, buf, tree, plumbed>>

Main1(p) ==
    \/ /\ Runs(p, "fork")
       /\ fork1(p, [pc |-> "wait"], [pc |-> "parse"])
    \/ Runs(p, "wait") /\ wait(p, [pc |-> "prompt"])
    \/ /\ Runs(p, "parse")
       /\ IF tree = <<"panic">> THEN PanicExit(p) ELSE Set(p, [pc |-> "runcmd", cmd |-> tree])

\* exec() of the program, if there is one; it may fail.
RunExec(p) ==
    /\ RunsCmd(p, "exec")
    /\ \/ sh[p].cmd[2] # <<>> /\ Set(p, [pc |-> "program"])
       \/ Exit(p)

RunRedir(p) ==
    /\ RunsCmd(p, "redir")
    /\ \/ Set(p, [cmd |-> sh[p].cmd[2], fd |-> Open(Close(sh[p].fd, {sh[p].cmd[4]}), <<"file">>)])
       \/ Exit(p)

Down(p, side) == Append(sh[p].path, side)

RunList(p) ==
    \/ /\ RunsCmd(p, "list")
       /\ fork1(p, [pc |-> "listwait"], [cmd |-> sh[p].cmd[2], path |-> Down(p, "list1")])
    \/ /\ Runs(p, "listwait")
       /\ wait(p, [pc |-> "runcmd", cmd |-> sh[p].cmd[3], path |-> Down(p, "list2")])

RunBack(p) ==
    \/ /\ RunsCmd(p, "back")
       /\ fork1(p, [pc |-> "exit"], [cmd |-> sh[p].cmd[2], path |-> Down(p, "back")])
    \/ Runs(p, "exit") /\ Exit(p)

Used(k) == \E p \in Ids, f \in Fds : sh[p].fd[f] \in {<<"r", k>>, <<"w", k>>}

\* pipe(): two descriptors, or a panic.
RunPipe(p) ==
    LET fd == sh[p].fd
        free == {k \in Pipes : ~Used(k)}
        k == CHOOSE j \in free : TRUE
        r == Min(FreeFds(fd))
        w == Min(FreeFds(fd) \ {r}) IN
    /\ RunsCmd(p, "pipe")
    /\ IF Cardinality(FreeFds(fd)) >= 2 /\ free # {}
       THEN Set(p, [pc |-> "left", ends |-> <<r, w>>,
                    fd |-> [fd EXCEPT ![r] = <<"r", k>>, ![w] = <<"w", k>>]])
       ELSE PanicExit(p)

PlumbKeepsWrite(p, f, e) ==
    LET fd == sh[p].fd IN Close(Open(Close(fd, {f}), fd[sh[p].ends[e]]), {sh[p].ends[1]})

\* The descriptors of a child whose descriptor f becomes end e of the pipe: close(),
\* dup() and two more close().  In HW3 these calls are commented out.
Plumb(p, f, e) ==
    LET fd == sh[p].fd IN
    IF plumbed THEN Close(Open(Close(fd, {f}), fd[sh[p].ends[e]]), {sh[p].ends[1], sh[p].ends[2]})
    ELSE fd

PipeWaitOnce(p) == Runs(p, "wait1") /\ wait(p, [pc |-> "exit"])

PipeWait(p) ==
    \/ Runs(p, "wait1") /\ wait(p, [pc |-> "wait2"])
    \/ Runs(p, "wait2") /\ wait(p, [pc |-> "exit"])

PipeSteps(p) ==
    LET c == sh[p].cmd IN
    \/ /\ Runs(p, "left")
       /\ fork1(p, [pc |-> "right"],
                [pc |-> "runcmd", cmd |-> c[2], path |-> Down(p, "pipe1"), fd |-> Plumb(p, 1, 2)])
    \/ /\ Runs(p, "right")
       /\ fork1(p, [pc |-> "close"],
                [pc |-> "runcmd", cmd |-> c[3], path |-> Down(p, "pipe2"), fd |-> Plumb(p, 0, 1)])
    \/ /\ Runs(p, "close")
       /\ Set(p, [pc |-> "wait1", fd |-> Close(sh[p].fd, ToSet(sh[p].ends)), ends |-> <<>>])
    \/ PipeWait(p)

\* A program reads its standard input to the end, and exits.
Program(p) ==
    /\ Runs(p, "program")
    /\ \A k \in Pipes : sh[p].fd[0] = <<"r", k>> =>
         \A q \in Ids, f \in Fds : sh[q].fd[f] # <<"w", k>>
    /\ Exit(p)

runcmd(p) == RunExec(p) \/ RunRedir(p) \/ RunList(p) \/ RunBack(p) \/ RunPipe(p) \/ PipeSteps(p)

-----------------------------------------------------------------------------
ShProcs == sh = [p \in Ids |-> IF p = 1 THEN Main ELSE NoProc]

ShInit ==
    /\ plumbed \in Plumbings /\ typed \in Scripts /\ buf = <<>> /\ tree = <<"none">>
    /\ ShProcs

Step(p) == Main1(p) \/ runcmd(p) \/ Program(p)

ShNext == getcmd \/ Restart \/ \E p \in Ids : Step(p)

\* The scheduler runs every process, and programs finish when their input ends.
ShFairness == WF_shvars(Restart) /\ \A p \in Ids : WF_shvars(Step(p))

ShSpec == ShInit /\ [][ShNext]_shvars /\ ShFairness

-----------------------------------------------------------------------------
(* Properties                                                              *)

\* Descriptors 0 to 2 of every process are open, which dup() and open() rely on,
\* and a process that has a parent is known to it.
ShTypeOK ==
    \A p \in Ids :
       /\ Live(p) => \A f \in 0 .. 2 : sh[p].fd[f] # <<"closed">>
       /\ sh[p].parent # 0 => sh[sh[p].parent].st = "run"

Foreground(p) == Live(p) /\ ~sh[p].orphan /\ "back" \notin ToSet(sh[p].path)

\* "cmd ; cmd": no process of the right side runs while one of the left side does,
\* pipelines and nested lists included, unless one of them is in the background or
\* lost its parent to a failed fork().
ListInOrder ==
    \A p, q \in Ids : Foreground(p) /\ Foreground(q) =>
       \A n \in 1 .. Min({Len(sh[p].path), Len(sh[q].path)}) :
          SubSeq(sh[p].path, 1, n - 1) = SubSeq(sh[q].path, 1, n - 1) =>
             ~(sh[p].path[n] = "list2" /\ sh[q].path[n] = "list1")

\* The shell prompts again only when the whole line has finished: every wait() of
\* runcmd() has the child it is meant for.
PromptWaits == Runs(1, "prompt") => \A p \in Ids \ {1} : ~Foreground(p)

\* Every line comes to its end: no reader of a pipe waits for an end of file that a
\* descriptor left open by the shell keeps away.
PromptReturns == (sh[1].pc # "prompt") ~> (sh[1].pc = "prompt")

-----------------------------------------------------------------------------
\* The string that begins at i of a buffer with nuls in it.
StringAt(s, i) == SubSeq(s, i, First(s, i, LAMBDA c : c = "nul") - 1)

\* The words of the text: runs of letters.
TextWords(s) ==
    {[q |-> i, eq |-> First(s, i, LAMBDA c : c \in symbols \cup {" ", "nul"})] :
       i \in {j \in 1 .. Len(s) : /\ s[j] \notin symbols \cup {" "}
                                 /\ At(s, j - 1) \in symbols \cup {" ", "nul"}}}

\* What runcmd() finds in argv[] and as file names, after nulterminate() has written
\* into the line, are the words of the line, each once and none cut short.
WordsSurvive ==
    LET c == parsecmd(buf) IN
    c # <<"panic">> =>
       /\ WordsOf(c) = TextWords(buf)
       /\ \A w \in WordsOf(c) :
            StringAt(nulterminate(buf, c), w.q) = SubSeq(buf, w.q, w.eq - 1)

\* A reference for lines without parentheses, by splitting: a list at its first
\* semicolon, then ampersands at the end, then a pipeline at its first bar.
Cut(s, a, b, sym) == {i \in a .. b : s[i] = sym}
RECURSIVE RefPipe(_, _, _)
RefPipe(s, a, b) ==
    LET bars == Cut(s, a, b, "|") IN
    IF bars = {} THEN parseexec(SubSeq(s, 1, b), a).cmd
    ELSE <<"pipe", parseexec(SubSeq(s, 1, Min(bars) - 1), a).cmd, RefPipe(s, Min(bars) + 1, b)>>

RECURSIVE RefBack(_, _, _)
RefBack(s, a, b) ==
    LET text == {i \in a .. b : s[i] # " "} IN
    IF text # {} /\ s[Max(text)] = "&" THEN <<"back", RefBack(s, a, Max(text) - 1)>>
    ELSE IF Cut(s, a, b, "&") # {} THEN <<"panic">> ELSE RefPipe(s, a, b)

RECURSIVE RefLine(_, _, _)
RefLine(s, a, b) ==
    LET semis == Cut(s, a, b, ";") IN
    IF semis = {} THEN RefBack(s, a, b)
    ELSE <<"list", RefBack(s, a, Min(semis) - 1), RefLine(s, Min(semis) + 1, b)>>

\* The parser binds a pipeline tighter than "&" and "&" tighter than ";", and
\* takes the whole line or rejects it.
ParsesBySplitting ==
    ~({"(", ")"} \cap ToSet(buf) # {}) =>
       LET r == RefLine(buf, 1, Len(buf)) IN
       parsecmd(buf) = IF <<"panic">> \in Sub(r) THEN <<"panic">> ELSE r

\* A line that parses has its parentheses in balance.
Balanced ==
    parsecmd(buf) # <<"panic">> =>
       \A i \in 0 .. Len(buf) :
          LET open == Cardinality(Cut(buf, 1, i, "("))
              shut == Cardinality(Cut(buf, 1, i, ")")) IN
          open >= shut /\ (i = Len(buf) => open = shut)

\* The processes of a line run in the order of the line, all of it before the next.
LineInOrder == ShTypeOK /\ ListInOrder /\ PromptWaits

\* parsecmd() makes of a line what its grammar says, and keeps its words.
ParsesLine == WordsSurvive /\ ParsesBySplitting /\ Balanced
=============================================================================
