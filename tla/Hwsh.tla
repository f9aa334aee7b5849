-------------------------------- MODULE Hwsh ---------------------------------
(***************************************************************************)
(* The shell of HW1 (hwsh.c), with its two operators: ";" runs commands    *)
(* one after the other, "&" runs them at the same time.                    *)
(*                                                                         *)
(* A line is a sequence of tokens: words, ";", "&" and "|", which stands   *)
(* for the symbols the shell knows and does not support.  A command is     *)
(* <<"exec", words>>, <<"seq", cmd, next>> or <<"par", cmd, next>>.        *)
(***************************************************************************)
EXTENDS Integers, Sequences, FiniteSets, FiniteSetsExt, SequencesExt, TLC

CONSTANTS
    HwLines,    \* the lines that are read
    Pids,       \* 1 .. n; process 1 is the shell
    HWMAXARGS

ASSUME HwshAssumption == 1 \in Pids /\ Pids \subseteq Nat /\ HWMAXARGS \in Nat

VARIABLES
    cmdBuf,     \* the line
    parsed,     \* what parsecmd(), a function of the line, makes of it in the child
    hw          \* the processes

-----------------------------------------------------------------------------
(* The parser.  It carries the position i and the static variables invalid *)
(* and expectingParallel (exp), and returns them with the command; <<"?">> *)
(* is a pointer that was never set.                                        *)

Tok(s, i) == IF i <= Len(s) THEN s[i] ELSE "nul"
Res(cmd, i, exp, invalid) == [cmd |-> cmd, i |-> i, exp |-> exp, invalid |-> invalid]
Sep == {";", "&"}
parallelcmd(cmd, next) == <<"par", cmd, next>>
sequencecmd(cmd, next) == <<"seq", cmd, next>>

\* The words up to a separator.  A symbol that is no separator yields empty words
\* until there are too many.
hwparseexec(s, i) ==
    LET e == Min({j \in i .. Len(s) + 1 : Tok(s, j) \in Sep \cup {"nul"}})
        words == SubSeq(s, i, e - 1) IN
    [cmd |-> IF "|" \in ToSet(words) \/ Len(words) >= HWMAXARGS THEN <<"exit">> ELSE <<"exec", words>>,
     i |-> e]

EndsAnywhere(s, i, exp) == FALSE

\* "End of cmd reached when expecting, cmd invalid"
EndsExpecting(s, i, exp) == exp /\ Tok(s, i) = "nul"

RECURSIVE parseparallel(_, _, _)
ParallelWith(cmd, r) == Res(parallelcmd(cmd, r.cmd), r.i, r.exp, r.invalid)

\* After the command x: at its "&", if it has one, exp is set, and otherwise cleared.
AfterCmd(s, x, exp, has) ==
    CASE has /\ Tok(s, x.i + 1) = ";" -> Res(x.cmd, x.i + 1, FALSE, TRUE)
      [] has /\ Tok(s, x.i + 1) # ";" -> ParallelWith(x.cmd, parseparallel(s, x.i + 1, TRUE))
      [] ~has /\ exp -> ParallelWith(x.cmd, parseparallel(s, x.i, FALSE))
      [] OTHER -> Res(x.cmd, x.i, exp, FALSE)
ParallelFrom(s, x, exp) == AfterCmd(s, x, exp, Tok(s, x.i) = "&")

parseparallel(s, i, exp) ==
    IF EndsExpecting(s, i, exp) THEN Res(<<"?">>, i, FALSE, TRUE)
    ELSE ParallelFrom(s, hwparseexec(s, i), exp)

RECURSIVE hwparseline(_, _, _)

SequenceWith(cmd, r) == Res(sequencecmd(cmd, r.cmd), r.i, r.exp, r.invalid)
SequenceFrom(s, p) ==
    IF ~p.invalid /\ Tok(s, p.i) = ";"
    THEN SequenceWith(p.cmd, hwparseline(s, p.i + 1, p.exp)) ELSE p
parsesequence(s, i, exp) == SequenceFrom(s, parseparallel(s, i, exp))

hwparseline(s, i, exp) ==
    IF Tok(s, i) = "&" THEN Res(<<"?">>, i, exp, TRUE) ELSE parsesequence(s, i, exp)

RECURSIVE Exits(_)
Exits(c) == c = <<"exit">> \/ (c[1] \in {"seq", "par"} /\ (Exits(c[2]) \/ Exits(c[3])))

\* The command of a line: <<"invalid">> for the dummy of type -1, <<"exit">> when
\* the child exits with a message.
WholeCmd(s, l) ==
    CASE Exits(l.cmd) -> <<"exit">>
      [] ~Exits(l.cmd) /\ l.invalid ->
           IF Exits(hwparseexec(s, l.i).cmd) THEN <<"exit">> ELSE <<"invalid">>
      [] ~Exits(l.cmd) /\ ~l.invalid /\ l.i # Len(s) + 1 -> <<"exit">>
      [] OTHER -> l.cmd
hwparsecmd(s) == WholeCmd(s, hwparseline(s, 1, FALSE))

-----------------------------------------------------------------------------
(* The processes                                                           *)

hwvars == <<cmdBuf, parsed, hw>>

HwNone == [st |-> "free", parent |-> 0, pc |-> "", cmd |-> <<"none">>, path |-> <<>>]
HwMain == [HwNone EXCEPT !.st = "run", !.pc = "getcmd"]
HwRuns(p, pc) == hw[p].st = "run" /\ hw[p].pc = pc
HwSet(p, r) == hw' = [hw EXCEPT ![p] = r @@ @] /\ UNCHANGED <<cmdBuf, parsed>>
Kids(p) == {q \in Pids : hw[q].parent = p /\ hw[q].st # "free"}

\* exit(): a parent that waits is told; children are init's.
HwExit(p) ==
    /\ hw' = [q \in Pids |->
         CASE q = p -> IF hw[p].parent = 0 THEN HwNone
                       ELSE [HwNone EXCEPT !.st = "zombie", !.parent = hw[p].parent]
           [] hw[q].parent = p /\ hw[q].st = "zombie" -> HwNone
           [] OTHER -> [hw[q] EXCEPT !.parent = IF @ = p THEN 0 ELSE @]]
    /\ UNCHANGED <<cmdBuf, parsed>>

\* fork(), whose failure nobody looks at: the parent goes on as if it had a child.
HwFork(p, r, child) ==
    LET free == {q \in Pids : hw[q].st = "free"} IN
    \/ /\ free # {}
       /\ hw' = [hw EXCEPT ![p] = r @@ @,
                           ![Min(free)] = child @@ [hw[p] EXCEPT !.parent = p]]
       /\ UNCHANGED <<cmdBuf, parsed>>
    \/ HwSet(p, r)

\* wait(): r when a child was reaped, none when there are no children.
HwWait(p, r, none) ==
    \/ /\ \E q \in Kids(p) : /\ hw[q].st = "zombie"
                             /\ hw' = [hw EXCEPT ![q] = HwNone, ![p] = r @@ @]
       /\ UNCHANGED <<cmdBuf, parsed>>
    \/ Kids(p) = {} /\ HwSet(p, none)

\* main(): fgets() of the next line.
hwgetcmd(l) ==
    /\ HwRuns(1, "getcmd")
    /\ cmdBuf' = l /\ parsed' = hwparsecmd(l)
    /\ hw' = [hw EXCEPT ![1].pc = "fork"]

main(p) ==
    \/ HwRuns(p, "fork") /\ HwFork(p, [pc |-> "wait"], [pc |-> "parse"])
    \/ HwRuns(p, "wait") /\ HwWait(p, [pc |-> "getcmd"], [pc |-> "getcmd"])
    \/ /\ HwRuns(p, "parse")
       /\ IF parsed \in {<<"exit">>, <<"invalid">>} THEN HwExit(p)
          ELSE HwSet(p, [pc |-> "runcmd", cmd |-> parsed])

RunsExec(p) ==
    /\ HwRuns(p, "runcmd") /\ hw[p].cmd[1] = "exec"
    /\ IF hw[p].cmd[2] # <<>> THEN HwSet(p, [pc |-> "program"]) ELSE HwExit(p)

RunsSeqUnwaited(p) ==
    /\ HwRuns(p, "runcmd") /\ hw[p].cmd[1] = "seq"
    /\ HwFork(p, [cmd |-> hw[p].cmd[3], path |-> Append(hw[p].path, "next")],
              [cmd |-> hw[p].cmd[2], path |-> Append(hw[p].path, "first")])

RunsSeq(p) ==
    \/ /\ HwRuns(p, "runcmd") /\ hw[p].cmd[1] = "seq"
       /\ HwFork(p, [pc |-> "seqwait"],
                 [cmd |-> hw[p].cmd[2], path |-> Append(hw[p].path, "first")])
    \/ LET next == [pc |-> "runcmd", cmd |-> hw[p].cmd[3], path |-> Append(hw[p].path, "next")] IN
       HwRuns(p, "seqwait") /\ HwWait(p, next, next)

\* The loop over the list of parallel commands: its last element, the empty command
\* parseparallel() ends the list with, is read as a parallelcmd with a null cmd.
RunsPar(p) ==
    /\ HwRuns(p, "runcmd") /\ hw[p].cmd[1] = "par"
    /\ HwFork(p, [cmd |-> hw[p].cmd[3], pc |-> IF hw[p].cmd[3][1] = "par" THEN "runcmd" ELSE "last"],
              [cmd |-> hw[p].cmd[2], path |-> Append(hw[p].path, "par")])

\* "Wait for all child processes to finish"
ParWait(p) == HwRuns(p, "parwait") /\ HwWait(p, [pc |-> "parwait"], [pc |-> "exit"])

ParLast(p) ==
    \/ /\ HwRuns(p, "last")
       /\ HwFork(p, [pc |-> "parwait"], [pc |-> "exit"])
    \/ HwRuns(p, "exit") /\ HwExit(p)

HwProgram(p) == HwRuns(p, "program") /\ HwExit(p)

-----------------------------------------------------------------------------
HwProcs == hw = [p \in Pids |-> IF p = 1 THEN HwMain ELSE HwNone]

HwInit ==
    /\ cmdBuf = <<>> /\ parsed = <<"none">>
    /\ HwProcs

HwStep(p) ==
    main(p) \/ RunsExec(p) \/ RunsSeq(p) \/ RunsPar(p) \/ ParWait(p) \/ ParLast(p) \/ HwProgram(p)

HwNext == (\E l \in HwLines : hwgetcmd(l)) \/ \E p \in Pids : HwStep(p)

HwFairness == \A p \in Pids : WF_hwvars(HwStep(p))

HwSpec == HwInit /\ [][HwNext]_hwvars /\ HwFairness

-----------------------------------------------------------------------------
(* Properties                                                              *)

\* Every process but the shell has a parent that runs, until it is reaped.
HwTypeOK ==
    \A p \in Pids \ {1} : hw[p].st # "free" =>
       hw[p].parent \in Pids /\ hw[hw[p].parent].st = "run"

\* "one ; two": two starts when one and all that one runs in parallel have
\* finished, also when fork() fails for some of it.
InSequence ==
    \A p, q \in Pids : hw[p].st = "run" /\ hw[q].st = "run" =>
       \A n \in 1 .. Min({Len(hw[p].path), Len(hw[q].path)}) :
          SubSeq(hw[p].path, 1, n - 1) = SubSeq(hw[q].path, 1, n - 1) =>
             ~(hw[p].path[n] = "next" /\ hw[q].path[n] = "first")

\* The shell reads the next line when nothing of the last one runs any more.
LineFinished == HwRuns(1, "getcmd") => \A p \in Pids \ {1} : hw[p].st = "free"

\* ... and it does read it.
NextLine == (hw[1].pc # "getcmd") ~> (hw[1].pc = "getcmd")

\* The parts of s[a .. b] between occurrences of sym.
RECURSIVE Split(_, _, _, _)
Split(s, a, b, sym) ==
    LET cuts == {i \in a .. b : s[i] = sym} IN
    IF cuts = {} THEN <<SubSeq(s, a, b)>>
    ELSE <<SubSeq(s, a, Min(cuts) - 1)>> \o Split(s, Min(cuts) + 1, b, sym)

\* What is run: for each part between semicolons, the commands between ampersands,
\* the last of which must not be empty, and neither must the first.
SplitAll(gs) == [k \in DOMAIN gs |-> Split(gs[k], 1, Len(gs[k]), "&")]
RefGroups(s) == SplitAll(Split(s, 1, Len(s), ";"))
RefValid(gs) == \A k \in DOMAIN gs : Len(gs[k]) > 1 => gs[k][1] # <<>> /\ gs[k][Len(gs[k])] # <<>>
RefTooLong(gs) == \E k \in DOMAIN gs : \E n \in DOMAIN gs[k] : Len(gs[k][n]) >= HWMAXARGS

RECURSIVE ParCmds(_)
ParCmds(c) == IF c[1] = "par" THEN <<c[2][2]>> \o ParCmds(c[3]) ELSE <<>>
RECURSIVE GroupsOf(_)
GroupsOf(c) ==
    CASE c[1] = "seq" -> GroupsOf(c[2]) \o GroupsOf(c[3])
      [] c[1] = "par" -> <<ParCmds(c)>>
      [] OTHER -> << <<c[2]>> >>

Agrees(cmd, groups) ==
    IF "|" \in ToSet(cmdBuf) \/ RefTooLong(groups) THEN cmd \in {<<"exit">>, <<"invalid">>}
    ELSE IF RefValid(groups) THEN GroupsOf(cmd) = groups ELSE cmd = <<"invalid">>

\* The tree the parser builds holds exactly these commands in this order, and it
\* rejects the other lines: nothing is run twice, dropped, or run outside of its
\* group, whatever the static variables held.
ParsesGroups == Agrees(hwparsecmd(cmdBuf), RefGroups(cmdBuf))

\* The processes of a line run in the order of the line, all of it before the next.
HwLineInOrder == HwTypeOK /\ InSequence /\ LineFinished
=============================================================================
