----------------------------- MODULE MCPrograms -----------------------------
(***************************************************************************)
(* The programs and library functions outside the kernel's shared state.   *)
(* A behaviour exercises one part, or is a single state with one input of  *)
(* a parser, of the matcher or of a library function.                      *)
(***************************************************************************)
EXTENDS Shell, Hwsh, Umalloc, Filters, KLib

VARIABLE part

SeqsTo(S, n) == UNION {[1 .. k -> S] : k \in 0 .. n}

\* Lines of sh: every operator, with a redirection, nesting, a syntax error and cd, each
\* typed after one that leaves processes in the background.
MCLines == {<<"a", "|", "b", ";", "c">>, <<"(", "a", ";", "b", ")", "|", "c">>,
            <<"a", "&", ";", "b">>, <<"a", ">", "f", "|", "b">>, <<"a", "|", "b", "|", "c">>,
            <<"a", "|", ">">>, <<"c", "d", " ", "a", " ">>}
MCScripts == {<< <<"(", "a", ";", "b", ")", "&">>, l>> : l \in MCLines}
ShProbes == {s \in SeqsTo({"a", " ", "|", ">", ";", "&", "(", ")"}, 4) :
               Cardinality({i \in DOMAIN s : s[i] = "("}) <= 1}

MCHwLines == {<<"a", "&", "b", ";", "c">>, <<"a", ";", "b", "&", "c">>, <<"a", ";", ";", "b">>,
              <<"a", "&">>, <<"a", "&", "b", "&", "c", ";", "d">>, <<"a", "&", "&", "b">>}
HwProbes == SeqsTo({"a", ";", "&", "|"}, 6)

\* Texts of five characters begin with a letter and end with a newline.
MCInputs == {s \in SeqsTo({"a", " ", "n"}, 5) : Len(s) = 5 => s[1] = "a" /\ s[5] = "n"}
MCPatterns == {<<"a">>, <<"^", "a">>, <<" ", "*", "$">>, <<"^", ".", "*", " ">>}
ReProbes == SeqsTo({"a", "b", ".", "*", "^", "$"}, 3)

Strings == {s \in UNION {[1 .. k -> 0 .. 2] : k \in 1 .. 4} : s[Len(s)] = 0}
LibArgs ==
    [f : {"syscall"}, sz : 0 .. W \div 2, i : 0 .. W - 1, nuls : SUBSET {1, 4, 7}]
      \cup [f : {"print"}, xx : Ints]
      \cup [f : {"move"}, m : {<<1, 2, 3, 4, 5>>}, dst : 0 .. 2, src : 0 .. 2, n : 0 .. 3]
      \cup [f : {"name"}, p : Strings, q : Strings]

-----------------------------------------------------------------------------
ShIdle == ShProcs /\ typed = <<>> /\ tree = <<"none">> /\ plumbed = TRUE
HwIdle == HwProcs /\ parsed = <<"none">>
FlIdle == source = "file" /\ text = <<>> /\ FlStart(<<>>)
NoArg == arg = [f |-> "none"]
HwOff == HwIdle /\ cmdBuf = <<>>
ShOff == ShIdle /\ buf = <<>>

PrInit ==
    /\ UmInit
    /\ \/ part = "sh" /\ ShInit /\ HwOff /\ FlIdle /\ NoArg
       \/ part = "input" /\ ShIdle /\ buf \in ShProbes /\ HwOff /\ FlIdle /\ NoArg
       \/ part = "hwsh" /\ ShOff /\ HwInit /\ FlIdle /\ NoArg
       \/ part = "input" /\ ShOff /\ HwIdle /\ cmdBuf \in HwProbes /\ FlIdle /\ NoArg
       \/ part = "malloc" /\ ShOff /\ HwOff /\ FlIdle /\ NoArg
       \/ part = "filters" /\ ShOff /\ HwOff /\ FlInit /\ NoArg
       \/ /\ part = "input" /\ ShOff /\ HwOff /\ NoArg
          /\ source = "file" /\ text \in SeqsTo({"a", "b"}, 3) /\ \E re \in ReProbes : FlStart(re)
       \/ part = "input" /\ ShOff /\ HwOff /\ FlIdle /\ arg \in LibArgs

PrNext ==
    \/ part = "sh" /\ ShNext /\ UNCHANGED <<part, hwvars, umvars, flvars, arg>>
    \/ part = "hwsh" /\ HwNext /\ UNCHANGED <<part, shvars, umvars, flvars, arg>>
    \/ part = "malloc" /\ UmNext /\ UNCHANGED <<part, shvars, hwvars, flvars, arg>>
    \/ part = "filters" /\ FlNext /\ UNCHANGED <<part, shvars, hwvars, umvars, arg>>

PrSpec ==
    /\ PrInit /\ [][PrNext]_<<part, shvars, hwvars, umvars, flvars, arg>>
    /\ ShFairness /\ HwFairness

\* Both shells come back to their prompt after every line: the wait()s of runcmd()
\* end, and pipes reach their end of file.
LinesEnd == PromptReturns /\ NextLine
=============================================================================
