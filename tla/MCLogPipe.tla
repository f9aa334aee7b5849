----------------------------- MODULE MCLogPipe ------------------------------
(***************************************************************************)
(* Two places where processes sleep for each other: the log and a pipe     *)
(* with a ring of two bytes and counters that wrap at four.  The two share *)
(* no state; a behaviour exercises one of them.  The log has two           *)
(* workloads: calls of two blocks with crashes, and calls of one block     *)
(* each, enough of them to fill the log were they all let in.              *)
(***************************************************************************)
EXTENDS Log, Pipe

VARIABLE part

CONSTANTS u1, u2, u3, p1, p2, p3, b1, b2, b3, v1

Ending(r, w) == [e \in {"r", "w"} |-> IF e = "r" THEN r ELSE w]

\* The first is for the behaviours of the log.  Then a writer that has not closed
\* its read end, two readers of one writer, two writers of one reader; the last
\* on one CPU only, with a reader (u3) that always asks for two bytes.
MCSharing ==
    {Ending({u1}, {u2}), Ending({u1, u2}, {u1}), Ending({u1, u2}, {u3}), Ending({u3}, {u1, u2})}

MCMsgs == {<<1, 2, 1>>}

allvars == <<part, vars, pivars>>

WaitInit ==
    /\ Init /\ PipeInit
    /\ part \in {"log", "full", "pipe"}
    /\ part = "pipe" <=> holds # Ending({u1}, {u2})
    /\ part # "pipe" \/ holds = Ending({u3}, {u1, u2}) => ncpu = 1

\* Everybody has left the pipe.
Left == part = "pipe" /\ (\A e \in Ends : holds[e] = {}) /\ UNCHANGED allvars

\* Two processes whose calls write the first two blocks.
TwoBlocks == cache'[b3] = None /\ pc'[p3] = "out"

\* Calls that write one block each, a process always the same block and the same
\* value; the power stays on.
Own == [p \in Procs |-> CASE p = p1 -> b1 [] p = p2 -> b2 [] p = p3 -> b3]
OneBlockEach ==
    /\ stage' # "boot"
    /\ \A b \in Blocks : cache'[b] \in {None, v1}
    /\ \A p \in Procs : wrote'[p] \subseteq {Own[p]}

WaitNext ==
    \/ part = "log" /\ Next /\ TwoBlocks /\ UNCHANGED <<part, pivars>>
    \/ part = "full" /\ Next /\ OneBlockEach /\ UNCHANGED <<part, pivars>>
    \/ part = "pipe" /\ PipeNext /\ n'[u3] # 1 /\ UNCHANGED <<part, vars>>
    \/ Left

\* The fairness of Log and of Pipe, each in its own behaviours.
WaitFairness ==
    /\ WF_vars(part # "pipe" /\ LogStep)
    /\ \A p \in Procs : /\ WF_vars(part # "pipe" /\ KernelStep(p))
                        /\ SF_vars(part # "pipe" /\ end_op(p))
    /\ PipeFairness

WaitSpec == WaitInit /\ [][WaitNext]_allvars /\ WaitFairness
=============================================================================
