------------------------------ MODULE MCInodes ------------------------------
(***************************************************************************)
(* Two processes that create, link, remove and open names in the root and  *)
(* in one directory below it.  In a second setup one of them exits and the *)
(* other forks into its slot, and there are fewer calls.                   *)
(***************************************************************************)
EXTENDS Inodes

CONSTANTS p1, p2

VARIABLE setup

C(op, abs, path) == [op |-> op, abs |-> abs, path |-> path, new |-> <<>>]

Workload ==
    (p1 :> {C("create", TRUE, <<"a">>), C("unlink", TRUE, <<"a">>),
            C("mkdir", TRUE, <<"d">>), C("unlink", TRUE, <<"d">>)})
    @@
    (p2 :> {C("open", TRUE, <<"d">>), C("mknod", FALSE, <<"a">>), C("chdir", TRUE, <<"d">>),
            [op |-> "link", abs |-> TRUE, path |-> <<"a">>, new |-> <<"d", "a">>]})

\* What usertests.c does from two processes: create, link and remove one file.
SameFile ==
    [p \in Procs |-> {C("create", TRUE, <<"a">>), C("unlink", TRUE, <<"a">>)}]

Simple == (p1 :> {"close", "fork"}) @@ (p2 :> {"exit", "dup"})

\* The step makes no process.
NoFork == \A p \in Procs : cwd[p] = 0 => cwd'[p] = 0

\* The step begins none of the calls in ops.
NoCall(ops) == \A p \in Procs : st[p].pc = "idle" /\ st'[p].pc # "idle" => st'[p].op \notin ops

MCInit == Init /\ setup \in {"names", "fork"}

MCNext ==
    /\ Next
    /\ setup = "names" => NoFork
    /\ setup = "fork" => NoCall({"open", "mknod", "link"})
    /\ UNCHANGED setup

MCSpec == MCInit /\ [][MCNext]_<<vars, setup>>
=============================================================================
