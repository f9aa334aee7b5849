-------------------------------- MODULE MCVm --------------------------------
(***************************************************************************)
(* What a process owns in the kernel: its memory, and its trap counters.   *)
(* The two share no state; a behaviour exercises one of them.              *)
(***************************************************************************)
EXTENDS Vm, Traps

VARIABLE part

Seg(end, file, short) == [end |-> end, file |-> file, short |-> short]

\* A program of one segment, and a file that ends early.
MCPrograms == {<<Seg(1, {0}, FALSE)>>, <<Seg(1, {0}, FALSE), Seg(2, {}, TRUE)>>}

MCGrows == {1, -2}

OwnInit == part \in {"memory", "counters"} /\ VmInit /\ TrInit

OwnNext ==
    \/ part = "memory" /\ VmNext /\ UNCHANGED <<part, trvars>>
    \/ part = "counters" /\ TrNext /\ UNCHANGED <<part, vmvars>>

OwnSpec == OwnInit /\ [][OwnNext]_<<part, vmvars, trvars>>
=============================================================================
