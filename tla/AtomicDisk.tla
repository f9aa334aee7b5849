----------------------------- MODULE AtomicDisk -----------------------------
(***************************************************************************)
(* What the log promises to file-system calls: a disk on which a group of  *)
(* calls takes effect all at once.  Calls update the current contents; a   *)
(* commit makes the current contents stable, only while no call is in      *)
(* progress; a crash takes the current contents back to the stable ones.   *)
(***************************************************************************)
CONSTANTS Procs, Blocks, Vals, InitVal

VARIABLES now,      \* what a read of each block returns
          stable,   \* what a read returns after a crash
          active    \* the processes inside a file-system call

vars == <<now, stable, active>>

Init ==
    /\ now = [b \in Blocks |-> InitVal]
    /\ stable = now
    /\ active = {}

Begin(p) == p \notin active /\ active' = active \cup {p} /\ UNCHANGED <<now, stable>>

Write(p, b, v) ==
    /\ p \in active
    /\ now' = [now EXCEPT ![b] = v]
    /\ UNCHANGED <<stable, active>>

End(p) == p \in active /\ active' = active \ {p} /\ UNCHANGED <<now, stable>>

Commit == active = {} /\ stable' = now /\ UNCHANGED <<now, active>>

Crash == now' = stable /\ active' = {} /\ UNCHANGED stable

Next ==
    \/ \E p \in Procs : Begin(p) \/ End(p) \/ \E b \in Blocks, v \in Vals : Write(p, b, v)
    \/ Commit \/ Crash

Spec == Init /\ [][Next]_vars

=============================================================================
