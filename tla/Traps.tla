------------------------------- MODULE Traps --------------------------------
(***************************************************************************)
(* The trap and system-call counters of HW2: trap() and sys_countTraps()   *)
(* in trap.c, syscall() in syscall.c, and wait() in proc.c, which clears   *)
(* the counters of the slot it frees.                                      *)
(*                                                                         *)
(* A slot of the process table runs one process after another.  Traps come *)
(* from user code and, since the gate of the system call leaves interrupts *)
(* enabled, in the middle of a call.                                       *)
(***************************************************************************)
EXTENDS Integers, Bags, BagsExt, TLC

CONSTANTS
    Slots,          \* ptable.proc
    initproc,       \* the slot of the first process
    MaxTraps        \* bound on the traps of one process

ASSUME TrapsAssumption == initproc \in Slots /\ MaxTraps \in Nat

VARIABLES
    task,       \* of each slot: state, parent, killed, the counters, where it is in trap()
    hist        \* history: the traps and calls of the process in each slot

trvars == <<task, hist>>

-----------------------------------------------------------------------------
\* Trap numbers: the timer's interrupt, a page fault and the system call.
IRQ == 32
PGFLT == 14
SYSCALL == 64

\* Map every trapno to an array index.
trapnos(no) ==
    CASE no \in 0 .. 19 -> no
      [] no \in 32 .. 63 -> 20
      [] no = 64 -> 21
      [] OTHER -> 22

\* System calls: the ones that touch other slots, the counters, and numbers that
\* no call has.
FORK == 1
EXIT == 2
WAIT == 3
KILL == 6
COUNT == 22
Numbers == {FORK, EXIT, WAIT, KILL, COUNT} \cup {0, 23}

NoCounts == [i \in 0 .. 22 |-> 0]
NoTask == [state |-> "unused", parent |-> initproc, killed |-> FALSE, trapcounts |-> NoCounts,
           syscounts |-> NoCounts, pc |-> "user", num |-> 0, i |-> 0, c |-> 0, before |-> 0]
NoHist == [traps |-> EmptyBag, calls |-> EmptyBag]

Runs(p, pc) == /\ task[initproc].state # "panic"
               /\ task[p].state = "live" /\ task[p].pc = pc

Becomes(p, r) == task' = [task EXCEPT ![p] = r @@ @]

\* exit(): the children go to init, and init itself must not exit.
Exits(p) == task' = [q \in Slots |->
    IF q = p THEN [task[p] EXCEPT !.state = IF p = initproc THEN "panic" ELSE "zombie",
                                  !.pc = "user", !.num = 0, !.i = 0, !.c = 0, !.before = 0]
    ELSE [task[q] EXCEPT !.parent = IF @ = p THEN initproc ELSE @]]

-----------------------------------------------------------------------------
(* trap()                                                                  *)

\* A trap enters: its counter goes up before anything else.
TrapEntry(p, no) ==
    /\ BagCardinality(hist[p].traps) < MaxTraps
    /\ hist' = [hist EXCEPT ![p].traps = BagAdd(@, no)]

Counted(p, no) == [task[p].trapcounts EXCEPT ![trapnos(no)] = @ + 1]

TrapSyscall(p, num) ==
    /\ Runs(p, "user") /\ TrapEntry(p, SYSCALL)
    /\ Becomes(p, [trapcounts |-> Counted(p, SYSCALL), num |-> num,
                   pc |-> IF task[p].killed THEN "exit" ELSE "syscall"])

\* An interrupt, from user code or from the middle of a system call: only in user
\* code does a killed process exit.
TrapIrq(p) ==
    /\ \E pc \in {"user", "syscall", "call", "sum", "return"} : Runs(p, pc)
    /\ TrapEntry(p, IRQ)
    /\ Becomes(p, [trapcounts |-> Counted(p, IRQ),
                   pc |-> IF task[p].killed /\ task[p].pc = "user" THEN "exit" ELSE task[p].pc])

\* A fault of user code kills the process.
TrapFault(p) ==
    /\ Runs(p, "user") /\ TrapEntry(p, PGFLT)
    /\ Becomes(p, [trapcounts |-> Counted(p, PGFLT), killed |-> TRUE, pc |-> "exit"])

TrapExit(p) == Runs(p, "exit") /\ Exits(p) /\ UNCHANGED hist

\* The end of a system call: a process killed meanwhile exits.
TrapReturn(p) ==
    /\ Runs(p, "return")
    /\ Becomes(p, [num |-> 0, i |-> 0, c |-> 0, before |-> 0,
                   pc |-> IF task[p].killed THEN "exit" ELSE "user"])
    /\ UNCHANGED hist

-----------------------------------------------------------------------------
(* The calls                                                               *)

\* num > 0 && num < NELEM(syscalls) && syscalls[num]
Known(num) == num > 0 /\ num < 23

\* syscall() up to the call it makes.
syscall(p) ==
    LET num == task[p].num IN
    /\ Runs(p, "syscall")
    /\ IF Known(num)
       THEN /\ hist' = [hist EXCEPT ![p].calls = BagAdd(@, num)]
            /\ Becomes(p, [pc |-> IF num = COUNT THEN "sum" ELSE "call",
                           syscounts |-> [task[p].syscounts EXCEPT ![num] = @ + 1],
                           before |-> IF num = COUNT THEN BagCardinality(hist[p].traps) ELSE 0])
       ELSE Becomes(p, [pc |-> "return"]) /\ UNCHANGED hist

\* The counters the loop of sys_countTraps() still has to add; it skips the last.
Summed(p) == {i \in task[p].i .. 21 : task[p].trapcounts[i] # 0}

\* sys_countTraps(), one counter at a time: interrupts come in between.
countTraps(p) ==
    LET i == CHOOSE j \in Summed(p) : \A k \in Summed(p) : j <= k IN
    /\ Runs(p, "sum")
    /\ IF Summed(p) = {} THEN Becomes(p, [pc |-> "return"])
       ELSE Becomes(p, [i |-> i + 1, c |-> task[p].c + task[p].trapcounts[i]])
    /\ UNCHANGED hist

\* fork(): allocproc() finds a free slot, or the call fails.
fork(p) ==
    /\ Runs(p, "call") /\ task[p].num = FORK
    /\ \/ \E q \in Slots :
            /\ task[q].state = "unused"
            /\ task' = [task EXCEPT ![p].pc = "return",
                                    ![q] = [state |-> "live", parent |-> p] @@ @]
       \/ Becomes(p, [pc |-> "return"])
    /\ UNCHANGED hist

exit(p) == Runs(p, "call") /\ task[p].num = EXIT /\ Exits(p) /\ UNCHANGED hist

ReapedUncleared(t) == [NoTask EXCEPT !.trapcounts = t.trapcounts]

\* What wait() leaves of the slot of a zombie.
Reaped(t) == NoTask

wait(p) ==
    LET kids == {q \in Slots \ {p} : task[q].state # "unused" /\ task[q].parent = p}
        zombies == {q \in kids : task[q].state = "zombie"} IN
    /\ Runs(p, "call") /\ task[p].num = WAIT
    /\ \/ \E q \in zombies : /\ task' = [task EXCEPT ![p].pc = "return", ![q] = Reaped(@)]
                             /\ hist' = [hist EXCEPT ![q] = NoHist]
       \/ /\ zombies = {} /\ (kids = {} \/ task[p].killed)
          /\ Becomes(p, [pc |-> "return"]) /\ UNCHANGED hist

\* kill() marks the slot with the pid, which is 0 in a free slot, or returns -1.
kill(p) ==
    /\ Runs(p, "call") /\ task[p].num = KILL
    /\ \/ \E q \in Slots : task' = [task EXCEPT ![p].pc = "return", ![q].killed = TRUE]
       \/ Becomes(p, [pc |-> "return"])
    /\ UNCHANGED hist

-----------------------------------------------------------------------------
TrInit ==
    /\ task = [p \in Slots |-> IF p = initproc
                                      THEN [NoTask EXCEPT !.state = "live"] ELSE NoTask]
    /\ hist = [p \in Slots |-> NoHist]

TrNext ==
    \E p \in Slots :
       \/ \E num \in Numbers : TrapSyscall(p, num)
       \/ TrapIrq(p) \/ TrapFault(p) \/ TrapExit(p) \/ TrapReturn(p)
       \/ syscall(p) \/ countTraps(p) \/ fork(p) \/ exit(p) \/ wait(p) \/ kill(p)

TrSpec == TrInit /\ [][TrNext]_trvars

-----------------------------------------------------------------------------
(* Properties                                                              *)

\* The trap of this model that array index i stands for, -1 if none.
TrapAt(i) == CASE i = 14 -> PGFLT [] i = 20 -> IRQ [] i = 21 -> SYSCALL [] OTHER -> -1

\* The counters of a process say how often each kind of trap and each call has
\* happened since this process was created: nothing is left of the process that
\* had the slot before, a number that is no call is not counted, and interrupts
\* in the middle of a call lose nothing (trap.c:137, syscall.c:180, proc.c:298).
CountsExact ==
    \A p \in Slots : task[p].state # "unused" =>
        \A i \in 0 .. 22 :
           /\ task[p].trapcounts[i] = CopiesIn(TrapAt(i), hist[p].traps)
           /\ task[p].syscounts[i] = CopiesIn(i, hist[p].calls)

\* The total sys_countTraps() returns is a number of traps the process had at some
\* moment of the call, although interrupts are counted while it adds up.
TotalWasTrue ==
    \A p \in Slots : task[p].pc = "sum" /\ Summed(p) = {} =>
        task[p].c \in task[p].before .. BagCardinality(hist[p].traps)

\* The states of a slot, and the bound on the traps of its process.
TrTypeOK ==
    \A p \in Slots :
       /\ task[p].state \in {"unused", "live", "zombie", "panic"}
       /\ task[p].pc \in {"user", "syscall", "call", "sum", "return", "exit"}
       /\ task[p].syscounts[0] = 0 /\ DOMAIN task[p].syscounts = 0 .. 22
       /\ task[p].trapcounts \in [0 .. 22 -> 0 .. MaxTraps]

\* The counters, and the total that is added up from them, are true.
CountsInv == TrTypeOK /\ CountsExact /\ TotalWasTrue
=============================================================================
