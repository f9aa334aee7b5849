-------------------------------- MODULE Proc --------------------------------
(***************************************************************************)
(* The process table of the xv6 kernel (HW2/src/proc.c) with the parts of  *)
(* spinlock.c, trap.c and sysproc.c that drive it: per-CPU schedulers,     *)
(* fork, exit, wait, kill, the timed sleep, preemption by the timer, and   *)
(* the interrupt-flag bookkeeping of pushcli and popcli.                   *)
(*                                                                         *)
(* A critical section that does not call sched() is one step, guarded by   *)
(* its lock being free.  Where a lock is held across swtch() or while a    *)
(* second lock is awaited, its holder is part of the state.                *)
(***************************************************************************)
EXTENDS Integers, FiniteSets

CONSTANTS
    CPUs,       \* the processors
    Cpu0,       \* the processor whose timer advances ticks
    NPROC,      \* slots of ptable
    MaxPid,     \* bound: no fork begins once nextpid exceeds it
    MaxSleep,   \* bound: the longest sleep, in ticks
    KillPids,   \* the arguments kill() is called with
    Ticks,      \* the channel &ticks
    None        \* a null pointer

Procs == 0 .. NPROC - 1
initproc == 0

ASSUME CpuAssumption == Cpu0 \in CPUs
ASSUME SizeAssumption == /\ NPROC \in Nat \ {0}
                         /\ MaxPid \in Nat
                         /\ MaxSleep \in Nat
                         /\ KillPids \subseteq Nat
ASSUME NoneAssumption == /\ None \notin CPUs \cup Procs
                         /\ Ticks \notin Procs \cup {None}

VARIABLES
    state,      \* p->state
    pid,        \* p->pid
    parent,     \* p->parent
    chan,       \* p->chan
    killed,     \* p->killed
    nextpid,
    pc,         \* where the kernel thread of a slot continues
    rpc,        \* pc interrupted by the timer, while pc is "yielded"
    np,         \* the child slot fork() is filling
    left,       \* sys_sleep(): n - (ticks - ticks0), or 0 once it is negative
    saved,      \* the local intena of sched(), Off once it is dead
    cpu,        \* struct cpu, the flag FL_IF and the timer handler's progress
    spc,        \* where scheduler() continues on each CPU
    idx,        \* the slot at which scheduler()'s scan continues, 0 outside it
    ptable,     \* holder of ptable.lock
    tickslock   \* holder of tickslock

tableVars == <<state, pid, parent, chan, killed, nextpid>>
threadVars == <<pc, rpc, np, left, saved>>
cpuVars == <<cpu, spc, idx, ptable, tickslock>>
vars == <<state, pid, parent, chan, killed, nextpid, pc, rpc, np, left, saved,
          cpu, spc, idx, ptable, tickslock>>

States == {"UNUSED", "EMBRYO", "SLEEPING", "RUNNABLE", "RUNNING", "ZOMBIE"}

\* Where a thread resumes inside sched(), holding ptable.lock.
ResumePCs == {"forkret", "waiting", "slept", "yielded"}

\* Kernel code outside sched(); "tosleep" is sleep() waiting for ptable.lock.
KernelPCs == {"fork", "copy", "ready", "wait", "kill", "sleep", "tosleep",
              "retake", "sysret", "trapret", "exit"}

\* "user" is user mode, "dead" after exit()'s sched(), "panic" a halted CPU.
PCs == ResumePCs \cup KernelPCs \cup {"user", "dead", "panic"}

\* FL_IF, and the int intena that records it.
On == 1
Off == 0

CpuRec == [proc : Procs \cup {None}, ncli : Nat, intena : {On, Off},
           fl : {On, Off}, intr : {"none", "tick", "wake", "decide"}]

First(S) == CHOOSE p \in S : \A q \in S : p <= q

-----------------------------------------------------------------------------
(* spinlock.c: the interrupt flag, one CPU record at a time.               *)

PushCli(r) ==
    [r EXCEPT !.ncli = r.ncli + 1,
              !.intena = IF r.ncli = 0 THEN r.fl ELSE r.intena,
              !.fl = Off]

PopCli(r) ==
    [r EXCEPT !.ncli = r.ncli - 1,
              !.fl = IF r.ncli = 1 /\ r.intena = On THEN On ELSE r.fl]

\* acquire() and release() of a lock around a section that is one step.
Section(c) == cpu' = [cpu EXCEPT ![c] = PopCli(PushCli(@))]

\* CPU c executes the kernel thread of p at l, outside interrupt handlers.
At(c, p, l) == cpu[c].proc = p /\ cpu[c].intr = "none" /\ pc[p] = l

Goto(p, l) == pc' = [pc EXCEPT ![p] = l]

-----------------------------------------------------------------------------
(* proc.c: helpers                                                         *)

\* The table's states after wakeup1(ch).
wakeup1(st, ch) ==
    [q \in Procs |-> IF st[q] = "SLEEPING" /\ chan[q] = ch
                     THEN "RUNNABLE" ELSE st[q]]

\* sched() by p on CPU c, whose record is r with ptable.lock held: swtch()
\* to the scheduler, which clears c->proc.  The lock stays held by c.
sched(c, p, r) ==
    /\ saved' = [saved EXCEPT ![p] = r.intena]
    /\ cpu' = [cpu EXCEPT ![c] = [r EXCEPT !.proc = None, !.intr = "none"]]
    /\ spc' = [spc EXCEPT ![c] = "scan"]
    /\ ptable' = c
    /\ UNCHANGED idx

\* Faulty variant: sched() forgets to restore intena.
BackKeepsIntena(c, p) == cpu[c]

\* The CPU's record after swtch() has returned in p's sched().
Back(c, p) == [cpu[c] EXCEPT !.intena = saved[p]]

-----------------------------------------------------------------------------
(* scheduler()                                                             *)

SchedSti(c) ==
    /\ spc[c] = "sti" /\ cpu[c].intr = "none"
    /\ cpu' = [cpu EXCEPT ![c].fl = On]
    /\ spc' = [spc EXCEPT ![c] = "loop"]
    /\ UNCHANGED <<tableVars, threadVars, idx, ptable, tickslock>>

SchedAcquire(c) ==
    /\ spc[c] = "loop" /\ cpu[c].intr = "none"
    /\ ptable = None
    /\ ptable' = c
    /\ cpu' = [cpu EXCEPT ![c] = PushCli(@)]
    /\ spc' = [spc EXCEPT ![c] = "scan"]
    /\ UNCHANGED <<tableVars, threadVars, idx, tickslock>>

\* Faulty variant: every pick starts the scan over.
RunnableFromStart(i) == {p \in Procs : state[p] = "RUNNABLE"}

RunnableFrom(i) == {p \in Procs : i <= p /\ state[p] = "RUNNABLE"}

\* Faulty variant: the picked process is not marked RUNNING.
SchedPickUnmarked(c) ==
    /\ spc[c] = "scan"
    /\ RunnableFrom(idx[c]) # {}
    /\ LET p == First(RunnableFrom(idx[c])) IN
       /\ cpu' = [cpu EXCEPT ![c].proc = p]
       /\ idx' = [idx EXCEPT ![c] = p + 1]
    /\ spc' = [spc EXCEPT ![c] = "swtched"]
    /\ UNCHANGED <<tableVars, threadVars, ptable, tickslock>>

SchedPick(c) ==
    /\ spc[c] = "scan"
    /\ RunnableFrom(idx[c]) # {}
    /\ LET p == First(RunnableFrom(idx[c])) IN
       /\ state' = [state EXCEPT ![p] = "RUNNING"]
       /\ cpu' = [cpu EXCEPT ![c].proc = p]
       /\ idx' = [idx EXCEPT ![c] = p + 1]
    /\ spc' = [spc EXCEPT ![c] = "swtched"]
    /\ UNCHANGED <<pid, parent, chan, killed, nextpid, threadVars, ptable,
                   tickslock>>

SchedRelease(c) ==
    /\ spc[c] = "scan"
    /\ RunnableFrom(idx[c]) = {}
    /\ ptable' = None
    /\ cpu' = [cpu EXCEPT ![c] = PopCli(@)]
    /\ spc' = [spc EXCEPT ![c] = "sti"]
    /\ idx' = [idx EXCEPT ![c] = 0]
    /\ UNCHANGED <<tableVars, threadVars, tickslock>>

SchedStep(c) == SchedSti(c) \/ SchedAcquire(c) \/ SchedPick(c) \/ SchedRelease(c)

-----------------------------------------------------------------------------
(* The timer interrupt of trap(); its gate clears FL_IF.                   *)

TimerEnter(c) ==
    /\ cpu[c].fl = On /\ cpu[c].intr = "none"
    /\ cpu' = [cpu EXCEPT ![c].fl = Off,
                          ![c].intr = IF c = Cpu0 THEN "tick" ELSE "decide"]
    /\ UNCHANGED <<tableVars, threadVars, spc, idx, ptable, tickslock>>

\* acquire(&tickslock); ticks++
TimerTick(c) ==
    /\ cpu[c].intr = "tick"
    /\ tickslock = None
    /\ tickslock' = c
    /\ cpu' = [cpu EXCEPT ![c] = [PushCli(@) EXCEPT !.intr = "wake"]]
    /\ left' = [p \in Procs |-> IF left[p] > 0 THEN left[p] - 1 ELSE 0]
    /\ UNCHANGED <<tableVars, pc, rpc, np, saved, spc, idx, ptable>>

\* Faulty variant: the handler does not call wakeup(&ticks).
TimerWakeSilent(c) ==
    /\ cpu[c].intr = "wake"
    /\ ptable = None
    /\ tickslock' = None
    /\ cpu' = [cpu EXCEPT ![c] = [PopCli(PopCli(PushCli(@)))
                                  EXCEPT !.intr = "decide"]]
    /\ UNCHANGED <<tableVars, threadVars, spc, idx, ptable>>

\* wakeup(&ticks); release(&tickslock)
TimerWake(c) ==
    /\ cpu[c].intr = "wake"
    /\ ptable = None
    /\ state' = wakeup1(state, Ticks)
    /\ tickslock' = None
    /\ cpu' = [cpu EXCEPT ![c] = [PopCli(PopCli(PushCli(@)))
                                  EXCEPT !.intr = "decide"]]
    /\ UNCHANGED <<pid, parent, chan, killed, nextpid, threadVars, spc, idx,
                   ptable>>

\* No process was interrupted: iret to the scheduler.
TimerIdle(c) ==
    /\ cpu[c].intr = "decide" /\ cpu[c].proc = None
    /\ cpu' = [cpu EXCEPT ![c].fl = On, ![c].intr = "none"]
    /\ UNCHANGED <<tableVars, threadVars, spc, idx, ptable, tickslock>>

\* A killed process was interrupted in user mode: exit().
TimerExit(c, p) ==
    /\ cpu[c].intr = "decide" /\ cpu[c].proc = p
    /\ pc[p] = "user" /\ killed[p]
    /\ Goto(p, "exit")
    /\ cpu' = [cpu EXCEPT ![c].intr = "none"]
    /\ UNCHANGED <<tableVars, rpc, np, left, saved, spc, idx, ptable, tickslock>>

\* yield(), up to swtch().
TimerYield(c, p) ==
    /\ cpu[c].intr = "decide" /\ cpu[c].proc = p
    /\ ~(pc[p] = "user" /\ killed[p])
    /\ state[p] = "RUNNING"
    /\ ptable = None
    /\ state' = [state EXCEPT ![p] = "RUNNABLE"]
    /\ rpc' = [rpc EXCEPT ![p] = pc[p]]
    /\ Goto(p, "yielded")
    /\ sched(c, p, PushCli(cpu[c]))
    /\ UNCHANGED <<pid, parent, chan, killed, nextpid, np, left, tickslock>>

\* The rest of yield(); trap()'s last check of killed; iret.
YieldReturn(c, p) ==
    /\ At(c, p, "yielded")
    /\ ptable' = None
    /\ LET r == PopCli(Back(c, p))
           dies == rpc[p] = "user" /\ killed[p] IN
       /\ Goto(p, IF dies THEN "exit" ELSE rpc[p])
       /\ cpu' = [cpu EXCEPT ![c] = IF dies THEN r ELSE [r EXCEPT !.fl = On]]
    /\ rpc' = [rpc EXCEPT ![p] = "user"]
    /\ saved' = [saved EXCEPT ![p] = Off]
    /\ UNCHANGED <<tableVars, np, left, spc, idx, tickslock>>

-----------------------------------------------------------------------------
(* Traps from user mode                                                    *)

\* System call entry; the gate of T_SYSCALL leaves FL_IF set.  The program
\* of initproc (init.c) makes no exit() call while its forks succeed.
SysEnter(c, p, call) ==
    /\ At(c, p, "user")
    /\ call = "fork" => nextpid <= MaxPid
    /\ call = "exit" => p # initproc
    /\ Goto(p, IF killed[p] THEN "exit" ELSE call)
    /\ UNCHANGED <<tableVars, rpc, np, left, saved, cpuVars>>

\* An unexpected trap: the process misbehaved, and trap() calls exit().
Fault(c, p) ==
    /\ At(c, p, "user")
    /\ p # initproc
    /\ killed' = [killed EXCEPT ![p] = TRUE]
    /\ cpu' = [cpu EXCEPT ![c].fl = Off]
    /\ Goto(p, "exit")
    /\ UNCHANGED <<state, pid, parent, chan, nextpid, rpc, np, left, saved, spc,
                   idx, ptable, tickslock>>

\* The second check of killed around syscall(), and iret.
SysRet(c, p) ==
    /\ At(c, p, "sysret")
    /\ Goto(p, IF killed[p] THEN "exit" ELSE "user")
    /\ UNCHANGED <<tableVars, rpc, np, left, saved, cpuVars>>

\* Faulty variant: a new process does not release ptable.lock.
ForkRetHolding(c, p) ==
    /\ At(c, p, "forkret")
    /\ Goto(p, "trapret")
    /\ UNCHANGED <<tableVars, rpc, np, left, saved, cpuVars>>

ForkRet(c, p) ==
    /\ At(c, p, "forkret")
    /\ ptable' = None
    /\ cpu' = [cpu EXCEPT ![c] = PopCli(@)]
    /\ Goto(p, "trapret")
    /\ UNCHANGED <<tableVars, rpc, np, left, saved, spc, idx, tickslock>>

\* trapret of a new process: iret with FL_IF set in its trap frame.
TrapRet(c, p) ==
    /\ At(c, p, "trapret")
    /\ cpu' = [cpu EXCEPT ![c].fl = On]
    /\ Goto(p, "user")
    /\ UNCHANGED <<tableVars, rpc, np, left, saved, spc, idx, ptable, tickslock>>

-----------------------------------------------------------------------------
(* fork()                                                                  *)

Unused == {q \in Procs : state[q] = "UNUSED"}

\* allocproc() up to its release of ptable.lock.
ForkAlloc(c, p) ==
    /\ At(c, p, "fork")
    /\ ptable = None
    /\ Section(c)
    /\ \/ /\ Unused = {}
          /\ Goto(p, "sysret")
          /\ UNCHANGED <<state, pid, nextpid, np>>
       \/ /\ Unused # {}
          /\ LET q == First(Unused) IN
             /\ state' = [state EXCEPT ![q] = "EMBRYO"]
             /\ pid' = [pid EXCEPT ![q] = nextpid]
             /\ np' = [np EXCEPT ![p] = q]
          /\ nextpid' = nextpid + 1
          /\ Goto(p, "copy")
    /\ UNCHANGED <<parent, chan, killed, rpc, left, saved, spc, idx, ptable,
                   tickslock>>

\* kalloc() or copyuvm() fails: the slot is given back, without the lock.
ForkFail(c, p) ==
    /\ At(c, p, "copy")
    /\ state' = [state EXCEPT ![np[p]] = "UNUSED"]
    /\ np' = [np EXCEPT ![p] = None]
    /\ Goto(p, "sysret")
    /\ UNCHANGED <<pid, parent, chan, killed, nextpid, rpc, left, saved, cpuVars>>

\* The child's context starts at forkret with the parent's memory and files.
ForkCopy(c, p) ==
    /\ At(c, p, "copy")
    /\ parent' = [parent EXCEPT ![np[p]] = p]
    /\ pc' = [pc EXCEPT ![p] = "ready", ![np[p]] = "forkret"]
    /\ UNCHANGED <<state, pid, chan, killed, nextpid, rpc, np, left, saved,
                   cpuVars>>

ForkReady(c, p) ==
    /\ At(c, p, "ready")
    /\ ptable = None
    /\ Section(c)
    /\ state' = [state EXCEPT ![np[p]] = "RUNNABLE"]
    /\ np' = [np EXCEPT ![p] = None]
    /\ Goto(p, "sysret")
    /\ UNCHANGED <<pid, parent, chan, killed, nextpid, rpc, left, saved, spc, idx,
                   ptable, tickslock>>

-----------------------------------------------------------------------------
(* exit(), wait(), kill()                                                  *)

Children(p) == {q \in Procs : parent[q] = p}

\* Faulty variants: the parent is not woken; initproc is not woken for the
\* zombies it inherits; the children are not passed to initproc.
ExitParentAsleep(c, p) ==
    /\ At(c, p, "exit")
    /\ p # initproc
    /\ ptable = None
    /\ LET zombies == {q \in Children(p) : state[q] = "ZOMBIE"}
           final == IF zombies = {} THEN state ELSE wakeup1(state, initproc) IN
       state' = [final EXCEPT ![p] = "ZOMBIE"]
    /\ parent' = [q \in Procs |-> IF parent[q] = p THEN initproc ELSE parent[q]]
    /\ Goto(p, "dead")
    /\ sched(c, p, PushCli(cpu[c]))
    /\ UNCHANGED <<pid, chan, killed, nextpid, rpc, np, left, tickslock>>

ExitOrphans(c, p) ==
    /\ At(c, p, "exit")
    /\ p # initproc
    /\ ptable = None
    /\ LET woken == wakeup1(state, parent[p]) IN
       state' = [woken EXCEPT ![p] = "ZOMBIE"]
    /\ UNCHANGED parent
    /\ Goto(p, "dead")
    /\ sched(c, p, PushCli(cpu[c]))
    /\ UNCHANGED <<pid, chan, killed, nextpid, rpc, np, left, tickslock>>

\* exit() after the files are closed, up to swtch().
Exit(c, p) ==
    /\ At(c, p, "exit")
    /\ p # initproc
    /\ ptable = None
    /\ LET woken == wakeup1(state, parent[p])
           orphans == {q \in Children(p) : woken[q] = "ZOMBIE"}
           final == IF orphans = {} THEN woken ELSE wakeup1(woken, initproc) IN
       state' = [final EXCEPT ![p] = "ZOMBIE"]
    /\ parent' = [q \in Procs |-> IF parent[q] = p THEN initproc ELSE parent[q]]
    /\ Goto(p, "dead")
    /\ sched(c, p, PushCli(cpu[c]))
    /\ UNCHANGED <<pid, chan, killed, nextpid, rpc, np, left, tickslock>>

\* panic("init exiting"): the CPU spins with interrupts off.
ExitPanic(c, p) ==
    /\ At(c, p, "exit")
    /\ p = initproc
    /\ cpu' = [cpu EXCEPT ![c].fl = Off]
    /\ Goto(p, "panic")
    /\ UNCHANGED <<tableVars, rpc, np, left, saved, spc, idx, ptable, tickslock>>

\* The body of wait()'s loop, on a CPU whose record r holds ptable.lock.
WaitScan(c, p, r) ==
    LET kids == Children(p)
        zombies == {q \in kids : state[q] = "ZOMBIE"}
        leave == /\ ptable' = None
                 /\ cpu' = [cpu EXCEPT ![c] = PopCli(r)]
                 /\ Goto(p, "sysret")
                 /\ chan' = [chan EXCEPT ![p] = None]
                 /\ saved' = [saved EXCEPT ![p] = Off]
                 /\ UNCHANGED <<spc, idx>> IN
    /\ \/ /\ zombies # {}
          /\ LET q == First(zombies) IN
             /\ state' = [state EXCEPT ![q] = "UNUSED"]
             /\ pid' = [pid EXCEPT ![q] = 0]
             /\ parent' = [parent EXCEPT ![q] = None]
             /\ killed' = [killed EXCEPT ![q] = FALSE]
          /\ leave
       \/ /\ zombies = {}
          /\ kids = {} \/ killed[p]
          /\ leave
          /\ UNCHANGED <<state, pid, parent, killed>>
       \/ /\ zombies = {} /\ kids # {} /\ ~killed[p]
          /\ state' = [state EXCEPT ![p] = "SLEEPING"]
          /\ chan' = [chan EXCEPT ![p] = p]
          /\ Goto(p, "waiting")
          /\ sched(c, p, r)
          /\ UNCHANGED <<pid, parent, killed>>
    /\ UNCHANGED <<nextpid, rpc, np, left, tickslock>>

Wait(c, p) ==
    /\ At(c, p, "wait")
    /\ ptable = None
    /\ WaitScan(c, p, PushCli(cpu[c]))

\* sleep() returns in wait(), still holding ptable.lock.
WaitAgain(c, p) ==
    /\ At(c, p, "waiting")
    /\ WaitScan(c, p, Back(c, p))

\* Faulty variant: a sleeping victim is not woken.
KillAsleep(c, p, k) ==
    /\ At(c, p, "kill")
    /\ ptable = None
    /\ Section(c)
    /\ LET hits == {q \in Procs : pid[q] = k} IN
       killed' = [q \in Procs |-> killed[q] \/ (hits # {} /\ q = First(hits))]
    /\ Goto(p, "sysret")
    /\ UNCHANGED <<state, pid, parent, chan, nextpid, rpc, np, left, saved, spc,
                   idx, ptable, tickslock>>

Kill(c, p, k) ==
    /\ At(c, p, "kill")
    /\ ptable = None
    /\ Section(c)
    /\ LET hits == {q \in Procs : pid[q] = k}
           q == First(hits) IN
       \/ /\ hits # {}
          /\ killed' = [killed EXCEPT ![q] = TRUE]
          /\ state' = [state EXCEPT ![q] = IF @ = "SLEEPING" THEN "RUNNABLE" ELSE @]
       \/ /\ hits = {}
          /\ UNCHANGED <<killed, state>>
    /\ Goto(p, "sysret")
    /\ UNCHANGED <<pid, parent, chan, nextpid, rpc, np, left, saved, spc, idx,
                   ptable, tickslock>>

-----------------------------------------------------------------------------
(* sys_sleep() and sleep(&ticks, &tickslock)                               *)

\* The test of sys_sleep()'s loop with tickslock held by c, whose record is
\* r, and n ticks left to sleep.
SleepTest(c, p, r, n) ==
    /\ \/ /\ n > 0 /\ ~killed[p]
          /\ Goto(p, "tosleep")
          /\ tickslock' = c
          /\ cpu' = [cpu EXCEPT ![c] = r]
          /\ left' = [left EXCEPT ![p] = n]
       \/ /\ n = 0 \/ killed[p]
          /\ Goto(p, "sysret")
          /\ tickslock' = None
          /\ cpu' = [cpu EXCEPT ![c] = PopCli(r)]
          /\ left' = [left EXCEPT ![p] = 0]
    /\ UNCHANGED <<tableVars, rpc, np, saved, spc, idx, ptable>>

SysSleep(c, p, n) ==
    /\ At(c, p, "sleep")
    /\ tickslock = None
    /\ SleepTest(c, p, PushCli(cpu[c]), n)

\* acquire(&ptable.lock); release(&tickslock); sched()
SleepBlock(c, p) ==
    /\ At(c, p, "tosleep")
    /\ ptable = None
    /\ tickslock' = None
    /\ chan' = [chan EXCEPT ![p] = Ticks]
    /\ state' = [state EXCEPT ![p] = "SLEEPING"]
    /\ Goto(p, "slept")
    /\ sched(c, p, PopCli(PushCli(cpu[c])))
    /\ UNCHANGED <<pid, parent, killed, nextpid, rpc, np, left>>

SleepReturn(c, p) ==
    /\ At(c, p, "slept")
    /\ chan' = [chan EXCEPT ![p] = None]
    /\ ptable' = None
    /\ cpu' = [cpu EXCEPT ![c] = PopCli(Back(c, p))]
    /\ Goto(p, "retake")
    /\ saved' = [saved EXCEPT ![p] = Off]
    /\ UNCHANGED <<state, pid, parent, killed, nextpid, rpc, np, left, spc, idx,
                   tickslock>>

\* acquire(&tickslock) again, and the loop's test.
SleepRetake(c, p) ==
    /\ At(c, p, "retake")
    /\ tickslock = None
    /\ SleepTest(c, p, PushCli(cpu[c]), left[p])

-----------------------------------------------------------------------------
(* The system once main() has run userinit() and started the schedulers.   *)

Init ==
    /\ state = [p \in Procs |-> IF p = initproc THEN "RUNNABLE" ELSE "UNUSED"]
    /\ pid = [p \in Procs |-> IF p = initproc THEN 1 ELSE 0]
    /\ parent = [p \in Procs |-> None]
    /\ chan = [p \in Procs |-> None]
    /\ killed = [p \in Procs |-> FALSE]
    /\ nextpid = 2
    /\ pc = [p \in Procs |-> "forkret"]
    /\ rpc = [p \in Procs |-> "user"]
    /\ np = [p \in Procs |-> None]
    /\ left = [p \in Procs |-> 0]
    /\ saved = [p \in Procs |-> Off]
    /\ cpu = [c \in CPUs |-> [proc |-> None, ncli |-> 0, intena |-> Off,
                              fl |-> Off, intr |-> "none"]]
    /\ spc = [c \in CPUs |-> "sti"]
    /\ idx = [c \in CPUs |-> 0]
    /\ ptable = None
    /\ tickslock = None

TimerStep(c) ==
    \/ TimerTick(c) \/ TimerWake(c) \/ TimerIdle(c)
    \/ \E p \in Procs : TimerExit(c, p) \/ TimerYield(c, p) \/ YieldReturn(c, p)

\* The steps p's kernel thread takes by itself.
KernelStep(c, p) ==
    \/ SysRet(c, p) \/ ForkRet(c, p) \/ TrapRet(c, p)
    \/ ForkAlloc(c, p) \/ ForkFail(c, p) \/ ForkCopy(c, p) \/ ForkReady(c, p)
    \/ Exit(c, p) \/ ExitPanic(c, p) \/ Wait(c, p) \/ WaitAgain(c, p)
    \/ \E k \in KillPids : Kill(c, p, k)
    \/ \E n \in 0 .. MaxSleep : SysSleep(c, p, n)
    \/ SleepBlock(c, p) \/ SleepReturn(c, p) \/ SleepRetake(c, p)

\* What a program may do next.
UserStep(c, p) ==
    \/ \E call \in {"fork", "wait", "kill", "sleep", "exit"} : SysEnter(c, p, call)
    \/ Fault(c, p)

Next ==
    \E c \in CPUs :
        \/ SchedStep(c) \/ TimerEnter(c) \/ TimerStep(c)
        \/ \E p \in Procs : KernelStep(c, p) \/ UserStep(c, p)

Spec == Init /\ [][Next]_vars

(***************************************************************************)
(* An interrupt handler runs to its end; a timer interrupt is latched by   *)
(* the LAPIC until FL_IF is set; and the scheduler and every kernel thread *)
(* execute instructions between interrupts, so that one that gets the CPU  *)
(* over and over gets through its next step.  Nothing obliges a program to *)
(* make a call.  A spinlock is not fair, so this describes one CPU (the    *)
(* Makefile's default), on which no thread ever spins.                     *)
(***************************************************************************)
Fairness ==
    /\ \A c \in CPUs : /\ WF_vars(TimerStep(c))
                       /\ SF_vars(TimerEnter(c))
                       /\ SF_vars(SchedStep(c))
    /\ \A p \in Procs : SF_vars(\E c \in CPUs : KernelStep(c, p))

FairSpec == Spec /\ Fairness

-----------------------------------------------------------------------------
(* Properties                                                              *)

\* Every variable has its type.
TypeOK ==
    /\ state \in [Procs -> States]
    /\ pid \in [Procs -> Nat]
    /\ parent \in [Procs -> Procs \cup {None}]
    /\ chan \in [Procs -> Procs \cup {Ticks, None}]
    /\ killed \in [Procs -> BOOLEAN]
    /\ nextpid \in Nat
    /\ pc \in [Procs -> PCs]
    /\ rpc \in [Procs -> (KernelPCs \ {"tosleep"}) \cup {"user"}]
    /\ np \in [Procs -> Procs \cup {None}]
    /\ left \in [Procs -> 0 .. MaxSleep]
    /\ saved \in [Procs -> {On, Off}]
    /\ cpu \in [CPUs -> CpuRec]
    /\ spc \in [CPUs -> {"sti", "loop", "scan", "swtched"}]
    /\ idx \in [CPUs -> 0 .. NPROC]
    /\ ptable \in CPUs \cup {None}
    /\ tickslock \in CPUs \cup {None}

\* scheduler() never runs one process on two CPUs, and a slot is RUNNING
\* exactly while some CPU's c->proc names it (HW2/src/proc.c:344-353): no
\* order of preemptions, sleeps, wakeups and exits breaks the hand-over of
\* ptable.lock across swtch().
RunsOnOneCpu ==
    /\ \A p \in Procs : state[p] = "RUNNING" <=> \E c \in CPUs : cpu[c].proc = p
    /\ \A c, d \in CPUs : cpu[c].proc = cpu[d].proc /\ cpu[c].proc # None => c = d

\* The lock operation that comes next on CPU c.
TakesPtable(c) ==
    \/ spc[c] = "loop" \/ cpu[c].intr \in {"wake", "decide"}
    \/ \E p \in Procs : /\ cpu[c].proc = p
                        /\ pc[p] \in {"fork", "ready", "wait", "kill", "exit", "tosleep"}
DropsPtable(c) ==
    \/ spc[c] = "scan"
    \/ \E p \in Procs : cpu[c].proc = p /\ pc[p] \in ResumePCs
TakesTickslock(c) ==
    \/ cpu[c].intr = "tick"
    \/ \E p \in Procs : At(c, p, "sleep") \/ At(c, p, "retake")
DropsTickslock(c) ==
    \/ cpu[c].intr = "wake"
    \/ \E p \in Procs : cpu[c].proc = p /\ pc[p] = "tosleep"

\* The assertions of spinlock.c and sched() never fire.  acquire() is not
\* called with the lock held by this CPU; release() is, popcli() then finds
\* interrupts off and ncli positive; and sched() finds ncli at exactly 1
\* (so 0 before yield(), wait() or exit() take ptable.lock).
NoLockPanic ==
    \A c \in CPUs :
        /\ TakesPtable(c) => ptable # c
        /\ TakesTickslock(c) => tickslock # c
        /\ DropsPtable(c) => ptable = c /\ cpu[c].fl = Off /\ cpu[c].ncli = 1
        /\ DropsTickslock(c) => tickslock = c /\ cpu[c].fl = Off /\ cpu[c].ncli = 1
        /\ cpu[c].intr = "decide" => cpu[c].ncli = 0
        /\ \A p \in Procs : At(c, p, "wait") \/ At(c, p, "exit") => cpu[c].ncli = 0

\* Interrupts are enabled again exactly where they should be, on whichever
\* CPU a thread resumes: sched()'s saved intena is the thread's own.  Kernel
\* code reached by a system call is interruptible when it holds no lock, user
\* mode always is, and no handler is interrupted before its iret.
InterruptsRestored ==
    \A c \in CPUs :
        /\ cpu[c].intr # "none" => cpu[c].fl = Off
        /\ \A p \in Procs :
            /\ cpu[c].proc = p
            /\ cpu[c].intr = "none"
            /\ pc[p] \notin ResumePCs \cup {"trapret", "exit", "tosleep", "panic"}
            => cpu[c].fl = On

\* sleep() misses no wakeup: nobody sleeps in wait() with a zombie child,
\* and nobody sleeps on &ticks with its time used up unless the timer handler
\* is about to call wakeup(&ticks).
NoLostWakeup ==
    \A p \in Procs : state[p] = "SLEEPING" =>
        /\ chan[p] = p => \A q \in Children(p) : state[q] # "ZOMBIE"
        /\ chan[p] = Ticks => left[p] > 0 \/ \E c \in CPUs : cpu[c].intr = "wake"

\* exit() leaves no child behind: the parent of a process that can run, sleep
\* or be a zombie is a process that has not exited, so somebody can reap it.
ParentIsLive ==
    \A p \in Procs \ {initproc} :
        state[p] \notin {"UNUSED", "EMBRYO"} =>
            /\ parent[p] # None
            /\ state[parent[p]] \in {"RUNNING", "RUNNABLE", "SLEEPING"}

\* scheduler()'s scan starves nobody: a RUNNABLE process runs eventually.
RunnableRuns == \A p \in Procs : state[p] = "RUNNABLE" ~> state[p] = "RUNNING"

\* A killed process exits, whether it runs, waits for the CPU or sleeps in wait()
\* or sleep() when kill() marks it.
KilledExits ==
    \A p \in Procs :
        killed[p] /\ state[p] \in {"RUNNING", "RUNNABLE", "SLEEPING"}
            ~> state[p] \in {"ZOMBIE", "UNUSED"}

\* A parent in wait() with a zombie child returns from the call.
WaitReturns ==
    \A p \in Procs :
        pc[p] \in {"wait", "waiting"}
            /\ (\E q \in Children(p) : state[q] = "ZOMBIE") ~> pc[p] = "sysret"

\* A sys_sleep() call comes back, woken by the ticks it waits for.
SleepEnds == \A p \in Procs : pc[p] \in {"tosleep", "slept"} ~> pc[p] = "sysret"

\* A call that blocks comes to an end: wait() when a child has exited, sleep() when
\* its time has passed, and either when the process is killed, which then exits.
CallsReturn == WaitReturns /\ SleepEnds /\ KilledExits

-----------------------------------------------------------------------------
(* The inductive invariant behind RunsOnOneCpu and NoLockPanic.            *)

\* How many locks CPU c holds.
Locks(c) == (IF ptable = c THEN 1 ELSE 0) + (IF tickslock = c THEN 1 ELSE 0)

\* A CPU: who holds the locks, and what that says about its flags.
CpuInv(c) ==
    /\ spc[c] = "swtched" <=> cpu[c].proc # None
    /\ cpu[c].ncli = Locks(c)
    /\ Locks(c) > 0 \/ cpu[c].intr # "none" => cpu[c].fl = Off
    /\ ptable = c => cpu[c].intr = "none" /\ tickslock # c
    /\ cpu[c].intr = "wake" => tickslock = c /\ cpu[c].intena = Off
    /\ cpu[c].intr \in {"tick", "decide"} => tickslock # c
    /\ cpu[c].proc = None => /\ ptable = c <=> spc[c] = "scan"
                             /\ tickslock = c => cpu[c].intr = "wake"

\* A CPU and the process it runs.
RunInv(c, p) ==
    cpu[c].proc = p =>
        /\ ptable = c <=> pc[p] \in ResumePCs
        /\ tickslock = c <=> pc[p] = "tosleep" \/ cpu[c].intr = "wake"
        /\ pc[p] # "dead"
        /\ pc[p] = "panic" => cpu[c].fl = Off
        /\ pc[p] = "tosleep" => cpu[c].intena = On
        /\ cpu[c].intr # "none" => pc[p] \notin ResumePCs \cup {"tosleep", "panic"}
        /\ \/ cpu[c].fl = On \/ cpu[c].intr # "none"
           \/ pc[p] \in ResumePCs \cup {"trapret", "exit", "tosleep", "panic"}

\* Where the thread of p is, under an interrupt frame if there is one.
BasePC(p) == IF pc[p] = "yielded" THEN rpc[p] ELSE pc[p]

\* A process that waits for a CPU waits inside sched(), which keeps its flag;
\* the child that fork() is filling is an EMBRYO of that fork() alone.
SlotInv(p) ==
    /\ state[p] \in {"RUNNABLE", "SLEEPING"} => pc[p] \in ResumePCs
    /\ pc[p] \in {"waiting", "slept"} => saved[p] = On
    /\ BasePC(p) \in {"copy", "ready"} /\ state[p] \notin {"UNUSED", "EMBRYO"}
           => np[p] # None
    /\ np[p] # None => state[np[p]] = "EMBRYO"
    /\ BasePC(p) = "ready" /\ np[p] # None => pc[np[p]] = "forkret"

CpusInv == \A c \in CPUs : CpuInv(c)
RunsInv == \A c \in CPUs, p \in Procs : RunInv(c, p)
SlotsInv == \A p \in Procs : SlotInv(p)
ForksInv == \A p, q \in Procs : np[p] = np[q] /\ np[p] # None => p = q

\* The whole of it; it implies NoLockPanic and InterruptsRestored.
IInv == TypeOK /\ RunsOnOneCpu /\ CpusInv /\ RunsInv /\ SlotsInv /\ ForksInv

=============================================================================
