--------------------------- MODULE ProcStepProofs ---------------------------
(***************************************************************************)
(* Proofs about Proc, for any number of CPUs and slots, in two modules.    *)
(* This one: the operators of the model, the frame lemmas (a step of one   *)
(* CPU leaves the invariant of the others alone), and that the steps of    *)
(* scheduler(), of the timer interrupt and of traps, kill(), and the two   *)
(* ends of fork() preserve IInv.                                           *)
(***************************************************************************)
EXTENDS Proc, WellFoundedInduction, TLAPS

Calls == {"fork", "wait", "kill", "sleep", "exit"}

-----------------------------------------------------------------------------
(* The operators the model is built from                                   *)

\* A scan of the table from its start finds the lowest slot that matches.
LEMMA FirstInSet ==
    ASSUME NEW S \in SUBSET Nat, S # {}
    PROVE  First(S) \in S /\ \A q \in S : First(S) <= q
<1> DEFINE R == OpToRel(<, Nat)
<1>1. PICK x \in S : \A y \in S : ~(<<y, x>> \in R)
  BY NatLessThanWellFounded, WFMin, Zenon
<1>2. ASSUME NEW y \in S
      PROVE  x <= y
  <2>1. \A u, v \in Nat : u < v => <<u, v>> \in R
    BY Zenon DEF OpToRel
  <2>2. ~(y < x)
    BY <1>1, <2>1, Zenon
  <2> QED
    BY <2>2
<1> QED
  BY <1>2, Zenon DEF First

\* The same for a set of slots.
LEMMA FirstSlot ==
    ASSUME NEW S \in SUBSET Procs, S # {}
    PROVE  First(S) \in S
<1>1. S \in SUBSET Nat
  BY SizeAssumption DEF Procs
<1> QED
  BY <1>1, FirstInSet, Zenon

\* pushcli() counts one more, turns interrupts off, and records the flag when
\* it is the outermost.
LEMMA PushCliFields ==
    ASSUME NEW r \in CpuRec
    PROVE  /\ PushCli(r) \in CpuRec
           /\ PushCli(r).proc = r.proc /\ PushCli(r).intr = r.intr
           /\ PushCli(r).ncli = r.ncli + 1
           /\ PushCli(r).fl = Off
           /\ PushCli(r).intena = IF r.ncli = 0 THEN r.fl ELSE r.intena
<1> DEFINE n == r.ncli + 1
           i == IF r.ncli = 0 THEN r.fl ELSE r.intena
<1>1. n \in Nat /\ i \in {On, Off}
  BY DEF CpuRec
<1>2. PushCli(r) = [r EXCEPT !.ncli = n, !.intena = i, !.fl = Off]
  BY Zenon DEF PushCli
<1> HIDE DEF n, i
<1> DEFINE q == [r EXCEPT !.ncli = n, !.intena = i, !.fl = Off]
<1>3. /\ q \in CpuRec
      /\ q.proc = r.proc /\ q.intr = r.intr
      /\ q.ncli = n /\ q.intena = i /\ q.fl = Off
  BY <1>1, Zenon DEF CpuRec
<1> QED
  BY <1>2, <1>3, Zenon DEF n, i

\* popcli() counts one less and turns interrupts on only at the outermost.
LEMMA PopCliFields ==
    ASSUME NEW r \in CpuRec, r.ncli > 0
    PROVE  /\ PopCli(r) \in CpuRec
           /\ PopCli(r).proc = r.proc /\ PopCli(r).intr = r.intr
           /\ PopCli(r).intena = r.intena
           /\ PopCli(r).ncli = r.ncli - 1
           /\ PopCli(r).fl = IF r.ncli = 1 /\ r.intena = On THEN On ELSE r.fl
<1>1. r.ncli - 1 \in Nat
  BY DEF CpuRec
<1>2. (IF r.ncli = 1 /\ r.intena = On THEN On ELSE r.fl) \in {On, Off}
  BY Zenon DEF CpuRec
<1>3. ASSUME NEW n \in Nat, NEW f \in {On, Off}
      PROVE  LET q == [r EXCEPT !.ncli = n, !.fl = f] IN
             /\ q \in CpuRec
             /\ q.proc = r.proc /\ q.intr = r.intr /\ q.intena = r.intena
             /\ q.ncli = n /\ q.fl = f
  BY Zenon DEF CpuRec
<1> QED
  BY <1>1, <1>2, <1>3, ZenonT(40) DEF PopCli

\* An acquire() and its release() leave ncli and the interrupt flag alone.
LEMMA SectionFields ==
    ASSUME NEW r \in CpuRec, r.ncli > 0 => r.fl = Off
    PROVE  LET q == PopCli(PushCli(r)) IN
           /\ q \in CpuRec
           /\ q.proc = r.proc /\ q.intr = r.intr
           /\ q.ncli = r.ncli /\ q.fl = r.fl
           /\ q.intena = IF r.ncli = 0 THEN r.fl ELSE r.intena
<1>1. PushCli(r) \in CpuRec /\ PushCli(r).ncli > 0
  BY PushCliFields DEF CpuRec
<1> QED
  BY <1>1, PushCliFields, PopCliFields DEF CpuRec, On, Off

\* The handler's progress is a field of its own.
LEMMA IntrFields ==
    ASSUME NEW r \in CpuRec, NEW i \in {"none", "tick", "wake", "decide"}
    PROVE  LET q == [r EXCEPT !.intr = i] IN
           /\ q \in CpuRec
           /\ q.proc = r.proc /\ q.ncli = r.ncli /\ q.intena = r.intena
           /\ q.fl = r.fl /\ q.intr = i
BY Zenon DEF CpuRec

\* sched() takes the process off the CPU and touches no flag.
LEMMA SchedFields ==
    ASSUME NEW r \in CpuRec
    PROVE  LET q == [r EXCEPT !.proc = None, !.intr = "none"] IN
           /\ q \in CpuRec
           /\ q.proc = None /\ q.ncli = r.ncli /\ q.intena = r.intena
           /\ q.fl = r.fl /\ q.intr = "none"
BY Zenon DEF CpuRec

\* swtch() brings a thread's own intena back.
LEMMA BackFields ==
    ASSUME TypeOK, NEW c \in CPUs, NEW p \in Procs
    PROVE  /\ Back(c, p) \in CpuRec
           /\ Back(c, p).proc = cpu[c].proc /\ Back(c, p).ncli = cpu[c].ncli
           /\ Back(c, p).fl = cpu[c].fl /\ Back(c, p).intr = cpu[c].intr
           /\ Back(c, p).intena = saved[p]
BY SMTT(30) DEF TypeOK, CpuRec, Back

-----------------------------------------------------------------------------
(* What a step leaves alone                                                *)

\* Other CPUs see nothing of a step of CPU c but its locks.
Local(c) ==
    \A d \in CPUs \ {c} :
        /\ cpu'[d] = cpu[d] /\ spc'[d] = spc[d]
        /\ ptable' = d <=> ptable = d
        /\ tickslock' = d <=> tickslock = d

\* The state changes that a step makes to other slots than its own.
StateMove(q) ==
    \/ state'[q] = state[q]
    \/ state[q] = "SLEEPING" /\ state'[q] = "RUNNABLE"
    \/ state[q] = "ZOMBIE" /\ state'[q] = "UNUSED"

\* The thread of q is where it was.
SameThread(q) == pc'[q] = pc[q] /\ rpc'[q] = rpc[q] /\ saved'[q] = saved[q]

\* Where a running process is when it holds no lock.
PlainPCs == (KernelPCs \ {"tosleep"}) \cup {"user", "panic"}

\* What IInv says of CPU c.
LEMMA CpuContext ==
    ASSUME IInv, NEW c \in CPUs
    PROVE  /\ cpu[c] \in CpuRec /\ cpu[c].proc \in Procs \cup {None}
           /\ cpu[c].ncli \in Nat /\ cpu[c].fl \in {On, Off} /\ cpu[c].intena \in {On, Off}
           /\ CpuInv(c)
BY Zenon DEF IInv, TypeOK, CpusInv, CpuRec

\* What IInv says of CPU c running p.
LEMMA RunContext ==
    ASSUME IInv, NEW c \in CPUs, NEW p \in Procs, cpu[c].proc = p
    PROVE  /\ cpu[c] \in CpuRec /\ CpuInv(c) /\ RunInv(c, p) /\ SlotInv(p)
           /\ spc[c] = "swtched" /\ state[p] = "RUNNING"
           /\ pc[p] \in PCs /\ saved[p] \in {On, Off}
           /\ \A d \in CPUs \ {c} : cpu[d].proc # p
           /\ \A q \in Procs : np[q] # p
<1>1. cpu[c] \in CpuRec /\ pc[p] \in PCs /\ saved[p] \in {On, Off}
  BY Zenon DEF IInv, TypeOK
<1>2. CpuInv(c) /\ RunInv(c, p) /\ SlotInv(p)
  BY Zenon DEF IInv, CpusInv, RunsInv, SlotsInv
<1>3. /\ spc[c] = "swtched" /\ state[p] = "RUNNING"
      /\ \A d \in CPUs \ {c} : cpu[d].proc # p
  BY <1>2, NoneAssumption, Zenon DEF IInv, RunsOnOneCpu, CpuInv
<1>4. \A q \in Procs : np[q] # p
  BY <1>3, NoneAssumption, Zenon DEF IInv, SlotsInv, SlotInv
<1> QED
  BY <1>1, <1>2, <1>3, <1>4, Zenon

\* What is required of a CPU only depends on its record, on its scheduler's
\* place, on its locks and on its process's state.
LEMMA CpuFrame ==
    ASSUME IInv, NEW c \in CPUs, Local(c), CpuInv(c)', \A q \in Procs : RunInv(c, q)',
           \A d \in CPUs \ {c}, q \in Procs : cpu[d].proc = q => pc'[q] = pc[q]
    PROVE  CpusInv' /\ RunsInv'
<1>1. ASSUME NEW d \in CPUs \ {c}
      PROVE  CpuInv(d)' /\ \A q \in Procs : RunInv(d, q)'
  <2>1. CpuInv(d) /\ \A q \in Procs : RunInv(d, q)
    BY Zenon DEF IInv, CpusInv, RunsInv
  <2>2. /\ cpu'[d] = cpu[d] /\ spc'[d] = spc[d]
        /\ ptable' = d <=> ptable = d
        /\ tickslock' = d <=> tickslock = d
    BY Zenon DEF Local
  <2>3. CpuInv(d)'
    BY <2>1, <2>2, Zenon DEF CpuInv, Locks
  <2>4. \A q \in Procs : RunInv(d, q)'
    BY <2>1, <2>2 DEF RunInv
  <2> QED
    BY <2>3, <2>4, Zenon
<1> QED
  BY <1>1, Zenon DEF CpusInv, RunsInv

\* What is required of the process a CPU runs only depends on that process.
LEMMA PlaceFrame ==
    ASSUME RunsOnOneCpu, \A d \in CPUs : cpu'[d].proc = cpu[d].proc,
           \A q \in Procs : state'[q] = "RUNNING" <=> state[q] = "RUNNING"
    PROVE  RunsOnOneCpu'
BY DEF RunsOnOneCpu

\* Slots under a step that only p's own thread, if anybody's, moves in.
LEMMA SlotFrame ==
    ASSUME IInv, TypeOK', NEW p, \A q \in Procs : np[q] # p, np' = np,
           p \in Procs => SlotInv(p)',
           \A q \in Procs \ {p} : StateMove(q) /\ SameThread(q),
           p \in Procs => state[p] # "EMBRYO"
    PROVE  SlotsInv' /\ ForksInv'
<1>1. ASSUME NEW q \in Procs \ {p}
      PROVE  SlotInv(q)'
  <2>1. SlotInv(q) /\ StateMove(q) /\ SameThread(q) /\ np'[q] = np[q]
    BY Zenon DEF IInv, SlotsInv
  <2>2. BasePC(q)' = BasePC(q)
    BY <2>1, Zenon DEF BasePC, SameThread
  <2>3. CASE np[q] = None
    BY <2>1, <2>2, <2>3, Zenon DEF SlotInv, StateMove, SameThread
  <2>4. CASE np[q] # None
    <3>1. np[q] \in Procs \ {p}
      BY <2>4, Zenon DEF IInv, TypeOK
    <3>2. StateMove(np[q]) /\ SameThread(np[q])
      BY <3>1, Zenon
    <3> QED
      BY <2>1, <2>2, <2>4, <3>2, Zenon DEF SlotInv, StateMove, SameThread
  <2> QED
    BY <2>3, <2>4, Zenon
<1> QED
  BY <1>1, Zenon DEF SlotsInv, IInv, ForksInv

\* A step of p's kernel thread that ends with no lock held.
LEMMA PlainKeeps ==
    ASSUME IInv, TypeOK', NEW c \in CPUs, NEW p \in Procs, cpu[c].proc = p, Local(c),
           ptable' # c, tickslock' # c, spc' = spc, np' = np,
           cpu'[c].proc = p, cpu'[c].ncli = 0, cpu'[c].intr = "none",
           pc'[p] \in PlainPCs,
           cpu'[c].fl = On \/ pc'[p] \in {"trapret", "exit", "panic"},
           pc'[p] = "panic" => cpu'[c].fl = Off,
           pc'[p] \in {"copy", "ready"} => BasePC(p) = pc'[p],
           state'[p] = state[p],
           \A q \in Procs \ {p} : StateMove(q) /\ SameThread(q)
    PROVE  IInv'
<1>1. /\ SlotInv(p) /\ spc[c] = "swtched" /\ state[p] = "RUNNING"
      /\ \A d \in CPUs \ {c} : cpu[d].proc # p
      /\ \A q \in Procs : np[q] # p
  BY RunContext
<1>2. CpuInv(c)'
  BY <1>1, NoneAssumption DEF CpuInv, Locks
<1>3. pc'[p] \notin ResumePCs \cup {"tosleep", "dead"}
  BY Zenon DEF PlainPCs, KernelPCs, ResumePCs
<1>4. \A q \in Procs : RunInv(c, q)'
  BY <1>3, Zenon DEF RunInv
<1>5. \A d \in CPUs \ {c}, q \in Procs : cpu[d].proc = q => pc'[q] = pc[q]
  BY <1>1, Zenon DEF SameThread
<1>6. CpusInv' /\ RunsInv'
  BY <1>2, <1>4, <1>5, CpuFrame, Zenon
<1>7. RunsOnOneCpu'
  <2>1. \A d \in CPUs : cpu'[d].proc = cpu[d].proc
    BY Zenon DEF Local
  <2>2. \A q \in Procs : state'[q] = "RUNNING" <=> state[q] = "RUNNING"
    BY Zenon DEF StateMove
  <2> QED
    BY <2>1, <2>2, PlaceFrame, Zenon DEF IInv
<1>8. SlotInv(p)'
  <2>1. BasePC(p)' = pc'[p]
    BY <1>3, Zenon DEF BasePC, ResumePCs
  <2>2. np[p] # None => /\ np[p] \in Procs \ {p}
                        /\ StateMove(np[p]) /\ SameThread(np[p])
    BY <1>1, Zenon DEF IInv, TypeOK
  <2> QED
    BY <1>1, <1>3, <2>1, <2>2 DEF SlotInv, ResumePCs, StateMove, SameThread
<1>9. SlotsInv' /\ ForksInv'
  BY <1>1, <1>8, SlotFrame, Zenon
<1> QED
  BY <1>6, <1>7, <1>9, Zenon DEF IInv

\* A step in which p gives CPU c back to its scheduler through sched().
LEMMA LeaveKeeps ==
    ASSUME IInv, TypeOK', NEW c \in CPUs, NEW p \in Procs, cpu[c].proc = p, Local(c),
           ptable' = c, tickslock' # c, spc'[c] = "scan", np' = np,
           cpu'[c].proc = None, cpu'[c].ncli = 1, cpu'[c].intr = "none", cpu'[c].fl = Off,
           state'[p] # "RUNNING", state'[p] \notin {"UNUSED", "EMBRYO"},
           pc'[p] \in ResumePCs \/ state'[p] = "ZOMBIE",
           pc'[p] \in {"waiting", "slept"} => saved'[p] = On,
           BasePC(p)' \in {"copy", "ready"} => BasePC(p)' = BasePC(p),
           \A q \in Procs \ {p} : StateMove(q) /\ SameThread(q)
    PROVE  IInv'
<1>1. /\ SlotInv(p) /\ state[p] = "RUNNING"
      /\ \A d \in CPUs \ {c} : cpu[d].proc # p
      /\ \A q \in Procs : np[q] # p
  BY RunContext
<1>2. CpuInv(c)'
  BY NoneAssumption DEF CpuInv, Locks
<1>3. \A q \in Procs : RunInv(c, q)'
  BY NoneAssumption, Zenon DEF RunInv
<1>4. \A d \in CPUs \ {c}, q \in Procs : cpu[d].proc = q => pc'[q] = pc[q]
  BY <1>1, Zenon DEF SameThread
<1>5. CpusInv' /\ RunsInv'
  BY <1>2, <1>3, <1>4, CpuFrame, Zenon
<1>6. RunsOnOneCpu'
  <2>1. \A d \in CPUs \ {c} : cpu'[d].proc = cpu[d].proc
    BY Zenon DEF Local
  <2>2. \A q \in Procs \ {p} : state'[q] = "RUNNING" <=> state[q] = "RUNNING"
    BY Zenon DEF StateMove
  <2> QED
    BY <1>1, <2>1, <2>2, NoneAssumption DEF IInv, RunsOnOneCpu
<1>7. SlotInv(p)'
  <2>1. np[p] # None => /\ np[p] \in Procs \ {p}
                        /\ StateMove(np[p]) /\ SameThread(np[p])
    BY <1>1, ZenonT(40) DEF IInv, TypeOK
  <2> QED
    BY <1>1, <2>1, Zenon DEF SlotInv, StateMove, SameThread
<1>8. SlotsInv' /\ ForksInv'
  BY <1>1, <1>7, SlotFrame, Zenon
<1> QED
  BY <1>5, <1>6, <1>8, Zenon DEF IInv

\* A step of CPU c's scheduler or timer handler that moves no thread.
LEMMA QuietKeeps ==
    ASSUME IInv, TypeOK', NEW c \in CPUs, Local(c), CpuInv(c)',
           \A q \in Procs : RunInv(c, q)', cpu'[c].proc = cpu[c].proc, np' = np,
           \A q \in Procs : StateMove(q) /\ SameThread(q)
    PROVE  IInv'
<1>1. CpusInv' /\ RunsInv'
  BY CpuFrame, Zenon DEF SameThread
<1>2. RunsOnOneCpu'
  <2>1. \A d \in CPUs : cpu'[d].proc = cpu[d].proc
    BY Zenon DEF Local
  <2>2. \A q \in Procs : state'[q] = "RUNNING" <=> state[q] = "RUNNING"
    BY Zenon DEF StateMove
  <2> QED
    BY <2>1, <2>2, PlaceFrame, Zenon DEF IInv
<1>3. SlotsInv' /\ ForksInv'
  <2>1. PICK p : p \notin Procs \cup {None}
    BY NoSetContainsEverything, Zenon
  <2>2. \A q \in Procs : np[q] # p
    BY <2>1 DEF IInv, TypeOK
  <2> QED
    BY <2>1, <2>2, SlotFrame, Zenon
<1> QED
  BY <1>1, <1>2, <1>3, Zenon DEF IInv

-----------------------------------------------------------------------------
(* The scheduler                                                           *)

\* scheduler(): sti().
LEMMA SchedStiKeeps ==
    ASSUME IInv, NEW c \in CPUs, SchedSti(c)
    PROVE  IInv'
<1> DEFINE r == [cpu[c] EXCEPT !.fl = On]
<1>1. /\ cpu[c] \in CpuRec /\ CpuInv(c) /\ spc[c] = "sti" /\ cpu[c].intr = "none"
      /\ cpu \in [CPUs -> CpuRec] /\ spc \in [CPUs -> {"sti", "loop", "scan", "swtched"}]
  BY CpuContext, Zenon DEF SchedSti, IInv, TypeOK
<1>2. /\ r \in CpuRec /\ r.proc = cpu[c].proc /\ r.ncli = cpu[c].ncli
      /\ r.intena = cpu[c].intena /\ r.fl = On /\ r.intr = "none"
  BY <1>1, Zenon DEF CpuRec
<1>3. cpu' = [cpu EXCEPT ![c] = r] /\ spc' = [spc EXCEPT ![c] = "loop"]
  BY Zenon DEF SchedSti
<1> HIDE DEF r
<1>4. cpu'[c] = r /\ spc'[c] = "loop" /\ Local(c)
  BY <1>1, <1>3, Zenon DEF Local, SchedSti
<1>5. TypeOK'
  <2>1. cpu' \in [CPUs -> CpuRec]
    BY <1>1, <1>2, <1>3, Zenon
  <2> QED
    BY <2>1, <1>1, <1>2, <1>3, Zenon DEF IInv, TypeOK, SchedSti, tableVars, threadVars
<1>6. ptable # c /\ tickslock # c /\ ptable' = ptable /\ tickslock' = tickslock
  BY <1>1, Zenon DEF CpuInv, SchedSti
<1>7. CpuInv(c)'
  BY <1>1, <1>2, <1>4, <1>6 DEF CpuInv, Locks
<1>8. \A q \in Procs : RunInv(c, q)'
  BY <1>1, <1>2, <1>4, NoneAssumption DEF RunInv, CpuInv
<1>9. np' = np /\ \A q \in Procs : StateMove(q) /\ SameThread(q)
  BY Zenon DEF SchedSti, tableVars, threadVars, StateMove, SameThread
<1> QED
  BY <1>2, <1>4, <1>5, <1>7, <1>8, <1>9, QuietKeeps, Zenon

\* scheduler(): acquire(&ptable.lock).
LEMMA SchedAcquireKeeps ==
    ASSUME IInv, NEW c \in CPUs, SchedAcquire(c)
    PROVE  IInv'
<1> DEFINE r == PushCli(cpu[c])
<1>1. /\ cpu[c] \in CpuRec /\ CpuInv(c) /\ spc[c] = "loop" /\ cpu[c].intr = "none"
      /\ cpu \in [CPUs -> CpuRec] /\ spc \in [CPUs -> {"sti", "loop", "scan", "swtched"}]
      /\ ptable = None /\ ptable' = c /\ tickslock' = tickslock
  BY CpuContext, Zenon DEF SchedAcquire, IInv, TypeOK
<1>2. /\ r \in CpuRec /\ r.proc = cpu[c].proc /\ r.ncli = cpu[c].ncli + 1
      /\ r.fl = Off /\ r.intr = "none"
  BY <1>1, PushCliFields, Zenon
<1>3. cpu' = [cpu EXCEPT ![c] = r] /\ spc' = [spc EXCEPT ![c] = "scan"]
  BY Zenon DEF SchedAcquire
<1> HIDE DEF r
<1>4. cpu'[c] = r /\ spc'[c] = "scan" /\ Local(c)
  BY <1>1, <1>3, NoneAssumption, Zenon DEF Local
<1>5. TypeOK'
  <2>1. cpu' \in [CPUs -> CpuRec]
    BY <1>1, <1>2, <1>3, Zenon
  <2> QED
    BY <2>1, <1>1, <1>2, <1>3, Zenon DEF IInv, TypeOK, SchedAcquire, tableVars, threadVars
<1>6. CpuInv(c)'
  BY <1>1, <1>2, <1>4, NoneAssumption DEF CpuInv, Locks
<1>7. \A q \in Procs : RunInv(c, q)'
  BY <1>1, <1>2, <1>4, NoneAssumption DEF RunInv, CpuInv
<1>8. np' = np /\ \A q \in Procs : StateMove(q) /\ SameThread(q)
  BY Zenon DEF SchedAcquire, tableVars, threadVars, StateMove, SameThread
<1> QED
  BY <1>2, <1>4, <1>5, <1>6, <1>7, <1>8, QuietKeeps, Zenon

\* scheduler(): release(&ptable.lock) at the end of a pass.
LEMMA SchedReleaseKeeps ==
    ASSUME IInv, NEW c \in CPUs, SchedRelease(c)
    PROVE  IInv'
<1> DEFINE r == PopCli(cpu[c])
<1>1. /\ cpu[c] \in CpuRec /\ CpuInv(c) /\ spc[c] = "scan"
      /\ cpu \in [CPUs -> CpuRec] /\ spc \in [CPUs -> {"sti", "loop", "scan", "swtched"}]
      /\ ptable' = None /\ tickslock' = tickslock
  BY CpuContext, Zenon DEF SchedRelease, IInv, TypeOK
<1>2. /\ cpu[c].proc = None /\ ptable = c /\ tickslock # c
      /\ cpu[c].ncli = 1 /\ cpu[c].intr = "none"
  BY <1>1 DEF CpuInv, Locks
<1>3. r \in CpuRec /\ r.proc = None /\ r.ncli = 0 /\ r.intr = "none"
  BY <1>1, <1>2, PopCliFields
<1>4. cpu' = [cpu EXCEPT ![c] = r] /\ spc' = [spc EXCEPT ![c] = "sti"]
  BY Zenon DEF SchedRelease
<1> HIDE DEF r
<1>5. cpu'[c] = r /\ spc'[c] = "sti" /\ Local(c)
  BY <1>1, <1>2, <1>4, NoneAssumption, Zenon DEF Local
<1>6. idx' \in [CPUs -> 0 .. NPROC]
  BY SizeAssumption DEF IInv, TypeOK, SchedRelease
<1>7. TypeOK'
  <2>1. cpu' \in [CPUs -> CpuRec]
    BY <1>1, <1>3, <1>4, <1>6, Zenon
  <2> QED
    BY <2>1, <1>1, <1>3, <1>4, <1>6, Zenon DEF IInv, TypeOK, SchedRelease, tableVars, threadVars
<1>8. CpuInv(c)'
  BY <1>1, <1>2, <1>3, <1>5, NoneAssumption DEF CpuInv, Locks
<1>9. \A q \in Procs : RunInv(c, q)'
  BY <1>3, <1>5, NoneAssumption, Zenon DEF RunInv
<1>10. np' = np /\ \A q \in Procs : StateMove(q) /\ SameThread(q)
  BY Zenon DEF SchedRelease, tableVars, threadVars, StateMove, SameThread
<1> QED
  BY <1>2, <1>3, <1>5, <1>7, <1>8, <1>9, <1>10, QuietKeeps, Zenon

\* scheduler(): mark a RUNNABLE process RUNNING and swtch() to it.
LEMMA SchedPickKeeps ==
    ASSUME IInv, NEW c \in CPUs, SchedPick(c)
    PROVE  IInv'
<1>1. /\ cpu[c] \in CpuRec /\ CpuInv(c) /\ spc[c] = "scan"
      /\ cpu \in [CPUs -> CpuRec] /\ spc \in [CPUs -> {"sti", "loop", "scan", "swtched"}]
      /\ ptable' = ptable /\ tickslock' = tickslock
  BY CpuContext, Zenon DEF SchedPick, IInv, TypeOK
<1>2. /\ cpu[c].proc = None /\ ptable = c /\ tickslock # c
      /\ cpu[c].ncli = 1 /\ cpu[c].intr = "none" /\ cpu[c].fl = Off
  BY <1>1 DEF CpuInv, Locks
<1>3. PICK p \in Procs :
        /\ state[p] = "RUNNABLE"
        /\ state' = [state EXCEPT ![p] = "RUNNING"]
        /\ cpu' = [cpu EXCEPT ![c].proc = p]
        /\ idx' = [idx EXCEPT ![c] = p + 1]
  <2>1. First(RunnableFrom(idx[c])) \in RunnableFrom(idx[c])
    BY FirstSlot, Zenon DEF SchedPick, RunnableFrom
  <2> QED
    BY <2>1, Zenon DEF SchedPick, RunnableFrom
<1> DEFINE r == [cpu[c] EXCEPT !.proc = p]
<1>4. spc' = [spc EXCEPT ![c] = "swtched"]
  BY Zenon DEF SchedPick
<1>5. cpu' = [cpu EXCEPT ![c] = r]
  BY <1>3, Zenon
<1>6. /\ r \in CpuRec /\ r.proc = p /\ r.ncli = 1
      /\ r.intena = cpu[c].intena /\ r.fl = Off /\ r.intr = "none"
  BY <1>1, <1>2, Zenon DEF CpuRec
<1> HIDE DEF r
<1>7. cpu'[c] = r /\ spc'[c] = "swtched" /\ Local(c)
  BY <1>1, <1>4, <1>5, Zenon DEF Local
<1>8. idx' \in [CPUs -> 0 .. NPROC] /\ state' \in [Procs -> States]
  BY <1>3, SizeAssumption, SMTT(30) DEF IInv, TypeOK, Procs, States
<1>9. TypeOK'
  <2>1. cpu' \in [CPUs -> CpuRec]
    BY <1>1, <1>4, <1>5, <1>6, <1>8, Zenon
  <2> QED
    BY <2>1, <1>1, <1>4, <1>5, <1>6, <1>8, Zenon DEF IInv, TypeOK, SchedPick, threadVars
<1>10. CpuInv(c)'
  BY <1>1, <1>2, <1>6, <1>7, NoneAssumption, Zenon DEF CpuInv, Locks
<1>11. SlotInv(p) /\ pc[p] \in ResumePCs
  BY <1>3, Zenon DEF IInv, SlotsInv, SlotInv
<1>12. pc' = pc /\ rpc' = rpc /\ saved' = saved /\ np' = np
  BY Zenon DEF SchedPick, threadVars
<1>13. \A q \in Procs : RunInv(c, q)'
  <2>1. pc[p] \notin {"tosleep", "dead", "panic"}
    BY <1>11, Zenon DEF ResumePCs
  <2> QED
    BY <1>1, <1>2, <1>6, <1>7, <1>11, <1>12, <2>1, Zenon DEF RunInv
<1>14. CpusInv' /\ RunsInv'
  BY <1>7, <1>10, <1>12, <1>13, CpuFrame, Zenon
<1>15. \A q \in Procs \ {p} : state'[q] = state[q]
  BY <1>3, Zenon DEF IInv, TypeOK
<1>16. state'[p] = "RUNNING"
  BY <1>3, Zenon DEF IInv, TypeOK
<1>17. RunsOnOneCpu'
  <2>1. \A d \in CPUs \ {c} : cpu'[d] = cpu[d]
    BY <1>7, Zenon DEF Local
  <2> QED
    BY <1>2, <1>3, <1>6, <1>7, <1>15, <1>16, <2>1, NoneAssumption, SMTT(30)
    DEF IInv, RunsOnOneCpu
<1>18. \A q \in Procs : np[q] # p
  BY <1>3, NoneAssumption, Zenon DEF IInv, SlotsInv, SlotInv
<1>19. SlotInv(p)'
  <2>1. BasePC(p)' = BasePC(p)
    BY <1>12, Zenon DEF BasePC
  <2>2. np[p] # None => np[p] \in Procs \ {p}
    BY <1>18, Zenon DEF IInv, TypeOK
  <2> QED
    BY <1>3, <1>11, <1>12, <1>15, <1>16, <2>1, <2>2, Zenon DEF SlotInv
<1>20. SlotsInv' /\ ForksInv'
  BY <1>3, <1>9, <1>12, <1>15, <1>18, <1>19, SlotFrame, Zenon DEF StateMove, SameThread
<1> QED
  BY <1>9, <1>14, <1>17, <1>20, Zenon DEF IInv

-----------------------------------------------------------------------------
(* The timer handler                                                       *)

\* trap(): a timer interrupt is taken, which needs interrupts on.
LEMMA TimerEnterKeeps ==
    ASSUME IInv, NEW c \in CPUs, TimerEnter(c)
    PROVE  IInv'
<1> DEFINE i == IF c = Cpu0 THEN "tick" ELSE "decide"
           r == [cpu[c] EXCEPT !.fl = Off, !.intr = i]
<1>1. /\ cpu[c] \in CpuRec /\ CpuInv(c) /\ cpu[c].fl = On /\ cpu[c].intr = "none"
      /\ cpu \in [CPUs -> CpuRec]
      /\ spc' = spc /\ ptable' = ptable /\ tickslock' = tickslock
  BY CpuContext, Zenon DEF TimerEnter, IInv, TypeOK
<1>2. ptable # c /\ tickslock # c
  BY <1>1 DEF CpuInv, Locks, On, Off
<1>3. cpu' = [cpu EXCEPT ![c] = r]
  BY Zenon DEF TimerEnter
<1>4. i \in {"tick", "decide"}
  OBVIOUS
<1> HIDE DEF i
<1>5. /\ r \in CpuRec /\ r.proc = cpu[c].proc /\ r.ncli = cpu[c].ncli
      /\ r.fl = Off /\ r.intr = i
  BY <1>1, <1>4, Zenon DEF CpuRec
<1> HIDE DEF r
<1>6. cpu'[c] = r /\ Local(c)
  BY <1>1, <1>3, Zenon DEF Local
<1>7. TypeOK'
  <2>1. cpu' \in [CPUs -> CpuRec]
    BY <1>1, <1>3, <1>5, Zenon
  <2> QED
    BY <2>1, <1>1, <1>3, <1>5, Zenon DEF IInv, TypeOK, TimerEnter, tableVars, threadVars
<1>8. CpuInv(c)'
  BY <1>1, <1>2, <1>4, <1>5, <1>6, Zenon DEF CpuInv, Locks
<1>9. pc' = pc /\ rpc' = rpc /\ saved' = saved /\ np' = np /\ state' = state
  BY Zenon DEF TimerEnter, tableVars, threadVars
<1>10. ASSUME NEW q \in Procs PROVE RunInv(c, q)'
  <2>1. RunInv(c, q)
    BY Zenon DEF IInv, RunsInv
  <2> QED
    BY <1>1, <1>2, <1>4, <1>5, <1>6, <1>9, <2>1 DEF RunInv, On, Off
<1> QED
  BY <1>5, <1>6, <1>7, <1>8, <1>9, <1>10, QuietKeeps, Zenon DEF StateMove, SameThread

\* trap(): CPU 0 takes tickslock and counts the tick.
LEMMA TimerTickKeeps ==
    ASSUME IInv, NEW c \in CPUs, TimerTick(c)
    PROVE  IInv'
<1> DEFINE s == PushCli(cpu[c])
           r == [s EXCEPT !.intr = "wake"]
<1>1. /\ cpu[c] \in CpuRec /\ CpuInv(c) /\ cpu[c].intr = "tick"
      /\ cpu \in [CPUs -> CpuRec] /\ spc' = spc /\ ptable' = ptable
      /\ tickslock = None /\ tickslock' = c
  BY CpuContext, Zenon DEF TimerTick, IInv, TypeOK
<1>2. ptable # c /\ tickslock # c /\ cpu[c].fl = Off /\ cpu[c].ncli = 0
  BY <1>1, NoneAssumption DEF CpuInv, Locks
<1>3. /\ s \in CpuRec /\ s.proc = cpu[c].proc /\ s.ncli = 1
      /\ s.fl = Off /\ s.intena = Off
  BY <1>1, <1>2, PushCliFields
<1>4. cpu' = [cpu EXCEPT ![c] = r]
  BY Zenon DEF TimerTick
<1> HIDE DEF s
<1>5. /\ r \in CpuRec /\ r.proc = cpu[c].proc /\ r.ncli = 1
      /\ r.fl = Off /\ r.intena = Off /\ r.intr = "wake"
  BY <1>3, IntrFields, Zenon
<1> HIDE DEF r
<1>6. cpu'[c] = r /\ Local(c)
  BY <1>1, <1>4, NoneAssumption, Zenon DEF Local
<1>7. left' \in [Procs -> 0 .. MaxSleep]
  <2>1. \A p \in Procs : left[p] \in 0 .. MaxSleep
    BY Zenon DEF IInv, TypeOK
  <2> QED
    BY <2>1, SizeAssumption DEF TimerTick
<1>8. TypeOK'
  <2>1. cpu' \in [CPUs -> CpuRec]
    BY <1>1, <1>5, <1>4, <1>7, Zenon
  <2> QED
    BY <2>1, <1>1, <1>5, <1>4, <1>7, Zenon DEF IInv, TypeOK, TimerTick, tableVars
<1>9. CpuInv(c)'
  BY <1>1, <1>2, <1>5, <1>6 DEF CpuInv, Locks
<1>10. pc' = pc /\ rpc' = rpc /\ saved' = saved /\ np' = np /\ state' = state
  BY Zenon DEF TimerTick, tableVars
<1>11. ASSUME NEW q \in Procs PROVE RunInv(c, q)'
  <2>1. RunInv(c, q)
    BY Zenon DEF IInv, RunsInv
  <2> QED
    BY <1>1, <1>2, <1>5, <1>6, <1>10, <2>1, Zenon DEF RunInv
<1> QED
  BY <1>5, <1>6, <1>8, <1>9, <1>10, <1>11, QuietKeeps, Zenon DEF StateMove, SameThread

\* trap(): CPU 0 wakes the sleepers on ticks and releases tickslock.
LEMMA TimerWakeKeeps ==
    ASSUME IInv, NEW c \in CPUs, TimerWake(c)
    PROVE  IInv'
<1> DEFINE s == PopCli(PushCli(cpu[c]))
           u == PopCli(s)
           r == [u EXCEPT !.intr = "decide"]
<1>1. /\ cpu[c] \in CpuRec /\ CpuInv(c) /\ cpu[c].intr = "wake"
      /\ cpu \in [CPUs -> CpuRec] /\ spc' = spc /\ ptable' = ptable
      /\ ptable = None /\ tickslock' = None
  BY CpuContext, Zenon DEF TimerWake, IInv, TypeOK
<1>2. tickslock = c /\ ptable # c /\ cpu[c].fl = Off /\ cpu[c].ncli = 1 /\ cpu[c].intena = Off
  BY <1>1, NoneAssumption DEF CpuInv, Locks
<1>3. /\ s \in CpuRec /\ s.proc = cpu[c].proc /\ s.ncli = 1
      /\ s.fl = Off /\ s.intena = Off
  BY <1>1, <1>2, SectionFields, Zenon
<1>4. cpu' = [cpu EXCEPT ![c] = r]
  BY Zenon DEF TimerWake
<1> HIDE DEF s, r
<1>5. /\ r \in CpuRec /\ r.proc = cpu[c].proc /\ r.ncli = 0
      /\ r.fl = Off /\ r.intr = "decide"
  <2>1. u \in CpuRec /\ u.proc = cpu[c].proc /\ u.ncli = 0 /\ u.fl = Off
    BY <1>3, PopCliFields DEF On, Off
  <2> HIDE DEF u
  <2> QED
    BY <2>1, IntrFields, Zenon DEF r
<1>6. cpu'[c] = r /\ Local(c)
  BY <1>1, <1>2, <1>4, NoneAssumption, Zenon DEF Local
<1>7. state' \in [Procs -> States] /\ \A q \in Procs : StateMove(q)
  BY Zenon DEF IInv, TypeOK, TimerWake, wakeup1, States, StateMove
<1>8. TypeOK'
  <2>1. cpu' \in [CPUs -> CpuRec]
    BY <1>1, <1>4, <1>5, <1>7, Zenon
  <2> QED
    BY <2>1, <1>1, <1>4, <1>5, <1>7, Zenon DEF IInv, TypeOK, TimerWake, threadVars
<1>9. CpuInv(c)'
  BY <1>1, <1>2, <1>5, <1>6, NoneAssumption DEF CpuInv, Locks
<1>10. pc' = pc /\ rpc' = rpc /\ saved' = saved /\ np' = np
  BY Zenon DEF TimerWake, threadVars
<1>11. ASSUME NEW q \in Procs PROVE RunInv(c, q)'
  <2>1. RunInv(c, q)
    BY Zenon DEF IInv, RunsInv
  <2> QED
    BY <1>1, <1>2, <1>5, <1>6, <1>10, <2>1, NoneAssumption, Zenon DEF RunInv
<1> QED
  BY <1>5, <1>6, <1>7, <1>8, <1>9, <1>10, <1>11, QuietKeeps, Zenon DEF SameThread

\* trap(): an interrupt that came while the CPU was in scheduler() returns.
LEMMA TimerIdleKeeps ==
    ASSUME IInv, NEW c \in CPUs, TimerIdle(c)
    PROVE  IInv'
<1> DEFINE r == [cpu[c] EXCEPT !.fl = On, !.intr = "none"]
<1>1. /\ cpu[c] \in CpuRec /\ CpuInv(c) /\ cpu[c].intr = "decide" /\ cpu[c].proc = None
      /\ cpu \in [CPUs -> CpuRec]
      /\ spc' = spc /\ ptable' = ptable /\ tickslock' = tickslock
  BY CpuContext, Zenon DEF TimerIdle, IInv, TypeOK
<1>2. ptable # c /\ tickslock # c
  BY <1>1, Zenon DEF CpuInv
<1>3. /\ r \in CpuRec /\ r.proc = None /\ r.ncli = cpu[c].ncli
      /\ r.fl = On /\ r.intr = "none"
  BY <1>1, Zenon DEF CpuRec
<1>4. cpu' = [cpu EXCEPT ![c] = r]
  BY Zenon DEF TimerIdle
<1> HIDE DEF r
<1>5. cpu'[c] = r /\ Local(c)
  BY <1>1, <1>4, Zenon DEF Local
<1>6. TypeOK'
  <2>1. cpu' \in [CPUs -> CpuRec]
    BY <1>1, <1>3, <1>4, Zenon
  <2> QED
    BY <2>1, <1>1, <1>3, <1>4, Zenon DEF IInv, TypeOK, TimerIdle, tableVars, threadVars
<1>7. CpuInv(c)'
  BY <1>1, <1>2, <1>3, <1>5 DEF CpuInv, Locks
<1>8. \A q \in Procs : RunInv(c, q)'
  BY <1>3, <1>5, NoneAssumption, Zenon DEF RunInv
<1>9. np' = np /\ \A q \in Procs : StateMove(q) /\ SameThread(q)
  BY Zenon DEF TimerIdle, tableVars, threadVars, StateMove, SameThread
<1> QED
  BY <1>1, <1>3, <1>5, <1>6, <1>7, <1>8, <1>9, QuietKeeps, Zenon

\* trap(): a killed process goes to exit() from the interrupt.
LEMMA TimerExitKeeps ==
    ASSUME IInv, NEW c \in CPUs, NEW p \in Procs, TimerExit(c, p)
    PROVE  IInv'
<1> DEFINE r == [cpu[c] EXCEPT !.intr = "none"]
<1>1. /\ cpu[c] \in CpuRec /\ CpuInv(c) /\ cpu[c].proc = p /\ cpu[c].intr = "decide"
      /\ cpu \in [CPUs -> CpuRec] /\ pc \in [Procs -> PCs] /\ np' = np
      /\ spc' = spc /\ ptable' = ptable /\ tickslock' = tickslock
  BY RunContext, Zenon DEF TimerExit, IInv, TypeOK
<1>2. ptable # c /\ tickslock # c /\ cpu[c].ncli = 0
  BY <1>1 DEF CpuInv, Locks
<1>3. /\ r \in CpuRec /\ r.proc = p /\ r.ncli = 0 /\ r.intr = "none"
  BY <1>1, <1>2, IntrFields, Zenon
<1>4. cpu' = [cpu EXCEPT ![c] = r] /\ pc' = [pc EXCEPT ![p] = "exit"]
  BY Zenon DEF TimerExit, Goto
<1> HIDE DEF r
<1>5. cpu'[c] = r /\ pc'[p] = "exit" /\ Local(c)
  BY <1>1, <1>4, Zenon DEF Local
<1>6. pc' \in [Procs -> PCs] /\ "exit" \in PlainPCs
  BY <1>1, <1>4, Zenon DEF PCs, KernelPCs, PlainPCs
<1>7. TypeOK'
  <2>1. cpu' \in [CPUs -> CpuRec]
    BY <1>1, <1>3, <1>4, <1>6, Zenon
  <2> QED
    BY <2>1, <1>1, <1>3, <1>4, <1>6, Zenon DEF IInv, TypeOK, TimerExit, tableVars
<1>8. state' = state /\ \A q \in Procs \ {p} : StateMove(q) /\ SameThread(q)
  BY <1>1, <1>4, Zenon DEF TimerExit, tableVars, StateMove, SameThread
<1> QED
  BY <1>1, <1>2, <1>3, <1>5, <1>6, <1>7, <1>8, PlainKeeps, Zenon

\* yield(): the preempted process becomes RUNNABLE and calls sched().
LEMMA TimerYieldKeeps ==
    ASSUME IInv, NEW c \in CPUs, NEW p \in Procs, TimerYield(c, p)
    PROVE  IInv'
<1> DEFINE r == [PushCli(cpu[c]) EXCEPT !.proc = None, !.intr = "none"]
<1>1. /\ cpu[c] \in CpuRec /\ CpuInv(c) /\ RunInv(c, p) /\ pc[p] \in PCs
      /\ cpu[c].proc = p /\ cpu[c].intr = "decide"
      /\ cpu \in [CPUs -> CpuRec] /\ spc \in [CPUs -> {"sti", "loop", "scan", "swtched"}]
      /\ pc \in [Procs -> PCs]
      /\ ptable = None /\ ptable' = c /\ tickslock' = tickslock /\ np' = np
  BY RunContext, Zenon DEF TimerYield, sched, IInv, TypeOK
<1>2. tickslock # c /\ cpu[c].ncli = 0
  BY <1>1, NoneAssumption DEF CpuInv, Locks
<1>3. /\ PushCli(cpu[c]) \in CpuRec /\ r \in CpuRec /\ r.proc = None
      /\ r.ncli = 1 /\ r.fl = Off /\ r.intr = "none"
  <2> DEFINE s == PushCli(cpu[c])
  <2>1. s \in CpuRec /\ s.ncli = 1 /\ s.fl = Off
    BY <1>1, <1>2, PushCliFields
  <2> HIDE DEF s
  <2>2. LET q == [s EXCEPT !.proc = None, !.intr = "none"] IN
        q \in CpuRec /\ q.proc = None /\ q.ncli = 1 /\ q.fl = Off /\ q.intr = "none"
    BY <2>1, SchedFields, Zenon
  <2> QED
    BY <2>1, <2>2, Zenon DEF s
<1>4. /\ cpu' = [cpu EXCEPT ![c] = r] /\ spc' = [spc EXCEPT ![c] = "scan"]
      /\ saved' = [saved EXCEPT ![p] = PushCli(cpu[c]).intena]
      /\ pc' = [pc EXCEPT ![p] = "yielded"] /\ rpc' = [rpc EXCEPT ![p] = pc[p]]
      /\ state' = [state EXCEPT ![p] = "RUNNABLE"] /\ idx' = idx
  BY Zenon DEF TimerYield, sched, Goto
<1> HIDE DEF r
<1>5. cpu'[c] = r /\ spc'[c] = "scan" /\ pc'[p] = "yielded" /\ Local(c)
  BY <1>1, <1>4, NoneAssumption, Zenon DEF Local
<1>6. pc[p] \in (KernelPCs \ {"tosleep"}) \cup {"user"}
  BY <1>1, Zenon DEF RunInv, PCs, ResumePCs, KernelPCs
<1>7. /\ pc' \in [Procs -> PCs] /\ state' \in [Procs -> States]
      /\ rpc' \in [Procs -> (KernelPCs \ {"tosleep"}) \cup {"user"}]
  BY <1>4, <1>6, Zenon DEF IInv, TypeOK, PCs, ResumePCs, States
<1>8. saved' \in [Procs -> {On, Off}]
  BY <1>3, <1>4, Zenon DEF IInv, TypeOK, CpuRec
<1>9. TypeOK'
  <2>1. cpu' \in [CPUs -> CpuRec]
    BY <1>1, <1>3, <1>4, <1>7, <1>8, Zenon
  <2> QED
    BY <2>1, <1>1, <1>3, <1>4, <1>7, <1>8, Zenon DEF IInv, TypeOK, TimerYield
<1>10. state'[p] = "RUNNABLE" /\ rpc'[p] = pc[p]
  BY <1>4, Zenon DEF IInv, TypeOK
<1>11. BasePC(p)' = BasePC(p)
  BY <1>5, <1>6, <1>10, Zenon DEF BasePC, KernelPCs
<1>12. \A q \in Procs \ {p} : StateMove(q) /\ SameThread(q)
  BY <1>4, Zenon DEF IInv, TypeOK, StateMove, SameThread
<1> QED
  BY <1>1, <1>2, <1>3, <1>5, <1>9, <1>10, <1>11, <1>12, LeaveKeeps, Zenon DEF ResumePCs

\* yield(): rescheduled, it releases ptable.lock.
LEMMA YieldReturnKeeps ==
    ASSUME IInv, NEW c \in CPUs, NEW p \in Procs, YieldReturn(c, p)
    PROVE  IInv'
<1> DEFINE s == PopCli(Back(c, p))
           dies == rpc[p] = "user" /\ killed[p]
           r == IF dies THEN s ELSE [s EXCEPT !.fl = On]
           l == IF dies THEN "exit" ELSE rpc[p]
<1>1. /\ cpu[c] \in CpuRec /\ CpuInv(c) /\ RunInv(c, p) /\ SlotInv(p)
      /\ cpu[c].proc = p /\ cpu[c].intr = "none" /\ pc[p] = "yielded"
      /\ cpu \in [CPUs -> CpuRec] /\ pc \in [Procs -> PCs]
      /\ rpc[p] \in (KernelPCs \ {"tosleep"}) \cup {"user"}
      /\ ptable' = None /\ tickslock' = tickslock /\ np' = np /\ spc' = spc
  BY RunContext, Zenon DEF YieldReturn, At, IInv, TypeOK
<1>2. ptable = c /\ tickslock # c /\ cpu[c].ncli = 1
  BY <1>1 DEF CpuInv, RunInv, Locks, ResumePCs
<1>3. Back(c, p) \in CpuRec /\ Back(c, p).ncli = 1 /\ Back(c, p).proc = p /\ Back(c, p).intr = "none"
  BY <1>1, <1>2, BackFields, Zenon DEF IInv
<1>4. s \in CpuRec /\ s.proc = p /\ s.ncli = 0 /\ s.intr = "none"
  BY <1>3, PopCliFields
<1>5. /\ cpu' = [cpu EXCEPT ![c] = r] /\ pc' = [pc EXCEPT ![p] = l]
      /\ saved' = [saved EXCEPT ![p] = Off] /\ rpc' = [rpc EXCEPT ![p] = "user"]
  BY Zenon DEF YieldReturn, Goto
<1>6. l \in PlainPCs /\ l \in PCs /\ l # "panic" /\ (l \in {"copy", "ready"} => BasePC(p) = l)
  BY <1>1, Zenon DEF PlainPCs, PCs, KernelPCs, BasePC
<1> HIDE DEF s
<1>7. r \in CpuRec /\ r.proc = p /\ r.ncli = 0 /\ r.intr = "none" /\ (r.fl = On \/ l = "exit")
  BY <1>4, Zenon DEF CpuRec
<1> HIDE DEF r, l
<1>8. cpu'[c] = r /\ pc'[p] = l /\ Local(c)
  BY <1>1, <1>2, <1>5, NoneAssumption, Zenon DEF Local
<1>9. /\ pc' \in [Procs -> PCs] /\ saved' \in [Procs -> {On, Off}]
      /\ rpc' \in [Procs -> (KernelPCs \ {"tosleep"}) \cup {"user"}]
  BY <1>5, <1>6, Zenon DEF IInv, TypeOK
<1>10. TypeOK'
  <2>1. cpu' \in [CPUs -> CpuRec]
    BY <1>1, <1>5, <1>7, <1>9, Zenon
  <2> QED
    BY <2>1, <1>1, <1>5, <1>7, <1>9, Zenon DEF IInv, TypeOK, YieldReturn, tableVars
<1>11. state' = state /\ \A q \in Procs \ {p} : StateMove(q) /\ SameThread(q)
  BY <1>5 DEF YieldReturn, tableVars, IInv, TypeOK, StateMove, SameThread
<1> QED
  BY <1>1, <1>2, <1>6, <1>7, <1>8, <1>10, <1>11, NoneAssumption, PlainKeeps, Zenon

-----------------------------------------------------------------------------
(* Traps, kill(), forkret(), fork()                                        *)

\* A thread outside sched(), at a place where it holds no lock.
LEMMA AtContext ==
    ASSUME IInv, NEW c \in CPUs, NEW p \in Procs, NEW l \in PlainPCs, At(c, p, l)
    PROVE  /\ cpu[c].proc = p /\ cpu[c].intr = "none" /\ pc[p] = l
           /\ cpu[c] \in CpuRec /\ CpuInv(c) /\ RunInv(c, p) /\ SlotInv(p)
           /\ ptable # c /\ tickslock # c /\ cpu[c].ncli = 0
           /\ state[p] = "RUNNING" /\ BasePC(p) = l
           /\ cpu[c].fl = On \/ l \in {"trapret", "exit", "panic"}
           /\ \A d \in CPUs \ {c} : cpu[d].proc # p
           /\ \A q \in Procs : np[q] # p
<1>1. cpu[c].proc = p /\ cpu[c].intr = "none" /\ pc[p] = l
  BY Zenon DEF At
<1>2. l \notin ResumePCs \cup {"tosleep", "dead"}
  BY Zenon DEF PlainPCs, KernelPCs, ResumePCs
<1>3. /\ cpu[c] \in CpuRec /\ CpuInv(c) /\ RunInv(c, p) /\ SlotInv(p) /\ state[p] = "RUNNING"
      /\ \A d \in CPUs \ {c} : cpu[d].proc # p
      /\ \A q \in Procs : np[q] # p
  BY <1>1, RunContext
<1>4. ptable # c /\ tickslock # c /\ (cpu[c].fl = On \/ l \in {"trapret", "exit", "panic"})
  BY <1>1, <1>2, <1>3, Zenon DEF RunInv
<1>5. cpu[c].ncli = 0
  BY <1>3, <1>4 DEF CpuInv, Locks
<1>6. BasePC(p) = l
  BY <1>1, <1>2, Zenon DEF BasePC, ResumePCs
<1> QED
  BY <1>1, <1>3, <1>4, <1>5, <1>6, Zenon

\* A step that only moves the thread of p from one such place to another.
LEMMA MoveKeeps ==
    ASSUME IInv, NEW c \in CPUs, NEW p \in Procs, NEW l \in PlainPCs, At(c, p, l),
           cpu[c].fl = On, NEW m \in PlainPCs, m \notin {"copy", "ready", "panic"},
           pc' = [pc EXCEPT ![p] = m], UNCHANGED <<tableVars, rpc, np, left, saved, cpuVars>>
    PROVE  IInv'
<1>1. pc \in [Procs -> PCs] /\ cpuVars' = cpuVars /\ np' = np
  BY Zenon DEF IInv, TypeOK
<1>2. pc' \in [Procs -> PCs] /\ pc'[p] = m
  BY <1>1, Zenon DEF PlainPCs, PCs
<1>3. TypeOK'
  BY <1>2, Zenon DEF IInv, TypeOK, tableVars, cpuVars
<1>4. Local(c) /\ spc' = spc /\ cpu' = cpu /\ ptable' = ptable /\ tickslock' = tickslock
  BY Zenon DEF Local, cpuVars
<1>5. state' = state /\ \A q \in Procs \ {p} : StateMove(q) /\ SameThread(q)
  BY <1>1, Zenon DEF tableVars, StateMove, SameThread
<1> QED
  BY <1>1, <1>2, <1>3, <1>4, <1>5, AtContext, PlainKeeps

\* trap(): a system call begins.
LEMMA SysEnterKeeps ==
    ASSUME IInv, NEW c \in CPUs, NEW p \in Procs, NEW call \in Calls, SysEnter(c, p, call)
    PROVE  IInv'
<1>1. "user" \in PlainPCs /\ At(c, p, "user")
  BY Zenon DEF PlainPCs, SysEnter
<1>2. cpu[c].fl = On
  BY <1>1, AtContext
<1>3. PICK m \in {call, "exit"} : pc' = [pc EXCEPT ![p] = m]
  BY Zenon DEF SysEnter, Goto
<1>4. m \in PlainPCs \ {"copy", "ready", "panic"}
  BY Zenon DEF Calls, PlainPCs, KernelPCs
<1>5. UNCHANGED <<tableVars, rpc, np, left, saved, cpuVars>>
  BY Zenon DEF SysEnter
<1> QED
  BY <1>1, <1>2, <1>3, <1>4, <1>5, MoveKeeps, Zenon

\* trap(): a system call is over.
LEMMA SysRetKeeps ==
    ASSUME IInv, NEW c \in CPUs, NEW p \in Procs, SysRet(c, p)
    PROVE  IInv'
<1>1. "sysret" \in PlainPCs /\ At(c, p, "sysret")
  BY Zenon DEF PlainPCs, KernelPCs, SysRet
<1>2. cpu[c].fl = On
  BY <1>1, AtContext
<1>3. PICK m \in {"user", "exit"} : pc' = [pc EXCEPT ![p] = m]
  BY Zenon DEF SysRet, Goto
<1>4. m \in PlainPCs \ {"copy", "ready", "panic"}
  BY Zenon DEF PlainPCs, KernelPCs
<1>5. UNCHANGED <<tableVars, rpc, np, left, saved, cpuVars>>
  BY Zenon DEF SysRet
<1> QED
  BY <1>1, <1>2, <1>3, <1>4, <1>5, MoveKeeps, Zenon

\* A step of p, on the CPU record r afterwards, from one such place to another;
\* the table changes by what p may do to other slots.
LEMMA CpuStepKeeps ==
    ASSUME IInv, TypeOK', NEW c \in CPUs, NEW p \in Procs, NEW l \in PlainPCs, At(c, p, l),
           NEW r \in CpuRec, r.proc = p, r.ncli = 0, r.intr = "none",
           cpu' = [cpu EXCEPT ![c] = r],
           NEW m \in PlainPCs, m \notin {"copy", "ready"}, pc' = [pc EXCEPT ![p] = m],
           r.fl = On \/ m \in {"exit", "panic"}, m = "panic" => r.fl = Off,
           state'[p] = state[p], \A q \in Procs \ {p} : StateMove(q),
           UNCHANGED <<rpc, np, saved, spc, ptable, tickslock>>
    PROVE  IInv'
<1>1. pc \in [Procs -> PCs] /\ cpu \in [CPUs -> CpuRec]
  BY Zenon DEF IInv, TypeOK
<1>2. pc'[p] = m /\ cpu'[c] = r /\ Local(c)
  BY <1>1, Zenon DEF Local
<1>3. \A q \in Procs \ {p} : StateMove(q) /\ SameThread(q)
  BY <1>1, Zenon DEF SameThread
<1> QED
  BY <1>2, <1>3, AtContext, PlainKeeps

\* trap(): a fault in user code marks the process killed.
LEMMA FaultKeeps ==
    ASSUME IInv, NEW c \in CPUs, NEW p \in Procs, Fault(c, p)
    PROVE  IInv'
<1> DEFINE r == [cpu[c] EXCEPT !.fl = Off]
<1>1. "user" \in PlainPCs /\ "exit" \in PlainPCs /\ "exit" \in PCs /\ At(c, p, "user")
  BY Zenon DEF PlainPCs, KernelPCs, PCs, Fault
<1>2. cpu[c] \in CpuRec /\ cpu[c].proc = p /\ cpu[c].ncli = 0 /\ cpu[c].intr = "none"
  BY <1>1, AtContext
<1>3. cpu' = [cpu EXCEPT ![c] = r] /\ pc' = [pc EXCEPT ![p] = "exit"]
  BY Zenon DEF Fault, Goto
<1>4. r \in CpuRec /\ r.proc = p /\ r.ncli = 0 /\ r.intr = "none" /\ r.fl = Off
  BY <1>2, Zenon DEF CpuRec
<1> HIDE DEF r
<1>5. cpu' \in [CPUs -> CpuRec] /\ pc' \in [Procs -> PCs] /\ killed' \in [Procs -> BOOLEAN]
  BY <1>1, <1>3, <1>4, SMTT(30) DEF IInv, TypeOK, Fault
<1>6. TypeOK'
  BY <1>5, Zenon DEF IInv, TypeOK, Fault
<1>7. state' = state /\ UNCHANGED <<rpc, np, saved, spc, ptable, tickslock>>
  BY Zenon DEF Fault
<1> QED
  BY <1>1, <1>3, <1>4, <1>6, <1>7, CpuStepKeeps, Zenon DEF StateMove

\* exit() by init panics ("init exiting").
LEMMA ExitPanicKeeps ==
    ASSUME IInv, NEW c \in CPUs, NEW p \in Procs, ExitPanic(c, p)
    PROVE  IInv'
<1> DEFINE r == [cpu[c] EXCEPT !.fl = Off]
<1>1. "exit" \in PlainPCs /\ "panic" \in PlainPCs /\ "panic" \in PCs /\ At(c, p, "exit")
  BY Zenon DEF PlainPCs, KernelPCs, PCs, ExitPanic
<1>2. cpu[c] \in CpuRec /\ cpu[c].proc = p /\ cpu[c].ncli = 0 /\ cpu[c].intr = "none"
  BY <1>1, AtContext, Zenon
<1>3. cpu' = [cpu EXCEPT ![c] = r] /\ pc' = [pc EXCEPT ![p] = "panic"]
  BY Zenon DEF ExitPanic, Goto
<1>4. r \in CpuRec /\ r.proc = p /\ r.ncli = 0 /\ r.intr = "none" /\ r.fl = Off
  BY <1>2, Zenon DEF CpuRec
<1> HIDE DEF r
<1>5. cpu' \in [CPUs -> CpuRec] /\ pc' \in [Procs -> PCs]
  BY <1>1, <1>3, <1>4, Zenon DEF IInv, TypeOK
<1>6. TypeOK'
  BY <1>5, Zenon DEF IInv, TypeOK, ExitPanic, tableVars
<1>7. state' = state /\ UNCHANGED <<rpc, np, saved, spc, ptable, tickslock>>
  BY Zenon DEF ExitPanic, tableVars
<1> QED
  BY <1>1, <1>3, <1>4, <1>6, <1>7, CpuStepKeeps, Zenon DEF StateMove

\* trap(): the last check of killed before the return to user code.
LEMMA TrapRetKeeps ==
    ASSUME IInv, NEW c \in CPUs, NEW p \in Procs, TrapRet(c, p)
    PROVE  IInv'
<1> DEFINE r == [cpu[c] EXCEPT !.fl = On]
<1>1. "trapret" \in PlainPCs /\ "user" \in PlainPCs /\ "user" \in PCs /\ At(c, p, "trapret")
  BY Zenon DEF PlainPCs, KernelPCs, PCs, TrapRet
<1>2. cpu[c] \in CpuRec /\ cpu[c].proc = p /\ cpu[c].ncli = 0 /\ cpu[c].intr = "none"
  BY <1>1, AtContext, Zenon
<1>3. cpu' = [cpu EXCEPT ![c] = r] /\ pc' = [pc EXCEPT ![p] = "user"]
  BY Zenon DEF TrapRet, Goto
<1>4. r \in CpuRec /\ r.proc = p /\ r.ncli = 0 /\ r.intr = "none" /\ r.fl = On
  BY <1>2, Zenon DEF CpuRec
<1> HIDE DEF r
<1>5. cpu' \in [CPUs -> CpuRec] /\ pc' \in [Procs -> PCs]
  BY <1>1, <1>3, <1>4, Zenon DEF IInv, TypeOK
<1>6. TypeOK'
  BY <1>5, Zenon DEF IInv, TypeOK, TrapRet, tableVars
<1>7. state' = state /\ UNCHANGED <<rpc, np, saved, spc, ptable, tickslock>>
  BY Zenon DEF TrapRet, tableVars
<1> QED
  BY <1>1, <1>3, <1>4, <1>6, <1>7, CpuStepKeeps, Zenon DEF StateMove

\* acquire() and release() in one step leave the CPU as AtContext found it.
LEMMA SectionKeeps ==
    ASSUME IInv, NEW c \in CPUs, NEW p \in Procs, cpu[c].proc = p, cpu[c].intr = "none",
           cpu[c].ncli = 0, cpu[c].fl = On, Section(c)
    PROVE  \E r \in CpuRec : /\ cpu' = [cpu EXCEPT ![c] = r]
                             /\ r.proc = p /\ r.ncli = 0 /\ r.intr = "none" /\ r.fl = On
<1> DEFINE r == PopCli(PushCli(cpu[c]))
<1>1. cpu[c] \in CpuRec
  BY CpuContext, Zenon
<1>2. r \in CpuRec /\ r.proc = p /\ r.ncli = 0 /\ r.intr = "none" /\ r.fl = On
  BY <1>1, SectionFields
<1>3. cpu' = [cpu EXCEPT ![c] = r]
  BY Zenon DEF Section
<1> HIDE DEF r
<1> QED
  BY <1>2, <1>3, Zenon

\* kill() marks its victim, and wakes it when it sleeps.
LEMMA KillKeeps ==
    ASSUME IInv, NEW c \in CPUs, NEW p \in Procs, NEW k, Kill(c, p, k)
    PROVE  IInv'
<1>1. "kill" \in PlainPCs /\ "sysret" \in PlainPCs /\ "sysret" \in PCs /\ At(c, p, "kill")
  BY Zenon DEF PlainPCs, KernelPCs, PCs, Kill
<1>2. /\ cpu[c].proc = p /\ cpu[c].ncli = 0 /\ cpu[c].intr = "none" /\ cpu[c].fl = On
      /\ state[p] = "RUNNING"
  BY <1>1, AtContext
<1>3. PICK r \in CpuRec : /\ cpu' = [cpu EXCEPT ![c] = r]
                          /\ r.proc = p /\ r.ncli = 0 /\ r.intr = "none" /\ r.fl = On
  BY <1>2, SectionKeeps DEF Kill
<1>4. pc' = [pc EXCEPT ![p] = "sysret"]
  BY Zenon DEF Kill, Goto
<1>5. /\ killed' \in [Procs -> BOOLEAN] /\ state' \in [Procs -> States]
      /\ \A q \in Procs : StateMove(q)
  <2>1. killed \in [Procs -> BOOLEAN] /\ state \in [Procs -> States]
    BY Zenon DEF IInv, TypeOK
  <2>2. CASE {q \in Procs : pid[q] = k} = {}
    BY <2>1, <2>2, Zenon DEF Kill, StateMove
  <2>3. CASE {q \in Procs : pid[q] = k} # {}
    <3>1. First({q \in Procs : pid[q] = k}) \in Procs
      BY <2>3, FirstSlot, Zenon
    <3>2. PICK q \in Procs :
            /\ killed' = [killed EXCEPT ![q] = TRUE]
            /\ state' = [state EXCEPT ![q] = IF @ = "SLEEPING" THEN "RUNNABLE" ELSE @]
      BY <2>3, <3>1, Zenon DEF Kill
    <3>3. killed' \in [Procs -> BOOLEAN]
      BY <2>1, <3>2, Zenon
    <3>4. state' \in [Procs -> States] /\ \A x \in Procs : StateMove(x)
      BY <2>1, <3>2, Zenon DEF StateMove, States
    <3> QED
      BY <3>3, <3>4, Zenon
  <2> QED
    BY <2>2, <2>3, Zenon
<1>6. cpu' \in [CPUs -> CpuRec] /\ pc' \in [Procs -> PCs]
  BY <1>1, <1>3, <1>4, Zenon DEF IInv, TypeOK
<1>7. TypeOK'
  BY <1>5, <1>6, Zenon DEF IInv, TypeOK, Kill
<1>8. state'[p] = state[p] /\ UNCHANGED <<rpc, np, saved, spc, ptable, tickslock>>
  BY <1>2, <1>5, Zenon DEF Kill, StateMove
<1> QED
  BY <1>1, <1>3, <1>4, <1>5, <1>7, <1>8, CpuStepKeeps, Zenon

\* forkret() releases the ptable.lock that scheduler() acquired.
LEMMA ForkRetKeeps ==
    ASSUME IInv, NEW c \in CPUs, NEW p \in Procs, ForkRet(c, p)
    PROVE  IInv'
<1> DEFINE r == PopCli(cpu[c])
<1>1. /\ cpu[c] \in CpuRec /\ CpuInv(c) /\ RunInv(c, p)
      /\ cpu[c].proc = p /\ cpu[c].intr = "none" /\ pc[p] = "forkret"
      /\ cpu \in [CPUs -> CpuRec] /\ pc \in [Procs -> PCs]
      /\ ptable' = None /\ tickslock' = tickslock /\ np' = np /\ spc' = spc
  BY RunContext, Zenon DEF ForkRet, At, IInv, TypeOK
<1>2. ptable = c /\ tickslock # c /\ cpu[c].ncli = 1
  BY <1>1 DEF CpuInv, RunInv, Locks, ResumePCs
<1>3. r \in CpuRec /\ r.proc = p /\ r.ncli = 0 /\ r.intr = "none"
  BY <1>1, <1>2, PopCliFields
<1>4. cpu' = [cpu EXCEPT ![c] = r] /\ pc' = [pc EXCEPT ![p] = "trapret"]
  BY Zenon DEF ForkRet, Goto
<1> HIDE DEF r
<1>5. cpu'[c] = r /\ pc'[p] = "trapret" /\ Local(c)
  BY <1>1, <1>2, <1>4, NoneAssumption, Zenon DEF Local
<1>6. /\ cpu' \in [CPUs -> CpuRec] /\ pc' \in [Procs -> PCs] /\ "trapret" \in PlainPCs
  BY <1>1, <1>3, <1>4, Zenon DEF PCs, KernelPCs, PlainPCs
<1>7. TypeOK'
  BY <1>1, <1>6, Zenon DEF IInv, TypeOK, ForkRet, tableVars
<1>8. state' = state /\ \A q \in Procs \ {p} : StateMove(q) /\ SameThread(q)
  BY <1>1, <1>4, Zenon DEF ForkRet, tableVars, StateMove, SameThread
<1> QED
  BY <1>1, <1>2, <1>3, <1>5, <1>6, <1>7, <1>8, NoneAssumption, PlainKeeps, Zenon

\* What the CPUs see of a step of fork() in p that fills or gives back slot q.
LEMMA ForkCpus ==
    ASSUME IInv, NEW c \in CPUs, NEW p \in Procs, cpu[c].proc = p, Local(c),
           ptable # c, tickslock # c, UNCHANGED <<spc, ptable, tickslock>>,
           cpu'[c].proc = p, cpu'[c].ncli = 0, cpu'[c].intr = "none", cpu'[c].fl = On,
           NEW q \in Procs \ {p}, state[q] \in {"UNUSED", "EMBRYO"},
           state'[q] \in {"UNUSED", "EMBRYO", "RUNNABLE"},
           \A x \in Procs \ {q} : state'[x] = state[x],
           pc'[p] \in PlainPCs \ {"panic"}, \A x \in Procs \ {p, q} : pc'[x] = pc[x]
    PROVE  CpusInv' /\ RunsInv' /\ RunsOnOneCpu'
<1>1. CpuInv(c) /\ \A d \in CPUs \ {c} : cpu[d].proc # p
  BY RunContext
<1>2. \A d \in CPUs : cpu[d].proc # q
  BY Zenon DEF IInv, RunsOnOneCpu
<1>3. CpuInv(c)'
  BY <1>1 DEF CpuInv, Locks
<1>4. pc'[p] \notin ResumePCs \cup {"tosleep", "dead", "panic"}
  BY Zenon DEF PlainPCs, KernelPCs, ResumePCs
<1>5. \A x \in Procs : RunInv(c, x)'
  BY <1>4, Zenon DEF RunInv
<1>6. \A d \in CPUs \ {c}, x \in Procs : cpu[d].proc = x => pc'[x] = pc[x]
  BY <1>1, <1>2, Zenon
<1>7. CpusInv' /\ RunsInv'
  BY <1>3, <1>5, <1>6, CpuFrame, Zenon
<1>8. \A d \in CPUs : cpu'[d].proc = cpu[d].proc
  BY Zenon DEF Local
<1>9. \A x \in Procs : state'[x] = "RUNNING" <=> state[x] = "RUNNING"
  OBVIOUS
<1> QED
  BY <1>7, <1>8, <1>9, PlaceFrame, Zenon DEF IInv

\* fork(): allocproc() claims an UNUSED slot.
LEMMA ForkAllocKeeps ==
    ASSUME IInv, NEW c \in CPUs, NEW p \in Procs, ForkAlloc(c, p)
    PROVE  IInv'
<1>1. /\ {"fork", "sysret", "copy"} \subseteq PlainPCs /\ {"sysret", "copy"} \subseteq PCs
      /\ At(c, p, "fork")
  BY Zenon DEF PlainPCs, KernelPCs, PCs, ForkAlloc
<1>2. /\ cpu[c].proc = p /\ cpu[c].ncli = 0 /\ cpu[c].intr = "none" /\ cpu[c].fl = On
      /\ ptable # c /\ tickslock # c
      /\ state[p] = "RUNNING" /\ SlotInv(p) /\ \A x \in Procs : np[x] # p
  BY <1>1, AtContext
<1>3. PICK r \in CpuRec : /\ cpu' = [cpu EXCEPT ![c] = r]
                          /\ r.proc = p /\ r.ncli = 0 /\ r.intr = "none" /\ r.fl = On
  BY <1>2, SectionKeeps, ZenonT(40) DEF ForkAlloc
<1>4. cpu' \in [CPUs -> CpuRec] /\ cpu'[c] = r
      /\ \A d \in CPUs \ {c} : cpu'[d] = cpu[d]
  BY <1>3, Zenon DEF IInv, TypeOK
<1>5. CASE Unused = {}
  <2>1. /\ pc' = [pc EXCEPT ![p] = "sysret"] /\ UNCHANGED <<state, pid, nextpid, np>>
        /\ UNCHANGED <<rpc, saved, spc, ptable, tickslock>>
    BY <1>5, Zenon DEF ForkAlloc, Goto
  <2>2. pc' \in [Procs -> PCs]
    BY <1>1, <2>1, Zenon DEF IInv, TypeOK
  <2>3. TypeOK'
    BY <1>4, <2>1, <2>2, SMTT(30) DEF IInv, TypeOK, ForkAlloc
  <2> QED
    BY <1>1, <1>3, <2>1, <2>3, CpuStepKeeps, Zenon DEF StateMove
<1>6. CASE Unused # {}
  <2>1. First(Unused) \in Procs /\ state[First(Unused)] = "UNUSED"
    <3>1. First(Unused) \in Unused
      BY <1>6, FirstSlot, Zenon DEF Unused
    <3> QED
      BY <3>1, Zenon DEF Unused
  <2>2. PICK q \in Procs : /\ state[q] = "UNUSED"
                           /\ state' = [state EXCEPT ![q] = "EMBRYO"]
                           /\ pid' = [pid EXCEPT ![q] = nextpid]
                           /\ np' = [np EXCEPT ![p] = q]
    BY <1>6, <2>1, Zenon DEF ForkAlloc
  <2>3. /\ pc' = [pc EXCEPT ![p] = "copy"] /\ nextpid' = nextpid + 1
        /\ UNCHANGED <<rpc, saved, spc, ptable, tickslock>>
    BY <1>6, Zenon DEF ForkAlloc, Goto
  <2>4. /\ pc' \in [Procs -> PCs] /\ state' \in [Procs -> States] /\ pid' \in [Procs -> Nat]
        /\ np' \in [Procs -> Procs \cup {None}] /\ nextpid' \in Nat
    BY <1>1, <2>2, <2>3, SMTT(30) DEF IInv, TypeOK, States
  <2>5. TypeOK'
    BY <1>4, <2>3, <2>4, Zenon DEF IInv, TypeOK, ForkAlloc
  <2>6. /\ q # p /\ pc'[p] = "copy" /\ np'[p] = q /\ state'[q] = "EMBRYO"
        /\ \A x \in Procs \ {p} : pc'[x] = pc[x] /\ np'[x] = np[x]
        /\ \A x \in Procs \ {q} : state'[x] = state[x]
    BY <1>2, <2>2, <2>3, Zenon DEF IInv, TypeOK
  <2>7. CpusInv' /\ RunsInv' /\ RunsOnOneCpu'
    <3>1. Local(c)
      BY <1>4, <2>3, Zenon DEF Local
    <3> QED
      BY <1>1, <1>2, <1>3, <1>4, <2>2, <2>3, <2>6, <3>1, ForkCpus, SMTT(30)
  <2>8. \A x \in Procs : np[x] # q
    BY <2>2, NoneAssumption, Zenon DEF IInv, SlotsInv, SlotInv
  <2>9. ForksInv'
    BY <2>6, <2>8 DEF IInv, ForksInv
  <2>10. ASSUME NEW x \in Procs PROVE SlotInv(x)'
    <3>1. CASE x = p
      BY <1>2, <2>6, <3>1, NoneAssumption, Zenon DEF SlotInv, BasePC
    <3>2. CASE x # p
      <4>1. SlotInv(x) /\ BasePC(x)' = BasePC(x) /\ saved'[x] = saved[x]
        BY <2>3, <2>6, <3>2 DEF IInv, SlotsInv, BasePC
      <4>2. np[x] # None => /\ np[x] \in Procs \ {p, q}
                            /\ state'[np[x]] = state[np[x]] /\ pc'[np[x]] = pc[np[x]]
        BY <1>2, <2>6, <2>8, SMTT(30) DEF IInv, TypeOK
      <4> QED
        BY <2>6, <3>2, <4>1, <4>2, Zenon DEF SlotInv
    <3> QED
      BY <3>1, <3>2, Zenon
  <2> QED
    BY <2>5, <2>7, <2>9, <2>10, Zenon DEF IInv, SlotsInv
<1> QED
  BY <1>5, <1>6, Zenon

\* What fork() knows of the child it fills, from copyuvm() on.
LEMMA ChildContext ==
    ASSUME IInv, NEW c \in CPUs, NEW p \in Procs, NEW l \in {"copy", "ready"}, At(c, p, l)
    PROVE  /\ np[p] \in Procs \ {p} /\ state[np[p]] = "EMBRYO"
           /\ l = "ready" => pc[np[p]] = "forkret"
           /\ \A x \in Procs \ {p} : np[x] # np[p]
           /\ cpu[c] \in CpuRec /\ cpu[c].proc = p /\ cpu[c].ncli = 0
           /\ cpu[c].intr = "none" /\ cpu[c].fl = On /\ ptable # c /\ tickslock # c
           /\ state[p] = "RUNNING" /\ pc[p] = l /\ \A x \in Procs : np[x] # p
<1>1. l \in PlainPCs
  BY Zenon DEF PlainPCs, KernelPCs
<1>2. /\ cpu[c] \in CpuRec /\ cpu[c].proc = p /\ cpu[c].ncli = 0
      /\ cpu[c].intr = "none" /\ cpu[c].fl = On /\ SlotInv(p) /\ BasePC(p) = l
      /\ ptable # c /\ tickslock # c
      /\ state[p] = "RUNNING" /\ pc[p] = l /\ \A x \in Procs : np[x] # p
  BY <1>1, AtContext, Zenon
<1>3. np[p] \in Procs \ {p}
  BY <1>2, ZenonT(40) DEF SlotInv, IInv, TypeOK
<1> QED
  BY <1>2, <1>3, NoneAssumption, Zenon DEF SlotInv, IInv, ForksInv

\* fork(): copyuvm() fails and the slot is given back.
LEMMA ForkFailKeeps ==
    ASSUME IInv, NEW c \in CPUs, NEW p \in Procs, ForkFail(c, p)
    PROVE  IInv'
<1>1. {"copy", "sysret"} \subseteq PlainPCs /\ "sysret" \in PCs /\ At(c, p, "copy")
  BY Zenon DEF PlainPCs, KernelPCs, PCs, ForkFail
<1>2. PICK q \in Procs \ {p} : np[p] = q
  BY <1>1, ChildContext, Zenon
<1>3. /\ state[q] = "EMBRYO" /\ \A x \in Procs \ {p} : np[x] # q
      /\ cpu[c] \in CpuRec /\ cpu[c].proc = p /\ cpu[c].ncli = 0
      /\ cpu[c].intr = "none" /\ cpu[c].fl = On
      /\ ptable # c /\ tickslock # c
      /\ state[p] = "RUNNING" /\ \A x \in Procs : np[x] # p
  BY <1>1, <1>2, ChildContext
<1>4. /\ state' = [state EXCEPT ![q] = "UNUSED"] /\ np' = [np EXCEPT ![p] = None]
      /\ pc' = [pc EXCEPT ![p] = "sysret"] /\ cpu' = cpu
      /\ UNCHANGED <<rpc, saved, spc, ptable, tickslock>>
  BY <1>2, Zenon DEF ForkFail, Goto, cpuVars
<1>5. /\ pc' \in [Procs -> PCs] /\ state' \in [Procs -> States]
      /\ np' \in [Procs -> Procs \cup {None}]
  BY <1>1, <1>4, Zenon DEF IInv, TypeOK, States
<1>6. TypeOK'
  BY <1>5, Zenon DEF IInv, TypeOK, ForkFail, cpuVars
<1>7. /\ pc'[p] = "sysret" /\ np'[p] = None /\ state'[q] = "UNUSED"
      /\ \A x \in Procs \ {p} : pc'[x] = pc[x] /\ np'[x] = np[x]
      /\ \A x \in Procs \ {q} : state'[x] = state[x]
  BY <1>4, Zenon DEF IInv, TypeOK
<1>8. CpusInv' /\ RunsInv' /\ RunsOnOneCpu'
  <2>1. Local(c)
    BY <1>4, Zenon DEF Local
  <2> QED
    BY <1>1, <1>3, <1>4, <1>7, <2>1, ForkCpus, SMTT(30)
<1>9. ForksInv'
  BY <1>7 DEF IInv, ForksInv
<1>10. ASSUME NEW x \in Procs PROVE SlotInv(x)'
  <2>1. CASE x = p
    BY <1>3, <1>7, <2>1, Zenon DEF SlotInv, BasePC
  <2>2. CASE x # p
    <3>1. SlotInv(x) /\ BasePC(x)' = BasePC(x) /\ saved'[x] = saved[x]
      BY <1>4, <1>7, <2>2, Zenon DEF IInv, SlotsInv, BasePC
    <3>2. np[x] # None => /\ np[x] \in Procs \ {p, q}
                          /\ state'[np[x]] = state[np[x]] /\ pc'[np[x]] = pc[np[x]]
      BY <1>3, <1>7, <2>2, ZenonT(40) DEF IInv, TypeOK
    <3> QED
      BY <1>7, <2>2, <3>1, <3>2, Zenon DEF SlotInv
  <2> QED
    BY <2>1, <2>2, Zenon
<1> QED
  BY <1>6, <1>8, <1>9, <1>10, Zenon DEF IInv, SlotsInv

\* fork(): the child is filled in while it is EMBRYO.
LEMMA ForkCopyKeeps ==
    ASSUME IInv, NEW c \in CPUs, NEW p \in Procs, ForkCopy(c, p)
    PROVE  IInv'
<1>1. /\ {"copy", "ready"} \subseteq PlainPCs /\ {"ready", "forkret"} \subseteq PCs
      /\ At(c, p, "copy")
  BY Zenon DEF PlainPCs, KernelPCs, ResumePCs, PCs, ForkCopy
<1>2. PICK q \in Procs \ {p} : np[p] = q
  BY <1>1, ChildContext, Zenon
<1>3. /\ state[q] = "EMBRYO" /\ \A x \in Procs \ {p} : np[x] # q
      /\ cpu[c] \in CpuRec /\ cpu[c].proc = p /\ cpu[c].ncli = 0
      /\ cpu[c].intr = "none" /\ cpu[c].fl = On
      /\ ptable # c /\ tickslock # c
      /\ state[p] = "RUNNING" /\ \A x \in Procs : np[x] # p
  BY <1>1, <1>2, ChildContext
<1>4. /\ parent' = [parent EXCEPT ![q] = p] /\ cpu' = cpu
      /\ pc' = [pc EXCEPT ![p] = "ready", ![q] = "forkret"]
      /\ UNCHANGED <<state, rpc, np, saved, spc, ptable, tickslock>>
  BY <1>2, Zenon DEF ForkCopy, cpuVars
<1>5. /\ pc' \in [Procs -> PCs] /\ parent' \in [Procs -> Procs \cup {None}]
  BY <1>1, <1>4, Zenon DEF IInv, TypeOK
<1>6. TypeOK'
  BY <1>5, Zenon DEF IInv, TypeOK, ForkCopy, cpuVars
<1>7. /\ pc'[p] = "ready" /\ pc'[q] = "forkret"
      /\ \A x \in Procs \ {p, q} : pc'[x] = pc[x]
  BY <1>4, Zenon DEF IInv, TypeOK
<1>8. CpusInv' /\ RunsInv' /\ RunsOnOneCpu'
  <2>1. Local(c)
    BY <1>4, Zenon DEF Local
  <2>2. /\ state[q] \in {"UNUSED", "EMBRYO"} /\ state'[q] \in {"UNUSED", "EMBRYO", "RUNNABLE"}
        /\ \A x \in Procs \ {q} : state'[x] = state[x]
    BY <1>3, <1>4, Zenon
  <2>3. /\ cpu'[c].proc = p /\ cpu'[c].ncli = 0 /\ cpu'[c].intr = "none" /\ cpu'[c].fl = On
        /\ UNCHANGED <<spc, ptable, tickslock>>
    BY <1>3, <1>4, Zenon
  <2>4. pc'[p] \in PlainPCs \ {"panic"}
    BY <1>1, <1>7, Zenon
  <2> QED
    BY <1>3, <1>7, <2>1, <2>2, <2>3, <2>4, ForkCpus, Zenon
<1>9. ForksInv'
  BY <1>4, Zenon DEF IInv, ForksInv
<1>10. ASSUME NEW x \in Procs PROVE SlotInv(x)'
  <2>1. SlotInv(x) /\ state'[x] = state[x] /\ saved'[x] = saved[x] /\ np'[x] = np[x]
    BY <1>4, Zenon DEF IInv, SlotsInv
  <2>2. CASE x = p
    BY <1>2, <1>3, <1>4, <1>7, <2>1, <2>2, NoneAssumption, SMTT(30) DEF SlotInv, BasePC
  <2>3. CASE x = q
    BY <1>3, <1>4, <1>7, <2>1, <2>3, Zenon DEF SlotInv, BasePC
  <2>4. CASE x \notin {p, q}
    <3>1. BasePC(x)' = BasePC(x) /\ pc'[x] = pc[x]
      BY <1>4, <1>7, <2>4, Zenon DEF BasePC
    <3>2. np[x] # None => /\ np[x] \in Procs \ {p, q}
                          /\ state'[np[x]] = state[np[x]] /\ pc'[np[x]] = pc[np[x]]
      BY <1>3, <1>4, <1>7, <2>4, SMTT(30) DEF IInv, TypeOK
    <3> QED
      BY <2>1, <3>1, <3>2, Zenon DEF SlotInv
  <2> QED
    BY <2>2, <2>3, <2>4, Zenon
<1> QED
  BY <1>6, <1>8, <1>9, <1>10, Zenon DEF IInv, SlotsInv

\* fork(): the child becomes RUNNABLE.
LEMMA ForkReadyKeeps ==
    ASSUME IInv, NEW c \in CPUs, NEW p \in Procs, ForkReady(c, p)
    PROVE  IInv'
<1>1. {"ready", "sysret"} \subseteq PlainPCs /\ "sysret" \in PCs /\ At(c, p, "ready")
  BY Zenon DEF PlainPCs, KernelPCs, PCs, ForkReady
<1>2. PICK q \in Procs \ {p} : np[p] = q
  BY <1>1, ChildContext, Zenon
<1>3. /\ state[q] = "EMBRYO" /\ pc[q] = "forkret" /\ \A x \in Procs \ {p} : np[x] # q
      /\ cpu[c].proc = p /\ cpu[c].ncli = 0 /\ cpu[c].intr = "none" /\ cpu[c].fl = On
      /\ ptable # c /\ tickslock # c
      /\ state[p] = "RUNNING" /\ \A x \in Procs : np[x] # p
  BY <1>1, <1>2, ChildContext
<1>4. PICK r \in CpuRec : /\ cpu' = [cpu EXCEPT ![c] = r]
                          /\ r.proc = p /\ r.ncli = 0 /\ r.intr = "none" /\ r.fl = On
  BY <1>3, SectionKeeps DEF ForkReady
<1>5. /\ state' = [state EXCEPT ![q] = "RUNNABLE"] /\ np' = [np EXCEPT ![p] = None]
      /\ pc' = [pc EXCEPT ![p] = "sysret"]
      /\ UNCHANGED <<rpc, saved, spc, ptable, tickslock>>
  BY <1>2, Zenon DEF ForkReady, Goto
<1>6. /\ pc' \in [Procs -> PCs] /\ state' \in [Procs -> States]
      /\ np' \in [Procs -> Procs \cup {None}] /\ cpu' \in [CPUs -> CpuRec]
  BY <1>1, <1>4, <1>5, Zenon DEF IInv, TypeOK, States
<1>7. TypeOK'
  BY <1>6, Zenon DEF IInv, TypeOK, ForkReady
<1>8. /\ pc'[p] = "sysret" /\ np'[p] = None /\ state'[q] = "RUNNABLE"
      /\ \A x \in Procs \ {p} : pc'[x] = pc[x] /\ np'[x] = np[x]
      /\ \A x \in Procs \ {q} : state'[x] = state[x]
  BY <1>5, Zenon DEF IInv, TypeOK
<1>9. CpusInv' /\ RunsInv' /\ RunsOnOneCpu'
  <2>1. cpu'[c] = r /\ Local(c)
    BY <1>4, <1>5, Zenon DEF IInv, TypeOK, Local
  <2> QED
    BY <1>1, <1>3, <1>4, <1>5, <1>8, <2>1, ForkCpus, SMTT(30)
<1>10. ForksInv'
  BY <1>8, ZenonT(40) DEF IInv, ForksInv
<1>11. ASSUME NEW x \in Procs PROVE SlotInv(x)'
  <2>1. CASE x = p
    BY <1>3, <1>8, <2>1, Zenon DEF SlotInv, BasePC
  <2>2. CASE x # p
    <3>1. SlotInv(x) /\ BasePC(x)' = BasePC(x) /\ saved'[x] = saved[x]
      BY <1>5, <1>8, <2>2, Zenon DEF IInv, SlotsInv, BasePC
    <3>2. np[x] # None => /\ np[x] \in Procs \ {p, q}
                          /\ state'[np[x]] = state[np[x]] /\ pc'[np[x]] = pc[np[x]]
      BY <1>3, <1>8, <2>2, ZenonT(40) DEF IInv, TypeOK
    <3>3. x = q => BasePC(x) = "forkret" /\ pc[x] \in ResumePCs
      BY <1>3, Zenon DEF BasePC, ResumePCs
    <3> QED
      BY <1>8, <2>2, <3>1, <3>2, <3>3, Zenon DEF SlotInv
  <2> QED
    BY <2>1, <2>2, Zenon
<1> QED
  BY <1>7, <1>9, <1>10, <1>11, Zenon DEF IInv, SlotsInv
=============================================================================
