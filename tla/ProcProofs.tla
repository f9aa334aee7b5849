----------------------------- MODULE ProcProofs -----------------------------
(***************************************************************************)
(* exit(), wait() and sleep() preserve the invariant IInv; hence, for any  *)
(* number of CPUs and slots, the scheduler runs a process on one CPU at a  *)
(* time and no assertion of the spinlocks or of sched() fires.             *)
(*                                                                         *)
(* From IInv and KinInv, the invariant of parents, children and sleepers,  *)
(* no wakeup() is lost between a test and the sleep() that follows it, and *)
(* a process's parent is alive or it has been given to initproc.           *)
(***************************************************************************)
EXTENDS ProcStepProofs

-----------------------------------------------------------------------------
(* exit(), wait() and sleep()                                              *)

\* wakeup1() moves sleepers to RUNNABLE and nobody else.
LEMMA WakeupMoves ==
    ASSUME NEW st \in [Procs -> States], NEW ch
    PROVE  /\ wakeup1(st, ch) \in [Procs -> States]
           /\ \A q \in Procs : \/ wakeup1(st, ch)[q] = st[q]
                               \/ st[q] = "SLEEPING" /\ wakeup1(st, ch)[q] = "RUNNABLE"
BY Zenon DEF wakeup1, States

\* exit(): wake, reparent, become ZOMBIE and call sched().
LEMMA ExitKeeps ==
    ASSUME IInv, NEW c \in CPUs, NEW p \in Procs, Exit(c, p)
    PROVE  IInv'
<1> DEFINE s == PushCli(cpu[c])
           r == [s EXCEPT !.proc = None, !.intr = "none"]
<1>1. "exit" \in PlainPCs /\ "dead" \in PCs /\ At(c, p, "exit")
  BY Zenon DEF PlainPCs, KernelPCs, PCs, Exit
<1>2. /\ cpu[c] \in CpuRec /\ cpu[c].proc = p /\ cpu[c].ncli = 0 /\ tickslock # c
      /\ state[p] = "RUNNING" /\ ptable = None /\ ptable' = c
      /\ tickslock' = tickslock /\ np' = np /\ rpc' = rpc /\ idx' = idx
  BY <1>1, AtContext DEF Exit, sched
<1>3. s \in CpuRec /\ s.ncli = 1 /\ s.fl = Off /\ s.intena \in {On, Off}
  BY <1>2, PushCliFields DEF CpuRec
<1>4. /\ cpu' = [cpu EXCEPT ![c] = r] /\ spc' = [spc EXCEPT ![c] = "scan"]
      /\ saved' = [saved EXCEPT ![p] = s.intena] /\ pc' = [pc EXCEPT ![p] = "dead"]
  BY Zenon DEF Exit, sched, Goto
<1> HIDE DEF s
<1>5. r \in CpuRec /\ r.proc = None /\ r.ncli = 1 /\ r.fl = Off /\ r.intr = "none"
  BY <1>3, SchedFields, Zenon
<1> HIDE DEF r
<1>6. cpu'[c] = r /\ spc'[c] = "scan" /\ pc'[p] = "dead" /\ Local(c)
  BY <1>2, <1>4, NoneAssumption, ZenonT(40) DEF IInv, TypeOK, Local
<1>7. /\ state' \in [Procs -> States] /\ state'[p] = "ZOMBIE"
      /\ \A q \in Procs \ {p} : StateMove(q)
  <2> DEFINE woken == wakeup1(state, parent[p])
             orphans == {q \in Children(p) : woken[q] = "ZOMBIE"}
             final == IF orphans = {} THEN woken ELSE wakeup1(woken, initproc)
  <2>1. /\ woken \in [Procs -> States]
        /\ \A q \in Procs : \/ woken[q] = state[q]
                            \/ state[q] = "SLEEPING" /\ woken[q] = "RUNNABLE"
    BY WakeupMoves, Zenon DEF IInv, TypeOK
  <2>2. state' = [final EXCEPT ![p] = "ZOMBIE"]
    BY Zenon DEF Exit
  <2> HIDE DEF woken, orphans
  <2>3. /\ final \in [Procs -> States]
        /\ \A q \in Procs : \/ final[q] = state[q]
                            \/ state[q] = "SLEEPING" /\ final[q] = "RUNNABLE"
    BY <2>1, WakeupMoves
  <2> HIDE DEF final
  <2> QED
    BY <2>2, <2>3, Zenon DEF StateMove, States
<1>8. parent' \in [Procs -> Procs \cup {None}]
  BY SizeAssumption, SMTT(30) DEF Exit, IInv, TypeOK, Procs, initproc
<1>9. /\ cpu' \in [CPUs -> CpuRec] /\ pc' \in [Procs -> PCs] /\ saved' \in [Procs -> {On, Off}]
      /\ spc' \in [CPUs -> {"sti", "loop", "scan", "swtched"}]
  BY <1>1, <1>3, <1>4, <1>5, Zenon DEF IInv, TypeOK
<1>10. TypeOK'
  BY <1>2, <1>7, <1>8, <1>9, ZenonT(40) DEF IInv, TypeOK, Exit
<1>11. \A q \in Procs \ {p} : SameThread(q)
  BY <1>2, <1>4, Zenon DEF IInv, TypeOK, SameThread
<1>12. BasePC(p)' = "dead"
  BY <1>6, Zenon DEF BasePC
<1> QED
  BY <1>2, <1>5, <1>6, <1>7, <1>10, <1>11, <1>12, LeaveKeeps, Zenon

-----------------------------------------------------------------------------
(* wait()                                                                  *)

\* wait(): one scan of the table, which reaps, fails or sleeps.
LEMMA WaitScanKeeps ==
    ASSUME IInv, NEW c \in CPUs, NEW p \in Procs, cpu[c].proc = p,
           ptable \in {None, c}, tickslock # c,
           NEW r \in CpuRec, r.proc = p, r.ncli = 1, r.fl = Off, r.intena = On, r.intr = "none",
           WaitScan(c, p, r)
    PROVE  IInv'
<1> DEFINE zombies == {q \in Children(p) : state[q] = "ZOMBIE"}
           blocks == zombies = {} /\ Children(p) # {} /\ ~killed[p]
<1>1. /\ state[p] = "RUNNING" /\ tickslock' = tickslock /\ np' = np /\ rpc' = rpc
  BY RunContext DEF WaitScan
<1>2. {"sysret", "waiting"} \subseteq PCs /\ "sysret" \in PlainPCs
  BY Zenon DEF PCs, KernelPCs, ResumePCs, PlainPCs
<1>3. CASE blocks
  <2> DEFINE u == [r EXCEPT !.proc = None, !.intr = "none"]
  <2>1. /\ cpu' = [cpu EXCEPT ![c] = u] /\ spc' = [spc EXCEPT ![c] = "scan"]
        /\ saved' = [saved EXCEPT ![p] = On] /\ pc' = [pc EXCEPT ![p] = "waiting"]
        /\ state' = [state EXCEPT ![p] = "SLEEPING"] /\ chan' = [chan EXCEPT ![p] = p]
        /\ ptable' = c /\ UNCHANGED <<idx, pid, parent, killed>>
    BY <1>3, Zenon DEF WaitScan, sched, Goto
  <2>2. u \in CpuRec /\ u.proc = None /\ u.ncli = 1 /\ u.fl = Off /\ u.intr = "none"
    BY SchedFields, Zenon
  <2> HIDE DEF u
  <2>3. cpu'[c] = u /\ spc'[c] = "scan" /\ Local(c)
    BY <1>1, <2>1, NoneAssumption, SMTT(30) DEF IInv, TypeOK, Local
  <2>4. /\ cpu' \in [CPUs -> CpuRec] /\ pc' \in [Procs -> PCs] /\ saved' \in [Procs -> {On, Off}]
        /\ spc' \in [CPUs -> {"sti", "loop", "scan", "swtched"}]
        /\ state' \in [Procs -> States] /\ chan' \in [Procs -> Procs \cup {Ticks, None}]
    BY <1>2, <2>1, <2>2, Zenon DEF IInv, TypeOK, States
  <2>5. TypeOK'
    BY <2>1, <2>4, Zenon DEF IInv, TypeOK, WaitScan
  <2>6. /\ pc'[p] = "waiting" /\ saved'[p] = On /\ state'[p] = "SLEEPING"
        /\ \A q \in Procs \ {p} : StateMove(q) /\ SameThread(q)
    BY <1>1, <2>1, Zenon DEF IInv, TypeOK, StateMove, SameThread
  <2>7. BasePC(p)' = "waiting" /\ "waiting" \in ResumePCs
    BY <2>6, Zenon DEF BasePC, ResumePCs
  <2> QED
    BY <1>1, <2>1, <2>2, <2>3, <2>5, <2>6, <2>7, LeaveKeeps, Zenon
<1>4. CASE ~blocks
  <2> DEFINE u == PopCli(r)
  <2>1. /\ cpu' = [cpu EXCEPT ![c] = u] /\ pc' = [pc EXCEPT ![p] = "sysret"]
        /\ saved' = [saved EXCEPT ![p] = Off] /\ chan' = [chan EXCEPT ![p] = None]
        /\ ptable' = None /\ UNCHANGED <<spc, idx>>
    BY <1>4, Zenon DEF WaitScan, Goto
  <2>2. u \in CpuRec /\ u.proc = p /\ u.ncli = 0 /\ u.fl = On /\ u.intr = "none"
    BY PopCliFields
  <2> HIDE DEF u
  <2>3. /\ state' \in [Procs -> States] /\ pid' \in [Procs -> Nat]
        /\ parent' \in [Procs -> Procs \cup {None}] /\ killed' \in [Procs -> BOOLEAN]
        /\ \A q \in Procs : StateMove(q)
    <3>1. CASE zombies = {}
      BY <1>4, <3>1, Zenon DEF WaitScan, IInv, TypeOK, StateMove
    <3>2. CASE zombies # {}
      <4>1. First(zombies) \in zombies
        BY <3>2, FirstSlot, Zenon DEF Children
      <4>2. PICK q \in Procs : /\ state[q] = "ZOMBIE"
                               /\ state' = [state EXCEPT ![q] = "UNUSED"]
                               /\ pid' = [pid EXCEPT ![q] = 0]
                               /\ parent' = [parent EXCEPT ![q] = None]
                               /\ killed' = [killed EXCEPT ![q] = FALSE]
        BY <3>2, <4>1, Zenon DEF WaitScan, Children
      <4>3. killed' \in [Procs -> BOOLEAN]
        BY <4>2, Zenon DEF IInv, TypeOK
      <4>4. /\ state' \in [Procs -> States] /\ pid' \in [Procs -> Nat]
            /\ parent' \in [Procs -> Procs \cup {None}]
            /\ \A x \in Procs : StateMove(x)
        BY <4>2, Zenon DEF IInv, TypeOK, States, StateMove
      <4> QED
        BY <4>3, <4>4, Zenon
    <3> QED
      BY <3>1, <3>2, Zenon
  <2>4. /\ cpu' \in [CPUs -> CpuRec] /\ pc' \in [Procs -> PCs] /\ saved' \in [Procs -> {On, Off}]
        /\ chan' \in [Procs -> Procs \cup {Ticks, None}]
    BY <1>2, <2>1, <2>2, Zenon DEF IInv, TypeOK
  <2>5. TypeOK'
    BY <2>1, <2>3, <2>4, Zenon DEF IInv, TypeOK, WaitScan
  <2>6. cpu'[c] = u /\ pc'[p] = "sysret" /\ Local(c)
    BY <1>1, <2>1, NoneAssumption, ZenonT(40) DEF IInv, TypeOK, Local
  <2>7. state'[p] = state[p] /\ \A q \in Procs \ {p} : StateMove(q) /\ SameThread(q)
    BY <1>1, <2>1, <2>3, ZenonT(40) DEF IInv, TypeOK, StateMove, SameThread
  <2> QED
    BY <1>1, <1>2, <2>1, <2>2, <2>5, <2>6, <2>7, NoneAssumption, PlainKeeps, Zenon
<1> QED
  BY <1>3, <1>4, Zenon

\* wait(): entered with no lock held.
LEMMA WaitKeeps ==
    ASSUME IInv, NEW c \in CPUs, NEW p \in Procs, Wait(c, p)
    PROVE  IInv'
<1> DEFINE r == PushCli(cpu[c])
<1>1. "wait" \in PlainPCs /\ At(c, p, "wait") /\ ptable = None
  BY Zenon DEF PlainPCs, KernelPCs, Wait
<1>2. /\ cpu[c] \in CpuRec /\ cpu[c].proc = p /\ cpu[c].ncli = 0
      /\ cpu[c].intr = "none" /\ cpu[c].fl = On /\ tickslock # c
  BY <1>1, AtContext
<1>3. r \in CpuRec /\ r.proc = p /\ r.ncli = 1 /\ r.fl = Off /\ r.intena = On /\ r.intr = "none"
  BY <1>2, PushCliFields
<1>4. WaitScan(c, p, r)
  BY Zenon DEF Wait
<1> HIDE DEF r
<1> QED
  BY <1>1, <1>2, <1>3, <1>4, WaitScanKeeps, Zenon

\* wait(): woken up, it scans again.
LEMMA WaitAgainKeeps ==
    ASSUME IInv, NEW c \in CPUs, NEW p \in Procs, WaitAgain(c, p)
    PROVE  IInv'
<1> DEFINE r == Back(c, p)
<1>1. cpu[c].proc = p /\ cpu[c].intr = "none" /\ pc[p] = "waiting" /\ TypeOK
  BY Zenon DEF WaitAgain, At, IInv
<1>2. CpuInv(c) /\ RunInv(c, p) /\ SlotInv(p)
  BY <1>1, RunContext, Zenon
<1>3. ptable = c /\ tickslock # c /\ cpu[c].ncli = 1 /\ cpu[c].fl = Off /\ saved[p] = On
  BY <1>1, <1>2 DEF CpuInv, RunInv, SlotInv, Locks, ResumePCs
<1>4. r \in CpuRec /\ r.proc = p /\ r.ncli = 1 /\ r.fl = Off /\ r.intena = On /\ r.intr = "none"
  BY <1>1, <1>3, BackFields, Zenon
<1>5. WaitScan(c, p, r)
  BY Zenon DEF WaitAgain
<1> HIDE DEF r
<1> QED
  BY <1>1, <1>3, <1>4, <1>5, WaitScanKeeps, Zenon

-----------------------------------------------------------------------------
(* sys_sleep()                                                             *)

\* sys_sleep(): the test of the loop, under tickslock.
LEMMA SleepTestKeeps ==
    ASSUME IInv, NEW c \in CPUs, NEW p \in Procs, cpu[c].proc = p,
           ptable # c, tickslock = None,
           NEW r \in CpuRec, r.proc = p, r.ncli = 1, r.fl = Off, r.intena = On, r.intr = "none",
           NEW n \in 0 .. MaxSleep, SleepTest(c, p, r, n)
    PROVE  IInv'
<1>1. /\ UNCHANGED <<state, rpc, np, saved, spc, ptable>>
      /\ spc[c] = "swtched" /\ SlotInv(p) /\ state[p] = "RUNNING"
      /\ \A d \in CPUs \ {c} : cpu[d].proc # p
      /\ \A q \in Procs : np[q] # p
  BY RunContext DEF SleepTest, tableVars
<1>2. {"sysret", "tosleep"} \subseteq PCs /\ "sysret" \in PlainPCs
  BY Zenon DEF PCs, KernelPCs, PlainPCs
<1>3. CASE n > 0 /\ ~killed[p]
  <2>1. /\ pc' = [pc EXCEPT ![p] = "tosleep"] /\ tickslock' = c
        /\ cpu' = [cpu EXCEPT ![c] = r] /\ left' = [left EXCEPT ![p] = n]
    BY <1>3 DEF SleepTest, Goto
  <2>2. /\ cpu' \in [CPUs -> CpuRec] /\ pc' \in [Procs -> PCs] /\ left' \in [Procs -> 0 .. MaxSleep]
    BY <1>2, <2>1, Zenon DEF IInv, TypeOK
  <2>3. TypeOK'
    BY <2>1, <2>2, Zenon DEF IInv, TypeOK, SleepTest, tableVars
  <2>4. cpu'[c] = r /\ pc'[p] = "tosleep" /\ Local(c)
    BY <1>1, <2>1, NoneAssumption, ZenonT(40) DEF IInv, TypeOK, Local
  <2>5. \A q \in Procs \ {p} : StateMove(q) /\ SameThread(q)
    BY <1>1, <2>1, Zenon DEF IInv, TypeOK, StateMove, SameThread
  <2>6. CpuInv(c)'
    BY <1>1, <2>1, <2>4, NoneAssumption DEF CpuInv, Locks
  <2>7. \A q \in Procs : RunInv(c, q)'
    BY <1>1, <2>1, <2>4 DEF RunInv, ResumePCs
  <2>8. CpusInv' /\ RunsInv'
    BY <1>1, <2>4, <2>5, <2>6, <2>7, CpuFrame, Zenon DEF SameThread
  <2>9. RunsOnOneCpu'
    <3>1. \A d \in CPUs : cpu'[d].proc = cpu[d].proc
      BY <2>4, Zenon DEF Local
    <3> QED
      BY <1>1, <3>1, PlaceFrame, Zenon DEF IInv
  <2>10. SlotInv(p)'
    <3>1. np[p] # None => np[p] \in Procs \ {p} /\ SameThread(np[p])
      BY <1>1, <2>5, Zenon DEF IInv, TypeOK
    <3> QED
      BY <1>1, <2>4, <3>1, Zenon DEF SlotInv, BasePC, SameThread
  <2>11. SlotsInv' /\ ForksInv'
    BY <1>1, <2>3, <2>5, <2>10, SlotFrame, Zenon
  <2> QED
    BY <2>3, <2>8, <2>9, <2>11, Zenon DEF IInv
<1>4. CASE n = 0 \/ killed[p]
  <2> DEFINE u == PopCli(r)
  <2>1. /\ pc' = [pc EXCEPT ![p] = "sysret"] /\ tickslock' = None
        /\ cpu' = [cpu EXCEPT ![c] = u] /\ left' = [left EXCEPT ![p] = 0]
    BY <1>4 DEF SleepTest, Goto
  <2>2. u \in CpuRec /\ u.proc = p /\ u.ncli = 0 /\ u.fl = On /\ u.intr = "none"
    BY PopCliFields
  <2> HIDE DEF u
  <2>3. /\ cpu' \in [CPUs -> CpuRec] /\ pc' \in [Procs -> PCs] /\ left' \in [Procs -> 0 .. MaxSleep]
    BY <1>2, <2>1, <2>2, SizeAssumption, SMTT(30) DEF IInv, TypeOK
  <2>4. TypeOK'
    BY <2>1, <2>3, Zenon DEF IInv, TypeOK, SleepTest, tableVars
  <2>5. cpu'[c] = u /\ pc'[p] = "sysret" /\ Local(c)
    BY <1>1, <2>1, NoneAssumption, ZenonT(40) DEF IInv, TypeOK, Local
  <2>6. \A q \in Procs \ {p} : StateMove(q) /\ SameThread(q)
    BY <1>1, <2>1, Zenon DEF IInv, TypeOK, StateMove, SameThread
  <2> QED
    BY <1>1, <1>2, <2>1, <2>2, <2>4, <2>5, <2>6, NoneAssumption, PlainKeeps, Zenon
<1> QED
  BY <1>3, <1>4, Zenon DEF SleepTest

\* sys_sleep(): entered with no lock held.
LEMMA SleepKeeps ==
    ASSUME IInv, NEW c \in CPUs, NEW p \in Procs, NEW n \in 0 .. MaxSleep,
           SysSleep(c, p, n) \/ SleepRetake(c, p)
    PROVE  IInv'
<1> DEFINE r == PushCli(cpu[c])
<1>1. PICK l \in {"sleep", "retake"}, m \in 0 .. MaxSleep :
          At(c, p, l) /\ tickslock = None /\ SleepTest(c, p, r, m)
  <2>1. left[p] \in 0 .. MaxSleep
    BY DEF IInv, TypeOK
  <2> QED
    BY <2>1, Zenon DEF SysSleep, SleepRetake
<1>2. l \in PlainPCs /\ l \notin {"trapret", "exit", "panic"}
  BY Zenon DEF PlainPCs, KernelPCs
<1>3. /\ cpu[c] \in CpuRec /\ cpu[c].proc = p /\ cpu[c].ncli = 0
      /\ cpu[c].intr = "none" /\ cpu[c].fl = On /\ ptable # c
  BY <1>1, <1>2, AtContext, Zenon
<1>4. r \in CpuRec /\ r.proc = p /\ r.ncli = 1 /\ r.fl = Off /\ r.intena = On /\ r.intr = "none"
  BY <1>3, PushCliFields
<1> HIDE DEF r
<1> QED
  BY <1>1, <1>3, <1>4, SleepTestKeeps, Zenon

\* sleep(): tickslock is exchanged for ptable.lock and sched() is called.
LEMMA SleepBlockKeeps ==
    ASSUME IInv, NEW c \in CPUs, NEW p \in Procs, SleepBlock(c, p)
    PROVE  IInv'
<1> DEFINE s == PopCli(PushCli(cpu[c]))
           r == [s EXCEPT !.proc = None, !.intr = "none"]
<1>1. /\ cpu[c].proc = p /\ cpu[c].intr = "none" /\ pc[p] = "tosleep" /\ ptable = None
      /\ ptable' = c /\ tickslock' = None /\ np' = np /\ rpc' = rpc /\ idx' = idx
  BY Zenon DEF SleepBlock, sched, At
<1>2. cpu[c] \in CpuRec /\ CpuInv(c) /\ RunInv(c, p)
  BY <1>1, RunContext, Zenon
<1>3. tickslock = c /\ cpu[c].ncli = 1 /\ cpu[c].fl = Off /\ cpu[c].intena = On
  BY <1>1, <1>2, NoneAssumption DEF CpuInv, RunInv, Locks
<1>4. s \in CpuRec /\ s.ncli = 1 /\ s.fl = Off /\ s.intena = On
  BY <1>2, <1>3, SectionFields
<1>5. /\ cpu' = [cpu EXCEPT ![c] = r] /\ spc' = [spc EXCEPT ![c] = "scan"]
      /\ saved' = [saved EXCEPT ![p] = s.intena] /\ pc' = [pc EXCEPT ![p] = "slept"]
      /\ state' = [state EXCEPT ![p] = "SLEEPING"] /\ chan' = [chan EXCEPT ![p] = Ticks]
  BY Zenon DEF SleepBlock, sched, Goto
<1> HIDE DEF s
<1>6. r \in CpuRec /\ r.proc = None /\ r.ncli = 1 /\ r.fl = Off /\ r.intr = "none"
  BY <1>4, SchedFields, Zenon
<1> HIDE DEF r
<1>7. cpu'[c] = r /\ spc'[c] = "scan" /\ Local(c)
  BY <1>1, <1>3, <1>5, NoneAssumption, ZenonT(40) DEF IInv, TypeOK, Local
<1>8. "slept" \in ResumePCs /\ "slept" \in PCs
  BY Zenon DEF ResumePCs, PCs
<1>9. /\ cpu' \in [CPUs -> CpuRec] /\ pc' \in [Procs -> PCs] /\ saved' \in [Procs -> {On, Off}]
      /\ spc' \in [CPUs -> {"sti", "loop", "scan", "swtched"}]
      /\ state' \in [Procs -> States] /\ chan' \in [Procs -> Procs \cup {Ticks, None}]
  BY <1>4, <1>5, <1>6, <1>8, Zenon DEF IInv, TypeOK, States
<1>10. TypeOK'
  BY <1>1, <1>9, Zenon DEF IInv, TypeOK, SleepBlock
<1>11. /\ pc'[p] = "slept" /\ saved'[p] = On /\ state'[p] = "SLEEPING"
       /\ \A q \in Procs \ {p} : StateMove(q) /\ SameThread(q)
  BY <1>1, <1>4, <1>5, ZenonT(40) DEF IInv, TypeOK, StateMove, SameThread
<1>12. BasePC(p)' = "slept"
  BY <1>11, Zenon DEF BasePC
<1> QED
  BY <1>1, <1>6, <1>7, <1>8, <1>10, <1>11, <1>12, NoneAssumption, LeaveKeeps, Zenon

\* sleep(): woken up, ptable.lock is exchanged for tickslock.
LEMMA SleepReturnKeeps ==
    ASSUME IInv, NEW c \in CPUs, NEW p \in Procs, SleepReturn(c, p)
    PROVE  IInv'
<1> DEFINE s == Back(c, p)
           r == PopCli(s)
<1>1. /\ cpu[c].proc = p /\ cpu[c].intr = "none" /\ pc[p] = "slept" /\ TypeOK
      /\ ptable' = None /\ UNCHANGED <<state, rpc, np, spc, tickslock>>
  BY Zenon DEF SleepReturn, At, IInv
<1>2. CpuInv(c) /\ RunInv(c, p) /\ SlotInv(p)
  BY <1>1, RunContext, Zenon
<1>3. ptable = c /\ tickslock # c /\ cpu[c].ncli = 1 /\ saved[p] = On
  BY <1>1, <1>2 DEF CpuInv, RunInv, SlotInv, Locks, ResumePCs
<1>4. s \in CpuRec /\ s.proc = p /\ s.ncli = 1 /\ s.intena = On /\ s.intr = "none"
  BY <1>1, <1>3, BackFields, Zenon
<1>5. /\ cpu' = [cpu EXCEPT ![c] = r] /\ pc' = [pc EXCEPT ![p] = "retake"]
      /\ saved' = [saved EXCEPT ![p] = Off] /\ chan' = [chan EXCEPT ![p] = None]
  BY Zenon DEF SleepReturn, Goto
<1> HIDE DEF s
<1>6. r \in CpuRec /\ r.proc = p /\ r.ncli = 0 /\ r.fl = On /\ r.intr = "none"
  BY <1>4, PopCliFields
<1> HIDE DEF r
<1>7. "retake" \in PlainPCs /\ "retake" \in PCs
  BY Zenon DEF PlainPCs, KernelPCs, PCs
<1>8. cpu'[c] = r /\ pc'[p] = "retake" /\ Local(c)
  BY <1>1, <1>3, <1>5, NoneAssumption, Zenon DEF TypeOK, Local
<1>9. /\ cpu' \in [CPUs -> CpuRec] /\ pc' \in [Procs -> PCs] /\ saved' \in [Procs -> {On, Off}]
      /\ chan' \in [Procs -> Procs \cup {Ticks, None}]
  BY <1>1, <1>5, <1>6, <1>7, Zenon DEF TypeOK
<1>10. TypeOK'
  BY <1>1, <1>9, Zenon DEF TypeOK, SleepReturn
<1>11. \A q \in Procs \ {p} : StateMove(q) /\ SameThread(q)
  BY <1>1, <1>5 DEF TypeOK, StateMove, SameThread
<1> QED
  BY <1>1, <1>3, <1>6, <1>7, <1>8, <1>10, <1>11, NoneAssumption, PlainKeeps, Zenon

-----------------------------------------------------------------------------
(* The theorems                                                            *)

\* The invariant holds when userinit() is done and the CPUs enter scheduler().
LEMMA InitIInv == Init => IInv
<1> SUFFICES ASSUME Init PROVE IInv
  OBVIOUS
<1>1. \A c \in CPUs : /\ cpu[c] \in CpuRec /\ cpu[c].proc = None /\ cpu[c].ncli = 0
                      /\ cpu[c].fl = Off /\ cpu[c].intr = "none"
  BY Zenon DEF Init, CpuRec
<1>2. cpu \in [CPUs -> CpuRec]
  BY <1>1, Zenon DEF Init
<1>3. killed \in [Procs -> BOOLEAN]
  BY Zenon DEF Init
<1>4. TypeOK
  BY <1>2, <1>3, SizeAssumption DEF Init, TypeOK, PCs, ResumePCs, States
<1>5. RunsOnOneCpu
  BY <1>1, NoneAssumption, Zenon DEF Init, RunsOnOneCpu
<1>6. CpusInv
  BY <1>1, NoneAssumption DEF Init, CpusInv, CpuInv, Locks
<1>7. RunsInv
  BY <1>1, NoneAssumption, Zenon DEF RunsInv, RunInv
<1>8. SlotsInv /\ ForksInv
  BY Zenon DEF Init, SlotsInv, SlotInv, ForksInv, BasePC, ResumePCs
<1> QED
  BY <1>4, <1>5, <1>6, <1>7, <1>8, Zenon DEF IInv

\* Every step of a CPU preserves the invariant.
LEMMA StepKeeps == IInv /\ [Next]_vars => IInv'
<1> SUFFICES ASSUME IInv, [Next]_vars PROVE IInv'
  OBVIOUS
<1>1. CASE UNCHANGED vars
  <2>1. TypeOK' /\ RunsOnOneCpu'
    BY <1>1, Zenon DEF IInv, TypeOK, RunsOnOneCpu, vars
  <2>2. CpusInv' /\ RunsInv'
    BY <1>1, SMTT(30) DEF IInv, CpusInv, CpuInv, Locks, RunsInv, RunInv, vars
  <2>3. SlotsInv' /\ ForksInv'
    BY <1>1, Zenon DEF IInv, SlotsInv, SlotInv, BasePC, ForksInv, vars
  <2> QED
    BY <2>1, <2>2, <2>3, Zenon DEF IInv
<1>2. ASSUME NEW c \in CPUs, SchedStep(c) PROVE IInv'
  BY <1>2, SchedStiKeeps, SchedAcquireKeeps, SchedPickKeeps, SchedReleaseKeeps, Zenon DEF SchedStep
<1>3. ASSUME NEW c \in CPUs, TimerEnter(c) PROVE IInv'
  BY <1>3, TimerEnterKeeps, Zenon
<1>4. ASSUME NEW c \in CPUs, TimerStep(c) PROVE IInv'
  BY <1>4, TimerTickKeeps, TimerWakeKeeps, TimerIdleKeeps, TimerExitKeeps, TimerYieldKeeps,
     YieldReturnKeeps, Zenon DEF TimerStep
<1>5. ASSUME NEW c \in CPUs, NEW p \in Procs, KernelStep(c, p) PROVE IInv'
  <2>1. ASSUME SysRet(c, p) \/ ForkRet(c, p) \/ TrapRet(c, p) PROVE IInv'
    BY <2>1, SysRetKeeps, ForkRetKeeps, TrapRetKeeps, Zenon
  <2>2. ASSUME ForkAlloc(c, p) \/ ForkFail(c, p) \/ ForkCopy(c, p) \/ ForkReady(c, p) PROVE IInv'
    BY <2>2, ForkAllocKeeps, ForkFailKeeps, ForkCopyKeeps, ForkReadyKeeps, Zenon
  <2>3. ASSUME Exit(c, p) \/ ExitPanic(c, p) \/ Wait(c, p) \/ WaitAgain(c, p) PROVE IInv'
    BY <2>3, ExitKeeps, ExitPanicKeeps, WaitKeeps, WaitAgainKeeps, Zenon
  <2>4. ASSUME NEW k \in KillPids, Kill(c, p, k) PROVE IInv'
    BY <2>4, KillKeeps, Zenon
  <2>5. ASSUME NEW n \in 0 .. MaxSleep, SysSleep(c, p, n) PROVE IInv'
    BY <2>5, SleepKeeps, Zenon
  <2>6. ASSUME SleepRetake(c, p) PROVE IInv'
    BY <2>6, SleepKeeps, SizeAssumption
  <2>7. ASSUME SleepBlock(c, p) \/ SleepReturn(c, p) PROVE IInv'
    BY <2>7, SleepBlockKeeps, SleepReturnKeeps, Zenon
  <2> QED
    BY <1>5, <2>1, <2>2, <2>3, <2>4, <2>5, <2>6, <2>7, Zenon DEF KernelStep
<1>6. ASSUME NEW c \in CPUs, NEW p \in Procs, UserStep(c, p) PROVE IInv'
  BY <1>6, SysEnterKeeps, FaultKeeps, Zenon DEF UserStep, Calls
<1> QED
  BY <1>1, <1>2, <1>3, <1>4, <1>5, <1>6, Zenon DEF Next

\* The inductive invariant: locks, flags and hand-over agree on every CPU,
\* whatever the interleaving of schedulers, timers and system calls.
THEOREM Invariance == Spec => []IInv
BY InitIInv, StepKeeps, PTL DEF Spec

\* Every variable of the process table keeps its type.
THEOREM TypeCorrect == Spec => []TypeOK
<1>1. IInv => TypeOK
  BY Zenon DEF IInv
<1> QED
  BY <1>1, Invariance, PTL

\* scheduler() (proc.c:324-358) never runs a process on two CPUs at once, and
\* a slot is RUNNING exactly while some CPU's c->proc names it.
THEOREM OneCpu == Spec => []RunsOnOneCpu
<1>1. IInv => RunsOnOneCpu
  BY Zenon DEF IInv
<1> QED
  BY <1>1, Invariance, PTL

\* No acquire() panics, no release() panics, no popcli() panics and sched()
\* finds ncli at 1: the assertions of spinlock.c and proc.c:367-384 hold.
THEOREM LocksSafe == Spec => []NoLockPanic
<1>1. ASSUME IInv, NEW c \in CPUs
      PROVE  /\ TakesPtable(c) => ptable # c
             /\ TakesTickslock(c) => tickslock # c
             /\ DropsPtable(c) => ptable = c /\ cpu[c].fl = Off /\ cpu[c].ncli = 1
             /\ DropsTickslock(c) => tickslock = c /\ cpu[c].fl = Off /\ cpu[c].ncli = 1
             /\ cpu[c].intr = "decide" => cpu[c].ncli = 0
             /\ \A p \in Procs : At(c, p, "wait") \/ At(c, p, "exit") => cpu[c].ncli = 0
  <2>1. CpuInv(c) /\ \A p \in Procs : RunInv(c, p)
    BY <1>1, Zenon DEF IInv, CpusInv, RunsInv
  <2>2. TakesPtable(c) => ptable # c
    BY <2>1, NoneAssumption, Zenon DEF TakesPtable, CpuInv, RunInv, ResumePCs
  <2>3. TakesTickslock(c) => tickslock # c
    BY <2>1, Zenon DEF TakesTickslock, At, CpuInv, RunInv
  <2>4. DropsPtable(c) => ptable = c
    BY <2>1, Zenon DEF DropsPtable, CpuInv, RunInv
  <2>5. DropsTickslock(c) => tickslock = c
    BY <2>1, Zenon DEF DropsTickslock, CpuInv, RunInv
  <2>6. /\ ptable = c => cpu[c].fl = Off /\ cpu[c].ncli = 1
        /\ tickslock = c => cpu[c].fl = Off /\ cpu[c].ncli = 1
        /\ ptable # c /\ tickslock # c => cpu[c].ncli = 0
    BY <2>1 DEF CpuInv, Locks
  <2>7. cpu[c].intr = "decide" => ptable # c /\ tickslock # c
    BY <2>1, Zenon DEF CpuInv
  <2>8. \A p \in Procs : At(c, p, "wait") \/ At(c, p, "exit") => ptable # c /\ tickslock # c
    BY <2>1, Zenon DEF At, RunInv, ResumePCs
  <2> QED
    BY <2>2, <2>3, <2>4, <2>5, <2>6, <2>7, <2>8, Zenon
<1>2. IInv => NoLockPanic
  BY <1>1, Zenon DEF NoLockPanic
<1> QED
  BY <1>2, Invariance, PTL

\* pushcli(), popcli() and sched()'s saved intena give every thread its own
\* interrupt flag back, on whichever CPU it resumes.
THEOREM InterruptsSafe == Spec => []InterruptsRestored
<1>1. IInv => InterruptsRestored
  BY DEF IInv, InterruptsRestored, CpusInv, CpuInv, RunsInv, RunInv
<1> QED
  BY <1>1, Invariance, PTL

-----------------------------------------------------------------------------
(* Parents, children and sleepers                                          *)

Live == {"RUNNING", "RUNNABLE", "SLEEPING"}

\* initproc lives for ever, nobody is its own parent, and the child that
\* fork() is about to make RUNNABLE has its parent.
FamilyInv ==
    /\ state[initproc] \in Live /\ parent[initproc] = None
    /\ \A p \in Procs : parent[p] # p
    /\ \A p \in Procs : BasePC(p) = "ready" /\ np[p] # None => parent[np[p]] = p

\* sys_sleep() goes to sleep only while ticks are left.
TicksInv == \A p \in Procs : state[p] = "RUNNING" /\ pc[p] = "tosleep" => left[p] > 0

KinInv == FamilyInv /\ ParentIsLive /\ NoLostWakeup /\ TicksInv

\* Families under a step that neither creates nor ends a process.
LEMMA FamilyFrame ==
    ASSUME KinInv, parent' = parent, np' = np,
           \A q \in Procs : state'[q] = state[q] \/ (state[q] \in Live /\ state'[q] \in Live),
           \A q \in Procs : BasePC(q)' = "ready" => BasePC(q) = "ready",
           initproc \in Procs, parent \in [Procs -> Procs \cup {None}]
    PROVE  FamilyInv' /\ ParentIsLive'
<1>1. FamilyInv'
  BY Zenon DEF KinInv, FamilyInv, Live
<1>2. ParentIsLive'
  BY Zenon DEF KinInv, ParentIsLive, Live
<1> QED
  BY <1>1, <1>2, Zenon

\* A step that wakes or runs processes, and in which none goes to sleep.
LEMMA KinFrame ==
    ASSUME IInv, KinInv, parent' = parent, np' = np,
           \A q \in Procs : \/ state'[q] = state[q]
                            \/ state[q] \in Live /\ state'[q] \in {"RUNNING", "RUNNABLE"},
           \A q \in Procs : state'[q] = "SLEEPING" => chan'[q] = chan[q] /\ left'[q] = left[q],
           \A q \in Procs : BasePC(q)' = "ready" => BasePC(q) = "ready",
           \A q \in Procs : state'[q] = "RUNNING" /\ pc'[q] = "tosleep" => left'[q] > 0,
           \A d \in CPUs : cpu[d].intr = "wake" => cpu'[d].intr = "wake"
    PROVE  KinInv'
<1>1. initproc \in Procs /\ parent \in [Procs -> Procs \cup {None}]
  BY SizeAssumption DEF IInv, TypeOK, Procs, initproc
<1>2. FamilyInv' /\ ParentIsLive'
  BY <1>1, FamilyFrame, Zenon DEF Live
<1>3. NoLostWakeup'
  BY DEF KinInv, NoLostWakeup, Children, Live
<1>4. TicksInv'
  BY Zenon DEF TicksInv
<1> QED
  BY <1>2, <1>3, <1>4, Zenon DEF KinInv

\* A step of the scheduler or the timer handler of CPU c that moves no thread.
LEMMA KinQuiet ==
    ASSUME IInv, KinInv, NEW c \in CPUs, cpu[c].intr # "wake",
           UNCHANGED <<parent, np, chan, left, pc, rpc>>,
           \A d \in CPUs \ {c} : cpu'[d] = cpu[d],
           \A q \in Procs : state'[q] = state[q] \/ (state[q] = "RUNNABLE" /\ state'[q] = "RUNNING")
    PROVE  KinInv'
<1>1. \A q \in Procs : BasePC(q)' = BasePC(q)
  BY Zenon DEF BasePC
<1>2. ASSUME NEW q \in Procs, state'[q] = "RUNNING", pc'[q] = "tosleep" PROVE left'[q] > 0
  <2>1. state[q] # "RUNNABLE"
    BY <1>2, Zenon DEF IInv, SlotsInv, SlotInv, ResumePCs
  <2> QED
    BY <1>2, <2>1, Zenon DEF KinInv, TicksInv
<1>3. \A d \in CPUs : cpu[d].intr = "wake" => cpu'[d].intr = "wake"
  OBVIOUS
<1> QED
  BY <1>1, <1>2, <1>3, KinFrame, Zenon DEF Live

\* A step of the thread of p, which runs on CPU c and goes on running or
\* becomes RUNNABLE.
LEMMA KinOwn ==
    ASSUME IInv, KinInv, NEW c \in CPUs, NEW p \in Procs, cpu[c].proc = p, cpu[c].intr # "wake",
           parent' = parent, np' = np,
           \A d \in CPUs \ {c} : cpu'[d] = cpu[d],
           \A q \in Procs \ {p} : /\ pc'[q] = pc[q] /\ rpc'[q] = rpc[q]
                                  /\ chan'[q] = chan[q] /\ left'[q] = left[q]
                                  /\ \/ state'[q] = state[q]
                                     \/ state[q] = "SLEEPING" /\ state'[q] = "RUNNABLE",
           state'[p] \in {"RUNNING", "RUNNABLE"},
           BasePC(p)' = "ready" => BasePC(p) = "ready",
           pc'[p] = "tosleep" => left'[p] > 0
    PROVE  KinInv'
<1>1. state[p] = "RUNNING"
  BY RunContext, Zenon
<1>2. \A q \in Procs : BasePC(q)' = "ready" => BasePC(q) = "ready"
  BY DEF BasePC
<1>3. \A q \in Procs : state'[q] = "RUNNING" /\ pc'[q] = "tosleep" => left'[q] > 0
  BY Zenon DEF KinInv, TicksInv
<1>4. \A q \in Procs : \/ state'[q] = state[q]
                       \/ state[q] \in Live /\ state'[q] \in {"RUNNING", "RUNNABLE"}
  BY <1>1, Zenon DEF Live
<1>5. \A q \in Procs : state'[q] = "SLEEPING" => chan'[q] = chan[q] /\ left'[q] = left[q]
  OBVIOUS
<1>6. \A d \in CPUs : cpu[d].intr = "wake" => cpu'[d].intr = "wake"
  OBVIOUS
<1> QED
  BY <1>2, <1>3, <1>4, <1>5, <1>6, KinFrame, Zenon

-----------------------------------------------------------------------------
(* Steps that leave families and sleepers in order                         *)

\* scheduler() looks for a process and runs it.
LEMMA SchedStepKin ==
    ASSUME IInv, KinInv, NEW c \in CPUs, SchedStep(c)
    PROVE  KinInv'
<1>1. /\ UNCHANGED <<parent, np, chan, left, pc, rpc>>
      /\ \A d \in CPUs \ {c} : cpu'[d] = cpu[d]
  BY Zenon DEF SchedStep, SchedSti, SchedAcquire, SchedPick, SchedRelease, tableVars, threadVars, IInv, TypeOK
<1>2. cpu[c].intr # "wake"
  <2>1. spc[c] = "scan" => cpu[c].intr = "none"
    BY CpuContext, Zenon DEF CpuInv
  <2> QED
    BY <2>1, Zenon DEF SchedStep, SchedSti, SchedAcquire, SchedPick, SchedRelease
<1>3. \A q \in Procs : state'[q] = state[q] \/ (state[q] = "RUNNABLE" /\ state'[q] = "RUNNING")
  <2>1. CASE SchedPick(c)
    <3> DEFINE p == First(RunnableFrom(idx[c]))
    <3>1. p \in RunnableFrom(idx[c]) /\ state' = [state EXCEPT ![p] = "RUNNING"]
      BY <2>1, FirstSlot, Zenon DEF SchedPick, RunnableFrom
    <3> HIDE DEF p
    <3> QED
      BY <3>1, Zenon DEF RunnableFrom, IInv, TypeOK
  <2>2. CASE state' = state
    BY <2>2, Zenon
  <2> QED
    BY <2>1, <2>2, Zenon DEF SchedStep, SchedSti, SchedAcquire, SchedRelease, tableVars
<1> QED
  BY <1>1, <1>2, <1>3, KinQuiet, Zenon

\* The timer interrupts a CPU, or returns to its scheduler.
LEMMA TimerKin ==
    ASSUME IInv, KinInv, NEW c \in CPUs, TimerEnter(c) \/ TimerIdle(c)
    PROVE  KinInv'
<1>1. /\ UNCHANGED <<state, parent, np, chan, left, pc, rpc>> /\ cpu[c].intr # "wake"
      /\ \A d \in CPUs \ {c} : cpu'[d] = cpu[d]
  BY Zenon DEF TimerEnter, TimerIdle, tableVars, threadVars, IInv, TypeOK
<1> QED
  BY <1>1, KinQuiet, Zenon

\* ticks++ under tickslock: the sleepers whose time is up are about to be woken.
LEMMA TimerTickKin ==
    ASSUME IInv, KinInv, NEW c \in CPUs, TimerTick(c)
    PROVE  KinInv'
<1>1. /\ UNCHANGED <<state, parent, np, chan, pc, rpc>> /\ tickslock = None
      /\ cpu'[c].intr = "wake"
  <2>1. cpu[c] \in CpuRec /\ PushCli(cpu[c]) \in CpuRec
    BY CpuContext, PushCliFields, Zenon
  <2>2. [PushCli(cpu[c]) EXCEPT !.intr = "wake"].intr = "wake"
    BY <2>1, IntrFields, Zenon
  <2> QED
    BY <2>2, Zenon DEF TimerTick, tableVars, IInv, TypeOK
<1>2. FamilyInv' /\ ParentIsLive'
  <2>1. initproc \in Procs /\ parent \in [Procs -> Procs \cup {None}]
    BY SizeAssumption DEF IInv, TypeOK, Procs, initproc
  <2>2. \A q \in Procs : BasePC(q)' = BasePC(q)
    BY <1>1, Zenon DEF BasePC
  <2> QED
    BY <1>1, <2>1, <2>2, FamilyFrame, Zenon
<1>3. NoLostWakeup'
  BY <1>1, Zenon DEF KinInv, NoLostWakeup, Children
<1>4. TicksInv'
  <2>1. ASSUME NEW q \in Procs, state[q] = "RUNNING", pc[q] = "tosleep" PROVE FALSE
    <3>1. PICK d \in CPUs : cpu[d].proc = q
      BY <2>1, Zenon DEF IInv, RunsOnOneCpu
    <3> QED
      BY <1>1, <2>1, <3>1, RunContext, NoneAssumption DEF RunInv
  <2> QED
    BY <1>1, <2>1, Zenon DEF TicksInv
<1> QED
  BY <1>2, <1>3, <1>4, Zenon DEF KinInv

\* wakeup(&ticks) leaves nobody asleep on &ticks.
LEMMA TimerWakeKin ==
    ASSUME IInv, KinInv, NEW c \in CPUs, TimerWake(c)
    PROVE  KinInv'
<1>1. /\ UNCHANGED <<parent, np, chan, left, pc, rpc>> /\ state' = wakeup1(state, Ticks)
  BY Zenon DEF TimerWake, threadVars
<1>2. \A q \in Procs : /\ state'[q] = state[q] \/ (state[q] = "SLEEPING" /\ state'[q] = "RUNNABLE")
                       /\ state'[q] = "SLEEPING" => chan[q] # Ticks
  BY <1>1, Zenon DEF wakeup1
<1>3. FamilyInv' /\ ParentIsLive'
  <2>1. initproc \in Procs /\ parent \in [Procs -> Procs \cup {None}]
    BY SizeAssumption DEF IInv, TypeOK, Procs, initproc
  <2>2. \A q \in Procs : BasePC(q)' = BasePC(q)
    BY <1>1, Zenon DEF BasePC
  <2> QED
    BY <1>1, <1>2, <2>1, <2>2, FamilyFrame, Zenon DEF Live
<1>4. NoLostWakeup'
  BY <1>1, <1>2 DEF KinInv, NoLostWakeup, Children
<1>5. TicksInv'
  BY <1>1, <1>2, Zenon DEF KinInv, TicksInv
<1> QED
  BY <1>3, <1>4, <1>5, Zenon DEF KinInv

\* yield() and the return from it, and exit() of a killed process.
LEMMA TimerOwnKin ==
    ASSUME IInv, KinInv, NEW c \in CPUs, NEW p \in Procs,
           TimerExit(c, p) \/ TimerYield(c, p) \/ YieldReturn(c, p)
    PROVE  KinInv'
<1>1. /\ cpu[c].proc = p /\ cpu[c].intr # "wake"
      /\ UNCHANGED <<parent, np, chan, left>>
      /\ \A d \in CPUs \ {c} : cpu'[d] = cpu[d]
  BY Zenon DEF TimerExit, TimerYield, YieldReturn, sched, At, tableVars, IInv, TypeOK
<1>2. state[p] = "RUNNING" /\ TypeOK /\ SlotInv(p)
  BY <1>1, RunContext, Zenon DEF IInv
<1>3. /\ \A q \in Procs \ {p} : pc'[q] = pc[q] /\ rpc'[q] = rpc[q] /\ state'[q] = state[q]
      /\ state'[p] \in {"RUNNING", "RUNNABLE"}
  BY <1>2, Zenon DEF TimerExit, TimerYield, YieldReturn, Goto, tableVars, TypeOK
<1>4. pc'[p] # "tosleep" /\ (BasePC(p)' = "ready" => BasePC(p) = "ready")
  <2>1. CASE TimerExit(c, p)
    BY <1>2, <2>1, Zenon DEF TimerExit, Goto, TypeOK, BasePC
  <2>2. CASE TimerYield(c, p)
    <3>1. pc'[p] = "yielded" /\ rpc'[p] = pc[p] /\ pc[p] # "yielded"
      <4>1. RunInv(c, p)
        BY <1>1, RunContext, Zenon
      <4> QED
        BY <1>1, <1>2, <2>2, <4>1, Zenon DEF TimerYield, Goto, TypeOK, RunInv, ResumePCs
    <3> QED
      BY <3>1, Zenon DEF BasePC
  <2>3. CASE YieldReturn(c, p)
    <3>1. pc[p] = "yielded" /\ pc'[p] \in {"exit", rpc[p]} /\ rpc[p] \notin {"tosleep", "yielded"}
      BY <1>2, <2>3, Zenon DEF YieldReturn, At, Goto, TypeOK, KernelPCs
    <3> QED
      BY <3>1, Zenon DEF BasePC
  <2> QED
    BY <2>1, <2>2, <2>3, Zenon
<1> QED
  BY <1>1, <1>3, <1>4, KinOwn

\* Traps, kill() and the parts of sleep() in which the caller runs on.
LEMMA PlainKin ==
    ASSUME IInv, KinInv, NEW c \in CPUs, NEW p \in Procs,
           \/ SysRet(c, p) \/ ForkRet(c, p) \/ TrapRet(c, p) \/ ExitPanic(c, p) \/ SleepReturn(c, p)
           \/ Fault(c, p) \/ \E call \in Calls : SysEnter(c, p, call)
    PROVE  KinInv'
<1>1. /\ cpu[c].proc = p /\ cpu[c].intr # "wake"
      /\ UNCHANGED <<state, parent, np, left, rpc>>
      /\ \A d \in CPUs \ {c} : cpu'[d] = cpu[d]
  BY Zenon DEF SysRet, ForkRet, TrapRet, ExitPanic, SleepReturn, Fault, SysEnter, At, tableVars, cpuVars, IInv, TypeOK
<1>2. PICK l \in Calls \cup {"user", "trapret", "panic", "retake"} : pc' = [pc EXCEPT ![p] = l]
  BY Zenon DEF SysRet, ForkRet, TrapRet, ExitPanic, SleepReturn, Fault, SysEnter, Goto, Calls
<1>3. \A q \in Procs \ {p} : pc'[q] = pc[q] /\ chan'[q] = chan[q]
  BY <1>2, Zenon DEF SysRet, ForkRet, TrapRet, ExitPanic, SleepReturn, Fault, SysEnter, tableVars, IInv, TypeOK
<1>4. pc'[p] \notin {"tosleep", "ready", "yielded"} /\ state[p] = "RUNNING"
  BY <1>1, <1>2, RunContext, Zenon DEF IInv, TypeOK, Calls
<1> QED
  BY <1>1, <1>3, <1>4, KinOwn, Zenon DEF BasePC

\* kill() wakes a sleeper, which looks again at what it waits for.
LEMMA KillKin ==
    ASSUME IInv, KinInv, NEW c \in CPUs, NEW p \in Procs, NEW k \in KillPids, Kill(c, p, k)
    PROVE  KinInv'
<1>1. /\ cpu[c].proc = p /\ cpu[c].intr # "wake"
      /\ UNCHANGED <<parent, np, left, rpc, chan>> /\ pc' = [pc EXCEPT ![p] = "sysret"]
      /\ \A d \in CPUs \ {c} : cpu'[d] = cpu[d]
  BY Zenon DEF Kill, Section, At, Goto, IInv, TypeOK
<1>2. state[p] = "RUNNING" /\ TypeOK
  BY <1>1, RunContext, Zenon DEF IInv
<1>3. \A q \in Procs : state'[q] = state[q] \/ (state[q] = "SLEEPING" /\ state'[q] = "RUNNABLE")
  <2>1. PICK v : state' = state \/ state' = [state EXCEPT ![v] = IF @ = "SLEEPING" THEN "RUNNABLE" ELSE @]
    BY Zenon DEF Kill
  <2> QED
    BY <1>2, <2>1, Zenon DEF TypeOK
<1>4. /\ \A q \in Procs \ {p} : pc'[q] = pc[q]
      /\ pc'[p] = "sysret" /\ state'[p] = "RUNNING"
  BY <1>1, <1>2, <1>3, Zenon DEF TypeOK
<1> QED
  BY <1>1, <1>3, <1>4, KinOwn DEF BasePC

\* sys_sleep() sleeps only with ticks left.
LEMMA SleepTestKin ==
    ASSUME IInv, KinInv, NEW c \in CPUs, NEW p \in Procs,
           SleepRetake(c, p) \/ \E n \in 0 .. MaxSleep : SysSleep(c, p, n)
    PROVE  KinInv'
<1>1. PICK n \in 0 .. MaxSleep :
          SleepTest(c, p, PushCli(cpu[c]), n) /\ cpu[c].proc = p /\ cpu[c].intr # "wake"
  BY Zenon DEF SleepRetake, SysSleep, At, IInv, TypeOK
<1>2. /\ UNCHANGED <<state, parent, np, rpc, chan>>
      /\ \A d \in CPUs \ {c} : cpu'[d] = cpu[d]
  BY <1>1, Zenon DEF SleepTest, tableVars, IInv, TypeOK
<1>3. state[p] = "RUNNING" /\ TypeOK
  BY <1>1, RunContext, Zenon DEF IInv
<1>4. /\ \A q \in Procs \ {p} : pc'[q] = pc[q] /\ left'[q] = left[q]
      /\ (pc'[p] = "tosleep" /\ left'[p] > 0) \/ pc'[p] = "sysret"
  BY <1>1, <1>3 DEF SleepTest, Goto, TypeOK
<1> QED
  BY <1>1, <1>2, <1>3, <1>4, KinOwn, Zenon DEF BasePC

-----------------------------------------------------------------------------
(* sleep(), fork(), exit() and wait()                                      *)

\* sleep() marks the caller SLEEPING with ticks left, under ptable.lock.
LEMMA SleepBlockKin ==
    ASSUME IInv, KinInv, NEW c \in CPUs, NEW p \in Procs, SleepBlock(c, p)
    PROVE  KinInv'
<1>1. /\ cpu[c].proc = p /\ cpu[c].intr # "wake" /\ pc[p] = "tosleep"
      /\ UNCHANGED <<parent, np, left, rpc>>
      /\ state' = [state EXCEPT ![p] = "SLEEPING"] /\ chan' = [chan EXCEPT ![p] = Ticks]
      /\ pc' = [pc EXCEPT ![p] = "slept"]
      /\ \A d \in CPUs \ {c} : cpu'[d] = cpu[d]
  BY Zenon DEF SleepBlock, sched, At, Goto, IInv, TypeOK
<1>2. state[p] = "RUNNING" /\ TypeOK /\ initproc \in Procs
  BY <1>1, RunContext, SizeAssumption DEF IInv, Procs, initproc
<1>3. \A q \in Procs : /\ state'[q] = IF q = p THEN "SLEEPING" ELSE state[q]
                       /\ chan'[q] = IF q = p THEN Ticks ELSE chan[q]
                       /\ pc'[q] = IF q = p THEN "slept" ELSE pc[q]
  BY <1>1, <1>2, Zenon DEF TypeOK
<1>4. FamilyInv' /\ ParentIsLive'
  <2>1. \A q \in Procs : BasePC(q)' = "ready" => BasePC(q) = "ready"
    BY <1>1, <1>3 DEF BasePC
  <2>2. \A q \in Procs : state'[q] = state[q] \/ (state[q] \in Live /\ state'[q] \in Live)
    BY <1>2, <1>3, Zenon DEF Live
  <2> QED
    BY <1>1, <1>2, <2>1, <2>2, FamilyFrame, Zenon DEF TypeOK
<1>5. NoLostWakeup'
  <2>1. \A q \in Procs : state'[q] = "ZOMBIE" => state[q] = "ZOMBIE"
    BY <1>3, Zenon
  <2>2. \A d \in CPUs : cpu[d].intr = "wake" => cpu'[d].intr = "wake"
    BY <1>1, Zenon
  <2>3. left[p] > 0 /\ p # Ticks
    BY <1>1, <1>2, NoneAssumption, Zenon DEF KinInv, TicksInv
  <2> QED
    BY <1>1, <1>3, <2>1, <2>2, <2>3 DEF KinInv, NoLostWakeup, Children
<1>6. TicksInv'
  BY <1>1, <1>3 DEF KinInv, TicksInv
<1> QED
  BY <1>4, <1>5, <1>6, Zenon DEF KinInv

\* A slot that is not yet, or no longer, a process is nobody's parent: fork()
\* takes it from UNUSED to EMBRYO, or gives it back.
LEMMA SlotKin ==
    ASSUME IInv, KinInv, NEW p \in Procs, NEW z \in Procs, state[p] = "RUNNING",
           state[z] \in {"UNUSED", "EMBRYO"}, NEW s \in {"UNUSED", "EMBRYO"},
           state' = [state EXCEPT ![z] = s], NEW l \in {"copy", "sysret"}, pc' = [pc EXCEPT ![p] = l],
           \A q \in Procs \ {p} : np'[q] = np[q],
           UNCHANGED <<parent, chan, left, rpc>>, \A d \in CPUs : cpu'[d].intr = cpu[d].intr
    PROVE  KinInv'
<1>1. TypeOK /\ initproc \in Procs
  BY SizeAssumption DEF IInv, Procs, initproc
<1>2. \A q \in Procs : /\ state'[q] = IF q = z THEN s ELSE state[q]
                       /\ pc'[q] = IF q = p THEN l ELSE pc[q]
  BY <1>1, Zenon DEF TypeOK
<1>3. \A q \in Procs : BasePC(q)' = "ready" => BasePC(q) = "ready" /\ q # p
  BY <1>2, Zenon DEF BasePC
<1>4. FamilyInv'
  BY <1>1, <1>2, <1>3 DEF KinInv, FamilyInv, Live
<1>5. ParentIsLive'
  BY <1>1, <1>2 DEF KinInv, ParentIsLive, TypeOK
<1>6. NoLostWakeup'
  BY <1>2 DEF KinInv, NoLostWakeup, Children
<1>7. TicksInv'
  BY <1>2 DEF KinInv, TicksInv
<1> QED
  BY <1>4, <1>5, <1>6, <1>7, Zenon DEF KinInv

\* allocproc() takes a slot, and a failing fork() gives it back.
LEMMA ForkSlotKin ==
    ASSUME IInv, KinInv, NEW c \in CPUs, NEW p \in Procs, ForkAlloc(c, p) \/ ForkFail(c, p)
    PROVE  KinInv'
<1>1. At(c, p, "fork") \/ At(c, p, "copy")
  BY Zenon DEF ForkAlloc, ForkFail
<1>2. {"fork", "copy"} \subseteq PlainPCs
  BY Zenon DEF PlainPCs, KernelPCs
<1>3. /\ cpu[c].proc = p /\ state[p] = "RUNNING" /\ TypeOK /\ cpu[c] \in CpuRec /\ cpu[c].ncli = 0
      /\ SlotInv(p) /\ BasePC(p) \in {"fork", "copy"}
  BY <1>1, <1>2, AtContext DEF IInv
<1>4. \A d \in CPUs : cpu'[d].intr = cpu[d].intr
  <2>1. PopCli(PushCli(cpu[c])).intr = cpu[c].intr
    <3>1. cpu[c].ncli > 0 => cpu[c].fl = Off
      BY <1>3
    <3> QED
      BY <1>3, <3>1, SectionFields, Zenon
  <2>2. cpu' = cpu \/ cpu' = [cpu EXCEPT ![c] = PopCli(PushCli(cpu[c]))]
    BY Zenon DEF ForkAlloc, ForkFail, Section, cpuVars
  <2> QED
    BY <1>3, <2>1, <2>2, Zenon DEF TypeOK
<1>5. UNCHANGED <<parent, chan, left, rpc>> /\ \A q \in Procs \ {p} : np'[q] = np[q]
  BY <1>3, Zenon DEF ForkAlloc, ForkFail, TypeOK
<1>6. CASE ForkAlloc(c, p) /\ Unused = {}
  <2>1. state' = state /\ np' = np /\ pc' = [pc EXCEPT ![p] = "sysret"]
    BY <1>6, Zenon DEF ForkAlloc, Goto
  <2>2. \A q \in Procs : pc'[q] = IF q = p THEN "sysret" ELSE pc[q]
    BY <1>3, <2>1, Zenon DEF TypeOK
  <2>3. \A q \in Procs : BasePC(q)' = "ready" => BasePC(q) = "ready"
    BY <1>5, <2>2, Zenon DEF BasePC
  <2>4. \A q \in Procs : state'[q] = "RUNNING" /\ pc'[q] = "tosleep" => left'[q] > 0
    BY <1>5, <2>1, <2>2 DEF KinInv, TicksInv
  <2> QED
    BY <1>4, <1>5, <2>1, <2>3, <2>4, KinFrame, Zenon
<1>7. CASE ForkAlloc(c, p) /\ Unused # {}
  <2> DEFINE z == First(Unused)
  <2>1. z \in Unused
    BY <1>7, FirstSlot, Zenon DEF Unused
  <2>2. state' = [state EXCEPT ![z] = "EMBRYO"] /\ pc' = [pc EXCEPT ![p] = "copy"]
    BY <1>7, Zenon DEF ForkAlloc, Goto
  <2> HIDE DEF z
  <2> QED
    BY <1>3, <1>4, <1>5, <2>1, <2>2, SlotKin, Zenon DEF Unused
<1>8. CASE ForkFail(c, p)
  <2>1. np[p] \in Procs /\ state[np[p]] = "EMBRYO"
    BY <1>3, <1>8, Zenon DEF ForkFail, At, SlotInv, TypeOK, BasePC
  <2>2. state' = [state EXCEPT ![np[p]] = "UNUSED"] /\ pc' = [pc EXCEPT ![p] = "sysret"]
    BY <1>8, Zenon DEF ForkFail, Goto
  <2> QED
    BY <1>3, <1>4, <1>5, <2>1, <2>2, SlotKin, Zenon
<1> QED
  BY <1>6, <1>7, <1>8, Zenon

\* fork() gives the child its parent while it is an EMBRYO.
LEMMA ForkCopyKin ==
    ASSUME IInv, KinInv, NEW c \in CPUs, NEW p \in Procs, ForkCopy(c, p)
    PROVE  KinInv'
<1> DEFINE z == np[p]
<1>1. At(c, p, "copy") /\ "copy" \in PlainPCs
  BY Zenon DEF ForkCopy, PlainPCs, KernelPCs
<1>2. state[p] = "RUNNING" /\ TypeOK /\ SlotInv(p) /\ BasePC(p) = "copy" /\ initproc \in Procs
  BY <1>1, AtContext, SizeAssumption DEF IInv, Procs, initproc
<1>3. z \in Procs /\ state[z] = "EMBRYO" /\ z # p
  BY <1>2, Zenon DEF SlotInv, TypeOK
<1>4. /\ UNCHANGED <<state, chan, left, rpc, np, cpu>>
      /\ parent' = [parent EXCEPT ![z] = p]
      /\ pc' = [pc EXCEPT ![p] = "ready", ![z] = "forkret"]
  BY Zenon DEF ForkCopy, cpuVars
<1>5. \A q \in Procs : np[q] # None /\ np[q] = z => q = p
  BY <1>3, NoneAssumption, Zenon DEF IInv, ForksInv
<1> HIDE DEF z
<1>6. /\ \A q \in Procs \ {p, z} : pc'[q] = pc[q]
      /\ pc'[p] = "ready" /\ pc'[z] = "forkret"
      /\ \A q \in Procs : parent'[q] = IF q = z THEN p ELSE parent[q]
  BY <1>2, <1>3, <1>4, Zenon DEF TypeOK
<1>7. \A q \in Procs \ {p} : BasePC(q)' = "ready" => BasePC(q) = "ready"
  BY <1>4, <1>6, Zenon DEF BasePC
<1>8. FamilyInv'
  <2>1. state'[initproc] \in Live /\ parent'[initproc] = None
    BY <1>2, <1>3, <1>4, <1>6, Zenon DEF KinInv, FamilyInv, Live
  <2>2. \A q \in Procs : parent'[q] # q
    BY <1>3, <1>6, Zenon DEF KinInv, FamilyInv
  <2>3. \A q \in Procs : BasePC(q)' = "ready" /\ np[q] # None => parent'[np[q]] = q
    <3> TAKE q \in Procs
    <3>1. CASE q = p
      BY <1>3, <1>6, <3>1, Zenon DEF z
    <3>2. CASE q # p
      BY <1>2, <1>5, <1>6, <1>7, <3>2 DEF KinInv, FamilyInv, TypeOK
    <3> QED
      BY <3>1, <3>2, Zenon
  <2> QED
    BY <1>4, <2>1, <2>2, <2>3, Zenon DEF FamilyInv
<1>9. ParentIsLive'
  BY <1>3, <1>4, <1>6, Zenon DEF KinInv, ParentIsLive
<1>10. NoLostWakeup'
  BY <1>3, <1>4, <1>6 DEF KinInv, NoLostWakeup, Children
<1>11. TicksInv'
  BY <1>4, <1>6, Zenon DEF KinInv, TicksInv
<1> QED
  BY <1>8, <1>9, <1>10, <1>11, Zenon DEF KinInv

\* fork() makes the child RUNNABLE while its parent runs.
LEMMA ForkReadyKin ==
    ASSUME IInv, KinInv, NEW c \in CPUs, NEW p \in Procs, ForkReady(c, p)
    PROVE  KinInv'
<1> DEFINE z == np[p]
<1>1. At(c, p, "ready") /\ "ready" \in PlainPCs
  BY Zenon DEF ForkReady, PlainPCs, KernelPCs
<1>2. /\ cpu[c].proc = p /\ state[p] = "RUNNING" /\ TypeOK /\ cpu[c] \in CpuRec /\ cpu[c].ncli = 0
      /\ SlotInv(p) /\ BasePC(p) = "ready" /\ initproc \in Procs
  BY <1>1, AtContext, SizeAssumption DEF IInv, Procs, initproc
<1>3. z \in Procs /\ state[z] = "EMBRYO" /\ z # p /\ parent[z] = p /\ pc[z] = "forkret"
  BY <1>2, Zenon DEF SlotInv, TypeOK, KinInv, FamilyInv
<1>4. /\ UNCHANGED <<parent, chan, left, rpc>>
      /\ state' = [state EXCEPT ![z] = "RUNNABLE"]
      /\ np' = [np EXCEPT ![p] = None] /\ pc' = [pc EXCEPT ![p] = "sysret"]
  BY Zenon DEF ForkReady, Goto
<1>5. \A d \in CPUs : cpu'[d].intr = cpu[d].intr
  <2>1. PopCli(PushCli(cpu[c])).intr = cpu[c].intr
    <3>1. cpu[c].ncli > 0 => cpu[c].fl = Off
      BY <1>2
    <3> QED
      BY <1>2, <3>1, SectionFields, Zenon
  <2>2. cpu' = [cpu EXCEPT ![c] = PopCli(PushCli(cpu[c]))]
    BY Zenon DEF ForkReady, Section
  <2> QED
    BY <1>2, <2>1, <2>2, Zenon DEF TypeOK
<1> HIDE DEF z
<1>6. \A q \in Procs : /\ state'[q] = IF q = z THEN "RUNNABLE" ELSE state[q]
                       /\ np'[q] = IF q = p THEN None ELSE np[q]
                       /\ pc'[q] = IF q = p THEN "sysret" ELSE pc[q]
  BY <1>2, <1>4, Zenon DEF TypeOK
<1>7. \A q \in Procs : BasePC(q)' = "ready" => BasePC(q) = "ready"
  BY <1>4, <1>6 DEF BasePC
<1>8. FamilyInv'
  BY <1>2, <1>4, <1>6, <1>7 DEF KinInv, FamilyInv, Live
<1>9. ParentIsLive'
  <2> SUFFICES ASSUME NEW q \in Procs \ {initproc}, state'[q] \notin {"UNUSED", "EMBRYO"}
               PROVE  parent[q] # None /\ state'[parent[q]] \in {"RUNNING", "RUNNABLE", "SLEEPING"}
    BY <1>4, Zenon DEF ParentIsLive
  <2>1. CASE q = z
    BY <1>2, <1>3, <1>6, <2>1, NoneAssumption, Zenon
  <2>2. CASE q # z
    BY <1>2, <1>6, <2>2 DEF KinInv, ParentIsLive, TypeOK
  <2> QED
    BY <2>1, <2>2, Zenon
<1>10. NoLostWakeup'
  BY <1>3, <1>4, <1>5, <1>6 DEF KinInv, NoLostWakeup, Children
<1>11. TicksInv'
  BY <1>4, <1>6 DEF KinInv, TicksInv
<1> QED
  BY <1>8, <1>9, <1>10, <1>11, Zenon DEF KinInv

\* exit() passes the children to initproc, and wakes who waits for a zombie:
\* the parent of the caller, and initproc when it inherits one.
LEMMA ExitKin ==
    ASSUME IInv, KinInv, NEW c \in CPUs, NEW p \in Procs, Exit(c, p)
    PROVE  KinInv'
<1> DEFINE woken == wakeup1(state, parent[p])
           orphans == {q \in Children(p) : woken[q] = "ZOMBIE"}
           final == IF orphans = {} THEN woken ELSE wakeup1(woken, initproc)
<1>1. /\ cpu[c].proc = p /\ cpu[c].intr # "wake" /\ p # initproc
      /\ UNCHANGED <<np, left, rpc, chan>> /\ pc' = [pc EXCEPT ![p] = "dead"]
      /\ parent' = [q \in Procs |-> IF parent[q] = p THEN initproc ELSE parent[q]]
      /\ state' = [final EXCEPT ![p] = "ZOMBIE"]
      /\ \A d \in CPUs \ {c} : cpu'[d] = cpu[d]
  BY Zenon DEF Exit, sched, At, Goto, IInv, TypeOK
<1>2. state[p] = "RUNNING" /\ TypeOK /\ initproc \in Procs /\ \A q \in Procs : np[q] # p
  BY <1>1, RunContext, SizeAssumption DEF IInv, Procs, initproc
<1>3. \A q \in Procs : /\ woken[q] = state[q] \/ (state[q] = "SLEEPING" /\ woken[q] = "RUNNABLE")
                       /\ woken[q] = "SLEEPING" => chan[q] # parent[p]
  BY Zenon DEF wakeup1
<1> HIDE DEF woken
<1>4. \A q \in Procs : /\ final[q] = state[q] \/ (state[q] = "SLEEPING" /\ final[q] = "RUNNABLE")
                       /\ final[q] = "SLEEPING" => chan[q] # parent[p]
                       /\ final[q] = "SLEEPING" /\ orphans # {} => chan[q] # initproc
  BY <1>3, Zenon DEF wakeup1
<1>5. final \in [Procs -> States]
  BY <1>2, WakeupMoves, Zenon DEF woken, TypeOK
<1>6. \A q \in Procs : parent[q] = p /\ state[q] = "ZOMBIE" => orphans # {}
  BY <1>3, Zenon DEF Children
<1> HIDE DEF final, orphans
<1>7. /\ state'[p] = "ZOMBIE"
      /\ \A q \in Procs \ {p} : state'[q] = final[q] /\ pc'[q] = pc[q]
      /\ pc'[p] = "dead"
  BY <1>1, <1>2, <1>5, Zenon DEF TypeOK
<1>8. \A q \in Procs : parent'[q] = IF parent[q] = p THEN initproc ELSE parent[q]
  BY <1>1, Zenon
<1>9. FamilyInv'
  <2>1. state'[initproc] \in Live /\ parent'[initproc] = None
    BY <1>1, <1>2, <1>4, <1>7, <1>8, NoneAssumption DEF KinInv, FamilyInv, Live
  <2>2. \A q \in Procs : parent'[q] # q
    BY <1>2, <1>8, NoneAssumption, Zenon DEF KinInv, FamilyInv
  <2>3. \A q \in Procs : BasePC(q)' = "ready" => BasePC(q) = "ready" /\ q # p
    BY <1>1, <1>7, Zenon DEF BasePC
  <2>4. \A q \in Procs : BasePC(q)' = "ready" /\ np[q] # None => parent'[np[q]] = q
    BY <1>2, <1>8, <2>3, Zenon DEF KinInv, FamilyInv, TypeOK
  <2> QED
    BY <1>1, <2>1, <2>2, <2>4, Zenon DEF FamilyInv
<1>10. ParentIsLive'
  <2> SUFFICES ASSUME NEW q \in Procs \ {initproc}, state'[q] \notin {"UNUSED", "EMBRYO"}
               PROVE  parent'[q] # None /\ state'[parent'[q]] \in {"RUNNING", "RUNNABLE", "SLEEPING"}
    BY Zenon DEF ParentIsLive
  <2>1. state[q] \notin {"UNUSED", "EMBRYO"}
    BY <1>2, <1>4, <1>7, Zenon
  <2>2. parent[q] \in Procs /\ state[parent[q]] \in {"RUNNING", "RUNNABLE", "SLEEPING"}
    BY <1>2, <2>1, Zenon DEF KinInv, ParentIsLive, TypeOK
  <2>3. CASE parent[q] = p
    <3>1. parent'[q] = initproc /\ initproc # None
      BY <1>2, <1>8, <2>3, NoneAssumption, Zenon
    <3>2. state'[initproc] \in Live
      BY <1>9, Zenon DEF FamilyInv
    <3> QED
      BY <3>1, <3>2, Zenon DEF Live
  <2>4. CASE parent[q] # p
    BY <1>4, <1>7, <1>8, <2>2, <2>4, NoneAssumption
  <2> QED
    BY <2>3, <2>4, Zenon
<1>11. NoLostWakeup'
  <2> SUFFICES ASSUME NEW q \in Procs, state'[q] = "SLEEPING"
               PROVE  /\ chan[q] = q => \A x \in Procs : parent'[x] = q => state'[x] # "ZOMBIE"
                      /\ chan[q] = Ticks => left[q] > 0 \/ \E d \in CPUs : cpu'[d].intr = "wake"
    BY <1>1, Zenon DEF NoLostWakeup, Children
  <2>1. q # p /\ final[q] = "SLEEPING" /\ state[q] = "SLEEPING"
    BY <1>4, <1>7, Zenon
  <2>2. chan[q] = Ticks => left[q] > 0 \/ \E d \in CPUs : cpu'[d].intr = "wake"
    BY <1>1, <2>1, Zenon DEF KinInv, NoLostWakeup
  <2>3. ASSUME chan[q] = q, NEW x \in Procs, parent'[x] = q, state'[x] = "ZOMBIE" PROVE FALSE
    <3>1. CASE x = p
      <4>1. parent[p] # p
        BY Zenon DEF KinInv, FamilyInv
      <4> QED
        BY <1>4, <1>8, <2>1, <2>3, <3>1, <4>1, Zenon
    <3>2. CASE x # p /\ parent[x] = p
      <4>1. q = initproc /\ state[x] = "ZOMBIE"
        BY <1>4, <1>7, <1>8, <2>3, <3>2
      <4> QED
        BY <1>4, <1>6, <2>1, <2>3, <3>2, <4>1, Zenon
    <3>3. CASE x # p /\ parent[x] # p
      <4>1. parent[x] = q /\ state[x] = "ZOMBIE"
        BY <1>4, <1>7, <1>8, <2>3, <3>3, Zenon
      <4> QED
        BY <2>1, <2>3, <4>1, Zenon DEF KinInv, NoLostWakeup, Children
    <3> QED
      BY <3>1, <3>2, <3>3, Zenon
  <2> QED
    BY <2>2, <2>3, Zenon
<1>12. TicksInv'
  BY <1>1, <1>4, <1>7 DEF KinInv, TicksInv
<1> QED
  BY <1>9, <1>10, <1>11, <1>12, Zenon DEF KinInv

\* wait() reaps a zombie, which is nobody's parent; it sleeps only when no
\* child is a zombie, and under the lock that exit() needs.
LEMMA WaitKin ==
    ASSUME IInv, KinInv, NEW c \in CPUs, NEW p \in Procs, Wait(c, p) \/ WaitAgain(c, p)
    PROVE  KinInv'
<1> DEFINE zombies == {q \in Children(p) : state[q] = "ZOMBIE"}
           blocks == zombies = {} /\ Children(p) # {} /\ ~killed[p]
<1>1. PICK r : WaitScan(c, p, r) /\ cpu[c].proc = p /\ cpu[c].intr # "wake"
  BY Zenon DEF Wait, WaitAgain, At
<1>2. /\ UNCHANGED <<np, left, rpc>> /\ \A d \in CPUs \ {c} : cpu'[d] = cpu[d]
      /\ \A d \in CPUs : cpu[d].intr = "wake" => cpu'[d].intr = "wake"
  BY <1>1 DEF WaitScan, sched, IInv, TypeOK
<1>3. state[p] = "RUNNING" /\ TypeOK /\ initproc \in Procs
  BY <1>1, RunContext, SizeAssumption DEF IInv, Procs, initproc
<1>4. CASE blocks
  <2>1. /\ state' = [state EXCEPT ![p] = "SLEEPING"] /\ chan' = [chan EXCEPT ![p] = p]
        /\ pc' = [pc EXCEPT ![p] = "waiting"] /\ parent' = parent
    BY <1>1, <1>4, Zenon DEF WaitScan, Goto
  <2>2. \A q \in Procs : /\ state'[q] = IF q = p THEN "SLEEPING" ELSE state[q]
                         /\ chan'[q] = IF q = p THEN p ELSE chan[q]
                         /\ pc'[q] = IF q = p THEN "waiting" ELSE pc[q]
    BY <1>3, <2>1, Zenon DEF TypeOK
  <2>3. FamilyInv' /\ ParentIsLive'
    <3>1. \A q \in Procs : BasePC(q)' = "ready" => BasePC(q) = "ready"
      BY <1>2, <2>2, Zenon DEF BasePC
    <3>2. \A q \in Procs : state'[q] = state[q] \/ (state[q] \in Live /\ state'[q] \in Live)
      BY <1>3, <2>2, Zenon DEF Live
    <3> QED
      BY <1>2, <1>3, <2>1, <3>1, <3>2, FamilyFrame, Zenon DEF TypeOK
  <2>4. NoLostWakeup'
    <3>1. \A x \in Procs : parent[x] = p => state[x] # "ZOMBIE"
      BY <1>4, Zenon DEF Children
    <3> QED
      BY <1>2, <2>1, <2>2, <3>1, NoneAssumption DEF KinInv, NoLostWakeup, Children
  <2>5. TicksInv'
    BY <1>2, <2>2, Zenon DEF KinInv, TicksInv
  <2> QED
    BY <2>3, <2>4, <2>5, Zenon DEF KinInv
<1>5. CASE ~blocks
  <2>1. chan' = [chan EXCEPT ![p] = None] /\ pc' = [pc EXCEPT ![p] = "sysret"]
    BY <1>1, <1>5, Zenon DEF WaitScan, Goto
  <2>2. \A q \in Procs : /\ q # p => chan'[q] = chan[q] /\ pc'[q] = pc[q]
                         /\ q = p => pc'[q] = "sysret"
    BY <1>3, <2>1, Zenon DEF TypeOK
  <2>3. CASE zombies = {}
    <3>1. state' = state /\ parent' = parent
      BY <1>1, <1>5, <2>3, Zenon DEF WaitScan
    <3> QED
      BY <1>1, <1>2, <1>3, <2>2, <3>1, KinOwn, Zenon DEF BasePC
  <2>4. CASE zombies # {}
    <3>1. First(zombies) \in zombies
      BY <2>4, FirstSlot, Zenon DEF Children
    <3>2. PICK z \in Procs : /\ state[z] = "ZOMBIE"
                             /\ state' = [state EXCEPT ![z] = "UNUSED"]
                             /\ parent' = [parent EXCEPT ![z] = None]
      BY <1>1, <2>4, <3>1, Zenon DEF WaitScan, Children
    <3>3. \A q \in Procs : /\ state'[q] = IF q = z THEN "UNUSED" ELSE state[q]
                           /\ parent'[q] = IF q = z THEN None ELSE parent[q]
      BY <1>3, <3>2, Zenon DEF TypeOK
    <3>4. FamilyInv'
      <4>1. state'[initproc] \in Live /\ parent'[initproc] = None
        BY <1>3, <3>2, <3>3, Zenon DEF KinInv, FamilyInv, Live
      <4>2. \A q \in Procs : parent'[q] # q
        BY <3>3, NoneAssumption, Zenon DEF KinInv, FamilyInv
      <4>3. \A q \in Procs : BasePC(q)' = "ready" => BasePC(q) = "ready"
        BY <1>2, <2>2, Zenon DEF BasePC
      <4>4. \A q \in Procs : np[q] # None => np[q] \in Procs /\ np[q] # z
        BY <1>3, <3>2 DEF IInv, SlotsInv, SlotInv, TypeOK
      <4> QED
        BY <1>2, <3>3, <4>1, <4>2, <4>3, <4>4, Zenon DEF KinInv, FamilyInv
    <3>5. ParentIsLive'
      BY <1>3, <3>2, <3>3 DEF KinInv, ParentIsLive, TypeOK
    <3>6. NoLostWakeup'
      <4>1. \A x, q \in Procs : parent'[x] = q => parent[x] = q
        BY <3>3, NoneAssumption, Zenon
      <4>2. \A q \in Procs : state'[q] \in {"SLEEPING", "ZOMBIE"} => state[q] = state'[q]
        BY <3>3, Zenon
      <4>3. \A q \in Procs : state'[q] = "SLEEPING" => chan'[q] = chan[q]
        BY <1>3, <2>2, <4>2, Zenon
      <4> QED
        BY <1>2, <4>1, <4>2, <4>3 DEF KinInv, NoLostWakeup, Children
    <3>7. TicksInv'
      BY <1>2, <2>2, <3>3, Zenon DEF KinInv, TicksInv
    <3> QED
      BY <3>4, <3>5, <3>6, <3>7, Zenon DEF KinInv
  <2> QED
    BY <2>3, <2>4, Zenon
<1> QED
  BY <1>4, <1>5, Zenon

\* Families and sleepers are in order when the CPUs enter scheduler().
LEMMA InitKin == Init => KinInv
<1> SUFFICES ASSUME Init PROVE KinInv
  OBVIOUS
<1>1. initproc \in Procs
  BY SizeAssumption DEF Procs, initproc
<1> QED
  BY <1>1, NoneAssumption, Zenon DEF Init, KinInv, FamilyInv, ParentIsLive, NoLostWakeup, TicksInv, BasePC, Live

\* Every step leaves them in order.
LEMMA KinKeeps == IInv /\ KinInv /\ [Next]_vars => KinInv'
<1> SUFFICES ASSUME IInv, KinInv, [Next]_vars PROVE KinInv'
  OBVIOUS
<1>1. CASE UNCHANGED vars
  BY <1>1, Zenon DEF vars, KinInv, FamilyInv, ParentIsLive, NoLostWakeup, TicksInv, BasePC, Children
<1>2. ASSUME NEW c \in CPUs, SchedStep(c) \/ TimerEnter(c) \/ TimerStep(c) PROVE KinInv'
  BY <1>2, SchedStepKin, TimerKin, TimerTickKin, TimerWakeKin, TimerOwnKin, Zenon DEF TimerStep
<1>3. ASSUME NEW c \in CPUs, NEW p \in Procs, KernelStep(c, p) PROVE KinInv'
  BY <1>3, PlainKin, ForkSlotKin, ForkCopyKin, ForkReadyKin, ExitKin, WaitKin, KillKin, SleepTestKin,
     SleepBlockKin, Zenon DEF KernelStep
<1>4. ASSUME NEW c \in CPUs, NEW p \in Procs, UserStep(c, p) PROVE KinInv'
  BY <1>4, PlainKin, Zenon DEF UserStep, Calls
<1> QED
  BY <1>1, <1>2, <1>3, <1>4, Zenon DEF Next

\* The invariant of families and sleepers, on any number of CPUs.
LEMMA Kinship == Spec => []KinInv
BY InitKin, KinKeeps, Invariance, PTL DEF Spec

\* No interleaving of sleep() with exit(), kill() and the timer on other CPUs
\* loses a wakeup.
THEOREM WakeupsKept == Spec => []NoLostWakeup
<1>1. KinInv => NoLostWakeup
  BY Zenon DEF KinInv
<1> QED
  BY <1>1, Kinship, PTL

\* Somebody can reap every process: its parent has not exited.
THEOREM OrphansAdopted == Spec => []ParentIsLive
<1>1. KinInv => ParentIsLive
  BY Zenon DEF KinInv
<1> QED
  BY <1>1, Kinship, PTL
=============================================================================
