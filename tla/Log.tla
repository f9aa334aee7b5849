-------------------------------- MODULE Log ---------------------------------
(***************************************************************************)
(* The write-ahead log of the xv6 file system (HW2/src/log.c): group       *)
(* commit of concurrent file-system calls, the redo log on disk, crashes   *)
(* at any moment and recovery at boot, which may crash again.              *)
(*                                                                         *)
(* The disk writes one block atomically, and iderw() returns once it has.  *)
(* The buffer cache (bio.c) is the set of blocks in memory: a block that   *)
(* is neither locked nor B_DIRTY may be recycled at any time.              *)
(***************************************************************************)
EXTENDS Integers, Sequences, FiniteSets

CONSTANTS
    Procs,          \* processes making file-system calls
    Blocks,         \* home blocks of the file system
    Vals, InitVal,  \* contents of a block
    MAXOPBLOCKS,    \* blocks a call reserves in begin_op()
    LOGSIZE,        \* entries of the log header
    nlog,           \* sb.nlog: blocks of the log on disk, with the header
    OpBlocks,       \* bound: the blocks a call really writes
    None            \* no block, or a block that is not cached

ASSUME LogAssumption ==
    /\ IsFiniteSet(Procs)
    /\ {MAXOPBLOCKS, LOGSIZE, nlog, OpBlocks} \subseteq Nat
    /\ OpBlocks <= MAXOPBLOCKS /\ MAXOPBLOCKS <= LOGSIZE
    /\ InitVal \in Vals /\ None \notin Blocks \cup Vals

VARIABLES
    disk,           \* home blocks on disk
    dhead,          \* the header on disk: the block numbers it lists
    dlog,           \* the log's data blocks on disk
    cache,          \* contents of the cached home blocks, or None
    dirty,          \* blocks whose buffer has B_DIRTY
    lh,             \* log.lh: block numbers of the transaction
    outstanding,    \* log.outstanding
    committing,     \* log.committing
    stage,          \* where commit() or recover_from_log() continues
    tail,           \* entries it has copied
    pc,             \* where each process is in its call
    lock,           \* the block whose buffer a process has locked
    wrote           \* blocks its call has written

diskVars == <<disk, dhead, dlog>>
logVars == <<lh, outstanding, committing>>
opVars == <<pc, lock, wrote>>
vars == <<disk, dhead, dlog, cache, dirty, lh, outstanding, committing, stage,
          tail, pc, lock, wrote>>

\* "boot" to "clear0" is recover_from_log(), "up" the running system outside
\* commit(), the rest is commit().
Stages == {"boot", "redo", "clear0", "up", "write", "head", "install", "clear", "done"}

\* "begin" is begin_op(), "asleep" its sleep(), "op" inside the call, "append"
\* past log_write()'s checks, "commit" in commit(), "panic" a failed check.
PCs == {"out", "begin", "asleep", "op", "append", "commit", "panic"}

Running == stage \notin {"boot", "redo", "clear0"}

\* wakeup(&log)
Wakeup(f) == [p \in Procs |-> IF f[p] = "asleep" THEN "begin" ELSE f[p]]

\* The contents bread() returns for block b.
bread(b) == IF cache[b] # None THEN cache[b] ELSE disk[b]

\* The blocks a header lists.
Listed(h) == {h[i] : i \in 1 .. Len(h)}

-----------------------------------------------------------------------------
(* begin_op(), log_write(), end_op()                                       *)

Call(p) ==
    /\ Running /\ pc[p] = "out"
    /\ pc' = [pc EXCEPT ![p] = "begin"]
    /\ UNCHANGED <<diskVars, cache, dirty, logVars, stage, tail, lock, wrote>>

\* Faulty variant: the space of the new call is not counted.
MustWaitShort == committing \/ Len(lh) + outstanding * MAXOPBLOCKS > LOGSIZE

\* The loop's test: committing, or the log might run out of space.
MustWait ==
    committing \/ Len(lh) + (outstanding + 1) * MAXOPBLOCKS > LOGSIZE

begin_op(p) ==
    /\ Running /\ pc[p] = "begin"
    /\ \/ /\ MustWait
          /\ pc' = [pc EXCEPT ![p] = "asleep"]
          /\ UNCHANGED outstanding
       \/ /\ ~MustWait
          /\ pc' = [pc EXCEPT ![p] = "op"]
          /\ outstanding' = outstanding + 1
    /\ UNCHANGED <<diskVars, cache, dirty, lh, committing, stage, tail, lock, wrote>>

\* A call changes a locked buffer and enters log_write(), whose checks read
\* the log without its lock.
log_write(p, b, v) ==
    /\ Running /\ pc[p] = "op"
    /\ \A q \in Procs : lock[q] # b
    /\ Cardinality(wrote[p] \cup {b}) <= OpBlocks
    /\ cache' = [cache EXCEPT ![b] = v]
    /\ lock' = [lock EXCEPT ![p] = b]
    /\ wrote' = [wrote EXCEPT ![p] = @ \cup {b}]
    /\ pc' = [pc EXCEPT ![p] =
                IF Len(lh) >= LOGSIZE \/ Len(lh) >= nlog - 1 \/ outstanding < 1
                THEN "panic" ELSE "append"]
    /\ UNCHANGED <<diskVars, dirty, logVars, stage, tail>>

\* The rest of log_write() with log.lock held, and brelse().
log_append(p) ==
    /\ Running /\ pc[p] = "append"
    /\ lh' = IF lock[p] \in Listed(lh) THEN lh ELSE Append(lh, lock[p])
    /\ dirty' = dirty \cup {lock[p]}
    /\ lock' = [lock EXCEPT ![p] = None]
    /\ pc' = [pc EXCEPT ![p] = "op"]
    /\ UNCHANGED <<diskVars, cache, outstanding, committing, stage, tail, wrote>>

\* Faulty variant: a call that is not the last wakes nobody.
end_op_silent(p) ==
    /\ Running /\ pc[p] = "op" /\ ~committing
    /\ outstanding' = outstanding - 1
    /\ wrote' = [wrote EXCEPT ![p] = {}]
    /\ committing' = (outstanding = 1)
    /\ stage' = IF outstanding # 1 THEN stage ELSE IF lh = <<>> THEN "done" ELSE "write"
    /\ pc' = [pc EXCEPT ![p] = IF outstanding = 1 THEN "commit" ELSE "out"]
    /\ UNCHANGED <<diskVars, cache, dirty, lh, tail, lock>>

end_op(p) ==
    /\ Running /\ pc[p] = "op"
    /\ outstanding' = outstanding - 1
    /\ wrote' = [wrote EXCEPT ![p] = {}]
    /\ \/ /\ committing
          /\ pc' = [pc EXCEPT ![p] = "panic"]
          /\ UNCHANGED <<committing, stage>>
       \/ /\ ~committing /\ outstanding = 1
          /\ committing' = TRUE
          /\ stage' = IF lh = <<>> THEN "done" ELSE "write"
          /\ pc' = [pc EXCEPT ![p] = "commit"]
       \/ /\ ~committing /\ outstanding # 1
          /\ pc' = Wakeup([pc EXCEPT ![p] = "out"])
          /\ UNCHANGED <<committing, stage>>
    /\ UNCHANGED <<diskVars, cache, dirty, lh, tail, lock>>

-----------------------------------------------------------------------------
(* commit() and recover_from_log()                                         *)

\* Faulty variant: the blocks are installed before the header is written.
write_log_nohead ==
    /\ stage = "write"
    /\ dlog' = [dlog EXCEPT ![tail + 1] = bread(lh[tail + 1])]
    /\ tail' = (tail + 1) % Len(lh)
    /\ stage' = IF tail + 1 = Len(lh) THEN "install" ELSE "write"
    /\ UNCHANGED <<disk, dhead, cache, dirty, logVars, opVars>>

\* One round of write_log(): a cached block goes to the log.
write_log ==
    /\ stage = "write"
    /\ dlog' = [dlog EXCEPT ![tail + 1] = bread(lh[tail + 1])]
    /\ \/ /\ tail + 1 < Len(lh)
          /\ tail' = tail + 1
          /\ UNCHANGED stage
       \/ /\ tail + 1 = Len(lh)
          /\ tail' = 0
          /\ stage' = "head"
    /\ UNCHANGED <<disk, dhead, cache, dirty, logVars, opVars>>

\* write_head(): the commit, and the erasure after commit() and recovery.
write_head ==
    /\ \/ stage = "head" /\ stage' = "install"
       \/ stage = "clear" /\ stage' = "done"
       \/ stage = "clear0" /\ stage' = "up"
    /\ dhead' = lh
    /\ UNCHANGED <<disk, dlog, cache, dirty, logVars, tail, opVars>>

\* One round of install_trans(); after the last, lh.n = 0.
install_trans ==
    /\ stage \in {"install", "redo"}
    /\ LET b == lh[tail + 1] IN
       /\ disk' = [disk EXCEPT ![b] = dlog[tail + 1]]
       /\ cache' = [cache EXCEPT ![b] = dlog[tail + 1]]
       /\ dirty' = dirty \ {b}
    /\ \/ /\ tail + 1 < Len(lh)
          /\ tail' = tail + 1
          /\ UNCHANGED <<lh, stage>>
       \/ /\ tail + 1 = Len(lh)
          /\ tail' = 0
          /\ lh' = <<>>
          /\ stage' = IF stage = "redo" THEN "clear0" ELSE "clear"
    /\ UNCHANGED <<dhead, dlog, outstanding, committing, opVars>>

\* end_op() after commit().
end_commit(p) ==
    /\ stage = "done" /\ pc[p] = "commit"
    /\ committing' = FALSE
    /\ stage' = "up"
    /\ pc' = Wakeup([pc EXCEPT ![p] = "out"])
    /\ UNCHANGED <<diskVars, cache, dirty, lh, outstanding, tail, lock, wrote>>

\* initlog(): the header on disk says what to install.
read_head ==
    /\ stage = "boot"
    /\ lh' = dhead
    /\ stage' = IF dhead = <<>> THEN "clear0" ELSE "redo"
    /\ UNCHANGED <<diskVars, cache, dirty, outstanding, committing, tail, opVars>>

-----------------------------------------------------------------------------
(* The buffer cache, and crashes                                           *)

\* bread() of a block that is not cached.
Fetch(b) ==
    /\ Running /\ cache[b] = None
    /\ cache' = [cache EXCEPT ![b] = disk[b]]
    /\ UNCHANGED <<diskVars, dirty, logVars, stage, tail, opVars>>

\* bget() recycles the buffer of b.
Recycle(b) ==
    /\ cache[b] # None /\ b \notin dirty
    /\ \A p \in Procs : lock[p] # b
    /\ cache' = [cache EXCEPT ![b] = None]
    /\ UNCHANGED <<diskVars, dirty, logVars, stage, tail, opVars>>

\* Power is lost: only the disk survives.
Crash ==
    /\ cache' = [b \in Blocks |-> None]
    /\ dirty' = {}
    /\ lh' = <<>> /\ outstanding' = 0 /\ committing' = FALSE
    /\ stage' = "boot" /\ tail' = 0
    /\ pc' = [p \in Procs |-> "out"]
    /\ lock' = [p \in Procs |-> None]
    /\ wrote' = [p \in Procs |-> {}]
    /\ UNCHANGED diskVars

Init ==
    /\ disk = [b \in Blocks |-> InitVal]
    /\ dhead = <<>>
    /\ dlog = [i \in 1 .. LOGSIZE |-> InitVal]
    /\ cache = [b \in Blocks |-> None]
    /\ dirty = {}
    /\ lh = <<>> /\ outstanding = 0 /\ committing = FALSE
    /\ stage = "boot" /\ tail = 0
    /\ pc = [p \in Procs |-> "out"]
    /\ lock = [p \in Procs |-> None]
    /\ wrote = [p \in Procs |-> {}]

\* What the kernel does by itself once a call has been made.
KernelStep(p) == begin_op(p) \/ log_append(p) \/ end_op(p) \/ end_commit(p)
LogStep == write_log \/ write_head \/ install_trans \/ read_head

Next ==
    \/ \E p \in Procs :
        Call(p) \/ KernelStep(p) \/ \E b \in Blocks, v \in Vals : log_write(p, b, v)
    \/ LogStep
    \/ \E b \in Blocks : Fetch(b) \/ Recycle(b)
    \/ Crash

Spec == Init /\ [][Next]_vars

\* Every thread that can run gets to (Proc's RunnableRuns), and a call ends: its
\* loops are finite, although log_write() switches end_op() off for a while.
Fairness ==
    WF_vars(LogStep) /\ \A p \in Procs : WF_vars(KernelStep(p)) /\ SF_vars(end_op(p))

FairSpec == Spec /\ Fairness

-----------------------------------------------------------------------------
(* Properties                                                              *)

\* Every variable has its type.
TypeOK ==
    /\ disk \in [Blocks -> Vals]
    /\ dhead \in Seq(Blocks) /\ lh \in Seq(Blocks)
    /\ dlog \in [1 .. LOGSIZE -> Vals]
    /\ cache \in [Blocks -> Vals \cup {None}]
    /\ dirty \subseteq Blocks
    /\ outstanding \in Nat /\ committing \in BOOLEAN
    /\ stage \in Stages /\ tail \in 0 .. LOGSIZE
    /\ pc \in [Procs -> PCs]
    /\ lock \in [Procs -> Blocks \cup {None}]
    /\ wrote \in [Procs -> SUBSET Blocks]

\* The disk as recovery would leave it.
Recovered ==
    [b \in Blocks |-> IF b \in Listed(dhead)
                      THEN dlog[CHOOSE i \in 1 .. Len(dhead) : dhead[i] = b]
                      ELSE disk[b]]

Current == [b \in Blocks |-> IF Running THEN bread(b) ELSE Recovered[b]]

Active == {p \in Procs : pc[p] \in {"op", "append", "panic"}}

Atomic == INSTANCE AtomicDisk
              WITH now <- Current, stable <- Recovered, active <- Active

\* The log implements AtomicDisk: a crash at any moment, recovery included,
\* keeps all or nothing of the calls grouped in a transaction, and no
\* eviction, absorption or install changes what a read returns.
AtomicCommit == Atomic!Spec

\* When the last end_op() has returned nothing is left to write: what reads
\* return is what a crash would leave, and the log on disk is empty.
Durable ==
    stage = "up" /\ outstanding = 0 =>
        Recovered = Current /\ dhead = <<>> /\ lh = <<>> /\ dirty = {}

\* begin_op() never sleeps on although the log has room and nobody commits.
NoLostWakeup == \A p \in Procs : pc[p] = "asleep" => MustWait

\* A call that leaves one of the blocks begin_op() reserved for it unused never
\* meets "too big a transaction" (HW2/src/log.c:218-219), and no end_op() meets
\* "log.committing" (HW2/src/log.c:152-153).
NoPanic == \A p \in Procs : pc[p] # "panic"

\* A process that sleeps in begin_op() is woken in the end, although others may
\* start and end calls for ever and the log is never empty of them.
SleepersWake == \A p \in Procs : pc[p] = "asleep" ~> pc[p] # "asleep"

\* While somebody waits in begin_op(), calls go on being let in: one that loses its
\* place over and over loses it to another call, never to a log that stays full
\* or committing.
CallsLetIn ==
    <>[](\E p \in Procs : pc[p] \in {"begin", "asleep"})
        => []<><<\E q \in Procs : pc[q] = "begin" /\ pc'[q] = "op">>_pc

\* begin_op() goes on, for its sleepers and for the calls as a whole.
BeginProgress == SleepersWake /\ CallsLetIn

\* What holds of the log in every state: no call sleeps without a reason or
\* overruns the log, and a transaction leaves nothing behind.
LogInv == TypeOK /\ NoLostWakeup /\ NoPanic /\ Durable
=============================================================================
