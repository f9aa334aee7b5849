# A TLA+ model of the CS450 systems code

The repository holds four assignments: `HW1` is a small shell, `HW2` the xv6
kernel for x86 with a system call that counts traps, `HW3` an xv6 with shared
memory between processes, and `HW4` only documents.  This directory models the
parts of it in which several processors, processes, interrupts or crashes meet.
Paths below are relative to `src/`.

## The system and its parts

| part | state | operations | interacts with | what is hard |
|---|---|---|---|---|
| process table, scheduler (`HW2/src/proc.c`) | `ptable`, one `struct cpu` per processor | `scheduler`, `sched`, `yield`, `fork`, `exit`, `wait`, `kill`, `sleep`, `wakeup` | everything that sleeps; the timer | a lock handed across `swtch()`, lost wakeups, orphans, preemption anywhere |
| spinlocks (`spinlock.c`) | `ncli`, `intena`, `FL_IF`, holders | `acquire`, `release`, `pushcli`, `popcli` | every critical section | `intena` belongs to a thread, `ncli` to a CPU |
| traps (`trap.c`, `syscall.c`, `sysproc.c`) | `ticks`, counters per process | `trap`, `sys_sleep`, `sys_countTraps` | scheduler | the timer interrupts kernel code |
| log (`log.c`) | header in memory and on disk | `begin_op`, `log_write`, `end_op`, `commit`, recovery | buffer cache | crashes between any two block writes |
| buffer cache (`bio.c`), sleep locks, disk driver (`ide.c`) | LRU list, reference counts, flags, request queue | `bget`, `bread`, `bwrite`, `brelse`, `iderw`, `ideintr` | log, scheduler | eviction, pinned buffers, an interrupt answering a sleeper |
| pipes (`pipe.c`) | ring, two wrapping counters, two ends | `pipewrite`, `piperead`, `pipeclose` | file table, `kill` | partial writes, wrapping, close against sleep |
| files and inodes (`file.c`, `fs.c`, `sysfile.c`) | file table, inode cache, directories | `filedup`, `iget`, `iput`, `dirlink`, `namex`, `create`, `sys_link`, `sys_unlink` | log, pipes | references against locks; a failure in mid-call |
| contents of files (`fs.c`, `file.c`, `mkfs.c`) | bitmap, block maps, offsets | `balloc`, `bmap`, `itrunc`, `readi`, `writei`, `filewrite` | log | the indirect block, a full disk, the size of a transaction |
| memory (`kalloc.c`, `vm.c`, `exec.c`) | free list, page tables | `kalloc`, `allocuvm`, `copyuvm`, `exec` | processes | failure in mid-call |
| console (`console.c`, `kbd.c`, `uart.c`) | input ring with three indices, modifiers | `consoleintr`, `kbdgetc`, `consoleread` | scheduler | an interrupt filling and editing what a process empties |
| shared memory (`HW3/xv6-src/vm.c`) | regions with pages and a reference count | `GetSharedPage`, `FreeSharedPage`, `fork`, `exit`, `wait` | page tables, heap | tests and updates that no lock covers |
| shells and library (`HW1/hwsh.c`, `sh.c`, `umalloc.c`, `grep.c`, `wc.c`, `string.c`) | parser position, processes of a line, free list | `parsecmd`, `runcmd`, `malloc`, `free`, `match` | system calls | recursive parsing, waiting for the right child, input cut anywhere |

`PROJECT.json` lists every part with its files and whether it is modelled.

## Modules

**Proc** (`proc.c`, `spinlock.c`, and the parts of `trap.c` and `sysproc.c` that
drive them).  The table is one function per field of `struct proc`; `cpu` is a
record per processor with `ncli`, `intena`, the interrupt flag and the progress
of the timer handler.  A critical section that does not reach `sched()` is one
step guarded by its lock being free; a lock that is held across `swtch()`, or
while a second lock is awaited, has its holder in the state, and `pc` says where
the kernel thread of a slot continues.  A timer interrupt is possible wherever
`FL_IF` is set, kernel code included.  `fork` is four steps, because its writes
after `allocproc()` are made without `ptable.lock`.

**Log** and **AtomicDisk** (`log.c`).  Each block write to the disk is a step, and
`Crash` is possible before and after every one of them, also during recovery.
The cache is reduced to which blocks are in memory and which are pinned by
`B_DIRTY`.  `AtomicDisk` is what file-system calls are promised: their writes
become stable together, only while no call is in progress, and a crash goes back
to the last stable contents.  `Log` implements it under the mapping `now` = what a
read returns, `stable` = the disk as recovery would leave it, `active` = the
calls in progress.

**BufCache** (`bio.c`, `sleeplock.c`, `ide.c`).  Reference counts, flags, the LRU
list, the lock of each buffer and the disk's queue.  `bget` and the two halves of
`brelse` are separate steps, since the sleep lock is taken after `bcache.lock` is
released and dropped before it is taken again.  `last` is not in the code: it
records what was last written to a block, to state what a reader must see.
A process uses one buffer at a time, and the disk reports no errors.

**Pipe** (`pipe.c`).  A call is a step from one point at which it may sleep to
the next.  `ncpu` is the number of CPUs: on one, `p->lock` keeps interrupts off,
so the test of `killed` and the `sleep()` after it are one step; on two, `kill()`,
which takes only `ptable.lock`, may come in between, and the call stops at
`wtested` or `rtested` with the lock held.  `nread` and `nwrite` are counted modulo `Wrap`, which stands for 2^32
and is, like it, a multiple of `PIPESIZE`.  `open` is kept per end, and the page
is freed by the last close.  `Sharing` says which processes hold which ends.

**SharedMem** (`HW3/xv6-src/vm.c`, `proc.c`).  Regions by key, page tables as
functions from page numbers to frames, and the free list as a set.  The build is
`-O0` for one CPU, so only preemption interleaves calls: `Switch` is possible
where no `pushcli()` is in force, `--region->refCount` is a load and a store, and
`MaxPreempt` bounds how often a call is interrupted.  `fork` copies the heap only,
`wait` drops the references of the child it reaps.  `mappages()`'s panic over a page
that is mapped already is the action `Remap`.

**Inodes** (`fs.c`, `file.c`, `sysfile.c`).  The inodes on disk with their types,
link counts and directory entries, the cache entries, the file table, and what
each process holds: descriptors, current directory, locks and references.  A
call is cut where it lets a lock go or waits for a sleep lock, so `iput`, `namex`,
`create`, `link` and `unlink` take several steps and interleave.  A path is a
sequence of names.  `MaxNlink` bounds link counts.

**FileBlocks** (`fs.c`, `file.c`, `mkfs.c`).  A disk of small blocks, the bitmap,
the block map of each inode with its indirect block, and `content`, which is not
in the code: what `mkfs` and the writes put into each file.  A round of `writei`
and one `bfree` of `itrunc` are steps.  The initial states are images that
`mkfs` builds.  `Logged` is the set of blocks a transaction has changed.

**Console** and **LineDiscipline** (`console.c`, `kbd.c`, `uart.c`).  Keys go down
and up and put codes on the wire; each interrupt hands characters to
`consoleintr`; readers take them one at a time and sleep, on two CPUs
(`ncpu`, as in `Pipe`) in a step after the test of `killed`.  `LineDiscipline` is
what readers are promised: a line can be edited until it is finished, finished
lines are read in order, what does not fit is ignored.  `Console` implements it
with `line` = the ring between `w` and `e` and `queue` = between `r` and `w`.

**Vm** (`kalloc.c`, `vm.c`, `exec.c`, the memory side of `proc.c`).  Frames with one
content each, page tables that cost frames themselves, and calls that take their
frames one at a time, so that two processes compete for the last ones.  `view`
is not in the code: it records the memory a process was promised.

**Traps** (`trap.c`, `syscall.c`, `proc.c`).  The counters of each slot, with
interrupts in the middle of calls and of `sys_countTraps`; `hist` is not in the
code: a bag of what really happened.  `kill` marks a slot by its pid as the code
does, free slots included.

**Shell** (`HW2/src/sh.c`, and `HW3/xv6-src/sh.c`, which leaves out two steps of the
plumbing) and **Hwsh** (`HW1/hwsh.c`).  The parsers are recursive operators over
sequences of characters and of tokens.  `runcmd` is a process per fork, with
descriptors, pipes, waits for any child, and forks that fail.

**Umalloc** (`umalloc.c`): headers of the free list, `sbrk` that fails.  **Filters**
(`wc.c`, `grep.c`): the read loops over chunks and the matcher.  **KLib**
(`syscall.c`, `console.c`, `string.c`, `ulib.c`): argument checks, number
conversion and copying as operators, with `W` values in an `int`.

Each `MC` module extends its modules with the inputs of its runs.  `MCLogPipe`,
`MCIo`, `MCVm` and `MCPrograms` hold several modules that share no state: `part`,
chosen in the initial state, says which of them a behaviour exercises, and the
rest stays as it is.  Properties of an idle part hold trivially in such a
behaviour and are checked in the others.

An operator that comes just before another one and is used nowhere else
(`UnpinnedAll` before `Recyclable`) is a faulty variant of it, with which the property
named in `PROJECT.json` must fail.

## Runs

| run | question | bounds | distinct states |
|---|---|---|---|
| `proc_smp` | one CPU per process, no lock assertion fires, interrupts are restored, no wakeup lost, `IInv` holds | 2 CPUs, 2 slots, 3 pids, sleeps of 1 tick | 323,467 |
| `proc_live` | runnable processes run, `wait` and `sleep` return, a killed process leaves either and exits | 1 CPU, 2 slots | 9,423 |
| `proc_kill` | a killed process exits; no orphan is left | 1 CPU, 3 slots | 121,382 |
| `log_pipe` | the log implements `AtomicDisk`, leaves nothing over after a commit, never overflows; sleepers in `begin_op` are woken and calls keep being let in; a pipe keeps bytes in order, wakes its sleepers, is not used after it is freed, and calls end once the other end is closed or, on one CPU, the caller killed | log: 2 calls of 2 blocks with crashes, or 3 calls of 1 block without, each its own, room for 2 calls; pipe: 3 processes, ring of 2, counters mod 4, 1 or 2 CPUs (two writers on 1 only) | 145,587 |
| `buf_cache` | one copy per block; its holder is alone and sees the last write; exact counts; sleepers have something to wait for and are served; a panic only when the cache is full | 2 processes, 3 blocks, 2 buffers, 1 pin | 228,454 |
| `inodes` | exact reference counts on all paths, one coherent cache entry per inode, names and open files lead to allocated inodes, a panic only for want of room | 2 processes, 3 inodes, 3 cache entries, 1 file, 2 descriptors; either the calls on names, or one process that forks and closes and one that dups and exits | 1,353,175 |
| `io` | no block in two files or lost, reads return what was written and never allocate, a transaction fits the log; the console implements `LineDiscipline`, never blocks when full, keeps no modifier, gives EOF to a read of its own | files: 2 processes, 2 inodes, 5 blocks of 2 cells, 1 direct block, 3 images; console: 2 readers, ring of 2, indices mod 4, 1 or 2 CPUs | 579,358 |
| `memory` | no frame lost or used twice, a process keeps the memory it was promised, no freed directory in use, no panic; counters exact, totals true | 2 processes, 12 frames, 4 pages of user memory, 3 programs; 2 slots, 3 traps | 981,161 |
| `shared_serial` | same key, same pages; no dangling page; exact counts; no leak; heap apart; nothing mapped where the next region goes, so that only the heap can make `mappages` panic | 2 processes, 2 keys, 4 frames, no preemption inside calls | 289,600 |
| `programs` | both shells parse as their grammar says, run in the order of the line, wait for all of it and come back; the heap stays tiled and joined; filters and helpers agree with their references | scripts of 2 lines for `sh`, 6 lines for `hwsh`, all lines of up to 4 characters and of up to 6 tokens; heap of 11 units; inputs of up to 5 characters, all patterns of up to 3; 32 values of an `int` | 77,464 |

Where a module has several invariants, the run checks their conjunction: `LogInv`,
`PipeInv`, `CacheInv`, `PagesAccounted`, `CacheExact`, `LiveInodesAllocated`,
`BlocksInv`, `ContentsInv`, `InputInv`, `FramesInv`, `CountsInv`, `LineInOrder`,
`ParsesLine`, `HwLineInOrder`, `HeapInv`, `FiltersAgree` and `LibraryAgrees`, the type
invariant of the module among them.  Each conjunct has its definition and its
comment in the module.  `CallsReturn`, `BeginProgress`, `ReadsLines` and `LinesEnd` are conjunctions
of temporal properties.  `TypeOK` of `Proc` is a conjunct of `IInv`.

The bounds are the smallest at which the cases of interest happen: two CPUs for
a hand-over of `ptable.lock`, three slots for an orphan, a ring that wraps twice
before its counters do, fewer buffers than blocks so that buffers are recycled,
a log with room for fewer calls than there are, an inode cache and a file table
that run full, a disk on which the indirect block of one file takes what another
wants, frames for one large program or two small ones.  `NoPanic` of `Log` needs
calls that use less than they reserve (see below), hence the workload of one
block per call.

Deadlock is checked in the `proc` runs and in `log_pipe`, where a pipe both of
whose ends are closed is the one place to rest.  It is off where the system may
stop: a machine that has panicked, bounds that are used up (link counts, traps),
a console nobody types at, a shell at the end of its script, and the states of
`programs` that are one input of a function.

### Where code and text disagree

| run | what it shows |
|---|---|
| `inode_deadlock` | `create()` drops its directory with `iunlockput(dp)` while it holds the new inode, and `iput()` takes the directory's lock again; `sys_unlink()` of that name holds the directory and waits for the inode |
| `shared_race` | two processes that both find a key uninitialised create the region twice and do not share it |

Other such paths are in the code, and the properties are stated around them:

- A writer that fills the ring and is killed returns before it wakes the reader;
  `NoSleeperForgotten` excepts it.
- On a second CPU `kill()` may fall between the test of `killed` and the `sleep()`
  of `pipewrite`, `piperead` or `consoleread`; the call then sleeps until the other
  side acts or a second `kill()` wakes it.  `NoSleeperForgotten`, `CallsEnd` and
  `ReaderAwake` except a killed process when there are two CPUs; on one they claim
  that none sleeps on.
- `begin_op` lets whoever comes first take the room that an `end_op` frees: a call
  that was woken may find the log full again.  `BeginProgress` says that it is
  woken each time and that somebody is let in, not that it is this call.
- No free raises `shaddr`, so a long run of `GetSharedPage` and `FreeSharedPage`
  comes down to the heap, where `mappages()` panics (`Remap`); `RemapOnlyHeap` says
  that nothing else is in its way.
- `--region->refCount` can be interrupted between load and store, which loses
  another process's count.  `SharedMem` has the two steps; `shared_serial`, which
  claims exact counts, lets no call be interrupted.
- A `GetSharedPage` that runs out of memory returns between `pushcli()` and
  `popcli()`; the page properties of `SharedMem` speak of states without an
  unmatched `pushcli()`.
- `kill()` does not look at the state of the slot whose pid it finds, and
  `allocproc()` does not clear `killed`: a process can be born killed.
- `begin_op` reserves up to `LOGSIZE` entries, but the log `mkfs` makes holds one
  less, and `log_write` checks the size before it looks for the block.  The
  kernel's own calls write less than they reserve.
- Two `iput()`s of an unlinked inode can each see the other's reference, and
  then nobody frees it.
- `create()` and `link()` may add a name to a directory that was removed since
  `nameiparent()` found it; the `..` of a removed directory is not counted, so
  `EntriesAllocated` leaves it out.
- `growproc()` takes a shrink to exactly 0 for a failure and keeps `p->sz`; such a
  process has no code left, and `MemoryIntact` says nothing of it.
- `fork1()` in `sh.c` panics when `fork()` fails and leaves the children already
  started; they are orphans, of which `ListInOrder` and `PromptWaits` say nothing.
- `grep` drops what it has when a read from a pipe ends inside the first line of
  its buffer; `GrepWritesMatches` is about files.
- `hwsh` does not look at `getcmd()`'s result, and goes on with empty lines at the
  end of its input.

## Fairness

`Proc`: an interrupt handler runs to its end (weak fairness of `TimerStep`); the
LAPIC latches an interrupt until `FL_IF` is set, and code that gets the CPU over
and over gets through its next step (strong fairness of `TimerEnter`, `SchedStep`
and each thread's `KernelStep`).  No program is obliged to make a call.  The
spinlocks are not fair, so the liveness runs have one CPU, the default of the
Makefile, on which nobody spins.  `Log`, `Pipe` and `BufCache` take from `Proc`
that a runnable thread runs (weak fairness of their kernel steps; on two CPUs
it promises a step only to who finds `p->lock` free from some time on), `Log` also
that a call writes a bounded number of blocks and ends (strong fairness of
`end_op`, which a `log_write` in progress disables for a while), and `BufCache` that the disk answers and that whoever has a
buffer releases it in the end (strong fairness of `releasesleep`, since `bwrite`
disables it for a while).  In `log_pipe` the fairness of `Log` is that of its own
behaviours (`WaitFairness`).  For the shells every process of a line that can
take a step does in the end (`ShFairness`, `HwFairness`), commands exit in the
end, and `init` starts the shell again; nobody is obliged to type.

## Proofs

The theorems hold for every value of the constants that the named assumptions
allow; each run of the same module evaluates these and checks the properties on
its instance.

| modules | theorems | about |
|---|---|---|
| `ProcStepProofs`, `ProcProofs` | `Invariance`, `TypeCorrect`, `OneCpu`, `LocksSafe`, `InterruptsSafe`, `WakeupsKept`, `OrphansAdopted` | `Proc`: `IInv`, `TypeOK`, `RunsOnOneCpu`, `NoLockPanic`, `InterruptsRestored`, `NoLostWakeup`, `ParentIsLive` |
| `LogProofs` | `LogInvariance`, `LogSafety`, `LogWakeupsAndDurability`, `LogImplementsAtomicDisk` | `Log`: `LogInv`, and the refinement `AtomicCommit` |
| `BufCacheProofs` | `CacheInvariance`, `CacheSafety`, `PanicJustified` | `BufCache`: `CacheInv`, `PanicOnlyWhenFull` |
| `PipeProofs` | `PipeSafety`, `PipeInOrder` | `Pipe`: `PipeInv`, and the action property `Fifo` |
| `ConsoleProofs` | `ConsoleSafety`, `ConsoleReadsLines` | `Console`: `InputInv`, and `ReadsLines`: the refinement and the reads of an end of file |

`CounterProofs` has the arithmetic of wrapping counters that the two rings share.

**Assumptions.**  `Proc`: `Cpu0` is a CPU, the bounds are natural numbers, `None` and
`Ticks` are not slots.  `Log` and `BufCache`: finitely many processes, a buffer at
least.  `Pipe` and `Console`: the counters wrap at a multiple of the ring's size
that is larger than the ring, as 2^32 is of 512 and of 128.  `LogSafety` alone has a
hypothesis, `Room`: a call leaves some of the `MAXOPBLOCKS` it reserves unused.  It is
needed because `begin_op` admits calls up to `LOGSIZE` entries while `log_write`
refuses the last entry of the log on disk (`log.c:218`); with `MAXOPBLOCKS` = 10 and
`LOGSIZE` = `sb.nlog` = 30, `Room` says that a call writes at most 9 blocks.  The other
theorems about the log do without it.

**Invariants.**  None of the properties is inductive by itself.

- `Proc`.  That a process runs on one CPU depends on who holds `ptable.lock` when
  `scheduler()` marks it `RUNNING`, and that on where each thread resumes.  `IInv`
  adds for each CPU that `ncli` is the number of locks it holds and that interrupts
  are off while it holds one (`CpusInv`); for a CPU and its process, that
  `ptable.lock` is held exactly at the points inside `sched()` (`RunsInv`); for each
  slot, which continuation goes with which state and what `sched()` has saved
  (`SlotsInv`); and that the slot `fork()` fills belongs to one forking process only
  (`ForksInv`).  `KinInv` adds who may be whose parent at which point, and what was
  tested before a sleep, for `NoLostWakeup` and `ParentIsLive`.
- `Log`.  `IInv` of `LogProofs` says stage by stage how the header in memory, the
  header and the blocks of the log on disk, the cache and the home blocks agree
  (`StageInv`, `CacheInv`), that `outstanding` counts the calls (`CallsInv`), and how
  many entries they may still add (`SpaceInv`, `LimitInv`).  The refinement follows
  action by action: each step is a step of `AtomicDisk` or leaves its state alone,
  and only the write of the header is a commit.
- `BufCache`.  `IInv` of `BufCacheProofs` ties the lock of a buffer to the one process
  that uses it (`UseInv`, `LockInv`), the data to what was last written (`DataInv`),
  the disk's queue to who waits for it (`QueueInv`), and each sleeper to a reason
  (`SleepInv`).  That counts are exact, and that a full cache is the only cause of
  the panic, are arguments about cardinalities.
- `Pipe`.  `RingInv` adds to `PipeInv` that the ends processes hold are open and that
  calls in progress hold theirs (`EndsInv`), and that what a call tested still holds
  when it goes to sleep, except, on two CPUs, that it has not been killed
  (`TestedInv`).
- `Console`.  `ConInv` is about the distances of the three indices from `r`, where
  newlines and end-of-file marks may lie between them, what each reader has and
  where it stands, and which keys are down for the modifiers.

A preservation proof has one lemma per action, with a step per conjunct the action
can disturb, and frame lemmas for what it leaves alone.

**Only model-checked.**  All liveness, since fairness and `ENABLED` are beyond the
prover.  `Inodes`, `FileBlocks`, `Vm`, `Traps` and `SharedMem`, for which no inductive
invariant has been worked out and proved.  `Shell`, `Hwsh`, `Umalloc`, `Filters` and `KLib`, which use
recursive operators, about which the prover cannot reason by induction.

## Not modelled

Hardware set-up (`main.c`, `mp.c`, `lapic.c`, `ioapic.c`, boot code): straight-line
initialisation without a property to state.  Device ports, the screen and the
formatting of output.  The test programs (`usertests.c`, `forktest.c`, `stressfs.c`,
HW3's tests) and the programs that are one system call.  Disk errors: `ideintr()`
ignores them.  The failure paths of `pipealloc()` and `sys_pipe()`.  `exec()` over
HW3's shared pages, where the old page table is freed with the shared pages in
it.  Path lookup through the `..` of a removed directory, and links named `.` or
`..`.

## Plan

1. A composition of `BufCache` with the log's use of it, so that `NoPanic` of
   both rests on `MAXOPBLOCKS`, `LOGSIZE` and `NBUF` together.
2. `exec` in `SharedMem`; the failure paths of `pipealloc` and `sys_pipe`.
3. Proofs of `FramesOnce` of `Vm`, `CountsExact` of `Traps` and `RemapOnlyHeap` of
   `SharedMem`.
