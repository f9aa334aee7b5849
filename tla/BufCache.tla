------------------------------ MODULE BufCache ------------------------------
(***************************************************************************)
(* The buffer cache of the xv6 kernel (HW2/src/bio.c) between its users    *)
(* and the disk driver (ide.c), with the sleep lock (sleeplock.c) that     *)
(* each buffer has.                                                        *)
(*                                                                         *)
(* What bcache.lock, idelock or the spinlock of a sleep lock protects is   *)
(* one step.  A process uses one buffer at a time, and the disk answers    *)
(* without errors.                                                         *)
(***************************************************************************)
EXTENDS Integers, Sequences, FiniteSets, Functions

CONSTANTS
    Procs, Blocks,
    NBUF,           \* buffers of the cache
    MaxPinned,      \* bound: buffers that log.c keeps dirty at a time
    Vals, InitVal,  \* contents of a block
    None

ASSUME BufAssumption ==
    /\ IsFiniteSet(Procs) /\ NBUF \in Nat \ {0} /\ MaxPinned \in Nat
    /\ InitVal \in Vals /\ None \notin Blocks \cup Procs \cup (1 .. NBUF)

VARIABLES
    lru,        \* bcache.head's list, most recently used first
    block,      \* b->blockno
    valid,      \* buffers with B_VALID
    dirty,      \* buffers with B_DIRTY
    refcnt,     \* b->refcnt
    owner,      \* who holds b->lock
    data,       \* b->data
    disk,
    idequeue,
    pc,         \* where each process is
    buf,        \* the buffer it has from bget()
    want,       \* the block it wants
    last        \* what was last written to each block, through the cache

bufVars == <<block, valid, dirty, data>>
vars == <<lru, block, valid, dirty, refcnt, owner, data, disk, idequeue, pc, buf, want, last>>

Bufs == 1 .. NBUF

\* "lock" is acquiresleep(), "locksleep" its sleep(); "iosleep" is the sleep()
\* of iderw(), "io" its loop after it; "use" holds the buffer; "unref" is brelse() past
\* releasesleep().
PCs == {"out", "lock", "locksleep", "read", "io", "iosleep", "use", "unref", "panic"}

Goto(p, l) == pc' = [pc EXCEPT ![p] = l]

-----------------------------------------------------------------------------
(* bget() and bread()                                                      *)

Cached(k) == {b \in Bufs : block[b] = k}

UnpinnedAll == {b \in Bufs : refcnt[b] = 0}

FlagsClear == {b \in Bufs : refcnt[b] = 0 /\ b \notin dirty \cup valid}

\* A buffer that log.c has modified is in use though its refcnt is 0.
Recyclable == {b \in Bufs : refcnt[b] = 0 /\ b \notin dirty}

\* The least recently used buffer of a set.
Oldest(S) == lru[CHOOSE i \in 1 .. NBUF : lru[i] \in S /\ \A j \in i + 1 .. NBUF : lru[j] \notin S]

\* refcnt after bget() has found a cached buffer.
Grab(b) == [refcnt EXCEPT ![b] = @ + 1]

\* bget() up to acquiresleep().
bget(p, k) ==
    /\ pc[p] = "out"
    /\ want' = [want EXCEPT ![p] = k]
    /\ \/ \E b \in Cached(k) :
            /\ refcnt' = Grab(b)
            /\ buf' = [buf EXCEPT ![p] = b]
            /\ Goto(p, "lock")
            /\ UNCHANGED <<block, valid>>
       \/ /\ Cached(k) = {} /\ Recyclable # {}
          /\ LET b == Oldest(Recyclable) IN
             /\ block' = [block EXCEPT ![b] = k]
             /\ valid' = valid \ {b}
             /\ refcnt' = [refcnt EXCEPT ![b] = 1]
             /\ buf' = [buf EXCEPT ![p] = b]
          /\ Goto(p, "lock")
       \/ /\ Cached(k) = {} /\ Recyclable = {}
          /\ Goto(p, "panic")
          /\ UNCHANGED <<block, valid, refcnt, buf>>
    /\ UNCHANGED <<lru, dirty, owner, data, disk, idequeue, last>>

acquiresleep(p) ==
    /\ pc[p] = "lock"
    /\ \/ /\ owner[buf[p]] # None
          /\ Goto(p, "locksleep")
          /\ UNCHANGED owner
       \/ /\ owner[buf[p]] = None
          /\ owner' = [owner EXCEPT ![buf[p]] = p]
          /\ Goto(p, "read")
    /\ UNCHANGED <<lru, bufVars, refcnt, disk, idequeue, buf, want, last>>

\* bread() after bget(): unless the buffer is valid, iderw() appends it to the
\* queue and sleeps, with idelock held until it sleeps.
bread(p) ==
    /\ pc[p] = "read"
    /\ \/ buf[p] \in valid /\ Goto(p, "use") /\ UNCHANGED idequeue
       \/ /\ buf[p] \notin valid
          /\ idequeue' = Append(idequeue, buf[p])
          /\ Goto(p, "iosleep")
    /\ UNCHANGED <<lru, bufVars, refcnt, owner, disk, buf, want, last>>

-----------------------------------------------------------------------------
(* iderw() and ideintr()                                                   *)

\* The loop of iderw(), woken by ideintr() or by kill().
iderw(p) ==
    /\ pc[p] = "io"
    /\ Goto(p, IF buf[p] \in valid \ dirty THEN "use" ELSE "iosleep")
    /\ UNCHANGED <<lru, bufVars, refcnt, owner, disk, idequeue, buf, want, last>>

\* The processes wakeup() of a channel moves.
WokenNobody(f, from, to, b) == f

Woken(f, from, to, b) ==
    [q \in Procs |-> IF f[q] = from /\ buf[q] = b THEN to ELSE f[q]]

\* The disk has served the first request of the queue.
ideintr ==
    /\ idequeue # <<>>
    /\ LET b == Head(idequeue) IN
       /\ \/ b \in dirty /\ disk' = [disk EXCEPT ![block[b]] = data[b]] /\ UNCHANGED data
          \/ b \notin dirty /\ data' = [data EXCEPT ![b] = disk[block[b]]] /\ UNCHANGED disk
       /\ valid' = valid \cup {b}
       /\ dirty' = dirty \ {b}
       /\ pc' = Woken(pc, "iosleep", "io", b)
    /\ idequeue' = Tail(idequeue)
    /\ UNCHANGED <<lru, block, refcnt, owner, buf, want, last>>

-----------------------------------------------------------------------------
(* The holder of a buffer: log_write(), bwrite(), brelse()                 *)

\* log_write() pins the changed buffer in the cache with B_DIRTY.
LogWrite(p, v) ==
    LET b == buf[p] IN
    /\ pc[p] = "use" /\ Cardinality(dirty \cup {b}) <= MaxPinned
    /\ data' = [data EXCEPT ![b] = v]
    /\ dirty' = dirty \cup {b}
    /\ last' = [last EXCEPT ![block[b]] = v]
    /\ UNCHANGED <<lru, block, valid, refcnt, owner, disk, idequeue, pc, buf, want>>

\* bwrite() of what is in the buffer, new or pinned before.
bwrite(p, v) ==
    LET b == buf[p] IN
    /\ pc[p] = "use" /\ (b \in dirty => v = data[b])
    /\ data' = [data EXCEPT ![b] = v]
    /\ dirty' = dirty \cup {b}
    /\ last' = [last EXCEPT ![block[b]] = v]
    /\ idequeue' = Append(idequeue, b)
    /\ Goto(p, "iosleep")
    /\ UNCHANGED <<lru, block, valid, refcnt, owner, disk, buf, want>>

\* brelse(), first releasesleep().
releasesleep(p) ==
    LET b == buf[p] IN
    /\ pc[p] = "use"
    /\ owner' = [owner EXCEPT ![b] = None]
    /\ pc' = Woken([pc EXCEPT ![p] = "unref"], "locksleep", "lock", b)
    /\ UNCHANGED <<lru, bufVars, refcnt, disk, idequeue, buf, want, last>>

\* The list after brelse() has moved a buffer to its front.
ToFront(b) ==
    LET i == CHOOSE i \in Bufs : lru[i] = b IN
    [j \in Bufs |-> IF j = 1 THEN b ELSE IF j <= i THEN lru[j - 1] ELSE lru[j]]

\* brelse(), with bcache.lock: the last user moves the buffer to the front.
brelse(p) ==
    LET b == buf[p] IN
    /\ pc[p] = "unref"
    /\ refcnt' = [refcnt EXCEPT ![b] = @ - 1]
    /\ lru' = IF refcnt[b] = 1 THEN ToFront(b) ELSE lru
    /\ buf' = [buf EXCEPT ![p] = None]
    /\ Goto(p, "out")
    /\ UNCHANGED <<bufVars, owner, disk, idequeue, want, last>>

\* kill() makes a sleeper runnable whatever it waits for.
Kill(p) ==
    /\ \/ pc[p] = "locksleep" /\ Goto(p, "lock")
       \/ pc[p] = "iosleep" /\ Goto(p, "io")
    /\ UNCHANGED <<lru, bufVars, refcnt, owner, disk, idequeue, buf, want, last>>

\* binit()
Init ==
    /\ lru = [i \in Bufs |-> NBUF + 1 - i]
    /\ block = [b \in Bufs |-> None]
    /\ valid = {} /\ dirty = {}
    /\ refcnt = [b \in Bufs |-> 0]
    /\ owner = [b \in Bufs |-> None]
    /\ data = [b \in Bufs |-> InitVal]
    /\ disk = [k \in Blocks |-> InitVal]
    /\ idequeue = <<>>
    /\ pc = [p \in Procs |-> "out"]
    /\ buf = [p \in Procs |-> None]
    /\ want = [p \in Procs |-> None]
    /\ last = disk

KernelStep(p) == acquiresleep(p) \/ bread(p) \/ iderw(p) \/ brelse(p)

\* panic() stops the machine.
Next ==
    /\ \A p \in Procs : pc[p] # "panic"
    /\ \/ \E p \in Procs :
            \/ \E k \in Blocks : bget(p, k)
            \/ KernelStep(p)
            \/ \E v \in Vals : LogWrite(p, v) \/ bwrite(p, v)
            \/ releasesleep(p) \/ Kill(p)
       \/ ideintr

Spec == Init /\ [][Next]_vars

\* Runnable threads run, the disk answers, and nobody keeps a buffer.
FairSpec ==
    /\ Spec /\ WF_vars(ideintr)
    /\ \A p \in Procs : WF_vars(KernelStep(p)) /\ SF_vars(releasesleep(p))

-----------------------------------------------------------------------------
(* Properties                                                              *)

\* Every variable has its type, and the list has every buffer once.
TypeOK ==
    /\ lru \in [Bufs -> Bufs] /\ Range(lru) = Bufs
    /\ block \in [Bufs -> Blocks \cup {None}]
    /\ valid \subseteq Bufs /\ dirty \subseteq Bufs
    /\ refcnt \in [Bufs -> 0 .. Cardinality(Procs)]
    /\ owner \in [Bufs -> Procs \cup {None}]
    /\ data \in [Bufs -> Vals] /\ disk \in [Blocks -> Vals] /\ last \in [Blocks -> Vals]
    /\ idequeue \in Seq(Bufs)
    /\ pc \in [Procs -> PCs]
    /\ buf \in [Procs -> Bufs \cup {None}] /\ want \in [Procs -> Blocks \cup {None}]

\* bget() caches a block in one buffer only.
OneCopy == \A a, b \in Bufs : block[a] = block[b] /\ block[a] # None => a = b

\* Only one process at a time can use a buffer, it is the one it asked for,
\* and it has what was last written to the block, although buffers are
\* recycled at any moment and writes reach the disk late.
Coherent ==
    \A p \in Procs : pc[p] = "use" =>
        /\ owner[buf[p]] = p /\ block[buf[p]] = want[p]
        /\ data[buf[p]] = last[want[p]]

\* The reference counts are those of the users, so a buffer that somebody has
\* or waits for is not recycled.
RefExact == \A b \in Bufs : refcnt[b] = Cardinality({p \in Procs : buf[p] = b})

\* Nobody sleeps for a lock that is free, or for a request that is not queued;
\* each buffer in the queue is there once, locked by the process waiting.
NoLostWakeup ==
    /\ \A p \in Procs :
        /\ pc[p] = "locksleep" => owner[buf[p]] # None
        /\ pc[p] = "iosleep" => buf[p] \in Range(idequeue)
    /\ \A i, j \in 1 .. Len(idequeue) : idequeue[i] = idequeue[j] => i = j
    /\ \A i \in 1 .. Len(idequeue) :
        \E p \in Procs : owner[idequeue[i]] = p /\ pc[p] \in {"io", "iosleep"}

Panicked == \E p \in Procs : pc[p] = "panic"

\* bget() panics only when pinned buffers and users are as many as there are
\* buffers: while LOGSIZE pins and the locks of all processes stay below NBUF
\* it finds one.
PanicOnlyWhenFull ==
    Panicked =>
        Cardinality(dirty) + Cardinality({p \in Procs : buf[p] # None}) >= NBUF

\* A request is answered, and who waits for a buffer's lock is woken, whatever
\* others ask for in the meantime, unless the kernel panics.
Served ==
    \A p \in Procs :
        /\ pc[p] \in {"io", "iosleep"} ~> pc[p] = "use" \/ Panicked
        /\ pc[p] = "locksleep" ~> pc[p] = "lock" \/ Panicked

\* What holds of the cache in every state: counts and sleepers are in order, and
\* the one copy of a block is what its only user last wrote.
CacheInv == TypeOK /\ OneCopy /\ Coherent /\ RefExact /\ NoLostWakeup
=============================================================================
