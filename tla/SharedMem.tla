----------------------------- MODULE SharedMem -----------------------------
(***************************************************************************)
(* The shared-memory regions of HW3/xv6-src/vm.c: GetSharedPage() and      *)
(* FreeSharedPage(), with the parts of proc.c that create, grow and reap   *)
(* the address spaces they are mapped into.                                *)
(*                                                                         *)
(* One CPU, as the Makefile's CPUS := 1: a section between pushcli() and   *)
(* popcli(), or under ptable.lock, is one step, and elsewhere the timer    *)
(* may switch to another process.  Addresses are counted in pages.         *)
(***************************************************************************)
EXTENDS Integers, FiniteSets, Functions

CONSTANTS
    Procs,      \* slots of the process table
    initproc,   \* the slot of init
    Keys,
    Counts,     \* bound: the page counts asked for
    Frames,     \* physical pages
    KERNBASE,   \* bound: pages of user address space
    MaxCli,     \* bound: calls after which pushcli() may be left unmatched
    MaxPreempt, \* bound: how often the timer interrupts a call
    None

ASSUME SharedMemAssumption ==
    /\ initproc \in Procs
    /\ Counts \subseteq Nat \ {0}
    /\ KERNBASE \in Nat /\ KERNBASE > 1
    /\ MaxCli \in Nat /\ MaxPreempt \in Nat
    /\ None \notin Frames

VARIABLES
    region,     \* sharedRegions[]
    ref,        \* p->shared[key].va, or None when the reference is clear
    shaddr,     \* p->shaddr
    sz,         \* p->sz
    pgdir,      \* p->pgdir: the frame mapped at each page, or None
    free,       \* the pages kalloc() has
    state,      \* p->state
    curr,       \* the process on the CPU
    ncli,       \* mycpu()->ncli
    preempts,   \* how often a call has been interrupted
    pc,         \* where each process is
    call,       \* the key and count of its call
    loaded,     \* the refCount it loaded
    panicked

pageVars == <<region, ref, shaddr, sz, pgdir, free>>
callVars == <<pc, call, loaded>>
runVars == <<state, curr, ncli, preempts, panicked>>
vars == <<pageVars, callVars, runVars>>

Pages == 0 .. KERNBASE - 1
NoRegion == [valid |-> FALSE, refCount |-> 0, pages |-> <<>>]
PageCount(k) == Cardinality(DOMAIN region[k].pages)
Mapped(p) == Range(pgdir[p]) \ {None}

\* The tables of c distinct pages that kalloc() can return.
Kalloc(c) == {f \in [0 .. c - 1 -> free] : IsInjective(f)}

\* p is on the CPU, at l.
At(p, l) == ~panicked /\ curr = p /\ state[p] = "RUNNING" /\ pc[p] = l
Goto(p, l) == pc' = [pc EXCEPT ![p] = l]

Panic == panicked' = TRUE /\ UNCHANGED <<pageVars, callVars, state, curr, ncli, preempts>>

-----------------------------------------------------------------------------
(* GetSharedPage                                                           *)

\* A region is created when it is not valid.
FreshAlways(k) == TRUE

Fresh(k) == ~region[k].valid

\* allocSharedVM(): the test of region->valid.
GetSharedPage(p, k, c) ==
    /\ At(p, "user") /\ ncli < MaxCli
    /\ call' = [call EXCEPT ![p] = [key |-> k, count |-> c]]
    /\ Goto(p, IF Fresh(k) THEN "init"
               ELSE IF c > PageCount(k) THEN "user" ELSE "lookup")
    /\ UNCHANGED <<pageVars, loaded, runVars>>

\* allocSharedVM(): a new region.  The return on failure skips popcli().
allocSharedVM(p) ==
    LET k == call[p].key
        c == call[p].count IN
    /\ At(p, "init")
    /\ \/ \E f \in Kalloc(c) :
            /\ free' = free \ Range(f)
            /\ region' = [region EXCEPT ![k] = [valid |-> TRUE, refCount |-> 0, pages |-> f]]
            /\ Goto(p, "lookup")
            /\ UNCHANGED ncli
       \/ /\ Cardinality(free) < c
          /\ free' = {}
          /\ ncli' = ncli + 1
          /\ Goto(p, "user")
          /\ UNCHANGED region
    /\ UNCHANGED <<ref, shaddr, sz, pgdir, call, loaded, state, curr, preempts, panicked>>

\* mapSharedRegion(): the region may be mapped already.
LookupRegion(p) ==
    /\ At(p, "lookup")
    /\ LET k == call[p].key IN
       Goto(p, IF ref[p][k] # None /\ region[k].valid THEN "user" ELSE "map")
    /\ UNCHANGED <<pageVars, call, loaded, runVars>>

\* p's table once the first n pages of region k are mapped downwards.
WithPages(p, k, n) ==
    [a \in Pages |-> IF a < shaddr[p] /\ a >= shaddr[p] - n
                     THEN region[k].pages[shaddr[p] - 1 - a] ELSE pgdir[p][a]]

\* mappages() finds a page present at one of the next n addresses.
Remaps(p, n) == \E a \in Pages : a < shaddr[p] /\ a >= shaddr[p] - n /\ pgdir[p][a] # None

\* mapSharedRegion(): map the pages, count the reference and record it.
mapSharedRegion(p) ==
    LET k == call[p].key
        n == PageCount(k) IN
    /\ At(p, "map") /\ ~Remaps(p, n)
    /\ pgdir' = [pgdir EXCEPT ![p] = WithPages(p, k, n)]
    /\ shaddr' = [shaddr EXCEPT ![p] = @ - n]
    /\ region' = [region EXCEPT ![k].refCount = @ + 1]
    /\ ref' = [ref EXCEPT ![p][k] = shaddr[p] - n]
    /\ Goto(p, "user")
    /\ UNCHANGED <<sz, free, call, loaded, runVars>>

\* Faulty variant: the pages mapped before the failure stay below shaddr.
MapFailStays(p, n) ==
    LET k == call[p].key IN
    /\ At(p, "map") /\ free = {} /\ n < PageCount(k) /\ ~Remaps(p, n + 1)
    /\ pgdir' = [pgdir EXCEPT ![p] = WithPages(p, k, n)]
    /\ ncli' = ncli + 1
    /\ Goto(p, "user")
    /\ UNCHANGED <<region, ref, shaddr, sz, free, call, loaded, state, curr, preempts, panicked>>

\* mapSharedRegion(): no memory for a page-table page after n mappings, a
\* return that skips popcli().
MapFail(p, n) ==
    LET k == call[p].key IN
    /\ At(p, "map") /\ free = {} /\ n < PageCount(k) /\ ~Remaps(p, n + 1)
    /\ pgdir' = [pgdir EXCEPT ![p] = WithPages(p, k, n)]
    /\ shaddr' = [shaddr EXCEPT ![p] = @ - (n + 1)]
    /\ ncli' = ncli + 1
    /\ Goto(p, "user")
    /\ UNCHANGED <<region, ref, sz, free, call, loaded, state, curr, preempts, panicked>>

\* mappages(): panic("remap").
Remap(p) == At(p, "map") /\ Remaps(p, PageCount(call[p].key)) /\ Panic

-----------------------------------------------------------------------------
(* FreeSharedPage                                                          *)

\* p's table without region k; the region's own page count is used.
WithoutPages(p, k) ==
    [a \in Pages |-> IF a >= ref[p][k] /\ a < ref[p][k] + PageCount(k)
                     THEN None ELSE pgdir[p][a]]

\* walkpgdir() may find no page table where nothing is mapped.
MaybeNoTable(p, k) ==
    \A a \in Pages : a >= ref[p][k] /\ a < ref[p][k] + PageCount(k) => pgdir[p][a] = None

\* deallocProcSharedVM(): clear the page table and the reference; the addresses
\* are not given back.
FreeSharedPage(p, k) ==
    /\ At(p, "user") /\ ref[p][k] # None
    /\ call' = [call EXCEPT ![p] = [key |-> k, count |-> 0]]
    /\ \/ /\ pgdir' = [pgdir EXCEPT ![p] = WithoutPages(p, k)]
          /\ ref' = [ref EXCEPT ![p][k] = None]
          /\ Goto(p, "load")
       \/ /\ PageCount(k) > 0 /\ MaybeNoTable(p, k)
          /\ UNCHANGED <<pgdir, ref, pc>>
    /\ UNCHANGED <<region, shaddr, sz, free, loaded, runVars>>

\* deallocProcSharedVM(): region->valid and the load of --region->refCount.
LoadCount(p) ==
    LET k == call[p].key IN
    /\ At(p, "load")
    /\ loaded' = [loaded EXCEPT ![p] = region[k].refCount]
    /\ Goto(p, IF region[k].valid THEN "store" ELSE "user")
    /\ UNCHANGED <<pageVars, call, runVars>>

LastRefEarly(n) == n <= 1

LastRefLate(n) == n < 0

\* The region goes with its last reference.
LastRef(n) == n = 0

\* deallocProcSharedVM(): the store, and the test against 0.
StoreCount(p) ==
    /\ At(p, "store")
    /\ region' = [region EXCEPT ![call[p].key].refCount = loaded[p] - 1]
    /\ Goto(p, IF LastRef(loaded[p] - 1) THEN "release" ELSE "user")
    /\ UNCHANGED <<ref, shaddr, sz, pgdir, free, call, loaded, runVars>>

\* The region is left empty; its pages go back to kalloc(), whoever maps them.
Released(r) == [r EXCEPT !.valid = FALSE, !.pages = <<>>]

RegionFrames(k) == {region[k].pages[i] : i \in DOMAIN region[k].pages}

\* deallocProcSharedVM(): the last reference is gone.
ReleaseRegion(p) ==
    LET k == call[p].key IN
    /\ At(p, "release")
    /\ free' = free \cup RegionFrames(k)
    /\ region' = [region EXCEPT ![k] = Released(@)]
    /\ Goto(p, "user")
    /\ UNCHANGED <<ref, shaddr, sz, pgdir, call, loaded, runVars>>

-----------------------------------------------------------------------------
(* Address spaces: growproc, fork, exit, wait, and the switch              *)

\* allocuvm(): the heap stays below the shared pages.
GrowLimit(p) == sz[p] + 1 < shaddr[p]

\* growproc(n), n > 0, by a page; it is not mapped yet (HeapBelowShared).
Grow(p) ==
    /\ At(p, "user") /\ GrowLimit(p)
    /\ \E f \in free :
        /\ free' = free \ {f}
        /\ pgdir' = [pgdir EXCEPT ![p][sz[p]] = f]
    /\ sz' = [sz EXCEPT ![p] = @ + 1]
    /\ UNCHANGED <<region, ref, shaddr, callVars, runVars>>

\* growproc(n), n < 0, by a page; the first page stays.
Shrink(p) ==
    /\ At(p, "user") /\ sz[p] > 1
    /\ free' = free \cup ({pgdir[p][sz[p] - 1]} \ {None})
    /\ pgdir' = [pgdir EXCEPT ![p][sz[p] - 1] = None]
    /\ sz' = [sz EXCEPT ![p] = @ - 1]
    /\ UNCHANGED <<region, ref, shaddr, callVars, runVars>>

\* fork(): the child has a copy of the heap, none of the shared pages, and
\* the references its slot was left with.
Fork(p, q) ==
    /\ At(p, "user") /\ state[q] = "UNUSED"
    /\ \E f \in Kalloc(sz[p]) :
        /\ free' = free \ Range(f)
        /\ pgdir' = [pgdir EXCEPT ![q] = [a \in Pages |-> IF a < sz[p] THEN f[a] ELSE None]]
    /\ shaddr' = [shaddr EXCEPT ![q] = KERNBASE]
    /\ sz' = [sz EXCEPT ![q] = sz[p]]
    /\ state' = [state EXCEPT ![q] = "RUNNING"]
    /\ UNCHANGED <<region, ref, callVars, curr, ncli, preempts, panicked>>

Exit(p) ==
    /\ At(p, "user") /\ p # initproc
    /\ state' = [state EXCEPT ![p] = "ZOMBIE"]
    /\ UNCHANGED <<pageVars, callVars, curr, ncli, preempts, panicked>>

\* The regions deallocProcAllSharedVM() finds abandoned by q.
Held(q) == {k \in Keys : ref[q][k] # None /\ region[k].valid}

\* wait() reaps q: deallocProcAllSharedVM() drops the references of q, one
\* key after the other, but those it finds no page table for; freevm() then
\* frees every page that is still mapped.
Reap(p, q) ==
    /\ At(p, "user") /\ state[q] = "ZOMBIE"
    /\ \E S \in SUBSET Held(q) :
        LET last == {k \in S : LastRef(region[k].refCount - 1)} IN
        /\ \A k \in Held(q) \ S : PageCount(k) > 0 /\ MaybeNoTable(q, k)
        /\ region' = [k \in Keys |->
                        IF k \notin S THEN region[k]
                        ELSE LET r == [region[k] EXCEPT !.refCount = @ - 1] IN
                             IF k \in last THEN Released(r) ELSE r]
        /\ ref' = [ref EXCEPT ![q] = [k \in Keys |-> IF k \in S THEN None ELSE @[k]]]
        /\ free' = free \cup UNION {RegionFrames(k) : k \in last}
                       \cup {f \in Mapped(q) : \E a \in Pages :
                                pgdir[q][a] = f /\ \A k \in S : WithoutPages(q, k)[a] = f}
    /\ pgdir' = [pgdir EXCEPT ![q] = [a \in Pages |-> None]]
    /\ state' = [state EXCEPT ![q] = "UNUSED"]
    /\ UNCHANGED <<shaddr, sz, callVars, curr, ncli, preempts, panicked>>

\* sched(): a process that leaves a pushcli() behind cannot be switched from
\* ("sched locks").
Switch(q) ==
    /\ ~panicked /\ curr # q /\ state[q] = "RUNNING"
    /\ pc[curr] = "user" \/ preempts < MaxPreempt
    /\ IF ncli > 0 THEN Panic
       ELSE /\ curr' = q
            /\ preempts' = IF pc[curr] = "user" THEN preempts ELSE preempts + 1
            /\ UNCHANGED <<pageVars, callVars, state, ncli, panicked>>

\* init has one page of its own, and no region has been asked for.
Init ==
    /\ region = [k \in Keys |-> NoRegion]
    /\ ref = [p \in Procs |-> [k \in Keys |-> None]]
    /\ shaddr = [p \in Procs |-> KERNBASE]
    /\ sz = [p \in Procs |-> 1]
    /\ \E f \in Frames :
        /\ pgdir = [p \in Procs |-> [a \in Pages |-> IF p = initproc /\ a = 0 THEN f ELSE None]]
        /\ free = Frames \ {f}
    /\ state = [p \in Procs |-> IF p = initproc THEN "RUNNING" ELSE "UNUSED"]
    /\ curr = initproc /\ ncli = 0 /\ preempts = 0 /\ panicked = FALSE
    /\ pc = [p \in Procs |-> "user"]
    /\ call = [p \in Procs |-> [key |-> CHOOSE k \in Keys : TRUE, count |-> 0]]
    /\ loaded = [p \in Procs |-> 0]

Step(p) ==
    \/ \E k \in Keys, c \in Counts : GetSharedPage(p, k, c)
    \/ allocSharedVM(p) \/ LookupRegion(p) \/ mapSharedRegion(p) \/ Remap(p)
    \/ \E n \in Pages : MapFail(p, n)
    \/ \E k \in Keys : FreeSharedPage(p, k)
    \/ LoadCount(p) \/ StoreCount(p) \/ ReleaseRegion(p)
    \/ Grow(p) \/ Shrink(p) \/ Exit(p)
    \/ \E q \in Procs : Fork(p, q) \/ Reap(p, q)

Next == \E p \in Procs : Step(p) \/ Switch(p)

Spec == Init /\ [][Next]_vars

-----------------------------------------------------------------------------
(* Properties                                                              *)

\* Every variable has its type, and shared mappings stay in user space.
TypeOK ==
    /\ \A k \in Keys :
        /\ region[k].valid \in BOOLEAN /\ region[k].refCount \in Int
        /\ Range(region[k].pages) \subseteq Frames
    /\ ref \in [Procs -> [Keys -> (0 .. KERNBASE) \cup {None}]]
    /\ shaddr \in [Procs -> 0 .. KERNBASE] /\ sz \in [Procs -> 1 .. KERNBASE]
    /\ pgdir \in [Procs -> [Pages -> Frames \cup {None}]]
    /\ free \subseteq Frames
    /\ state \in [Procs -> {"UNUSED", "RUNNING", "ZOMBIE"}]
    /\ curr \in Procs /\ ncli \in Nat /\ preempts \in 0 .. MaxPreempt /\ panicked \in BOOLEAN
    /\ pc \in [Procs -> {"user", "init", "lookup", "map", "load", "store", "release"}]
    /\ call \in [Procs -> [key : Keys, count : Counts \cup {0}]]
    /\ loaded \in [Procs -> Int]

\* No call has failed for want of memory, with a pushcli() left unmatched.
Sound == ~panicked /\ ncli = 0

\* Processes with a reference to key k share its pages, each mapping all of
\* them in the same order from the address it was given.
SameKeySamePages ==
    Sound => \A p \in Procs, k \in Keys :
        ref[p][k] # None =>
            /\ region[k].valid
            /\ \A i \in DOMAIN region[k].pages :
                pgdir[p][ref[p][k] + PageCount(k) - 1 - i] = region[k].pages[i]

\* A page that a process has mapped is not on kalloc()'s list.
NoDanglingPage == Sound => \A p \in Procs : Mapped(p) \cap free = {}

Quiet == Sound /\ \A p \in Procs : pc[p] = "user"

\* Between calls, refCount counts the references, and a region lives while
\* it has some.
RefCountExact ==
    Quiet => \A k \in Keys :
        LET users == {p \in Procs : ref[p][k] # None} IN
        /\ region[k].refCount = Cardinality(users)
        /\ region[k].valid <=> users # {}

\* Between calls no page is lost: what kalloc() does not have is mapped.
NoLeak == Quiet => Frames \ free = UNION {Mapped(p) : p \in Procs}

\* growproc() and GetSharedPage() leave the heap and the shared pages apart.
HeapBelowShared == \A p \in Procs : sz[p] <= shaddr[p]

\* mappages() panics with "remap" only where a region reaches down into the heap:
\* between p->sz and p->shaddr nothing is mapped, whichever regions were mapped,
\* freed, or mapped in part by a call that failed, and however the heap moved.
RemapOnlyHeap ==
    \A p \in Procs : \A a \in sz[p] .. shaddr[p] - 1 : pgdir[p][a] = None

\* Every frame is on the free list or in use, not both; the pages in use are
\* below and above shaddr as heap and as shared pages.
PagesAccounted == TypeOK /\ NoDanglingPage /\ NoLeak /\ HeapBelowShared
=============================================================================
