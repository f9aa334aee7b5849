--------------------------------- MODULE Vm ---------------------------------
(***************************************************************************)
(* Memory of processes: the page allocator (HW2/src/kalloc.c), page tables *)
(* and user memory (vm.c), exec() and the memory side of fork(), exit(),   *)
(* wait() and sbrk() (proc.c).                                             *)
(*                                                                         *)
(* A step takes or returns frames as one kalloc() or one clean-up does, so *)
(* that the processes compete for the last frames at every point of their  *)
(* calls.  A size is counted in units of which a page has PGSIZE; a page's *)
(* content is one value.  The kernel part of a page table takes KPT page   *)
(* tables, and its mappings are the same in all of them.                   *)
(***************************************************************************)
EXTENDS Integers, Sequences, FiniteSets, FiniteSetsExt, SequencesExt, TLC

CONSTANTS
    Procs, init,    \* slots of the process table; init has the first one
    Frames,         \* physical pages, a set of positive integers
    PGSIZE, KERNBASE,   \* units per page, and in the user part of the address space
    NPTENTRIES,     \* pages that one page table maps
    KPT,            \* page tables for the kernel part
    Programs,       \* the files exec() may be given: sequences of segments
    Args,           \* the sizes of their arguments
    Grows           \* the n of the sbrk() calls

ASSUME VmAssumption ==
    /\ init \in Procs /\ Frames \subseteq Nat \ {0}
    /\ {PGSIZE, KERNBASE, NPTENTRIES} \subseteq Nat \ {0} /\ KPT \in Nat
    /\ Args \subseteq Nat /\ Grows \subseteq Int

VARIABLES
    free,       \* the frames on kmem.freelist
    mem,        \* what each frame holds
    as,         \* address spaces: p->pgdir with what it maps, and p->sz
    kstack,     \* p->kstack
    cr3,        \* the page directory the CPU uses while it runs p
    op,         \* the call p is in, and its locals
    view,       \* history: the memory that the calls so far have given p
    halted      \* the message of panic(), "" while the kernel runs

vmvars == <<free, mem, as, kstack, cr3, op, view, halted>>

PGROUNDUP(sz) == (sz + PGSIZE - 1) \div PGSIZE      \* in pages
MaxPages == KERNBASE \div PGSIZE
Pages == 0 .. MaxPages - 1
Tables == 0 .. (MaxPages - 1) \div NPTENTRIES
PDX(v) == v \div NPTENTRIES

\* No page directory; an entry that is 0 is not present.
NoSpace == [pgdir |-> 0, kpt |-> {}, pt |-> [t \in Tables |-> 0],
            pg |-> [v \in Pages |-> 0], user |-> {}, sz |-> 0]
OpNone == [pc |-> "run", call |-> "", new |-> NoSpace, frame |-> 0, at |-> 0, to |-> 0,
           segs |-> <<>>, args |-> 0, child |-> init]
OpUnused == [OpNone EXCEPT !.pc = "unused"]

Does(p, r) == op' = [op EXCEPT ![p] = r @@ @]
Halt(msg) ==
    /\ halted' = msg
    /\ UNCHANGED <<free, mem, as, kstack, cr3, op, view>>

-----------------------------------------------------------------------------
(* Frames of an address space, and freevm()                                *)

UserFrames(s) == {s.pg[v] : v \in Pages} \ {0}
TableFrames(s) == {s.pt[t] : t \in Tables} \ {0}

\* What freevm() frees: user pages, page tables, the directory.
freevm(s) == ({s.pgdir} \cup s.kpt \cup TableFrames(s) \cup UserFrames(s)) \ {0}

\* deallocuvm() from page count b down to a.  Page tables stay.
Dealloc(s, a, b) ==
    [s EXCEPT !.pg = [v \in Pages |-> IF v \in a .. b - 1 THEN 0 ELSE @[v]],
              !.user = {v \in @ : v \notin a .. b - 1}]

\* kfree() of a set of frames: filled with junk.
Freed(fs) == [f \in Frames |-> IF f \in fs THEN "junk" ELSE mem[f]]

\* The address space a call of p works on: its own, or the new one.
Space(p) == IF op[p].call = "grow" THEN as[p] ELSE op[p].new
SetSpace(p, s, r) ==
    IF op[p].call = "grow" THEN as' = [as EXCEPT ![p] = s] /\ Does(p, r)
    ELSE Does(p, r @@ [new |-> s]) /\ UNCHANGED as

-----------------------------------------------------------------------------
(* The loop of allocuvm() and of copyuvm(): kalloc() a page, then          *)
(* mappages(), which may kalloc() a page table.                            *)

\* The call fails: what it allocated is returned.  exec() and fork() drop the
\* new address space with freevm(), sbrk() takes its pages back with
\* deallocuvm(), and fork() drops the child's kernel stack and slot.
Fail(p, extra) ==
    LET o == op[p]
        dropped == IF o.call = "grow"
                   THEN UserFrames(as[p]) \ UserFrames(Dealloc(as[p], PGROUNDUP(as[p].sz), MaxPages))
                   ELSE freevm(o.new)
        stack == IF o.call = "fork" THEN {kstack[o.child]} ELSE {}
        back == dropped \cup extra \cup stack
    IN
    /\ free' = free \cup back
    /\ mem' = Freed(back)
    /\ as' = IF o.call = "grow"
             THEN [as EXCEPT ![p] = Dealloc(@, PGROUNDUP(@.sz), MaxPages)] ELSE as
    /\ kstack' = IF o.call = "fork" THEN [kstack EXCEPT ![o.child] = 0] ELSE kstack
    /\ op' = IF o.call = "fork" THEN [op EXCEPT ![p] = OpNone, ![o.child] = OpUnused]
             ELSE [op EXCEPT ![p] = OpNone]
    /\ UNCHANGED <<cr3, view, halted>>

\* copyuvm() looks the parent's page up and copies it.
NotPresent(p, v) == op[p].call = "fork" /\ as[p].pg[v] = 0
CopyOf(p, v) == mem[as[p].pg[v]]

PageUncleared(p, v) == IF op[p].call = "fork" THEN CopyOf(p, v) ELSE "junk"

\* The content of a page as it is mapped: a copy of the parent's, or zeroes.
PageContent(p, v) == IF op[p].call = "fork" THEN CopyOf(p, v) ELSE "zero"

\* kalloc() of the next page.
AllocPage(p) ==
    LET v == op[p].at IN
    /\ op[p].pc = "alloc" /\ v < op[p].to
    /\ IF NotPresent(p, v) THEN Halt("copyuvm: page not present")
       ELSE IF free = {} THEN Fail(p, {})
       ELSE LET f == Min(free) IN
            /\ free' = free \ {f}
            /\ mem' = [mem EXCEPT ![f] = PageContent(p, v)]
            /\ Does(p, [pc |-> "map", frame |-> f])
            /\ UNCHANGED <<as, kstack, cr3, view, halted>>

\* mappages() of that page: walkpgdir() makes the page table if there is none.
mappages(p) ==
    LET o == op[p]
        s == Space(p)
        v == o.at
        need == s.pt[PDX(v)] = 0
        t == IF need THEN Min(free) ELSE s.pt[PDX(v)]
        new == [s EXCEPT !.pt[PDX(v)] = t, !.pg[v] = o.frame,
                         !.user = IF o.call = "fork" /\ v \notin as[p].user THEN @ ELSE @ \cup {v}]
    IN
    /\ o.pc = "map"
    /\ IF need /\ free = {} THEN Fail(p, {o.frame})
       ELSE IF s.pg[v] # 0 THEN Halt("remap")
       ELSE /\ free' = IF need THEN free \ {t} ELSE free
            /\ mem' = IF need THEN [mem EXCEPT ![t] = "table"] ELSE mem
            /\ SetSpace(p, new, [pc |-> "alloc", frame |-> 0, at |-> v + 1])
            /\ UNCHANGED <<kstack, cr3, view, halted>>

-----------------------------------------------------------------------------
(* setupkvm(), for fork() and exec()                                       *)

setupkvm(p) ==
    LET s == op[p].new
        f == Min(free) IN
    /\ op[p].pc = "setupkvm"
    /\ IF s.pgdir # 0 /\ Cardinality(s.kpt) = KPT
       THEN /\ Does(p, [pc |-> IF op[p].call = "fork" THEN "alloc" ELSE "segment"])
            /\ UNCHANGED <<free, mem, as, kstack, cr3, view, halted>>
       ELSE IF free = {} THEN Fail(p, {})
       ELSE /\ free' = free \ {f}
            /\ mem' = [mem EXCEPT ![f] = "table"]
            /\ Does(p, [new |-> IF s.pgdir = 0 THEN [s EXCEPT !.pgdir = f]
                                ELSE [s EXCEPT !.kpt = @ \cup {f}]])
            /\ UNCHANGED <<as, kstack, cr3, view, halted>>

-----------------------------------------------------------------------------
(* sbrk(), fork(), exit() and wait()                                       *)

\* p runs user code: its first page is still there.
InUser(p) == op[p].pc = "run" /\ as[p].pg[0] # 0

\* Memory as user code sees it.
Visible(s) == [v \in 0 .. PGROUNDUP(s.sz) - 1 |-> mem[s.pg[v]]]

\* User code stores into one of its pages.
Store(p) ==
    \E v \in as[p].user :
      /\ InUser(p) /\ v < PGROUNDUP(as[p].sz)
      /\ mem' = [mem EXCEPT ![as[p].pg[v]] = p]
      /\ view' = [view EXCEPT ![p][v] = p]
      /\ UNCHANGED <<free, as, kstack, cr3, op, halted>>

GrowFrom(sz) == PGROUNDUP(sz)

TooLarge(newsz) == newsz >= KERNBASE

\* growproc(n), n > 0: allocuvm() on the process's own table.
Grow(p, n) ==
    /\ InUser(p) /\ n > 0 /\ ~TooLarge(as[p].sz + n)
    /\ Does(p, [pc |-> "alloc", call |-> "grow", at |-> GrowFrom(as[p].sz),
                to |-> PGROUNDUP(as[p].sz + n), args |-> as[p].sz + n])
    /\ UNCHANGED <<free, mem, as, kstack, cr3, view, halted>>

Grown(p) ==
    /\ op[p].pc = "alloc" /\ op[p].call = "grow" /\ op[p].at >= op[p].to
    /\ as' = [as EXCEPT ![p].sz = op[p].args]
    /\ view' = [view EXCEPT ![p] = [v \in 0 .. PGROUNDUP(op[p].args) - 1 |->
                                      IF v \in DOMAIN @ THEN @[v] ELSE "zero"]]
    /\ op' = [op EXCEPT ![p] = OpNone]
    /\ UNCHANGED <<free, mem, kstack, cr3, halted>>

ShrinkTo(sz) == PGROUNDUP(sz)

\* growproc(n), n < 0: deallocuvm().  A size that wraps below zero changes
\* nothing, and a new size of 0, taken for a failure, leaves p->sz as it was.
Shrink(p, n) ==
    LET sz == as[p].sz + n
        s == Dealloc(as[p], ShrinkTo(sz), PGROUNDUP(as[p].sz))
        back == UserFrames(as[p]) \ UserFrames(s) IN
    /\ InUser(p) /\ n < 0 /\ sz >= 0
    /\ as' = [as EXCEPT ![p] = IF sz = 0 THEN s ELSE [s EXCEPT !.sz = sz]]
    /\ free' = free \cup back
    /\ mem' = Freed(back)
    /\ view' = [view EXCEPT ![p] = [v \in 0 .. PGROUNDUP(sz) - 1 |-> @[v]]]
    /\ UNCHANGED <<kstack, cr3, op, halted>>

\* fork(): allocproc() takes a slot and a kernel stack.
Fork(p, q) ==
    /\ InUser(p) /\ op[q].pc = "unused" /\ free # {}
    /\ LET f == Min(free) IN
       /\ free' = free \ {f}
       /\ mem' = [mem EXCEPT ![f] = "stack"]
       /\ kstack' = [kstack EXCEPT ![q] = f]
    /\ op' = [op EXCEPT ![p] = [OpNone EXCEPT !.pc = "setupkvm", !.call = "fork", !.child = q,
                                              !.to = PGROUNDUP(as[p].sz)],
                        ![q].pc = "embryo"]
    /\ UNCHANGED <<as, cr3, view, halted>>

\* copyuvm() is complete: the child may run.
Forked(p) ==
    LET q == op[p].child IN
    /\ op[p].pc = "alloc" /\ op[p].call = "fork" /\ op[p].at >= op[p].to
    /\ as' = [as EXCEPT ![q] = [op[p].new EXCEPT !.sz = as[p].sz]]
    /\ view' = [view EXCEPT ![q] = view[p]]
    /\ cr3' = [cr3 EXCEPT ![q] = op[p].new.pgdir]
    /\ op' = [op EXCEPT ![p] = OpNone, ![q] = OpNone]
    /\ UNCHANGED <<free, mem, kstack, halted>>

\* exit(): also what becomes of a process without its first page, by a page fault.
\* sched() leaves its page table for the kernel's.
Exit(p) ==
    /\ op[p].pc = "run" /\ p # init
    /\ op' = [op EXCEPT ![p].pc = "zombie"]
    /\ cr3' = [cr3 EXCEPT ![p] = 0]
    /\ view' = [view EXCEPT ![p] = <<>>]
    /\ UNCHANGED <<free, mem, as, kstack, halted>>

\* wait() by the parent frees the kernel stack and the memory.
Reap(p) ==
    LET back == freevm(as[p]) \cup {kstack[p]} IN
    /\ op[p].pc = "zombie"
    /\ free' = free \cup back
    /\ mem' = Freed(back)
    /\ as' = [as EXCEPT ![p] = NoSpace]
    /\ kstack' = [kstack EXCEPT ![p] = 0]
    /\ op' = [op EXCEPT ![p] = OpUnused]
    /\ UNCHANGED <<cr3, view, halted>>

-----------------------------------------------------------------------------
(* exec()                                                                  *)

\* A segment: end, where it ends in memory; file, the pages that come from the
\* file, which readi() may fail to read when short.
Exec(p, segs, args) ==
    /\ InUser(p)
    /\ op' = [op EXCEPT ![p] = [OpNone EXCEPT !.pc = "setupkvm", !.call = "exec",
                                              !.segs = segs, !.args = args]]
    /\ UNCHANGED <<free, mem, as, kstack, cr3, view, halted>>

\* allocuvm() for the next segment, or for the stack after the last one.
Segment(p) ==
    LET s == op[p].new
        last == op[p].segs = <<>>
        base == IF last THEN PGROUNDUP(s.sz) * PGSIZE ELSE s.sz
        end == IF last THEN base + 2 * PGSIZE ELSE Head(op[p].segs).end
        size == IF end < base THEN base ELSE end    \* what allocuvm() returns
    IN
    /\ op[p].pc = "segment"
    /\ IF TooLarge(end) \/ size = 0 THEN Fail(p, {})
       ELSE /\ Does(p, [pc |-> "alloc", at |-> PGROUNDUP(base), to |-> PGROUNDUP(size),
                        new |-> [s EXCEPT !.sz = size]])
            /\ UNCHANGED <<free, mem, as, kstack, cr3, view, halted>>

\* loaduvm() of the segment; a file that ends early makes exec() fail.
Load(p) ==
    LET seg == Head(op[p].segs) IN
    /\ op[p].pc = "alloc" /\ op[p].call = "exec" /\ op[p].at >= op[p].to /\ op[p].segs # <<>>
    /\ IF seg.short THEN Fail(p, {})
       ELSE /\ mem' = [f \in Frames |-> IF \E v \in seg.file : op[p].new.pg[v] = f
                                        THEN "text" ELSE mem[f]]
            /\ Does(p, [pc |-> "segment", segs |-> Tail(op[p].segs)])
            /\ UNCHANGED <<free, as, kstack, cr3, view, halted>>

\* The pages that copyout() writes when exec() pushes the arguments.
ArgPages(s, args) == {v \in Pages : v < s.sz \div PGSIZE /\ v >= (s.sz - args) \div PGSIZE}

\* clearpteu() of the page below the stack, then copyout() of the arguments:
\* it fails at the first page without PTE_U.
Stack(p) ==
    LET s == [op[p].new EXCEPT !.user = @ \ {op[p].new.sz \div PGSIZE - 2}]
        pushed == ArgPages(s, op[p].args) IN
    /\ op[p].pc = "alloc" /\ op[p].call = "exec" /\ op[p].at >= op[p].to /\ op[p].segs = <<>>
    /\ IF ~(pushed \subseteq s.user) THEN Fail(p, {})
       ELSE /\ mem' = [f \in Frames |-> IF \E v \in pushed : s.pg[v] = f THEN "args" ELSE mem[f]]
            /\ Does(p, [pc |-> "commit", new |-> s])
            /\ UNCHANGED <<free, as, kstack, cr3, view, halted>>

CommitUnswitched(p) ==
    LET s == op[p].new IN
    /\ op[p].pc = "commit"
    /\ as' = [as EXCEPT ![p] = s]
    /\ view' = [view EXCEPT ![p] = Visible(s)]
    /\ Does(p, [pc |-> "freeold", new |-> as[p]])
    /\ UNCHANGED <<free, mem, kstack, cr3, halted>>

\* Commit to the user image, with switchuvm().
Commit(p) ==
    LET s == op[p].new IN
    /\ op[p].pc = "commit"
    /\ as' = [as EXCEPT ![p] = s]
    /\ cr3' = [cr3 EXCEPT ![p] = s.pgdir]
    /\ view' = [view EXCEPT ![p] = Visible(s)]
    /\ Does(p, [pc |-> "freeold", new |-> as[p]])
    /\ UNCHANGED <<free, mem, kstack, halted>>

FreeOld(p) ==
    LET back == freevm(op[p].new) IN
    /\ op[p].pc = "freeold"
    /\ free' = free \cup back
    /\ mem' = Freed(back)
    /\ op' = [op EXCEPT ![p] = OpNone]
    /\ UNCHANGED <<as, kstack, cr3, view, halted>>

-----------------------------------------------------------------------------
\* The first process: userinit() with setupkvm() and inituvm().
FirstFrames == [k \in 1 .. 4 + KPT |-> Min(Frames) + k - 1]
FirstSpace ==
    [NoSpace EXCEPT !.pgdir = FirstFrames[2], !.pt[0] = FirstFrames[3], !.pg[0] = FirstFrames[4],
                    !.kpt = {FirstFrames[k] : k \in 5 .. 4 + KPT}, !.user = {0}, !.sz = PGSIZE]

VmInit ==
    /\ free = Frames \ ToSet(FirstFrames)
    /\ mem = [f \in Frames |-> IF f \in free THEN "junk" ELSE
                               IF f = FirstFrames[1] THEN "stack" ELSE
                               IF f = FirstFrames[4] THEN "text" ELSE "table"]
    /\ as = [p \in Procs |-> IF p = init THEN FirstSpace ELSE NoSpace]
    /\ kstack = [p \in Procs |-> IF p = init THEN FirstFrames[1] ELSE 0]
    /\ cr3 = [p \in Procs |-> IF p = init THEN FirstFrames[2] ELSE 0]
    /\ op = [p \in Procs |-> IF p = init THEN OpNone ELSE OpUnused]
    /\ view = [p \in Procs |-> IF p = init THEN 0 :> "text" ELSE <<>>]
    /\ halted = ""

VmNext ==
    /\ halted = ""
    /\ \E p \in Procs :
         \/ Store(p) \/ Exit(p) \/ Reap(p)
         \/ \E n \in Grows : Grow(p, n) \/ Shrink(p, n)
         \/ \E q \in Procs : Fork(p, q)
         \/ \E segs \in Programs, args \in Args : Exec(p, segs, args)
         \/ setupkvm(p) \/ AllocPage(p) \/ mappages(p) \/ Grown(p) \/ Forked(p)
         \/ Segment(p) \/ Load(p) \/ Stack(p) \/ Commit(p) \/ FreeOld(p)

VmSpec == VmInit /\ [][VmNext]_vmvars

-----------------------------------------------------------------------------
(* Properties                                                              *)

Contents == {"junk", "zero", "text", "args", "table", "stack"} \cup Procs

\* Page tables name frames and the calls are at known points.
VmTypeOK ==
    /\ free \subseteq Frames /\ mem \in [Frames -> Contents]
    /\ \A p \in Procs : /\ as[p].pg \in [Pages -> Frames \cup {0}]
                        /\ as[p].pt \in [Tables -> Frames \cup {0}]
                        /\ as[p].sz \in 0 .. KERNBASE - 1
                        /\ kstack[p] \in Frames \cup {0} /\ cr3[p] \in Frames \cup {0}

\* The uses of frames: kernel stacks, address spaces, the new ones of fork() and
\* exec(), and the page a call has just allocated.
Mappings(s) ==
    (IF s.pgdir # 0 THEN 1 ELSE 0) + Cardinality(s.kpt)
    + Cardinality({t \in Tables : s.pt[t] # 0}) + Cardinality({v \in Pages : s.pg[v] # 0})
Uses ==
    MapThenSumSet(LAMBDA p : Mappings(as[p]) + Mappings(op[p].new), Procs)
    + Cardinality({p \in Procs : kstack[p] # 0}) + Cardinality({p \in Procs : op[p].frame # 0})
FramesOf(s) == ({s.pgdir} \cup s.kpt \cup TableFrames(s) \cup UserFrames(s)) \ {0}
InUse ==
    UNION {FramesOf(as[p]) \cup FramesOf(op[p].new) \cup ({kstack[p], op[p].frame} \ {0}) : p \in Procs}

\* No frame is lost and none is used twice: at every point of fork(), exec(),
\* sbrk(), exit() and wait(), the failing paths included, a frame is on the free
\* list or has exactly one use (page tables count too).
FramesOnce ==
    /\ InUse \cap free = {} /\ InUse \cup free = Frames
    /\ Uses = Cardinality(InUse)

\* A process has the memory its calls gave it and nobody else writes: copies of
\* the parent's pages after fork(), zeroes after sbrk(), the program after exec(),
\* and the same as before after a call that failed.
MemoryIntact ==
    \A p \in Procs : InUser(p) => Visible(as[p]) = view[p]

\* The page directory in use by a CPU is never on the free list: exec() switches
\* before freevm(), and wait() frees only what exit() has left.
DirectoryInUse == \A p \in Procs : cr3[p] # 0 => cr3[p] \notin free /\ mem[cr3[p]] = "table"

\* No sequence of calls reaches "remap" or "copyuvm: page not present": every page
\* below p->sz is mapped and none above it, also after a call that failed half way.
NoVmPanic == halted = ""

\* Frames are accounted for at every point of every call: each is free or has one
\* use, a directory in use is not free, and the kernel finds what it expects mapped.
FramesInv == VmTypeOK /\ FramesOnce /\ DirectoryInUse /\ NoVmPanic
=============================================================================
