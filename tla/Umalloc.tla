------------------------------- MODULE Umalloc -------------------------------
(***************************************************************************)
(* malloc() and free() of user programs (HW2/src/umalloc.c).               *)
(*                                                                         *)
(* Addresses count units of sizeof(Header).  The header base is at 0,      *)
(* below the heap, which starts at 2.  Of a heap only the headers are      *)
(* kept: hdr[a] is the header the code has written at a.                   *)
(***************************************************************************)
EXTENDS Integers, Sequences, FiniteSets, FiniteSetsExt, TLC

CONSTANTS
    Top,        \* sbrk() fails beyond it
    MinUnits,   \* what morecore() asks for at least (4096)
    Units       \* the sizes of blocks that are asked for, headers included

ASSUME UmallocAssumption ==
    /\ Top \in Nat /\ MinUnits \in Nat \ {0} /\ Units \subseteq Nat \ {0, 1}

VARIABLES
    heap,       \* [hdr, freep, brk]; freep is -1 before the first malloc()
    taken,      \* the blocks the program holds: their addresses and sizes
    gaps        \* units the program got from sbrk() itself

umvars == <<heap, taken, gaps>>

Start == 2
Header(ptr, size) == [ptr |-> ptr, size |-> size]

-----------------------------------------------------------------------------
StopsAtEnd(h, p, bp) == (bp > p /\ bp < h[p].ptr) \/ p >= h[p].ptr

\* Where free() stops: bp lies between p and its successor, or p is the last block
\* and bp is beyond one of the ends.
Stops(h, p, bp) ==
    LET next == h[p].ptr IN
    \/ bp > p /\ bp < next
    \/ p >= next /\ (bp > p \/ bp < next)

RECURSIVE Place(_, _, _)
Place(h, p, bp) == IF Stops(h, p, bp) THEN p ELSE Place(h, h[p].ptr, bp)

\* bp + bp->s.size == p->s.ptr
JoinsUp(h, p, bp) == bp + h[bp].size = h[p].ptr

\* p + p->s.size == bp
JoinsDown(h, p, bp) == p + h[p].size = bp

free(m, bp) ==
    LET p == Place(m.hdr, m.freep, bp)
        next == m.hdr[p].ptr
        up == JoinsUp(m.hdr, p, bp)
        new == IF up THEN Header(m.hdr[next].ptr, m.hdr[bp].size + m.hdr[next].size)
               ELSE Header(next, m.hdr[bp].size)
        down == JoinsDown(m.hdr, p, bp)
        h == IF down THEN [m.hdr EXCEPT ![p] = Header(new.ptr, @.size + new.size)]
             ELSE [m.hdr EXCEPT ![bp] = new, ![p].ptr = bp]
        gone == (IF up THEN {next} ELSE {}) \cup (IF down THEN {bp} ELSE {})
    IN [m EXCEPT !.hdr = [a \in DOMAIN h \ gone |-> h[a]], !.freep = p]

\* morecore(): 0 units more is a failure.
CanGrow(m, nu) == m.brk + Max({nu, MinUnits}) <= Top
morecore(m, nu) ==
    LET n == Max({nu, MinUnits}) IN
    free([m EXCEPT !.hdr = (m.brk :> Header(0, n)) @@ @, !.brk = @ + n], m.brk)

\* The block is taken from the end of p, which keeps its place in the list.
Carve(m, prev, p, n) ==
    LET rest == m.hdr[p].size - n IN
    IF rest = 0
    THEN [m |-> [m EXCEPT !.hdr[prev].ptr = m.hdr[p].ptr, !.freep = prev], a |-> p]
    ELSE [m |-> [m EXCEPT !.hdr = ((p + rest) :> Header(0, n))
                                  @@ [@ EXCEPT ![p].size = rest], !.freep = prev],
          a |-> p + rest]

Fits(size, n) == size >= n

\* The loop of malloc(): once around the list, then for more memory; a = 0 is a
\* null pointer.
RECURSIVE Search(_, _, _, _)
Search(m, prev, p, n) ==
    CASE Fits(m.hdr[p].size, n) -> Carve(m, prev, p, n)
      [] ~Fits(m.hdr[p].size, n) /\ p # m.freep -> Search(m, p, m.hdr[p].ptr, n)
      [] ~Fits(m.hdr[p].size, n) /\ p = m.freep /\ ~CanGrow(m, n) -> [m |-> m, a |-> 0]
      [] OTHER -> LET g == morecore(m, n) IN Search(g, g.freep, g.hdr[g.freep].ptr, n)

malloc(n) ==
    LET m == IF heap.freep # -1 THEN heap
             ELSE [heap EXCEPT !.hdr = (0 :> Header(0, 0)) @@ @, !.freep = 0]
        r == Search(m, m.freep, m.hdr[m.freep].ptr, n) IN
    /\ heap' = r.m
    /\ taken' = IF r.a = 0 THEN taken ELSE (r.a :> n) @@ taken
    /\ UNCHANGED gaps

Free(a) ==
    /\ heap' = free(heap, a)
    /\ taken' = [b \in DOMAIN taken \ {a} |-> taken[b]]
    /\ UNCHANGED gaps

\* The program may call sbrk() itself.
Sbrk ==
    /\ heap.brk + 1 <= Top
    /\ heap' = [heap EXCEPT !.brk = @ + 1] /\ gaps' = gaps \cup {heap.brk}
    /\ UNCHANGED taken

-----------------------------------------------------------------------------
UmInit ==
    /\ heap = [hdr |-> <<>>, freep |-> -1, brk |-> Start]
    /\ taken = <<>> /\ gaps = {}

UmNext == (\E n \in Units : malloc(n)) \/ (\E a \in DOMAIN taken : Free(a)) \/ Sbrk

UmSpec == UmInit /\ [][UmNext]_umvars

-----------------------------------------------------------------------------
(* Properties                                                              *)

FreeBlocks == DOMAIN heap.hdr \ (DOMAIN taken \cup {0})
Extent(a, n) == a .. a + n - 1

\* Headers of blocks the program holds say how long they are, and every header lies
\* in the heap.
UmTypeOK ==
    /\ heap.brk \in Start .. Top
    /\ \A a \in DOMAIN taken : a \in DOMAIN heap.hdr /\ heap.hdr[a].size = taken[a]

\* Every unit of the heap belongs to one block: no two blocks overlap, and nothing
\* is lost by splitting and joining.
HeapTiled ==
    LET pieces == {Extent(a, taken[a]) : a \in DOMAIN taken}
                  \cup {Extent(a, heap.hdr[a].size) : a \in FreeBlocks} \cup {{g} : g \in gaps} IN
    /\ UNION pieces = Start .. heap.brk - 1
    /\ \A x, y \in pieces : x # y => x \cap y = {}

\* The free list is one cycle through base and the free blocks, in the order of
\* their addresses; freep is on it.
ListInOrderOfAddresses ==
    heap.freep # -1 =>
       /\ heap.freep \in FreeBlocks \cup {0}
       /\ \A a \in FreeBlocks \cup {0} :
            heap.hdr[a].ptr = LET above == {b \in FreeBlocks : b > a} IN
                              IF above = {} THEN 0 ELSE Min(above)

\* Neighbours that are free are joined, so that memory given back can serve a larger
\* request.
NoFreeNeighbours ==
    \A a, b \in FreeBlocks : a + heap.hdr[a].size # b

\* The heap is sound: tiled by its blocks, with the free ones in order and joined.
HeapInv == UmTypeOK /\ HeapTiled /\ ListInOrderOfAddresses /\ NoFreeNeighbours
=============================================================================
