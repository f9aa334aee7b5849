----------------------------- MODULE FileBlocks -----------------------------
(***************************************************************************)
(* The contents of files of the xv6 kernel: block allocation, the block    *)
(* map of an inode, readi() and writei() of HW2/src/fs.c, fileread() and   *)
(* filewrite() of file.c, on a disk that mkfs.c made.                      *)
(*                                                                         *)
(* A block holds BSIZE cells; a cell is a value of the file or, in an      *)
(* indirect block, a block number.  A round of writei()'s loop and one     *)
(* bfree() of itrunc() are steps: what happens in one of them is protected *)
(* by the sleep lock of the bitmap block or of the inode.                  *)
(***************************************************************************)
EXTENDS Integers, Sequences, FiniteSets, FiniteSetsExt, SequencesExt, TLC

CONSTANTS
    Procs,
    Inodes,
    Blocks,         \* the data blocks, a set of positive integers
    BSIZE, NDIRECT, MAXOPBLOCKS,
    BPB,            \* bitmap bits per block
    Images,         \* the disks mkfs may have made: sequences of its appends <<inum, n>>,
                    \* which do not fill the last block of the root directory
    Sizes           \* the n of the read() and write() calls

ASSUME FileBlocksAssumption ==
    /\ Blocks \subseteq Nat \ {0} /\ Blocks # {}
    /\ {BSIZE, NDIRECT, BPB, MAXOPBLOCKS} \subseteq Nat \ {0} /\ MAXOPBLOCKS > 5
    /\ Sizes \subseteq Nat

VARIABLES
    disk,       \* the bitmap, the blocks and the inodes
    off,        \* f->off of the open file on each inode
    todo,       \* what each process is doing
    content,    \* history: what has been written to each inode
    blocked     \* the message of panic(), "" while the kernel runs

fbvars == <<disk, off, todo, content, blocked>>

NINDIRECT == BSIZE
MAXFILE == NDIRECT + NINDIRECT
Cells == 0 .. BSIZE - 1
Zeroes == [c \in Cells |-> 0]
NoFile == [size |-> 0, addrs |-> [n \in 0 .. NDIRECT |-> 0]]
FbIdle == [pc |-> "idle", ino |-> 0, n |-> 0, n1 |-> 0, tot |-> 0, log |-> {}, free |-> <<>>]

-----------------------------------------------------------------------------
(* Blocks.  An operator that may allocate returns the disk, the address and *)
(* the set of blocks it logged: block b as b, its bitmap block as -k, the   *)
(* inode as 0.                                                              *)

BBLOCK(b) == -1 - b \div BPB
FreeBlocks(d) == Blocks \ d.used

ballocUnzeroed(d) ==
    LET b == Min(FreeBlocks(d)) IN
    [d |-> [d EXCEPT !.used = @ \cup {b}], addr |-> b, log |-> {b, BBLOCK(b)}]

\* Allocate a zeroed disk block.
balloc(d) ==
    LET b == Min(FreeBlocks(d)) IN
    [d |-> [d EXCEPT !.used = @ \cup {b}, !.blk[b] = Zeroes], addr |-> b, log |-> {b, BBLOCK(b)}]

\* The block number at position bn of inode i, 0 when there is none.
Addr(d, i, bn) ==
    LET a == d.ino[i].addrs IN
    IF bn < NDIRECT THEN a[bn]
    ELSE IF a[NDIRECT] = 0 THEN 0 ELSE d.blk[a[NDIRECT]][bn - NDIRECT]

\* The blocks bmap() has to allocate.
Missing(d, i, bn) ==
    (IF Addr(d, i, bn) = 0 THEN 1 ELSE 0)
    + (IF bn >= NDIRECT /\ d.ino[i].addrs[NDIRECT] = 0 THEN 1 ELSE 0)

\* bmap(): find block bn of inode i, allocating it and the indirect block.
bmap(d, i, bn) ==
    IF Addr(d, i, bn) # 0 THEN [d |-> d, addr |-> Addr(d, i, bn), log |-> {}]
    ELSE IF bn < NDIRECT
    THEN LET b == balloc(d) IN [b EXCEPT !.d.ino[i].addrs[bn] = b.addr]
    ELSE LET ind == IF d.ino[i].addrs[NDIRECT] # 0
                    THEN [d |-> d, addr |-> d.ino[i].addrs[NDIRECT], log |-> {}]
                    ELSE LET b == balloc(d) IN [b EXCEPT !.d.ino[i].addrs[NDIRECT] = b.addr]
             old == ind.d.blk[ind.addr][bn - NDIRECT]
             b == balloc(ind.d)
         IN IF old # 0 THEN [ind EXCEPT !.addr = old]
            ELSE [d |-> [b.d EXCEPT !.blk[ind.addr][bn - NDIRECT] = b.addr],
                  addr |-> b.addr, log |-> ind.log \cup b.log \cup {ind.addr}]

Minimum(a, b) == IF a < b THEN a ELSE b

\* The cells of a block from position from on, m of them, become v.
Fill(blk, from, m, v) == [c \in Cells |-> IF c \in from .. from + m - 1 THEN v ELSE blk[c]]

\* How much readi() reads: nothing from beyond the size, and never past it.
ReadLength(size, o, n) == IF o > size THEN 0 ELSE Minimum(n, size - o)

\* The cells readi() returns.
readi(d, i, o, n) ==
    [k \in 1 .. ReadLength(d.ino[i].size, o, n) |->
       LET at == o + k - 1 IN d.blk[bmap(d, i, at \div BSIZE).addr][at % BSIZE]]

-----------------------------------------------------------------------------
(* mkfs                                                                    *)

\* iappend() of n cells v to inode i: blocks come from the counter freeblock.
\* One round writes into one block.
AppendRound(m, i, v) ==
    LET o == m.d.ino[i].size
        fbn == o \div BSIZE
        a == m.d.ino[i].addrs
        ind == fbn >= NDIRECT
        f1 == IF ind /\ a[NDIRECT] = 0 THEN m.freeblock + 1 ELSE m.freeblock
        ib == IF ~ind THEN 0 ELSE IF a[NDIRECT] = 0 THEN m.freeblock ELSE a[NDIRECT]
        old == Addr(m.d, i, fbn)
        x == IF old = 0 THEN f1 ELSE old
        n1 == Minimum(m.n, (fbn + 1) * BSIZE - o)
        d1 == IF ind THEN [m.d EXCEPT !.ino[i].addrs[NDIRECT] = ib, !.blk[ib][fbn - NDIRECT] = x]
              ELSE [m.d EXCEPT !.ino[i].addrs[fbn] = x]
    IN IF m.n = 0 THEN m
       ELSE [d |-> [d1 EXCEPT !.blk[x] = Fill(@, o % BSIZE, n1, v), !.ino[i].size = o + n1],
             n |-> m.n - n1, freeblock |-> IF old = 0 THEN f1 + 1 ELSE f1]

MkfsValue == 9

iappend(m, i, n) ==
    FoldLeft(LAMBDA acc, k : AppendRound(acc, i, MkfsValue), [m EXCEPT !.n = n],
             [k \in 1 .. MAXFILE |-> k])

ROOT == 1

\* mkfs's balloc(): the bitmap has the blocks that were handed out.
Marked(freeblock) == {b \in Blocks : b < freeblock}

\* main(): the appends in order; then the size of the root directory is rounded
\* up to the next block, and balloc() marks the blocks up to freeblock.
mkfs(image) ==
    LET empty == [d |-> [used |-> {}, blk |-> [b \in Blocks |-> Zeroes],
                         ino |-> [i \in Inodes |-> NoFile]],
                  n |-> 0, freeblock |-> Min(Blocks)]
        m == FoldLeft(LAMBDA acc, a : iappend(acc, a[1], a[2]), empty, image)
    IN [m.d EXCEPT !.used = Marked(m.freeblock),
                   !.ino[ROOT].size = (@ \div BSIZE + 1) * BSIZE]

\* What mkfs put into inode i.
Appended(image, i) == SumFunction([k \in DOMAIN image |-> IF image[k][1] = i THEN image[k][2] ELSE 0])

-----------------------------------------------------------------------------
(* read() and write()                                                      *)

maxTwice == ((MAXOPBLOCKS - 1 - 1) \div 2) * BSIZE

\* The most that filewrite() writes in one transaction.
max == ((MAXOPBLOCKS - 1 - 1 - 2) \div 2) * BSIZE

InodeLocked(i) == \E p \in Procs : todo[p].ino = i /\ todo[p].pc \in {"writei", "itrunc"}
DoNext(p, r) == todo' = [todo EXCEPT ![p] = r @@ @]

\* writei() refuses what would leave a hole or exceed the largest file.
Refused(i, n1) == off[i] > disk.ino[i].size \/ off[i] + n1 > MAXFILE * BSIZE

\* The data of a write: what goes to file i at offset o is told apart from what
\* goes to another file or offset.
Tag(i, o) == 10 * i + o

filewrite(p, i, n) ==
    /\ todo[p].pc = "idle" /\ n > 0
    /\ DoNext(p, [pc |-> "chunk", ino |-> i, n |-> n])
    /\ UNCHANGED <<disk, off, content, blocked>>

\* The next transaction of filewrite(), up to the loop of writei().
Chunk(p) ==
    LET i == todo[p].ino
        n1 == Minimum(todo[p].n, max) IN
    /\ todo[p].pc = "chunk" /\ ~InodeLocked(i)
    /\ IF Refused(i, n1) THEN todo' = [todo EXCEPT ![p] = FbIdle]
       ELSE DoNext(p, [pc |-> "writei", n1 |-> n1, tot |-> 0, log |-> {}])
    /\ UNCHANGED <<disk, off, content, blocked>>

\* One round of writei()'s loop; the last one updates the size and the offset.
WriteRound(p) ==
    LET t == todo[p]
        i == t.ino
        o == off[i] + t.tot
        bn == o \div BSIZE
        m == Minimum(t.n1 - t.tot, BSIZE - (o % BSIZE))
        b == bmap(disk, i, bn)
        last == t.tot + m = t.n1
        end == o + m
        grows == last /\ end > disk.ino[i].size
        d1 == [b.d EXCEPT !.blk[b.addr] = Fill(@, o % BSIZE, m, Tag(i, o))]
    IN
    /\ t.pc = "writei"
    /\ IF bn >= MAXFILE
       THEN /\ blocked' = "bmap: out of range"
            /\ UNCHANGED <<disk, off, todo, content>>
       ELSE IF Missing(disk, i, bn) > Cardinality(FreeBlocks(disk))
       THEN /\ blocked' = "balloc: out of blocks"
            /\ UNCHANGED <<disk, off, todo, content>>
       ELSE
       /\ disk' = IF grows THEN [d1 EXCEPT !.ino[i].size = end] ELSE d1
       /\ content' = [content EXCEPT ![i] =
                        [k \in 1 .. Max({Len(@), end}) |-> IF k \in o + 1 .. end THEN Tag(i, o) ELSE @[k]]]
       /\ off' = IF last THEN [off EXCEPT ![i] = end] ELSE off
       /\ IF last /\ t.n = t.n1 THEN todo' = [todo EXCEPT ![p] = FbIdle]
          ELSE DoNext(p, [pc |-> IF last THEN "chunk" ELSE "writei",
                          n |-> IF last THEN t.n - t.n1 ELSE t.n,
                          n1 |-> IF last THEN 0 ELSE t.n1,
                          tot |-> IF last THEN 0 ELSE t.tot + m,
                          log |-> IF last THEN {}
                                  ELSE t.log \cup b.log \cup {b.addr}])
       /\ UNCHANGED blocked

\* p's next round does not panic.
RoundGoesOn(p) ==
    LET bn == (off[todo[p].ino] + todo[p].tot) \div BSIZE IN
    bn < MAXFILE /\ Missing(disk, todo[p].ino, bn) <= Cardinality(FreeBlocks(disk))

\* The blocks the current transaction of p has logged by the end of its next round.
Logged(p) ==
    LET t == todo[p]
        o == off[t.ino] + t.tot
        b == bmap(disk, t.ino, o \div BSIZE)
        m == Minimum(t.n1 - t.tot, BSIZE - (o % BSIZE))
        grows == t.tot + m = t.n1 /\ o + m > disk.ino[t.ino].size
    IN t.log \cup b.log \cup {b.addr} \cup (IF grows THEN {0} ELSE {})

fileread(p, i, n) ==
    /\ todo[p].pc = "idle" /\ ~InodeLocked(i)
    /\ off' = [off EXCEPT ![i] = @ + ReadLength(disk.ino[i].size, @, n)]
    /\ UNCHANGED <<disk, todo, content, blocked>>

\* The file is closed and opened again: its offset starts at 0.
Reopen(p, i) ==
    /\ todo[p].pc = "idle" /\ \A q \in Procs : todo[q].ino # i
    /\ off' = [off EXCEPT ![i] = 0]
    /\ UNCHANGED <<disk, todo, content, blocked>>

-----------------------------------------------------------------------------
(* itrunc()                                                                *)

\* The blocks of inode i in the order itrunc() frees them.
BlockList(d, i) ==
    LET a == d.ino[i].addrs
        direct == [n \in 1 .. NDIRECT |-> a[n - 1]]
        ind == IF a[NDIRECT] = 0 THEN <<>>
               ELSE [n \in 1 .. NINDIRECT |-> d.blk[a[NDIRECT]][n - 1]] \o <<a[NDIRECT]>>
    IN SelectSeq(direct \o ind, LAMBDA b : b # 0)

\* The last reference to an inode without links is put: nobody else uses it.
\* Once its blocks are free the inode may be allocated to a new file.
itrunc(p, i) ==
    /\ todo[p].pc = "idle" /\ \A q \in Procs : todo[q].ino # i
    /\ BlockList(disk, i) # <<>>
    /\ DoNext(p, [pc |-> "itrunc", ino |-> i, free |-> BlockList(disk, i)])
    /\ UNCHANGED <<disk, off, content, blocked>>

SizeKept(inode) == [inode EXCEPT !.addrs = NoFile.addrs]

Truncated(inode) == [inode EXCEPT !.addrs = NoFile.addrs, !.size = 0]

\* The cells of a free block: not zero, and possibly the number of a block.
Stale == [c \in Cells |-> Min(Blocks)]

\* bfree() of one block; after the last one itrunc() clears the size.
bfree(p) ==
    LET t == todo[p]
        b == Head(t.free) IN
    /\ t.pc = "itrunc"
    /\ IF b \notin disk.used
       THEN /\ blocked' = "freeing free block"
            /\ UNCHANGED <<disk, off, todo, content>>
       ELSE /\ disk' = [disk EXCEPT !.used = @ \ {b}, !.blk[b] = Stale,
                                    !.ino[t.ino] = IF Len(t.free) > 1 THEN @ ELSE Truncated(@)]
            /\ IF Len(t.free) > 1
               THEN /\ DoNext(p, [free |-> Tail(t.free)])
                    /\ UNCHANGED <<off, content>>
               ELSE /\ todo' = [todo EXCEPT ![p] = FbIdle]
                    /\ content' = [content EXCEPT ![t.ino] = <<>>]
                    /\ off' = [off EXCEPT ![t.ino] = 0]
            /\ UNCHANGED blocked

-----------------------------------------------------------------------------
FbInit ==
    \E image \in Images :
      /\ disk = mkfs(image)
      /\ off = [i \in Inodes |-> 0]
      /\ todo = [p \in Procs |-> FbIdle]
      /\ content = [i \in Inodes |-> [k \in 1 .. disk.ino[i].size |->
                                     IF k <= Appended(image, i) THEN MkfsValue ELSE 0]]
      /\ blocked = ""

FbNext ==
    /\ blocked = ""
    /\ \E p \in Procs :
         \/ \E i \in Inodes, n \in Sizes : filewrite(p, i, n) \/ fileread(p, i, n)
         \/ \E i \in Inodes : Reopen(p, i) \/ itrunc(p, i)
         \/ Chunk(p) \/ WriteRound(p) \/ bfree(p)

FbSpec == FbInit /\ [][FbNext]_fbvars

-----------------------------------------------------------------------------
(* Properties                                                              *)

\* Sizes, block numbers and offsets stay in their ranges (fs.h).
FbTypeOK ==
    /\ disk.used \subseteq Blocks
    /\ \A i \in Inodes : /\ disk.ino[i].size \in 0 .. MAXFILE * BSIZE
                         /\ disk.ino[i].addrs \in [0 .. NDIRECT -> Blocks \cup {0}]
                         /\ off[i] \in 0 .. MAXFILE * BSIZE
    /\ \A p \in Procs : todo[p].pc \in {"idle", "chunk", "writei", "itrunc"}

Truncating(i) == \E p \in Procs : todo[p].pc = "itrunc" /\ todo[p].ino = i
Owned(i) ==
    IF Truncating(i) THEN UNION {ToSet(todo[p].free) : p \in {q \in Procs : todo[q].ino = i}}
    ELSE ToSet(BlockList(disk, i))

\* The bitmap marks exactly the blocks of files, each file's own: balloc() and
\* bmap() never hand out a block that is in use, itrunc() frees every block of the
\* file and no other, and mkfs starts the bitmap right.
BlocksOnce ==
    /\ disk.used = UNION {Owned(i) : i \in Inodes}
    /\ \A i, j \in Inodes : i # j => Owned(i) \cap Owned(j) = {}
    /\ \A i \in Inodes : ~Truncating(i) => IsInjective(BlockList(disk, i))

\* readi() returns, at every offset and for every length, what mkfs and the
\* write() calls put there, for files that use the indirect block too.
ReadsWhatWasWritten ==
    \A i \in Inodes : ~InodeLocked(i) =>
       /\ disk.ino[i].size = Len(content[i])
       /\ \A o \in 0 .. disk.ino[i].size, n \in 0 .. MAXFILE * BSIZE :
            readi(disk, i, o, n) = SubSeq(content[i], o + 1, Minimum(o + n, disk.ino[i].size))

\* bmap() called by readi() finds every block below the size of the file: read(),
\* which is no transaction, never allocates.
ReadNeverAllocates ==
    \A i \in Inodes : ~Truncating(i) =>
       \A bn \in 0 .. MAXFILE - 1 : bn * BSIZE < disk.ino[i].size => Addr(disk, i, bn) # 0

\* "write a few blocks at a time to avoid exceeding the maximum log transaction
\* size" (file.c): i-node, indirect block, allocation blocks and an unaligned start
\* included, a transaction of filewrite() logs at most MAXOPBLOCKS blocks.
TransactionFits ==
    \A p \in Procs : todo[p].pc = "writei" /\ RoundGoesOn(p) =>
       Cardinality(Logged(p)) <= MAXOPBLOCKS

\* The only panic is for want of space: no write() leaves the range of bmap(),
\* and no block is freed twice.
PanicOnlyWhenDiskFull == blocked # "" => blocked = "balloc: out of blocks"

\* Blocks are accounted for: each is free or has one use, and the kernel panics
\* about blocks only when none is left.
BlocksInv == FbTypeOK /\ BlocksOnce /\ PanicOnlyWhenDiskFull

\* A file holds what was written to it, in blocks that are there when it is read.
ContentsInv == ReadsWhatWasWritten /\ ReadNeverAllocates
=============================================================================
