--------------------------- MODULE BufCacheProofs ---------------------------
(***************************************************************************)
(* For any number of processes, buffers and blocks, the buffer cache of    *)
(* HW2/src/bio.c with the disk driver of ide.c keeps one copy of a block,  *)
(* shows its user what was last written to it, counts its users, wakes the *)
(* sleepers, and panics only when every buffer is in use or pinned.        *)
(*                                                                         *)
(* First the inductive invariant and the steps of the processes that have a*)
(* buffer and of the disk; then the counting of the users, bget(), brelse()*)
(* and the theorems.                                                       *)
(***************************************************************************)
EXTENDS BufCache, FiniteSetTheorems, TLAPS

-----------------------------------------------------------------------------
(* The inductive invariant                                                 *)

\* Where a process holds b->lock, and where it has a buffer from bget().
HoldPCs == {"read", "io", "iosleep", "use"}
HavePCs == HoldPCs \cup {"lock", "locksleep", "unref"}

\* What a process that has a buffer may rely on.
UseInv ==
    \A p \in Procs :
        /\ buf[p] # None <=> pc[p] \in HavePCs
        /\ buf[p] # None => want[p] # None /\ block[buf[p]] = want[p]
        /\ pc[p] \in HoldPCs => owner[buf[p]] = p
        /\ pc[p] = "use" => buf[p] \in valid

\* A locked buffer is that of the process that holds the lock.
LockInv ==
    \A b \in Bufs : owner[b] # None => buf[owner[b]] = b /\ pc[owner[b]] \in HoldPCs

\* A valid buffer has what was last written, and so has the disk unless the
\* block's buffer is dirty.
DataInv ==
    /\ dirty \subseteq valid
    /\ \A b \in valid : block[b] # None /\ data[b] = last[block[b]]
    /\ \A k \in Blocks : (\A b \in dirty : block[b] # k) => disk[k] = last[k]

Distinct(q) == \A i, j \in 1 .. Len(q) : q[i] = q[j] => i = j

\* A queued buffer waits for the disk, and so does the process that locked it.
QueueInv ==
    /\ Distinct(idequeue)
    /\ \A b \in Range(idequeue) :
        b \notin valid \ dirty /\ owner[b] # None /\ pc[owner[b]] \in {"io", "iosleep"}

\* A sleeper has a reason, and a request that is not served is queued.
SleepInv ==
    \A p \in Procs :
        /\ pc[p] = "locksleep" => owner[buf[p]] # None
        /\ pc[p] = "iosleep" => buf[p] \in Range(idequeue)
        /\ pc[p] = "io" => buf[p] \in Range(idequeue) \cup (valid \ dirty)

IInv ==
    /\ TypeOK /\ OneCopy /\ RefExact
    /\ UseInv /\ LockInv /\ DataInv /\ QueueInv /\ SleepInv

-----------------------------------------------------------------------------
(* Lemmas about the operators                                              *)

\* brelse() moves a buffer to the front of the list, which keeps them all.
LEMMA FrontKeepsAll ==
    ASSUME TypeOK, NEW b \in Bufs
    PROVE  ToFront(b) \in [Bufs -> Bufs] /\ Range(ToFront(b)) = Bufs
<1> DEFINE i == CHOOSE i \in Bufs : lru[i] = b
           f == [j \in Bufs |-> IF j = 1 THEN b ELSE IF j <= i THEN lru[j - 1] ELSE lru[j]]
<1>1. i \in Bufs /\ lru[i] = b
  BY DEF TypeOK, Range
<1>2. ToFront(b) = f
  BY Zenon DEF ToFront
<1> HIDE DEF i
<1>3. f \in [Bufs -> Bufs]
  <2>1. \A j \in Bufs : j # 1 => j - 1 \in Bufs
    BY BufAssumption DEF Bufs
  <2> QED
    BY <1>1, <2>1, Zenon DEF TypeOK
<1>4. ASSUME NEW c \in Bufs PROVE \E j \in Bufs : f[j] = c
  <2>1. PICK j \in Bufs : lru[j] = c
    BY Zenon DEF TypeOK, Range
  <2>2. CASE c = b
    BY <2>2, BufAssumption DEF Bufs
  <2>3. CASE c # b /\ j < i
    <3>1. j + 1 \in Bufs /\ j + 1 # 1 /\ j + 1 <= i /\ (j + 1) - 1 = j
      BY <1>1, <2>3, BufAssumption DEF Bufs
    <3>2. f[j + 1] = c
      BY <2>1, <3>1, Zenon
    <3> QED
      BY <3>1, <3>2, Zenon
  <2>4. CASE c # b /\ ~(j < i)
    <3>1. j # 1 /\ ~(j <= i)
      BY <1>1, <2>1, <2>4 DEF Bufs
    <3> QED
      BY <2>1, <3>1, Zenon
  <2> QED
    BY <2>2, <2>3, <2>4, Zenon
<1> HIDE DEF f
<1> QED
  BY <1>2, <1>3, <1>4, Zenon DEF Range

\* iderw() appends a buffer that is not in the queue.
LEMMA AppendQueue ==
    ASSUME NEW q \in Seq(Bufs), NEW b \in Bufs
    PROVE  /\ Append(q, b) \in Seq(Bufs) /\ Range(Append(q, b)) = Range(q) \cup {b}
           /\ Distinct(q) /\ b \notin Range(q) => Distinct(Append(q, b))
<1>1. /\ Append(q, b) \in Seq(Bufs) /\ Len(Append(q, b)) = Len(q) + 1
      /\ \A i \in 1 .. Len(q) : Append(q, b)[i] = q[i]
      /\ Append(q, b)[Len(q) + 1] = b
      /\ Len(q) \in Nat /\ DOMAIN q = 1 .. Len(q)
      /\ DOMAIN Append(q, b) = 1 .. Len(q) + 1
  OBVIOUS
<1>2. Range(Append(q, b)) = Range(q) \cup {b}
  BY <1>1 DEF Range
<1>3. ASSUME Distinct(q), b \notin Range(q) PROVE Distinct(Append(q, b))
  <2>1. \A k \in 1 .. Len(q) : q[k] # b
    BY <1>1, <1>3, Zenon DEF Range
  <2> QED
    BY <1>1, <1>3, <2>1 DEF Distinct
<1> QED
  BY <1>1, <1>2, <1>3, Zenon

\* ideintr() takes the first buffer off the queue.
LEMMA TailQueue ==
    ASSUME NEW q \in Seq(Bufs), q # <<>>, Distinct(q)
    PROVE  /\ Tail(q) \in Seq(Bufs) /\ Distinct(Tail(q))
           /\ Head(q) \in Bufs /\ Head(q) \in Range(q)
           /\ Range(Tail(q)) = Range(q) \ {Head(q)}
<1>1. /\ Len(q) \in Nat \ {0} /\ DOMAIN q = 1 .. Len(q) /\ Head(q) = q[1]
      /\ \A i \in 1 .. Len(q) : q[i] \in Bufs
      /\ Tail(q) \in Seq(Bufs) /\ Len(Tail(q)) = Len(q) - 1
      /\ DOMAIN Tail(q) = 1 .. Len(q) - 1
      /\ \A i \in 1 .. Len(q) - 1 : Tail(q)[i] = q[i + 1]
  OBVIOUS
<1>2. Distinct(Tail(q))
  BY <1>1 DEF Distinct
<1>3. Range(Tail(q)) = Range(q) \ {Head(q)}
  <2>1. ASSUME NEW b \in Range(Tail(q)) PROVE b \in Range(q) \ {Head(q)}
    <3>1. PICK i \in 1 .. Len(q) - 1 : b = q[i + 1]
      BY <1>1, <2>1, Zenon DEF Range
    <3>2. i + 1 \in 1 .. Len(q) /\ i + 1 # 1
      BY <1>1
    <3> QED
      BY <1>1, <3>1, <3>2 DEF Range, Distinct
  <2>2. ASSUME NEW b \in Range(q) \ {Head(q)} PROVE b \in Range(Tail(q))
    <3>1. PICK i \in 1 .. Len(q) : b = q[i]
      BY <1>1, <2>2, Zenon DEF Range
    <3>2. i - 1 \in 1 .. Len(q) - 1 /\ (i - 1) + 1 = i
      BY <1>1, <2>2, <3>1
    <3>3. Tail(q)[i - 1] = b
      BY <1>1, <3>1, <3>2, Zenon
    <3> QED
      BY <1>1, <3>2, <3>3, Zenon DEF Range
  <2> QED
    BY <2>1, <2>2, Zenon
<1>4. Head(q) \in Bufs /\ Head(q) \in Range(q)
  <2>1. 1 \in 1 .. Len(q)
    BY <1>1
  <2> QED
    BY <1>1, <2>1, Zenon DEF Range
<1> QED
  BY <1>1, <1>2, <1>3, <1>4, Zenon

\* A process that has a buffer has the block it asked for.
LEMMA HasBuffer ==
    ASSUME IInv, NEW p \in Procs, pc[p] \in HavePCs
    PROVE  buf[p] \in Bufs /\ want[p] \in Blocks /\ block[buf[p]] = want[p]
BY DEF IInv, UseInv, TypeOK

\* A queued buffer is locked by a process that waits for the disk.
LEMMA Queued ==
    ASSUME IInv, NEW b \in Range(idequeue)
    PROVE  /\ b \in Bufs /\ owner[b] \in Procs /\ buf[owner[b]] = b
           /\ pc[owner[b]] \in {"io", "iosleep"} /\ b \notin valid \ dirty
<1>1. b \in Bufs
  BY DEF IInv, TypeOK, Range
<1> QED
  BY <1>1 DEF IInv, TypeOK, QueueInv, LockInv

-----------------------------------------------------------------------------
(* bget() and bread()                                                      *)

\* Waiting for the lock of a buffer, or taking it, keeps the invariant.
LEMMA AcquireKeeps ==
    ASSUME IInv, NEW p \in Procs, acquiresleep(p)
    PROVE  IInv'
<1> DEFINE b == buf[p]
<1>0. TypeOK /\ OneCopy /\ RefExact /\ UseInv /\ LockInv /\ DataInv /\ QueueInv /\ SleepInv
  BY Zenon DEF IInv
<1>1. /\ pc[p] = "lock" /\ b \in Bufs
      /\ UNCHANGED <<lru, block, valid, dirty, data, refcnt, disk, idequeue, buf, want, last>>
  BY HasBuffer, Zenon DEF acquiresleep, bufVars, HavePCs
<1>2. OneCopy' /\ RefExact' /\ DataInv'
  BY <1>0, <1>1 DEF OneCopy, RefExact, DataInv
<1>3. CASE owner[b] # None
  <2>1. pc' = [pc EXCEPT ![p] = "locksleep"] /\ owner' = owner
    BY <1>3, Zenon DEF acquiresleep, Goto
  <2>2. TypeOK'
    BY <1>0, <1>1, <2>1, Zenon DEF TypeOK, PCs
  <2>3. \A q \in Procs : pc'[q] = IF q = p THEN "locksleep" ELSE pc[q]
    BY <1>0, <2>1, Zenon DEF TypeOK
  <2>4. UseInv' /\ LockInv'
    BY <1>0, <1>1, <2>1, <2>3 DEF UseInv, LockInv, HoldPCs, HavePCs, TypeOK
  <2>5. QueueInv'
    BY <1>0, <1>1, <2>1, <2>3, Queued DEF QueueInv
  <2>6. SleepInv'
    BY <1>0, <1>1, <1>3, <2>1, <2>3 DEF SleepInv
  <2> QED
    BY <1>2, <2>2, <2>4, <2>5, <2>6, Zenon DEF IInv
<1>4. CASE owner[b] = None
  <2>1. pc' = [pc EXCEPT ![p] = "read"] /\ owner' = [owner EXCEPT ![b] = p]
    BY <1>4, Zenon DEF acquiresleep, Goto
  <2>2. TypeOK'
    BY <1>0, <1>1, <2>1, Zenon DEF TypeOK, PCs
  <2>3. /\ \A q \in Procs : pc'[q] = IF q = p THEN "read" ELSE pc[q]
        /\ \A c \in Bufs : owner'[c] = IF c = b THEN p ELSE owner[c]
        /\ p # None
    BY <1>0, <1>1, <2>1, BufAssumption, Zenon DEF TypeOK
  <2> HIDE DEF b
  <2>8. /\ \A c \in Bufs : owner[c] \in Procs \cup {None}
        /\ \A q \in Procs : buf[q] \in Bufs \cup {None}
    BY <1>0, Zenon DEF TypeOK
  <2>4. UseInv'
    <3> SUFFICES ASSUME NEW q \in Procs
                 PROVE  /\ buf[q] # None <=> pc'[q] \in HavePCs
                        /\ buf[q] # None => want[q] # None /\ block[buf[q]] = want[q]
                        /\ pc'[q] \in HoldPCs => owner'[buf[q]] = q
                        /\ pc'[q] = "use" => buf[q] \in valid
      BY <1>1, Zenon DEF UseInv
    <3>1. CASE q = p
      BY <1>0, <1>1, <2>3, <3>1, Zenon DEF UseInv, HoldPCs, HavePCs, b
    <3>2. CASE q # p
      BY <1>0, <1>4, <2>3, <2>8, <3>2, BufAssumption DEF UseInv, HoldPCs, HavePCs
    <3> QED
      BY <3>1, <3>2, Zenon
  <2>7. LockInv'
    BY <1>0, <1>1, <1>4, <2>3, <2>8 DEF LockInv, HoldPCs, b
  <2>5. QueueInv'
    BY <1>0, <1>1, <1>4, <2>3, Queued DEF QueueInv
  <2>6. SleepInv'
    BY <1>0, <1>1, <2>3 DEF SleepInv, TypeOK, UseInv, HavePCs
  <2> QED
    BY <1>2, <2>2, <2>4, <2>5, <2>6, <2>7, Zenon DEF IInv
<1> QED
  BY <1>3, <1>4, Zenon

\* Reading a buffer that is not valid queues it, as iderw() does, and keeps
\* the invariant.
LEMMA BreadKeeps ==
    ASSUME IInv, NEW p \in Procs, bread(p)
    PROVE  IInv'
<1> DEFINE b == buf[p]
<1>0. TypeOK /\ OneCopy /\ RefExact /\ UseInv /\ LockInv /\ DataInv /\ QueueInv /\ SleepInv
  BY Zenon DEF IInv
<1>1. /\ pc[p] = "read" /\ b \in Bufs /\ owner[b] = p
      /\ UNCHANGED <<lru, block, valid, dirty, data, refcnt, owner, disk, buf, want, last>>
  BY <1>0, HasBuffer, Zenon DEF bread, bufVars, HavePCs, HoldPCs, UseInv
<1>2. OneCopy' /\ RefExact' /\ DataInv'
  BY <1>0, <1>1 DEF OneCopy, RefExact, DataInv
<1>3. CASE b \in valid
  <2>1. pc' = [pc EXCEPT ![p] = "use"] /\ idequeue' = idequeue
    BY <1>3, Zenon DEF bread, Goto
  <2>2. TypeOK'
    BY <1>0, <1>1, <2>1, Zenon DEF TypeOK, PCs
  <2>3. \A q \in Procs : pc'[q] = IF q = p THEN "use" ELSE pc[q]
    BY <1>0, <2>1, Zenon DEF TypeOK
  <2>4. UseInv' /\ LockInv'
    BY <1>0, <1>1, <1>3, <2>1, <2>3 DEF UseInv, LockInv, HoldPCs, HavePCs, TypeOK
  <2>5. QueueInv'
    BY <1>0, <1>1, <2>1, <2>3, Queued DEF QueueInv
  <2>6. SleepInv'
    BY <1>0, <1>1, <2>1, <2>3 DEF SleepInv
  <2> QED
    BY <1>2, <2>2, <2>4, <2>5, <2>6, Zenon DEF IInv
<1>4. CASE b \notin valid
  <2>1. pc' = [pc EXCEPT ![p] = "iosleep"] /\ idequeue' = Append(idequeue, b)
    BY <1>4, Zenon DEF bread, Goto
  <2>7. b \notin Range(idequeue)
    BY <1>1, Queued, Zenon
  <2>8. idequeue' \in Seq(Bufs) /\ Range(idequeue') = Range(idequeue) \cup {b} /\ Distinct(idequeue')
    BY <1>0, <1>1, <2>1, <2>7, AppendQueue, Zenon DEF TypeOK, QueueInv
  <2>2. TypeOK'
    BY <1>0, <1>1, <2>1, <2>8, Zenon DEF TypeOK, PCs
  <2>3. \A q \in Procs : pc'[q] = IF q = p THEN "iosleep" ELSE pc[q]
    BY <1>0, <2>1, Zenon DEF TypeOK
  <2>4. UseInv' /\ LockInv'
    BY <1>0, <1>1, <2>1, <2>3 DEF UseInv, LockInv, HoldPCs, HavePCs, TypeOK
  <2>5. QueueInv'
    BY <1>0, <1>1, <1>4, <2>3, <2>8, BufAssumption, Queued DEF QueueInv
  <2>6. SleepInv'
    BY <1>0, <1>1, <2>3, <2>8, Zenon DEF SleepInv
  <2> QED
    BY <1>2, <2>2, <2>4, <2>5, <2>6, Zenon DEF IInv
<1> QED
  BY <1>3, <1>4, Zenon

\* The test of iderw()'s loop keeps the invariant.
LEMMA IderwKeeps ==
    ASSUME IInv, NEW p \in Procs, iderw(p)
    PROVE  IInv'
<1> DEFINE b == buf[p]
           l == IF b \in valid \ dirty THEN "use" ELSE "iosleep"
<1>0. TypeOK /\ OneCopy /\ RefExact /\ UseInv /\ LockInv /\ DataInv /\ QueueInv /\ SleepInv
  BY Zenon DEF IInv
<1>1. /\ pc[p] = "io" /\ pc' = [pc EXCEPT ![p] = l]
      /\ UNCHANGED <<lru, block, valid, dirty, data, refcnt, owner, disk, idequeue, buf, want, last>>
  BY Zenon DEF iderw, bufVars, Goto
<1>2. OneCopy' /\ RefExact' /\ DataInv'
  BY <1>0, <1>1, Zenon DEF OneCopy, RefExact, DataInv
<1>3. TypeOK'
  BY <1>0, <1>1, Zenon DEF TypeOK, PCs
<1>4. \A q \in Procs : pc'[q] = IF q = p THEN l ELSE pc[q]
  BY <1>0, <1>1, Zenon DEF TypeOK
<1>5. UseInv' /\ LockInv'
  BY <1>0, <1>1, <1>4 DEF UseInv, LockInv, HoldPCs, HavePCs, TypeOK
<1>6. QueueInv'
  <2>1. ASSUME NEW c \in Range(idequeue) PROVE pc'[owner[c]] \in {"io", "iosleep"}
    BY <1>4, Queued, Zenon
  <2> QED
    BY <1>0, <1>1, <2>1, Zenon DEF QueueInv
<1>7. SleepInv'
  BY <1>0, <1>1, <1>4 DEF SleepInv
<1> QED
  BY <1>2, <1>3, <1>5, <1>6, <1>7, Zenon DEF IInv

-----------------------------------------------------------------------------
(* The disk                                                                *)

\* The disk's answer keeps the invariant: it moves what was last written
\* between buffer and disk, and wakes the process waiting for it.
LEMMA IdeintrKeeps ==
    ASSUME IInv, ideintr
    PROVE  IInv'
<1> DEFINE b == Head(idequeue)
<1>0. TypeOK /\ OneCopy /\ RefExact /\ UseInv /\ LockInv /\ DataInv /\ QueueInv /\ SleepInv
  BY Zenon DEF IInv
<1>1. /\ idequeue' = Tail(idequeue)
      /\ valid' = valid \cup {b} /\ dirty' = dirty \ {b}
      /\ pc' = Woken(pc, "iosleep", "io", b)
      /\ \/ b \in dirty /\ disk' = [disk EXCEPT ![block[b]] = data[b]] /\ data' = data
         \/ b \notin dirty /\ data' = [data EXCEPT ![b] = disk[block[b]]] /\ disk' = disk
      /\ UNCHANGED <<lru, block, refcnt, owner, buf, want, last>>
  BY Zenon DEF ideintr
<1>2. /\ idequeue' \in Seq(Bufs) /\ Distinct(idequeue') /\ b \in Range(idequeue)
      /\ Range(idequeue') = Range(idequeue) \ {b}
  BY <1>0, <1>1, TailQueue DEF ideintr, TypeOK, QueueInv
<1>3. b \in Bufs /\ owner[b] \in Procs /\ block[b] \in Blocks /\ b \notin valid \ dirty
  BY <1>2, Queued, HasBuffer, Zenon DEF HavePCs, HoldPCs
<1> HIDE DEF b
<1>4. \A q \in Procs : pc'[q] = IF pc[q] = "iosleep" /\ buf[q] = b THEN "io" ELSE pc[q]
  BY <1>1, Zenon DEF Woken
<1>5. TypeOK'
  <2>1. pc' \in [Procs -> PCs]
    BY <1>0, <1>1, Zenon DEF TypeOK, PCs, Woken
  <2>2. data' \in [Bufs -> Vals] /\ disk' \in [Blocks -> Vals]
    <3>1. data[b] \in Vals /\ disk[block[b]] \in Vals
      BY <1>0, <1>3, Zenon DEF TypeOK
    <3>2. data \in [Bufs -> Vals] /\ disk \in [Blocks -> Vals]
      BY <1>0, Zenon DEF TypeOK
    <3> QED
      BY <1>1, <3>1, <3>2, Zenon
  <2> QED
    BY <1>0, <1>1, <1>2, <1>3, <2>1, <2>2, Zenon DEF TypeOK
<1>6. OneCopy' /\ RefExact'
  BY <1>0, <1>1, Zenon DEF OneCopy, RefExact
<1>7. UseInv' /\ LockInv'
  BY <1>0, <1>1, <1>4 DEF UseInv, LockInv, HoldPCs, HavePCs, TypeOK
<1>8. DataInv'
  <2>1. \A c \in Bufs : block[c] = block[b] => c = b
    BY <1>0, <1>3, BufAssumption, Zenon DEF OneCopy
  <2>2. data'[b] = last[block[b]]
    <3>1. CASE b \in dirty
      BY <1>0, <1>1, <3>1, Zenon DEF DataInv
    <3>2. CASE b \notin dirty
      <4>1. \A c \in dirty : block[c] # block[b]
        BY <1>0, <2>1, <3>2, Zenon DEF TypeOK
      <4>2. disk[block[b]] = last[block[b]]
        BY <1>0, <1>3, <4>1, Zenon DEF DataInv
      <4> QED
        BY <1>0, <1>1, <1>3, <3>2, <4>2, Zenon DEF TypeOK
    <3> QED
      BY <3>1, <3>2, Zenon
  <2>3. \A c \in Bufs : c # b => data'[c] = data[c]
    BY <1>0, <1>1, Zenon DEF TypeOK
  <2>4. ASSUME NEW k \in Blocks, \A c \in dirty' : block[c] # k PROVE disk'[k] = last[k]
    <3>1. CASE b \in dirty /\ k = block[b]
      BY <1>0, <1>1, <3>1, Zenon DEF TypeOK, DataInv
    <3>2. CASE ~(b \in dirty /\ k = block[b])
      <4>1. \A c \in dirty : block[c] # k
        BY <1>1, <2>4, <3>2, Zenon
      <4>2. disk'[k] = disk[k]
        BY <1>0, <1>1, <3>2, Zenon DEF TypeOK
      <4> QED
        BY <1>0, <4>1, <4>2, Zenon DEF DataInv
    <3> QED
      BY <3>1, <3>2, Zenon
  <2>5. \A c \in valid' : block[c] # None /\ data'[c] = last[block[c]]
    BY <1>0, <1>1, <1>3, <2>2, <2>3, BufAssumption, Zenon DEF DataInv, TypeOK
  <2> QED
    BY <1>0, <1>1, <2>4, <2>5, Zenon DEF DataInv
<1>9. QueueInv'
  <2>1. ASSUME NEW c \in Range(idequeue')
        PROVE  c \notin valid' \ dirty' /\ owner[c] # None /\ pc'[owner[c]] \in {"io", "iosleep"}
    BY <1>1, <1>2, <1>4, Queued, BufAssumption
  <2> QED
    BY <1>1, <1>2, <2>1, Zenon DEF QueueInv
<1>10. SleepInv'
  BY <1>0, <1>1, <1>2, <1>3, <1>4, Zenon DEF SleepInv
<1> QED
  BY <1>5, <1>6, <1>7, <1>8, <1>9, <1>10, Zenon DEF IInv

-----------------------------------------------------------------------------
(* The holder of a buffer                                                  *)

\* log_write() of the buffer's only user keeps the invariant.
LEMMA LogWriteKeeps ==
    ASSUME IInv, NEW p \in Procs, NEW v \in Vals, LogWrite(p, v)
    PROVE  IInv'
<1> DEFINE b == buf[p]
<1>0. TypeOK /\ OneCopy /\ RefExact /\ UseInv /\ LockInv /\ DataInv /\ QueueInv /\ SleepInv
  BY Zenon DEF IInv
<1>1. /\ pc[p] = "use" /\ b \in Bufs /\ block[b] \in Blocks /\ owner[b] = p /\ b \in valid
      /\ data' = [data EXCEPT ![b] = v] /\ last' = [last EXCEPT ![block[b]] = v]
      /\ dirty' = dirty \cup {b}
      /\ UNCHANGED <<lru, block, valid, refcnt, owner, disk, idequeue, pc, buf, want>>
  BY <1>0, HasBuffer, Zenon DEF LogWrite, HavePCs, HoldPCs, UseInv
<1>2. OneCopy' /\ RefExact' /\ UseInv' /\ LockInv'
  BY <1>0, <1>1 DEF OneCopy, RefExact, UseInv, LockInv
<1> HIDE DEF b
<1>3. TypeOK'
  <2>1. data' \in [Bufs -> Vals] /\ last' \in [Blocks -> Vals]
    BY <1>0, <1>1, Zenon DEF TypeOK
  <2> QED
    BY <1>0, <1>1, <2>1, Zenon DEF TypeOK
<1>8. DataInv'
  <2>1. \A c \in Bufs : c # b => block[c] # block[b]
    BY <1>0, <1>1, BufAssumption, Zenon DEF OneCopy
  <2>2. /\ \A c \in Bufs : data'[c] = IF c = b THEN v ELSE data[c]
        /\ \A k \in Blocks : last'[k] = IF k = block[b] THEN v ELSE last[k]
    BY <1>0, <1>1, Zenon DEF TypeOK
  <2>3. \A c \in valid : block[c] # None /\ data'[c] = last'[block[c]]
    BY <1>0, <1>1, <2>1, <2>2 DEF DataInv, TypeOK
  <2>4. \A k \in Blocks : (\A c \in dirty' : block[c] # k) => disk[k] = last'[k]
    BY <1>0, <1>1, <2>2 DEF DataInv
  <2> QED
    BY <1>0, <1>1, <2>3, <2>4 DEF DataInv
<1>9. QueueInv'
  BY <1>0, <1>1, Zenon DEF QueueInv
<1>10. SleepInv'
  <2>1. ASSUME NEW q \in Procs, pc[q] = "io" PROVE buf[q] # b
    BY <1>0, <1>1, <2>1, Zenon DEF UseInv, HoldPCs
  <2> QED
    BY <1>0, <1>1, <2>1, Zenon DEF SleepInv
<1> QED
  BY <1>2, <1>3, <1>8, <1>9, <1>10, Zenon DEF IInv

\* bwrite() of the buffer's only user keeps the invariant.
LEMMA BwriteKeeps ==
    ASSUME IInv, NEW p \in Procs, NEW v \in Vals, bwrite(p, v)
    PROVE  IInv'
<1> DEFINE b == buf[p]
<1>0. TypeOK /\ OneCopy /\ RefExact /\ UseInv /\ LockInv /\ DataInv /\ QueueInv /\ SleepInv
  BY Zenon DEF IInv
<1>1. /\ pc[p] = "use" /\ b \in Bufs /\ block[b] \in Blocks /\ owner[b] = p /\ b \in valid
      /\ data' = [data EXCEPT ![b] = v] /\ last' = [last EXCEPT ![block[b]] = v]
      /\ dirty' = dirty \cup {b} /\ idequeue' = Append(idequeue, b)
      /\ pc' = [pc EXCEPT ![p] = "iosleep"]
      /\ UNCHANGED <<lru, block, valid, refcnt, owner, disk, buf, want>>
  BY <1>0, HasBuffer, Zenon DEF bwrite, Goto, HavePCs, HoldPCs, UseInv
<1>2. OneCopy' /\ RefExact'
  BY <1>0, <1>1, Zenon DEF OneCopy, RefExact
<1>3. b \notin Range(idequeue)
  BY <1>1, Queued, Zenon
<1>4. idequeue' \in Seq(Bufs) /\ Range(idequeue') = Range(idequeue) \cup {b} /\ Distinct(idequeue')
  BY <1>0, <1>1, <1>3, AppendQueue, Zenon DEF TypeOK, QueueInv
<1>5. \A q \in Procs : pc'[q] = IF q = p THEN "iosleep" ELSE pc[q]
  BY <1>0, <1>1, Zenon DEF TypeOK
<1>6. UseInv' /\ LockInv'
  BY <1>0, <1>1, <1>5 DEF UseInv, LockInv, HoldPCs, HavePCs, TypeOK
<1> HIDE DEF b
<1>7. TypeOK'
  <2>1. data' \in [Bufs -> Vals] /\ last' \in [Blocks -> Vals] /\ pc' \in [Procs -> PCs]
    BY <1>0, <1>1, Zenon DEF TypeOK, PCs
  <2> QED
    BY <1>0, <1>1, <1>4, <2>1, Zenon DEF TypeOK
<1>8. DataInv'
  <2>1. \A c \in Bufs : c # b => block[c] # block[b]
    BY <1>0, <1>1, BufAssumption, Zenon DEF OneCopy
  <2>2. /\ \A c \in Bufs : data'[c] = IF c = b THEN v ELSE data[c]
        /\ \A k \in Blocks : last'[k] = IF k = block[b] THEN v ELSE last[k]
    BY <1>0, <1>1, Zenon DEF TypeOK
  <2>3. \A c \in valid : block[c] # None /\ data'[c] = last'[block[c]]
    BY <1>0, <1>1, <2>1, <2>2 DEF DataInv, TypeOK
  <2>4. \A k \in Blocks : (\A c \in dirty' : block[c] # k) => disk[k] = last'[k]
    BY <1>0, <1>1, <2>2 DEF DataInv
  <2> QED
    BY <1>0, <1>1, <2>3, <2>4, SMTT(30) DEF DataInv
<1>9. QueueInv'
  <2>1. ASSUME NEW c \in Range(idequeue')
        PROVE  c \notin valid' \ dirty' /\ owner[c] # None /\ pc'[owner[c]] \in {"io", "iosleep"}
    BY <1>1, <1>4, <1>5, Queued, BufAssumption, SMTT(30)
  <2> QED
    BY <1>1, <1>4, <2>1, Zenon DEF QueueInv
<1>10. SleepInv'
  <2>1. ASSUME NEW q \in Procs, pc[q] = "io" PROVE buf[q] # b
    BY <1>0, <1>1, <2>1, Zenon DEF UseInv, HoldPCs
  <2> QED
    BY <1>0, <1>1, <1>4, <1>5, <2>1 DEF SleepInv, b
<1> QED
  BY <1>2, <1>6, <1>7, <1>8, <1>9, <1>10, Zenon DEF IInv

\* Releasing the lock wakes the processes that sleep for it, and keeps the
\* invariant.
LEMMA ReleaseKeeps ==
    ASSUME IInv, NEW p \in Procs, releasesleep(p)
    PROVE  IInv'
<1> DEFINE b == buf[p]
<1>0. TypeOK /\ OneCopy /\ RefExact /\ UseInv /\ LockInv /\ DataInv /\ QueueInv /\ SleepInv
  BY Zenon DEF IInv
<1>1. /\ pc[p] = "use" /\ b \in Bufs /\ owner[b] = p
      /\ owner' = [owner EXCEPT ![b] = None]
      /\ pc' = Woken([pc EXCEPT ![p] = "unref"], "locksleep", "lock", b)
      /\ UNCHANGED <<lru, block, valid, dirty, data, refcnt, disk, idequeue, buf, want, last>>
  BY <1>0, HasBuffer, Zenon DEF releasesleep, bufVars, HavePCs, HoldPCs, UseInv
<1>2. OneCopy' /\ RefExact' /\ DataInv'
  BY <1>0, <1>1 DEF OneCopy, RefExact, DataInv
<1>3. /\ \A q \in Procs : pc'[q] = IF q = p THEN "unref" ELSE
            IF pc[q] = "locksleep" /\ buf[q] = b THEN "lock" ELSE pc[q]
      /\ \A c \in Bufs : owner'[c] = IF c = b THEN None ELSE owner[c]
      /\ pc' \in [Procs -> PCs]
  BY <1>0, <1>1, Zenon DEF TypeOK, Woken, PCs
<1>11. /\ pc'[p] = "unref"
       /\ \A q \in Procs \ {p} :
            pc'[q] = pc[q] \/ (pc[q] = "locksleep" /\ pc'[q] = "lock")
       /\ \A q \in Procs : pc'[q] = "locksleep" => pc[q] = "locksleep" /\ buf[q] # b
  BY <1>3, Zenon
<1>4. TypeOK'
  BY <1>0, <1>1, <1>3, Zenon DEF TypeOK
<1>5. /\ \A c \in Bufs : owner[c] \in Procs \cup {None}
      /\ \A q \in Procs : buf[q] \in Bufs \cup {None} /\ q # None
  BY <1>0, BufAssumption, Zenon DEF TypeOK
<1>6. UseInv'
  <2> SUFFICES ASSUME NEW q \in Procs
               PROVE  /\ buf[q] # None <=> pc'[q] \in HavePCs
                      /\ buf[q] # None => want[q] # None /\ block[buf[q]] = want[q]
                      /\ pc'[q] \in HoldPCs => owner'[buf[q]] = q
                      /\ pc'[q] = "use" => buf[q] \in valid
    BY <1>1, Zenon DEF UseInv
  <2>1. CASE q = p
    BY <1>0, <1>1, <1>11, <2>1, Zenon DEF UseInv, HoldPCs, HavePCs
  <2>2. CASE q # p
    <3>1. pc[q] \in HoldPCs => owner[buf[q]] = q /\ buf[q] # b /\ buf[q] \in Bufs
      BY <1>0, <1>1, <1>5, <2>2, Zenon DEF UseInv, HoldPCs, HavePCs
    <3>2. pc[q] \in HoldPCs => owner'[buf[q]] = q
      BY <1>3, <3>1, Zenon
    <3> QED
      BY <1>0, <1>11, <2>2, <3>2, Zenon DEF UseInv, HoldPCs, HavePCs
  <2> QED
    BY <2>1, <2>2, Zenon
<1>7. LockInv'
  <2> SUFFICES ASSUME NEW c \in Bufs, owner'[c] # None
               PROVE  buf[owner'[c]] = c /\ pc'[owner'[c]] \in HoldPCs
    BY <1>1, Zenon DEF LockInv
  <2>1. c # b /\ owner'[c] = owner[c] /\ owner[c] \in Procs
    BY <1>3, <1>5, Zenon
  <2>2. buf[owner[c]] = c /\ pc[owner[c]] \in HoldPCs
    BY <1>0, <2>1, Zenon DEF LockInv
  <2> QED
    BY <1>11, <2>1, <2>2, Zenon DEF HoldPCs
<1>8. b \notin Range(idequeue)
  BY <1>1, Queued, Zenon
<1>9. QueueInv'
  <2>1. ASSUME NEW c \in Range(idequeue)
        PROVE  owner'[c] # None /\ pc'[owner'[c]] \in {"io", "iosleep"}
    <3>1. owner[c] \in Procs \ {p} /\ owner'[c] = owner[c] /\ pc[owner[c]] \in {"io", "iosleep"}
      BY <1>1, <1>3, <1>8, Queued, Zenon
    <3> QED
      BY <1>5, <1>11, <3>1, Zenon
  <2> QED
    BY <1>0, <1>1, <2>1, Zenon DEF QueueInv
<1>10. SleepInv'
  <2> SUFFICES ASSUME NEW q \in Procs
               PROVE  /\ pc'[q] = "locksleep" => owner'[buf[q]] # None
                      /\ pc'[q] = "iosleep" => buf[q] \in Range(idequeue)
                      /\ pc'[q] = "io" => buf[q] \in Range(idequeue) \cup (valid \ dirty)
    BY <1>1, Zenon DEF SleepInv
  <2>1. pc[q] = "locksleep" => buf[q] \in Bufs
    BY <1>0, <1>5, Zenon DEF UseInv, HavePCs
  <2> QED
    BY <1>0, <1>3, <1>11, <2>1, Zenon DEF SleepInv
<1> QED
  BY <1>2, <1>4, <1>6, <1>7, <1>9, <1>10, Zenon DEF IInv

\* A kill() that wakes a sleeper early keeps the invariant: the sleeper looks
\* again.
LEMMA KillKeeps ==
    ASSUME IInv, NEW p \in Procs, Kill(p)
    PROVE  IInv'
<1>0. TypeOK /\ OneCopy /\ RefExact /\ UseInv /\ LockInv /\ DataInv /\ QueueInv /\ SleepInv
  BY Zenon DEF IInv
<1>1. /\ UNCHANGED <<lru, block, valid, dirty, data, refcnt, owner, disk, idequeue, buf, want, last>>
      /\ \/ pc[p] = "locksleep" /\ pc' = [pc EXCEPT ![p] = "lock"]
         \/ pc[p] = "iosleep" /\ pc' = [pc EXCEPT ![p] = "io"]
  BY Zenon DEF Kill, Goto, bufVars
<1>2. OneCopy' /\ RefExact' /\ DataInv'
  BY <1>0, <1>1 DEF OneCopy, RefExact, DataInv
<1>3. TypeOK'
  BY <1>0, <1>1, Zenon DEF TypeOK, PCs
<1>4. /\ \A q \in Procs : q # p => pc'[q] = pc[q]
      /\ (pc[p] = "locksleep" /\ pc'[p] = "lock") \/ (pc[p] = "iosleep" /\ pc'[p] = "io")
  BY <1>0, <1>1, Zenon DEF TypeOK
<1>5. UseInv'
  BY <1>0, <1>1, <1>4, Zenon DEF UseInv, HoldPCs, HavePCs
<1>6. LockInv'
  <2>1. ASSUME NEW c \in Bufs, owner[c] # None PROVE pc'[owner[c]] \in HoldPCs
    <3>1. owner[c] \in Procs /\ pc[owner[c]] \in HoldPCs
      BY <1>0, <2>1, Zenon DEF LockInv, TypeOK
    <3> QED
      BY <1>4, <3>1, Zenon DEF HoldPCs
  <2> QED
    BY <1>0, <1>1, <2>1, Zenon DEF LockInv
<1>7. QueueInv'
  <2>1. ASSUME NEW c \in Range(idequeue) PROVE pc'[owner[c]] \in {"io", "iosleep"}
    BY <1>4, Queued, Zenon
  <2> QED
    BY <1>0, <1>1, <2>1, Zenon DEF QueueInv
<1>8. SleepInv'
  BY <1>0, <1>1, <1>4, Zenon DEF SleepInv
<1> QED
  BY <1>2, <1>3, <1>5, <1>6, <1>7, <1>8, Zenon DEF IInv



-----------------------------------------------------------------------------
(* Counting the users of a buffer                                          *)

\* The processes that have buffer b, as u records them.
UsersOf(u, b) == {q \in Procs : u[q] = b}

\* The users of a buffer are finitely many.
LEMMA UsersFinite ==
    ASSUME NEW u, NEW b
    PROVE  /\ IsFiniteSet(UsersOf(u, b))
           /\ Cardinality(UsersOf(u, b)) \in 0 .. Cardinality(Procs)
<1>1. UsersOf(u, b) \subseteq Procs /\ IsFiniteSet(Procs)
  BY BufAssumption, Zenon DEF UsersOf
<1>2. /\ IsFiniteSet(UsersOf(u, b)) /\ Cardinality(UsersOf(u, b)) <= Cardinality(Procs)
  BY <1>1, FS_Subset, Zenon
<1>3. Cardinality(UsersOf(u, b)) \in Nat /\ Cardinality(Procs) \in Nat
  BY <1>1, <1>2, FS_CardinalityType, Zenon
<1> QED
  BY <1>2, <1>3

\* bget() adds a user to the buffer it returns.
LEMMA UserComes ==
    ASSUME TypeOK, NEW p \in Procs, NEW b \in Bufs, buf[p] = None, buf' = [buf EXCEPT ![p] = b]
    PROVE  \A c \in Bufs : Cardinality(UsersOf(buf', c)) =
                IF c = b THEN Cardinality(UsersOf(buf, c)) + 1 ELSE Cardinality(UsersOf(buf, c))
<1> TAKE c \in Bufs
<1>0. /\ \A q \in Procs : buf'[q] = IF q = p THEN b ELSE buf[q]
      /\ c # None
  BY BufAssumption, Zenon DEF TypeOK, Bufs
<1>1. /\ c = b => UsersOf(buf', c) = UsersOf(buf, c) \cup {p}
      /\ c # b => UsersOf(buf', c) = UsersOf(buf, c)
      /\ p \notin UsersOf(buf, c)
  BY <1>0, Zenon DEF UsersOf
<1>2. Cardinality(UsersOf(buf, c) \cup {p}) = Cardinality(UsersOf(buf, c)) + 1
  BY <1>1, UsersFinite, FS_AddElement, Zenon
<1> QED
  BY <1>1, <1>2, Zenon

\* brelse() takes one away.
LEMMA UserGoes ==
    ASSUME TypeOK, NEW p \in Procs, NEW b \in Bufs, buf[p] = b, buf' = [buf EXCEPT ![p] = None]
    PROVE  \A c \in Bufs : Cardinality(UsersOf(buf', c)) =
                IF c = b THEN Cardinality(UsersOf(buf, c)) - 1 ELSE Cardinality(UsersOf(buf, c))
<1> TAKE c \in Bufs
<1>1. /\ c = b => UsersOf(buf', c) = UsersOf(buf, c) \ {p}
      /\ c # b => UsersOf(buf', c) = UsersOf(buf, c)
      /\ c = b => p \in UsersOf(buf, c)
  BY BufAssumption, Zenon DEF TypeOK, UsersOf, Bufs
<1>2. c = b => Cardinality(UsersOf(buf, c) \ {p}) = Cardinality(UsersOf(buf, c)) - 1
  BY <1>1, UsersFinite, FS_RemoveElement, Zenon
<1> QED
  BY <1>1, <1>2, Zenon

\* The counts are within their type because they are exact.
LEMMA CountsInType ==
    ASSUME RefExact', refcnt' \in [Bufs -> Int]
    PROVE  refcnt' \in [Bufs -> 0 .. Cardinality(Procs)]
<1>1. \A b \in Bufs : refcnt'[b] = Cardinality(UsersOf(buf', b))
  BY Zenon DEF RefExact, UsersOf
<1>2. \A b \in Bufs : refcnt'[b] \in 0 .. Cardinality(Procs)
  BY <1>1, UsersFinite, Zenon
<1> QED
  BY <1>2, Zenon

\* A buffer whose count is 0 has no user, is not locked and not queued.
LEMMA Unused ==
    ASSUME IInv, NEW b \in Bufs, refcnt[b] = 0
    PROVE  /\ \A q \in Procs : buf[q] # b
           /\ owner[b] = None /\ b \notin Range(idequeue)
<1>1. ASSUME NEW q \in Procs PROVE buf[q] # b
  <2>1. Cardinality(UsersOf(buf, b)) = 0
    BY Zenon DEF IInv, RefExact, UsersOf
  <2>2. UsersOf(buf, b) = {}
    BY <2>1, UsersFinite, FS_EmptySet, Zenon
  <2> QED
    BY <2>2, Zenon DEF UsersOf
<1>2. owner[b] = None
  BY <1>1, Zenon DEF IInv, LockInv, TypeOK
<1> QED
  BY <1>1, <1>2, Zenon DEF IInv, QueueInv

-----------------------------------------------------------------------------
(* bget() and brelse()                                                     *)

\* bget()'s scan from the tail of the list finds a buffer of a set that has
\* one.
LEMMA OldestIn ==
    ASSUME TypeOK, NEW S \in SUBSET Bufs, S # {}
    PROVE  Oldest(S) \in S
<1> DEFINE R == OpToRel(<, Nat)
           T == {n \in Nat : NBUF - n \in Bufs /\ lru[NBUF - n] \in S}
<1>1. T # {}
  <2>1. PICK i \in Bufs : lru[i] \in S
    BY DEF TypeOK, Range
  <2>2. NBUF - i \in Nat /\ NBUF - (NBUF - i) = i
    BY BufAssumption DEF Bufs
  <2> QED
    BY <2>1, <2>2, Zenon
<1>2. PICK m \in T : \A n \in T : ~(<<n, m>> \in R)
  <2>1. T \subseteq Nat
    OBVIOUS
  <2> HIDE DEF T
  <2> QED
    BY <1>1, <2>1, NatLessThanWellFounded, WFMin, Zenon
<1>3. \A n \in T : ~(n < m)
  <2>1. \A u, v \in Nat : u < v => <<u, v>> \in R
    BY Zenon DEF OpToRel
  <2> QED
    BY <1>2, <2>1, Zenon
<1> DEFINE i == NBUF - m
<1>4. i \in 1 .. NBUF /\ lru[i] \in S /\ m \in Nat /\ i = NBUF - m
  BY <1>2, Zenon DEF Bufs
<1> HIDE DEF i, T
<1>5. ASSUME NEW j \in i + 1 .. NBUF PROVE lru[j] \notin S
  <2>1. NBUF \in Nat /\ m \in Nat /\ j \in Int /\ NBUF - m + 1 <= j /\ j \in 1 .. NBUF
    BY <1>4, BufAssumption
  <2>2. NBUF - j \in Nat /\ NBUF - (NBUF - j) = j /\ j \in Bufs /\ NBUF - j < m
    BY <2>1 DEF Bufs
  <2> QED
    BY <1>3, <2>2, Zenon DEF T
<1> QED
  BY <1>4, <1>5, Zenon DEF Oldest

\* bget() keeps the invariant: it finds the block's buffer, or recycles one
\* that nobody uses and that holds nothing the disk lacks, or panics.
LEMMA BgetKeeps ==
    ASSUME IInv, NEW p \in Procs, NEW k \in Blocks, bget(p, k)
    PROVE  IInv'
<1>0. TypeOK /\ OneCopy /\ RefExact /\ UseInv /\ LockInv /\ DataInv /\ QueueInv /\ SleepInv
  BY Zenon DEF IInv
<1>1. /\ pc[p] = "out" /\ want' = [want EXCEPT ![p] = k] /\ k # None
      /\ UNCHANGED <<lru, dirty, owner, data, disk, idequeue, last>>
  BY BufAssumption, Zenon DEF bget
<1>2. buf[p] = None
  BY <1>0, <1>1, Zenon DEF UseInv, HavePCs, HoldPCs
<1>3. /\ \A q \in Procs : want'[q] = IF q = p THEN k ELSE want[q]
      /\ \A c \in Bufs : owner[c] \in Procs \cup {None} /\ owner[c] # p
      /\ \A c \in Bufs : c # None
  <2>1. \A q \in Procs : want'[q] = IF q = p THEN k ELSE want[q]
    BY <1>0, <1>1, Zenon DEF TypeOK
  <2>2. \A c \in Bufs : owner[c] \in Procs \cup {None} /\ owner[c] # p
    <3>1. \A c \in Bufs : owner[c] \in Procs \cup {None} /\ p # None
      BY <1>0, BufAssumption, Zenon DEF TypeOK
    <3>2. \A c \in Bufs : owner[c] # None => pc[owner[c]] # "out"
      BY <1>0, Zenon DEF LockInv, HoldPCs
    <3> QED
      BY <1>1, <3>1, <3>2, Zenon
  <2>3. \A c \in Bufs : c # None
    BY BufAssumption, Zenon DEF Bufs
  <2> QED
    BY <2>1, <2>2, <2>3, Zenon
<1>4. ASSUME NEW b \in Bufs,
             buf' = [buf EXCEPT ![p] = b], pc' = [pc EXCEPT ![p] = "lock"],
             refcnt' = [refcnt EXCEPT ![b] = @ + 1],
             \/ block[b] = k /\ UNCHANGED <<block, valid>>
             \/ /\ refcnt[b] = 0 /\ b \notin dirty /\ Cached(k) = {}
                /\ block' = [block EXCEPT ![b] = k] /\ valid' = valid \ {b}
      PROVE  IInv'
  <2>11. /\ block' \in [Bufs -> Blocks \cup {None}]
         /\ block'[b] = k /\ \A c \in Bufs \ {b} : block'[c] = block[c]
         /\ valid \ {b} \subseteq valid' /\ valid' \subseteq valid
         /\ refcnt[b] # 0 => valid' = valid /\ block' = block
    <3>1. block \in [Bufs -> Blocks \cup {None}]
      BY <1>0, Zenon DEF TypeOK
    <3>2. CASE block[b] = k /\ UNCHANGED <<block, valid>>
      BY <3>1, <3>2, Zenon
    <3>3. CASE /\ refcnt[b] = 0 /\ block' = [block EXCEPT ![b] = k] /\ valid' = valid \ {b}
      BY <3>1, <3>3, Zenon
    <3> QED
      BY <1>4, <3>2, <3>3, Zenon
  <2>1. /\ \A q \in Procs : pc'[q] = IF q = p THEN "lock" ELSE pc[q]
        /\ \A q \in Procs : buf'[q] = IF q = p THEN b ELSE buf[q]
    BY <1>0, <1>4 DEF TypeOK
  <2>2. RefExact' /\ refcnt' \in [Bufs -> Int]
    <3>1. \A c \in Bufs : refcnt[c] = Cardinality(UsersOf(buf, c)) /\ refcnt[c] \in Int
      BY <1>0 DEF RefExact, UsersOf, TypeOK
    <3>2. \A c \in Bufs : Cardinality(UsersOf(buf', c)) =
                IF c = b THEN Cardinality(UsersOf(buf, c)) + 1 ELSE Cardinality(UsersOf(buf, c))
      BY <1>0, <1>2, <1>4, UserComes, Zenon
    <3>3. refcnt' \in [Bufs -> Int] /\ \A c \in Bufs : refcnt'[c] = IF c = b THEN refcnt[c] + 1 ELSE refcnt[c]
      BY <1>0, <1>4, <3>1 DEF TypeOK
    <3> QED
      BY <3>1, <3>2, <3>3, Zenon DEF RefExact, UsersOf
  <2>3. TypeOK'
    <3>1. refcnt' \in [Bufs -> 0 .. Cardinality(Procs)]
      BY <2>2, CountsInType, Zenon
    <3>2. buf' \in [Procs -> Bufs \cup {None}] /\ pc' \in [Procs -> PCs] /\ want' \in [Procs -> Blocks \cup {None}]
      BY <1>0, <1>1, <1>4, Zenon DEF TypeOK, PCs
    <3> QED
      BY <1>0, <1>1, <2>11, <3>1, <3>2, Zenon DEF TypeOK
  <2>4. OneCopy'
    <3>1. \A c \in Bufs \ {b} : block[c] # k
      BY <1>0, <1>1, <1>4, Zenon DEF OneCopy, Cached
    <3> QED
      BY <1>0, <2>11, <3>1, Zenon DEF OneCopy
  <2>5. \A q \in Procs \ {p} : buf[q] # None => block'[buf[q]] = block[buf[q]] /\ (buf[q] \in valid => buf[q] \in valid')
    <3> TAKE q \in Procs \ {p}
    <3>1. buf[q] # None => buf[q] \in Bufs
      BY <1>0, Zenon DEF TypeOK
    <3>2. refcnt[b] = 0 => buf[q] # b
      BY Unused, Zenon
    <3> QED
      BY <2>11, <3>1, <3>2, Zenon
  <2>6. UseInv'
    BY <1>0, <1>1, <1>3, <2>1, <2>5, <2>11 DEF UseInv, HoldPCs, HavePCs
  <2>7. LockInv'
    BY <1>0, <1>1, <1>3, <2>1, Zenon DEF LockInv
  <2>8. DataInv'
    <3>1. dirty \subseteq valid' /\ \A c \in dirty : block'[c] = block[c]
      BY <1>0, <1>4, Zenon DEF DataInv, TypeOK
    <3>2. \A c \in valid' : c \in valid /\ block'[c] = block[c]
      BY <1>0, <1>4 DEF TypeOK
    <3> QED
      BY <1>0, <1>1, <3>1, <3>2 DEF DataInv
  <2>9. QueueInv'
    <3>1. ASSUME NEW c \in Range(idequeue)
          PROVE  c \notin valid' \ dirty /\ pc'[owner[c]] \in {"io", "iosleep"}
      BY <1>1, <2>1, <2>11, Queued, Zenon
    <3> QED
      BY <1>0, <1>1, <3>1, Zenon DEF QueueInv
  <2>10. SleepInv'
    <3>1. \A q \in Procs \ {p} : pc[q] = "io" => buf[q] # None
      BY <1>0, Zenon DEF UseInv, HoldPCs, HavePCs
    <3> QED
      BY <1>0, <1>1, <2>1, <2>5, <3>1 DEF SleepInv
  <2> QED
    BY <2>2, <2>3, <2>4, <2>6, <2>7, <2>8, <2>9, <2>10, Zenon DEF IInv
<1>5. CASE Cached(k) # {}
  <2>1. PICK b \in Cached(k) :
            /\ refcnt' = Grab(b) /\ buf' = [buf EXCEPT ![p] = b] /\ Goto(p, "lock")
            /\ UNCHANGED <<block, valid>>
    BY <1>5, Zenon DEF bget
  <2> QED
    BY <1>4, <2>1, Zenon DEF Cached, Grab, Goto
<1>6. CASE Cached(k) = {} /\ Recyclable # {}
  <2> DEFINE b == Oldest(Recyclable)
  <2>1. b \in Recyclable
    BY <1>0, <1>6, OldestIn, Zenon DEF Recyclable
  <2>2. /\ block' = [block EXCEPT ![b] = k] /\ valid' = valid \ {b}
        /\ refcnt' = [refcnt EXCEPT ![b] = 1] /\ buf' = [buf EXCEPT ![p] = b]
        /\ pc' = [pc EXCEPT ![p] = "lock"]
    BY <1>6, Zenon DEF bget, Goto
  <2> HIDE DEF b
  <2>3. b \in Bufs /\ refcnt[b] = 0 /\ b \notin dirty
    BY <2>1, Zenon DEF Recyclable
  <2>4. refcnt' = [refcnt EXCEPT ![b] = @ + 1]
    BY <1>0, <2>2, <2>3 DEF TypeOK
  <2> QED
    BY <1>4, <1>6, <2>2, <2>3, <2>4, Zenon
<1>7. CASE Cached(k) = {} /\ Recyclable = {}
  <2>1. UNCHANGED <<block, valid, refcnt, buf>> /\ pc' = [pc EXCEPT ![p] = "panic"]
    BY <1>7, Zenon DEF bget, Goto
  <2>2. \A q \in Procs : pc'[q] = IF q = p THEN "panic" ELSE pc[q]
    BY <1>0, <2>1, Zenon DEF TypeOK
  <2>3. TypeOK'
    BY <1>0, <1>1, <2>1, Zenon DEF TypeOK, PCs
  <2>4. OneCopy' /\ RefExact' /\ DataInv'
    BY <1>0, <1>1, <2>1 DEF OneCopy, RefExact, DataInv
  <2>5. UseInv'
    BY <1>0, <1>1, <1>2, <1>3, <2>1, <2>2 DEF UseInv, HoldPCs, HavePCs
  <2>6. LockInv'
    BY <1>0, <1>1, <1>3, <2>1, <2>2 DEF LockInv
  <2>7. QueueInv'
    <3>1. ASSUME NEW c \in Range(idequeue) PROVE pc'[owner[c]] \in {"io", "iosleep"}
      BY <1>1, <2>2, Queued, Zenon
    <3> QED
      BY <1>0, <1>1, <2>1, <3>1, Zenon DEF QueueInv
  <2>8. SleepInv'
    BY <1>0, <1>1, <2>1, <2>2 DEF SleepInv
  <2> QED
    BY <2>3, <2>4, <2>5, <2>6, <2>7, <2>8, Zenon DEF IInv
<1> QED
  BY <1>5, <1>6, <1>7, Zenon

\* Dropping the reference, and moving the buffer to the front of the list,
\* keeps the invariant.
LEMMA BrelseKeeps ==
    ASSUME IInv, NEW p \in Procs, brelse(p)
    PROVE  IInv'
<1> DEFINE b == buf[p]
<1>0. TypeOK /\ OneCopy /\ RefExact /\ UseInv /\ LockInv /\ DataInv /\ QueueInv /\ SleepInv
  BY Zenon DEF IInv
<1>1. /\ pc[p] = "unref" /\ b \in Bufs
      /\ refcnt' = [refcnt EXCEPT ![b] = @ - 1]
      /\ lru' = (IF refcnt[b] = 1 THEN ToFront(b) ELSE lru)
      /\ buf' = [buf EXCEPT ![p] = None] /\ pc' = [pc EXCEPT ![p] = "out"]
      /\ UNCHANGED <<block, valid, dirty, data, owner, disk, idequeue, want, last>>
  BY HasBuffer, Zenon DEF brelse, Goto, bufVars, HavePCs
<1>2. OneCopy' /\ DataInv'
  BY <1>0, <1>1, Zenon DEF OneCopy, DataInv
<1>3. /\ \A q \in Procs : pc'[q] = IF q = p THEN "out" ELSE pc[q]
      /\ \A q \in Procs : buf'[q] = IF q = p THEN None ELSE buf[q]
  BY <1>0, <1>1, Zenon DEF TypeOK
<1>4. RefExact' /\ refcnt' \in [Bufs -> Int]
  <2>1. \A c \in Bufs : refcnt[c] = Cardinality(UsersOf(buf, c)) /\ refcnt[c] \in Int
    BY <1>0 DEF RefExact, UsersOf, TypeOK
  <2>2. \A c \in Bufs : Cardinality(UsersOf(buf', c)) =
                IF c = b THEN Cardinality(UsersOf(buf, c)) - 1 ELSE Cardinality(UsersOf(buf, c))
    BY <1>0, <1>1, UserGoes, Zenon
  <2>3. refcnt' \in [Bufs -> Int] /\ \A c \in Bufs : refcnt'[c] = IF c = b THEN refcnt[c] - 1 ELSE refcnt[c]
    BY <1>0, <1>1, <2>1, SMTT(30) DEF TypeOK
  <2> QED
    BY <2>1, <2>2, <2>3, Zenon DEF RefExact, UsersOf
<1>5. TypeOK'
  <2>1. lru' \in [Bufs -> Bufs] /\ Range(lru') = Bufs
    BY <1>0, <1>1, FrontKeepsAll, Zenon DEF TypeOK
  <2>2. refcnt' \in [Bufs -> 0 .. Cardinality(Procs)]
    BY <1>4, CountsInType, Zenon
  <2>3. buf' \in [Procs -> Bufs \cup {None}] /\ pc' \in [Procs -> PCs]
    BY <1>0, <1>1, Zenon DEF TypeOK, PCs
  <2> QED
    BY <1>0, <1>1, <2>1, <2>2, <2>3, Zenon DEF TypeOK
<1>6. UseInv'
  BY <1>0, <1>1, <1>3 DEF UseInv, HoldPCs, HavePCs
<1>7. LockInv'
  <2> SUFFICES ASSUME NEW c \in Bufs, owner[c] # None
               PROVE  buf'[owner[c]] = c /\ pc'[owner[c]] \in HoldPCs
    BY <1>1, Zenon DEF LockInv
  <2>1. owner[c] \in Procs /\ buf[owner[c]] = c /\ pc[owner[c]] \in HoldPCs
    BY <1>0 DEF LockInv, TypeOK
  <2> QED
    BY <1>1, <1>3, <2>1, Zenon DEF HoldPCs
<1>8. QueueInv'
  <2>1. ASSUME NEW c \in Range(idequeue) PROVE pc'[owner[c]] \in {"io", "iosleep"}
    BY <1>1, <1>3, Queued
  <2> QED
    BY <1>0, <1>1, <2>1, Zenon DEF QueueInv
<1>9. SleepInv'
  BY <1>0, <1>1, <1>3 DEF SleepInv
<1> QED
  BY <1>2, <1>4, <1>5, <1>6, <1>7, <1>8, <1>9, Zenon DEF IInv

-----------------------------------------------------------------------------
(* The theorems                                                            *)

\* The invariant holds after binit().
LEMMA InitIInv == Init => IInv
<1> SUFFICES ASSUME Init PROVE IInv
  OBVIOUS
<1>1. RefExact
  <2>1. \A b \in Bufs : UsersOf(buf, b) = {}
    BY BufAssumption, Zenon DEF Init, UsersOf, Bufs
  <2> QED
    BY <2>1, FS_EmptySet, Zenon DEF Init, RefExact, UsersOf
<1>2. TypeOK
  <2>1. lru \in [Bufs -> Bufs] /\ Range(lru) = Bufs
    <3>1. \A i \in Bufs : NBUF + 1 - i \in Bufs /\ NBUF + 1 - (NBUF + 1 - i) = i
      BY BufAssumption DEF Bufs
    <3>2. lru \in [Bufs -> Bufs] /\ \A i \in Bufs : lru[NBUF + 1 - i] = i
      BY <3>1, Zenon DEF Init
    <3> QED
      BY <3>1, <3>2, Zenon DEF Range
  <2>2. idequeue \in Seq(Bufs)
    BY DEF Init
  <2>3. refcnt \in [Bufs -> 0 .. Cardinality(Procs)]
    <3>1. Cardinality(Procs) \in Nat
      BY BufAssumption, FS_CardinalityType, Zenon
    <3> QED
      BY <3>1 DEF Init
  <2>4. /\ block \in [Bufs -> Blocks \cup {None}] /\ valid \subseteq Bufs /\ dirty \subseteq Bufs
        /\ owner \in [Bufs -> Procs \cup {None}] /\ buf \in [Procs -> Bufs \cup {None}]
        /\ want \in [Procs -> Blocks \cup {None}] /\ pc \in [Procs -> PCs]
    BY Zenon DEF Init, PCs
  <2>5. data \in [Bufs -> Vals] /\ disk \in [Blocks -> Vals] /\ last \in [Blocks -> Vals]
    BY BufAssumption, Zenon DEF Init
  <2> QED
    BY <2>1, <2>2, <2>3, <2>4, <2>5, Zenon DEF TypeOK
<1>3. OneCopy /\ DataInv
  BY Zenon DEF Init, OneCopy, DataInv
<1>4. UseInv /\ LockInv /\ SleepInv
  BY Zenon DEF Init, UseInv, LockInv, SleepInv, HoldPCs, HavePCs
<1>5. QueueInv
  BY DEF Init, QueueInv, Distinct, Range
<1> QED
  BY <1>1, <1>2, <1>3, <1>4, <1>5, Zenon DEF IInv

\* Every step keeps the invariant.
LEMMA StepKeeps == IInv /\ [Next]_vars => IInv'
<1> SUFFICES ASSUME IInv, [Next]_vars PROVE IInv'
  OBVIOUS
<1>1. ASSUME NEW p \in Procs, KernelStep(p) \/ releasesleep(p) \/ Kill(p) PROVE IInv'
  BY <1>1, AcquireKeeps, BreadKeeps, IderwKeeps, BrelseKeeps, ReleaseKeeps, KillKeeps, Zenon DEF KernelStep
<1>2. ASSUME NEW p \in Procs, NEW k \in Blocks, bget(p, k) PROVE IInv'
  BY <1>2, BgetKeeps, Zenon
<1>3. ASSUME NEW p \in Procs, NEW v \in Vals, LogWrite(p, v) \/ bwrite(p, v) PROVE IInv'
  BY <1>3, LogWriteKeeps, BwriteKeeps, Zenon
<1>4. CASE ideintr
  BY <1>4, IdeintrKeeps, Zenon
<1>5. CASE UNCHANGED vars
  <2>1. /\ UNCHANGED <<lru, block, valid, dirty, refcnt, owner, data, disk, idequeue, pc>>
        /\ UNCHANGED <<buf, want, last>>
    BY <1>5, Zenon DEF vars
  <2> QED
    BY <2>1 DEF IInv, TypeOK, OneCopy, RefExact, UseInv, LockInv, DataInv, QueueInv, SleepInv
<1> QED
  BY <1>1, <1>2, <1>3, <1>4, <1>5, Zenon DEF Next

\* In every reachable state buffers, locks, counts, queue and disk agree.
THEOREM CacheInvariance == Spec => []IInv
BY InitIInv, StepKeeps, PTL DEF Spec

\* One copy of a block, seen by one user at a time, with what was last written
\* to it, under any recycling, interleaving and delay of the disk; and nobody
\* sleeps for a lock that is free or a request that is not queued.
THEOREM CacheSafety == Spec => []CacheInv
<1>1. IInv => Coherent
  BY DEF IInv, Coherent, UseInv, DataInv, HoldPCs, HavePCs
<1>2. IInv => NoLostWakeup
  <2> SUFFICES ASSUME IInv PROVE NoLostWakeup
    OBVIOUS
  <2>1. ASSUME NEW i \in 1 .. Len(idequeue)
        PROVE  \E p \in Procs : owner[idequeue[i]] = p /\ pc[p] \in {"io", "iosleep"}
    <3>1. idequeue[i] \in Range(idequeue)
      BY SMTT(30) DEF IInv, TypeOK, Range
    <3> QED
      BY <3>1, Queued, Zenon
  <2> QED
    BY <2>1, Zenon DEF NoLostWakeup, IInv, SleepInv, QueueInv, Distinct
<1>3. IInv => CacheInv
  BY <1>1, <1>2, Zenon DEF IInv, CacheInv
<1> QED
  BY <1>3, CacheInvariance, PTL

\* bget() finds no buffer only if each one is pinned by the log or has a user.
LEMMA NoBufferLeft ==
    ASSUME IInv, Recyclable = {}
    PROVE  Cardinality(dirty) + Cardinality({p \in Procs : buf[p] # None}) >= NBUF
<1> DEFINE U == {p \in Procs : buf[p] # None}
           T == {b \in Bufs : refcnt[b] # 0}
           f == [p \in U |-> buf[p]]
<1>1. IsFiniteSet(Bufs) /\ Cardinality(Bufs) = NBUF
  BY BufAssumption, FS_Interval DEF Bufs
<1>2. IsFiniteSet(dirty) /\ IsFiniteSet(T) /\ IsFiniteSet(U)
  BY <1>1, BufAssumption, FS_Subset, Zenon DEF IInv, TypeOK
<1>3. f \in Surjection(U, T)
  <2>1. \A p \in U : buf[p] \in T
    BY Unused, Zenon DEF IInv, TypeOK
  <2>2. ASSUME NEW b \in T PROVE \E p \in U : f[p] = b
    <3>1. refcnt[b] = Cardinality(UsersOf(buf, b)) /\ b # None
      BY BufAssumption, Zenon DEF IInv, RefExact, UsersOf, Bufs
    <3>2. UsersOf(buf, b) # {}
      BY <3>1, FS_EmptySet, Zenon
    <3>3. PICK p \in Procs : buf[p] = b
      BY <3>2, Zenon DEF UsersOf
    <3> QED
      BY <3>1, <3>3, Zenon
  <2> QED
    BY <2>1, <2>2, Zenon DEF Surjection
<1>4. Cardinality(T) <= Cardinality(U)
  BY <1>2, <1>3, FS_Surjection, Zenon
<1>5. Bufs = dirty \cup T
  BY Zenon DEF Recyclable, IInv, TypeOK
<1> HIDE DEF U, T
<1>6. /\ Cardinality(dirty) \in Nat /\ Cardinality(T) \in Nat /\ Cardinality(U) \in Nat
      /\ Cardinality(dirty \cap T) \in Nat
      /\ NBUF = Cardinality(dirty) + Cardinality(T) - Cardinality(dirty \cap T)
  <2>1. IsFiniteSet(dirty \cap T)
    BY <1>2, FS_Subset, Zenon
  <2> QED
    BY <1>1, <1>2, <1>5, <2>1, FS_CardinalityType, FS_Union, Zenon
<1>7. Cardinality(dirty) + Cardinality(U) >= NBUF
  BY <1>4, <1>6, BufAssumption
<1> QED
  BY <1>7, Zenon DEF U

\* bget()'s "no buffers" means that the pinned buffers and the users together
\* are as many as the buffers, whatever happened before.
THEOREM PanicJustified == Spec => []PanicOnlyWhenFull
<1>1. Init => PanicOnlyWhenFull
  BY Zenon DEF Init, PanicOnlyWhenFull, Panicked
<1>2. IInv /\ PanicOnlyWhenFull /\ [Next]_vars => PanicOnlyWhenFull'
  <2> SUFFICES ASSUME IInv, PanicOnlyWhenFull, [Next]_vars, Panicked'
               PROVE  Cardinality(dirty') + Cardinality({p \in Procs : buf'[p] # None}) >= NBUF
    BY Zenon DEF PanicOnlyWhenFull
  <2>1. CASE UNCHANGED vars
    BY <2>1, Zenon DEF vars, PanicOnlyWhenFull, Panicked
  <2>2. CASE Next
    <3>1. \A p \in Procs : pc[p] # "panic"
      BY <2>2, Zenon DEF Next
    <3>2. ASSUME NEW p \in Procs, NEW k \in Blocks, bget(p, k)
          PROVE  Recyclable = {} /\ dirty' = dirty /\ buf' = buf
      BY <3>1, <3>2, Zenon DEF bget, Goto, IInv, TypeOK, Panicked
    <3>3. ASSUME NEW p \in Procs, KernelStep(p) \/ releasesleep(p) \/ Kill(p) PROVE FALSE
      <4>0. pc \in [Procs -> PCs]
        BY Zenon DEF IInv, TypeOK
      <4>1. CASE acquiresleep(p) \/ bread(p)
        BY <3>1, <4>0, <4>1, Zenon DEF acquiresleep, bread, Goto, Panicked
      <4>2. CASE iderw(p) \/ brelse(p)
        BY <3>1, <4>0, <4>2, Zenon DEF iderw, brelse, Goto, Panicked
      <4>3. CASE releasesleep(p) \/ Kill(p)
        BY <3>1, <4>0, <4>3, Zenon DEF releasesleep, Kill, Goto, Woken, Panicked
      <4> QED
        BY <3>3, <4>1, <4>2, <4>3, Zenon DEF KernelStep
    <3>4. ASSUME NEW p \in Procs, NEW v \in Vals, LogWrite(p, v) \/ bwrite(p, v) PROVE FALSE
      BY <3>1, <3>4, SMTT(30) DEF LogWrite, bwrite, Goto, IInv, TypeOK, Panicked
    <3>5. CASE ideintr
      BY <3>1, <3>5, Zenon DEF ideintr, Woken, Panicked
    <3> QED
      BY <2>2, <3>2, <3>3, <3>4, <3>5, NoBufferLeft, Zenon DEF Next
  <2> QED
    BY <2>1, <2>2, Zenon
<1> QED
  BY <1>1, <1>2, CacheInvariance, PTL DEF Spec
=============================================================================
