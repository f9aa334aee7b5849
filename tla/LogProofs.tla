----------------------------- MODULE LogProofs ------------------------------
(***************************************************************************)
(* For any number of processes, blocks and log entries, the log of         *)
(* HW2/src/log.c implements AtomicDisk: a crash at any moment keeps all or *)
(* nothing of a transaction.  And, for calls that leave one of their       *)
(* reserved blocks unused, log_write() never finds the log full.           *)
(*                                                                         *)
(* First the inductive invariant: the headers, the log's blocks, the buffer*)
(* cache and the home blocks agree at every stage of commit() and of       *)
(* recovery, begin_op()'s sleepers are woken, and each step is one of      *)
(* AtomicDisk or leaves its state alone.  Then the counting of the calls in*)
(* progress and of the entries they may still add, and the theorems.       *)
(***************************************************************************)
EXTENDS Log, FiniteSetTheorems, TLAPS

-----------------------------------------------------------------------------
(* The inductive invariant                                                 *)

\* No block has two entries in a header.
Distinct(h) == \A i, j \in 1 .. Len(h) : h[i] = h[j] => i = j

\* What begin_op(), log_write() and end_op() keep: a locked buffer belongs to
\* one call inside log_write(), and log.outstanding counts the calls.
CallInv(p) ==
    /\ pc[p] \in {"append", "panic"} <=> lock[p] # None
    /\ lock[p] # None => cache[lock[p]] # None /\ lock[p] \in wrote[p]
    /\ \A q \in Procs : lock[p] # None /\ lock[p] = lock[q] => p = q
    /\ p \notin Active => wrote[p] = {}
    /\ IsFiniteSet(wrote[p]) /\ Cardinality(wrote[p]) <= OpBlocks

CountInv ==
    /\ outstanding = Cardinality(Active)
    /\ committing <=> stage \in {"write", "head", "install", "clear", "done"}
    /\ committing => outstanding = 0
    /\ ~Running => outstanding = 0 /\ \A p \in Procs : pc[p] = "out"

CallsInv == CountInv /\ \A p \in Procs : CallInv(p)

\* Calls leave enough of what begin_op() reserves for them that the last
\* entry of the log, which log_write() refuses, is not needed either.  With
\* MAXOPBLOCKS = 10 and LOGSIZE = sb.nlog = 30: calls of at most 9 blocks.
Room ==
    /\ OpBlocks < MAXOPBLOCKS
    /\ 2 * MAXOPBLOCKS <= LOGSIZE
    /\ LOGSIZE - 2 * (MAXOPBLOCKS - OpBlocks) <= nlog - 2

\* The entries the calls of a transaction fill at most: a call that starts a
\* transaction finds the log empty, any other leaves two calls' spare blocks.
Limit == IF Room THEN LOGSIZE - 2 * (MAXOPBLOCKS - OpBlocks) ELSE LOGSIZE

\* The entries of the log on disk that hold what a transaction wrote.
Copied == IF stage = "head" THEN Len(lh) ELSE tail

\* How the headers, the log's blocks and the home blocks agree at each stage.
StageInv ==
    /\ Distinct(dhead) /\ Distinct(lh)
    /\ Len(dhead) <= Limit
    /\ stage \in {"up", "write", "head", "done"} => dhead = <<>>
    /\ stage \in {"redo", "install"} => lh = dhead
    /\ stage \in {"boot", "clear0", "clear", "done"} => lh = <<>>
    /\ stage = "up" /\ outstanding = 0 => lh = <<>>
    /\ IF stage \in {"write", "redo", "install"} THEN tail < Len(lh) ELSE tail = 0
    /\ stage = "head" => 0 < Len(lh)
    /\ stage \in {"write", "head"} => \A i \in 1 .. Copied : dlog[i] = cache[lh[i]]
    /\ stage \in {"install", "redo"} => \A i \in 1 .. tail : disk[lh[i]] = dlog[i]
    /\ stage = "install" => \A i \in tail + 1 .. Len(lh) : cache[lh[i]] = dlog[i]
    /\ stage \in {"clear", "clear0"} => \A i \in 1 .. Len(dhead) : disk[dhead[i]] = dlog[i]

\* The blocks that only the cache has: those of the transaction that are not
\* installed yet.
Pending ==
    CASE stage \in {"up", "write", "head"} -> Listed(lh)
      [] stage = "install" -> {lh[i] : i \in tail + 1 .. Len(lh)}
      [] OTHER -> {}

\* A buffer that differs from the disk is dirty or locked, so that bget()
\* does not recycle it.
CacheInv ==
    /\ dirty = Pending
    /\ \A b \in dirty : cache[b] # None
    /\ \A b \in Blocks : cache[b] \in {None, disk[b]} \/ b \in dirty
                         \/ \E p \in Procs : lock[p] = b

\* The entries that the calls in progress may still add to the log.
Credit ==
    {c \in Active \X (1 .. OpBlocks) : Cardinality(wrote[c[1]] \cap Listed(lh)) < c[2]}

\* The log has space for what the calls in progress may still write.
SpaceInv ==
    /\ Len(lh) + Cardinality(Credit) <= Limit
    /\ Room => NoPanic

\* What the counts amount to: without calls nobody is inside one, and the
\* header is within the log.
LimitInv == (outstanding = 0 => Active = {}) /\ Len(lh) <= Limit

IInv ==
    /\ TypeOK /\ CallsInv /\ StageInv /\ CacheInv
    /\ SpaceInv /\ LimitInv /\ NoLostWakeup

-----------------------------------------------------------------------------
(* Lemmas about the operators                                              *)

\* log_write() appends a block that the header does not list yet.
LEMMA AppendBlock ==
    ASSUME NEW h \in Seq(Blocks), NEW b \in Blocks
    PROVE  /\ Append(h, b) \in Seq(Blocks) /\ Len(Append(h, b)) = Len(h) + 1
           /\ \A i \in 1 .. Len(h) : Append(h, b)[i] = h[i]
           /\ Append(h, b)[Len(h) + 1] = b
           /\ Listed(Append(h, b)) = Listed(h) \cup {b}
           /\ Distinct(h) /\ b \notin Listed(h) => Distinct(Append(h, b))
<1>1. /\ Append(h, b) \in Seq(Blocks) /\ Len(Append(h, b)) = Len(h) + 1
      /\ \A i \in 1 .. Len(h) : Append(h, b)[i] = h[i]
      /\ Append(h, b)[Len(h) + 1] = b
      /\ Len(h) \in Nat
  OBVIOUS
<1>2. Listed(Append(h, b)) = Listed(h) \cup {b}
  BY <1>1 DEF Listed
<1>3. ASSUME Distinct(h), b \notin Listed(h) PROVE Distinct(Append(h, b))
  <2> SUFFICES ASSUME NEW i \in 1 .. Len(h) + 1, NEW j \in 1 .. Len(h) + 1,
                      Append(h, b)[i] = Append(h, b)[j]
               PROVE  i = j
    BY <1>1, Zenon DEF Distinct
  <2>1. \A k \in 1 .. Len(h) : h[k] # b
    BY <1>3, Zenon DEF Listed
  <2> QED
    BY <1>1, <1>3, <2>1 DEF Distinct
<1> QED
  BY <1>1, <1>2, <1>3, Zenon

\* A header lists no block exactly when it is empty.
LEMMA ListedEmpty ==
    ASSUME NEW h \in Seq(Blocks)
    PROVE  /\ Len(h) \in Nat /\ Listed(h) \subseteq Blocks
           /\ h = <<>> <=> Len(h) = 0
           /\ h = <<>> <=> Listed(h) = {}
           /\ \A i \in 1 .. Len(h) : h[i] \in Blocks
<1>1. Len(h) \in Nat /\ (h = <<>> <=> Len(h) = 0) /\ \A i \in 1 .. Len(h) : h[i] \in Blocks
  OBVIOUS
<1>2. Listed(h) = {} <=> Len(h) = 0
  BY <1>1 DEF Listed
<1> QED
  BY <1>1, <1>2, Zenon DEF Listed

\* The header that write_head() erases the log with is a header.
LEMMA NoHeader == <<>> \in Seq(Blocks)
OBVIOUS

\* A header that is kept or emptied is a header.
LEMMA KeptOrEmpty ==
    ASSUME NEW h \in Seq(Blocks), NEW g, g = h \/ g = <<>>
    PROVE  g \in Seq(Blocks)
BY NoHeader, Zenon

\* The header that write_head() erases the log with.
LEMMA EmptyHeader == Len(<<>>) = 0 /\ Distinct(<<>>) /\ Listed(<<>>) = {}
BY DEF Distinct, Listed

\* What begin_op() reserves covers the credit of the calls, and two calls
\* leave their spare blocks.
LEMMA ReserveCovers ==
    ASSUME NEW m \in Nat
    PROVE  /\ m * OpBlocks \in Nat /\ m * MAXOPBLOCKS \in Nat
           /\ m * OpBlocks <= m * MAXOPBLOCKS
           /\ m >= 2 => m * OpBlocks + 2 * (MAXOPBLOCKS - OpBlocks) <= m * MAXOPBLOCKS
<1> DEFINE d == MAXOPBLOCKS - OpBlocks
<1>1. d \in Nat /\ OpBlocks \in Nat /\ MAXOPBLOCKS = OpBlocks + d
  BY LogAssumption
<1> HIDE DEF d
<1>2. m * d \in Nat /\ m * OpBlocks \in Nat /\ (m >= 2 => m * d >= 2 * d)
  BY <1>1
<1>3. m * MAXOPBLOCKS = m * OpBlocks + m * d
  BY <1>1
<1> QED
  BY <1>1, <1>2, <1>3

\* Under the invariant the header of the transaction fits in the log.
LEMMA LogFits == IInv => Len(lh) <= LOGSIZE /\ Len(lh) <= Limit
<1> SUFFICES ASSUME IInv PROVE Len(lh) <= LOGSIZE /\ Len(lh) <= Limit
  OBVIOUS
<1>1. Limit <= LOGSIZE /\ Limit \in Int /\ Len(lh) \in Nat
  BY ListedEmpty, LogAssumption, SMTT(30) DEF IInv, TypeOK, Limit, Room
<1> QED
  BY <1>1, LogAssumption DEF IInv, LimitInv

\* The rounds of write_log() and install_trans() stay within the log.
LEMMA RoundInLog ==
    ASSUME IInv, stage \in {"write", "redo", "install"}
    PROVE  /\ tail + 1 \in 1 .. Len(lh) /\ tail + 1 \in 1 .. LOGSIZE
           /\ Len(lh) \in Nat /\ Len(lh) <= LOGSIZE
           /\ lh[tail + 1] \in Blocks /\ dlog[tail + 1] \in Vals
<1>1. /\ tail + 1 \in 1 .. Len(lh) /\ tail + 1 \in 1 .. LOGSIZE
      /\ Len(lh) \in Nat /\ Len(lh) <= LOGSIZE
  BY ListedEmpty, LogFits, LogAssumption, SMTT(30) DEF IInv, TypeOK, StageInv
<1> QED
  BY <1>1, ListedEmpty, Zenon DEF IInv, TypeOK

\* A process that returns from end_op() wakes the sleepers of begin_op(), and
\* moves nobody else.
LEMMA LeaveWakes ==
    ASSUME TypeOK, NEW p \in Procs, pc' = Wakeup([pc EXCEPT ![p] = "out"])
    PROVE  /\ pc'[p] = "out" /\ \A q \in Procs : pc'[q] # "asleep"
           /\ \A q \in Procs \ {p}, s \in {"op", "append", "panic"} : pc'[q] = s <=> pc[q] = s
<1>1. /\ pc'[p] = "out"
      /\ \A q \in Procs \ {p} : pc'[q] = IF pc[q] = "asleep" THEN "begin" ELSE pc[q]
  BY Zenon DEF Wakeup, PCs, TypeOK
<1> QED
  BY <1>1, Zenon

\* While a call is in progress nothing commits.
LEMMA CallMeansUp ==
    ASSUME IInv, NEW p \in Active
    PROVE  outstanding # 0 /\ ~committing /\ stage = "up"
<1>1. outstanding # 0
  BY Zenon DEF IInv, LimitInv
<1> QED
  BY <1>1, Zenon DEF IInv, CallsInv, CountInv, TypeOK, Running, Stages

\* Outside the calls no buffer is locked.
LEMMA NoLocks ==
    ASSUME IInv, outstanding = 0
    PROVE  Active = {} /\ \A p \in Procs : lock[p] = None
<1>1. Active = {}
  BY Zenon DEF IInv, LimitInv
<1> QED
  BY <1>1, Zenon DEF IInv, CallsInv, CallInv, Active

-----------------------------------------------------------------------------
(* Types                                                                   *)

\* Every step keeps the types.
LEMMA TypeKeeps == IInv /\ [Next]_vars => TypeOK'
<1> SUFFICES ASSUME IInv, [Next]_vars PROVE TypeOK'
  OBVIOUS
<1>0. TypeOK
  BY Zenon DEF IInv
<1> USE LogAssumption DEF TypeOK, diskVars, logVars, opVars, Stages, PCs
<1>1. ASSUME NEW p \in Procs, Call(p) PROVE TypeOK'
  BY <1>0, <1>1, Zenon DEF Call
<1>2. ASSUME NEW p \in Procs, begin_op(p) PROVE TypeOK'
  <2>1. pc' \in [Procs -> PCs]
    BY <1>0, <1>2, Zenon DEF begin_op
  <2>3. outstanding' \in Nat
    BY <1>0, <1>2 DEF begin_op
  <2>2. UNCHANGED <<disk, dhead, dlog, cache, dirty, lh, committing, stage, tail, lock, wrote>>
    BY <1>0, <1>2, Zenon DEF begin_op
  <2> QED
    BY <1>0, <2>1, <2>2, <2>3, Zenon
<1>3. ASSUME NEW p \in Procs, NEW b \in Blocks, NEW v \in Vals, log_write(p, b, v)
      PROVE  TypeOK'
  BY <1>0, <1>3, Zenon DEF log_write
<1>4. ASSUME NEW p \in Procs, log_append(p) PROVE TypeOK'
  <2>1. lock[p] \in Blocks
    BY <1>0, <1>4, Zenon DEF log_append, IInv, CallsInv, CallInv
  <2>2. lh' \in Seq(Blocks)
    BY <1>0, <1>4, <2>1, AppendBlock, Zenon DEF log_append
  <2> QED
    BY <1>0, <1>4, <2>1, <2>2, Zenon DEF log_append
<1>5. ASSUME NEW p \in Procs, end_op(p) PROVE TypeOK'
  <2>1. p \in Active
    BY <1>0, <1>5, Zenon DEF end_op, Active
  <2>2. outstanding - 1 \in Nat
    BY <1>0, <2>1 DEF IInv, LimitInv
  <2>3. pc' \in [Procs -> PCs]
    BY <1>0, <1>5, Zenon DEF end_op, Wakeup
  <2> QED
    BY <1>0, <1>5, <2>2, <2>3, Zenon DEF end_op
<1>6. ASSUME NEW p \in Procs, end_commit(p) PROVE TypeOK'
  BY <1>0, <1>6, Zenon DEF end_commit, Wakeup
<1>7. CASE write_log
  <2>1. tail + 1 \in 1 .. Len(lh) /\ tail + 1 \in 1 .. LOGSIZE /\ lh[tail + 1] \in Blocks
    BY <1>7, RoundInLog, Zenon DEF write_log
  <2>2. cache[lh[tail + 1]] # None
    BY <1>0, <1>7, <2>1 DEF write_log, IInv, CacheInv, Pending, Listed
  <2> QED
    BY <1>0, <1>7, <2>1, <2>2, SMTT(30) DEF write_log, bread
<1>8. CASE write_head
  BY <1>0, <1>8, Zenon DEF write_head
<1>9. CASE install_trans
  <2>1. /\ tail + 1 \in 1 .. LOGSIZE
        /\ lh[tail + 1] \in Blocks /\ dlog[tail + 1] \in Vals
    BY <1>9, RoundInLog, Zenon DEF install_trans
  <2>2. lh' \in Seq(Blocks)
    <3>1. lh' = lh \/ lh' = <<>>
      BY <1>0, <1>9, Zenon DEF install_trans
    <3>2. lh \in Seq(Blocks)
      BY <1>0, Zenon
    <3> QED
      BY <3>1, <3>2, KeptOrEmpty, Zenon
  <2>3. /\ disk' \in [Blocks -> Vals] /\ cache' \in [Blocks -> Vals \cup {None}]
        /\ dirty' \subseteq Blocks /\ tail' \in 0 .. LOGSIZE /\ stage' \in Stages
        /\ UNCHANGED <<dhead, dlog, outstanding, committing, pc, lock, wrote>>
    BY <1>0, <1>9, <2>1 DEF install_trans
  <2> QED
    BY <1>0, <2>2, <2>3, Zenon
<1>10. CASE read_head
  BY <1>0, <1>10, Zenon DEF read_head
<1>11. ASSUME NEW b \in Blocks, Fetch(b) \/ Recycle(b) PROVE TypeOK'
  BY <1>0, <1>11, Zenon DEF Fetch, Recycle
<1>12. CASE Crash
  <2>1. lh' \in Seq(Blocks)
    BY <1>0, <1>12, NoHeader, Zenon DEF Crash
  <2>2. cache' \in [Blocks -> Vals \cup {None}]
    BY <1>0, <1>12, Zenon DEF Crash
  <2>4. wrote' \in [Procs -> SUBSET Blocks]
    BY <1>0, <1>12, Zenon DEF Crash
  <2>5. lock' \in [Procs -> Blocks \cup {None}] /\ pc' \in [Procs -> PCs]
    BY <1>0, <1>12, Zenon DEF Crash
  <2>3. /\ dirty' \subseteq Blocks /\ committing' \in BOOLEAN
        /\ disk' = disk /\ dhead' = dhead /\ dlog' = dlog
    BY <1>0, <1>12, Zenon DEF Crash
  <2>6. tail' \in 0 .. LOGSIZE /\ stage' \in Stages /\ outstanding' \in Nat
    BY <1>0, <1>12 DEF Crash
  <2> QED
    BY <1>0, <2>1, <2>2, <2>3, <2>4, <2>5, <2>6, Zenon
<1>13. CASE UNCHANGED vars
  BY <1>0, <1>13, Zenon DEF vars
<1> QED
  BY <1>1, <1>2, <1>3, <1>4, <1>5, <1>6, <1>7, <1>8, <1>9, <1>10, <1>11, <1>12, <1>13, Zenon
     DEF Next, KernelStep, LogStep

-----------------------------------------------------------------------------
(* The stages of commit() and of recovery                                  *)

\* Every step keeps headers, log blocks and home blocks in agreement.
LEMMA StageKeeps == IInv /\ [Next]_vars => StageInv'
<1> SUFFICES ASSUME IInv, [Next]_vars PROVE StageInv'
  OBVIOUS
<1>0. TypeOK /\ StageInv /\ CountInv /\ Len(lh) \in Nat /\ Len(dhead) \in Nat
  BY ListedEmpty, Zenon DEF IInv, CallsInv, TypeOK
<1>1. ASSUME NEW p \in Procs, Call(p) \/ begin_op(p) PROVE StageInv'
  <2>1. /\ UNCHANGED <<disk, dhead, dlog, cache, lh, stage, tail>>
        /\ outstanding' = outstanding \/ outstanding' = outstanding + 1
    BY <1>1, Zenon DEF Call, begin_op, diskVars, logVars
  <2> QED
    BY <1>0, <2>1 DEF StageInv, Distinct, Copied, TypeOK
<1>2. ASSUME NEW p \in Procs, NEW b \in Blocks, NEW v \in Vals, log_write(p, b, v)
      PROVE  StageInv'
  <2>1. p \in Active /\ UNCHANGED <<disk, dhead, dlog, lh, outstanding, stage, tail>>
    BY <1>2, Zenon DEF log_write, diskVars, logVars, Active
  <2>2. stage = "up"
    BY <2>1, CallMeansUp, Zenon
  <2> QED
    BY <1>0, <2>1, <2>2 DEF StageInv, Distinct, Copied
<1>3. ASSUME NEW p \in Procs, log_append(p) PROVE StageInv'
  <2>1. p \in Active /\ UNCHANGED <<disk, dhead, dlog, cache, outstanding, stage, tail>>
    BY <1>3, Zenon DEF log_append, diskVars, Active
  <2>2. stage = "up" /\ outstanding # 0
    BY <2>1, CallMeansUp, Zenon
  <2>3. lock[p] \in Blocks
    BY <1>3, Zenon DEF log_append, IInv, CallsInv, CallInv, TypeOK
  <2>4. Distinct(lh')
    BY <1>0, <1>3, <2>3, AppendBlock, Zenon DEF log_append, StageInv, TypeOK
  <2> QED
    BY <1>0, <2>1, <2>2, <2>4 DEF StageInv, Distinct
<1>4. ASSUME NEW p \in Procs, end_op(p) PROVE StageInv'
  <2>1. p \in Active /\ UNCHANGED <<disk, dhead, dlog, cache, lh, tail>>
    BY <1>4, Zenon DEF end_op, diskVars, Active
  <2>2. stage = "up" /\ outstanding # 0 /\ ~committing
    BY <2>1, CallMeansUp, Zenon
  <2>3. CASE outstanding # 1
    <3>1. stage' = "up" /\ outstanding' # 0
      BY <1>0, <1>4, <2>2, <2>3 DEF end_op, TypeOK
    <3> QED
      BY <1>0, <2>1, <2>2, <3>1, SMTT(30) DEF StageInv, Distinct
  <2>4. CASE outstanding = 1
    <3>1. stage' = IF lh = <<>> THEN "done" ELSE "write"
      BY <1>4, <2>2, <2>4, Zenon DEF end_op
    <3>2. lh # <<>> => 0 < Len(lh)
      BY <1>0, ListedEmpty DEF TypeOK
    <3> QED
      BY <1>0, <2>1, <2>2, <3>1, <3>2 DEF StageInv, Distinct, Copied
  <2> QED
    BY <2>3, <2>4, Zenon
<1>5. ASSUME NEW p \in Procs, end_commit(p) PROVE StageInv'
  <2>1. /\ UNCHANGED <<disk, dhead, dlog, cache, lh, outstanding, tail>>
        /\ stage = "done" /\ stage' = "up"
    BY <1>5, Zenon DEF end_commit, diskVars
  <2> QED
    BY <1>0, <2>1 DEF StageInv, Distinct
<1>6. CASE write_log
  <2>1. /\ stage = "write" /\ tail + 1 \in 1 .. Len(lh) /\ tail + 1 \in 1 .. LOGSIZE
        /\ cache[lh[tail + 1]] # None
        /\ UNCHANGED <<disk, dhead, cache, lh, outstanding>>
    BY <1>6, RoundInLog, Zenon DEF write_log, logVars, IInv, CacheInv, Pending, Listed
  <2>2. dlog' = [dlog EXCEPT ![tail + 1] = cache[lh[tail + 1]]]
    BY <1>6, <2>1, Zenon DEF write_log, bread
  <2>3. \A i \in 1 .. tail + 1 : dlog'[i] = cache[lh[i]]
    BY <1>0, <2>1, <2>2 DEF StageInv, Copied, TypeOK
  <2>4. CASE tail + 1 < Len(lh)
    <3>1. tail' = tail + 1 /\ stage' = "write"
      BY <1>0, <1>6, <2>1, <2>4 DEF write_log, TypeOK
    <3> QED
      BY <1>0, <2>1, <2>3, <2>4, <3>1 DEF StageInv, Distinct, Copied
  <2>5. CASE tail + 1 = Len(lh)
    <3>1. tail' = 0 /\ stage' = "head"
      BY <1>0, <1>6, <2>1, <2>5 DEF write_log, TypeOK
    <3> QED
      BY <1>0, <2>1, <2>3, <2>5, <3>1 DEF StageInv, Distinct, Copied
  <2> QED
    BY <1>0, <2>1, <2>4, <2>5 DEF TypeOK
<1>7. CASE write_head
  <2>1. /\ UNCHANGED <<disk, dlog, cache, lh, outstanding, tail>> /\ dhead' = lh
        /\ \/ stage = "head" /\ stage' = "install"
           \/ stage = "clear" /\ stage' = "done"
           \/ stage = "clear0" /\ stage' = "up"
    BY <1>7, Zenon DEF write_head, logVars
  <2>2. Len(lh) <= Limit
    BY LogFits, Zenon
  <2> QED
    BY <1>0, <2>1, <2>2 DEF StageInv, Distinct, Copied
<1>8. CASE install_trans
  <2> DEFINE b == lh[tail + 1]
  <2>1. /\ stage \in {"redo", "install"} /\ tail + 1 \in 1 .. Len(lh)
        /\ b \in Blocks /\ UNCHANGED <<dhead, dlog, outstanding>>
        /\ disk' = [disk EXCEPT ![b] = dlog[tail + 1]]
        /\ cache' = [cache EXCEPT ![b] = dlog[tail + 1]]
    BY <1>8, RoundInLog, Zenon DEF install_trans
  <2>2. \A i \in 1 .. Len(lh) : lh[i] \in Blocks /\ (i # tail + 1 => lh[i] # b)
    BY <1>0, <2>1, ListedEmpty, Zenon DEF TypeOK, StageInv, Distinct
  <2>3. \A i \in 1 .. tail + 1 : disk'[lh[i]] = dlog[i]
    BY <1>0, <2>1, <2>2 DEF StageInv, TypeOK
  <2>4. stage = "install" => \A i \in tail + 2 .. Len(lh) : cache'[lh[i]] = dlog[i]
    BY <1>0, <2>1, <2>2 DEF StageInv, TypeOK
  <2> HIDE DEF b
  <2>5. CASE tail + 1 < Len(lh)
    <3>1. tail' = tail + 1 /\ stage' = stage /\ lh' = lh
      BY <1>0, <1>8, <2>5 DEF install_trans, TypeOK
    <3>2. \A i \in tail' + 1 .. Len(lh) : i \in tail + 2 .. Len(lh)
      BY <1>0, <3>1 DEF TypeOK
    <3> QED
      BY <1>0, <2>1, <2>3, <2>4, <2>5, <3>1, <3>2 DEF StageInv, Distinct
  <2>6. CASE tail + 1 = Len(lh)
    <3>1. tail' = 0 /\ stage' = (IF stage = "redo" THEN "clear0" ELSE "clear") /\ lh' = <<>>
      BY <1>0, <1>8, <2>6 DEF install_trans, TypeOK
    <3>2. \A i \in 1 .. Len(dhead) : disk'[dhead[i]] = dlog[i]
      BY <1>0, <2>1, <2>3, <2>6 DEF StageInv
    <3>3. Distinct(lh')
      BY <3>1, EmptyHeader, Zenon
    <3> QED
      BY <1>0, <2>1, <3>1, <3>2, <3>3 DEF StageInv, Distinct
  <2> QED
    BY <1>0, <2>1, <2>5, <2>6 DEF TypeOK
<1>9. CASE read_head
  <2>1. /\ UNCHANGED <<disk, dhead, dlog, cache, outstanding, tail>> /\ stage = "boot"
        /\ lh' = dhead /\ stage' = IF dhead = <<>> THEN "clear0" ELSE "redo"
    BY <1>9, Zenon DEF read_head, diskVars
  <2>2. dhead = <<>> <=> Len(dhead) = 0
    BY <1>0, ListedEmpty, Zenon DEF TypeOK
  <2> QED
    BY <1>0, <2>1, <2>2 DEF StageInv, Distinct
<1>10. ASSUME NEW b \in Blocks, Fetch(b) \/ Recycle(b) PROVE StageInv'
  <2>1. /\ UNCHANGED <<disk, dhead, dlog, lh, outstanding, stage, tail>>
        /\ b \notin dirty
        /\ \A c \in Blocks \ {b} : cache'[c] = cache[c]
    BY <1>0, <1>10, Zenon DEF Fetch, Recycle, diskVars, logVars, IInv, CacheInv, TypeOK
  <2>2. \A i \in 1 .. Len(lh) : lh[i] \in Blocks
    BY <1>0, ListedEmpty, Zenon DEF TypeOK
  <2>3. stage \in {"write", "head"} => \A i \in 1 .. Len(lh) : lh[i] # b
    BY <2>1, Zenon DEF IInv, CacheInv, Pending, Listed
  <2>4. stage = "install" => \A i \in tail + 1 .. Len(lh) : lh[i] # b
    BY <2>1, Zenon DEF IInv, CacheInv, Pending
  <2>5. stage \in {"write", "head"} => \A i \in 1 .. Copied : dlog[i] = cache'[lh[i]]
    BY <1>0, <2>1, <2>2, <2>3 DEF StageInv, Copied, TypeOK
  <2>6. stage = "install" => \A i \in tail + 1 .. Len(lh) : cache'[lh[i]] = dlog[i]
    BY <1>0, <2>1, <2>2, <2>4 DEF StageInv, TypeOK
  <2>7. Copied' = Copied
    BY <2>1, Zenon DEF Copied
  <2> QED
    BY <1>0, <2>1, <2>5, <2>6, <2>7 DEF StageInv, Distinct
<1>11. CASE Crash
  <2>1. UNCHANGED <<disk, dhead, dlog>> /\ stage' = "boot" /\ tail' = 0 /\ lh' = <<>>
    BY <1>11, Zenon DEF Crash, diskVars
  <2>2. Distinct(lh')
    BY <2>1, EmptyHeader, Zenon
  <2> QED
    BY <1>0, <2>1, <2>2 DEF StageInv, Distinct
<1>12. CASE UNCHANGED vars
  <2>1. UNCHANGED <<disk, dhead, dlog, cache, lh, outstanding, stage, tail>>
    BY <1>12, Zenon DEF vars
  <2> QED
    BY <1>0, <2>1 DEF StageInv, Distinct, Copied
<1> QED
  BY <1>1, <1>2, <1>3, <1>4, <1>5, <1>6, <1>7, <1>8, <1>9, <1>10, <1>11, <1>12, Zenon
     DEF Next, KernelStep, LogStep

-----------------------------------------------------------------------------
(* The buffer cache                                                        *)

\* A step that keeps the buffers and locks keeps CacheInv if it keeps Pending.
LEMMA SameBuffers ==
    ASSUME IInv, Pending' = Pending, UNCHANGED <<disk, cache, dirty, lock>>
    PROVE  CacheInv'
BY Zenon DEF IInv, CacheInv

\* Every step keeps what only the cache has dirty or locked.
LEMMA CacheKeeps == IInv /\ [Next]_vars => CacheInv'
<1> SUFFICES ASSUME IInv, [Next]_vars PROVE CacheInv'
  OBVIOUS
<1>0. TypeOK /\ StageInv /\ CacheInv /\ Len(lh) \in Nat
  BY ListedEmpty, Zenon DEF IInv, TypeOK
<1>1. ASSUME NEW p \in Procs, Call(p) \/ begin_op(p) PROVE CacheInv'
  <2>1. UNCHANGED <<disk, cache, dirty, lock, lh, stage, tail>>
    BY <1>1, Zenon DEF Call, begin_op, diskVars, logVars
  <2> QED
    BY <2>1, SameBuffers, Zenon DEF Pending, Listed
<1>2. ASSUME NEW p \in Procs, NEW b \in Blocks, NEW v \in Vals, log_write(p, b, v)
      PROVE  CacheInv'
  <2>1. /\ UNCHANGED <<disk, dirty, lh, stage, tail>> /\ v # None
        /\ cache' = [cache EXCEPT ![b] = v] /\ lock' = [lock EXCEPT ![p] = b]
    BY <1>2, LogAssumption, Zenon DEF log_write, diskVars, logVars
  <2>2. Pending' = Pending
    BY <2>1, Zenon DEF Pending, Listed
  <2>3. lock[p] = None
    BY <1>2, Zenon DEF log_write, IInv, CallsInv, CallInv
  <2>4. lock'[p] = b /\ \A q \in Procs : lock[q] # None => lock'[q] = lock[q]
    BY <1>0, <2>1, <2>3, Zenon DEF TypeOK
  <2>5. \A c \in Blocks : cache'[c] = IF c = b THEN v ELSE cache[c]
    BY <1>0, <2>1, Zenon DEF TypeOK
  <2>6. \A c \in dirty' : cache'[c] # None
    BY <1>0, <2>1, <2>5, Zenon DEF TypeOK, CacheInv
  <2>7. ASSUME NEW c \in Blocks
        PROVE  cache'[c] \in {None, disk'[c]} \/ c \in dirty' \/ \E q \in Procs : lock'[q] = c
    <3>1. c # None
      BY LogAssumption, Zenon
    <3>2. c # b /\ (\E q \in Procs : lock[q] = c) => \E q \in Procs : lock'[q] = c
      BY <2>4, <3>1, Zenon
    <3> QED
      BY <1>0, <2>1, <2>4, <2>5, <3>2, Zenon DEF CacheInv
  <2> QED
    BY <1>0, <2>1, <2>2, <2>6, <2>7, Zenon DEF CacheInv
<1>3. ASSUME NEW p \in Procs, log_append(p) PROVE CacheInv'
  <2>1. /\ lock[p] \in Blocks /\ cache[lock[p]] # None /\ p \in Active
        /\ lh' = IF lock[p] \in Listed(lh) THEN lh ELSE Append(lh, lock[p])
        /\ dirty' = dirty \cup {lock[p]} /\ lock' = [lock EXCEPT ![p] = None]
        /\ UNCHANGED <<disk, cache, stage, tail>>
    BY <1>3, Zenon DEF log_append, diskVars, Active, IInv, CallsInv, CallInv, TypeOK
  <2>2. stage = "up"
    BY <2>1, CallMeansUp, Zenon
  <2>3. Listed(lh') = Listed(lh) \cup {lock[p]}
    BY <1>0, <2>1, AppendBlock, Zenon DEF TypeOK
  <2>4. Pending = Listed(lh) /\ Pending' = Listed(lh')
    BY <2>1, <2>2, Zenon DEF Pending, Listed
  <2>5. ASSUME NEW c \in Blocks
        PROVE  cache'[c] \in {None, disk'[c]} \/ c \in dirty' \/ \E q \in Procs : lock'[q] = c
    <3>1. ASSUME NEW q \in Procs, lock[q] = c PROVE c \in dirty' \/ lock'[q] = c
      BY <1>0, <2>1, <3>1, Zenon DEF TypeOK
    <3> QED
      BY <1>0, <2>1, <3>1, Zenon DEF CacheInv
  <2> QED
    BY <1>0, <2>1, <2>3, <2>4, <2>5, Zenon DEF CacheInv
<1>4. ASSUME NEW p \in Procs, end_op(p) PROVE CacheInv'
  <2>1. p \in Active /\ UNCHANGED <<disk, cache, dirty, lock, lh, tail>>
    BY <1>4, Zenon DEF end_op, diskVars, Active
  <2>2. stage = "up" /\ ~committing
    BY <2>1, CallMeansUp, Zenon
  <2>3. stage' \in {"up", "write"} \/ (stage' = "done" /\ lh = <<>>)
    BY <1>4, <2>2, Zenon DEF end_op
  <2>4. Pending' = Pending
    BY <2>1, <2>2, <2>3, EmptyHeader, Zenon DEF Pending, Listed
  <2> QED
    BY <2>1, <2>4, SameBuffers, Zenon
<1>5. ASSUME NEW p \in Procs, end_commit(p) PROVE CacheInv'
  <2>1. /\ UNCHANGED <<disk, cache, dirty, lock, lh, tail>>
        /\ stage = "done" /\ stage' = "up"
    BY <1>5, Zenon DEF end_commit, diskVars
  <2>2. lh = <<>>
    BY <1>0, <2>1, Zenon DEF StageInv
  <2>3. Pending' = Pending
    BY <2>1, <2>2, EmptyHeader, Zenon DEF Pending, Listed
  <2> QED
    BY <2>1, <2>3, SameBuffers, Zenon
<1>6. CASE write_log
  <2>1. /\ UNCHANGED <<disk, cache, dirty, lock, lh>>
        /\ stage = "write" /\ stage' \in {"write", "head"}
    BY <1>6, Zenon DEF write_log, logVars, opVars
  <2>2. Pending' = Pending
    BY <2>1, Zenon DEF Pending, Listed
  <2> QED
    BY <2>1, <2>2, SameBuffers, Zenon
<1>7. CASE write_head
  <2>1. /\ UNCHANGED <<disk, cache, dirty, lock, lh, tail>>
        /\ \/ stage = "head" /\ stage' = "install"
           \/ stage = "clear" /\ stage' = "done"
           \/ stage = "clear0" /\ stage' = "up"
    BY <1>7, Zenon DEF write_head, logVars, opVars
  <2>2. /\ stage = "head" => tail = 0
        /\ stage = "clear0" => lh = <<>>
    BY <1>0, <2>1, Zenon DEF StageInv
  <2>3. Pending' = Pending
    <3>1. CASE stage = "head"
      <4>1. stage' = "install" /\ tail = 0 /\ lh' = lh /\ tail' = 0
        BY <2>1, <2>2, <3>1, Zenon
      <4> QED
        BY <3>1, <4>1 DEF Pending, Listed
    <3>2. CASE stage = "clear"
      BY <2>1, <3>2, Zenon DEF Pending
    <3>3. CASE stage = "clear0"
      BY <2>1, <2>2, <3>3, EmptyHeader, Zenon DEF Pending, Listed
    <3> QED
      BY <2>1, <3>1, <3>2, <3>3, Zenon
  <2> QED
    BY <2>1, <2>3, SameBuffers, Zenon
<1>8. CASE install_trans
  <2> DEFINE b == lh[tail + 1]
  <2>1. /\ stage \in {"redo", "install"} /\ tail + 1 \in 1 .. Len(lh)
        /\ b \in Blocks /\ dlog[tail + 1] \in Vals /\ UNCHANGED lock
        /\ disk' = [disk EXCEPT ![b] = dlog[tail + 1]]
        /\ cache' = [cache EXCEPT ![b] = dlog[tail + 1]] /\ dirty' = dirty \ {b}
    BY <1>8, RoundInLog, Zenon DEF install_trans, opVars
  <2>2. \A i \in 1 .. Len(lh) : i # tail + 1 => lh[i] # b
    BY <1>0, <2>1, Zenon DEF StageInv, Distinct
  <2>3. Pending' = Pending \ {b}
    <3>1. CASE tail + 1 < Len(lh)
      <4>1. tail' = tail + 1 /\ stage' = stage /\ lh' = lh
        BY <1>0, <1>8, <3>1 DEF install_trans, TypeOK
      <4>2. CASE stage = "redo"
        BY <4>1, <4>2, Zenon DEF Pending
      <4>3. CASE stage = "install"
        <5>1. \A i \in 1 .. Len(lh) : i \in tail + 2 .. Len(lh) <=> i \in tail + 1 .. Len(lh) /\ i # tail + 1
          BY <1>0 DEF TypeOK
        <5>2. /\ Pending = {lh[i] : i \in tail + 1 .. Len(lh)}
              /\ Pending' = {lh[i] : i \in tail + 2 .. Len(lh)}
          BY <1>0, <4>1, <4>3, SMTT(30) DEF Pending, TypeOK
        <5> QED
          BY <1>0, <2>1, <2>2, <5>1, <5>2, SMTT(30) DEF TypeOK
      <4> QED
        BY <2>1, <4>2, <4>3, Zenon
    <3>2. CASE tail + 1 = Len(lh)
      <4>1. stage' = IF stage = "redo" THEN "clear0" ELSE "clear"
        BY <1>0, <1>8, <3>2 DEF install_trans, TypeOK
      <4> QED
        BY <1>0, <2>1, <3>2, <4>1 DEF Pending, TypeOK
    <3> QED
      BY <1>0, <2>1, <3>1, <3>2 DEF TypeOK
  <2> HIDE DEF b
  <2>4. \A c \in Blocks : cache'[c] = IF c = b THEN dlog[tail + 1] ELSE cache[c]
    BY <1>0, <2>1, Zenon DEF TypeOK
  <2>5. \A c \in Blocks : disk'[c] = IF c = b THEN dlog[tail + 1] ELSE disk[c]
    BY <1>0, <2>1, Zenon DEF TypeOK
  <2> QED
    BY <1>0, <2>1, <2>3, <2>4, <2>5, LogAssumption DEF CacheInv, TypeOK
<1>9. CASE read_head
  <2>1. /\ UNCHANGED <<disk, cache, dirty, lock>>
        /\ stage = "boot" /\ stage' \in {"clear0", "redo"}
    BY <1>9, Zenon DEF read_head, diskVars, opVars
  <2>2. Pending' = Pending
    BY <2>1, Zenon DEF Pending
  <2> QED
    BY <2>1, <2>2, SameBuffers, Zenon
<1>10. ASSUME NEW b \in Blocks, Fetch(b) \/ Recycle(b) PROVE CacheInv'
  <2>1. /\ UNCHANGED <<disk, dirty, lock, lh, stage, tail>> /\ b \notin dirty
        /\ cache' = [cache EXCEPT ![b] = disk[b]] \/ cache' = [cache EXCEPT ![b] = None]
    BY <1>0, <1>10, Zenon DEF Fetch, Recycle, diskVars, logVars, opVars, CacheInv
  <2>3. cache'[b] \in {None, disk[b]} /\ \A c \in Blocks \ {b} : cache'[c] = cache[c]
    BY <1>0, <2>1, Zenon DEF TypeOK
  <2>2. Pending' = Pending
    BY <2>1, Zenon DEF Pending, Listed
  <2> QED
    BY <1>0, <2>1, <2>2, <2>3, Zenon DEF CacheInv, TypeOK
<1>11. CASE Crash
  <2>1. stage' = "boot" /\ dirty' = {} /\ cache' = [b \in Blocks |-> None]
    BY <1>11, Zenon DEF Crash
  <2>2. Pending' = {}
    BY <2>1, Zenon DEF Pending
  <2> QED
    BY <2>1, <2>2, Zenon DEF CacheInv
<1>12. CASE UNCHANGED vars
  <2>1. UNCHANGED <<disk, cache, dirty, lock, lh, stage, tail>>
    BY <1>12, Zenon DEF vars
  <2> QED
    BY <2>1, SameBuffers, Zenon DEF Pending, Listed
<1> QED
  BY <1>1, <1>2, <1>3, <1>4, <1>5, <1>6, <1>7, <1>8, <1>9, <1>10, <1>11, <1>12, Zenon
     DEF Next, KernelStep, LogStep

-----------------------------------------------------------------------------
(* Sleepers                                                                *)

\* Every step that ends the reason to sleep in begin_op() wakes the sleepers.
LEMMA WakeKeeps == IInv /\ [Next]_vars => NoLostWakeup'
<1> SUFFICES ASSUME IInv, [Next]_vars PROVE NoLostWakeup'
  OBVIOUS
<1>0. TypeOK /\ NoLostWakeup /\ CountInv
  BY Zenon DEF IInv, CallsInv
<1>1. ASSUME NEW p \in Procs, Call(p) PROVE NoLostWakeup'
  <2>1. /\ pc' = [pc EXCEPT ![p] = "begin"] /\ UNCHANGED <<lh, outstanding, committing>>
    BY <1>1, Zenon DEF Call, logVars
  <2> QED
    BY <1>0, <2>1, Zenon DEF NoLostWakeup, MustWait, TypeOK
<1>2. ASSUME NEW p \in Procs, begin_op(p) PROVE NoLostWakeup'
  <2>1. CASE MustWait
    <3>1. MustWait'
      BY <1>2, <2>1, Zenon DEF begin_op, MustWait
    <3> QED
      BY <3>1, Zenon DEF NoLostWakeup
  <2>2. CASE ~MustWait
    <3>1. pc' = [pc EXCEPT ![p] = "op"]
      BY <1>2, <2>2, Zenon DEF begin_op
    <3> QED
      BY <1>0, <2>2, <3>1, Zenon DEF NoLostWakeup, TypeOK
  <2> QED
    BY <2>1, <2>2, Zenon
<1>3. ASSUME NEW p \in Procs, NEW b \in Blocks, NEW v \in Vals, log_write(p, b, v)
      PROVE  NoLostWakeup'
  <2>1. \A q \in Procs : pc'[q] = "asleep" => pc[q] = "asleep"
    BY <1>0, <1>3, Zenon DEF log_write, TypeOK
  <2>2. MustWait' = MustWait
    BY <1>3, Zenon DEF log_write, logVars, MustWait
  <2> QED
    BY <1>0, <2>1, <2>2, Zenon DEF NoLostWakeup
<1>4. ASSUME NEW p \in Procs, log_append(p) PROVE NoLostWakeup'
  <2>1. \A q \in Procs : pc'[q] = "asleep" => pc[q] = "asleep"
    BY <1>0, <1>4, Zenon DEF log_append, TypeOK
  <2>2. Len(lh') >= Len(lh) /\ Len(lh) \in Nat /\ Len(lh') \in Nat
    <3>1. lock[p] \in Blocks
      BY <1>4, Zenon DEF log_append, IInv, CallsInv, CallInv, TypeOK
    <3> QED
      BY <1>0, <1>4, <3>1, AppendBlock, ListedEmpty DEF log_append, TypeOK
  <2>3. MustWait => MustWait'
    <3> DEFINE reserved == (outstanding + 1) * MAXOPBLOCKS
    <3>1. reserved \in Nat /\ outstanding' = outstanding /\ committing' = committing
      <4>1. outstanding + 1 \in Nat /\ outstanding' = outstanding /\ committing' = committing
        BY <1>0, <1>4 DEF log_append, TypeOK
      <4> QED
        BY <4>1, ReserveCovers, Zenon
    <3>2. /\ MustWait <=> committing \/ Len(lh) + reserved > LOGSIZE
          /\ MustWait' <=> committing \/ Len(lh') + reserved > LOGSIZE
      BY <3>1, Zenon DEF MustWait
    <3> HIDE DEF reserved
    <3> QED
      BY <2>2, <3>1, <3>2, LogAssumption
  <2> QED
    BY <1>0, <2>1, <2>3, Zenon DEF NoLostWakeup
<1>5. ASSUME NEW p \in Procs, end_op(p) PROVE NoLostWakeup'
  <2>1. p \in Active
    BY <1>5, Zenon DEF end_op, Active
  <2>2. ~committing
    BY <2>1, CallMeansUp, Zenon
  <2>3. committing' = TRUE \/ pc' = Wakeup([pc EXCEPT ![p] = "out"])
    BY <1>5, <2>2, Zenon DEF end_op
  <2>4. CASE committing' = TRUE
    BY <2>4, Zenon DEF NoLostWakeup, MustWait
  <2>5. CASE pc' = Wakeup([pc EXCEPT ![p] = "out"])
    BY <1>0, <2>5, LeaveWakes, Zenon DEF NoLostWakeup
  <2> QED
    BY <2>3, <2>4, <2>5, Zenon
<1>6. ASSUME NEW p \in Procs, end_commit(p) PROVE NoLostWakeup'
  BY <1>0, <1>6, LeaveWakes, Zenon DEF end_commit, NoLostWakeup
<1>7. CASE UNCHANGED <<pc, lh, outstanding, committing>>
  BY <1>0, <1>7, Zenon DEF NoLostWakeup, MustWait
<1>8. CASE write_log \/ write_head \/ UNCHANGED vars \/ \E b \in Blocks : Fetch(b) \/ Recycle(b)
  BY <1>7, <1>8, Zenon DEF write_log, write_head, Fetch, Recycle, vars, logVars, opVars
<1>9. CASE install_trans
  <2>1. committing' \/ \A q \in Procs : pc'[q] = "out"
    BY <1>0, <1>9, Zenon DEF install_trans, opVars, CountInv, Running
  <2> QED
    BY <2>1, Zenon DEF NoLostWakeup, MustWait
<1>10. CASE read_head \/ Crash
  <2>1. \A q \in Procs : pc'[q] = "out"
    BY <1>0, <1>10, Zenon DEF read_head, Crash, opVars, CountInv, Running
  <2> QED
    BY <2>1, Zenon DEF NoLostWakeup
<1> QED
  BY <1>1, <1>2, <1>3, <1>4, <1>5, <1>6, <1>8, <1>9, <1>10, Zenon DEF Next, KernelStep, LogStep

-----------------------------------------------------------------------------
(* What recovery leaves, and the steps of AtomicDisk                       *)

\* After the last end_op() the cache, the disk and what recovery would leave
\* agree.
LEMMA DurableHolds == IInv => Durable
<1> SUFFICES ASSUME IInv, stage = "up", outstanding = 0
             PROVE  Recovered = Current /\ dhead = <<>> /\ lh = <<>> /\ dirty = {}
  BY Zenon DEF Durable
<1>1. dhead = <<>> /\ lh = <<>>
  BY Zenon DEF IInv, StageInv
<1>2. dirty = {}
  BY <1>1, EmptyHeader, Zenon DEF IInv, CacheInv, Pending
<1>3. \A p \in Procs : lock[p] = None
  BY NoLocks, Zenon
<1>4. \A b \in Blocks : Recovered[b] = disk[b]
  BY <1>1, EmptyHeader, Zenon DEF Recovered
<1>5. \A b \in Blocks : Current[b] = disk[b]
  BY <1>2, <1>3, LogAssumption, Zenon DEF Current, Running, bread, IInv, CacheInv
<1>6. Recovered = Current
  BY <1>4, <1>5, Zenon DEF Recovered, Current
<1> QED
  BY <1>1, <1>2, <1>6, Zenon

\* The disk d with the blocks that header h lists replaced from the log l.
Redo(h, l, d) ==
    [b \in Blocks |-> IF b \in Listed(h) THEN l[CHOOSE i \in 1 .. Len(h) : h[i] = b] ELSE d[b]]

\* Recovery takes a listed block from its entry of the log, others from home.
LEMMA RedoListed ==
    ASSUME NEW h \in Seq(Blocks), Distinct(h), NEW l, NEW d
    PROVE  /\ \A i \in 1 .. Len(h) : Redo(h, l, d)[h[i]] = l[i]
           /\ \A b \in Blocks : b \notin Listed(h) => Redo(h, l, d)[b] = d[b]
<1>1. ASSUME NEW i \in 1 .. Len(h) PROVE Redo(h, l, d)[h[i]] = l[i]
  <2>1. h[i] \in Blocks /\ h[i] \in Listed(h)
    BY ListedEmpty, Zenon DEF Listed
  <2>2. (CHOOSE j \in 1 .. Len(h) : h[j] = h[i]) = i
    BY Zenon DEF Distinct
  <2> QED
    BY <2>1, <2>2, Zenon DEF Redo
<1> QED
  BY <1>1, Zenon DEF Redo

\* What recovery would leave, before and after a step.
LEMMA RecoveredRedo ==
    /\ Recovered = Redo(dhead, dlog, disk)
    /\ Recovered' = Redo(dhead', dlog', disk')
BY Zenon DEF Recovered, Redo

\* Reads while the system runs, and before recovery has ended.
LEMMA CurrentIs ==
    /\ Running => Current = [b \in Blocks |-> bread(b)]
    /\ Running' => Current' = [b \in Blocks |-> bread(b)']
    /\ ~Running => Current = Recovered
    /\ ~Running' => Current' = Recovered'
BY Zenon DEF Current, Recovered

\* Eviction and installation do not change what recovery would leave.
LEMMA InstallKeepsRecovered ==
    ASSUME IInv, install_trans
    PROVE  Recovered' = Recovered
<1> DEFINE b == lh[tail + 1]
<1>1. /\ lh = dhead /\ b \in Listed(dhead) /\ b \in Blocks /\ dhead' = dhead /\ dlog' = dlog
      /\ disk' = [disk EXCEPT ![b] = dlog[tail + 1]]
  BY RoundInLog, Zenon DEF install_trans, IInv, StageInv, Listed
<1> HIDE DEF b
<1>2. \A c \in Blocks : c \notin Listed(dhead) => disk'[c] = disk[c]
  BY <1>1, Zenon DEF IInv, TypeOK
<1> QED
  BY <1>1, <1>2 DEF Recovered, Listed

\* A step that leaves disk, cache and the run state alone changes no read.
LEMMA SameReads ==
    ASSUME UNCHANGED <<disk, dhead, dlog, cache>>, Running' = Running
    PROVE  Recovered' = Recovered /\ Current' = Current
<1>1. Recovered' = Recovered
  BY SMTT(30) DEF Recovered, Listed
<1> QED
  BY <1>1, Zenon DEF Current, bread

\* Each step of the log is a step of AtomicDisk or leaves its state alone; the
\* commit is the write of the header.
LEMMA StepRefines ==
    ASSUME IInv, [Next]_vars
    PROVE  [Atomic!Next]_(Atomic!vars)
<1> USE DEF Atomic!Next, Atomic!vars
<1>0. TypeOK /\ StageInv /\ CacheInv /\ CountInv
  BY Zenon DEF IInv, CallsInv
<1>1. ASSUME NEW p \in Procs, Call(p) PROVE UNCHANGED Atomic!vars
  <2>1. Active' = Active /\ UNCHANGED <<disk, dhead, dlog, cache, stage>>
    BY <1>0, <1>1, Zenon DEF Call, Active, diskVars, TypeOK
  <2> QED
    BY <2>1, SameReads, Zenon DEF Running
<1>2. ASSUME NEW p \in Procs, begin_op(p) PROVE [Atomic!Next]_(Atomic!vars)
  <2>1. UNCHANGED <<disk, dhead, dlog, cache, stage>>
    BY <1>2, Zenon DEF begin_op, diskVars
  <2>2. Recovered' = Recovered /\ Current' = Current
    BY <2>1, SameReads, Zenon DEF Running
  <2>3. CASE MustWait
    <3>1. Active' = Active
      BY <1>0, <1>2, <2>3, Zenon DEF begin_op, Active, TypeOK
    <3> QED
      BY <2>2, <3>1, Zenon
  <2>4. CASE ~MustWait
    <3>1. Active' = Active \cup {p} /\ p \notin Active
      BY <1>0, <1>2, <2>4, Zenon DEF begin_op, Active, TypeOK
    <3>2. Atomic!Begin(p)
      BY <2>2, <3>1, Zenon DEF Atomic!Begin
    <3> QED
      BY <3>2, Zenon
  <2> QED
    BY <2>3, <2>4, Zenon
<1>3. ASSUME NEW p \in Procs, NEW b \in Blocks, NEW v \in Vals, log_write(p, b, v)
      PROVE  Atomic!Write(p, b, v)
  <2>1. /\ Active' = Active /\ p \in Active /\ Running /\ Running'
        /\ UNCHANGED <<disk, dhead, dlog>> /\ cache' = [cache EXCEPT ![b] = v]
    BY <1>0, <1>3, Zenon DEF log_write, Active, diskVars, TypeOK, Running
  <2>2. Recovered' = Recovered
    BY <2>1 DEF Recovered, Listed
  <2>3. v # None
    BY LogAssumption, Zenon
  <2>4. \A c \in Blocks : Current'[c] = IF c = b THEN v ELSE Current[c]
    BY <1>0, <2>1, <2>3, Zenon DEF Current, bread, TypeOK
  <2>5. Current' = [Current EXCEPT ![b] = v]
    BY <2>4, Zenon DEF Current
  <2> QED
    BY <2>1, <2>2, <2>5, Zenon DEF Atomic!Write
<1>4. ASSUME NEW p \in Procs, log_append(p) PROVE UNCHANGED Atomic!vars
  <2>1. Active' = Active /\ UNCHANGED <<disk, dhead, dlog, cache, stage>>
    BY <1>0, <1>4, Zenon DEF log_append, Active, diskVars, TypeOK
  <2> QED
    BY <2>1, SameReads, Zenon DEF Running
<1>5. ASSUME NEW p \in Procs, end_op(p) PROVE Atomic!End(p)
  <2>1. p \in Active /\ UNCHANGED <<disk, dhead, dlog, cache>>
    BY <1>5, Zenon DEF end_op, Active, diskVars
  <2>2. ~committing /\ stage = "up"
    BY <2>1, CallMeansUp, Zenon
  <2>3. Running' = Running
    BY <1>5, <2>2, Zenon DEF end_op, Running
  <2>4. Active' = Active \ {p}
    <3>1. pc' = [pc EXCEPT ![p] = "commit"] \/ pc' = Wakeup([pc EXCEPT ![p] = "out"])
      BY <1>5, <2>2, Zenon DEF end_op
    <3>2. CASE pc' = [pc EXCEPT ![p] = "commit"]
      BY <1>0, <3>2, Zenon DEF TypeOK, Active
    <3>3. CASE pc' = Wakeup([pc EXCEPT ![p] = "out"])
      BY <1>0, <3>3, LeaveWakes, Zenon DEF Active
    <3> QED
      BY <3>1, <3>2, <3>3, Zenon
  <2> QED
    BY <2>1, <2>3, <2>4, SameReads, Zenon DEF Atomic!End
<1>6. ASSUME NEW p \in Procs, end_commit(p) PROVE UNCHANGED Atomic!vars
  <2>1. UNCHANGED <<disk, dhead, dlog, cache>> /\ Running' = Running
    BY <1>6, Zenon DEF end_commit, diskVars, Running
  <2>2. /\ pc[p] = "commit" /\ pc'[p] = "out"
        /\ \A q \in Procs \ {p}, s \in {"op", "append", "panic"} : pc'[q] = s <=> pc[q] = s
    BY <1>0, <1>6, LeaveWakes, Zenon DEF end_commit
  <2>3. Active' = Active
    BY <2>2, Zenon DEF Active
  <2> QED
    BY <2>1, <2>3, SameReads, Zenon
<1>7. CASE write_log
  <2>1. /\ UNCHANGED <<disk, dhead, cache, pc>> /\ dhead = <<>> /\ Running /\ Running'
    BY <1>0, <1>7, Zenon DEF write_log, opVars, StageInv, Running
  <2>2. Listed(dhead) = {} /\ Listed(dhead') = {}
    BY <2>1, EmptyHeader, Zenon
  <2>3. Recovered' = Recovered
    BY <2>1, <2>2, Zenon DEF Recovered
  <2>4. Current' = Current
    BY <2>1, Zenon DEF Current, bread
  <2>5. Active' = Active
    BY <2>1, Zenon DEF Active
  <2> QED
    BY <2>3, <2>4, <2>5, Zenon
<1>8. CASE write_head
  <2>1. /\ UNCHANGED <<disk, dlog, cache, pc, lh>> /\ dhead' = lh /\ Active' = Active
        /\ \/ stage = "head" /\ stage' = "install"
           \/ stage = "clear" /\ stage' = "done"
           \/ stage = "clear0" /\ stage' = "up"
    BY <1>8, Zenon DEF write_head, logVars, opVars, Active
  <2>2. Active = {} /\ \A p \in Procs : lock[p] = None
    <3>1. outstanding = 0
      BY <1>0, <2>1, Zenon DEF CountInv, Running
    <3> QED
      BY <3>1, NoLocks, Zenon
  <2>3. \A b \in Blocks : b \notin dirty => bread(b) = disk[b]
    BY <1>0, <2>2, LogAssumption, Zenon DEF CacheInv, bread
  <2>4. CASE stage = "head"
    <3>1. Running /\ Running' /\ dirty = Listed(lh)
      BY <1>0, <2>1, <2>4, Zenon DEF Running, CacheInv, Pending
    <3>2. Current' = Current /\ Current = [b \in Blocks |-> bread(b)]
      BY <2>1, <3>1, Zenon DEF Current, bread
    <3>3. \A i \in 1 .. Len(lh) : bread(lh[i]) = dlog[i]
      BY <1>0, <2>4, <3>1, Zenon DEF CacheInv, StageInv, Copied, bread, Listed
    <3>4. /\ \A i \in 1 .. Len(lh) : Recovered'[lh[i]] = dlog[i]
          /\ \A b \in Blocks : b \notin Listed(lh) => Recovered'[b] = disk[b]
      <4>1. Recovered' = Redo(lh, dlog, disk) /\ lh \in Seq(Blocks) /\ Distinct(lh)
        BY <1>0, <2>1, RecoveredRedo, Zenon DEF StageInv, TypeOK
      <4>2. /\ \A i \in 1 .. Len(lh) : Redo(lh, dlog, disk)[lh[i]] = dlog[i]
            /\ \A b \in Blocks : b \notin Listed(lh) => Redo(lh, dlog, disk)[b] = disk[b]
        BY <4>1, RedoListed, SMTT(30)
      <4> QED
        BY <4>1, <4>2, Zenon
    <3>5. \A b \in Blocks : Recovered'[b] = bread(b)
      BY <2>3, <3>1, <3>3, <3>4 DEF Listed
    <3>6. Recovered' = Current
      BY <3>2, <3>5, Zenon DEF Recovered
    <3>7. Atomic!Commit
      BY <2>1, <2>2, <3>2, <3>6, Zenon DEF Atomic!Commit
    <3> QED
      BY <3>7, Zenon
  <2>5. CASE stage \in {"clear", "clear0"}
    <3>1. dhead' = <<>> /\ dirty = {} /\ \A i \in 1 .. Len(dhead) : disk[dhead[i]] = dlog[i]
      BY <1>0, <2>1, <2>5, Zenon DEF StageInv, CacheInv, Pending
    <3>2. \A b \in Blocks : Recovered'[b] = disk[b]
      BY <2>1, <3>1, EmptyHeader, Zenon DEF Recovered
    <3>3. /\ \A i \in 1 .. Len(dhead) : Recovered[dhead[i]] = dlog[i]
          /\ \A b \in Blocks : b \notin Listed(dhead) => Recovered[b] = disk[b]
      <4>1. Recovered = Redo(dhead, dlog, disk) /\ dhead \in Seq(Blocks) /\ Distinct(dhead)
        BY <1>0, RecoveredRedo, Zenon DEF StageInv, TypeOK
      <4>2. /\ \A i \in 1 .. Len(dhead) : Redo(dhead, dlog, disk)[dhead[i]] = dlog[i]
            /\ \A b \in Blocks : b \notin Listed(dhead) => Redo(dhead, dlog, disk)[b] = disk[b]
        BY <4>1, RedoListed
      <4> QED
        BY <4>1, <4>2, Zenon
    <3>4. \A b \in Blocks : Recovered[b] = disk[b]
      BY <3>1, <3>3 DEF Listed
    <3>5. Recovered' = Recovered
      BY <3>2, <3>4, Zenon DEF Recovered
    <3>6. Current' = Current
      <4>1. CASE stage = "clear"
        BY <2>1, <4>1, Zenon DEF Current, bread, Running
      <4>2. CASE stage = "clear0"
        <5>1. ~Running /\ Running'
          BY <2>1, <4>2, Zenon DEF Running
        <5>2. \A b \in Blocks : bread(b)' = disk[b]
          BY <2>1, <2>3, <3>1, Zenon DEF bread
        <5> QED
          BY <3>4, <5>1, <5>2, Zenon DEF Current
      <4> QED
        BY <2>5, <4>1, <4>2, Zenon
    <3> QED
      BY <2>1, <3>5, <3>6, Zenon
  <2> QED
    BY <2>1, <2>4, <2>5, Zenon
<1>9. CASE install_trans
  <2> DEFINE b == lh[tail + 1]
  <2>1. /\ pc' = pc /\ b \in Blocks /\ dlog[tail + 1] \in Vals /\ tail + 1 \in tail + 1 .. Len(lh)
        /\ disk' = [disk EXCEPT ![b] = dlog[tail + 1]]
        /\ cache' = [cache EXCEPT ![b] = dlog[tail + 1]]
    BY <1>9, RoundInLog DEF install_trans, opVars
  <2>2. Recovered' = Recovered
    BY <1>9, InstallKeepsRecovered, Zenon
  <2>3. CASE stage = "redo"
    <3>1. ~Running /\ ~Running'
      BY <1>9, <2>3, Zenon DEF install_trans, Running
    <3> QED
      BY <2>1, <2>2, <3>1, CurrentIs, Zenon DEF Active
  <2>4. CASE stage = "install"
    <3>1. Running /\ Running'
      BY <1>9, <2>4, Zenon DEF install_trans, Running
    <3>2. cache[b] = dlog[tail + 1]
      BY <1>0, <2>1, <2>4, Zenon DEF StageInv
    <3> HIDE DEF b
    <3>3. cache' = cache /\ \A c \in Blocks \ {b} : disk'[c] = disk[c]
      BY <1>0, <2>1, <3>2, Zenon DEF TypeOK
    <3>4. \A c \in Blocks : bread(c)' = bread(c)
      BY <1>0, <2>1, <3>2, <3>3, LogAssumption, Zenon DEF bread
    <3>5. Current' = Current
      BY <3>1, <3>4, Zenon DEF Current
    <3> QED
      BY <2>1, <2>2, <3>5, Zenon DEF Active
  <2> QED
    BY <1>9, <2>3, <2>4, Zenon DEF install_trans
<1>10. CASE read_head
  <2>1. UNCHANGED <<disk, dhead, dlog, cache, pc>> /\ Running' = Running
    BY <1>10, Zenon DEF read_head, diskVars, opVars, Running
  <2> QED
    BY <2>1, SameReads, Zenon DEF Active
<1>11. ASSUME NEW b \in Blocks, Fetch(b) \/ Recycle(b) PROVE UNCHANGED Atomic!vars
  <2>1. /\ UNCHANGED <<disk, dhead, dlog, pc, stage>>
        /\ \/ Running /\ cache[b] = None /\ cache' = [cache EXCEPT ![b] = disk[b]]
           \/ cache[b] = disk[b] /\ cache' = [cache EXCEPT ![b] = None]
    BY <1>0, <1>11, Zenon DEF Fetch, Recycle, CacheInv, diskVars, opVars
  <2>2. Recovered' = Recovered /\ Active' = Active /\ Running' = Running
    BY <2>1 DEF Recovered, Listed, Active, Running
  <2>3. \A c \in Blocks : bread(c)' = bread(c)
    BY <1>0, <2>1, LogAssumption DEF bread, TypeOK
  <2>4. Current' = Current
    BY <2>2, <2>3, Zenon DEF Current
  <2> QED
    BY <2>2, <2>4, Zenon
<1>12. CASE Crash
  <2>1. /\ UNCHANGED <<disk, dhead, dlog>> /\ Active' = {} /\ ~Running'
    BY <1>12, Zenon DEF Crash, diskVars, Active, Running
  <2>2. Recovered' = Recovered /\ Current' = Recovered'
    BY <2>1, CurrentIs, RecoveredRedo, Zenon
  <2>3. Atomic!Crash
    BY <2>1, <2>2, Zenon DEF Atomic!Crash
  <2> QED
    BY <2>3, Zenon
<1>13. CASE UNCHANGED vars
  <2>1. UNCHANGED <<disk, dhead, dlog, cache, pc, stage>>
    BY <1>13, Zenon DEF vars
  <2> QED
    BY <2>1, SameReads, Zenon DEF Active, Running
<1> QED
  BY <1>1, <1>2, <1>3, <1>4, <1>5, <1>6, <1>7, <1>8, <1>9, <1>10, <1>11, <1>12, <1>13, Zenon
     DEF Next, KernelStep, LogStep

\* At boot the disk is what it was formatted as, and no call is in progress.
LEMMA InitRefines == Init => Atomic!Init
<1> SUFFICES ASSUME Init PROVE Atomic!Init
  OBVIOUS
<1>1. Active = {}
  BY Zenon DEF Init, Active
<1>2. \A b \in Blocks : Recovered[b] = InitVal
  BY EmptyHeader, Zenon DEF Init, Recovered
<1>3. Recovered = [b \in Blocks |-> InitVal]
  BY <1>2, Zenon DEF Recovered
<1>4. Current = Recovered
  BY CurrentIs, Zenon DEF Init, Running
<1> QED
  BY <1>1, <1>3, <1>4, Zenon DEF Atomic!Init



-----------------------------------------------------------------------------
(* The calls in progress, and the entries they may still add               *)

\* The calls in progress are finitely many.
LEMMA ActiveFinite ==
    IsFiniteSet(Active) /\ Active \subseteq Procs /\ IsFiniteSet(Active')
BY LogAssumption, FS_Subset, Zenon DEF Active

\* The credit of the calls is finite, and the header within the log.
LEMMA CreditFinite ==
    /\ IsFiniteSet(Credit) /\ Cardinality(Credit) \in Nat
    /\ IsFiniteSet(Credit') /\ Cardinality(Credit') \in Nat
<1>1. IsFiniteSet(Procs \X (1 .. OpBlocks))
  <2>1. IsFiniteSet(Procs) /\ IsFiniteSet(1 .. OpBlocks)
    <3>1. 1 \in Int /\ OpBlocks \in Int
      BY LogAssumption
    <3> QED
      BY LogAssumption, <3>1, FS_Interval, Zenon
  <2> QED
    BY <2>1, FS_Product, Zenon
<1>2. \A C \in SUBSET (Procs \X (1 .. OpBlocks)) : IsFiniteSet(C) /\ Cardinality(C) \in Nat
  BY <1>1, FS_Subset, FS_CardinalityType, Zenon
<1>3. Credit \in SUBSET (Procs \X (1 .. OpBlocks)) /\ Credit' \in SUBSET (Procs \X (1 .. OpBlocks))
  BY Zenon DEF Credit, Active
<1> QED
  BY <1>2, <1>3, Zenon

\* Every step keeps the locks and the count of the calls right.
LEMMA CallsKeeps == IInv /\ [Next]_vars => CallsInv'
<1> SUFFICES ASSUME IInv, [Next]_vars PROVE CallsInv'
  OBVIOUS
<1> USE LogAssumption DEF IInv, TypeOK, CallsInv, CallInv, CountInv, diskVars, logVars, opVars,
                         Running
<1>1. ASSUME NEW p \in Procs, Call(p) PROVE CallsInv'
  <2>1. Active' = Active
    BY <1>1, Zenon DEF Call, Active
  <2> QED
    BY <1>1, <2>1, Zenon DEF Call
<1>2. ASSUME NEW p \in Procs, begin_op(p) PROVE CallsInv'
  <2>1. CASE MustWait
    <3>1. Active' = Active
      BY <1>2, <2>1, Zenon DEF begin_op, Active
    <3> QED
      BY <1>2, <2>1, <3>1 DEF begin_op
  <2>2. CASE ~MustWait
    <3>1. Active' = Active \cup {p} /\ p \notin Active
      BY <1>2, <2>2 DEF begin_op, Active
    <3>2. outstanding' = Cardinality(Active')
      BY <1>2, <2>2, <3>1, ActiveFinite, FS_AddElement, Zenon DEF begin_op
    <3> QED
      BY <1>2, <2>2, <3>1, <3>2, Zenon DEF begin_op, MustWait
  <2> QED
    BY <2>1, <2>2, Zenon
<1>3. ASSUME NEW p \in Procs, NEW b \in Blocks, NEW v \in Vals, log_write(p, b, v)
      PROVE  CallsInv'
  <2>1. Active' = Active
    BY <1>3, Zenon DEF log_write, Active
  <2>2. IsFiniteSet(wrote[p] \cup {b})
    BY FS_AddElement, Zenon
  <2>3. /\ lock' = [lock EXCEPT ![p] = b] /\ wrote' = [wrote EXCEPT ![p] = @ \cup {b}]
        /\ cache' = [cache EXCEPT ![b] = v] /\ pc[p] = "op" /\ p \in Active
        /\ pc'[p] \in {"append", "panic"} /\ \A q \in Procs \ {p} : pc'[q] = pc[q]
        /\ UNCHANGED <<outstanding, committing, stage>> /\ Running /\ v # None
        /\ Cardinality(wrote[p] \cup {b}) <= OpBlocks /\ \A q \in Procs : lock[q] # b
    BY <1>3, Zenon DEF log_write, Active
  <2>4. ASSUME NEW q \in Procs PROVE CallInv(q)'
    <3>1. /\ IsFiniteSet(wrote'[q]) /\ Cardinality(wrote'[q]) <= OpBlocks
          /\ q \notin Active' => wrote'[q] = {}
      BY <2>1, <2>2, <2>3, Zenon
    <3>2. \A r \in Procs : lock'[q] # None /\ lock'[q] = lock'[r] => q = r
      BY <2>3, Zenon
    <3>3. CASE q = p
      <4>1. lock'[q] = b /\ wrote'[q] = wrote[q] \cup {b} /\ cache'[b] = v
        BY <2>3, <3>3
      <4> QED
        BY <2>3, <3>1, <3>2, <3>3, <4>1, SMTT(30)
    <3>4. CASE q # p
      <4>1. lock'[q] = lock[q] /\ wrote'[q] = wrote[q] /\ pc'[q] = pc[q]
        BY <2>3, <3>4, Zenon
      <4>2. lock[q] # None => cache'[lock[q]] = cache[lock[q]]
        BY <2>3, Zenon
      <4> QED
        BY <3>1, <3>2, <4>1, <4>2, Zenon
    <3> QED
      BY <3>3, <3>4, Zenon
  <2>5. CountInv'
    BY <2>1, <2>3, Zenon
  <2> HIDE DEF CountInv, CallInv
  <2> QED
    BY <2>4, <2>5, Zenon
<1>4. ASSUME NEW p \in Procs, log_append(p) PROVE CallsInv'
  <2>1. Active' = Active
    BY <1>4, Zenon DEF log_append, Active
  <2> QED
    BY <1>4, <2>1 DEF log_append
<1>5. ASSUME NEW p \in Procs, end_op(p) PROVE CallsInv'
  <2>1. p \in Active /\ Cardinality(Active \ {p}) = outstanding - 1
    <3>1. p \in Active
      BY <1>5, Zenon DEF end_op, Active
    <3> QED
      BY <3>1, ActiveFinite, FS_RemoveElement, Zenon
  <2>2. outstanding # 0 /\ ~committing
    BY <2>1, ActiveFinite, FS_EmptySet, Zenon
  <2>3. /\ pc'[p] \in {"out", "commit"} /\ pc[p] = "op"
        /\ \A q \in Procs \ {p}, s \in {"op", "append", "panic"} : pc'[q] = s <=> pc[q] = s
    <3>1. pc' = [pc EXCEPT ![p] = "commit"] \/ pc' = Wakeup([pc EXCEPT ![p] = "out"])
      BY <1>5, <2>2, Zenon DEF end_op
    <3>2. CASE pc' = [pc EXCEPT ![p] = "commit"]
      BY <1>5, <3>2, Zenon DEF end_op
    <3>3. CASE pc' = Wakeup([pc EXCEPT ![p] = "out"])
      BY <1>5, <3>3, LeaveWakes, Zenon DEF end_op
    <3> QED
      BY <3>1, <3>2, <3>3, Zenon
  <2>4. Active' = Active \ {p}
    BY <2>3, Zenon DEF Active
  <2>5. outstanding' = Cardinality(Active')
    BY <1>5, <2>1, <2>4, Zenon DEF end_op
  <2>6. IsFiniteSet({}) /\ Cardinality({}) = 0
    BY FS_EmptySet, Zenon
  <2>7. lock[p] = None
    BY <1>5, Zenon DEF end_op
  <2> QED
    BY <1>5, <2>2, <2>3, <2>4, <2>5, <2>6, <2>7, SMTT(30) DEF end_op
<1>6. ASSUME NEW p \in Procs, end_commit(p) PROVE CallsInv'
  <2>1. /\ pc[p] = "commit" /\ pc'[p] = "out"
        /\ \A q \in Procs \ {p}, s \in {"op", "append", "panic"} : pc'[q] = s <=> pc[q] = s
    BY <1>6, LeaveWakes, Zenon DEF end_commit
  <2>2. Active' = Active
    BY <2>1, Zenon DEF Active
  <2> QED
    BY <1>6, <2>1, <2>2, Zenon DEF end_commit
<1>7. CASE write_log \/ write_head \/ install_trans \/ read_head
  <2>1. Active' = Active /\ pc' = pc /\ lock' = lock /\ wrote' = wrote
    BY <1>7, Zenon DEF write_log, write_head, install_trans, read_head, Active
  <2>2. \A q \in Procs : lock[q] # None => cache'[lock[q]] # None
    BY <1>7, <2>1, RoundInLog, SMTT(30) DEF write_log, write_head, install_trans, read_head
  <2> QED
    BY <1>7, <2>1, <2>2, SMTT(30) DEF write_log, write_head, install_trans, read_head
<1>8. ASSUME NEW b \in Blocks, Fetch(b) \/ Recycle(b) PROVE CallsInv'
  <2>1. Active' = Active
    BY <1>8, Zenon DEF Fetch, Recycle, Active
  <2> QED
    BY <1>8, <2>1 DEF Fetch, Recycle
<1>9. CASE Crash
  <2>1. Active' = {}
    BY <1>9, Zenon DEF Crash, Active
  <2> QED
    BY <1>9, <2>1, FS_EmptySet DEF Crash
<1>10. CASE UNCHANGED vars
  BY <1>10 DEF vars, Active
<1> QED
  BY <1>1, <1>2, <1>3, <1>4, <1>5, <1>6, <1>7, <1>8, <1>9, <1>10, Zenon
     DEF Next, KernelStep, LogStep

-----------------------------------------------------------------------------
(* Space in the log                                                        *)

\* A call that may add less after a step has less credit.
LEMMA CreditShrinks ==
    ASSUME Active' \subseteq Active,
           \A p \in Active' : /\ IsFiniteSet(wrote'[p])
                              /\ wrote[p] \cap Listed(lh) \subseteq wrote'[p] \cap Listed(lh')
    PROVE  Credit' \subseteq Credit /\ Cardinality(Credit') <= Cardinality(Credit)
<1>1. \A p \in Active' :
            /\ Cardinality(wrote[p] \cap Listed(lh)) \in Nat
            /\ Cardinality(wrote'[p] \cap Listed(lh')) \in Nat
            /\ Cardinality(wrote[p] \cap Listed(lh)) <= Cardinality(wrote'[p] \cap Listed(lh'))
  <2> TAKE p \in Active'
  <2>1. IsFiniteSet(wrote'[p] \cap Listed(lh'))
    BY FS_Subset, Zenon
  <2> QED
    BY <2>1, FS_Subset, FS_CardinalityType, Zenon
<1>2. Credit' \subseteq Credit
  <2> SUFFICES ASSUME NEW c \in Credit' PROVE c \in Credit
    OBVIOUS
  <2>1. PICK p \in Active', k \in 1 .. OpBlocks : c = <<p, k>>
    BY DEF Credit
  <2>2. Cardinality(wrote'[p] \cap Listed(lh')) < k
    BY <2>1, Zenon DEF Credit
  <2>3. Cardinality(wrote[p] \cap Listed(lh)) < k
    <3> DEFINE n == Cardinality(wrote[p] \cap Listed(lh))
               m == Cardinality(wrote'[p] \cap Listed(lh'))
    <3>1. n \in Nat /\ m \in Nat /\ n <= m /\ m < k /\ k \in Int
      BY <1>1, <2>2
    <3> HIDE DEF n, m
    <3>2. n < k
      BY <3>1
    <3> QED
      BY <3>2, Zenon DEF n
  <2> QED
    BY <2>1, <2>3, Zenon DEF Credit
<1> QED
  BY <1>2, CreditFinite, FS_Subset, Zenon

\* Every step leaves space for what the calls in progress may still write.
LEMMA SpaceKeeps == IInv /\ [Next]_vars => SpaceInv'
<1> SUFFICES ASSUME IInv, [Next]_vars PROVE SpaceInv'
  OBVIOUS
<1>0. /\ TypeOK /\ SpaceInv /\ Len(lh) \in Nat /\ Limit \in Nat
      /\ Cardinality(Credit) \in Nat /\ Cardinality(Credit') \in Nat
      /\ \A p \in Procs : IsFiniteSet(wrote[p])
  <2>1. Cardinality(Credit) \in Nat /\ Cardinality(Credit') \in Nat
    BY CreditFinite, Zenon
  <2> QED
    BY <2>1, ListedEmpty, LogAssumption, SMTT(30) DEF IInv, TypeOK, CallsInv, CallInv, Limit, Room
<1>1. ASSUME NEW p \in Procs, Call(p) PROVE SpaceInv'
  <2>1. Active' = Active /\ lh' = lh /\ wrote' = wrote
    BY <1>0, <1>1, Zenon DEF Call, Active, TypeOK, logVars
  <2>2. Room => NoPanic'
    BY <1>0, <1>1, Zenon DEF Call, SpaceInv, NoPanic, TypeOK
  <2> QED
    BY <1>0, <2>1, <2>2 DEF SpaceInv, Credit, Listed
<1>2. ASSUME NEW p \in Procs, begin_op(p) PROVE SpaceInv'
  <2>1. lh' = lh /\ wrote' = wrote
    BY <1>2, Zenon DEF begin_op
  <2>2. Room => NoPanic'
    BY <1>0, <1>2, Zenon DEF begin_op, SpaceInv, NoPanic, TypeOK
  <2>3. CASE MustWait
    <3>1. Active' = Active
      BY <1>0, <1>2, <2>3, Zenon DEF begin_op, Active, TypeOK
    <3> QED
      BY <1>0, <2>1, <2>2, <3>1 DEF SpaceInv, Credit, Listed
  <2>4. CASE ~MustWait
    <3> DEFINE m == outstanding + 1
    <3>1. Active' = Active \cup {p} /\ p \notin Active
      BY <1>0, <1>2, <2>4 DEF begin_op, Active, TypeOK
    <3>2. m \in Nat /\ IsFiniteSet(Active') /\ Cardinality(Active') = m
      BY <1>0, <3>1, ActiveFinite, FS_AddElement DEF IInv, CallsInv, CountInv, TypeOK
    <3>3. Cardinality(Active' \X (1 .. OpBlocks)) = m * OpBlocks /\ IsFiniteSet(Active' \X (1 .. OpBlocks))
      <4>1. IsFiniteSet(1 .. OpBlocks) /\ Cardinality(1 .. OpBlocks) = OpBlocks
        BY FS_Interval, LogAssumption, SMTT(30)
      <4>2. /\ IsFiniteSet(Active' \X (1 .. OpBlocks))
            /\ Cardinality(Active' \X (1 .. OpBlocks)) = Cardinality(Active') * Cardinality(1 .. OpBlocks)
        BY <3>2, <4>1, FS_Product, Zenon
      <4> QED
        BY <3>2, <4>1, <4>2, Zenon
    <3>4. Credit' \subseteq Active' \X (1 .. OpBlocks)
      BY Zenon DEF Credit
    <3>5. Cardinality(Credit') <= m * OpBlocks
      BY <3>3, <3>4, FS_Subset
    <3>6. Len(lh) + m * MAXOPBLOCKS <= LOGSIZE
      <4>1. m * MAXOPBLOCKS \in Nat
        BY <3>2, LogAssumption
      <4> QED
        BY <1>0, <2>4, <4>1, LogAssumption DEF MustWait
    <3>7. outstanding = 0 => Len(lh) = 0
      <4>1. ASSUME outstanding = 0 PROVE lh = <<>>
        BY <1>2, <2>4, <4>1, Zenon DEF begin_op, MustWait, Running, IInv, CallsInv, CountInv, StageInv, TypeOK, Stages
      <4> QED
        BY <4>1, EmptyHeader, Zenon
    <3>8. Len(lh) + m * OpBlocks <= Limit
      <4>1. CASE ~Room
        <5> DEFINE need == m * OpBlocks
                   reserved == m * MAXOPBLOCKS
        <5>1. need \in Nat /\ reserved \in Nat /\ need <= reserved
          BY <3>2, ReserveCovers, Zenon
        <5>2. Len(lh) + reserved <= LOGSIZE
          BY <3>6, Zenon
        <5> HIDE DEF need, reserved
        <5>3. Len(lh) + need <= Limit
          BY <1>0, <4>1, <5>1, <5>2, LogAssumption DEF Limit
        <5> QED
          BY <5>3, Zenon DEF need
      <4>2. CASE Room /\ outstanding = 0
        BY <1>0, <3>7, <4>2, LogAssumption, SMTT(30) DEF Limit, Room
      <4>3. CASE Room /\ outstanding # 0
        <5>1. m >= 2
          BY <1>0, <4>3 DEF TypeOK
        <5>2. /\ m * OpBlocks \in Nat /\ m * MAXOPBLOCKS \in Nat
              /\ m * OpBlocks + 2 * (MAXOPBLOCKS - OpBlocks) <= m * MAXOPBLOCKS
          BY <3>2, <5>1, ReserveCovers, Zenon
        <5> DEFINE need == m * OpBlocks
                   reserved == m * MAXOPBLOCKS
        <5>3. /\ need \in Nat /\ reserved \in Nat /\ Len(lh) + reserved <= LOGSIZE
              /\ need + 2 * (MAXOPBLOCKS - OpBlocks) <= reserved
          BY <3>6, <5>2, Zenon
        <5> HIDE DEF need, reserved
        <5>4. Len(lh) + need <= Limit
          BY <1>0, <4>3, <5>3, LogAssumption, SMTT(30) DEF Limit
        <5> QED
          BY <5>4, Zenon DEF need
      <4> QED
        BY <4>1, <4>2, <4>3, Zenon
    <3> QED
      <4>1. m * OpBlocks \in Nat
        BY <3>2, ReserveCovers, Zenon
      <4> HIDE DEF m
      <4> QED
        BY <1>0, <2>1, <2>2, <3>5, <3>8, <4>1 DEF SpaceInv
  <2> QED
    BY <2>3, <2>4, Zenon
<1>3. ASSUME NEW p \in Procs, NEW b \in Blocks, NEW v \in Vals, log_write(p, b, v)
      PROVE  SpaceInv'
  <2>1. /\ lh' = lh /\ Active' = Active /\ p \in Active
        /\ wrote' = [wrote EXCEPT ![p] = @ \cup {b}]
    BY <1>0, <1>3, Zenon DEF log_write, Active, TypeOK, logVars
  <2>2. IsFiniteSet(wrote[p] \cup {b})
    BY <1>0, FS_AddElement, Zenon
  <2>3. \A q \in Procs : IsFiniteSet(wrote'[q]) /\ wrote[q] \subseteq wrote'[q]
    BY <1>0, <2>1, <2>2, Zenon DEF TypeOK
  <2>4. Cardinality(Credit') <= Cardinality(Credit)
    BY <2>1, <2>3, CreditShrinks, ActiveFinite, Zenon
  <2>5. ASSUME Room PROVE NoPanic'
    <3>1. Len(lh) < LOGSIZE /\ Len(lh) < nlog - 1
      BY <1>0, <2>5, LogFits, LogAssumption, SMTT(30) DEF Limit, Room
    <3>2. outstanding # 0
      BY <2>1, CallMeansUp, Zenon
    <3>3. pc' = [pc EXCEPT ![p] = "append"]
      <4>1. ~(Len(lh) >= LOGSIZE \/ Len(lh) >= nlog - 1 \/ outstanding < 1)
        BY <1>0, <3>1, <3>2, LogAssumption DEF TypeOK
      <4> QED
        BY <1>3, <4>1, Zenon DEF log_write
    <3> QED
      BY <1>0, <2>5, <3>3, Zenon DEF SpaceInv, NoPanic, TypeOK
  <2> QED
    BY <1>0, <2>1, <2>4, <2>5 DEF SpaceInv
<1>4. ASSUME NEW p \in Procs, log_append(p) PROVE SpaceInv'
  <2> DEFINE b == lock[p]
             c == <<p, Cardinality(wrote[p] \cap Listed(lh)) + 1>>
  <2>1. /\ b \in Blocks /\ b \in wrote[p] /\ p \in Active /\ Active' = Active /\ wrote' = wrote
        /\ lh' = IF b \in Listed(lh) THEN lh ELSE Append(lh, b)
    BY <1>0, <1>4, Zenon DEF log_append, Active, IInv, CallsInv, CallInv, TypeOK
  <2>2. Room => NoPanic'
    BY <1>0, <1>4, Zenon DEF log_append, SpaceInv, NoPanic, TypeOK
  <2>3. CASE b \in Listed(lh)
    BY <1>0, <2>1, <2>2, <2>3 DEF SpaceInv, Credit, Listed
  <2>4. CASE b \notin Listed(lh)
    <3>1. Listed(lh') = Listed(lh) \cup {b} /\ Len(lh') = Len(lh) + 1
      BY <1>0, <2>1, <2>4, AppendBlock, Zenon DEF TypeOK
    <3>2. Credit' \subseteq Credit
      BY <1>0, <2>1, <3>1, CreditShrinks, ActiveFinite, Zenon
    <3> DEFINE seen == wrote[p] \cap Listed(lh)
    <3>3. IsFiniteSet(seen) /\ Cardinality(seen) \in Nat
      BY <1>0, FS_Subset, FS_CardinalityType, Zenon
    <3>4. Cardinality(seen \cup {b}) = Cardinality(seen) + 1
      BY <2>4, <3>3, FS_AddElement, Zenon
    <3>5. Cardinality(seen) + 1 <= OpBlocks
      <4>1. seen \cup {b} \subseteq wrote[p] /\ IsFiniteSet(wrote[p])
        BY <1>0, <2>1, Zenon
      <4>2. Cardinality(wrote[p]) <= OpBlocks /\ Cardinality(wrote[p]) \in Nat
        BY <4>1, FS_CardinalityType, Zenon DEF IInv, CallsInv, CallInv
      <4>3. Cardinality(seen \cup {b}) <= Cardinality(wrote[p])
        BY <4>1, FS_Subset, Zenon
      <4> HIDE DEF seen
      <4> QED
        BY <3>3, <3>4, <4>2, <4>3, LogAssumption
    <3>6. c \in Credit
      <4> DEFINE n == Cardinality(seen)
      <4>1. n + 1 \in 1 .. OpBlocks /\ n < n + 1
        BY <3>3, <3>5, LogAssumption
      <4> QED
        BY <2>1, <4>1, Zenon DEF Credit
    <3>7. c \notin Credit'
      <4>1. wrote'[p] \cap Listed(lh') = seen \cup {b}
        BY <2>1, <3>1, Zenon
      <4>2. ~(Cardinality(seen \cup {b}) < Cardinality(seen) + 1)
        BY <3>3, <3>4
      <4> QED
        BY <4>1, <4>2, Zenon DEF Credit
    <3>8. Cardinality(Credit') <= Cardinality(Credit) - 1
      <4>1. Cardinality(Credit \ {c}) = Cardinality(Credit) - 1 /\ IsFiniteSet(Credit \ {c})
        BY <3>6, CreditFinite, FS_RemoveElement
      <4>2. Credit' \subseteq Credit \ {c}
        BY <3>2, <3>7, Zenon
      <4>3. Cardinality(Credit') <= Cardinality(Credit \ {c})
        BY <4>1, <4>2, FS_Subset, Zenon
      <4> QED
        BY <4>1, <4>3, Zenon
    <3> QED
      BY <1>0, <2>2, <3>1, <3>8 DEF SpaceInv
  <2> QED
    BY <2>3, <2>4, Zenon
<1>5. ASSUME NEW p \in Procs, end_op(p) PROVE SpaceInv'
  <2>1. p \in Active /\ lh' = lh /\ wrote' = [wrote EXCEPT ![p] = {}]
    BY <1>5, Zenon DEF end_op, Active
  <2>2. ~committing
    BY <2>1, CallMeansUp, Zenon
  <2>3. /\ pc'[p] \in {"out", "commit"}
        /\ \A q \in Procs \ {p}, s \in {"op", "append", "panic"} : pc'[q] = s <=> pc[q] = s
    <3>1. pc' = [pc EXCEPT ![p] = "commit"] \/ pc' = Wakeup([pc EXCEPT ![p] = "out"])
      BY <1>5, <2>2, Zenon DEF end_op
    <3>2. CASE pc' = [pc EXCEPT ![p] = "commit"]
      BY <1>0, <3>2, Zenon DEF TypeOK
    <3>3. CASE pc' = Wakeup([pc EXCEPT ![p] = "out"])
      BY <1>0, <3>3, LeaveWakes, Zenon
    <3> QED
      BY <3>1, <3>2, <3>3, Zenon
  <2>4. Active' \subseteq Active \ {p} /\ (Room => NoPanic')
    BY <1>0, <2>3, Zenon DEF Active, SpaceInv, NoPanic
  <2>5. \A q \in Active' : wrote'[q] = wrote[q] /\ IsFiniteSet(wrote[q])
    BY <1>0, <2>1, <2>4, ActiveFinite, Zenon DEF TypeOK
  <2>6. Cardinality(Credit') <= Cardinality(Credit)
    BY <2>1, <2>4, <2>5, CreditShrinks, Zenon
  <2> QED
    BY <1>0, <2>1, <2>4, <2>6 DEF SpaceInv
<1>6. ASSUME NEW p \in Procs, end_commit(p) PROVE SpaceInv'
  <2>1. /\ pc[p] = "commit" /\ pc'[p] = "out" /\ lh' = lh /\ wrote' = wrote
        /\ \A q \in Procs \ {p}, s \in {"op", "append", "panic"} : pc'[q] = s <=> pc[q] = s
    BY <1>0, <1>6, LeaveWakes, Zenon DEF end_commit
  <2>2. Active' = Active /\ (Room => NoPanic')
    BY <1>0, <2>1, Zenon DEF Active, SpaceInv, NoPanic
  <2> QED
    BY <1>0, <2>1, <2>2 DEF SpaceInv, Credit, Listed
<1>7. CASE UNCHANGED <<pc, lh, wrote>>
  BY <1>0, <1>7 DEF SpaceInv, Credit, Active, Listed, NoPanic
<1>8. CASE write_log \/ write_head \/ UNCHANGED vars \/ \E b \in Blocks : Fetch(b) \/ Recycle(b)
  BY <1>7, <1>8, Zenon DEF write_log, write_head, Fetch, Recycle, vars, logVars, opVars
<1>9. CASE install_trans \/ read_head \/ Crash
  <2>1. Active' = {}
    <3>1. CASE install_trans \/ read_head
      <4>1. outstanding = 0
        BY <3>1, Zenon DEF install_trans, read_head, IInv, CallsInv, CountInv, Running
      <4>2. Active = {}
        BY <4>1, ActiveFinite, FS_EmptySet, Zenon DEF IInv, CallsInv, CountInv
      <4>3. pc' = pc
        BY <3>1, Zenon DEF install_trans, read_head, opVars
      <4> QED
        BY <4>2, <4>3, Zenon DEF Active
    <3>2. CASE Crash
      BY <3>2, Zenon DEF Crash, Active
    <3> QED
      BY <1>9, <3>1, <3>2, Zenon
  <2>2. Credit' = {} /\ NoPanic'
    BY <2>1, Zenon DEF Credit, Active, NoPanic
  <2>3. Cardinality(Credit') = 0
    BY <2>2, FS_EmptySet, Zenon
  <2>4. Len(lh') <= Limit /\ Len(lh') \in Nat
    <3>1. lh' = lh \/ lh' = dhead \/ lh' = <<>>
      BY <1>9, Zenon DEF install_trans, read_head, Crash
    <3>2. Len(lh) <= Limit /\ Len(dhead) <= Limit /\ Len(dhead) \in Nat
      BY LogFits, ListedEmpty, Zenon DEF IInv, StageInv, TypeOK
    <3> QED
      BY <1>0, <3>1, <3>2, EmptyHeader
  <2> QED
    BY <1>0, <2>2, <2>3, <2>4 DEF SpaceInv
<1> QED
  BY <1>1, <1>2, <1>3, <1>4, <1>5, <1>6, <1>8, <1>9 DEF Next, KernelStep, LogStep

\* Every step keeps what the counts amount to.
LEMMA LimitKeeps == IInv /\ [Next]_vars => LimitInv'
<1> SUFFICES ASSUME IInv, [Next]_vars PROVE LimitInv'
  OBVIOUS
<1>1. outstanding' = Cardinality(Active') /\ IsFiniteSet(Active')
  BY CallsKeeps, ActiveFinite, Zenon DEF CallsInv, CountInv
<1>2. outstanding' = 0 => Active' = {}
  BY <1>1, FS_EmptySet, Zenon
<1>3. Len(lh') \in Nat /\ Limit \in Int
  BY TypeKeeps, ListedEmpty, LogAssumption, SMTT(30) DEF TypeOK, Limit, Room
<1>4. Len(lh') <= Limit
  BY <1>3, CreditFinite, SpaceKeeps DEF SpaceInv
<1> QED
  BY <1>2, <1>4, Zenon DEF LimitInv

-----------------------------------------------------------------------------
(* The theorems                                                            *)

\* The invariant holds at boot.
LEMMA InitIInv == Init => IInv
<1> SUFFICES ASSUME Init PROVE IInv
  OBVIOUS
<1>1. Active = {} /\ Cardinality(Active) = 0
  BY FS_EmptySet, Zenon DEF Init, Active
<1>2. TypeOK
  <2>1. lh \in Seq(Blocks) /\ dhead \in Seq(Blocks)
    BY NoHeader, Zenon DEF Init
  <2>2. /\ disk \in [Blocks -> Vals] /\ dlog \in [1 .. LOGSIZE -> Vals]
        /\ cache \in [Blocks -> Vals \cup {None}] /\ dirty \subseteq Blocks
    BY LogAssumption, Zenon DEF Init
  <2>3. outstanding \in Nat /\ stage \in Stages /\ tail \in 0 .. LOGSIZE
    BY LogAssumption DEF Init, Stages
  <2>5. committing \in BOOLEAN
    BY Zenon DEF Init
  <2>4. /\ pc \in [Procs -> PCs] /\ lock \in [Procs -> Blocks \cup {None}]
        /\ wrote \in [Procs -> SUBSET Blocks]
    BY Zenon DEF Init, PCs
  <2> QED
    BY <2>1, <2>2, <2>3, <2>4, <2>5, Zenon DEF TypeOK
<1>3. CallsInv
  <2>1. CountInv
    BY <1>1, Zenon DEF Init, CountInv, Running
  <2>2. IsFiniteSet({}) /\ Cardinality({}) <= OpBlocks
    BY FS_EmptySet, LogAssumption
  <2> QED
    BY <2>1, <2>2, Zenon DEF Init, CallsInv, CallInv
<1>4. StageInv
  <2>1. Limit >= 0
    BY LogAssumption DEF Limit, Room
  <2> QED
    BY <2>1, EmptyHeader, Zenon DEF Init, StageInv
<1>5. CacheInv
  BY Zenon DEF Init, CacheInv, Pending
<1>6. SpaceInv
  <2>1. Limit >= 0
    BY LogAssumption DEF Limit, Room
  <2>2. Credit = {}
    BY <1>1, Zenon DEF Credit
  <2>3. NoPanic
    BY Zenon DEF Init, NoPanic
  <2>4. Len(lh) = 0
    BY EmptyHeader, Zenon DEF Init
  <2> QED
    BY <2>1, <2>2, <2>3, <2>4, FS_EmptySet DEF SpaceInv
<1>7. NoLostWakeup
  BY Zenon DEF Init, NoLostWakeup
<1>8. LimitInv
  <2>1. Limit >= 0
    BY LogAssumption DEF Limit, Room
  <2> QED
    BY <1>1, <2>1, EmptyHeader, Zenon DEF Init, LimitInv
<1> QED
  BY <1>2, <1>3, <1>4, <1>5, <1>6, <1>7, <1>8 DEF IInv

\* Every step keeps the invariant.
LEMMA StepKeeps == IInv /\ [Next]_vars => IInv'
BY TypeKeeps, CallsKeeps, StageKeeps, CacheKeeps, SpaceKeeps, LimitKeeps, WakeKeeps, Zenon DEF IInv

\* In every reachable state the header, the log's blocks, the cache and the
\* home blocks agree as the stage of commit() or of recovery says.
THEOREM LogInvariance == Spec => []IInv
BY InitIInv, StepKeeps, PTL DEF Spec

\* begin_op() never sleeps on without a reason, and after the last end_op()
\* what reads return is what a crash would leave.
THEOREM LogWakeupsAndDurability == Spec => [](TypeOK /\ NoLostWakeup /\ Durable)
<1>1. IInv => TypeOK /\ NoLostWakeup /\ Durable
  BY DurableHolds, Zenon DEF IInv
<1> QED
  BY LogInvariance, <1>1, PTL

\* Calls that write at most 9 of the 10 blocks begin_op() reserves for them
\* never meet "too big a transaction" in log_write(), and end_op() never
\* finds the log committing.
THEOREM LogSafety == ASSUME Room PROVE Spec => []LogInv
<1>1. IInv => LogInv
  BY DurableHolds, Zenon DEF IInv, SpaceInv, LogInv
<1> QED
  BY LogInvariance, <1>1, PTL

\* The log of HW2/src/log.c implements AtomicDisk: whatever crashes, evictions
\* and interleaved calls happen, a crash takes every block back to the last
\* commit, and a commit takes in the calls of a transaction all together.
THEOREM LogImplementsAtomicDisk == Spec => AtomicCommit
<1>1. IInv /\ [Next]_vars => [Atomic!Next]_(Atomic!vars)
  BY StepRefines, Zenon
<1> QED
  BY InitRefines, LogInvariance, <1>1, PTL DEF Spec, AtomicCommit, Atomic!Spec
=============================================================================
