----------------------------- MODULE PipeProofs -----------------------------
(***************************************************************************)
(* For every size of the ring, every width of its counters and any number  *)
(* of processes, the pipe of pipe.c keeps its bytes in order, holds no     *)
(* more than PIPESIZE of them, is freed only when nobody uses it, and      *)
(* leaves nobody asleep who could go on.                                   *)
(*                                                                         *)
(* RingInv is the inductive invariant: beside what PipeInv says, the ends  *)
(* that processes hold are open, the calls in progress hold their end, and *)
(* what a call tested before its sleep still holds when it sleeps, but for *)
(* killed, and that only where there is a second CPU.                      *)
(***************************************************************************)
EXTENDS Pipe, CounterProofs

-----------------------------------------------------------------------------
(* The invariant                                                           *)

\* The descriptors and the two flags of the pipe agree: an end that some
\* process holds is open, the page is freed only when no end is open, and a
\* process inside pipewrite() or piperead() holds the end it uses.
EndsInv ==
    /\ \A e \in Ends : holds[e] # {} => e \in open
    /\ freed => open = {}
    /\ \A p \in Users : /\ at[p] \in {"write", "wtested", "wsleep"} => p \in holds["w"]
                        /\ at[p] \in {"read", "rtested", "rsleep"} => p \in holds["r"]

\* A call that is about to sleep, with p->lock held, is on a machine of several
\* CPUs and faces what it tested: a full pipe, or an empty one that is open.
TestedInv ==
    \A p \in Users : /\ at[p] = "wtested" => Size = PIPESIZE /\ "r" \in open /\ ncpu > 1
                     /\ at[p] = "rtested" => Size = 0 /\ "w" \in open /\ ncpu > 1

\* A pipe with bytes in it may have sleeping readers.
Excused(q) == Cut(q) \/ at[q] = "wtested"

RingInv == PipeTypeOK /\ EndsInv /\ TestedInv /\ NoSleeperForgotten

\* The number of bytes between two counters that may have wrapped.
LEMMA SizeValue ==
    ASSUME nread \in 0 .. Wrap - 1, nwrite \in 0 .. Wrap - 1
    PROVE  /\ Size \in 0 .. Wrap - 1
           /\ nwrite >= nread => Size = nwrite - nread
           /\ nwrite < nread => Size = nwrite - nread + Wrap
<1>1. Wrap \in Nat \ {0}
  BY PipeAssumption
<1>2. nwrite - nread \in Int
  OBVIOUS
<1>3. nwrite >= nread => nwrite - nread \in 0 .. Wrap - 1
  BY <1>1
<1>4. nwrite < nread => nwrite - nread \in -Wrap .. -1
  BY <1>1
<1>5. Size \in 0 .. Wrap - 1
  BY <1>1, <1>2, DivMod, Zenon DEF Size
<1>6. /\ nwrite >= nread => Size = nwrite - nread
      /\ nwrite < nread => Size = nwrite - nread + Wrap
  BY <1>1, <1>2, <1>3, <1>4, ModNear, Zenon DEF Size
<1> QED
  BY <1>5, <1>6, Zenon

\* pipewrite() advances nwrite by as many bytes as fit.
LEMMA SizeGrows ==
    ASSUME nread \in 0 .. Wrap - 1, nwrite \in 0 .. Wrap - 1,
           NEW k \in Nat, Size + k <= PIPESIZE, nread' = nread, nwrite' = (nwrite + k) % Wrap
    PROVE  nwrite' \in 0 .. Wrap - 1 /\ Size' = Size + k
<1>1. Wrap \in Nat \ {0} /\ PIPESIZE \in Nat /\ PIPESIZE < Wrap
  BY PipeAssumption
<1>2. /\ Size \in 0 .. Wrap - 1
      /\ nwrite >= nread => Size = nwrite - nread
      /\ nwrite < nread => Size = nwrite - nread + Wrap
  BY SizeValue, Zenon
<1>3. nwrite \in Int /\ k \in Int /\ (nwrite + k \in 0 .. Wrap - 1 \/ nwrite + k \in Wrap .. 2 * Wrap - 1)
  BY <1>1, <1>2
<1>4. /\ nwrite + k \in 0 .. Wrap - 1 => nwrite' = nwrite + k
      /\ nwrite + k \in Wrap .. 2 * Wrap - 1 => nwrite' = nwrite + k - Wrap
  BY <1>1, <1>3, ModTurn, Zenon
<1>5. nwrite' \in 0 .. Wrap - 1
  BY <1>1, <1>3, <1>4
<1>6. nwrite' - nread \in Int /\ (nwrite' - nread = Size + k \/ nwrite' - nread = Size + k - Wrap)
  BY <1>1, <1>2, <1>3, <1>4, <1>5
<1>7. Size' = (nwrite' - nread) % Wrap
  BY Zenon DEF Size
<1>8. CASE nwrite' - nread = Size + k
  <2>1. nwrite' - nread \in 0 .. Wrap - 1
    BY <1>1, <1>2, <1>8
  <2> QED
    BY <1>1, <1>5, <1>6, <1>7, <1>8, <2>1, ModNear, Zenon
<1>9. CASE nwrite' - nread = Size + k - Wrap
  <2>1. nwrite' - nread \in -Wrap .. -1
    BY <1>1, <1>2, <1>9
  <2>2. Size' = nwrite' - nread + Wrap
    BY <1>1, <1>6, <1>7, <2>1, ModNear, Zenon
  <2> QED
    BY <1>1, <1>2, <1>5, <1>9, <2>2
<1> QED
  BY <1>6, <1>8, <1>9, Zenon

\* piperead() advances nread by no more bytes than there are.
LEMMA SizeShrinks ==
    ASSUME nread \in 0 .. Wrap - 1, nwrite \in 0 .. Wrap - 1,
           NEW k \in 0 .. Size, nwrite' = nwrite, nread' = (nread + k) % Wrap
    PROVE  nread' \in 0 .. Wrap - 1 /\ Size' = Size - k
<1>1. Wrap \in Nat \ {0}
  BY PipeAssumption
<1>2. /\ Size \in 0 .. Wrap - 1
      /\ nwrite >= nread => Size = nwrite - nread
      /\ nwrite < nread => Size = nwrite - nread + Wrap
  BY SizeValue, Zenon
<1>3. nread \in Int /\ k \in Int /\ (nread + k \in 0 .. Wrap - 1 \/ nread + k \in Wrap .. 2 * Wrap - 1)
  BY <1>1, <1>2
<1>4. /\ nread + k \in 0 .. Wrap - 1 => nread' = nread + k
      /\ nread + k \in Wrap .. 2 * Wrap - 1 => nread' = nread + k - Wrap
  BY <1>1, <1>3, ModTurn, Zenon
<1>5. nread' \in 0 .. Wrap - 1
  BY <1>1, <1>3, <1>4
<1>6. nwrite - nread' \in Int /\ (nwrite - nread' = Size - k \/ nwrite - nread' = Size - k - Wrap)
  BY <1>1, <1>2, <1>3, <1>4, <1>5
<1>7. Size' = (nwrite - nread') % Wrap
  BY Zenon DEF Size
<1>8. CASE nwrite - nread' = Size - k
  <2>1. nwrite - nread' \in 0 .. Wrap - 1
    BY <1>1, <1>2, <1>8
  <2> QED
    BY <1>1, <1>5, <1>6, <1>7, <1>8, <2>1, ModNear, Zenon
<1>9. CASE nwrite - nread' = Size - k - Wrap
  <2>1. nwrite - nread' \in -Wrap .. -1
    BY <1>1, <1>2, <1>9
  <2>2. Size' = nwrite - nread' + Wrap
    BY <1>1, <1>6, <1>7, <2>1, ModNear, Zenon
  <2> QED
    BY <1>1, <1>2, <1>5, <1>9, <2>2
<1> QED
  BY <1>6, <1>8, <1>9, Zenon

-----------------------------------------------------------------------------
(* The steps preserve the invariant                                        *)

\* What the invariant says of one process, used at every step.
LEMMA RingContext ==
    ASSUME RingInv
    PROVE  /\ PipeTypeOK /\ EndsInv /\ TestedInv /\ NoSleeperForgotten
           /\ Size \in 0 .. PIPESIZE /\ PIPESIZE \in Nat \ {0} /\ PIPESIZE < Wrap /\ Wrap \in Nat
<1>1. Size \in 0 .. Wrap - 1 /\ Size <= PIPESIZE
  BY SizeValue, Zenon DEF RingInv, PipeTypeOK
<1> QED
  BY <1>1, PipeAssumption DEF RingInv

\* pipealloc()
LEMMA InitRing == PipeInit => RingInv
<1> SUFFICES ASSUME PipeInit PROVE RingInv
  OBVIOUS
<1>1. nread \in 0 .. Wrap - 1 /\ nwrite \in 0 .. Wrap - 1
  BY PipeAssumption DEF PipeInit
<1>2. Size = 0 /\ Size <= PIPESIZE
  BY <1>1, SizeValue, PipeAssumption DEF PipeInit
<1>3. InitByte \in Bytes
  BY Zenon DEF Bytes
<1>4. holds \in [Ends -> SUBSET Users]
  BY PipeAssumption, Zenon DEF PipeInit, Ends
<1>5. data \in [0 .. PIPESIZE - 1 -> Bytes] /\ todo \in [Users -> Seq(Bytes)] /\ n \in [Users -> Nat]
  BY <1>3 DEF PipeInit
<1>6. at \in [Users -> CallPCs] /\ killed \in [Users -> BOOLEAN] /\ open \subseteq Ends
  BY Zenon DEF PipeInit, CallPCs
<1>7. PipeTypeOK
  BY <1>1, <1>2, <1>4, <1>5, <1>6, Zenon DEF PipeTypeOK, PipeInit
<1>8. \A p \in Users : at[p] = "user"
  BY Zenon DEF PipeInit
<1>9. EndsInv /\ TestedInv /\ NoSleeperForgotten
  BY <1>8, Zenon DEF EndsInv, TestedInv, NoSleeperForgotten, PipeInit
<1> QED
  BY <1>7, <1>9, Zenon DEF RingInv

\* filewrite() calls pipewrite().
LEMMA WriteRing ==
    ASSUME RingInv, NEW p \in Users, NEW m \in Msgs, Write(p, m)
    PROVE  RingInv'
<1>1. PipeTypeOK /\ EndsInv /\ TestedInv /\ NoSleeperForgotten
  BY RingContext, Zenon
<1>2. Size' = Size
  BY Zenon DEF Write, Size
<1>3. m \in Seq(Bytes)
  <2> DEFINE R == {m[i] : i \in DOMAIN m}
  <2>1. R \subseteq Bytes
    BY Zenon DEF Bytes
  <2>2. m \in Seq(R)
    BY PipeAssumption, Zenon
  <2> HIDE DEF R
  <2> QED
    BY <2>1, <2>2
<1>4. todo' \in [Users -> Seq(Bytes)] /\ at' \in [Users -> CallPCs]
  BY <1>1, <1>3, Zenon DEF PipeTypeOK, Write, CallPCs
<1>5. PipeTypeOK'
  BY <1>1, <1>2, <1>4, Zenon DEF PipeTypeOK, Write
<1>6. \A q \in Users : at'[q] = IF q = p THEN "write" ELSE at[q]
  BY <1>1, Zenon DEF PipeTypeOK, Write
<1>7. EndsInv'
  BY <1>1, <1>6 DEF EndsInv, Write
<1>8. \A q \in Users : Excused(q) => Excused(q)'
  BY <1>1, <1>6 DEF Excused, Cut, Write, PipeTypeOK
<1>9. NoSleeperForgotten'
  BY <1>1, <1>2, <1>6, <1>8 DEF NoSleeperForgotten, Excused, Write
<1>10. TestedInv'
  BY <1>1, <1>2, <1>6 DEF TestedInv, Write
<1> QED
  BY <1>5, <1>7, <1>9, <1>10 DEF RingInv

\* fileread() calls piperead().
LEMMA ReadRing ==
    ASSUME RingInv, NEW p \in Users, NEW c \in Counts, Read(p, c)
    PROVE  RingInv'
<1>1. PipeTypeOK /\ EndsInv /\ TestedInv /\ NoSleeperForgotten
  BY RingContext
<1>2. Size' = Size
  BY Zenon DEF Read, Size
<1>4. n' \in [Users -> Nat] /\ at' \in [Users -> CallPCs]
  BY <1>1, PipeAssumption, Zenon DEF PipeTypeOK, Read, CallPCs
<1>5. PipeTypeOK'
  BY <1>1, <1>2, <1>4 DEF PipeTypeOK, Read
<1>6. \A q \in Users : at'[q] = IF q = p THEN "read" ELSE at[q]
  BY <1>1, Zenon DEF PipeTypeOK, Read
<1>7. EndsInv'
  BY <1>1, <1>6 DEF EndsInv, Read
<1>8. \A q \in Users : Excused(q) => Excused(q)'
  BY <1>1, <1>6 DEF Excused, Cut, Read
<1>9. NoSleeperForgotten'
  BY <1>1, <1>2, <1>6, <1>8 DEF NoSleeperForgotten, Excused, Read
<1>10. TestedInv'
  BY <1>1, <1>2, <1>6 DEF TestedInv, Read
<1> QED
  BY <1>5, <1>7, <1>9, <1>10 DEF RingInv

\* kill()
LEMMA KillRing ==
    ASSUME RingInv, NEW p \in Users, Kill(p)
    PROVE  RingInv'
<1>1. PipeTypeOK /\ EndsInv /\ TestedInv /\ NoSleeperForgotten
  BY RingContext
<1>2. Size' = Size
  BY Zenon DEF Kill, Size
<1>3. \A q \in Users : at'[q] = IF q = p THEN CASE at[p] = "wsleep" -> "write"
                                               [] at[p] = "rsleep" -> "read"
                                               [] OTHER -> at[p]
                                         ELSE at[q]
  BY <1>1, Zenon DEF PipeTypeOK, Kill
<1>4. \A q \in Users : at'[q] \in CallPCs
  BY <1>1, <1>3, Zenon DEF PipeTypeOK, CallPCs
<1>5. at' \in [Users -> CallPCs] /\ killed' \in [Users -> BOOLEAN]
  BY <1>1, <1>4, Zenon DEF PipeTypeOK, Kill
<1>6. PipeTypeOK'
  BY <1>1, <1>2, <1>5 DEF PipeTypeOK, Kill
<1>7. EndsInv'
  BY <1>1, <1>3 DEF EndsInv, Kill
<1>8. \A q \in Users : killed'[q] = IF q = p THEN TRUE ELSE killed[q]
  BY <1>1, Zenon DEF PipeTypeOK, Kill
<1>9. \A q \in Users : Excused(q) => Excused(q)'
  BY <1>3, <1>8 DEF Excused, Cut, Kill
<1>10. NoSleeperForgotten'
  BY <1>1, <1>2, <1>3, <1>8, <1>9 DEF NoSleeperForgotten, Excused, Kill
<1>11. TestedInv'
  BY <1>1, <1>2, <1>3 DEF TestedInv, Kill
<1> QED
  BY <1>6, <1>7, <1>10, <1>11 DEF RingInv

\* close(), and pipeclose() for the last descriptor of an end.
LEMMA CloseRing ==
    ASSUME RingInv, NEW p \in Users, NEW e \in Ends, Close(p, e)
    PROVE  RingInv'
<1>1. PipeTypeOK /\ EndsInv /\ TestedInv /\ NoSleeperForgotten
  BY RingContext, Zenon
<1>2. Size' = Size
  BY Zenon DEF Close, Size
<1>3. holds' \in [Ends -> SUBSET Users]
  BY <1>1, Zenon DEF PipeTypeOK, Close
<1>4. \A d \in Ends : holds'[d] = IF d = e THEN holds[d] \ {p} ELSE holds[d]
  BY <1>1, Zenon DEF PipeTypeOK, Close
<1>5. CASE holds'[e] # {}
  <2>1. UNCHANGED <<open, freed, at>>
    BY <1>5, Zenon DEF Close
  <2>2. PipeTypeOK'
    BY <1>1, <1>2, <1>3, <2>1 DEF PipeTypeOK, Close
  <2>3. EndsInv'
    BY <1>1, <1>4, <1>5, <2>1 DEF EndsInv, Close, Ends
  <2>4. \A q \in Users : Excused(q) => Excused(q)'
    BY <2>1, Zenon DEF Excused, Cut, Close
  <2>5. NoSleeperForgotten'
    BY <1>1, <1>2, <2>1, <2>4 DEF NoSleeperForgotten, Excused, Close
  <2>6. TestedInv'
    BY <1>1, <1>2, <2>1 DEF TestedInv, Close
  <2> QED
    BY <2>2, <2>3, <2>5, <2>6, Zenon DEF RingInv
<1>6. CASE holds'[e] = {}
  <2>1. /\ open' = open \ {e} /\ freed' = (freed \/ open' = {})
        /\ at' = IF e = "w" THEN WakeReaders(at) ELSE WakeWriters(at)
        /\ LockFree
    BY <1>6, Zenon DEF Close, Unused
  <2>2. \A q \in Users :
            /\ e = "w" => at'[q] = IF at[q] = "rsleep" THEN "read" ELSE at[q]
            /\ e # "w" => at'[q] = IF at[q] = "wsleep" THEN "write" ELSE at[q]
    BY <2>1, Zenon DEF WakeReaders, WakeWriters
  <2>3. at' \in [Users -> CallPCs]
    <3>1. \A q \in Users : at'[q] \in CallPCs
      BY <1>1, <2>2, Zenon DEF PipeTypeOK, CallPCs
    <3>2. at' = [q \in Users |-> at'[q]]
      BY <2>1, Zenon DEF WakeReaders, WakeWriters
    <3> QED
      BY <3>1, <3>2, Zenon
  <2>4. PipeTypeOK'
    BY <1>1, <1>2, <1>3, <2>1, <2>3 DEF PipeTypeOK, Close
  <2>5. EndsInv'
    <3>1. at[p] = "user"
      BY Zenon DEF Close
    <3>2. \A d \in Ends : holds'[d] # {} => d \in open'
      BY <1>1, <1>4, <1>6, <2>1 DEF EndsInv
    <3>3. freed' => open' = {}
      BY <1>1, <2>1, Zenon DEF EndsInv
    <3>4. \A q \in Users : /\ at'[q] \in {"write", "wtested", "wsleep"} => q \in holds'["w"]
                           /\ at'[q] \in {"read", "rtested", "rsleep"} => q \in holds'["r"]
      BY <1>1, <1>4, <2>2, <3>1 DEF EndsInv, Ends
    <3> QED
      BY <3>2, <3>3, <3>4, Zenon DEF EndsInv
  <2>6. \A q \in Users : Excused(q) => Excused(q)'
    BY <2>2 DEF Excused, Cut, Close, Ends
  <2>7. NoSleeperForgotten'
    BY <1>1, <1>2, <2>1, <2>2, <2>6 DEF NoSleeperForgotten, Excused, Close, Ends
  <2>8. TestedInv'
    BY <2>1, <2>2 DEF TestedInv, LockFree, Ends
  <2> QED
    BY <2>4, <2>5, <2>7, <2>8, Zenon DEF RingInv
<1> QED
  BY <1>5, <1>6, Zenon

\* The number of bytes one turn of pipewrite()'s loops stores.
Stored(p) == IF Len(todo[p]) < Room THEN Len(todo[p]) ELSE Room

\* What pipewrite() does to the counter and to the bytes left to write: it
\* stores all of them or fills the pipe.
LEMMA WriteMoves ==
    ASSUME RingInv, NEW p \in Users, pipewrite(p)
    PROVE  /\ Stored(p) \in Nat /\ Stored(p) <= Len(todo[p]) /\ Size + Stored(p) <= PIPESIZE
           /\ nwrite' \in 0 .. Wrap - 1 /\ nread' = nread /\ Size' = Size + Stored(p)
           /\ todo[p] \in Seq(Bytes)
           /\ todo' = [todo EXCEPT ![p] = SubSeq(@, Stored(p) + 1, Len(@))]
           /\ todo'[p] = SubSeq(todo[p], Stored(p) + 1, Len(todo[p]))
           /\ todo' \in [Users -> Seq(Bytes)]
           /\ todo'[p] # <<>> => Size' = PIPESIZE
<1>1. /\ nread \in 0 .. Wrap - 1 /\ nwrite \in 0 .. Wrap - 1 /\ todo \in [Users -> Seq(Bytes)]
      /\ Size \in 0 .. PIPESIZE /\ PIPESIZE \in Nat \ {0}
  BY RingContext, Zenon DEF PipeTypeOK
<1>2. todo[p] \in Seq(Bytes) /\ Len(todo[p]) \in Nat
  BY <1>1
<1>3. Stored(p) \in Nat /\ Stored(p) <= Len(todo[p]) /\ Size + Stored(p) <= PIPESIZE
  BY <1>1, <1>2 DEF Stored, Room
<1>4. /\ nwrite' = (nwrite + Stored(p)) % Wrap /\ nread' = nread
      /\ todo' = [todo EXCEPT ![p] = SubSeq(@, Stored(p) + 1, Len(@))]
  BY Zenon DEF pipewrite, Stored
<1>5. nwrite' \in 0 .. Wrap - 1 /\ Size' = Size + Stored(p)
  BY <1>1, <1>3, <1>4, SizeGrows, Zenon
<1>6. todo'[p] = SubSeq(todo[p], Stored(p) + 1, Len(todo[p]))
  BY <1>1, <1>4, Zenon
<1>7. SubSeq(todo[p], Stored(p) + 1, Len(todo[p])) \in Seq(Bytes)
  BY <1>2, <1>3
<1>8. todo' \in [Users -> Seq(Bytes)]
  BY <1>1, <1>4, <1>7, Zenon
<1>9. ASSUME todo'[p] # <<>> PROVE Size' = PIPESIZE
  <2>1. Stored(p) # Len(todo[p])
    <3>1. SUFFICES ASSUME Stored(p) = Len(todo[p]) PROVE FALSE
      OBVIOUS
    <3>2. Len(SubSeq(todo[p], Stored(p) + 1, Len(todo[p]))) = 0
      BY <1>2, <1>3, <3>1
    <3> QED
      BY <1>6, <1>7, <1>9, <3>2
  <2>2. Stored(p) = PIPESIZE - Size
    BY <2>1, Zenon DEF Stored, Room
  <2> QED
    BY <1>1, <1>5, <2>2
<1> QED
  BY <1>2, <1>3, <1>4, <1>5, <1>6, <1>8, <1>9, Zenon

\* pipewrite() keeps the ring's bytes bytes.
LEMMA WriteData ==
    ASSUME RingInv, NEW p \in Users, pipewrite(p)
    PROVE  data' \in [0 .. PIPESIZE - 1 -> Bytes]
<1> DEFINE slot(j) == Slot(nwrite + j - 1)
           hit(i) == \E j \in 1 .. Stored(p) : slot(j) = i
           src(i) == CHOOSE j \in 1 .. Stored(p) : slot(j) = i
<1>1. data' = [i \in 0 .. PIPESIZE - 1 |-> IF hit(i) THEN todo[p][src(i)] ELSE data[i]]
  BY Zenon DEF pipewrite, Stored
<1>2. data \in [0 .. PIPESIZE - 1 -> Bytes]
  BY RingContext, Zenon DEF PipeTypeOK
<1>3. todo[p] \in Seq(Bytes) /\ Stored(p) \in Nat /\ Stored(p) <= Len(todo[p])
  BY WriteMoves, Zenon
<1>4. \A j \in 1 .. Stored(p) : todo[p][j] \in Bytes
  BY <1>3
<1>5. \A i : hit(i) => src(i) \in 1 .. Stored(p)
  BY Zenon
<1> HIDE DEF hit, src
<1> QED
  BY <1>1, <1>2, <1>4, <1>5, Zenon

\* pipewrite() wakes the readers when it is done, and when it sleeps or soon
\* before; it leaves them asleep only when it fails because its process was killed.
LEMMA PipewriteRing ==
    ASSUME RingInv, NEW p \in Users, pipewrite(p)
    PROVE  RingInv'
<1>1. PipeTypeOK /\ EndsInv /\ TestedInv /\ NoSleeperForgotten /\ Size \in 0 .. PIPESIZE /\ PIPESIZE \in Nat
  BY RingContext, Zenon
<1>2. /\ Stored(p) \in Nat /\ Size + Stored(p) <= PIPESIZE
      /\ nwrite' \in 0 .. Wrap - 1 /\ Size' = Size + Stored(p)
      /\ todo' = [todo EXCEPT ![p] = SubSeq(@, Stored(p) + 1, Len(@))]
      /\ todo' \in [Users -> Seq(Bytes)]
      /\ todo'[p] # <<>> => Size' = PIPESIZE
  BY WriteMoves, Zenon
<1>3. at[p] = "write" /\ LockFree /\ UNCHANGED <<nread, open, freed, holds, n, killed, ncpu>>
  BY Zenon DEF pipewrite
<1>4. /\ at' = [q \in Users |-> at'[q]]
      /\ \/ \A q \in Users \ {p} : at'[q] = IF at[q] = "rsleep" THEN "read" ELSE at[q]
         \/ /\ \/ at'[p] = "wtested"
               \/ at'[p] = "user" /\ todo'[p] # <<>> /\ ("r" \notin open \/ killed[p])
            /\ \A q \in Users \ {p} : at'[q] = at[q]
      /\ \/ at'[p] = "user"
         \/ at'[p] = "wsleep" /\ todo'[p] # <<>> /\ "r" \in open /\ ~killed[p]
         \/ at'[p] = "wtested" /\ todo'[p] # <<>> /\ "r" \in open /\ ncpu # 1
  <2>1. CASE todo'[p] = <<>> /\ at' = WakeReaders([at EXCEPT ![p] = "user"])
    BY <1>1, <2>1, Zenon DEF PipeTypeOK, WakeReaders
  <2>2. CASE todo'[p] # <<>> /\ ("r" \notin open \/ killed[p]) /\ at' = [at EXCEPT ![p] = "user"]
    BY <1>1, <2>2, Zenon DEF PipeTypeOK
  <2>3. CASE todo'[p] # <<>> /\ "r" \in open /\ ~killed[p] /\ at' = WakeReaders([at EXCEPT ![p] = "wsleep"])
    BY <1>1, <2>3, Zenon DEF PipeTypeOK, WakeReaders
  <2>4. CASE todo'[p] # <<>> /\ "r" \in open /\ ncpu # 1 /\ at' = [at EXCEPT ![p] = "wtested"]
    BY <1>1, <2>4, Zenon DEF PipeTypeOK
  <2> QED
    BY <2>1, <2>2, <2>3, <2>4, Zenon DEF pipewrite, WriterAsleep
<1>5. at' \in [Users -> CallPCs]
  <2>1. \A q \in Users : at'[q] \in CallPCs
    BY <1>1, <1>4, Zenon DEF PipeTypeOK, CallPCs
  <2> QED
    BY <1>4, <2>1, Zenon
<1>6. Size' <= PIPESIZE
  BY <1>1, <1>2, Zenon
<1>7. PipeTypeOK'
  BY <1>1, <1>2, <1>3, <1>5, <1>6, WriteData, Zenon DEF PipeTypeOK
<1>8. EndsInv'
  BY <1>1, <1>3, <1>4 DEF EndsInv
<1>9. TestedInv'
  <2>1. \A q \in Users \ {p} : at'[q] \notin {"wtested", "rtested"}
    BY <1>3, <1>4 DEF LockFree
  <2>2. at'[p] # "rtested" /\ (at'[p] = "wtested" => Size' = PIPESIZE /\ "r" \in open' /\ ncpu' > 1)
    <3>1. at'[p] # "rtested" /\ (at'[p] = "wtested" => todo'[p] # <<>> /\ "r" \in open /\ ncpu # 1)
      BY <1>4
    <3>2. ncpu # 1 => ncpu > 1
      BY <1>1 DEF PipeTypeOK
    <3> QED
      BY <1>2, <1>3, <3>1, <3>2, Zenon
  <2> QED
    BY <2>1, <2>2, Zenon DEF TestedInv
<1>10. ASSUME NEW q \in Users, at'[q] = "wsleep"
       PROVE  Size' = PIPESIZE /\ "r" \in open' /\ (killed'[q] => ncpu' > 1)
  <2>1. CASE q = p
    BY <1>2, <1>3, <1>4, <1>10, <2>1
  <2>2. CASE q # p
    <3>1. at[q] = "wsleep"
      BY <1>4, <1>10, <2>2, Zenon
    <3>2. Size = PIPESIZE /\ "r" \in open /\ (killed[q] => ncpu > 1)
      BY <1>1, <3>1, Zenon DEF NoSleeperForgotten
    <3> QED
      BY <1>1, <1>2, <1>3, <3>2
  <2> QED
    BY <2>1, <2>2, Zenon
<1>11. ASSUME NEW q \in Users, at'[q] = "rsleep"
       PROVE  "w" \in open' /\ (killed'[q] => ncpu' > 1) /\ Excused(p)'
  <2>1. q # p /\ at[q] = "rsleep"
    BY <1>4, <1>11, Zenon
  <2>2. \/ at'[p] = "wtested"
        \/ at'[p] = "user" /\ todo'[p] # <<>> /\ ("r" \notin open \/ killed[p])
    BY <1>4, <1>11, <2>1
  <2>3. q \in holds["r"] /\ "r" \in open
    BY <1>1, <2>1, Zenon DEF EndsInv, Ends
  <2>4. Excused(p)'
    BY <1>3, <2>2, <2>3, Zenon DEF Excused, Cut
  <2> QED
    BY <1>1, <1>3, <2>1, <2>4 DEF NoSleeperForgotten
<1>12. NoSleeperForgotten'
  BY <1>10, <1>11 DEF NoSleeperForgotten, Excused
<1> QED
  BY <1>7, <1>8, <1>9, <1>12, Zenon DEF RingInv

\* pipewrite()'s sleep() after a test that a kill() may have overtaken: it has
\* woken the readers, and the pipe is still full.
LEMMA WriterSleepsRing ==
    ASSUME RingInv, NEW p \in Users, WriterSleeps(p)
    PROVE  RingInv'
<1>1. PipeTypeOK /\ EndsInv /\ TestedInv /\ NoSleeperForgotten
  BY RingContext, Zenon
<1>2. Size' = Size
  BY Zenon DEF WriterSleeps, Size
<1>3. /\ at[p] = "wtested" /\ at' = [q \in Users |-> at'[q]]
      /\ UNCHANGED <<data, nread, nwrite, open, freed, holds, todo, n, killed, ncpu>>
      /\ \A q \in Users : at'[q] = IF q = p THEN "wsleep"
                                    ELSE IF at[q] = "rsleep" THEN "read" ELSE at[q]
  BY <1>1 DEF PipeTypeOK, WriterSleeps, WriterAsleep, WakeReaders
<1>4. at' \in [Users -> CallPCs]
  <2>1. \A q \in Users : at'[q] \in CallPCs
    BY <1>1, <1>3 DEF PipeTypeOK, CallPCs
  <2> QED
    BY <1>3, <2>1, Zenon
<1>5. PipeTypeOK'
  BY <1>1, <1>2, <1>3, <1>4 DEF PipeTypeOK
<1>6. EndsInv'
  BY <1>1, <1>3 DEF EndsInv
<1>7. TestedInv'
  BY <1>1, <1>2, <1>3 DEF TestedInv
<1>8. NoSleeperForgotten'
  BY <1>1, <1>2, <1>3 DEF NoSleeperForgotten, TestedInv
<1> QED
  BY <1>5, <1>6, <1>7, <1>8, Zenon DEF RingInv

\* piperead() wakes the writers before it returns, and sleeps only on an empty
\* pipe that can still be written.
LEMMA PipereadRing ==
    ASSUME RingInv, NEW p \in Users, piperead(p)
    PROVE  RingInv'
<1>1. PipeTypeOK /\ EndsInv /\ TestedInv /\ NoSleeperForgotten /\ Size \in 0 .. PIPESIZE /\ PIPESIZE \in Nat \ {0}
  BY RingContext, Zenon
<1>2. at[p] = "read" /\ LockFree /\ UNCHANGED <<data, nwrite, open, freed, holds, todo, killed, ncpu>>
  BY Zenon DEF piperead
<1>3. n' \in [Users -> Nat]
  BY <1>1, Zenon DEF PipeTypeOK, piperead
<1>4. CASE /\ Size = 0 /\ "w" \in open /\ nread' = nread
           /\ at' = [at EXCEPT ![p] = IF killed[p] THEN "user"
                                      ELSE IF ncpu = 1 THEN "rsleep" ELSE "rtested"]
  <2>1. Size' = Size
    BY <1>2, <1>4, Zenon DEF Size
  <2>2. \A q \in Users : at'[q] = IF q # p THEN at[q] ELSE IF killed[p] THEN "user"
                                    ELSE IF ncpu = 1 THEN "rsleep" ELSE "rtested"
    BY <1>1, <1>4, Zenon DEF PipeTypeOK
  <2>3. at' \in [Users -> CallPCs]
    BY <1>1, <1>4, Zenon DEF PipeTypeOK, CallPCs
  <2>4. PipeTypeOK'
    BY <1>1, <1>2, <1>3, <1>4, <2>1, <2>3 DEF PipeTypeOK
  <2>5. EndsInv'
    BY <1>1, <1>2, <2>2 DEF EndsInv
  <2>6. NoSleeperForgotten'
    BY <1>1, <1>2, <1>4, <2>1, <2>2 DEF NoSleeperForgotten
  <2>7. TestedInv'
    BY <1>1, <1>2, <1>4, <2>1, <2>2 DEF TestedInv, LockFree, PipeTypeOK
  <2> QED
    BY <2>4, <2>5, <2>6, <2>7, Zenon DEF RingInv
<1>5. CASE nread' = (nread + Taken(p)) % Wrap /\ at' = WakeWriters([at EXCEPT ![p] = "user"])
  <2>1. n[p] \in Nat /\ Taken(p) \in 0 .. Size
    BY <1>1 DEF Taken, PipeTypeOK
  <2>2. nread' \in 0 .. Wrap - 1 /\ Size' = Size - Taken(p)
    BY <1>1, <1>2, <1>5, <2>1, SizeShrinks DEF PipeTypeOK
  <2>3. \A q \in Users : at'[q] = IF q = p THEN "user" ELSE IF at[q] = "wsleep" THEN "write" ELSE at[q]
    BY <1>1, <1>5 DEF PipeTypeOK, WakeWriters
  <2>4. at' \in [Users -> CallPCs]
    <3>1. \A q \in Users : at'[q] \in CallPCs
      BY <1>1, <2>3 DEF PipeTypeOK, CallPCs
    <3>2. at' = [q \in Users |-> at'[q]]
      BY <1>5 DEF WakeWriters
    <3> QED
      BY <3>1, <3>2, Zenon
  <2>5. Size' <= PIPESIZE /\ (Size = 0 => Size' = 0)
    BY <1>1, <2>1, <2>2
  <2>6. PipeTypeOK'
    BY <1>1, <1>2, <1>3, <2>2, <2>4, <2>5, Zenon DEF PipeTypeOK
  <2>7. EndsInv'
    BY <1>1, <1>2, <2>3 DEF EndsInv
  <2>8. \A q \in Users : Excused(q) => Excused(q)'
    BY <1>2, <2>3 DEF Excused, Cut
  <2>9. NoSleeperForgotten'
    BY <1>1, <1>2, <2>3, <2>5, <2>8 DEF NoSleeperForgotten, Excused
  <2>10. TestedInv'
    BY <1>2, <2>3 DEF TestedInv, LockFree
  <2> QED
    BY <2>6, <2>7, <2>9, <2>10 DEF RingInv
<1> QED
  BY <1>4, <1>5, Zenon DEF piperead

\* piperead()'s sleep() after a test that a kill() may have overtaken.
LEMMA ReaderSleepsRing ==
    ASSUME RingInv, NEW p \in Users, ReaderSleeps(p)
    PROVE  RingInv'
<1>1. PipeTypeOK /\ EndsInv /\ TestedInv /\ NoSleeperForgotten
  BY RingContext, Zenon
<1>2. Size' = Size
  BY Zenon DEF ReaderSleeps, Size
<1>3. /\ at[p] = "rtested" /\ at' \in [Users -> CallPCs]
      /\ UNCHANGED <<data, nread, nwrite, open, freed, holds, todo, n, killed, ncpu>>
      /\ \A q \in Users : at'[q] = IF q = p THEN "rsleep" ELSE at[q]
  BY <1>1, Zenon DEF PipeTypeOK, ReaderSleeps, CallPCs
<1>4. PipeTypeOK'
  BY <1>1, <1>2, <1>3 DEF PipeTypeOK
<1>5. EndsInv'
  BY <1>1, <1>3 DEF EndsInv
<1>6. TestedInv'
  BY <1>1, <1>2, <1>3 DEF TestedInv
<1>7. \A q \in Users : Excused(q) => Excused(q)'
  BY <1>3 DEF Excused, Cut
<1>8. NoSleeperForgotten'
  BY <1>1, <1>2, <1>3, <1>7 DEF NoSleeperForgotten, TestedInv, Excused
<1> QED
  BY <1>4, <1>5, <1>6, <1>8, Zenon DEF RingInv

\* Every step of the pipe preserves the invariant.
LEMMA RingKeeps == RingInv /\ [PipeNext]_pivars => RingInv'
<1> SUFFICES ASSUME RingInv, [PipeNext]_pivars PROVE RingInv'
  OBVIOUS
<1>1. CASE PipeNext
  <2>1. PICK p \in Users :
            \/ \E m \in Msgs : Write(p, m)
            \/ \E c \in Counts : Read(p, c)
            \/ \E e \in Ends : Close(p, e)
            \/ pipewrite(p) \/ WriterSleeps(p) \/ piperead(p) \/ ReaderSleeps(p) \/ Kill(p)
    BY <1>1, Zenon DEF PipeNext, PipeStep
  <2> QED
    BY <2>1, WriteRing, ReadRing, CloseRing, PipewriteRing, WriterSleepsRing,
       PipereadRing, ReaderSleepsRing, KillRing, Zenon
<1>2. CASE UNCHANGED pivars
  <2>1. Size' = Size
    BY <1>2, Zenon DEF pivars, Size
  <2>2. RingInv' = RingInv
    BY <1>2, <2>1, Zenon DEF pivars, RingInv, PipeTypeOK, EndsInv, TestedInv, NoSleeperForgotten, Cut
  <2> QED
    BY <2>2, Zenon
<1> QED
  BY <1>1, <1>2, Zenon

\* What the invariant says of a freed page.
LEMMA RingSafe == RingInv => PipeInv
<1> SUFFICES ASSUME RingInv PROVE PipeInv
  OBVIOUS
<1>1. PipeTypeOK /\ EndsInv /\ TestedInv /\ NoSleeperForgotten
  BY RingContext, Zenon
<1>2. NoUseAfterFree
  <2> SUFFICES ASSUME freed, NEW p \in Users
               PROVE  at[p] = "user" /\ \A e \in Ends : p \notin holds[e]
    BY Zenon DEF NoUseAfterFree
  <2>1. \A e \in Ends : holds[e] = {}
    BY <1>1, Zenon DEF EndsInv
  <2>2. at[p] \in CallPCs /\ "r" \in Ends /\ "w" \in Ends
    BY <1>1, Zenon DEF PipeTypeOK, Ends
  <2> QED
    BY <1>1, <2>1, <2>2, Zenon DEF EndsInv, CallPCs
<1> QED
  BY <1>1, <1>2, Zenon DEF PipeInv

\* In every state of a pipe, whatever the numbers of readers and writers, the
\* size of the ring and the width of the counters (a multiple of it): at most
\* PIPESIZE bytes are in it, pipeclose() has freed the page only if nobody can use it
\* any more, and nobody sleeps on a condition that has come true.  That a
\* sleeper has not been killed is claimed of one CPU only: on more, kill() can
\* come between the test of killed and the sleep().
THEOREM PipeSafety == PipeSpec => []PipeInv
<1>1. PipeInit => RingInv
  BY InitRing, Zenon
<1>2. RingInv /\ [PipeNext]_pivars => RingInv'
  BY RingKeeps, Zenon
<1>3. RingInv => PipeInv
  BY RingSafe, Zenon
<1> QED
  BY <1>1, <1>2, <1>3, PTL DEF PipeSpec

-----------------------------------------------------------------------------
(* The order of the bytes                                                  *)

\* Since Wrap is a multiple of PIPESIZE, wrapping a counter does not change its
\* place in the ring, and PIPESIZE consecutive counters have different places.
LEMMA SlotPlaces ==
    ASSUME NEW i \in Int
    PROVE  /\ Slot(i) \in 0 .. PIPESIZE - 1
           /\ Slot(i - Wrap) = Slot(i)
           /\ \A j \in Int : Slot(i) = Slot(j) /\ i - j < PIPESIZE /\ j - i < PIPESIZE => i = j
<1>1. Wrap \in Nat \ {0} /\ PIPESIZE \in Nat \ {0} /\ Wrap % PIPESIZE = 0
  BY PipeAssumption
<1>2. i % Wrap \in Int
  BY <1>1, DivMod
<1>3. Slot(i) \in 0 .. PIPESIZE - 1
  BY <1>1, <1>2, DivMod, Zenon DEF Slot
<1>4. (i - Wrap) % Wrap = i % Wrap
  <2> DEFINE r == i % Wrap
             k == i \div Wrap
  <2>1. r \in 0 .. Wrap - 1 /\ k \in Int /\ i = Wrap * k + r
    BY <1>1, DivMod, Zenon
  <2> HIDE DEF r, k
  <2>2. i - Wrap = Wrap * (k - 1) + r /\ i - Wrap \in Int /\ k - 1 \in Int
    BY <1>1, <2>1
  <2>3. (i - Wrap) % Wrap = r
    BY <1>1, <2>1, <2>2, ModUnique, Zenon
  <2> QED
    BY <2>3, Zenon DEF r
<1>5. Slot(i - Wrap) = Slot(i)
  BY <1>4, Zenon DEF Slot
<1>6. ASSUME NEW j \in Int, Slot(i) = Slot(j), i - j < PIPESIZE, j - i < PIPESIZE PROVE i = j
  <2>1. Slot(i) = i % PIPESIZE /\ Slot(j) = j % PIPESIZE
    BY <1>1, ModMod, Zenon DEF Slot
  <2> QED
    BY <1>1, <1>6, <2>1, ModDistinct, Zenon
<1> QED
  BY <1>3, <1>5, <1>6, Zenon

\* Counters that differ by a turn have the same place.
LEMMA SlotTurn ==
    ASSUME NEW i \in Int, NEW j \in Int, i = j \/ i = j - Wrap
    PROVE  Slot(i) = Slot(j)
  BY SlotPlaces, Zenon

\* Byte i of two sequences, one after the other.
Joined(s, t, i) == IF i <= Len(s) THEN s[i] ELSE t[i - Len(s)]

\* What SubSeq() leaves of a message once its first k bytes are written.
LEMMA RestFacts ==
    ASSUME NEW B, NEW s \in Seq(B), NEW k \in Nat, k <= Len(s)
    PROVE  LET t == SubSeq(s, k + 1, Len(s)) IN
           Len(t) = Len(s) - k /\ \A i \in 1 .. Len(s) - k : t[i] = s[k + i]
  BY SMTT(30)

\* The bytes of a concatenation.
LEMMA ConcatJoined ==
    ASSUME NEW B, NEW s \in Seq(B), NEW t \in Seq(B)
    PROVE  /\ s \o t \in Seq(B) /\ Len(s \o t) = Len(s) + Len(t)
           /\ \A i \in 1 .. Len(s) + Len(t) : (s \o t)[i] = Joined(s, t, i)
  BY DEF Joined

\* Messages with the same bytes are equal.
LEMMA SameBytes ==
    ASSUME NEW B, NEW x \in Seq(B), NEW y \in Seq(B), Len(x) = Len(y),
           \A i \in 1 .. Len(x) : x[i] = y[i]
    PROVE  x = y
<1>1. x = [i \in 1 .. Len(x) |-> x[i]] /\ y = [i \in 1 .. Len(y) |-> y[i]]
  OBVIOUS
<1> QED
  BY <1>1, Zenon

\* The bytes in the ring are a sequence of Size bytes.
LEMMA ContentsSeq ==
    ASSUME PipeTypeOK
    PROVE  /\ Contents \in Seq(Bytes) /\ Len(Contents) = Size /\ Size \in Nat
           /\ \A i \in 1 .. Size : Contents[i] = data[Slot(nread + i - 1)]
<1>1. Size \in Nat /\ nread \in Int
  BY SizeValue DEF PipeTypeOK
<1>2. \A i \in 1 .. Size : data[Slot(nread + i - 1)] \in Bytes
  <2> TAKE i \in 1 .. Size
  <2>1. nread + i - 1 \in Int
    BY <1>1
  <2>2. Slot(nread + i - 1) \in 0 .. PIPESIZE - 1
    BY <2>1, SlotPlaces, Zenon
  <2> QED
    BY <2>2, Zenon DEF PipeTypeOK
<1>3. Contents \in [1 .. Size -> Bytes]
  BY <1>2, Zenon DEF Contents
<1>4. Contents \in Seq(Bytes) /\ Len(Contents) = Size
  BY <1>1, <1>3
<1> QED
  BY <1>1, <1>4, Zenon DEF Contents

\* The bytes pipewrite() stores go behind those in the ring, each to a place of
\* its own, and those in the ring stay.
LEMMA WriteContents ==
    ASSUME RingInv, NEW p \in Users, pipewrite(p), NEW i \in 1 .. Size + Stored(p)
    PROVE  data'[Slot(nread + i - 1)] =
             IF i <= Size THEN data[Slot(nread + i - 1)] ELSE todo[p][i - Size]
<1> DEFINE slot(j) == Slot(nwrite + j - 1)
           here == Slot(nread + i - 1)
           src == CHOOSE j \in 1 .. Stored(p) : slot(j) = here
<1>1. /\ nread \in Int /\ nwrite \in Int /\ Size \in Nat /\ Stored(p) \in Nat
      /\ Size + Stored(p) <= PIPESIZE /\ PIPESIZE \in Nat /\ Wrap \in Nat
  BY RingContext, WriteMoves DEF PipeTypeOK
<1>2. nwrite = nread + Size \/ nwrite = nread + Size - Wrap
  <2>1. nread \in 0 .. Wrap - 1 /\ nwrite \in 0 .. Wrap - 1
    BY RingContext, Zenon DEF PipeTypeOK
  <2> QED
    BY <1>1, <2>1, SizeValue
<1>3. \A j \in 1 .. Stored(p) : slot(j) = here <=> j = i - Size
  <2> TAKE j \in 1 .. Stored(p)
  <2> DEFINE a == nread + Size + j - 1
             b == nread + i - 1
  <2>1. slot(j) = Slot(a)
    <3>1. nwrite + j - 1 \in Int /\ a \in Int /\ (nwrite + j - 1 = a \/ nwrite + j - 1 = a - Wrap)
      BY <1>1, <1>2
    <3> HIDE DEF a
    <3> QED
      BY <3>1, SlotTurn, Zenon
  <2>2. a \in Int /\ b \in Int /\ a - b < PIPESIZE /\ b - a < PIPESIZE
    BY <1>1
  <2>3. a = b <=> j = i - Size
    BY <1>1
  <2>4. here = Slot(b)
    OBVIOUS
  <2> HIDE DEF a, b, here, slot
  <2>5. Slot(a) = Slot(b) => a = b
    BY <2>2, SlotPlaces, Zenon
  <2> QED
    BY <2>1, <2>3, <2>4, <2>5, Zenon
<1>4. here \in 0 .. PIPESIZE - 1
  <2>1. nread + i - 1 \in Int
    BY <1>1
  <2> QED
    BY <2>1, SlotPlaces, Zenon
<1>5. data'[here] = IF \E j \in 1 .. Stored(p) : slot(j) = here THEN todo[p][src] ELSE data[here]
  BY <1>4, Zenon DEF pipewrite, Stored
<1> HIDE DEF slot, here
<1>6. CASE i <= Size
  <2>1. ~ \E j \in 1 .. Stored(p) : slot(j) = here
    BY <1>1, <1>3, <1>6
  <2> QED
    BY <1>5, <1>6, <2>1, Zenon DEF here
<1>7. CASE ~(i <= Size)
  <2>1. i - Size \in 1 .. Stored(p)
    BY <1>1, <1>7
  <2>2. slot(i - Size) = here
    BY <1>3, <2>1, Zenon
  <2>3. src \in 1 .. Stored(p) /\ slot(src) = here
    BY <2>1, <2>2, Zenon
  <2> HIDE DEF src
  <2>4. src = i - Size
    BY <1>3, <2>3, Zenon
  <2> QED
    BY <1>5, <1>7, <2>1, <2>2, <2>4, Zenon DEF here
<1> QED
  BY <1>6, <1>7, Zenon

\* pipewrite() moves the writer's next bytes to the tail of the ring.
LEMMA WriteAppends ==
    ASSUME RingInv, NEW p \in Users, pipewrite(p)
    PROVE  Contents' \o todo'[p] = Contents \o todo[p]
<1> DEFINE k == Stored(p)
           m == todo[p]
           s == Contents'
           t == todo'[p]
           u == Contents
<1>1. /\ k \in Nat /\ k <= Len(m) /\ Size' = Size + k /\ nread' = nread
      /\ m \in Seq(Bytes) /\ t = SubSeq(m, k + 1, Len(m)) /\ t \in Seq(Bytes)
  BY WriteMoves, Zenon
<1>2. /\ u \in Seq(Bytes) /\ Len(u) = Size /\ Size \in Nat
      /\ \A i \in 1 .. Size : u[i] = data[Slot(nread + i - 1)]
  BY RingContext, ContentsSeq, Zenon
<1>3. PipeTypeOK'
  BY PipewriteRing, Zenon DEF RingInv
<1>4. s \in Seq(Bytes) /\ Len(s) = Size' /\ s = [i \in 1 .. Size' |-> data'[Slot(nread' + i - 1)]]
  <2>1. s = [i \in 1 .. Size' |-> data'[Slot(nread' + i - 1)]]
    BY Zenon DEF Contents, Slot
  <2>2. \A i \in 1 .. Size' : data'[Slot(nread' + i - 1)] \in Bytes
    <3> TAKE i \in 1 .. Size'
    <3>1. nread' + i - 1 \in Int
      BY <1>1, <1>2, <1>3 DEF PipeTypeOK
    <3>2. Slot(nread' + i - 1) \in 0 .. PIPESIZE - 1
      BY <3>1, SlotPlaces, Zenon
    <3> QED
      BY <1>3, <3>2, Zenon DEF PipeTypeOK
  <2> HIDE DEF s
  <2>3. s \in [1 .. Size' -> Bytes] /\ Size' \in Nat
    BY <1>1, <1>2, <2>1, <2>2, SMTT(30)
  <2> QED
    BY <2>1, <2>3, SMTT(30)
<1>5. \A i \in 1 .. Size + k : s[i] = IF i <= Size THEN u[i] ELSE m[i - Size]
  <2> TAKE i \in 1 .. Size + k
  <2>1. s[i] = data'[Slot(nread + i - 1)]
    BY <1>1, <1>4, Zenon
  <2>2. data'[Slot(nread + i - 1)] =
          IF i <= Size THEN data[Slot(nread + i - 1)] ELSE todo[p][i - Size]
    BY WriteContents, Zenon
  <2>3. i <= Size => i \in 1 .. Size
    BY <1>1, <1>2
  <2> QED
    BY <1>2, <2>1, <2>2, <2>3, Zenon
<1>6. Len(t) = Len(m) - k /\ \A i \in 1 .. Len(m) - k : t[i] = m[k + i]
  BY <1>1, RestFacts, ZenonT(40)
<1> HIDE DEF s, t, u, m, k
<1>7. /\ Len(m) \in Nat /\ k \in Nat /\ k <= Len(m) /\ Size \in Nat
      /\ Len(s) = Size + k /\ Len(u) = Size /\ Len(t) = Len(m) - k
  <2>1. Len(m) \in Nat
    BY <1>1
  <2> QED
    BY <1>1, <1>2, <1>4, <1>6, <2>1, Zenon
<1>10. Len(s) + Len(t) = Len(u) + Len(m)
  BY <1>7
<1>8. \A i \in 1 .. Len(s) + Len(t) : Joined(s, t, i) = Joined(u, m, i)
  <2> TAKE i \in 1 .. Len(s) + Len(t)
  <2>1. Len(s) = Size + k /\ Len(u) = Size /\ i \in Nat /\ Len(m) \in Nat
    BY <1>7
  <2>2. CASE i <= Size + k
    BY <1>5, <2>1, <2>2, SMTT(30) DEF Joined
  <2>3. CASE ~(i <= Size + k)
    <3>1. i - (Size + k) \in 1 .. Len(m) - k /\ k + (i - (Size + k)) = i - Size /\ ~(i <= Size)
      BY <1>7, <2>1, <2>3
    <3> QED
      BY <1>6, <2>1, <2>3, <3>1, Zenon DEF Joined
  <2> QED
    BY <2>2, <2>3, Zenon
<1>9. s \o t = u \o m
  <2> DEFINE x == s \o t
             y == u \o m
  <2>1. s \in Seq(Bytes) /\ t \in Seq(Bytes)
    BY <1>1, <1>4, Zenon
  <2>2. u \in Seq(Bytes) /\ m \in Seq(Bytes)
    BY <1>1, <1>2, Zenon
  <2>3. /\ x \in Seq(Bytes) /\ Len(x) = Len(s) + Len(t)
        /\ \A i \in 1 .. Len(s) + Len(t) : x[i] = Joined(s, t, i)
    BY <2>1, ConcatJoined, Zenon
  <2>4. /\ y \in Seq(Bytes) /\ Len(y) = Len(u) + Len(m)
        /\ \A i \in 1 .. Len(u) + Len(m) : y[i] = Joined(u, m, i)
    BY <2>2, ConcatJoined, Zenon
  <2> HIDE DEF x, y
  <2>5. Len(x) = Len(y) /\ \A i \in 1 .. Len(x) : x[i] = y[i]
    BY <1>8, <1>10, <2>3, <2>4, Zenon
  <2>6. x = y
    BY <2>3, <2>4, <2>5, SameBytes, Zenon
  <2> QED
    BY <2>6, Zenon DEF x, y
<1> QED
  BY <1>9, Zenon DEF s, t, u, m

\* piperead() takes bytes from the head of the ring.
LEMMA ReadRemoves ==
    ASSUME RingInv, NEW p \in Users, piperead(p), nread' # nread
    PROVE  /\ at[p] = "read"
           /\ \E k \in 0 .. n[p] : Contents' = SubSeq(Contents, k + 1, Len(Contents))
<1> DEFINE k == Taken(p)
           s == Contents'
           t == Contents
<1>1. nread' = (nread + k) % Wrap /\ nwrite' = nwrite /\ data' = data /\ at[p] = "read"
  BY Zenon DEF piperead
<1>2. /\ nread \in 0 .. Wrap - 1 /\ nwrite \in 0 .. Wrap - 1 /\ n[p] \in Nat /\ Size \in Nat
      /\ Wrap \in Nat \ {0} /\ PIPESIZE < Wrap /\ PIPESIZE \in Nat /\ Size <= PIPESIZE
  BY RingContext DEF PipeTypeOK
<1>3. k \in 0 .. Size /\ k <= n[p]
  BY <1>2 DEF Taken
<1>4. nread' \in 0 .. Wrap - 1 /\ Size' = Size - k
  BY <1>1, <1>2, <1>3, SizeShrinks
<1>5. nread' = nread + k \/ nread' = nread + k - Wrap
  <2>1. nread \in Int /\ k \in Int /\ (nread + k \in 0 .. Wrap - 1 \/ nread + k \in Wrap .. 2 * Wrap - 1)
    BY <1>2, <1>3
  <2> QED
    BY <1>1, <1>2, <2>1, ModTurn, Zenon
<1>6. /\ t \in Seq(Bytes) /\ Len(t) = Size
      /\ \A i \in 1 .. Size : t[i] = data[Slot(nread + i - 1)]
  BY RingContext, ContentsSeq
<1>7. s = [i \in 1 .. Size' |-> data[Slot(nread' + i - 1)]]
  BY <1>1, Zenon DEF Contents, Slot
<1>8. \A i \in 1 .. Size' : data[Slot(nread' + i - 1)] = t[k + i]
  <2> TAKE i \in 1 .. Size'
  <2>1. k + i \in 1 .. Size
    BY <1>2, <1>3, <1>4
  <2> DEFINE a == nread' + i - 1
             b == nread + (k + i) - 1
  <2>2. a \in Int /\ b \in Int /\ (a = b \/ a = b - Wrap)
    BY <1>2, <1>3, <1>4, <1>5
  <2>3. t[k + i] = data[Slot(b)]
    BY <1>6, <2>1, Zenon
  <2> HIDE DEF a, b
  <2>4. Slot(a) = Slot(b)
    BY <2>2, SlotTurn, Zenon
  <2> QED
    BY <2>3, <2>4, Zenon DEF a
<1> HIDE DEF s, t, k
<1>9. \A i \in 1 .. Size' : s[i] = t[k + i] /\ t[k + i] \in Bytes
  <2> TAKE i \in 1 .. Size'
  <2>1. t[k + i] \in Bytes
    BY <1>2, <1>3, <1>4, <1>6
  <2> QED
    BY <1>7, <1>8, <2>1, Zenon
<1>10. s \in Seq(Bytes) /\ Len(s) = Size'
  <2>1. s \in [1 .. Size' -> Bytes]
    BY <1>7, <1>9, Zenon
  <2>2. Size' \in Nat
    BY <1>2, <1>3, <1>4
  <2> QED
    BY <2>1, <2>2
<1>11. /\ SubSeq(t, k + 1, Len(t)) \in Seq(Bytes) /\ Len(SubSeq(t, k + 1, Len(t))) = Len(s)
       /\ \A i \in 1 .. Len(s) : SubSeq(t, k + 1, Len(t))[i] = t[k + i]
  <2>1. Len(s) = Len(t) - k /\ k <= Len(t) /\ k \in Nat
    BY <1>2, <1>3, <1>4, <1>6, <1>10
  <2> QED
    BY <1>6, <2>1
<1> DEFINE u == SubSeq(t, k + 1, Len(t))
<1>12. s \in Seq(Bytes) /\ u \in Seq(Bytes) /\ Len(s) = Len(u) /\ \A i \in 1 .. Len(s) : s[i] = u[i]
  BY <1>9, <1>10, <1>11, Zenon
<1> HIDE DEF u
<1>13. s = u
  <2>1. s = [i \in 1 .. Len(s) |-> s[i]] /\ u = [i \in 1 .. Len(u) |-> u[i]]
    BY <1>12
  <2> QED
    BY <1>12, <2>1, Zenon
<1>14. k \in 0 .. n[p]
  BY <1>2, <1>3
<1> QED
  BY <1>1, <1>13, <1>14, Zenon DEF s, t, u

\* A pipe is first in, first out, for every size of the ring and every width of
\* the counters: whatever the readers and writers do, pipewrite() adds a
\* writer's next bytes at the tail, and piperead() takes at most n at the head.
THEOREM PipeInOrder == PipeSpec => Fifo
<1> DEFINE moved == <<data, nread, nwrite>>
           InOrder == \/ \E p \in Users : Contents' \o todo'[p] = Contents \o todo[p]
                      \/ \E p \in Users :
                            /\ at[p] = "read"
                            /\ \E k \in 0 .. n[p] : Contents' = SubSeq(Contents, k + 1, Len(Contents))
<1>1. PipeInit => RingInv
  BY InitRing, Zenon
<1>2. RingInv /\ [PipeNext]_pivars => RingInv'
  BY RingKeeps, Zenon
<1>3. RingInv /\ [PipeNext]_pivars => [InOrder]_moved
  <2> SUFFICES ASSUME RingInv, [PipeNext]_pivars, moved' # moved PROVE InOrder
    BY Zenon
  <2>1. \E p \in Users : pipewrite(p) \/ piperead(p)
    BY Zenon DEF PipeNext, PipeStep, pivars, Write, WriterSleeps, Read, ReaderSleeps, Close, Kill
  <2>2. PICK p \in Users : pipewrite(p) \/ piperead(p)
    BY <2>1, Zenon
  <2>3. CASE pipewrite(p)
    BY <2>3, WriteAppends, Zenon
  <2>4. CASE piperead(p)
    <3>1. nread' # nread
      BY <2>4, Zenon DEF piperead
    <3> QED
      BY <2>4, <3>1, ReadRemoves, Zenon
  <2> QED
    BY <2>2, <2>3, <2>4, Zenon
<1> QED
  BY <1>1, <1>2, <1>3, PTL DEF PipeSpec, Fifo
=============================================================================
