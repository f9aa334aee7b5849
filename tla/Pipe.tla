-------------------------------- MODULE Pipe --------------------------------
(***************************************************************************)
(* A pipe of the xv6 kernel (HW2/src/pipe.c): a ring of bytes between the  *)
(* processes that hold its read end and those that hold its write end,     *)
(* with the 32-bit counters nread and nwrite that wrap around.             *)
(*                                                                         *)
(* p->lock is held from the entry of a call, or its return from sleep(),   *)
(* until it sleeps or returns, with interrupts off.  Such a stretch is one *)
(* step, but for the one that ends in sleep(): kill() takes ptable.lock    *)
(* only, so where there is a second CPU it can come between the test of    *)
(* killed and the sleep, and sleep() does not test again.                  *)
(***************************************************************************)
EXTENDS Integers, Sequences

CONSTANTS
    Users,      \* the processes that inherited the pipe
    Sharing,    \* which of them hold each end once they have closed what they do not use
    PIPESIZE,
    Wrap,       \* 2^32: where an unsigned counter wraps
    Msgs,       \* bound: what a write() is called with
    Counts,     \* bound: the n a read() is called with
    InitByte    \* what the fresh page holds

ASSUME PipeAssumption ==
    /\ PIPESIZE \in Nat \ {0} /\ Wrap \in Nat
    /\ Wrap > PIPESIZE /\ Wrap % PIPESIZE = 0
    /\ Counts \subseteq Nat
    /\ \A m \in Msgs : m \in Seq({m[i] : i \in DOMAIN m})
    /\ Sharing \subseteq [{"r", "w"} -> SUBSET Users]

VARIABLES
    data,       \* p->data
    nread,      \* p->nread
    nwrite,     \* p->nwrite
    open,       \* p->readopen and p->writeopen, as the set of open ends
    freed,      \* the page went back to kalloc()
    holds,      \* the processes with a descriptor for each end
    at,         \* where each process is
    todo,       \* the bytes pipewrite() has still to store
    n,          \* the n of piperead(), 0 outside it
    killed,
    ncpu        \* found at boot: 1, or 2 for any larger number

pivars == <<data, nread, nwrite, open, freed, holds, at, todo, n, killed, ncpu>>

Ends == {"r", "w"}
Bytes == (UNION {{m[i] : i \in DOMAIN m} : m \in Msgs}) \cup {InitByte}
CallPCs == {"user", "write", "wtested", "wsleep", "read", "rtested", "rsleep"}

\* Bytes in the ring, as the code compares the counters.
Size == (nwrite - nread) % Wrap

\* Bytes that can be stored before the pipe is full.
Room == PIPESIZE - Size

\* p->data[i % PIPESIZE] for a counter i
Slot(i) == (i % Wrap) % PIPESIZE

\* Nobody is between its test of killed and its sleep, with p->lock held.
LockFree == \A q \in Users : at[q] \notin {"wtested", "rtested"}

\* Bytes a read() takes out of the pipe.
TakenAll(p) == Size

Taken(p) == IF Size < n[p] THEN Size ELSE n[p]

\* wakeup(&p->nread) and wakeup(&p->nwrite)
WakeNobody(f) == f

WakeReaders(f) == [p \in Users |-> IF f[p] = "rsleep" THEN "read" ELSE f[p]]
WakeWriters(f) == [p \in Users |-> IF f[p] = "wsleep" THEN "write" ELSE f[p]]

-----------------------------------------------------------------------------

Write(p, m) ==
    /\ at[p] = "user" /\ p \in holds["w"] /\ ~killed[p]
    /\ todo' = [todo EXCEPT ![p] = m]
    /\ at' = [at EXCEPT ![p] = "write"]
    /\ UNCHANGED <<data, nread, nwrite, open, freed, holds, n, killed, ncpu>>

\* wakeup(&p->nread), and sleep(), which drops p->lock.
WriterAsleep(p) == WakeReaders([at EXCEPT ![p] = "wsleep"])

\* pipewrite() stores what fits, then returns, fails or is about to sleep.
pipewrite(p) ==
    /\ at[p] = "write" /\ LockFree
    /\ LET k == IF Len(todo[p]) < Room THEN Len(todo[p]) ELSE Room
           slot(j) == Slot(nwrite + j - 1) IN
       /\ data' = [i \in 0 .. PIPESIZE - 1 |->
                     IF \E j \in 1 .. k : slot(j) = i
                     THEN todo[p][CHOOSE j \in 1 .. k : slot(j) = i] ELSE data[i]]
       /\ nwrite' = (nwrite + k) % Wrap
       /\ todo' = [todo EXCEPT ![p] = SubSeq(@, k + 1, Len(@))]
    /\ \/ /\ todo'[p] = <<>>
          /\ at' = WakeReaders([at EXCEPT ![p] = "user"])
       \/ /\ todo'[p] # <<>> /\ ("r" \notin open \/ killed[p])
          /\ at' = [at EXCEPT ![p] = "user"]
       \/ /\ todo'[p] # <<>> /\ "r" \in open /\ ~killed[p]
          /\ at' = IF ncpu = 1 THEN WriterAsleep(p) ELSE [at EXCEPT ![p] = "wtested"]
    /\ UNCHANGED <<nread, open, freed, holds, n, killed, ncpu>>

\* The end of pipewrite()'s loop where a kill() may have come before it.
WriterSleeps(p) ==
    /\ at[p] = "wtested"
    /\ at' = WriterAsleep(p)
    /\ UNCHANGED <<data, nread, nwrite, open, freed, holds, todo, n, killed, ncpu>>

Read(p, c) ==
    /\ at[p] = "user" /\ p \in holds["r"] /\ ~killed[p]
    /\ n' = [n EXCEPT ![p] = c]
    /\ at' = [at EXCEPT ![p] = "read"]
    /\ UNCHANGED <<data, nread, nwrite, open, freed, holds, todo, killed, ncpu>>

\* piperead() fails or is about to sleep on an empty pipe that may still be
\* written, and otherwise takes what there is, up to n bytes.
piperead(p) ==
    /\ at[p] = "read" /\ LockFree
    /\ \/ /\ Size = 0 /\ "w" \in open
          /\ at' = [at EXCEPT ![p] = IF killed[p] THEN "user"
                                     ELSE IF ncpu = 1 THEN "rsleep" ELSE "rtested"]
          /\ UNCHANGED nread
       \/ /\ Size # 0 \/ "w" \notin open
          /\ nread' = (nread + Taken(p)) % Wrap
          /\ at' = WakeWriters([at EXCEPT ![p] = "user"])
    /\ n' = [n EXCEPT ![p] = IF at'[p] = "user" THEN 0 ELSE @]
    /\ UNCHANGED <<data, nwrite, open, freed, holds, todo, killed, ncpu>>

\* piperead()'s sleep() where a kill() may have come before it.
ReaderSleeps(p) ==
    /\ at[p] = "rtested"
    /\ at' = [at EXCEPT ![p] = "rsleep"]
    /\ UNCHANGED <<data, nread, nwrite, open, freed, holds, todo, n, killed, ncpu>>

\* pipeclose() frees the page when no end is left open.
Unused(ends) == ends = {}

\* close(), or exit(), by p of its descriptor for end e; the last one calls
\* pipeclose().
Close(p, e) ==
    /\ at[p] = "user" /\ p \in holds[e]
    /\ holds' = [holds EXCEPT ![e] = @ \ {p}]
    /\ \/ /\ holds'[e] # {}
          /\ UNCHANGED <<open, freed, at>>
       \/ /\ holds'[e] = {} /\ LockFree
          /\ open' = open \ {e}
          /\ at' = IF e = "w" THEN WakeReaders(at) ELSE WakeWriters(at)
          /\ freed' = (freed \/ Unused(open'))
    /\ UNCHANGED <<data, nread, nwrite, todo, n, killed, ncpu>>

\* kill() marks p, which has not left the pipe, and makes it RUNNABLE if it
\* sleeps; a second kill() matters to a sleeper only.
Kill(p) ==
    /\ ~killed[p] \/ at[p] \in {"wsleep", "rsleep"}
    /\ \E e \in Ends : p \in holds[e]
    /\ killed' = [killed EXCEPT ![p] = TRUE]
    /\ at' = [at EXCEPT ![p] = CASE @ = "wsleep" -> "write"
                                 [] @ = "rsleep" -> "read"
                                 [] OTHER -> @]
    /\ UNCHANGED <<data, nread, nwrite, open, freed, holds, todo, n, ncpu>>

\* pipealloc() has succeeded, the processes have been forked, and some have
\* closed the end they do not use.
PipeInit ==
    /\ data = [i \in 0 .. PIPESIZE - 1 |-> InitByte]
    /\ nread = 0 /\ nwrite = 0
    /\ open = Ends /\ freed = FALSE
    /\ holds \in Sharing
    /\ at = [p \in Users |-> "user"]
    /\ todo = [p \in Users |-> <<>>]
    /\ n = [p \in Users |-> 0]
    /\ killed = [p \in Users |-> FALSE]
    /\ ncpu \in {1, 2}

\* What the kernel does by itself once p has made a call.
PipeStep(p) == pipewrite(p) \/ WriterSleeps(p) \/ piperead(p) \/ ReaderSleeps(p)

PipeNext ==
    \E p \in Users :
        \/ \E m \in Msgs : Write(p, m)
        \/ \E c \in Counts : Read(p, c)
        \/ \E e \in Ends : Close(p, e)
        \/ PipeStep(p) \/ Kill(p)

PipeSpec == PipeInit /\ [][PipeNext]_pivars

\* A thread that is RUNNABLE inside a call gets to run (Proc's RunnableRuns).
PipeFairness == \A p \in Users : WF_pivars(PipeStep(p))

-----------------------------------------------------------------------------
(* Properties                                                              *)

\* Every variable has its type, and the ring holds at most PIPESIZE bytes
\* although the counters wrap.
PipeTypeOK ==
    /\ data \in [0 .. PIPESIZE - 1 -> Bytes]
    /\ nread \in 0 .. Wrap - 1 /\ nwrite \in 0 .. Wrap - 1
    /\ open \subseteq Ends /\ freed \in BOOLEAN
    /\ holds \in [Ends -> SUBSET Users]
    /\ at \in [Users -> CallPCs]
    /\ todo \in [Users -> Seq(Bytes)]
    /\ n \in [Users -> Nat]
    /\ killed \in [Users -> BOOLEAN] /\ ncpu \in {1, 2}
    /\ Size <= PIPESIZE

\* The bytes a reader would get, oldest first.
Contents == [i \in 1 .. Size |-> data[Slot(nread + i - 1)]]

\* Bytes leave the pipe in the order in which they entered it: a step takes a
\* writer's next bytes to the tail, losing and reordering none, or removes
\* at the head no more bytes than a reader asked for.
Fifo ==
    [][\/ \E p \in Users : Contents' \o todo'[p] = Contents \o todo[p]
       \/ \E p \in Users : /\ at[p] = "read"
                           /\ \E k \in 0 .. n[p] : Contents' = SubSeq(Contents, k + 1, Len(Contents))
      ]_<<data, nread, nwrite>>

\* q was killed in the middle of a write, which then failed.
Cut(q) == killed[q] /\ at[q] = "user" /\ todo[q] # <<>>

\* Nobody sleeps on a condition that has come true: a sleeping writer faces a
\* full pipe that has a reader, a sleeping reader an empty pipe that has a
\* writer or one that a writer is about to wake it for, and on one CPU neither
\* has been killed.  The one exception is a pipe that a killed writer filled,
\* since pipewrite() then fails before its wakeup.
NoSleeperForgotten ==
    \A p \in Users :
        /\ at[p] = "wsleep" => Size = PIPESIZE /\ "r" \in open
        /\ at[p] = "rsleep" => /\ "w" \in open
                               /\ Size = 0 \/ \E q \in Users : Cut(q) \/ at[q] = "wtested"
        /\ at[p] \in {"wsleep", "rsleep"} /\ killed[p] => ncpu > 1

\* pipeclose() frees the page only when nobody can use it any more.
NoUseAfterFree ==
    freed => \A p \in Users : at[p] = "user" /\ \A e \in Ends : p \notin holds[e]

\* Nothing is left to wait for: nobody holds the other end of the pipe, or, on
\* one CPU, the process was killed.
Released(p) ==
    \/ killed[p] /\ ncpu = 1
    \/ at[p] \in {"write", "wsleep"} /\ "r" \notin open
    \/ at[p] \in {"read", "rsleep"} /\ "w" \notin open

\* A call of pipewrite() or piperead() returns once the other end is closed, and
\* on one CPU also once its process is killed, wherever in the call that was.
CallsEnd == \A p \in Users : at[p] # "user" /\ Released(p) ~> at[p] = "user"

\* What holds of a pipe in every state: the ring is within its bounds, nobody uses
\* a page that pipeclose() has freed, and nobody sleeps without a reason.
PipeInv == PipeTypeOK /\ NoUseAfterFree /\ NoSleeperForgotten
=============================================================================
