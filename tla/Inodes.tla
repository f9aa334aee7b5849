------------------------------- MODULE Inodes -------------------------------
(***************************************************************************)
(* Inodes, directories and open files of the xv6 kernel: the inode cache   *)
(* and path lookup of HW2/src/fs.c, the file table of file.c and the       *)
(* system calls of sysfile.c that use them.                                *)
(*                                                                         *)
(* A step is what icache.lock, ftable.lock or an inode's sleep lock        *)
(* protects from being seen half done: a critical section that takes no    *)
(* other sleep lock is one step, and a process that waits for a sleep lock *)
(* while it holds another does so between two steps.  What inodes contain  *)
(* besides directory entries is the subject of module FileBlocks, and the  *)
(* transactions around the calls that of module Log.                       *)
(***************************************************************************)
EXTENDS Integers, Sequences, FiniteSets, FiniteSetsExt, TLC

CONSTANTS
    Procs,
    NINODES,        \* inodes on the disk: 1 is the root directory
    NINODE,         \* entries of the inode cache
    NFILE,          \* entries of the file table
    NOFILE,         \* descriptors of a process
    Calls,          \* the system calls with path names that each process makes
    Ops,            \* the ones without: "close", "dup", "exit", "fork"
    MaxNlink,       \* bound: no link() is started on a disk with more links to an inode
    NoProc

ASSUME InodesAssumption ==
    /\ NINODES \in Nat \ {0} /\ NINODE \in Nat \ {0}
    /\ NFILE \in Nat /\ NOFILE \in Nat /\ MaxNlink \in Nat
    /\ NoProc \notin Procs

VARIABLES
    dinode,     \* the inodes on the disk, with the entries of directories
    ic,         \* icache.inode
    file,       \* ftable.file
    ofile,      \* descriptors: p->ofile
    cwd,        \* p->cwd, 0 once p has exited
    st,         \* where each process is in its call, and the call's locals
    panicked    \* the message of panic(), "" while the kernel runs

vars == <<dinode, ic, file, ofile, cwd, st, panicked>>

ROOTINO == 1
Inums == 1 .. NINODES
Slots == 1 .. NINODE
Files == 1 .. NFILE
Fds == 1 .. NOFILE

Idle ==
    [pc |-> "idle", op |-> "", el |-> <<>>, new |-> <<>>, abs |-> TRUE, par |-> FALSE,
     then |-> "", nx |-> 0, ip |-> 0, dp |-> 0, iq |-> 0, after |-> ""]

Goto(p, r) == st' = [st EXCEPT ![p] = r @@ @]
Done(p) == st' = [st EXCEPT ![p] = Idle]

\* iput(s) is the last thing the call does.
PutLast(p, s) == st' = [st EXCEPT ![p] = [Idle EXCEPT !.pc = "iput", !.iq = s, !.after = "done"]]

Panic(msg) ==
    /\ panicked' = msg
    /\ UNCHANGED <<dinode, ic, file, ofile, cwd, st>>

-----------------------------------------------------------------------------
(* The inode cache                                                         *)

SlotOf(i) == {s \in Slots : ic[s].ref > 0 /\ ic[s].inum = i}
Empty == {s \in Slots : ic[s].ref = 0}

\* The entry iget() returns for inode i, 0 when it panics.
IgetSlot(i) ==
    IF SlotOf(i) # {} THEN CHOOSE s \in SlotOf(i) : TRUE
    ELSE IF Empty # {} THEN Min(Empty) ELSE 0

IgetStale(c, i, s) ==
    [c EXCEPT ![s] = IF @.ref > 0 THEN [@ EXCEPT !.ref = @ + 1]
                     ELSE [@ EXCEPT !.inum = i, !.ref = 1]]

\* iget() in the cache c.
Iget(c, i, s) ==
    [c EXCEPT ![s] = IF @.ref > 0 THEN [@ EXCEPT !.ref = @ + 1]
                     ELSE [@ EXCEPT !.inum = i, !.ref = 1, !.valid = FALSE]]

Idup(c, s) == [c EXCEPT ![s].ref = @ + 1]

Unlocked(s) == ic[s].lock = NoProc

\* What ilock() makes of an entry: it reads the inode unless the entry is
\* valid.  The inode it reads has no type when it panics.
Loaded(s) ==
    IF ic[s].valid THEN ic[s]
    ELSE [ic[s] EXCEPT !.valid = TRUE, !.type = dinode[ic[s].inum].type,
                       !.nlink = dinode[ic[s].inum].nlink]
NoType(s) == Loaded(s).type = "none"

\* iupdate(), from the cache c.
Updated(c, s) ==
    [dinode EXCEPT ![c[s].inum].type = c[s].type, ![c[s].inum].nlink = c[s].nlink]

Blank == [inum |-> 0, ref |-> 0, valid |-> FALSE, lock |-> NoProc, type |-> "none", nlink |-> 0]

UnlinkedOnly(s) == ic[s].valid /\ ic[s].nlink = 0

LastUnlinked(s) == ic[s].valid /\ ic[s].nlink = 0 /\ ic[s].ref = 1

\* iput() up to releasesleep(): the last reference to an inode without links
\* frees it with its content.
IputLocked(p) ==
    LET s == st[p].iq IN
    /\ st[p].pc = "iput" /\ Unlocked(s)
    /\ IF LastUnlinked(s)
       THEN /\ ic' = [ic EXCEPT ![s].type = "none", ![s].valid = FALSE]
            /\ dinode' = [dinode EXCEPT ![ic[s].inum].type = "none",
                                        ![ic[s].inum].ents = <<>>]
       ELSE UNCHANGED <<ic, dinode>>
    /\ Goto(p, [pc |-> "unref"])
    /\ UNCHANGED <<file, ofile, cwd, panicked>>

\* The rest of iput(): the reference goes, and the caller continues.  An entry
\* without references keeps ip->valid; nothing reads its other fields.
IputUnref(p) ==
    LET s == st[p].iq IN
    /\ st[p].pc = "unref"
    /\ ic' = [ic EXCEPT ![s] = IF @.ref = 1 THEN [Blank EXCEPT !.valid = ic[s].valid]
                               ELSE [@ EXCEPT !.ref = @ - 1]]
    /\ CASE st[p].after = "done" -> Done(p)
         [] st[p].after = "linkput" -> PutLast(p, st[p].ip)
         [] st[p].after = "walk" /\ st[p].el = <<>> ->   \* namex() returns
              Goto(p, [pc |-> st[p].then, iq |-> 0, after |-> "", nx |-> 0, ip |-> st[p].nx])
         [] OTHER -> Goto(p, [pc |-> st[p].after, iq |-> 0, after |-> ""])
    /\ UNCHANGED <<dinode, file, ofile, cwd, panicked>>

-----------------------------------------------------------------------------
(* Path names                                                              *)

Entry(i, n) == dinode[i].ents[n]
HasEntry(i, n) == n \in DOMAIN dinode[i].ents

\* namex() starts at the root or at the current directory.
StartWalk(p, abs, r) ==
    LET s == IF abs THEN IgetSlot(ROOTINO) ELSE cwd[p] IN
    IF s = 0 THEN Panic("iget: no inodes")
    ELSE /\ ic' = IF abs THEN Iget(ic, ROOTINO, s) ELSE Idup(ic, s)
         /\ Goto(p, r @@ [pc |-> "walk", nx |-> s])
         /\ UNCHANGED <<dinode, file, ofile, cwd, panicked>>

\* iput(s), and namei() or nameiparent() returns no inode: all callers fail, link()
\* once it has taken its count back.
NotFound(p, s) ==
    IF st[p].then = "linkdir"
    THEN st' = [st EXCEPT ![p] = [Idle EXCEPT !.pc = "iput", !.ip = st[p].ip, !.iq = s,
                                              !.after = "linkbad"]]
    ELSE PutLast(p, s)

\* One round of namex()'s loop: iunlockput() of the directory follows, unless
\* it is the parent that the caller asked for.
Walk(p) ==
    LET s == st[p].nx
        l == Loaded(s)
        name == Head(st[p].el)
    IN
    /\ st[p].pc = "walk" /\ st[p].el # <<>> /\ Unlocked(s)
    /\ IF NoType(s) THEN Panic("ilock: no type")
       ELSE IF l.type = "dir" /\ st[p].par /\ Len(st[p].el) = 1
       THEN /\ ic' = [ic EXCEPT ![s] = l]
            /\ Goto(p, [pc |-> st[p].then, nx |-> 0, dp |-> s])
            /\ UNCHANGED <<dinode, file, ofile, cwd, panicked>>
       ELSE IF l.type # "dir" \/ ~HasEntry(l.inum, name)
       THEN /\ ic' = [ic EXCEPT ![s] = l]
            /\ NotFound(p, s)
            /\ UNCHANGED <<dinode, file, ofile, cwd, panicked>>
       ELSE LET i == Entry(l.inum, name)
                t == IgetSlot(i) IN
            IF t = 0 THEN Panic("iget: no inodes")
            ELSE /\ ic' = Iget([ic EXCEPT ![s] = l], i, t)
                 /\ Goto(p, [pc |-> "iput", nx |-> t, iq |-> s, el |-> Tail(st[p].el),
                              after |-> "walk"])
                 /\ UNCHANGED <<dinode, file, ofile, cwd, panicked>>

-----------------------------------------------------------------------------
(* link()                                                                  *)

\* A link is counted before its entry exists, under the inode's own lock.
LinkCount(p) ==
    LET s == st[p].ip
        l == Loaded(s) IN
    /\ st[p].pc = "link" /\ Unlocked(s)
    /\ IF NoType(s) THEN Panic("ilock: no type")
       ELSE IF l.type = "dir"
       THEN /\ ic' = [ic EXCEPT ![s] = l]
            /\ PutLast(p, s)
            /\ UNCHANGED <<dinode, file, ofile, cwd, panicked>>
       ELSE LET c == [ic EXCEPT ![s] = [l EXCEPT !.nlink = @ + 1]] IN
            /\ ic' = c /\ dinode' = Updated(c, s)
            /\ Goto(p, [pc |-> "linknew"])
            /\ UNCHANGED <<file, ofile, cwd, panicked>>

LinkNew(p) ==
    /\ st[p].pc = "linknew"
    /\ StartWalk(p, st[p].abs, [el |-> st[p].new, par |-> TRUE, then |-> "linkdir"])

\* dirlink() of the new name.  A name that exists is looked up, and put while
\* the directory is locked.
LinkEntry(p) ==
    LET d == st[p].dp
        l == Loaded(d)
        name == Head(st[p].el)
        i == ic[st[p].ip].inum
        t == IgetSlot(Entry(l.inum, name))
    IN
    /\ st[p].pc = "linkdir" /\ Unlocked(d)
    /\ IF NoType(d) THEN Panic("ilock: no type")
       ELSE IF ~HasEntry(l.inum, name)
       THEN /\ ic' = [ic EXCEPT ![d] = l]
            /\ dinode' = [dinode EXCEPT ![l.inum].ents = (name :> i) @@ @]
            /\ Goto(p, [pc |-> "iput", dp |-> 0, iq |-> d, after |-> "linkput"])
            /\ UNCHANGED <<file, ofile, cwd, panicked>>
       ELSE IF t = 0 THEN Panic("iget: no inodes")
       ELSE /\ ic' = Iget([ic EXCEPT ![d] = [l EXCEPT !.lock = p]], Entry(l.inum, name), t)
            /\ Goto(p, [pc |-> "iput", iq |-> t, after |-> "linkdirbad"])
            /\ UNCHANGED <<dinode, file, ofile, cwd, panicked>>

\* iunlockput(dp) after a dirlink() that failed.
LinkPut(p) ==
    /\ st[p].pc = "linkdirbad"
    /\ ic' = [ic EXCEPT ![st[p].dp].lock = NoProc]
    /\ Goto(p, [pc |-> "iput", dp |-> 0, iq |-> st[p].dp, after |-> "linkbad"])
    /\ UNCHANGED <<dinode, file, ofile, cwd, panicked>>

\* bad: the count that was made in advance is taken back.
LinkBad(p) ==
    LET s == st[p].ip
        c == [ic EXCEPT ![s] = [Loaded(s) EXCEPT !.nlink = @ - 1]] IN
    /\ st[p].pc = "linkbad" /\ Unlocked(s)
    /\ IF NoType(s) THEN Panic("ilock: no type")
       ELSE /\ ic' = c /\ dinode' = Updated(c, s)
            /\ PutLast(p, s)
            /\ UNCHANGED <<file, ofile, cwd, panicked>>

-----------------------------------------------------------------------------
(* unlink()                                                                *)

\* The parent stays locked while unlink() waits for the inode.
UnlinkLookup(p) ==
    LET d == st[p].dp
        l == Loaded(d)
        name == Head(st[p].el)
        t == IgetSlot(Entry(l.inum, name))
    IN
    /\ st[p].pc = "unlink" /\ Unlocked(d)
    /\ IF NoType(d) THEN Panic("ilock: no type")
       ELSE IF name \in {".", ".."} \/ ~HasEntry(l.inum, name)
       THEN /\ ic' = [ic EXCEPT ![d] = l]
            /\ PutLast(p, d)
            /\ UNCHANGED <<dinode, file, ofile, cwd, panicked>>
       ELSE IF t = 0 THEN Panic("iget: no inodes")
       ELSE /\ ic' = Iget([ic EXCEPT ![d] = [l EXCEPT !.lock = p]], Entry(l.inum, name), t)
            /\ Goto(p, [pc |-> "unlinkino", ip |-> t])
            /\ UNCHANGED <<dinode, file, ofile, cwd, panicked>>

isdirempty(i) == DOMAIN dinode[i].ents \subseteq {".", ".."}

\* With both locked: the entry goes, then iunlockput(dp) with ip still locked.
UnlinkEntry(p) ==
    LET s == st[p].ip
        d == st[p].dp
        l == Loaded(s)
        di == ic[d].inum
        name == Head(st[p].el)
        c == [ic EXCEPT ![s] = [l EXCEPT !.lock = p],
                        ![d] = [@ EXCEPT !.lock = NoProc,
                                         !.nlink = IF l.type = "dir" THEN @ - 1 ELSE @]]
    IN
    /\ st[p].pc = "unlinkino" /\ Unlocked(s)
    /\ IF NoType(s) THEN Panic("ilock: no type")
       ELSE IF l.nlink < 1 THEN Panic("unlink: nlink < 1")
       ELSE IF l.type = "dir" /\ ~isdirempty(l.inum)
       THEN /\ ic' = [ic EXCEPT ![s] = l]
            /\ Goto(p, [pc |-> "iput", ip |-> 0, iq |-> s, after |-> "unlinkbad"])
            /\ UNCHANGED <<dinode, file, ofile, cwd, panicked>>
       ELSE /\ ic' = c
            /\ dinode' = [Updated(c, d) EXCEPT ![di].ents =
                              [n \in DOMAIN @ \ {name} |-> @[n]]]
            /\ Goto(p, [pc |-> "iput", dp |-> 0, iq |-> d, after |-> "unlinkdec"])
            /\ UNCHANGED <<file, ofile, cwd, panicked>>

\* iunlockput(dp) on the failure path.
UnlinkBad(p) ==
    /\ st[p].pc = "unlinkbad"
    /\ ic' = [ic EXCEPT ![st[p].dp].lock = NoProc]
    /\ PutLast(p, st[p].dp)
    /\ UNCHANGED <<dinode, file, ofile, cwd, panicked>>

UnlinkCount(p) ==
    LET s == st[p].ip
        c == [ic EXCEPT ![s] = [@ EXCEPT !.nlink = @ - 1, !.lock = NoProc]] IN
    /\ st[p].pc = "unlinkdec"
    /\ ic' = c /\ dinode' = Updated(c, s)
    /\ PutLast(p, s)
    /\ UNCHANGED <<file, ofile, cwd, panicked>>

-----------------------------------------------------------------------------
(* create(), for open(O_CREATE), mkdir() and mknod()                       *)

TypeOf(op) == CASE op = "mkdir" -> "dir" [] op = "mknod" -> "dev" [] OTHER -> "file"

FreeInums == {i \in Inums : dinode[i].type = "none"}

\* A new inode is allocated, filled in and entered with the parent locked, and
\* is itself locked when iunlockput(dp) follows; an old one is locked after it.
Create(p) ==
    LET d == st[p].dp
        l == Loaded(d)
        name == Head(st[p].el)
        type == TypeOf(st[p].op)
        i == IF HasEntry(l.inum, name) THEN Entry(l.inum, name) ELSE Min(FreeInums)
        t == IgetSlot(i)
        dots == IF type = "dir" THEN ("." :> i) @@ (".." :> l.inum) ELSE <<>>
        dlink == l.nlink + IF type = "dir" THEN 1 ELSE 0
        new == [inum |-> i, ref |-> 0, valid |-> TRUE, lock |-> p, type |-> type, nlink |-> 1]
    IN
    /\ st[p].pc = "create" /\ Unlocked(d)
    /\ IF NoType(d) THEN Panic("ilock: no type")
       ELSE IF ~HasEntry(l.inum, name) /\ FreeInums = {} THEN Panic("ialloc: no inodes")
       ELSE IF t = 0 THEN Panic("iget: no inodes")
       ELSE IF HasEntry(l.inum, name)
       THEN /\ ic' = Iget([ic EXCEPT ![d] = l], i, t)
            /\ Goto(p, [pc |-> "iput", ip |-> t, dp |-> 0, iq |-> d, after |-> "exists"])
            /\ UNCHANGED <<dinode, file, ofile, cwd, panicked>>
       ELSE /\ Unlocked(t)
            /\ ic' = LET c == Iget([ic EXCEPT ![d] = [l EXCEPT !.nlink = dlink]], i, t)
                     IN [c EXCEPT ![t] = [new EXCEPT !.ref = c[t].ref]]
            /\ dinode' = [dinode EXCEPT ![i] = [type |-> type, nlink |-> 1, ents |-> dots],
                                        ![l.inum].nlink = dlink,
                                        ![l.inum].ents = (name :> i) @@ @]
            /\ Goto(p, [pc |-> "iput", ip |-> t, dp |-> 0, iq |-> d, after |-> "created"])
            /\ UNCHANGED <<file, ofile, cwd, panicked>>

\* The name existed: only a file may be opened with O_CREATE.
CreateExists(p) ==
    LET s == st[p].ip
        l == Loaded(s) IN
    /\ st[p].pc = "exists" /\ Unlocked(s)
    /\ IF NoType(s) THEN Panic("ilock: no type")
       ELSE IF st[p].op = "create" /\ l.type = "file"
       THEN /\ ic' = [ic EXCEPT ![s] = [l EXCEPT !.lock = p]]
            /\ Goto(p, [pc |-> "created"])
            /\ UNCHANGED <<dinode, file, ofile, cwd, panicked>>
       ELSE /\ ic' = [ic EXCEPT ![s] = l]
            /\ PutLast(p, s)
            /\ UNCHANGED <<dinode, file, ofile, cwd, panicked>>

\* mkdir() and mknod() drop what create() returns.
Created(p) ==
    /\ st[p].pc = "created" /\ st[p].op # "create"
    /\ ic' = [ic EXCEPT ![st[p].ip].lock = NoProc]
    /\ PutLast(p, st[p].ip)
    /\ UNCHANGED <<dinode, file, ofile, cwd, panicked>>

-----------------------------------------------------------------------------
(* The file table, open(), dup(), close() and chdir()                      *)

\* p makes a system call without a path name.
Ready(p, op) == st[p].pc = "idle" /\ cwd[p] # 0 /\ op \in Ops[p]

FreeFiles == {f \in Files : file[f].ref = 0}
FreeFds(p) == {fd \in Fds : ofile[p][fd] = 0}

\* The rest of open(), on the locked entry l of cache slot s: filealloc() and
\* fdalloc(), or give everything back.
OpenFile(p, s, l) ==
    LET f == Min(FreeFiles)
        fd == Min(FreeFds(p)) IN
    /\ ic' = [ic EXCEPT ![s] = [l EXCEPT !.lock = NoProc]]
    /\ IF FreeFiles = {} \/ FreeFds(p) = {}
       THEN /\ PutLast(p, s)
            /\ UNCHANGED <<file, ofile>>
       ELSE /\ file' = [file EXCEPT ![f] = [ref |-> 1, ip |-> s]]
            /\ ofile' = [ofile EXCEPT ![p][fd] = f]
            /\ Done(p)
    /\ UNCHANGED <<dinode, cwd, panicked>>

\* sys_open() after create(), which returns a locked inode, or after namei().
Open(p) ==
    LET s == st[p].ip
        l == Loaded(s) IN
    \/ /\ st[p].pc = "created" /\ st[p].op = "create"
       /\ OpenFile(p, s, ic[s])
    \/ /\ st[p].pc = "open" /\ Unlocked(s)
       /\ IF NoType(s) THEN Panic("ilock: no type")
          ELSE IF l.type = "dir" /\ st[p].op = "openrw"
          THEN /\ ic' = [ic EXCEPT ![s] = l]
               /\ PutLast(p, s)
               /\ UNCHANGED <<dinode, file, ofile, cwd, panicked>>
          ELSE OpenFile(p, s, l)

\* fileclose() of descriptor fd: the last one for the file puts its inode.
CloseFd(p, fd, next) ==
    LET f == ofile[p][fd] IN
    /\ f # 0
    /\ ofile' = [ofile EXCEPT ![p][fd] = 0]
    /\ IF file[f].ref > 1
       THEN /\ file' = [file EXCEPT ![f].ref = @ - 1]
            /\ IF next = "done" THEN Done(p) ELSE Goto(p, [pc |-> next])
       ELSE /\ file' = [file EXCEPT ![f] = [ref |-> 0, ip |-> 0]]
            /\ Goto(p, [pc |-> "iput", iq |-> file[f].ip, after |-> next])
    /\ UNCHANGED <<dinode, ic, cwd, panicked>>

Close(p) ==
    /\ Ready(p, "close")
    /\ \E fd \in Fds : CloseFd(p, fd, "done")

\* dup(): a second descriptor for the same file.
Dup(p) ==
    /\ Ready(p, "dup") /\ FreeFds(p) # {}
    /\ \E fd \in Fds :
         /\ ofile[p][fd] # 0
         /\ ofile' = [ofile EXCEPT ![p][Min(FreeFds(p))] = ofile[p][fd]]
         /\ file' = [file EXCEPT ![ofile[p][fd]].ref = @ + 1]
    /\ UNCHANGED <<dinode, ic, cwd, st, panicked>>

Chdir(p) ==
    LET s == st[p].ip
        l == Loaded(s) IN
    /\ st[p].pc = "chdir" /\ Unlocked(s)
    /\ IF NoType(s) THEN Panic("ilock: no type")
       ELSE /\ ic' = [ic EXCEPT ![s] = l]
            /\ IF l.type # "dir"
               THEN /\ PutLast(p, s)
                    /\ UNCHANGED cwd
               ELSE /\ PutLast(p, cwd[p])
                    /\ cwd' = [cwd EXCEPT ![p] = s]
            /\ UNCHANGED <<dinode, file, ofile, panicked>>

\* exit() closes every descriptor, then puts the current directory.
Exit(p) ==
    \/ /\ Ready(p, "exit")
       /\ Goto(p, [pc |-> "exit"])
       /\ UNCHANGED <<dinode, ic, file, ofile, cwd, panicked>>
    \/ /\ st[p].pc = "exit"
       /\ IF FreeFds(p) # Fds
          THEN CloseFd(p, Min(Fds \ FreeFds(p)), "exit")
          ELSE /\ cwd' = [cwd EXCEPT ![p] = 0]
               /\ PutLast(p, cwd[p])
               /\ UNCHANGED <<dinode, ic, file, ofile, panicked>>

\* fork() duplicates every descriptor and the current directory.
Fork(p, q) ==
    /\ Ready(p, "fork")
    /\ st[q].pc = "idle" /\ cwd[q] = 0
    /\ ofile' = [ofile EXCEPT ![q] = ofile[p]]
    /\ file' = [f \in Files |->
                  [file[f] EXCEPT !.ref = @ + Cardinality({fd \in Fds : ofile[p][fd] = f})]]
    /\ cwd' = [cwd EXCEPT ![q] = cwd[p]]
    /\ ic' = Idup(ic, cwd[p])
    /\ UNCHANGED <<dinode, st, panicked>>

-----------------------------------------------------------------------------
Then(op) == CASE op \in {"create", "mkdir", "mknod"} -> "create"
              [] op \in {"open", "openrw"} -> "open"
              [] OTHER -> op

\* A system call that takes path names enters namex().
Call(p, c) ==
    /\ st[p].pc = "idle" /\ cwd[p] # 0
    /\ c.op = "link" => \A i \in Inums : dinode[i].nlink <= MaxNlink
    /\ StartWalk(p, c.abs, [op |-> c.op, el |-> c.path, new |-> c.new, abs |-> c.abs,
                            then |-> Then(c.op),
                            par |-> c.op \in {"create", "mkdir", "mknod", "unlink"}])

Step(p) ==
    \/ Walk(p) \/ IputLocked(p) \/ IputUnref(p)
    \/ LinkCount(p) \/ LinkNew(p) \/ LinkEntry(p) \/ LinkPut(p) \/ LinkBad(p)
    \/ UnlinkLookup(p) \/ UnlinkEntry(p) \/ UnlinkBad(p) \/ UnlinkCount(p)
    \/ Create(p) \/ CreateExists(p) \/ Created(p) \/ Open(p) \/ Chdir(p)

\* The disk holds the root directory, and every process starts in it.
Init ==
    /\ dinode = [i \in Inums |->
                   IF i = ROOTINO THEN [type |-> "dir", nlink |-> 1,
                                        ents |-> ("." :> ROOTINO) @@ (".." :> ROOTINO)]
                   ELSE [type |-> "none", nlink |-> 0, ents |-> <<>>]]
    /\ ic = [s \in Slots |->
               IF s = 1 THEN [Blank EXCEPT !.inum = ROOTINO, !.ref = Cardinality(Procs)]
               ELSE Blank]
    /\ file = [f \in Files |-> [ref |-> 0, ip |-> 0]]
    /\ ofile = [p \in Procs |-> [fd \in Fds |-> 0]]
    /\ cwd = [p \in Procs |-> 1]
    /\ st = [p \in Procs |-> Idle]
    /\ panicked = ""

Next ==
    /\ panicked = ""
    /\ \E p \in Procs :
         \/ \E c \in Calls[p] : Call(p, c)
         \/ Step(p)
         \/ Close(p) \/ Dup(p) \/ Exit(p)
         \/ \E q \in Procs : Fork(p, q)

Spec == Init /\ [][Next]_vars

-----------------------------------------------------------------------------
(* Properties                                                              *)

Types == {"none", "file", "dir", "dev"}

\* The tables hold what their declarations in fs.h, file.h and proc.h say.
TypeOK ==
    /\ \A i \in Inums : dinode[i].type \in Types /\ dinode[i].nlink \in Nat
                        /\ \A n \in DOMAIN dinode[i].ents : Entry(i, n) \in Inums
    /\ \A s \in Slots : ic[s].inum \in 0 .. NINODES /\ ic[s].ref \in Nat
                        /\ ic[s].lock \in Procs \cup {NoProc} /\ ic[s].type \in Types
    /\ \A f \in Files : file[f].ref \in Nat /\ file[f].ip \in 0 .. NINODE
    /\ \A p \in Procs : ofile[p] \in [Fds -> 0 .. NFILE] /\ cwd[p] \in 0 .. NINODE

Pointers(s) ==
    {<<f, "file">> : f \in {f \in Files : file[f].ip = s}}
    \cup {<<p, "cwd">> : p \in {p \in Procs : cwd[p] = s}}
    \cup {<<p, r>> \in Procs \X {"nx", "ip", "dp", "iq"} : st[p][r] = s}

\* "ip->ref tracks the number of in-memory pointers to the entry" (fs.c), on
\* every path through the calls, the failing ones included; and f->ref counts
\* the descriptors of the file (file.c).
RefExact ==
    /\ \A s \in Slots : ic[s].ref = Cardinality(Pointers(s))
    /\ \A f \in Files :
         file[f].ref = Cardinality({<<p, fd>> \in Procs \X Fds : ofile[p][fd] = f})

\* The cache holds one entry per inode (iget()), and a valid entry nobody has
\* locked agrees with the disk, also after the inode was freed and allocated again.
CacheCoherent ==
    \A s, t \in {s \in Slots : ic[s].ref > 0} :
       /\ ic[s].inum = ic[t].inum => s = t
       /\ ic[s].valid /\ Unlocked(s)
            => ic[s].type = dinode[ic[s].inum].type /\ ic[s].nlink = dinode[ic[s].inum].nlink

Dirs == {i \in Inums : dinode[i].type = "dir"}
Naming(i) == {<<d, n>> \in Dirs \X UNION {DOMAIN dinode[d].ents : d \in Dirs} :
                HasEntry(d, n) /\ n # "." /\ Entry(d, n) = i /\ (d # ROOTINO \/ n # "..")}

\* A name leads to an inode that exists: while entries name an inode it is
\* allocated and its link count covers them, whatever calls are under way.
\* (".." of a directory that was itself removed is not counted by unlink().)
EntriesAllocated ==
    \A i \in Inums :
      LET names == {e \in Naming(i) : e[2] # ".." \/ dinode[e[1]].nlink > 0} IN
      names # {} => dinode[i].type # "none" /\ dinode[i].nlink + (IF i = ROOTINO THEN 1 ELSE 0)
                                               >= Cardinality(names)

\* A file that is open, or a current directory, is not freed when its last name
\* goes: iput() frees only what nothing else refers to.
OpenStaysAllocated ==
    /\ \A f \in Files : file[f].ref > 0 => dinode[ic[file[f].ip].inum].type # "none"
    /\ \A p \in Procs : cwd[p] # 0 => dinode[ic[cwd[p]].inum].type = "dir"

\* The kernel panics only for want of an inode or of a cache entry: never
\* because ilock() meets a freed inode or unlink() a count of zero.
PanicOnlyWhenFull ==
    panicked # "" => \/ panicked = "ialloc: no inodes" /\ FreeInums = {}
                     \/ panicked = "iget: no inodes" /\ Empty = {}

\* What a process waits for: iput() and ilock() sleep until the lock is free.
WaitsFor(p) ==
    CASE st[p].pc = "iput" -> st[p].iq
      [] st[p].pc = "walk" -> st[p].nx
      [] st[p].pc \in {"link", "linkbad", "unlinkino", "exists", "open", "chdir"} -> st[p].ip
      [] st[p].pc \in {"linkdir", "unlink", "create"} -> st[p].dp
      [] OTHER -> 0

\* "test concurrent create/link/unlink of the same file" (usertests.c): calls on
\* the same names do not wait for each other's inode locks for ever.
NoLockCycle ==
    ~ \E p, q \in Procs :
         /\ WaitsFor(p) # 0 /\ ic[WaitsFor(p)].lock = q
         /\ WaitsFor(q) # 0 /\ ic[WaitsFor(q)].lock = p

\* The inode cache is exact: its counts are those of the pointers that exist, and
\* what it holds is what is on disk.
CacheExact == TypeOK /\ RefExact /\ CacheCoherent

\* What a name, an open file or a current directory leads to is allocated, so that
\* ilock() and unlink() have no reason to panic.
LiveInodesAllocated == EntriesAllocated /\ OpenStaysAllocated /\ PanicOnlyWhenFull
=============================================================================
