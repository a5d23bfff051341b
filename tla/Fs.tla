--------------------------------- MODULE Fs ---------------------------------
(***************************************************************************)
(* The file system calls of sysfile.c and file.c, path lookup of fs.c, the *)
(* inode references of exit and fork, and crashes.  Processes are switched *)
(* where a call may sleep, at every ilock and begin_trans, and between two *)
(* elements of a path; what lies between is one step.  A process has a     *)
(* current directory and at most one open file (NOFILE = 1).               *)
(***************************************************************************)
EXTENDS Inode

CONSTANTS Procs,
          Calls   \* per process, the calls it makes: [op, path, new, n]; a
                  \* path is [abs |-> starts with '/', elems |-> elements]

VARIABLES fs,   \* the state record of module Inode
          proc  \* per process: where it is in which call

vars == <<fs, proc>>

NoPath == [abs |-> FALSE, elems |-> << >>]

NoFile == [ip |-> 0, off |-> 0, writable |-> FALSE]

\* Outside any call: current directory and open file.
User(cwd, f) ==
  [pc |-> "user", op |-> "none", path |-> NoPath, new |-> NoPath, dp |-> 0,
   ip |-> 0, n |-> 0, cwd |-> cwd, f |-> f]
Dead == [User(0, NoFile) EXCEPT !.pc = "dead"]

\* The type create gives to a new inode.
TypeFor == [create |-> "file", mkdir |-> "dir", mknod |-> "dev"]

\* mkfs rounds the size of the root directory, two entries here, up to a block.
RootSize == (2 \div BSIZE + 1) * BSIZE

(* What a boot finds: mkfs writes a root directory with "." and "..";      *)
(* userinit looks up "/" for the first process.                            *)
EmptyDisk ==
  LET root == [type |-> "dir", nlink |-> 1, size |-> RootSize,
               addrs |-> [NoAddrs EXCEPT ![0] = 1]]
  IN  [dip  |-> [i \in Inums |-> IF i = ROOTINO THEN root ELSE FreeInode],
       used |-> {1},
       data |-> [b \in Blocks |->
          IF b = 1 THEN [ZeroBlock EXCEPT ![0] = [nm |-> ".", no |-> ROOTINO],
                                          ![1] = [nm |-> "..", no |-> ROOTINO]]
          ELSE ZeroBlock]]

Boot(disk) ==
  [dip |-> disk.dip, used |-> disk.used, data |-> disk.data, home |-> disk,
   ip |-> [i \in Inums |-> FreeInode], busy |-> {}, valid |-> {},
   ref |-> [i \in Inums |-> IF i = ROOTINO THEN 1 ELSE 0],
   lh |-> {}, trans |-> FALSE, panic |-> "", r |-> 0]

FirstProc == CHOOSE p \in Procs : TRUE
BootProcs ==
  [p \in Procs |-> IF p = FirstProc THEN User(ROOTINO, NoFile) ELSE Dead]

Init == /\ fs = Boot(EmptyDisk)
        /\ proc = BootProcs

-----------------------------------------------------------------------------
(* One step of process p: the file system state becomes S, the process P.  *)
Step(p, S, P) ==
  /\ fs' = [S EXCEPT !.r = 0]
  /\ proc' = [proc EXCEPT ![p] = P]

Return(p, S) == Step(p, S, User(proc[p].cwd, proc[p].f))

\* The kernel stops at the first panic.
At(p, pc) == fs.panic = "" /\ proc[p].pc = pc
Found(p, ops) == At(p, "found") /\ proc[p].op \in ops

\* Sleeping in ilock ends when the inode is not busy.
Free(i) == i \notin fs.busy

\* One turn of namex's loop, in which process P of state S locks the inode dp
\* it has come to; a call that has nothing to undo returns when it fails.
Turn(p, S, P) ==
  LET dp == P.dp
      last == P.pc = "nameiparent" /\ Len(P.path.elems) = 1
      rest == Tail(P.path.elems)
      T == ilock(S, dp)
      L == dirlookup(T, dp, Head(P.path.elems))
      Fail(U) == IF P.op \in DOMAIN TypeFor \/ P.ip # 0
                 THEN Step(p, U, [P EXCEPT !.pc = "found", !.dp = 0])
                 ELSE Return(p, U)
  IN  /\ Free(dp)
      /\ IF T.ip[dp].type # "dir" THEN Fail(iunlockput(T, dp))
         ELSE IF last THEN Step(p, iunlock(T, dp), [P EXCEPT !.pc = "found"])
         ELSE IF L.r = 0 THEN Fail(iunlockput(L, dp))
         ELSE Step(p, iunlockput(L, dp),
                   [P EXCEPT !.dp = L.r, !.path.elems = rest,
                             !.pc = IF rest = << >> THEN "found" ELSE @])

\* A lookup starts when the first ilock succeeds: until then the process has
\* only one more reference to its own or the root directory.
namex_start(p, S, path, P) ==
  LET T == IF path.abs THEN iget(S, ROOTINO) ELSE idup(S, P.cwd)
  IN  Turn(p, T, [P EXCEPT !.dp = T.r, !.path = [path EXCEPT !.abs = FALSE]])

namex(p) ==
  /\ At(p, "namei") \/ At(p, "nameiparent")
  /\ Turn(p, fs, proc[p])

-----------------------------------------------------------------------------
(* open, chdir, exec: the inode is looked up outside any transaction *)

Lookup(p, c, pc) ==
  /\ At(p, "user")
  /\ namex_start(p, fs, c.path,
                 [proc[p] EXCEPT !.op = c.op, !.new = c.new, !.pc = pc])

\* filealloc and fdalloc fail when the one descriptor is taken.
OpenFile(p, S, ip) ==
  IF proc[p].f # NoFile THEN Return(p, iunlockput(S, ip))
  ELSE Step(p, iunlock(S, ip),
            User(proc[p].cwd, [ip |-> ip, off |-> 0,
                               writable |-> proc[p].op # "open"]))

sys_open(p) ==
  LET ip == proc[p].dp
      S == ilock(fs, ip)
  IN  /\ Found(p, {"open", "openw"}) /\ Free(ip)
      /\ IF S.ip[ip].type = "dir" /\ proc[p].op = "openw"
         THEN Return(p, iunlockput(S, ip))
         ELSE OpenFile(p, S, ip)

sys_chdir(p) ==
  LET ip == proc[p].dp
      S == ilock(fs, ip)
  IN  /\ Found(p, {"chdir"}) /\ Free(ip)
      /\ IF S.ip[ip].type # "dir" THEN Return(p, iunlockput(S, ip))
         ELSE Step(p, iput(iunlock(S, ip), proc[p].cwd), User(ip, proc[p].f))

\* Loading the program reads the inode and changes none.
exec(p) ==
  LET ip == proc[p].dp IN
  /\ Found(p, {"exec"}) /\ Free(ip)
  /\ Return(p, iunlockput(ilock(fs, ip), ip))

-----------------------------------------------------------------------------
(* Transactions.  A process in one waits for no other process: inodes stay *)
(* locked from one step to the next only inside transactions.              *)

\* Mutant: the link count is not raised.
sys_link_uncounted(p) ==
  LET P == proc[p]
      ip == P.dp
      S == ilock(begin_trans(fs), ip)
      T == iunlock(iupdate(S, ip), ip)
  IN  /\ Found(p, {"link"}) /\ P.ip = 0
      /\ ~fs.trans /\ Free(ip)
      /\ IF S.ip[ip].type = "dir"
         THEN Return(p, commit_trans(iunlockput(S, ip)))
         ELSE namex_start(p, T, P.new, [P EXCEPT !.pc = "nameiparent",
                                                 !.ip = ip, !.new = NoPath])

sys_link(p) ==
  LET P == proc[p]
      ip == P.dp
      S == ilock(begin_trans(fs), ip)
      T == iunlock(iupdate([S EXCEPT !.ip[ip].nlink = @ + 1], ip), ip)
  IN  /\ Found(p, {"link"}) /\ P.ip = 0
      /\ ~fs.trans /\ Free(ip)
      /\ IF S.ip[ip].type = "dir"
         THEN Return(p, commit_trans(iunlockput(S, ip)))
         ELSE namex_start(p, T, P.new, [P EXCEPT !.pc = "nameiparent",
                                                 !.ip = ip, !.new = NoPath])

link_dir(p) ==
  LET P == proc[p]
      ip == P.ip
      S == ilock(fs, P.dp)
      L == dirlink(S, P.dp, P.path.elems[1], ip)
      T == iunlockput(L, P.dp)
      bad(U) == LET B == ilock(U, ip)
                    C == iupdate([B EXCEPT !.ip[ip].nlink = @ - 1], ip)
                IN  commit_trans(iunlockput(C, ip))
  IN  /\ Found(p, {"link"}) /\ ip # 0
      /\ IF P.dp = 0 THEN Free(ip) /\ Return(p, bad(fs))
         ELSE /\ Free(P.dp)
              /\ IF L.r < 0 THEN Free(ip) /\ Return(p, bad(T))
                 ELSE Return(p, commit_trans(iput(T, ip)))

\* Mutant: no test for "." and "..".
sys_unlink_dot(p) ==
  LET P == proc[p]
      dp == P.dp
      S == ilock(begin_trans(fs), dp)
      L == dirlookup(S, dp, P.path.elems[1])
  IN  /\ Found(p, {"unlink"})
      /\ ~fs.trans /\ Free(dp)
      /\ IF L.r = 0 THEN Return(p, commit_trans(iunlockput(L, dp)))
         ELSE Step(p, L, [P EXCEPT !.pc = "unlink", !.ip = L.r])

sys_unlink(p) ==
  LET P == proc[p]
      dp == P.dp
      name == P.path.elems[1]
      S == ilock(begin_trans(fs), dp)
      L == dirlookup(S, dp, name)
  IN  /\ Found(p, {"unlink"})
      /\ ~fs.trans /\ Free(dp)
      /\ IF name \in {".", ".."} \/ L.r = 0
         THEN Return(p, commit_trans(iunlockput(S, dp)))
         ELSE Step(p, L, [P EXCEPT !.pc = "unlink", !.ip = L.r])

\* The directory stays locked while unlink waits for the inode.
unlink_inode(p) ==
  LET P == proc[p]
      dp == P.dp
      ip == P.ip
      S == ilock(fs, ip)
      dir == S.ip[ip].type = "dir"
      W == writei(S, dp, MinOf(Matches(S, dp, P.path.elems[1])), 1, Zero)
      D == IF dir THEN iupdate([W EXCEPT !.ip[dp].nlink = @ - 1], dp) ELSE W
      U == iunlockput(D, dp)
      V == iunlockput(iupdate([U EXCEPT !.ip[ip].nlink = @ - 1], ip), ip)
  IN  /\ At(p, "unlink") /\ Free(ip)
      /\ IF S.ip[ip].nlink < 1 THEN Return(p, Panic(S, "unlink: nlink < 1"))
         ELSE IF dir /\ ~isdirempty(S, ip)
         THEN Return(p, commit_trans(iunlockput(iunlockput(S, ip), dp)))
         ELSE IF W.r # 1 THEN Return(p, Panic(W, "unlink: writei"))
         ELSE Return(p, commit_trans(V))

\* After create: open keeps the inode, mkdir and mknod drop it.
Created(p, S, ip) ==
  IF proc[p].op = "create" THEN OpenFile(p, commit_trans(S), ip)
  ELSE Return(p, commit_trans(iunlockput(S, ip)))

\* sys_open with O_CREATE, sys_mkdir and sys_mknod.
CreateCall(p, c) ==
  /\ At(p, "user") /\ ~fs.trans
  /\ namex_start(p, begin_trans(fs), c.path,
                 [proc[p] EXCEPT !.op = c.op, !.pc = "nameiparent"])

create(p) ==
  LET P == proc[p]
      S == ilock(fs, P.dp)
      L == dirlookup(S, P.dp, P.path.elems[1])
      A == ialloc(L, TypeFor[P.op])
      O == ilock(iunlockput(L, P.dp), L.r)
  IN  /\ Found(p, DOMAIN TypeFor)
      /\ IF P.dp = 0 THEN Return(p, commit_trans(fs))
         ELSE /\ Free(P.dp)
              /\ IF L.r = 0
                 THEN Step(p, A, [P EXCEPT !.pc = "new", !.ip = A.r])
                 ELSE /\ L.r = P.dp \/ Free(L.r)
                      /\ IF P.op = "create" /\ O.ip[L.r].type = "file"
                         THEN Created(p, O, L.r)
                         ELSE Return(p, commit_trans(iunlockput(O, L.r)))

\* The directory stays locked while create waits for the new inode.
create_new(p) ==
  LET P == proc[p]
      dp == P.dp
      ip == P.ip
      S == ilock(fs, ip)
      T == iupdate([S EXCEPT !.ip[ip].nlink = 1], ip)
      D == iupdate([T EXCEPT !.ip[dp].nlink = @ + 1], dp)
      E == dirlink(D, ip, ".", ip)
      F == dirlink(E, ip, "..", dp)
      G == IF P.op # "mkdir" THEN T
           ELSE IF E.r < 0 \/ F.r < 0 THEN Panic(F, "create dots") ELSE F
      H == dirlink(G, dp, P.path.elems[1], ip)
  IN  /\ At(p, "new") /\ Free(ip)
      /\ IF H.r < 0 THEN Return(p, Panic(H, "create: dirlink"))
         ELSE Created(p, iunlockput(H, dp), ip)

-----------------------------------------------------------------------------
(* Open files *)

\* Words written in one transaction at most.
MaxPiece == ((LOGSIZE - 1 - 1 - 2) \div 2) * BSIZE

\* One turn of filewrite's loop for the n words left.  The offset of a device
\* is used by nobody, and left alone here.
filewrite(p, n) ==
  LET P == proc[p]
      f == P.f.ip
      n1 == Lesser(n, MaxPiece)
      L == ilock(begin_trans(fs), f)
      W == writei(L, f, P.f.off, n1, [nm |-> "x", no |-> 0])
      S == commit_trans(iunlock(W, f))
      F == [P.f EXCEPT !.off = IF L.ip[f].type = "dev" THEN 0 ELSE @ + n1]
  IN  /\ P.f.writable /\ ~fs.trans /\ Free(f)
      /\ IF W.r < 0 THEN Return(p, S)
         ELSE IF W.r # n1 THEN Return(p, Panic(W, "short filewrite"))
         ELSE IF n1 = n THEN Step(p, S, User(P.cwd, F))
         ELSE Step(p, S, [P EXCEPT !.pc = "write", !.n = n - n1, !.f = F])

fileread(p, n) ==
  LET P == proc[p]
      S == ilock(fs, P.f.ip)
      r == Lesser(n, S.ip[P.f.ip].size - P.f.off)
  IN  /\ At(p, "user") /\ P.f # NoFile /\ Free(P.f.ip)
      /\ Step(p, iunlock(S, P.f.ip), User(P.cwd, [P.f EXCEPT !.off = @ + r]))

fileclose(S, f) == commit_trans(iput(begin_trans(S), f.ip))

sys_close(p) ==
  LET f == proc[p].f IN
  /\ At(p, "user") /\ f # NoFile /\ ~fs.trans
  /\ Step(p, fileclose(fs, f), User(proc[p].cwd, NoFile))

\* exit drops the current directory outside any transaction.
exit(p) ==
  LET f == proc[p].f IN
  /\ At(p, "user") /\ (f # NoFile => ~fs.trans)
  /\ Step(p, iput(IF f = NoFile THEN fs ELSE fileclose(fs, f), proc[p].cwd),
          Dead)

\* A parent with an open file would share it: see module Shell.
fork(p, child) ==
  /\ At(p, "user") /\ proc[p].f = NoFile /\ proc[child].pc = "dead"
  /\ Step(child, idup(fs, proc[p].cwd), User(proc[p].cwd, NoFile))

-----------------------------------------------------------------------------
Crash == /\ fs.panic = ""
         /\ fs' = Boot(fs.home)
         /\ proc' = BootProcs

Halted == fs.panic # "" /\ UNCHANGED vars

Syscall(p, c) ==
  \/ /\ c.op \in {"open", "openw", "chdir", "exec", "link"}
     /\ Lookup(p, c, "namei")
  \/ c.op = "unlink" /\ Lookup(p, c, "nameiparent")
  \/ c.op \in DOMAIN TypeFor /\ CreateCall(p, c)
  \/ c.op = "write" /\ At(p, "user") /\ filewrite(p, c.n)
  \/ c.op = "read" /\ fileread(p, c.n)
  \/ c.op = "close" /\ sys_close(p)
  \/ c.op = "exit" /\ exit(p)

Inside(p) ==
  \/ namex(p) \/ sys_open(p) \/ sys_chdir(p) \/ exec(p)
  \/ sys_link(p) \/ link_dir(p) \/ sys_unlink(p) \/ unlink_inode(p)
  \/ create(p) \/ create_new(p)
  \/ At(p, "write") /\ filewrite(p, proc[p].n)

Next == \/ \E p \in Procs : Inside(p)
        \/ \E p \in Procs : \E c \in Calls[p] : Syscall(p, c)
        \/ \E p, child \in Procs : fork(p, child)
        \/ Crash
        \/ Halted

Spec == Init /\ [][Next]_vars
-----------------------------------------------------------------------------
(* Properties of a disk image d, the part of the state a crash leaves. *)

Allocated(d) == {i \in Inums : d.dip[i].type # "none"}
Dirs(d) == {i \in Inums : d.dip[i].type = "dir"}
OwnBlocks(d, i) == Range(BlocksOf(d, d.dip[i]))

Word(d, i, off) ==
  LET bn == off \div BSIZE
      addrs == d.dip[i].addrs
      b == IF bn < NDIRECT THEN addrs[bn]
           ELSE d.data[addrs[NDIRECT]][bn - NDIRECT].no
  IN  d.data[b][off % BSIZE]

\* All directory entries, with the directory and the offset they are at.
Entries(d) ==
  UNION {{[dir |-> j, off |-> off, nm |-> Word(d, j, off).nm,
           no |-> Word(d, j, off).no] : off \in 0 .. (d.dip[j].size - 1)}
         : j \in Dirs(d)}

(* Whatever call a crash interrupts, the disk it leaves is a tree that the *)
(* next boot can use: every entry of a directory that has not been removed *)
(* names an allocated inode, and no inode has fewer links than names and   *)
(* subdirectories, so that removing names never frees an inode too early.  *)
LinksCounted ==
  LET d == fs.home
      used == {e \in Entries(d) : e.no # 0}
      names == {e \in used : e.nm \notin {".", ".."}}
      live == {j \in Dirs(d) : j = ROOTINO \/ \E e \in names : e.no = j}
      up == {e \in used : e.nm = ".." /\ e.dir \in live \ {ROOTINO}}
      links(i) == Cardinality({e \in names \cup up : e.no = i})
  IN  /\ \A e \in used : e.dir \in live => e.no \in Allocated(d)
      /\ \A i \in Allocated(d) :
           d.dip[i].nlink >= links(i) + IF i = ROOTINO THEN 1 ELSE 0

(* balloc, bmap, itrunc and ialloc keep the bitmap and the inodes of the   *)
(* disk in step in every transaction: a block that is in use belongs to    *)
(* exactly one inode, and no block is lost.                                *)
BlocksOwned ==
  LET d == fs.home IN
  /\ d.used = UNION {OwnBlocks(d, i) : i \in Allocated(d)}
  /\ \A i, j \in Allocated(d) :
       i # j => OwnBlocks(d, i) \cap OwnBlocks(d, j) = {}

(* ip->ref is the number of pointers to the inode: current directories,    *)
(* open files, and the inodes that calls under way have in hand.           *)
RefsTracked ==
  fs.panic = "" =>
    \A i \in Inums :
      fs.ref[i] = Cardinality({p \in Procs : proc[p].cwd = i})
                  + Cardinality({p \in Procs : proc[p].f.ip = i})
                  + Cardinality({p \in Procs : proc[p].dp = i})
                  + Cardinality({p \in Procs : proc[p].ip = i})

\* Process p, inside a call, sleeps in ilock or begin_trans.
Asleep(p) ==
  LET P == proc[p] IN
  CASE P.pc \in {"namei", "nameiparent"} -> ~Free(P.dp)
    [] P.pc = "found" -> \/ P.dp # 0 /\ ~Free(P.dp)
                         \/ P.op \in {"unlink", "link"} /\ P.ip = 0 /\ fs.trans
    [] P.pc \in {"unlink", "new"} -> ~Free(P.ip)
    [] P.pc = "write" -> fs.trans \/ ~Free(P.f.ip)
    [] OTHER -> TRUE

(* Calls take the log first, then a directory, then an inode in it, and    *)
(* lookups hold one inode at a time: whenever calls are under way, one of  *)
(* them can go on.                                                         *)
NoDeadlock ==
  (\E p \in Procs : proc[p].pc \notin {"user", "dead"}) /\ fs.panic = ""
    => \E p \in Procs : ~Asleep(p)

(* The checks of fs.c, log.c and sysfile.c that no sequence of calls       *)
(* reaches: a block freed twice, an inode freed while it is locked, a link *)
(* count below zero, a transaction that does not fit into the log, a       *)
(* directory without room for its entries.                                 *)
ChecksHold ==
  fs.panic \in {"", "write outside of trans", "ilock: no type",
                "ialloc: no inodes"}

(* log.c stops the kernel when a block is written outside a transaction.   *)
WritesInTransaction == fs.panic # "write outside of trans"
=============================================================================
