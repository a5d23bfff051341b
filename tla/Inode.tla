------------------------------- MODULE Inode -------------------------------
(***************************************************************************)
(* The lower half of fs.c as functions from file system states to file     *)
(* system states: blocks, inodes, their contents and directories.  A state *)
(* is a record:                                                            *)
(*   dip, used, data   buffers: disk inodes, bitmap, data blocks           *)
(*   home              the same three on the disk, as a crash leaves them  *)
(*   ip, ref, busy, valid   the inode cache, by inode number               *)
(*   lh, trans         log.lh as a set of sectors, log.busy                *)
(*   panic, r          the first panic message; the value returned last    *)
(* A sector is a data block or one of InodeSector and BitmapSector: the    *)
(* instances are small enough for IPB and BPB.  A block holds BSIZE words; *)
(* a word is a directory entry, a block number or a piece of file data.    *)
(***************************************************************************)
EXTENDS Integers, FiniteSets, SequencesExt

CONSTANTS NINODES,    \* sb.ninodes; the inodes are 1 .. NINODES - 1
          NBLOCKS,    \* blocks that balloc hands out
          NINODE,     \* param.h: entries of the inode cache
          NDIRECT, NINDIRECT, BSIZE, LOGSIZE

MAXFILE == NDIRECT + NINDIRECT
ROOTINO == 1
Inums == 1 .. (NINODES - 1)
Blocks == 1 .. NBLOCKS
InodeSector == -1
BitmapSector == -2

Zero == [nm |-> "", no |-> 0]
ZeroBlock == [k \in 0 .. (BSIZE - 1) |-> Zero]
NoAddrs == [k \in 0 .. NDIRECT |-> 0]
FreeInode == [type |-> "none", nlink |-> 0, size |-> 0, addrs |-> NoAddrs]

MinOf(set) == CHOOSE x \in set : \A y \in set : x <= y
Lesser(a, b) == IF a < b THEN a ELSE b

Panic(S, msg) == [S EXCEPT !.panic = IF @ = "" THEN msg ELSE @, !.r = 0]

-----------------------------------------------------------------------------
(* The log as the file system sees it: log.c *)

\* The size of the log is tested before absorption.
log_write(S, sector) ==
  IF Cardinality(S.lh) >= LOGSIZE - 1 THEN Panic(S, "too big a transaction")
  ELSE IF ~S.trans THEN Panic(S, "write outside of trans")
  ELSE [S EXCEPT !.lh = @ \cup {sector}]

begin_trans(S) == [S EXCEPT !.trans = TRUE]

\* Only what was logged reaches the disk.  What a free block holds is not
\* part of the state: balloc zeroes a block before anybody reads it.
commit_trans(S) ==
  LET used == IF BitmapSector \in S.lh THEN S.used ELSE S.home.used
      data(b) == IF b \in S.lh THEN S.data[b] ELSE S.home.data[b]
  IN  [S EXCEPT
        !.home.dip = IF InodeSector \in S.lh THEN S.dip ELSE @,
        !.home.used = used,
        !.home.data = [b \in Blocks |-> IF b \in used THEN data(b)
                                        ELSE ZeroBlock],
        !.lh = {}, !.trans = FALSE]

-----------------------------------------------------------------------------
(* Blocks *)

bzero(S, b) == log_write([S EXCEPT !.data[b] = ZeroBlock], b)

balloc(S) ==
  IF S.used = Blocks THEN Panic(S, "balloc: out of blocks")
  ELSE LET b == MinOf(Blocks \ S.used)
           T == log_write([S EXCEPT !.used = @ \cup {b}], BitmapSector)
       IN  [bzero(T, b) EXCEPT !.r = b]

bfree(S, b) ==
  IF b \notin S.used THEN Panic(S, "freeing free block")
  ELSE log_write([S EXCEPT !.used = @ \ {b}, !.data[b] = ZeroBlock],
                 BitmapSector)

-----------------------------------------------------------------------------
(* Inodes *)

iget(S, i) ==
  IF S.ref[i] > 0 THEN [S EXCEPT !.ref[i] = @ + 1, !.r = i]
  ELSE IF Cardinality({j \in Inums : S.ref[j] > 0}) >= NINODE
       THEN Panic(S, "iget: no inodes")
  ELSE [S EXCEPT !.ref[i] = 1, !.busy = @ \ {i}, !.valid = @ \ {i}, !.r = i]

idup(S, i) == [S EXCEPT !.ref[i] = @ + 1, !.r = i]

ialloc(S, type) ==
  LET free == {i \in Inums : S.dip[i].type = "none"} IN
  IF free = {} THEN Panic(S, "ialloc: no inodes")
  ELSE LET i == MinOf(free) IN
       iget(log_write([S EXCEPT !.dip[i] = [FreeInode EXCEPT !.type = type]],
                      InodeSector), i)

iupdate(S, i) == log_write([S EXCEPT !.dip[i] = S.ip[i]], InodeSector)

\* The caller waits until the inode is not busy.
ilock(S, i) ==
  LET T == [S EXCEPT !.busy = @ \cup {i}] IN
  IF S.ref[i] < 1 THEN Panic(S, "ilock")
  ELSE IF i \in S.valid THEN T
  ELSE IF S.dip[i].type = "none" THEN Panic(T, "ilock: no type")
  ELSE [T EXCEPT !.ip[i] = S.dip[i], !.valid = @ \cup {i}]

iunlock(S, i) ==
  IF i \notin S.busy \/ S.ref[i] < 1 THEN Panic(S, "iunlock")
  ELSE [S EXCEPT !.busy = @ \ {i}]

\* The blocks of an inode in the order in which itrunc frees them.
BlocksOf(S, ino) ==
  LET ind == ino.addrs[NDIRECT]
      set(s) == SelectSeq(s, LAMBDA b : b # 0)
  IN  set([k \in 1 .. NDIRECT |-> ino.addrs[k - 1]]) \o
      IF ind = 0 THEN << >>
      ELSE set([k \in 1 .. NINDIRECT |-> S.data[ind][k - 1].no]) \o <<ind>>

\* Mutant: the indirect block and what it lists are left.
itrunc_direct(S, i) ==
  LET T == FoldLeft(bfree, S, SelectSeq([k \in 1 .. NDIRECT |->
                                           S.ip[i].addrs[k - 1]],
                                        LAMBDA b : b # 0))
  IN  iupdate([T EXCEPT !.ip[i].addrs = NoAddrs, !.ip[i].size = 0], i)

itrunc(S, i) ==
  LET T == FoldLeft(bfree, S, BlocksOf(S, S.ip[i]))
  IN  iupdate([T EXCEPT !.ip[i].addrs = NoAddrs, !.ip[i].size = 0], i)

\* What a cache entry without references holds is not part of the state:
\* iget fills it anew.
Unref(S, i) ==
  IF S.ref[i] > 1 THEN [S EXCEPT !.ref[i] = @ - 1]
  ELSE [S EXCEPT !.ref[i] = 0, !.ip[i] = FreeInode, !.valid = @ \ {i}]

iput(S, i) ==
  LET last == S.ref[i] = 1 /\ i \in S.valid /\ S.ip[i].nlink = 0
      T == itrunc([S EXCEPT !.busy = @ \cup {i}], i)
      U == iupdate([T EXCEPT !.ip[i].type = "none"], i)
  IN  IF last /\ i \in S.busy THEN Panic(S, "iput busy")
      ELSE Unref(IF last THEN [U EXCEPT !.busy = @ \ {i}] ELSE S, i)

\* Mutant: the calls are swapped.
iunlockput_swapped(S, i) == iunlock(iput(S, i), i)

iunlockput(S, i) == iput(iunlock(S, i), i)

-----------------------------------------------------------------------------
(* Inode contents *)

\* The block that holds block bn of inode i, or 0.
Addr(S, i, bn) ==
  LET addrs == S.ip[i].addrs IN
  IF bn < NDIRECT THEN addrs[bn]
  ELSE IF addrs[NDIRECT] = 0 THEN 0
  ELSE S.data[addrs[NDIRECT]][bn - NDIRECT].no

AddBlock(S, i, k) ==
  LET A == balloc(S) IN [A EXCEPT !.ip[i].addrs[k] = A.r]

AddIndirect(S, i, k) ==
  LET ind == S.ip[i].addrs[NDIRECT]
      B == balloc(S)
  IN  IF S.panic # "" THEN S
      ELSE log_write([B EXCEPT !.data[ind][k] = [Zero EXCEPT !.no = B.r]], ind)

bmap(S, i, bn) ==
  IF bn >= MAXFILE THEN Panic(S, "bmap: out of range")
  ELSE IF Addr(S, i, bn) # 0 THEN [S EXCEPT !.r = Addr(S, i, bn)]
  ELSE IF bn < NDIRECT THEN AddBlock(S, i, bn)
  ELSE AddIndirect(IF S.ip[i].addrs[NDIRECT] # 0 THEN S
                   ELSE AddBlock(S, i, NDIRECT), i, bn - NDIRECT)

\* The word at offset off of inode i, which lies within its size: there bmap
\* only looks up.
readi(S, i, off) == S.data[Addr(S, i, off \div BSIZE)][off % BSIZE]

\* m words at word at of block T.r, which bmap has returned.
WriteBlock(T, at, m, word) ==
  LET new == [k \in 0 .. (BSIZE - 1) |->
                IF k \in at .. (at + m - 1) THEN word ELSE T.data[T.r][k]]
  IN  IF T.panic # "" THEN T
      ELSE log_write([T EXCEPT !.data[T.r] = new], T.r)

RECURSIVE WritePieces(_, _, _, _, _)
WritePieces(S, i, off, n, word) ==
  LET at == off % BSIZE
      m == Lesser(n, BSIZE - at)
  IN  IF n = 0 \/ S.panic # "" THEN S
      ELSE WritePieces(WriteBlock(bmap(S, i, off \div BSIZE), at, m, word),
                       i, off + m, n - m, word)

\* The file now reaches to end at least.
Extend(S, i, end) ==
  IF end > S.ip[i].size THEN iupdate([S EXCEPT !.ip[i].size = end], i) ELSE S

\* A device takes everything; its output is not part of the file system.
writei(S, i, off, n, word) ==
  IF S.ip[i].type = "dev" THEN [S EXCEPT !.r = n]
  ELSE IF off > S.ip[i].size \/ off + n > MAXFILE * BSIZE
  THEN [S EXCEPT !.r = -1]
  ELSE [Extend(WritePieces(S, i, off, n, word), i, off + n) EXCEPT !.r = n]

-----------------------------------------------------------------------------
(* Directories *)

Offsets(S, dp) == 0 .. (S.ip[dp].size - 1)

\* The offsets at which dirlookup's loop could stop.
Matches(S, dp, name) ==
  {off \in Offsets(S, dp) : /\ readi(S, dp, off).no # 0
                            /\ readi(S, dp, off).nm = name}

dirlookup(S, dp, name) ==
  LET at == Matches(S, dp, name) IN
  IF S.ip[dp].type # "dir" THEN Panic(S, "dirlookup not DIR")
  ELSE IF at = {} THEN [S EXCEPT !.r = 0]
  ELSE iget(S, readi(S, dp, MinOf(at)).no)

\* Mutant: the inode that dirlookup found is not put.
dirlink_keep(S, dp, name, inum) ==
  LET L == dirlookup(S, dp, name)
      empty == {off \in Offsets(S, dp) : readi(S, dp, off).no = 0}
      off == MinOf(empty \cup {S.ip[dp].size})
      T == writei(S, dp, off, 1, [nm |-> name, no |-> inum])
  IN  IF L.r # 0 THEN [L EXCEPT !.r = -1]
      ELSE IF T.r # 1 THEN Panic(T, "dirlink")
      ELSE [T EXCEPT !.r = 0]

dirlink(S, dp, name, inum) ==
  LET L == dirlookup(S, dp, name)
      empty == {off \in Offsets(S, dp) : readi(S, dp, off).no = 0}
      off == MinOf(empty \cup {S.ip[dp].size})
      T == writei(S, dp, off, 1, [nm |-> name, no |-> inum])
  IN  IF L.r # 0 THEN [iput(L, L.r) EXCEPT !.r = -1]
      ELSE IF T.r # 1 THEN Panic(T, "dirlink")
      ELSE [T EXCEPT !.r = 0]

isdirempty(S, dp) ==
  \A off \in Offsets(S, dp) : off >= 2 => readi(S, dp, off).no = 0
=============================================================================
