-------------------------------- MODULE Log --------------------------------
(***************************************************************************)
(* The redo log of log.c over the buffer cache of bio.c and a disk that    *)
(* writes one sector at a time (ide.c, memide.c).  Every write to the disk *)
(* is a step of its own, so that a crash can fall between any two of them; *)
(* what happens between two disk writes of one handler touches only memory *)
(* that no other process reads meanwhile (busy buffers, log.lh).           *)
(***************************************************************************)
EXTENDS Naturals, Sequences

CONSTANTS Procs,    \* processes that make file system calls
          Blocks,   \* home locations of blocks (superblock to data blocks)
          Vals,     \* contents of a block
          NoBuf,    \* "the block has no valid buffer in the cache"
          LOGSIZE,  \* param.h: entries of the sector array of the header
          LogSize   \* log.size = sb.nlog: header sector and log sectors

ASSUME LogAssumption ==
  /\ LOGSIZE \in Nat \ {0}
  /\ LogSize \in Nat \ {0, 1}
  /\ NoBuf \notin Vals

VARIABLES
  disk,    \* home sectors on the disk
  logblk,  \* log data sectors on the disk, log.start+1 onwards
  head,    \* header sector on the disk: sector[0..n-1] as a sequence
  cache,   \* B_VALID buffers of home sectors, NoBuf where there is none
  dirty,   \* home sectors whose buffer has B_DIRTY
  lh,      \* log.lh in memory: sector[0..n-1] as a sequence
  busy,    \* log.busy
  tail,    \* install_trans's loop variable, counted from 1
  pc,      \* where each process is with respect to the log
  sys      \* the system: recovering at boot, up, or stopped by panic()

vars == <<disk, logblk, head, cache, dirty, lh, busy, tail, pc, sys>>

\* "idle": outside; "begin": at the top of begin_trans's loop; "asleep": in
\* sleep(&log); "trans": in a transaction; "install", "erase", "end": in
\* commit_trans.
PCs == {"idle", "begin", "asleep", "trans", "install", "erase", "end"}

\* initlog runs recover_from_log before the first process returns to user
\* space: "read_head", "install" and "erase" are its steps.
Phases == {"read_head", "install", "erase", "up", "panic"}

LogSectors == 1 .. (LogSize - 1)

TypeOK ==
  /\ disk \in [Blocks -> Vals]
  /\ logblk \in [LogSectors -> Vals]
  /\ head \in Seq(Blocks)
  /\ cache \in [Blocks -> Vals \cup {NoBuf}]
  /\ dirty \in SUBSET Blocks
  /\ lh \in Seq(Blocks)
  /\ busy \in BOOLEAN
  /\ tail \in Nat \ {0}
  /\ pc \in [Procs -> PCs]
  /\ sys \in Phases

-----------------------------------------------------------------------------
\* A machine switched on with an arbitrary file system whose log is empty,
\* as mkfs leaves it.
Init ==
  /\ disk \in [Blocks -> Vals]
  /\ logblk \in [LogSectors -> Vals]
  /\ head = <<>>
  /\ cache = [b \in Blocks |-> NoBuf]
  /\ dirty = {}
  /\ lh = <<>>
  /\ busy = FALSE
  /\ tail = 1
  /\ pc = [p \in Procs |-> "idle"]
  /\ sys = "read_head"

\* What bread(b) returns: the cached buffer, or the sector read from disk.
Contents(b) == IF cache[b] = NoBuf THEN disk[b] ELSE cache[b]

(***************************************************************************)
(* The buffer cache as the log needs it.  bread leaves a valid buffer;     *)
(* bget may take over any buffer that is neither busy nor dirty.           *)
(***************************************************************************)
bread(b) ==
  /\ sys = "up"
  /\ cache[b] = NoBuf
  /\ cache' = [cache EXCEPT ![b] = Contents(b)]
  /\ UNCHANGED <<disk, logblk, head, dirty, lh, busy, tail, pc, sys>>

recycle(b) ==
  /\ sys = "up"
  /\ cache[b] # NoBuf
  /\ b \notin dirty
  /\ cache' = [cache EXCEPT ![b] = NoBuf]
  /\ UNCHANGED <<disk, logblk, head, dirty, lh, busy, tail, pc, sys>>

-----------------------------------------------------------------------------
(***************************************************************************)
(* begin_trans and sleep(&log, &log.lock).                                 *)
(***************************************************************************)
call_begin(p) ==
  /\ sys = "up"
  /\ pc[p] = "idle"
  /\ pc' = [pc EXCEPT ![p] = "begin"]
  /\ UNCHANGED <<disk, logblk, head, cache, dirty, lh, busy, tail, sys>>

begin_trans(p) ==
  /\ sys = "up"
  /\ pc[p] = "begin"
  /\ \/ busy /\ pc' = [pc EXCEPT ![p] = "asleep"] /\ UNCHANGED busy
     \/ ~busy /\ pc' = [pc EXCEPT ![p] = "trans"] /\ busy' = TRUE
  /\ UNCHANGED <<disk, logblk, head, cache, dirty, lh, tail, sys>>

\* kill() makes a sleeping process runnable; begin_trans then looks again.
kill(p) ==
  /\ sys = "up"
  /\ pc[p] = "asleep"
  /\ pc' = [pc EXCEPT ![p] = "begin"]
  /\ UNCHANGED <<disk, logblk, head, cache, dirty, lh, busy, tail, sys>>

(***************************************************************************)
(* log_write, with the caller's change of b->data that precedes it.  The   *)
(* size test comes before the search for an earlier copy of the block.     *)
(***************************************************************************)
TooBig == Len(lh) >= LOGSIZE \/ Len(lh) >= LogSize - 1

\* The loop of log_write: the place of b in the header, or one past its end.
Slot(b) ==
  IF \E i \in 1 .. Len(lh) : lh[i] = b
  THEN CHOOSE i \in 1 .. Len(lh) : lh[i] = b
  ELSE Len(lh) + 1

\* Mutant: B_DIRTY is not set.
log_write_unpinned(p, b, v) ==
  /\ sys = "up"
  /\ pc[p] = "trans"
  /\ ~TooBig
  /\ cache' = [cache EXCEPT ![b] = v]
  /\ logblk' = [logblk EXCEPT ![Slot(b)] = v]
  /\ lh' = IF Slot(b) = Len(lh) + 1 THEN Append(lh, b) ELSE lh
  /\ UNCHANGED <<disk, head, dirty, busy, tail, pc, sys>>

log_write(p, b, v) ==
  /\ sys = "up"
  /\ pc[p] = "trans"
  /\ ~TooBig
  /\ cache' = [cache EXCEPT ![b] = v]
  /\ logblk' = [logblk EXCEPT ![Slot(b)] = v]
  /\ lh' = IF Slot(b) = Len(lh) + 1 THEN Append(lh, b) ELSE lh
  /\ dirty' = dirty \cup {b}
  /\ UNCHANGED <<disk, head, busy, tail, pc, sys>>

\* The modified buffer is lost with the rest of memory: panic never returns.
log_write_panic(p) ==
  /\ sys = "up"
  /\ pc[p] = "trans"
  /\ TooBig
  /\ sys' = "panic"
  /\ UNCHANGED <<disk, logblk, head, cache, dirty, lh, busy, tail, pc>>

-----------------------------------------------------------------------------
(***************************************************************************)
(* commit_trans and recover_from_log.                                      *)
(***************************************************************************)
\* One round of install_trans's loop: bread both, memmove, bwrite(dbuf).
install_block ==
  /\ tail <= Len(lh)
  /\ disk' = [disk EXCEPT ![lh[tail]] = logblk[tail]]
  /\ cache' = [cache EXCEPT ![lh[tail]] = logblk[tail]]
  /\ dirty' = dirty \ {lh[tail]}
  /\ tail' = tail + 1
  /\ UNCHANGED <<logblk, head, lh>>

\* Mutant: the header on disk is left.
erase_log_memory ==
  /\ lh' = <<>>
  /\ tail' = 1
  /\ UNCHANGED <<disk, logblk, head, cache, dirty>>

\* log.lh.n = 0; write_head().
erase_log ==
  /\ lh' = <<>>
  /\ head' = <<>>
  /\ tail' = 1
  /\ UNCHANGED <<disk, logblk, cache, dirty>>

\* write_head with a non-empty log.lh: the true commit.
commit_head(p) ==
  /\ sys = "up"
  /\ pc[p] = "trans"
  /\ lh # <<>>
  /\ head' = lh
  /\ tail' = 1
  /\ pc' = [pc EXCEPT ![p] = "install"]
  /\ UNCHANGED <<disk, logblk, cache, dirty, lh, busy, sys>>

commit_install(p) ==
  /\ sys = "up"
  /\ pc[p] = "install"
  /\ install_block
  /\ pc' = [pc EXCEPT ![p] = IF tail = Len(lh) THEN "erase" ELSE "install"]
  /\ UNCHANGED <<busy, sys>>

commit_erase(p) ==
  /\ sys = "up"
  /\ pc[p] = "erase"
  /\ erase_log
  /\ pc' = [pc EXCEPT ![p] = "end"]
  /\ UNCHANGED <<busy, sys>>

\* Mutant: no wakeup(&log).
commit_end_silent(p) ==
  /\ sys = "up"
  /\ pc[p] = "end" \/ (pc[p] = "trans" /\ lh = <<>>)
  /\ busy' = FALSE
  /\ pc' = [pc EXCEPT ![p] = "idle"]
  /\ UNCHANGED <<disk, logblk, head, cache, dirty, lh, tail, sys>>

\* busy = 0 and wakeup(&log) under log.lock.
commit_end(p) ==
  /\ sys = "up"
  /\ pc[p] = "end" \/ (pc[p] = "trans" /\ lh = <<>>)
  /\ busy' = FALSE
  /\ pc' = [q \in Procs |-> IF q = p THEN "idle"
                            ELSE IF pc[q] = "asleep" THEN "begin" ELSE pc[q]]
  /\ UNCHANGED <<disk, logblk, head, cache, dirty, lh, tail, sys>>

recover_read_head ==
  /\ sys = "read_head"
  /\ lh' = head
  /\ tail' = 1
  /\ sys' = IF head = <<>> THEN "erase" ELSE "install"
  /\ UNCHANGED <<disk, logblk, head, cache, dirty, busy, pc>>

\* Mutant: the loop runs one round too far and never ends.
recover_install_far ==
  /\ sys = "install"
  /\ install_block
  /\ UNCHANGED <<busy, pc, sys>>

recover_install ==
  /\ sys = "install"
  /\ install_block
  /\ sys' = IF tail = Len(lh) THEN "erase" ELSE "install"
  /\ UNCHANGED <<busy, pc>>

recover_erase ==
  /\ sys = "erase"
  /\ erase_log
  /\ sys' = "up"
  /\ UNCHANGED <<busy, pc>>

\* Power failure or reset: the disk keeps its sectors, memory is lost.
Crash ==
  /\ cache' = [b \in Blocks |-> NoBuf]
  /\ dirty' = {}
  /\ lh' = <<>>
  /\ busy' = FALSE
  /\ tail' = 1
  /\ pc' = [p \in Procs |-> "idle"]
  /\ sys' = "read_head"
  /\ UNCHANGED <<disk, logblk, head>>

-----------------------------------------------------------------------------
Recover == recover_read_head \/ recover_install \/ recover_erase

Commit(p) == commit_head(p) \/ commit_install(p) \/ commit_erase(p)
             \/ commit_end(p)

Next ==
  \/ Recover
  \/ Crash
  \/ \E b \in Blocks : bread(b) \/ recycle(b)
  \/ \E p \in Procs : \/ call_begin(p) \/ begin_trans(p) \/ kill(p)
                      \/ Commit(p) \/ log_write_panic(p)
                      \/ \E b \in Blocks, v \in Vals : log_write(p, b, v)

Spec == Init /\ [][Next]_vars

\* Recovery is one kernel thread with nothing to wait for.  A process in a
\* transaction finishes its system call, and one at the top of begin_trans's
\* loop gets the processor (round robin); nobody must call begin_trans.
Fairness ==
  /\ WF_vars(Recover)
  /\ \A p \in Procs : WF_vars(Commit(p)) /\ WF_vars(begin_trans(p))

FairSpec == Spec /\ Fairness

-----------------------------------------------------------------------------
(***************************************************************************)
(* Properties.                                                             *)
(***************************************************************************)
\* The processes inside begin_trans ... commit_trans.
Active == {p \in Procs : pc[p] \in {"trans", "install", "erase", "end"}}

Logged(s, b) == \E i \in 1 .. Len(s) : s[i] = b

\* The disk that recover_from_log makes of the disk of this moment.
Recovered ==
  [b \in Blocks |-> IF Logged(head, b)
                    THEN logblk[CHOOSE i \in 1 .. Len(head) : head[i] = b]
                    ELSE disk[b]]

\* What readers see; while the machine recovers nobody reads.
View ==
  [b \in Blocks |-> IF sys \in {"up", "panic"} THEN Contents(b)
                    ELSE Recovered[b]]

Abstract == INSTANCE AtomicDisk
  WITH stable <- Recovered, current <- View, active <- Active

\* The log implements the atomic disk: whatever the interleaving and wherever
\* the crashes fall, a transaction is durable as a whole once write_head has
\* written its header (log.c:99 "the true point at which the current
\* transaction commits"), invisible to a crash before that, never mixed with
\* another one, and fully installed when commit_trans returns.
AtomicTransactions == Abstract!ASpec

\* log_write's size test keeps both header copies inside the sector array of
\* struct logheader and inside the log area of the disk.
LogFits ==
  \A s \in {lh, head} : Len(s) <= LOGSIZE /\ Len(s) <= LogSize - 1

\* Absorption: no block has two copies in the log, so the order in which
\* install_trans copies them cannot matter.
NoDuplicates ==
  \A s \in {lh, head} : \A i, j \in 1 .. Len(s) : s[i] = s[j] => i = j

\* A buffer that bget may recycle (not B_DIRTY) holds what the disk holds;
\* recycling it loses nothing.
CleanIsOnDisk ==
  \A b \in Blocks : cache[b] # NoBuf /\ b \notin dirty => cache[b] = disk[b]

\* A process sleeps in begin_trans only while another is in a transaction and
\* so will call wakeup(&log): the test of log.busy and the sleep are not torn
\* apart by commit_trans.
NoLostWakeup ==
  \A p \in Procs : pc[p] = "asleep" => \E q \in Active : q # p

\* Every sleeper of begin_trans is woken: commit_trans reaches its wakeup.
SleeperWoken ==
  \A p \in Procs : pc[p] = "asleep" ~> (pc[p] # "asleep" \/ sys = "panic")

\* If crashes stop, recover_from_log terminates and the system comes up, from
\* any point at which the last crash fell.
RecoveryEnds ==
  (<>[][~Crash]_vars) => (sys \in {"read_head", "install", "erase"} ~> sys = "up")
-----------------------------------------------------------------------------
(***************************************************************************)
(* The inductive invariant of the proofs.                                  *)
(***************************************************************************)
Up == sys \in {"up", "panic"}

\* log.busy is the lock of the transaction: one owner while it is set.
OneTransaction ==
  /\ \A p, q \in Active : p = q
  /\ busy <=> Active # {}
  /\ ~Up => pc = [p \in Procs |-> "idle"]

\* Which header is on the disk and how far install_trans is, by phase.
HeaderPhase ==
  /\ sys = "read_head" => lh = <<>> /\ tail = 1
  /\ sys = "install" => head = lh /\ tail <= Len(lh)
  /\ sys = "erase" => head = lh /\ tail = Len(lh) + 1
  /\ Up => \A p \in Procs :
             /\ pc[p] = "trans" => head = <<>> /\ tail = 1
             /\ pc[p] = "install" => head = lh /\ tail <= Len(lh)
             /\ pc[p] = "erase" => head = lh /\ tail = Len(lh) + 1
             /\ pc[p] = "end" => head = <<>> /\ lh = <<>> /\ tail = 1
  /\ Up /\ Active = {} => head = <<>> /\ lh = <<>> /\ tail = 1

\* The blocks already installed are home; the others are pinned in the cache
\* by B_DIRTY with the contents their log sector has.
InstalledOrPinned ==
  /\ \A i \in 1 .. Len(lh) : i < tail => disk[lh[i]] = logblk[i]
  /\ Up => \A i \in 1 .. Len(lh) :
             i >= tail => lh[i] \in dirty /\ cache[lh[i]] = logblk[i]
  /\ \A b \in dirty : Up /\ \E i \in 1 .. Len(lh) : i >= tail /\ lh[i] = b

\* The whole: what every step of the log preserves.
LogInv ==
  /\ TypeOK
  /\ LogFits
  /\ NoDuplicates
  /\ CleanIsOnDisk
  /\ NoLostWakeup
  /\ OneTransaction
  /\ HeaderPhase
  /\ InstalledOrPinned
=============================================================================
