-------------------------------- MODULE Pipe --------------------------------
(***************************************************************************)
(* One pipe of pipe.c, shared by processes that may each hold its read end *)
(* and its write end (sys_pipe followed by forks).  The loops of pipewrite *)
(* and piperead take one step per byte under p->lock; sleep() gives the    *)
(* lock up, and a woken process takes it again.  Closing goes through      *)
(* fileclose, which counts references before it calls pipeclose.           *)
(*                                                                         *)
(* The port has one CPU and does not preempt the kernel, so kill() never   *)
(* runs while another process is inside a critical section.                *)
(***************************************************************************)
EXTENDS Naturals, Sequences

CONSTANTS Procs,    \* the processes that have the pipe open
          Bytes,    \* values of a byte
          NoByte,   \* nothing has been read yet
          PIPESIZE, \* bytes in the buffer
          UINT,     \* 2^32: where nread and nwrite wrap around
          Counts    \* the arguments n of read and write

ASSUME PipeAssumption ==
  /\ PIPESIZE \in Nat \ {0}
  /\ UINT \in Nat /\ UINT > PIPESIZE /\ UINT % PIPESIZE = 0
  /\ NoByte \notin Bytes /\ Counts \subseteq Nat

VARIABLES
  data, nread, nwrite, readopen, writeopen, \* struct pipe
  lock,     \* the process that holds p->lock, or {}
  rfd, wfd, \* the processes with a reference to the read and the write file
  pc,       \* where each process is
  n, i,     \* argument and loop variable of its read or write, 0 outside
  got,      \* history: the byte that a piperead copied to addr[i] last
  killed,   \* proc()->killed
  freed     \* kfree(p) was called

buf == <<data, nread, nwrite>>
ends == <<readopen, writeopen, rfd, wfd, freed>>
vars == <<buf, ends, lock, pc, n, i, got, killed>>

\* "write", "read", "copy": in the loops, holding p->lock; "wsleep", "rsleep":
\* asleep on &p->nwrite and &p->nread; "wwoken", "rwoken": runnable, to take
\* the lock again; "wclose", "rclose": fileclose dropped the last reference.
Writing == {"write", "wsleep", "wwoken"}
Reading == {"read", "rsleep", "rwoken", "copy"}
PCs == {"idle", "wclose", "rclose"} \cup Writing \cup Reading

TypeOK ==
  /\ data \in [0 .. PIPESIZE - 1 -> Bytes]
  /\ nread \in 0 .. UINT - 1 /\ nwrite \in 0 .. UINT - 1
  /\ readopen \in BOOLEAN /\ writeopen \in BOOLEAN /\ freed \in BOOLEAN
  /\ lock \in SUBSET Procs
  /\ rfd \in SUBSET Procs /\ wfd \in SUBSET Procs
  /\ pc \in [Procs -> PCs]
  /\ n \in [Procs -> Nat] /\ i \in [Procs -> Nat]
  /\ got \in Bytes \cup {NoByte}
  /\ killed \in SUBSET Procs

\* After pipealloc and the forks.  kalloc does not clear the page.
Init ==
  /\ data \in [0 .. PIPESIZE - 1 -> Bytes]
  /\ nread = 0 /\ nwrite = 0
  /\ readopen = TRUE /\ writeopen = TRUE /\ freed = FALSE
  /\ lock = {}
  /\ rfd = Procs /\ wfd = Procs
  /\ pc = [p \in Procs |-> "idle"]
  /\ n = [p \in Procs |-> 0] /\ i = [p \in Procs |-> 0]
  /\ got = NoByte
  /\ killed = {}

-----------------------------------------------------------------------------
\* Mutant: the buffer counts as full one byte late.
Full_late == nwrite = (nread + PIPESIZE + 1) % UINT

Full == nwrite = (nread + PIPESIZE) % UINT
Empty == nread = nwrite

goto(p, l) == pc' = [pc EXCEPT ![p] = l]

\* The locals of p's call are gone.
return(p) == n' = [n EXCEPT ![p] = 0] /\ i' = [i EXCEPT ![p] = 0]

\* pc after wakeup(&p->nread) or wakeup(&p->nwrite), p going to l.
wakeup(asleep, woken, p, l) ==
  pc' = [q \in Procs |-> IF q = p THEN l
                         ELSE IF pc[q] = asleep THEN woken ELSE pc[q]]
wakeup_readers(p, l) == wakeup("rsleep", "rwoken", p, l)
wakeup_writers(p, l) == wakeup("wsleep", "wwoken", p, l)

-----------------------------------------------------------------------------
write_enter(p, k) ==
  /\ pc[p] = "idle" /\ p \in wfd \ killed
  /\ lock = {} /\ lock' = {p}
  /\ n' = [n EXCEPT ![p] = k] /\ i' = [i EXCEPT ![p] = 0]
  /\ goto(p, "write")
  /\ UNCHANGED <<buf, ends, got, killed>>

write_byte(p, b) ==
  /\ pc[p] = "write" /\ i[p] < n[p] /\ ~Full
  /\ data' = [data EXCEPT ![nwrite % PIPESIZE] = b]
  /\ nwrite' = (nwrite + 1) % UINT
  /\ i' = [i EXCEPT ![p] = @ + 1]
  /\ UNCHANGED <<nread, ends, lock, pc, n, got, killed>>

\* Full: return -1, or wake the readers and sleep(&p->nwrite, &p->lock).
write_full(p) ==
  /\ pc[p] = "write" /\ i[p] < n[p] /\ Full
  /\ \/ /\ ~readopen \/ p \in killed
        /\ goto(p, "idle") /\ return(p)
     \/ /\ readopen /\ p \notin killed
        /\ wakeup_readers(p, "wsleep") /\ UNCHANGED <<n, i>>
  /\ lock' = {}
  /\ UNCHANGED <<buf, ends, got, killed>>

write_resume(p) ==
  /\ pc[p] = "wwoken"
  /\ lock = {} /\ lock' = {p} /\ goto(p, "write")
  /\ UNCHANGED <<buf, ends, n, i, got, killed>>

write_done(p) ==
  /\ pc[p] = "write" /\ i[p] = n[p]
  /\ wakeup_readers(p, "idle") /\ return(p) /\ lock' = {}
  /\ UNCHANGED <<buf, ends, got, killed>>

-----------------------------------------------------------------------------
read_enter(p, k) ==
  /\ pc[p] = "idle" /\ p \in rfd \ killed
  /\ lock = {} /\ lock' = {p}
  /\ n' = [n EXCEPT ![p] = k] /\ i' = [i EXCEPT ![p] = 0]
  /\ goto(p, "read")
  /\ UNCHANGED <<buf, ends, got, killed>>

\* Mutant: if instead of while, a woken reader goes on without looking.
read_resume_if(p) ==
  /\ pc[p] = "rwoken"
  /\ lock = {} /\ lock' = {p} /\ goto(p, "copy")
  /\ UNCHANGED <<buf, ends, n, i, got, killed>>

read_resume(p) ==
  /\ pc[p] = "rwoken"
  /\ lock = {} /\ lock' = {p} /\ goto(p, "read")
  /\ UNCHANGED <<buf, ends, n, i, got, killed>>

\* The while loop: go on to the copy, or return -1, or sleep(&p->nread, ...).
read_test(p) ==
  /\ pc[p] = "read"
  /\ \/ /\ ~(Empty /\ writeopen)
        /\ goto(p, "copy") /\ UNCHANGED <<lock, n, i>>
     \/ /\ Empty /\ writeopen /\ p \in killed
        /\ goto(p, "idle") /\ return(p) /\ lock' = {}
     \/ /\ Empty /\ writeopen /\ p \notin killed
        /\ goto(p, "rsleep") /\ lock' = {} /\ UNCHANGED <<n, i>>
  /\ UNCHANGED <<buf, ends, got, killed>>

read_byte(p) ==
  /\ pc[p] = "copy" /\ i[p] < n[p] /\ ~Empty
  /\ got' = data[nread % PIPESIZE]
  /\ nread' = (nread + 1) % UINT
  /\ i' = [i EXCEPT ![p] = @ + 1]
  /\ UNCHANGED <<data, nwrite, ends, lock, pc, n, killed>>

\* Mutant: wakeup(&p->nwrite) is missing.
read_done_quiet(p) ==
  /\ pc[p] = "copy" /\ (i[p] = n[p] \/ Empty)
  /\ goto(p, "idle") /\ return(p) /\ lock' = {}
  /\ UNCHANGED <<buf, ends, got, killed>>

read_done(p) ==
  /\ pc[p] = "copy" /\ (i[p] = n[p] \/ Empty)
  /\ wakeup_writers(p, "idle") /\ return(p) /\ lock' = {}
  /\ UNCHANGED <<buf, ends, got, killed>>

-----------------------------------------------------------------------------
(***************************************************************************)
(* fileclose of one end: drop the reference under ftable.lock; the process *)
(* that drops the last one calls pipeclose.                                *)
(***************************************************************************)
fileclose_read(p) ==
  /\ pc[p] = "idle" /\ p \in rfd
  /\ rfd' = rfd \ {p}
  /\ goto(p, IF rfd = {p} THEN "rclose" ELSE "idle")
  /\ UNCHANGED <<buf, readopen, writeopen, wfd, freed, lock, n, i, got, killed>>

fileclose_write(p) ==
  /\ pc[p] = "idle" /\ p \in wfd
  /\ wfd' = wfd \ {p}
  /\ goto(p, IF wfd = {p} THEN "wclose" ELSE "idle")
  /\ UNCHANGED <<buf, readopen, writeopen, rfd, freed, lock, n, i, got, killed>>

\* Mutant: the page is freed with either end.
pipeclose_either(p) ==
  /\ pc[p] \in {"rclose", "wclose"} /\ lock = {}
  /\ IF pc[p] = "wclose"
     THEN writeopen' = FALSE /\ UNCHANGED readopen /\ wakeup_readers(p, "idle")
     ELSE readopen' = FALSE /\ UNCHANGED writeopen /\ wakeup_writers(p, "idle")
  /\ freed' = TRUE
  /\ UNCHANGED <<buf, rfd, wfd, lock, n, i, got, killed>>

\* Mutant: nobody is woken.
pipeclose_quiet(p) ==
  /\ pc[p] \in {"rclose", "wclose"} /\ lock = {}
  /\ IF pc[p] = "wclose"
     THEN writeopen' = FALSE /\ UNCHANGED readopen
     ELSE readopen' = FALSE /\ UNCHANGED writeopen
  /\ goto(p, "idle")
  /\ freed' = (~readopen' /\ ~writeopen')
  /\ UNCHANGED <<buf, rfd, wfd, lock, n, i, got, killed>>

\* pipeclose: one critical section, and kfree by the one that closes last.
pipeclose(p) ==
  /\ pc[p] \in {"rclose", "wclose"} /\ lock = {}
  /\ IF pc[p] = "wclose"
     THEN writeopen' = FALSE /\ UNCHANGED readopen /\ wakeup_readers(p, "idle")
     ELSE readopen' = FALSE /\ UNCHANGED writeopen /\ wakeup_writers(p, "idle")
  /\ freed' = (~readopen' /\ ~writeopen')
  /\ UNCHANGED <<buf, rfd, wfd, lock, n, i, got, killed>>

\* Mutant: a sleeping process is only marked.
kill_nowake(p) ==
  /\ lock = {} /\ p \notin killed
  /\ killed' = killed \cup {p}
  /\ UNCHANGED <<buf, ends, lock, pc, n, i, got>>

\* kill(): mark, and make runnable when asleep.
kill(p) ==
  /\ lock = {} /\ p \notin killed
  /\ killed' = killed \cup {p}
  /\ pc' = [pc EXCEPT ![p] = IF @ = "wsleep" THEN "wwoken"
                             ELSE IF @ = "rsleep" THEN "rwoken" ELSE @]
  /\ UNCHANGED <<buf, ends, lock, n, i, got>>

-----------------------------------------------------------------------------
\* A call goes on once it has begun; nobody has to begin one.
Run(p) ==
  \/ write_full(p) \/ write_done(p)
  \/ read_test(p) \/ read_byte(p) \/ read_done(p)
  \/ \E b \in Bytes : write_byte(p, b)
Resume(p) == write_resume(p) \/ read_resume(p) \/ pipeclose(p)
Close(p) == fileclose_read(p) \/ fileclose_write(p)

Next ==
  \E p \in Procs : \/ Run(p) \/ Resume(p) \/ Close(p) \/ kill(p)
                   \/ \E k \in Counts : write_enter(p, k) \/ read_enter(p, k)

Spec == Init /\ [][Next]_vars

\* What runs goes on; the round-robin scheduler gives every runnable process
\* the CPU, and then the lock is free; a killed process exits and closes.
Fairness ==
  \A p \in Procs : /\ WF_vars(Run(p))
                   /\ SF_vars(Resume(p))
                   /\ WF_vars(p \in killed /\ Close(p))
FairSpec == Spec /\ Fairness

-----------------------------------------------------------------------------
\* The bytes in the buffer, oldest first.
Queue == [k \in 1 .. (nwrite + UINT - nread) % UINT |->
            data[(nread + k - 1) % PIPESIZE]]

Bounded == INSTANCE Fifo WITH queue <- Queue, Capacity <- PIPESIZE

\* The ring buffer is a FIFO of PIPESIZE bytes (pipe.c:92, 115): no byte is
\* lost, repeated or overtaken, although blocked readers and writers take
\* turns in the middle of their calls and the counters wrap around.
IsFifo == Bounded!FifoSpec

\* Nobody sleeps through what it waits for (pipe.c:89, 94, 117): when the
\* lock is free a sleeping writer faces a full buffer with readers left, and
\* a sleeping reader an empty one with writers left.  The second half needs
\* that no process was killed: see NoReaderStranded.
NoLostWakeup ==
  lock = {} => \A p \in Procs :
    /\ pc[p] = "wsleep" => Full /\ readopen
    /\ pc[p] = "rsleep" => writeopen /\ (Empty \/ killed # {})

\* piperead returns 0 bytes for end of file only (pipe.c:105-111): a reader
\* overtaken by another reader waits again.
ZeroMeansEof ==
  \A p \in Procs :
    pc[p] = "copy" /\ i[p] = 0 /\ n[p] > 0 /\ Empty => wfd = {} /\ ~writeopen

\* The page is freed when both ends are closed and not before (pipe.c:69-73):
\* no process that is inside or about to enter the pipe's code finds it gone.
NoUseAfterFree ==
  freed => /\ rfd = {} /\ wfd = {}
           /\ \A p \in Procs : pc[p] = "idle"

\* Closing one end releases everybody blocked on the other (pipe.c:62-67).
CloseUnblocks ==
  \A p \in Procs : /\ (wfd = {} /\ pc[p] \in Reading) ~> pc[p] = "idle"
                   /\ (rfd = {} /\ pc[p] \in Writing) ~> pc[p] = "idle"

\* A killed process leaves read and write, and when the last of them has
\* exited the pipe's page is given back (pipe.c:85, 106, 69-71).
KilledLeaves == killed = Procs ~> freed

\* The comment at pipe.c:105: a reader waits for "pipe-empty".  A killed
\* writer that finds the buffer full again returns -1 (pipe.c:85-87) without
\* the wakeup for the bytes it has already put in: a reader sleeps on while
\* the pipe is full.
NoReaderStranded ==
  \A p \in Procs : (pc[p] = "rsleep" /\ ~Empty) ~> pc[p] # "rsleep"
=============================================================================
