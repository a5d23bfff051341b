----------------------------- MODULE PipeProofs -----------------------------
(***************************************************************************)
(* Safety of the pipe for any processes, buffer size and counter width:    *)
(* nobody uses a freed page, sleeps through a wakeup, or takes an empty    *)
(* buffer for the end of file, and the ring buffer is a FIFO.              *)
(***************************************************************************)
EXTENDS Pipe, Counters, TLAPS

Inside == {"write", "read", "copy"}

PipeTypes ==
  /\ readopen \in BOOLEAN /\ writeopen \in BOOLEAN /\ freed \in BOOLEAN
  /\ rfd \in SUBSET Procs /\ wfd \in SUBSET Procs
  /\ pc \in [Procs -> PCs]
  /\ n \in [Procs -> Nat] /\ i \in [Procs -> Nat]

\* The loops run with the lock, one process at a time.
LockHeld == \A p \in Procs : pc[p] \in Inside => lock = {p}

\* A process inside read or write has the file open.
CallersOpen ==
  \A p \in Procs : /\ pc[p] \in Reading => p \in rfd
                   /\ pc[p] \in Writing => p \in wfd

\* One process calls pipeclose for an end, after its last reference is gone,
\* and the end is open until then.
OneCloser ==
  /\ \A p \in Procs : /\ pc[p] = "rclose" => rfd = {} /\ readopen
                      /\ pc[p] = "wclose" => wfd = {} /\ writeopen
  /\ \A p, q \in Procs :
       pc[p] \in {"rclose", "wclose"} /\ pc[q] = pc[p] => p = q
  /\ ~readopen => rfd = {}
  /\ ~writeopen => wfd = {}
  /\ freed => ~readopen /\ ~writeopen

\* A writer sleeps in front of a full buffer, or of a reader that is going to
\* wake it; readers likewise, as long as nobody was killed.
Sleepers ==
  \A p \in Procs :
    /\ pc[p] = "wsleep" => /\ readopen
                           /\ Full \/ \E q \in Procs : pc[q] = "copy"
    /\ pc[p] = "rsleep" => /\ writeopen
                           /\ \/ Empty \/ killed # {}
                              \/ \E q \in Procs : pc[q] = "write"

PipeInv ==
  PipeTypes /\ LockHeld /\ CallersOpen /\ OneCloser /\ Sleepers /\ ZeroMeansEof

-----------------------------------------------------------------------------
(* One lemma per action, with one step per conjunct of PipeInv.            *)

(* write_enter preserves PipeInv. *)
LEMMA Step_write_enter ==
  ASSUME PipeInv, NEW p \in Procs, NEW k \in Counts, write_enter(p, k)
  PROVE  PipeInv'
<1> USE PipeAssumption DEF PipeInv, write_enter, goto, buf, ends
<1>1. PipeTypes'
  BY DEF PipeTypes, PCs, Writing, Reading
<1>2. LockHeld'
  BY DEF LockHeld, PCs, Writing, Reading, Inside, PipeTypes
<1>3. CallersOpen'
  BY DEF CallersOpen, PCs, Writing, Reading, PipeTypes, Inside
<1>4. OneCloser'
  BY DEF OneCloser, PCs, Writing, Reading, PipeTypes
<1>5. Sleepers'
    BY DEF Sleepers, PCs, Writing, Reading, PipeTypes, LockHeld, Inside, Full,
         Empty, CallersOpen, OneCloser
<1>6. ZeroMeansEof'
    BY DEF ZeroMeansEof, PCs, Writing, Reading, PipeTypes, LockHeld, Inside,
         Empty, OneCloser
<1> QED  BY <1>1, <1>2, <1>3, <1>4, <1>5, <1>6

(* write_byte preserves PipeInv. *)
LEMMA Step_write_byte ==
  ASSUME PipeInv, NEW p \in Procs, NEW b \in Bytes, write_byte(p, b)
  PROVE  PipeInv'
<1> USE PipeAssumption DEF PipeInv, write_byte, buf, ends
<1>1. PipeTypes'
  BY DEF PipeTypes, PCs, Writing, Reading
<1>2. LockHeld'
  BY DEF LockHeld, PCs, Writing, Reading, Inside, PipeTypes
<1>3. CallersOpen'
  BY DEF CallersOpen, PCs, Writing, Reading, PipeTypes, Inside
<1>4. OneCloser'
  BY DEF OneCloser, PCs, Writing, Reading, PipeTypes
<1>5. Sleepers'
    BY DEF Sleepers, PCs, Writing, Reading, PipeTypes, LockHeld, Inside, Full,
         Empty, CallersOpen, OneCloser
<1>6. ZeroMeansEof'
    BY DEF ZeroMeansEof, PCs, Writing, Reading, PipeTypes, LockHeld, Inside,
         Empty, OneCloser
<1> QED  BY <1>1, <1>2, <1>3, <1>4, <1>5, <1>6

(* write_full preserves PipeInv. *)
LEMMA Step_write_full ==
  ASSUME PipeInv, NEW p \in Procs, write_full(p)
  PROVE  PipeInv'
<1> USE PipeAssumption DEF PipeInv, write_full, goto, return, wakeup_readers, wakeup,
                           buf, ends
<1>1. PipeTypes'
  BY DEF PipeTypes, PCs, Writing, Reading
<1>2. LockHeld'
  BY DEF LockHeld, PCs, Writing, Reading, Inside, PipeTypes
<1>3. CallersOpen'
  BY DEF CallersOpen, PCs, Writing, Reading, PipeTypes, Inside
<1>4. OneCloser'
  BY DEF OneCloser, PCs, Writing, Reading, PipeTypes
<1>5. Sleepers'
    BY DEF Sleepers, PCs, Writing, Reading, PipeTypes, LockHeld, Inside, Full,
         Empty, CallersOpen, OneCloser
<1>6. ZeroMeansEof'
    BY DEF ZeroMeansEof, PCs, Writing, Reading, PipeTypes, LockHeld, Inside,
         Empty, OneCloser
<1> QED  BY <1>1, <1>2, <1>3, <1>4, <1>5, <1>6

(* write_resume preserves PipeInv. *)
LEMMA Step_write_resume ==
  ASSUME PipeInv, NEW p \in Procs, write_resume(p)
  PROVE  PipeInv'
<1> USE PipeAssumption DEF PipeInv, write_resume, goto, buf, ends
<1>1. PipeTypes'
  BY DEF PipeTypes, PCs, Writing, Reading
<1>2. LockHeld'
  BY DEF LockHeld, PCs, Writing, Reading, Inside, PipeTypes
<1>3. CallersOpen'
  BY DEF CallersOpen, PCs, Writing, Reading, PipeTypes, Inside
<1>4. OneCloser'
  BY DEF OneCloser, PCs, Writing, Reading, PipeTypes
<1>5. Sleepers'
    BY DEF Sleepers, PCs, Writing, Reading, PipeTypes, LockHeld, Inside, Full,
         Empty, CallersOpen, OneCloser
<1>6. ZeroMeansEof'
    BY DEF ZeroMeansEof, PCs, Writing, Reading, PipeTypes, LockHeld, Inside,
         Empty, OneCloser
<1> QED  BY <1>1, <1>2, <1>3, <1>4, <1>5, <1>6

(* write_done preserves PipeInv. *)
LEMMA Step_write_done ==
  ASSUME PipeInv, NEW p \in Procs, write_done(p)
  PROVE  PipeInv'
<1> USE PipeAssumption DEF PipeInv, write_done, return, wakeup_readers, wakeup,
                           buf, ends
<1>1. PipeTypes'
  BY DEF PipeTypes, PCs, Writing, Reading
<1>2. LockHeld'
  BY DEF LockHeld, PCs, Writing, Reading, Inside, PipeTypes
<1>3. CallersOpen'
  BY DEF CallersOpen, PCs, Writing, Reading, PipeTypes, Inside
<1>4. OneCloser'
  BY DEF OneCloser, PCs, Writing, Reading, PipeTypes
<1>5. Sleepers'
    BY DEF Sleepers, PCs, Writing, Reading, PipeTypes, LockHeld, Inside, Full,
         Empty, CallersOpen, OneCloser
<1>6. ZeroMeansEof'
    BY DEF ZeroMeansEof, PCs, Writing, Reading, PipeTypes, LockHeld, Inside,
         Empty, OneCloser
<1> QED  BY <1>1, <1>2, <1>3, <1>4, <1>5, <1>6

(* read_enter preserves PipeInv. *)
LEMMA Step_read_enter ==
  ASSUME PipeInv, NEW p \in Procs, NEW k \in Counts, read_enter(p, k)
  PROVE  PipeInv'
<1> USE PipeAssumption DEF PipeInv, read_enter, goto, buf, ends
<1>1. PipeTypes'
  BY DEF PipeTypes, PCs, Writing, Reading
<1>2. LockHeld'
  BY DEF LockHeld, PCs, Writing, Reading, Inside, PipeTypes
<1>3. CallersOpen'
  BY DEF CallersOpen, PCs, Writing, Reading, PipeTypes, Inside
<1>4. OneCloser'
  BY DEF OneCloser, PCs, Writing, Reading, PipeTypes
<1>5. Sleepers'
    BY DEF Sleepers, PCs, Writing, Reading, PipeTypes, LockHeld, Inside, Full,
         Empty, CallersOpen, OneCloser
<1>6. ZeroMeansEof'
    BY DEF ZeroMeansEof, PCs, Writing, Reading, PipeTypes, LockHeld, Inside,
         Empty, OneCloser
<1> QED  BY <1>1, <1>2, <1>3, <1>4, <1>5, <1>6

(* read_resume preserves PipeInv. *)
LEMMA Step_read_resume ==
  ASSUME PipeInv, NEW p \in Procs, read_resume(p)
  PROVE  PipeInv'
<1> USE PipeAssumption DEF PipeInv, read_resume, goto, buf, ends
<1>1. PipeTypes'
  BY DEF PipeTypes, PCs, Writing, Reading
<1>2. LockHeld'
  BY DEF LockHeld, PCs, Writing, Reading, Inside, PipeTypes
<1>3. CallersOpen'
  BY DEF CallersOpen, PCs, Writing, Reading, PipeTypes, Inside
<1>4. OneCloser'
  BY DEF OneCloser, PCs, Writing, Reading, PipeTypes
<1>5. Sleepers'
    BY DEF Sleepers, PCs, Writing, Reading, PipeTypes, LockHeld, Inside, Full,
         Empty, CallersOpen, OneCloser
<1>6. ZeroMeansEof'
    BY DEF ZeroMeansEof, PCs, Writing, Reading, PipeTypes, LockHeld, Inside,
         Empty, OneCloser
<1> QED  BY <1>1, <1>2, <1>3, <1>4, <1>5, <1>6

(* read_test preserves PipeInv. *)
LEMMA Step_read_test ==
  ASSUME PipeInv, NEW p \in Procs, read_test(p)
  PROVE  PipeInv'
<1> USE PipeAssumption DEF PipeInv, read_test, goto, return, buf, ends
<1>1. PipeTypes'
  BY DEF PipeTypes, PCs, Writing, Reading
<1>2. LockHeld'
  BY DEF LockHeld, PCs, Writing, Reading, Inside, PipeTypes
<1>3. CallersOpen'
  BY DEF CallersOpen, PCs, Writing, Reading, PipeTypes, Inside
<1>4. OneCloser'
  BY DEF OneCloser, PCs, Writing, Reading, PipeTypes
<1>5. Sleepers'
    BY DEF Sleepers, PCs, Writing, Reading, PipeTypes, LockHeld, Inside, Full,
         Empty, CallersOpen, OneCloser
<1>6. ZeroMeansEof'
    BY DEF ZeroMeansEof, PCs, Writing, Reading, PipeTypes, LockHeld, Inside,
         Empty, OneCloser
<1> QED  BY <1>1, <1>2, <1>3, <1>4, <1>5, <1>6

(* read_byte preserves PipeInv. *)
LEMMA Step_read_byte ==
  ASSUME PipeInv, NEW p \in Procs, read_byte(p)
  PROVE  PipeInv'
<1> USE PipeAssumption DEF PipeInv, read_byte, buf, ends
<1>1. PipeTypes'
  BY DEF PipeTypes, PCs, Writing, Reading
<1>2. LockHeld'
  BY DEF LockHeld, PCs, Writing, Reading, Inside, PipeTypes
<1>3. CallersOpen'
  BY DEF CallersOpen, PCs, Writing, Reading, PipeTypes, Inside
<1>4. OneCloser'
  BY DEF OneCloser, PCs, Writing, Reading, PipeTypes
<1>5. Sleepers'
    BY DEF Sleepers, PCs, Writing, Reading, PipeTypes, LockHeld, Inside, Full,
         Empty, CallersOpen, OneCloser
<1>6. ZeroMeansEof'
    BY DEF ZeroMeansEof, PCs, Writing, Reading, PipeTypes, LockHeld, Inside,
         Empty, OneCloser
<1> QED  BY <1>1, <1>2, <1>3, <1>4, <1>5, <1>6

(* read_done preserves PipeInv. *)
LEMMA Step_read_done ==
  ASSUME PipeInv, NEW p \in Procs, read_done(p)
  PROVE  PipeInv'
<1> USE PipeAssumption DEF PipeInv, read_done, return, wakeup_writers, wakeup,
                           buf, ends
<1>1. PipeTypes'
  BY DEF PipeTypes, PCs, Writing, Reading
<1>2. LockHeld'
  BY DEF LockHeld, PCs, Writing, Reading, Inside, PipeTypes
<1>3. CallersOpen'
  BY DEF CallersOpen, PCs, Writing, Reading, PipeTypes, Inside
<1>4. OneCloser'
  BY DEF OneCloser, PCs, Writing, Reading, PipeTypes
<1>5. Sleepers'
    BY DEF Sleepers, PCs, Writing, Reading, PipeTypes, LockHeld, Inside, Full,
         Empty, CallersOpen, OneCloser
<1>6. ZeroMeansEof'
    BY DEF ZeroMeansEof, PCs, Writing, Reading, PipeTypes, LockHeld, Inside,
         Empty, OneCloser
<1> QED  BY <1>1, <1>2, <1>3, <1>4, <1>5, <1>6

(* fileclose_read preserves PipeInv. *)
LEMMA Step_fileclose_read ==
  ASSUME PipeInv, NEW p \in Procs, fileclose_read(p)
  PROVE  PipeInv'
<1> USE PipeAssumption DEF PipeInv, fileclose_read, goto, buf, ends
<1>1. PipeTypes'
  BY DEF PipeTypes, PCs, Writing, Reading
<1>2. LockHeld'
  BY DEF LockHeld, PCs, Writing, Reading, Inside, PipeTypes
<1>3. CallersOpen'
  BY DEF CallersOpen, PCs, Writing, Reading, PipeTypes, Inside
<1>4. OneCloser'
  BY DEF OneCloser, PCs, Writing, Reading, PipeTypes
<1>5. Sleepers'
    BY DEF Sleepers, PCs, Writing, Reading, PipeTypes, LockHeld, Inside, Full,
         Empty, CallersOpen, OneCloser
<1>6. ZeroMeansEof'
    BY DEF ZeroMeansEof, PCs, Writing, Reading, PipeTypes, LockHeld, Inside,
         Empty, OneCloser
<1> QED  BY <1>1, <1>2, <1>3, <1>4, <1>5, <1>6

(* fileclose_write preserves PipeInv. *)
LEMMA Step_fileclose_write ==
  ASSUME PipeInv, NEW p \in Procs, fileclose_write(p)
  PROVE  PipeInv'
<1> USE PipeAssumption DEF PipeInv, fileclose_write, goto, buf, ends
<1>1. PipeTypes'
  BY DEF PipeTypes, PCs, Writing, Reading
<1>2. LockHeld'
  BY DEF LockHeld, PCs, Writing, Reading, Inside, PipeTypes
<1>3. CallersOpen'
  BY DEF CallersOpen, PCs, Writing, Reading, PipeTypes, Inside
<1>4. OneCloser'
  BY DEF OneCloser, PCs, Writing, Reading, PipeTypes
<1>5. Sleepers'
    BY DEF Sleepers, PCs, Writing, Reading, PipeTypes, LockHeld, Inside, Full,
         Empty, CallersOpen, OneCloser
<1>6. ZeroMeansEof'
    BY DEF ZeroMeansEof, PCs, Writing, Reading, PipeTypes, LockHeld, Inside,
         Empty, OneCloser
<1> QED  BY <1>1, <1>2, <1>3, <1>4, <1>5, <1>6

(* pipeclose preserves PipeInv. *)
LEMMA Step_pipeclose ==
  ASSUME PipeInv, NEW p \in Procs, pipeclose(p)
  PROVE  PipeInv'
<1> USE PipeAssumption DEF PipeInv, pipeclose, wakeup_readers, wakeup_writers, wakeup,
                           buf, ends
<1>1. PipeTypes'
  BY DEF PipeTypes, PCs, Writing, Reading
<1>2. LockHeld'
  BY DEF LockHeld, PCs, Writing, Reading, Inside, PipeTypes
<1>3. CallersOpen'
  BY DEF CallersOpen, PCs, Writing, Reading, PipeTypes, Inside
<1>4. OneCloser'
  BY DEF OneCloser, PCs, Writing, Reading, PipeTypes
<1>5. Sleepers'
    BY DEF Sleepers, PCs, Writing, Reading, PipeTypes, LockHeld, Inside, Full,
         Empty, CallersOpen, OneCloser
<1>6. ZeroMeansEof'
    BY DEF ZeroMeansEof, PCs, Writing, Reading, PipeTypes, LockHeld, Inside,
         Empty, OneCloser
<1> QED  BY <1>1, <1>2, <1>3, <1>4, <1>5, <1>6

(* kill preserves PipeInv. *)
LEMMA Step_kill ==
  ASSUME PipeInv, NEW p \in Procs, kill(p)
  PROVE  PipeInv'
<1> USE PipeAssumption DEF PipeInv, kill, buf, ends
<1>1. PipeTypes'
  BY DEF PipeTypes, PCs, Writing, Reading
<1>2. LockHeld'
  BY DEF LockHeld, PCs, Writing, Reading, Inside, PipeTypes
<1>3. CallersOpen'
  BY DEF CallersOpen, PCs, Writing, Reading, PipeTypes, Inside
<1>4. OneCloser'
  BY DEF OneCloser, PCs, Writing, Reading, PipeTypes
<1>5. Sleepers'
    BY DEF Sleepers, PCs, Writing, Reading, PipeTypes, LockHeld, Inside, Full,
         Empty, CallersOpen, OneCloser
<1>6. ZeroMeansEof'
    BY DEF ZeroMeansEof, PCs, Writing, Reading, PipeTypes, LockHeld, Inside,
         Empty, OneCloser
<1> QED  BY <1>1, <1>2, <1>3, <1>4, <1>5, <1>6

-----------------------------------------------------------------------------
(* After pipealloc PipeInv holds. *)
LEMMA InitPipeInv == Init => PipeInv
<1> SUFFICES ASSUME Init PROVE PipeInv
  OBVIOUS
<1>1. PipeTypes
  BY DEF Init, PipeTypes, PCs
<1>2. \A p \in Procs : pc[p] = "idle"
  BY DEF Init
<1>3. LockHeld /\ CallersOpen /\ Sleepers /\ ZeroMeansEof
  BY <1>2 DEF LockHeld, CallersOpen, Sleepers, ZeroMeansEof, Inside, Reading,
              Writing
<1>4. OneCloser
  BY <1>2 DEF Init, OneCloser
<1> QED  BY <1>1, <1>3, <1>4 DEF PipeInv

(* No step of the pipe destroys PipeInv. *)
LEMMA NextPipeInv == PipeInv /\ [Next]_vars => PipeInv'
<1> SUFFICES ASSUME PipeInv, [Next]_vars PROVE PipeInv'
  OBVIOUS
<1>1. CASE UNCHANGED vars
  BY <1>1 DEF vars, buf, ends, PipeInv, PipeTypes, LockHeld, CallersOpen,
              OneCloser, Sleepers, ZeroMeansEof, Full, Empty
<1>2. ASSUME NEW p \in Procs, Run(p) PROVE PipeInv'
  BY <1>2, Step_write_full, Step_write_done, Step_read_test, Step_read_byte,
     Step_read_done, Step_write_byte DEF Run
<1>3. ASSUME NEW p \in Procs, Resume(p) PROVE PipeInv'
  BY <1>3, Step_write_resume, Step_read_resume, Step_pipeclose DEF Resume
<1>4. ASSUME NEW p \in Procs, Close(p) PROVE PipeInv'
  BY <1>4, Step_fileclose_read, Step_fileclose_write DEF Close
<1>5. ASSUME NEW p \in Procs, NEW k \in Counts,
             write_enter(p, k) \/ read_enter(p, k)
      PROVE  PipeInv'
  BY <1>5, Step_write_enter, Step_read_enter
<1> QED  BY <1>1, <1>2, <1>3, <1>4, <1>5, Step_kill DEF Next

(* PipeInv holds in every reachable state, whatever the constants. *)
THEOREM PipeInvariant == Spec => []PipeInv
<1>1. PipeInv /\ [Next]_vars => PipeInv'
  BY NextPipeInv
<1> QED  BY InitPipeInv, <1>1, PTL DEF Spec

(* pipeclose frees the page when nobody can reach it any more              *)
(* (pipe.c:69-73), however many processes share the pipe.                  *)
THEOREM PipeNoUseAfterFree == Spec => []NoUseAfterFree
<1>1. PipeInv => NoUseAfterFree
  <2> SUFFICES ASSUME PipeInv, freed
               PROVE  /\ rfd = {} /\ wfd = {}
                      /\ \A p \in Procs : pc[p] = "idle"
    BY DEF NoUseAfterFree
  <2>1. rfd = {} /\ wfd = {} /\ ~readopen /\ ~writeopen
    BY DEF PipeInv, OneCloser
  <2> QED  BY <2>1 DEF PipeInv, PipeTypes, CallersOpen, OneCloser, PCs
<1> QED  BY PipeInvariant, <1>1, PTL

(* With the lock free, a sleeping writer faces a full buffer and a         *)
(* sleeping reader an empty one (pipe.c:89, 94, 117), unless a process was *)
(* killed.                                                                 *)
THEOREM PipeNoLostWakeup == Spec => []NoLostWakeup
<1>1. PipeInv => NoLostWakeup
  BY DEF PipeInv, NoLostWakeup, Sleepers, LockHeld, Inside
<1> QED  BY PipeInvariant, <1>1, PTL

(* A read of n > 0 bytes that copies nothing has met the end of file       *)
(* (pipe.c:105-111), also when another reader took the bytes it was woken  *)
(* for.                                                                    *)
THEOREM PipeZeroMeansEof == Spec => []ZeroMeansEof
<1>1. PipeInv => ZeroMeansEof
  BY DEF PipeInv
<1> QED  BY PipeInvariant, <1>1, PTL
-----------------------------------------------------------------------------
(***************************************************************************)
(* The ring buffer is a FIFO: arithmetic of the counters, then one step of *)
(* the abstract queue for each byte written or read.                       *)
(***************************************************************************)
(* The sizes, without the division. *)
LEMMA Sizes ==
  PIPESIZE \in Nat \ {0} /\ UINT \in Nat /\ UINT > PIPESIZE
BY PipeAssumption

(* The number of bytes between two values of the counters. *)
Distance(k, l) == (k + UINT - l) % UINT

(* It is their difference, once around when only nwrite has wrapped. *)
LEMMA Apart ==
  ASSUME NEW k \in 0 .. UINT - 1, NEW l \in 0 .. UINT - 1
  PROVE  Distance(k, l) = IF l <= k THEN k - l ELSE k + UINT - l
BY DistanceIs, Sizes DEF Distance

(* nread++, nwrite++ and nread + PIPESIZE wrap around. *)
LEMMA Wraps ==
  ASSUME NEW k \in 0 .. UINT - 1
  PROVE  /\ (k + 1) % UINT = IF k + 1 < UINT THEN k + 1 ELSE k + 1 - UINT
         /\ (k + PIPESIZE) % UINT = IF k + PIPESIZE < UINT THEN k + PIPESIZE
                                    ELSE k + PIPESIZE - UINT
<1>1. UINT \in Nat /\ 1 \in 0 .. UINT /\ PIPESIZE \in 0 .. UINT
  BY Sizes
<1> QED  BY <1>1, WrapIs, Zenon

(* The counters are never more than PIPESIZE apart. *)
BufferInv ==
  /\ data \in [0 .. PIPESIZE - 1 -> Bytes]
  /\ nread \in 0 .. UINT - 1 /\ nwrite \in 0 .. UINT - 1
  /\ Distance(nwrite, nread) <= PIPESIZE

(* The abstract queue is as long as the counters are apart, and made of    *)
(* the bytes between them.                                                 *)
QueueOk ==
  /\ Queue \in Seq(Bytes) /\ Len(Queue) = Distance(nwrite, nread)
  /\ \A k \in 1 .. Distance(nwrite, nread) :
       Queue[k] = data[(nread + k - 1) % PIPESIZE]

(* The buffer always holds such a queue. *)
LEMMA QueueIs == BufferInv => QueueOk
<1> SUFFICES ASSUME BufferInv PROVE QueueOk
  OBVIOUS
<1> DEFINE d == Distance(nwrite, nread)
<1>1. d = IF nread <= nwrite THEN nwrite - nread ELSE nwrite + UINT - nread
  BY Apart DEF BufferInv
<1>2. Queue = [k \in 1 .. d |-> data[(nread + k - 1) % PIPESIZE]]
  BY Zenon DEF Queue, Distance
<1> HIDE DEF d
<1>3. d \in Nat
  BY <1>1, Sizes DEF BufferInv
<1>4. \A k \in 1 .. d : data[(nread + k - 1) % PIPESIZE] \in Bytes
  <2> TAKE k \in 1 .. d
  <2>1. nread + k - 1 \in Nat
    BY <1>3 DEF BufferInv
  <2> QED  BY <2>1, Place, Sizes DEF BufferInv
<1>5. Queue \in Seq(Bytes) /\ Len(Queue) = d
  BY <1>2, <1>3, <1>4
<1>6. \A k \in 1 .. d : Queue[k] = data[(nread + k - 1) % PIPESIZE]
  BY <1>2
<1> QED  BY <1>5, <1>6 DEF d, QueueOk

(* write_byte puts a byte at the end of the queue: its place in the buffer *)
(* is behind the last byte and belongs to none that is not read yet.       *)
LEMMA PutByte ==
  ASSUME BufferInv, NEW p \in Procs, NEW b \in Bytes, write_byte(p, b)
  PROVE  BufferInv' /\ Bounded!Put(b)
<1> DEFINE d == Distance(nwrite, nread)
           slot(k) == (nread + k - 1) % PIPESIZE
<1>1. d = IF nread <= nwrite THEN nwrite - nread ELSE nwrite + UINT - nread
  BY Apart DEF BufferInv
<1>2. nwrite' = IF nwrite + 1 < UINT THEN nwrite + 1 ELSE nwrite + 1 - UINT
  BY Wraps DEF BufferInv, write_byte
<1>3. nwrite # IF nread + PIPESIZE < UINT THEN nread + PIPESIZE
               ELSE nread + PIPESIZE - UINT
  <2>1. (nread + PIPESIZE) % UINT = IF nread + PIPESIZE < UINT
                                    THEN nread + PIPESIZE
                                    ELSE nread + PIPESIZE - UINT
    BY Wraps DEF BufferInv
  <2> QED  BY <2>1 DEF write_byte, Full
<1>4. nwrite' \in 0 .. UINT - 1 /\ nread' = nread
  BY <1>2, Sizes DEF BufferInv, write_byte
<1>5. Distance(nwrite', nread') = IF nread <= nwrite' THEN nwrite' - nread
                                  ELSE nwrite' + UINT - nread
  BY <1>4, Apart DEF BufferInv
<1>6. d \in 0 .. PIPESIZE - 1 /\ Distance(nwrite', nread') = d + 1
  BY <1>1, <1>2, <1>3, <1>5, Sizes DEF BufferInv
<1>7. slot(d + 1) = nwrite % PIPESIZE
  <2>1. nread + (d + 1) - 1 = nwrite \/ nread + (d + 1) - 1 = nwrite + UINT
    BY <1>1, Sizes DEF BufferInv
  <2>2. (nwrite + UINT) % PIPESIZE = nwrite % PIPESIZE
    <3>1. nwrite \in Nat
      BY Sizes DEF BufferInv
    <3> QED  BY <3>1, SamePlace, PipeAssumption, Zenon
  <2> QED  BY <2>1, <2>2
<1>8. \A k \in 1 .. d : slot(k) # nwrite % PIPESIZE
  <2> TAKE k \in 1 .. d
  <2>1. /\ nread + k - 1 \in Nat /\ nread + (d + 1) - 1 \in Nat
        /\ nread + k - 1 < nread + (d + 1) - 1
        /\ nread + (d + 1) - 1 < nread + k - 1 + PIPESIZE
    BY <1>6, Sizes DEF BufferInv
  <2>2. slot(k) # slot(d + 1)
    BY <2>1, Sizes, DistinctPlaces, Zenon
  <2> QED  BY <1>7, <2>2
<1>9. \A k \in 1 .. d : slot(k) \in 0 .. PIPESIZE - 1
  <2> TAKE k \in 1 .. d
  <2>1. nread + k - 1 \in Nat
    BY <1>6 DEF BufferInv
  <2> QED  BY <2>1, Place, Sizes
<1>10. /\ data' = [data EXCEPT ![nwrite % PIPESIZE] = b] /\ got' = got
       /\ nwrite % PIPESIZE \in 0 .. PIPESIZE - 1
  BY Place, Sizes DEF BufferInv, write_byte
<1>11. /\ Queue \in Seq(Bytes) /\ Len(Queue) = d
       /\ \A k \in 1 .. d : Queue[k] = data[slot(k)]
  BY QueueIs DEF QueueOk
<1>12. BufferInv'
  BY <1>4, <1>6, <1>10, Sizes DEF BufferInv
<1>13. /\ Queue' \in Seq(Bytes) /\ Len(Queue') = d + 1
       /\ \A k \in 1 .. d + 1 : Queue'[k] = data'[slot(k)]
  <2>1. BufferInv' => QueueOk'
    BY QueueIs, PTL
  <2> QED  BY <1>4, <1>6, <1>12, <2>1 DEF QueueOk
<1> HIDE DEF d, slot
<1>14. Queue' = Append(Queue, b)
  <2>1. \A k \in 1 .. d : Queue'[k] = Queue[k]
    BY <1>6, <1>8, <1>9, <1>10, <1>11, <1>13 DEF BufferInv
  <2>2. Queue'[d + 1] = b
    BY <1>6, <1>7, <1>10, <1>13 DEF BufferInv
  <2> QED  BY <1>6, <1>11, <1>13, <2>1, <2>2
<1> QED  BY <1>6, <1>10, <1>11, <1>12, <1>14, Sizes DEF Bounded!Put
(* read_byte takes the first byte of the queue: the others keep their      *)
(* places, also when nread wraps around.                                   *)
LEMMA GetByte ==
  ASSUME BufferInv, NEW p \in Procs, read_byte(p)
  PROVE  BufferInv' /\ Bounded!Get
<1> DEFINE d == Distance(nwrite, nread)
           slot(k) == (nread + k - 1) % PIPESIZE
<1>1. d = IF nread <= nwrite THEN nwrite - nread ELSE nwrite + UINT - nread
  BY Apart DEF BufferInv
<1>2. nread' = IF nread + 1 < UINT THEN nread + 1 ELSE nread + 1 - UINT
  BY Wraps DEF BufferInv, read_byte
<1>3. nread' \in 0 .. UINT - 1 /\ nwrite' = nwrite /\ nread # nwrite
  BY <1>2, Sizes DEF BufferInv, read_byte, Empty
<1>4. Distance(nwrite', nread') = IF nread' <= nwrite THEN nwrite - nread'
                                  ELSE nwrite + UINT - nread'
  BY <1>3, Apart DEF BufferInv
<1>5. d \in 1 .. PIPESIZE /\ Distance(nwrite', nread') = d - 1
  BY <1>1, <1>2, <1>3, <1>4, Sizes DEF BufferInv
<1>6. \A k \in Nat \ {0} : (nread' + k - 1) % PIPESIZE = slot(k + 1)
  <2> TAKE k \in Nat \ {0}
  <2>1. nread' + k - 1 \in Nat
    <3>1. nread' \in Nat
      BY <1>3, Sizes
    <3>2. \A r \in Nat : r + k - 1 \in Nat
      OBVIOUS
    <3> QED  BY <3>1, <3>2, Zenon
  <2>2. \/ nread + (k + 1) - 1 = nread' + k - 1
        \/ nread + (k + 1) - 1 = nread' + k - 1 + UINT
    BY <1>2, Sizes DEF BufferInv
  <2>3. (nread' + k - 1 + UINT) % PIPESIZE = (nread' + k - 1) % PIPESIZE
    BY <2>1, SamePlace, PipeAssumption
  <2> QED  BY <2>2, <2>3
<1>7. nread + 1 - 1 = nread
  BY DEF BufferInv
<1>8. data' = data /\ got' = data[slot(1)]
  BY <1>7 DEF read_byte
<1>9. /\ Queue \in Seq(Bytes) /\ Len(Queue) = d
      /\ \A k \in 1 .. d : Queue[k] = data[slot(k)]
  BY QueueIs DEF QueueOk
<1>10. BufferInv'
  BY <1>3, <1>5, <1>8, Sizes DEF BufferInv
<1>11. /\ Queue' \in Seq(Bytes) /\ Len(Queue') = d - 1
       /\ \A k \in 1 .. d - 1 : Queue'[k] = data[slot(k + 1)]
  <2>1. BufferInv' => QueueOk'
    BY QueueIs, PTL
  <2> QED  BY <1>5, <1>6, <1>8, <1>10, <2>1 DEF QueueOk
<1> HIDE DEF d, slot
<1>12. got' = Head(Queue) /\ Queue # <<>>
  BY <1>5, <1>8, <1>9
<1>13. Queue' = Tail(Queue)
  <2>1. \A k \in 1 .. d - 1 : Queue'[k] = Queue[k + 1]
    <3> TAKE k \in 1 .. d - 1
    <3>1. k + 1 \in 1 .. d
      BY <1>5
    <3> QED  BY <1>9, <1>11, <3>1
  <2> QED  BY <1>5, <1>9, <1>11, <2>1
<1> QED  BY <1>10, <1>12, <1>13 DEF Bounded!Get

(* A step that leaves the buffer alone leaves the queue alone. *)
LEMMA QueueUnchanged ==
  ASSUME BufferInv, UNCHANGED <<buf, got>>
  PROVE  BufferInv' /\ UNCHANGED <<Queue, got>>
BY DEF buf, BufferInv, Distance, Queue

(* Every step of the pipe puts a byte, gets a byte, or leaves the queue.   *)
LEMMA NextFifo ==
  ASSUME BufferInv, [Next]_vars
  PROVE  /\ BufferInv'
         /\ [Bounded!Get \/ \E b \in Bytes : Bounded!Put(b)]_<<Queue, got>>
<1>1. ASSUME NEW p \in Procs, Run(p)
      PROVE  \/ UNCHANGED <<buf, got>> \/ read_byte(p)
             \/ \E b \in Bytes : write_byte(p, b)
  BY <1>1 DEF Run, write_full, write_done, read_test, read_done
<1>2. ASSUME NEW p \in Procs, Resume(p) \/ Close(p) \/ kill(p)
      PROVE  UNCHANGED <<buf, got>>
  BY <1>2 DEF Resume, Close, kill, write_resume, read_resume, pipeclose,
              fileclose_read, fileclose_write
<1>3. ASSUME NEW p \in Procs, NEW k \in Counts,
             write_enter(p, k) \/ read_enter(p, k)
      PROVE  UNCHANGED <<buf, got>>
  BY <1>3 DEF write_enter, read_enter
<1>4. \/ UNCHANGED <<buf, got>>
      \/ \E p \in Procs : read_byte(p) \/ \E b \in Bytes : write_byte(p, b)
  BY <1>1, <1>2, <1>3 DEF Next, vars
<1> QED  BY <1>4, PutByte, GetByte, QueueUnchanged

(* pipewrite and piperead implement a FIFO of PIPESIZE bytes (pipe.c:92,   *)
(* 115), for any processes, buffer size and counter width: no byte is      *)
(* lost, repeated or overtaken.                                            *)
THEOREM PipeIsFifo == Spec => IsFifo
<1>1. Init => BufferInv /\ Bounded!FifoInit
  <2> SUFFICES ASSUME Init PROVE BufferInv /\ Bounded!FifoInit
    OBVIOUS
  <2>1. Distance(nwrite, nread) = 0
    BY Apart, Sizes DEF Init
  <2>2. BufferInv
    BY <2>1, Sizes DEF Init, BufferInv
  <2>3. Queue = <<>>
    BY <2>1, <2>2, QueueIs DEF QueueOk
  <2> QED  BY <2>2, <2>3 DEF Init, Bounded!FifoInit
<1>2. BufferInv /\ [Next]_vars =>
        /\ BufferInv'
        /\ [Bounded!Get \/ \E b \in Bytes : Bounded!Put(b)]_<<Queue, got>>
  BY NextFifo
<1> QED  BY <1>1, <1>2, PTL DEF Spec, IsFifo, Bounded!FifoSpec
=============================================================================
