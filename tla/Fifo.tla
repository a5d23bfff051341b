-------------------------------- MODULE Fifo --------------------------------
(***************************************************************************)
(* What a pipe promises: the bytes come out in the order in which they     *)
(* went in, each once, and at most Capacity of them are in transit.        *)
(***************************************************************************)
EXTENDS Naturals, Sequences

CONSTANTS Bytes,    \* the values of a byte
          NoByte,   \* "nothing has been read yet"
          Capacity  \* how many bytes the pipe holds

VARIABLES queue,  \* the bytes in transit, oldest first
          got     \* the byte read last

FifoInit == queue = <<>> /\ got = NoByte

Put(b) ==
  /\ Len(queue) < Capacity
  /\ queue' = Append(queue, b)
  /\ UNCHANGED got

Get ==
  /\ queue # <<>>
  /\ got' = Head(queue)
  /\ queue' = Tail(queue)

FifoSpec == FifoInit /\ [][Get \/ \E b \in Bytes : Put(b)]_<<queue, got>>
=============================================================================
