----------------------------- MODULE AtomicDisk -----------------------------
(***************************************************************************)
(* What log.c promises to the file system: a disk whose blocks change by   *)
(* transactions, one at a time, each of which survives a crash whole or    *)
(* not at all.  The module has no log, no cache and no recovery: it is the *)
(* abstract specification that module Log implements.                      *)
(***************************************************************************)
CONSTANTS Procs,   \* the processes that make system calls
          Blocks,  \* the disk blocks the file system uses
          Vals     \* the contents a block can have

VARIABLES stable,  \* what the disk holds after a crash at this moment
          current, \* what a reader of the buffer cache sees
          active   \* the processes between begin_trans and commit_trans's end

avars == <<stable, current, active>>

AInit ==
  /\ stable \in [Blocks -> Vals]
  /\ current = stable
  /\ active = {}

\* Only one transaction at a time: begin_trans waits for the others.
ABegin(p) ==
  /\ active = {}
  /\ active' = {p}
  /\ UNCHANGED <<stable, current>>

\* A write is seen by readers at once, and by a crash not at all.
AWrite(p, b, v) ==
  /\ active = {p}
  /\ current' = [current EXCEPT ![b] = v]
  /\ UNCHANGED <<stable, active>>

\* All of the transaction's writes become durable in one step.
ACommit(p) ==
  /\ active = {p}
  /\ stable' = current
  /\ UNCHANGED <<current, active>>

\* commit_trans returns only when everything written is durable.
AEnd(p) ==
  /\ active = {p}
  /\ current = stable
  /\ active' = {}
  /\ UNCHANGED <<stable, current>>

\* A crash loses what was not committed, and nothing else.
ACrash ==
  /\ current' = stable
  /\ active' = {}
  /\ UNCHANGED stable

ANext ==
  \/ \E p \in Procs : ABegin(p) \/ ACommit(p) \/ AEnd(p)
  \/ \E p \in Procs, b \in Blocks, v \in Vals : AWrite(p, b, v)
  \/ ACrash

ASpec == AInit /\ [][ANext]_avars
=============================================================================
