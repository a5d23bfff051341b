-------------------------------- MODULE MCVm --------------------------------
(* Instances of Vm: page tables of two entries, so that they are allocated  *)
(* and missing often, and programs and arguments that reach every exit of   *)
(* exec.                                                                    *)
EXTENDS Vm

CONSTANTS init, p1

MCProcs == {init, p1}
MCGrow == {-6, 2, 8}
Segment(vaddr, memsz, filesz, avail) ==
  [load |-> TRUE, vaddr |-> vaddr, memsz |-> memsz, filesz |-> filesz,
   avail |-> avail]
Program(segs) == [magic |-> TRUE, segs |-> segs]
MCPrograms ==
  {[Program(<< >>) EXCEPT !.magic = FALSE],
   Program(<<Segment(0, 3, 3, 3)>>),
   Program(<<Segment(0, 3, 3, 2)>>),
   Program(<<Segment(0, 2, 3, 3)>>),
   Program(<<Segment(0, 4, 4, 4), [Segment(0, 1, 1, 1) EXCEPT !.load = FALSE],
             Segment(4, 5, 2, 2)>>)}
MCArgvs == {<<1>>, <<3>>, <<1, 1, 1>>}
=============================================================================
