------------------------------- MODULE MCPipe -------------------------------
(* Instances of Pipe.  UINT stands for 2^32: a multiple of PIPESIZE, small   *)
(* enough for the counters to wrap; a count above PIPESIZE blocks half-way.  *)
EXTENDS Pipe, TLC

CONSTANTS p1, p2, p3

TwoProcs == {p1, p2}
ThreeProcs == {p1, p2, p3}
OneByte == {0}
MCBytes == {0, 1}
MCCounts == {1, 3}
Symmetry == Permutations(ThreeProcs)
=============================================================================
