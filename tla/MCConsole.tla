----------------------------- MODULE MCConsole -----------------------------
(* Instances of Console: UINT stands for 2^32 and wraps around soon. *)
EXTENDS Console

CONSTANTS p1, p2

TwoProcs == {p1, p2}
OneLetter == {"a"}
MCCounts == {1, 3}
=============================================================================
