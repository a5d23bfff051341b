---------------------------- MODULE MCSpinlock ----------------------------
(***************************************************************************)
(* Spinlock with two CPUs, two locks that nest, and one explicit pushcli.  *)
(***************************************************************************)
EXTENDS Spinlock
=============================================================================
