------------------------------ MODULE MCProc ------------------------------
(***************************************************************************)
(* Proc with three slots: init, a child and a grandchild or second child,  *)
(* so that orphans are passed on, slots are reused and the table is full.  *)
(***************************************************************************)
EXTENDS Proc
=============================================================================
