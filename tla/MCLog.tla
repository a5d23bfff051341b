------------------------------- MODULE MCLog -------------------------------
(***************************************************************************)
(* Log with two processes, three blocks of two contents and a log area of  *)
(* a header and two data sectors: a transaction can fill the log, absorb a *)
(* second write of a block, and overflow it.                               *)
(***************************************************************************)
EXTENDS Log
=============================================================================
