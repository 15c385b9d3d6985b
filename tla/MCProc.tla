------------------------------- MODULE MCProc -------------------------------
(* The process table on a small machine. *)
EXTENDS Proc
=============================================================================
