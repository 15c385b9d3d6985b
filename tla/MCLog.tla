------------------------------- MODULE MCLog -------------------------------
(* The log on a small machine. *)
EXTENDS Log
============================================================================
