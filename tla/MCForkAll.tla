----------------------------- MODULE MCForkAll -----------------------------
(* forkn() and waitall() on a small machine. *)
EXTENDS ForkAll

\* To reach the interesting states soon: process 3 is the one that exits, and
\* nobody calls wait().
OnlyVictimExits ==
  \A s \in Slots : /\ pc[s] = "exit_lock" => pid[s] = 3
                   /\ pc[s] # "wait_lock"
=============================================================================
