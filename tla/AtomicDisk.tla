---------------------------- MODULE AtomicDisk ----------------------------
(***************************************************************************)
(* What the log of xv6 promises to the file system: the file system calls  *)
(* that run between begin_op() and end_op() see and change the contents of *)
(* blocks in `mem`, and after a crash the disk holds exactly what it held  *)
(* at the last commit, `durable`.  A commit happens at a moment when one   *)
(* call, the last one, is still inside, so that no call is ever cut in     *)
(* two; and the last call does not return before its commit.               *)
(***************************************************************************)
CONSTANTS Procs, Blocks, Vals, InitVal

VARIABLES mem, durable, active

vars == <<mem, durable, active>>

Init ==
  /\ durable = [b \in Blocks |-> InitVal]
  /\ mem = durable
  /\ active = {}

Begin(p) ==
  /\ p \notin active
  /\ active' = active \union {p}
  /\ UNCHANGED <<mem, durable>>

Write(p, b, v) ==
  /\ p \in active
  /\ mem' = [mem EXCEPT ![b] = v]
  /\ UNCHANGED <<durable, active>>

\* A call that returns while another is still inside promises nothing yet.
Leave(p) ==
  /\ p \in active
  /\ active # {p}
  /\ active' = active \ {p}
  /\ UNCHANGED <<mem, durable>>

Commit(p) ==
  /\ active = {p}
  /\ durable' = mem
  /\ UNCHANGED <<mem, active>>

\* The last call returns only when everything written so far is durable.
Return(p) ==
  /\ active = {p}
  /\ mem = durable
  /\ active' = {}
  /\ UNCHANGED <<mem, durable>>

Crash ==
  /\ mem' = durable
  /\ active' = {}
  /\ UNCHANGED durable

Next ==
  \/ \E p \in Procs : Begin(p) \/ Leave(p) \/ Commit(p) \/ Return(p)
  \/ \E p \in Procs, b \in Blocks, v \in Vals : Write(p, b, v)
  \/ Crash

Spec == Init /\ [][Next]_vars
===========================================================================
