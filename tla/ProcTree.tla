------------------------------ MODULE ProcTree ------------------------------
(***************************************************************************)
(* What fork(), exit() and wait() promise about the tree of processes,     *)
(* whatever the locks, the process table and the scheduler do.  A process  *)
(* is its process ID.  An ID is used once, a process that exits gives its  *)
(* children to init, it stays a zombie until its parent collects it, and   *)
(* nobody else ever does.                                                  *)
(***************************************************************************)
EXTENDS Integers

CONSTANTS
  Pids,         \* the process IDs, an interval that starts at InitPid
  InitPid       \* the ID of init

VARIABLES
  life,         \* what has become of each process ID
  parent        \* the ID of each process's parent, 0 for none

Lives == {"unborn", "embryo", "live", "exiting", "zombie", "gone"}

Init ==
  /\ life = [p \in Pids |-> IF p = InitPid THEN "live" ELSE "unborn"]
  /\ parent = [p \in Pids |-> 0]

\* IDs are handed out in order.
Conceive(c) ==
  /\ life[c] = "unborn"
  /\ \A p \in Pids : p < c => life[p] # "unborn"
  /\ life' = [life EXCEPT ![c] = "embryo"]
  /\ UNCHANGED parent

\* A fork that fails uses up an ID.
Miscarry(c) ==
  /\ life[c] = "unborn"
  /\ \A p \in Pids : p < c => life[p] # "unborn"
  /\ life' = [life EXCEPT ![c] = "gone"]
  /\ UNCHANGED parent

Adopt(p, c) ==
  /\ life[p] = "live" /\ life[c] = "embryo" /\ parent[c] = 0
  /\ parent' = [parent EXCEPT ![c] = p]
  /\ UNCHANGED life

Start(c) ==
  /\ life[c] = "embryo" /\ parent[c] # 0
  /\ life' = [life EXCEPT ![c] = "live"]
  /\ UNCHANGED parent

\* A process on its way out has no children any more.
Abandon(p) ==
  /\ life[p] = "live" /\ p # InitPid
  /\ life' = [life EXCEPT ![p] = "exiting"]
  /\ parent' = [c \in Pids |-> IF parent[c] = p THEN InitPid ELSE parent[c]]

Die(p) ==
  /\ life[p] = "exiting"
  /\ life' = [life EXCEPT ![p] = "zombie"]
  /\ UNCHANGED parent

Reap(p, c) ==
  /\ life[p] = "live" /\ life[c] = "zombie" /\ parent[c] = p
  /\ life' = [life EXCEPT ![c] = "gone"]
  /\ parent' = [parent EXCEPT ![c] = 0]

Next ==
  \/ \E c \in Pids : Conceive(c) \/ Miscarry(c) \/ Start(c)
  \/ \E p \in Pids : Abandon(p) \/ Die(p)
  \/ \E p, c \in Pids : Adopt(p, c) \/ Reap(p, c)

Spec == Init /\ [][Next]_<<life, parent>>
=============================================================================
