---------------------------- MODULE Proc_proofs ----------------------------
(***************************************************************************)
(* Proofs about processes: types, kernel stacks that are never shared,     *)
(* wakeups that are not lost, kills that reach the process they name, what *)
(* the -1 of wait() means, and the tree of process IDs.                    *)
(***************************************************************************)
EXTENDS Proc, WellFoundedInduction, TLAPS

\* The labels of forkn() and waitall() (ForkAll) are among these, so that what a
\* step of Proc preserves is known there too.
Adopting == {"fork_parent", "fn_parent"}
Starting == {"fork_run", "fn_run"}
Forking == Adopting \union Starting
Holding == Exiting \union Waiting \union {"wa_scan", "wa_free"}
AllLabels == Labels \union Forking \union Holding \union {"fn_alloc", "fn_kill", "wa_lock"}

\* What runs on a processor is a process, and on no other processor; one that
\* is on its way through sched() holds its own p->lock until it is off.
Stacks ==
  \A c \in CPUs : cpu[c] # 0 =>
     /\ state[cpu[c]] \notin {"UNUSED", "USED"}
     /\ state[cpu[c]] # "RUNNING" => plock[cpu[c]] = cpu[c]
     /\ \A d \in CPUs : cpu[d] = cpu[c] => d = c

\* The child that fork() is making belongs to that fork() alone.
Embryos ==
  \A s \in Slots : pc[s] \in Forking =>
     /\ np[s] \in Slots /\ state[np[s]] = "USED"
     /\ \A u \in Slots : pc[u] \in Forking /\ np[u] = np[s] => u = s

\* kill() holds the lock of the slot it has found, and runs until it lets go.
Victims ==
  \A s \in Slots : pc[s] = "kill_mark" =>
     state[s] = "RUNNING" /\ np[s] \in Slots /\ plock[np[s]] = s

\* wait_lock belongs to the one thread that is between its acquire() and its
\* release(), and that thread runs.
WaitLocked ==
  \A s \in Slots :
     /\ pc[s] \in Holding <=> wait_lock = s
     /\ pc[s] \in Holding => state[s] = "RUNNING"
     /\ pc[s] \in {"wake_init", "wake_parent"} => idx[s] \in Slots

\* TypeOK in three parts: what locks and processors go by, what the loops of
\* wait() and wakeup() look at, and the rest.
Types ==
  /\ state \in [Slots -> States]
  /\ plock \in [Slots -> Slots \union {0}]
  /\ wait_lock \in Slots \union {0}
  /\ cpu \in [CPUs -> Slots \union {0}]
  /\ pc \in [Slots -> AllLabels]
  /\ np \in [Slots -> Slots \union {0}]

Indices == 0..(NPROC + 1)

Loops ==
  /\ parent \in [Slots -> Slots \union {0}]
  /\ chan \in [Slots -> Slots \union {0}]
  /\ idx \in [Slots -> Indices]
  /\ havekids \in [Slots -> BOOLEAN]

Data ==
  /\ pid \in [Slots -> 0..MaxPid]
  /\ killed \in [Slots -> BOOLEAN]
  /\ xstate \in [Slots -> {0}]
  /\ xstatus \in [Slots -> Statuses]
  /\ nextpid \in 2..(MaxPid + 1)

Base == Types /\ Loops /\ Data /\ Stacks /\ Embryos /\ Victims /\ WaitLocked

Asleep(p) == state[p] = "SLEEPING" /\ chan[p] = p

\* No zombie is behind the loop index of its parent's scan, no sleeper is behind
\* that of the wakeup() meant for it, and no parent sleeps while its child dies.
Rouses ==
  \A s \in Slots :
     /\ pc[s] = "wake_init" /\ Asleep(initproc) => idx[s] = initproc
     /\ pc[s] = "wake_parent" =>
          \A p \in Slots : parent[s] = p /\ Asleep(p) => idx[s] <= p
     /\ pc[s] = "zombie" => \A p \in Slots : parent[s] = p => ~Asleep(p)
     /\ pc[s] = "wait_scan" =>
          \A t \in Slots : parent[t] = s /\ t < idx[s] =>
             state[t] # "ZOMBIE" /\ havekids[s]
     /\ pc[s] = "wait_sleep" =>
          \A t \in Slots : parent[t] = s => state[t] # "ZOMBIE"

\* A flag that is set belongs to the process ID that kill() was given, and to
\* nobody as long as the slot is free.
Named ==
  /\ \A t \in Slots : killed[t] => pid[t] \in KillPids
  /\ \A t \in Slots : state[t] = "UNUSED" => pid[t] = 0 /\ ~killed[t]
  /\ \A s \in Slots : pc[s] = "kill_mark" => pid[np[s]] \in KillPids

-----------------------------------------------------------------------------
(* Facts about the table, and about the labels and states. *)

LEMMA TypeParts == TypeOK <=> Types /\ Loops /\ Data /\ pc \in [Slots -> Labels]
BY DEF TypeOK, Types, Loops, Data, Indices, AllLabels

LEMMA SlotFacts ==
  /\ 0 \notin Slots /\ 1 \in Slots /\ NPROC \in Slots /\ initproc = 1
  /\ \A t \in Slots : t \in Int /\ 1 <= t /\ t <= NPROC /\ t \in Indices
  /\ 0 \in Indices /\ \A i \in Indices : i \in Int
BY ProcConstants DEF Slots, initproc, Indices

LEMMA Successor ==
  \A t \in Slots : t + 1 \in Indices /\ (t # NPROC => t + 1 \in Slots)
BY ProcConstants DEF Slots, Indices

LEMMA StateFacts ==
  /\ {"UNUSED", "USED", "SLEEPING", "RUNNABLE", "RUNNING", "ZOMBIE"} \subseteq States
  /\ {"user", "fork_parent", "fork_run", "exit_lock", "reparent", "wake_init",
       "wake_parent", "zombie", "wait_lock", "wait_scan", "wait_sleep",
       "kill_mark"} \subseteq Labels
  /\ Labels \subseteq AllLabels
BY DEF States, Labels, Exiting, Waiting, AllLabels

LEMMA LabelFacts ==
  /\ {"reparent", "wake_init", "wake_parent", "zombie", "wait_scan",
       "wait_sleep"} \subseteq Holding
  /\ \A l \in {"user", "fork_parent", "fork_run", "exit_lock", "wait_lock",
                "kill_mark"} : l \notin Holding
  /\ {"fork_parent", "fork_run"} \subseteq Forking
  /\ \A l \in Holding \union {"user", "exit_lock", "wait_lock", "kill_mark"} :
       l \notin Forking
BY DEF Holding, Exiting, Waiting, Forking, Adopting, Starting

\* The scan of a table finds the first slot of a set.
LEMMA FirstFacts ==
  ASSUME NEW S \in SUBSET Slots
  PROVE  /\ First(S) = 0 <=> S = {}
         /\ S # {} => First(S) \in S /\ \A u \in S : First(S) <= u
<1>1. ASSUME S # {} PROVE \E t \in S : \A u \in S : t <= u
  <2>0. S \subseteq Nat
    BY ProcConstants DEF Slots
  <2>1. \E x \in S : \A y \in S : <<y, x>> \notin OpToRel(<, Nat)
    BY <1>1, <2>0, NatLessThanWellFounded, WFMin
  <2>2. \A x, y \in Nat : <<y, x>> \notin OpToRel(<, Nat) => x <= y
    BY DEF OpToRel
  <2> QED
    BY <2>0, <2>1, <2>2
<1>2. ASSUME S # {} PROVE First(S) \in S /\ \A u \in S : First(S) <= u
  BY <1>1, <1>2 DEF First
<1>3. 0 \notin S
  BY ProcConstants DEF Slots
<1> QED
  BY <1>2, <1>3 DEF First

\* What the scan of wait() finds next, as the places of the children show.
NextKidIs ==
  \A s \in Slots :
     LET t == NextKid(s) IN
     /\ t = 0 => \A u \in Slots : parent[u] = s => u < idx[s]
     /\ t # 0 => /\ t \in Slots /\ parent[t] = s
                 /\ \A u \in Slots : parent[u] = s /\ u < t => u < idx[s]

LEMMA NextKidFacts == Loops => NextKidIs
<1> SUFFICES ASSUME Loops PROVE NextKidIs
  OBVIOUS
<1>1. ASSUME NEW s \in Slots
      PROVE  LET t == NextKid(s) IN
             /\ t = 0 => \A u \in Slots : parent[u] = s => u < idx[s]
             /\ t # 0 => /\ t \in Slots /\ parent[t] = s
                         /\ \A u \in Slots : parent[u] = s /\ u < t => u < idx[s]
  <2> DEFINE K == {t \in Children(s) : t >= idx[s]}
  <2>1. K \in SUBSET Slots
    BY DEF Children
  <2>2. idx[s] \in Int /\ \A u \in Slots : u \in Int
    BY SlotFacts DEF Loops
  <2>3. \A u \in Slots : u \in K <=> parent[u] = s /\ ~(u < idx[s])
    BY <2>2 DEF Children
  <2>4. NextKid(s) = First(K)
    BY DEF NextKid
  <2> HIDE DEF K
  <2>5. /\ First(K) = 0 <=> K = {}
        /\ K # {} => First(K) \in K /\ \A u \in K : First(K) <= u
    BY <2>1, FirstFacts
  <2> QED
    BY <2>1, <2>2, <2>3, <2>4, <2>5
<1> QED
  BY <1>1 DEF NextKidIs

-----------------------------------------------------------------------------
(* Every step keeps the types, the locks and the kernel stacks. *)

LEMMA BaseStep ==
  ASSUME Base, [Next]_vars
  PROVE  Base'
<1> USE SlotFacts, LabelFacts, StateFacts DEF At, Running, Goto, table, locks, thread
<1>0. Types /\ Loops /\ Data /\ Stacks /\ Embryos /\ Victims /\ WaitLocked
  BY DEF Base
<1>00. NextKidIs /\ \A u \in Slots : idx[u] \in Int
  BY <1>0, NextKidFacts, SlotFacts DEF Loops
<1>1. ASSUME NEW c \in CPUs, SwitchOut(c)
      PROVE  Base'
  <2> USE <1>1 DEF SwitchOut
  <2>1. Types'
    BY <1>0 DEF Types
  <2>2. Loops'
    BY <1>0, <1>00 DEF Types, Loops
  <2>3. Data'
    BY <1>0, ProcConstants DEF Types, Data
  <2>4. Stacks' /\ Victims'
    BY <1>0 DEF Types, Stacks, Victims, Embryos
  <2>5. Embryos' /\ WaitLocked'
    BY <1>0, <1>00 DEF Types, Stacks, Embryos, WaitLocked, Loops
  <2> QED
    BY <2>1, <2>2, <2>3, <2>4, <2>5 DEF Base
<1>2. ASSUME NEW c \in CPUs, NEW s \in Slots, Dispatch(c, s)
      PROVE  Base'
  <2> USE <1>2 DEF Dispatch
  <2>1. Types'
    BY <1>0 DEF Types
  <2>2. Loops'
    BY <1>0, <1>00 DEF Types, Loops
  <2>3. Data'
    BY <1>0, ProcConstants DEF Types, Data
  <2>4. Stacks' /\ Victims'
    BY <1>0 DEF Types, Stacks, Victims, Embryos
  <2>5. Embryos' /\ WaitLocked'
    BY <1>0, <1>00 DEF Types, Stacks, Embryos, WaitLocked, Loops
  <2> QED
    BY <2>1, <2>2, <2>3, <2>4, <2>5 DEF Base
<1>3. ASSUME NEW s \in Slots, NEW t \in Slots, Fork(s, t)
      PROVE  Base'
  <2> USE <1>3 DEF Fork, Syscall
  <2>1. Types'
    BY <1>0 DEF Types
  <2>2. Loops'
    BY <1>0, <1>00 DEF Types, Loops
  <2>3. Data'
    BY <1>0, ProcConstants DEF Types, Data
  <2>4. Stacks' /\ Victims'
    BY <1>0 DEF Types, Stacks, Victims, Embryos
  <2>5. Embryos' /\ WaitLocked'
    BY <1>0, <1>00 DEF Types, Stacks, Embryos, WaitLocked, Loops
  <2> QED
    BY <2>1, <2>2, <2>3, <2>4, <2>5 DEF Base
<1>4. ASSUME NEW s \in Slots, NEW t \in Slots, ForkFails(s, t)
      PROVE  Base'
  <2> USE <1>4 DEF ForkFails, Syscall, freeproc
  <2>1. Types'
    BY <1>0 DEF Types
  <2>2. Loops'
    BY <1>0, <1>00 DEF Types, Loops
  <2>3. Data'
    BY <1>0, ProcConstants DEF Types, Data
  <2>4. Stacks' /\ Victims'
    BY <1>0 DEF Types, Stacks, Victims, Embryos
  <2>5. Embryos' /\ WaitLocked'
    BY <1>0, <1>00 DEF Types, Stacks, Embryos, WaitLocked, Loops
  <2> QED
    BY <2>1, <2>2, <2>3, <2>4, <2>5 DEF Base
<1>5. ASSUME NEW s \in Slots, NEW t \in Slots, KillFind(s, t)
      PROVE  Base'
  <2> USE <1>5 DEF KillFind, Syscall
  <2>1. Types'
    BY <1>0 DEF Types
  <2>2. Loops'
    BY <1>0, <1>00 DEF Types, Loops
  <2>3. Data'
    BY <1>0, ProcConstants DEF Types, Data
  <2>4. Stacks' /\ Victims'
    BY <1>0 DEF Types, Stacks, Victims, Embryos
  <2>5. Embryos' /\ WaitLocked'
    BY <1>0, <1>00 DEF Types, Stacks, Embryos, WaitLocked, Loops
  <2> QED
    BY <2>1, <2>2, <2>3, <2>4, <2>5 DEF Base
<1>6. ASSUME NEW s \in Slots, Yield(s)
      PROVE  Base'
  <2> USE <1>6 DEF Yield, Preempt
  <2>1. Types'
    BY <1>0 DEF Types
  <2>2. Loops'
    BY <1>0, <1>00 DEF Types, Loops
  <2>3. Data'
    BY <1>0, ProcConstants DEF Types, Data
  <2>4. Stacks' /\ Victims'
    BY <1>0 DEF Types, Stacks, Victims, Embryos
  <2>5. Embryos' /\ WaitLocked'
    BY <1>0, <1>00 DEF Types, Stacks, Embryos, WaitLocked, Loops
  <2> QED
    BY <2>1, <2>2, <2>3, <2>4, <2>5 DEF Base
<1>7. ASSUME NEW s \in Slots, Exit(s)
      PROVE  Base'
  <2> USE <1>7 DEF Exit
  <2>1. Types'
    BY <1>0 DEF Types
  <2>2. Loops'
    BY <1>0, <1>00 DEF Types, Loops
  <2>3. Data'
    BY <1>0, ProcConstants DEF Types, Data
  <2>4. Stacks' /\ Victims'
    BY <1>0 DEF Types, Stacks, Victims, Embryos
  <2>5. Embryos' /\ WaitLocked'
    BY <1>0, <1>00 DEF Types, Stacks, Embryos, WaitLocked, Loops
  <2> QED
    BY <2>1, <2>2, <2>3, <2>4, <2>5 DEF Base
<1>8. ASSUME NEW s \in Slots, NEW status \in Statuses, ExitNum(s, status)
      PROVE  Base'
  <2> USE <1>8 DEF ExitNum, Syscall
  <2>1. Types'
    BY <1>0 DEF Types
  <2>2. Loops'
    BY <1>0, <1>00 DEF Types, Loops
  <2>3. Data'
    BY <1>0, ProcConstants DEF Types, Data
  <2>4. Stacks' /\ Victims'
    BY <1>0 DEF Types, Stacks, Victims, Embryos
  <2>5. Embryos' /\ WaitLocked'
    BY <1>0, <1>00 DEF Types, Stacks, Embryos, WaitLocked, Loops
  <2> QED
    BY <2>1, <2>2, <2>3, <2>4, <2>5 DEF Base
<1>9. ASSUME NEW s \in Slots, WaitCall(s)
      PROVE  Base'
  <2> USE <1>9 DEF WaitCall, Syscall
  <2>1. Types'
    BY <1>0 DEF Types
  <2>2. Loops'
    BY <1>0, <1>00 DEF Types, Loops
  <2>3. Data'
    BY <1>0, ProcConstants DEF Types, Data
  <2>4. Stacks' /\ Victims'
    BY <1>0 DEF Types, Stacks, Victims, Embryos
  <2>5. Embryos' /\ WaitLocked'
    BY <1>0, <1>00 DEF Types, Stacks, Embryos, WaitLocked, Loops
  <2> QED
    BY <2>1, <2>2, <2>3, <2>4, <2>5 DEF Base
<1>10. ASSUME NEW s \in Slots, WaitFault(s)
      PROVE  Base'
  <2> USE <1>10 DEF WaitFault, Return
  <2>1. Types'
    BY <1>0 DEF Types
  <2>2. Loops'
    BY <1>0, <1>00 DEF Types, Loops
  <2>3. Data'
    BY <1>0, ProcConstants DEF Types, Data
  <2>4. Stacks' /\ Victims'
    BY <1>0 DEF Types, Stacks, Victims, Embryos
  <2>5. Embryos' /\ WaitLocked'
    BY <1>0, <1>00 DEF Types, Stacks, Embryos, WaitLocked, Loops
  <2> QED
    BY <2>1, <2>2, <2>3, <2>4, <2>5 DEF Base
<1>11. ASSUME NEW s \in Slots, ForkParent(s)
      PROVE  Base'
  <2> USE <1>11 DEF ForkParent
  <2>1. Types'
    BY <1>0 DEF Types
  <2>2. Loops'
    BY <1>0, <1>00 DEF Types, Loops
  <2>3. Data'
    BY <1>0, ProcConstants DEF Types, Data
  <2>4. Stacks' /\ Victims'
    BY <1>0 DEF Types, Stacks, Victims, Embryos
  <2>5. Embryos' /\ WaitLocked'
    BY <1>0, <1>00 DEF Types, Stacks, Embryos, WaitLocked, Loops
  <2> QED
    BY <2>1, <2>2, <2>3, <2>4, <2>5 DEF Base
<1>12. ASSUME NEW s \in Slots, ForkRun(s)
      PROVE  Base'
  <2> USE <1>12 DEF ForkRun
  <2>1. Types'
    BY <1>0 DEF Types
  <2>2. Loops'
    BY <1>0, <1>00 DEF Types, Loops
  <2>3. Data'
    BY <1>0, ProcConstants DEF Types, Data
  <2>4. Stacks' /\ Victims'
    BY <1>0 DEF Types, Stacks, Victims, Embryos
  <2>5. Embryos' /\ WaitLocked'
    BY <1>0, <1>00 DEF Types, Stacks, Embryos, WaitLocked, Loops
  <2> QED
    BY <2>1, <2>2, <2>3, <2>4, <2>5 DEF Base
<1>13. ASSUME NEW s \in Slots, ExitLock(s)
      PROVE  Base'
  <2> USE <1>13 DEF ExitLock
  <2>1. Types'
    BY <1>0 DEF Types
  <2>2. Loops'
    BY <1>0, <1>00 DEF Types, Loops
  <2>3. Data'
    BY <1>0, ProcConstants DEF Types, Data
  <2>4. Stacks' /\ Victims'
    BY <1>0 DEF Types, Stacks, Victims, Embryos
  <2>5. Embryos' /\ WaitLocked'
    BY <1>0, <1>00 DEF Types, Stacks, Embryos, WaitLocked, Loops
  <2> QED
    BY <2>1, <2>2, <2>3, <2>4, <2>5 DEF Base
<1>14. ASSUME NEW s \in Slots, Reparent(s)
      PROVE  Base'
  <2> USE <1>14 DEF Reparent
  <2>1. Types'
    BY <1>0 DEF Types
  <2>2. Loops'
    BY <1>0, <1>00 DEF Types, Loops
  <2>3. Data'
    BY <1>0, ProcConstants DEF Types, Data
  <2>4. Stacks' /\ Victims'
    BY <1>0 DEF Types, Stacks, Victims, Embryos
  <2>5. Embryos' /\ WaitLocked'
    BY <1>0, <1>00 DEF Types, Stacks, Embryos, WaitLocked, Loops
  <2> QED
    BY <2>1, <2>2, <2>3, <2>4, <2>5 DEF Base
<1>15. ASSUME NEW s \in Slots, WakeInit(s)
      PROVE  Base'
  <2> USE <1>15 DEF WakeInit, Wakeup
  <2>1. Types'
    BY <1>0 DEF Types
  <2>2. Loops'
    BY <1>0, <1>00, Successor DEF Types, Loops, WaitLocked, NextKidIs
  <2>3. Data'
    BY <1>0, ProcConstants DEF Types, Data
  <2>4. Stacks' /\ Victims'
    BY <1>0 DEF Types, Stacks, Victims, Embryos
  <2>5. Embryos' /\ WaitLocked'
    BY <1>0, <1>00, Successor DEF Types, Stacks, Embryos, WaitLocked, Loops
  <2> QED
    BY <2>1, <2>2, <2>3, <2>4, <2>5 DEF Base
<1>16. ASSUME NEW s \in Slots, WakeParent(s)
      PROVE  Base'
  <2> USE <1>16 DEF WakeParent, Wakeup
  <2>1. Types'
    BY <1>0 DEF Types
  <2>2. Loops'
    BY <1>0, <1>00, Successor DEF Types, Loops, WaitLocked, NextKidIs
  <2>3. Data'
    BY <1>0, ProcConstants DEF Types, Data
  <2>4. Stacks' /\ Victims'
    BY <1>0 DEF Types, Stacks, Victims, Embryos
  <2>5. Embryos' /\ WaitLocked'
    BY <1>0, <1>00, Successor DEF Types, Stacks, Embryos, WaitLocked, Loops
  <2> QED
    BY <2>1, <2>2, <2>3, <2>4, <2>5 DEF Base
<1>17. ASSUME NEW s \in Slots, ExitZombie(s)
      PROVE  Base'
  <2> USE <1>17 DEF ExitZombie
  <2>1. Types'
    BY <1>0 DEF Types
  <2>2. Loops'
    BY <1>0, <1>00 DEF Types, Loops
  <2>3. Data'
    BY <1>0, ProcConstants DEF Types, Data
  <2>4. Stacks' /\ Victims'
    BY <1>0 DEF Types, Stacks, Victims, Embryos
  <2>5. Embryos' /\ WaitLocked'
    BY <1>0, <1>00 DEF Types, Stacks, Embryos, WaitLocked, Loops
  <2> QED
    BY <2>1, <2>2, <2>3, <2>4, <2>5 DEF Base
<1>18. ASSUME NEW s \in Slots, WaitLock(s)
      PROVE  Base'
  <2> USE <1>18 DEF WaitLock
  <2>1. Types'
    BY <1>0 DEF Types
  <2>2. Loops'
    BY <1>0, <1>00 DEF Types, Loops
  <2>3. Data'
    BY <1>0, ProcConstants DEF Types, Data
  <2>4. Stacks' /\ Victims'
    BY <1>0 DEF Types, Stacks, Victims, Embryos
  <2>5. Embryos' /\ WaitLocked'
    BY <1>0, <1>00 DEF Types, Stacks, Embryos, WaitLocked, Loops
  <2> QED
    BY <2>1, <2>2, <2>3, <2>4, <2>5 DEF Base
<1>19. ASSUME NEW s \in Slots, WaitReap(s)
      PROVE  Base'
  <2> USE <1>19 DEF WaitReap, Return, freeproc
  <2>1. Types'
    BY <1>0 DEF Types
  <2>2. Loops'
    BY <1>0, <1>00 DEF Types, Loops
  <2>3. Data'
    <3>1. 0 \in 0..MaxPid
      BY ProcConstants
    <3> QED
      BY <1>0, <3>1 DEF Data
  <2>4. Stacks' /\ Victims'
    BY <1>0 DEF Types, Stacks, Victims, Embryos
  <2>5. Embryos' /\ WaitLocked'
    BY <1>0, <1>00 DEF Types, Stacks, Embryos, WaitLocked, Loops
  <2> QED
    BY <2>1, <2>2, <2>3, <2>4, <2>5 DEF Base
<1>20. ASSUME NEW s \in Slots, WaitSkip(s)
      PROVE  Base'
  <2> USE <1>20 DEF WaitSkip
  <2>1. Types'
    BY <1>0 DEF Types
  <2>2. Loops'
    BY <1>0, <1>00, Successor DEF Types, Loops, WaitLocked, NextKidIs
  <2>3. Data'
    BY <1>0, ProcConstants DEF Types, Data
  <2>4. Stacks' /\ Victims'
    BY <1>0 DEF Types, Stacks, Victims, Embryos
  <2>5. Embryos' /\ WaitLocked'
    BY <1>0, <1>00 DEF Types, Stacks, Embryos, WaitLocked, Loops
  <2> QED
    BY <2>1, <2>2, <2>3, <2>4, <2>5 DEF Base
<1>21. ASSUME NEW s \in Slots, WaitEnd(s)
      PROVE  Base'
  <2> USE <1>21 DEF WaitEnd, Return
  <2>1. Types'
    BY <1>0 DEF Types
  <2>2. Loops'
    <3>1. CASE ~havekids[s] \/ killed[s]
      BY <1>0, <3>1 DEF Loops
    <3>2. CASE ~(~havekids[s] \/ killed[s])
      BY <1>0, <3>2 DEF Loops
    <3> QED
      BY <3>1, <3>2
  <2>3. Data'
    BY <1>0, ProcConstants DEF Types, Data
  <2>4. Stacks' /\ Victims'
    BY <1>0 DEF Types, Stacks, Victims, Embryos
  <2>5. Embryos' /\ WaitLocked'
    BY <1>0, <1>00 DEF Types, Stacks, Embryos, WaitLocked, Loops
  <2> QED
    BY <2>1, <2>2, <2>3, <2>4, <2>5 DEF Base
<1>22. ASSUME NEW s \in Slots, WaitSleep(s)
      PROVE  Base'
  <2> USE <1>22 DEF WaitSleep
  <2>1. Types'
    BY <1>0 DEF Types
  <2>2. Loops'
    BY <1>0, <1>00 DEF Types, Loops
  <2>3. Data'
    BY <1>0, ProcConstants DEF Types, Data
  <2>4. Stacks' /\ Victims'
    BY <1>0 DEF Types, Stacks, Victims, Embryos
  <2>5. Embryos' /\ WaitLocked'
    BY <1>0, <1>00 DEF Types, Stacks, Embryos, WaitLocked, Loops
  <2> QED
    BY <2>1, <2>2, <2>3, <2>4, <2>5 DEF Base
<1>23. ASSUME NEW s \in Slots, KillMark(s)
      PROVE  Base'
  <2> USE <1>23 DEF KillMark
  <2>1. Types'
    BY <1>0 DEF Types
  <2>2. Loops'
    BY <1>0, <1>00 DEF Types, Loops
  <2>3. Data'
    BY <1>0, ProcConstants DEF Types, Data
  <2>4. Stacks' /\ Victims'
    BY <1>0 DEF Types, Stacks, Victims, Embryos
  <2>5. Embryos' /\ WaitLocked'
    BY <1>0, <1>00 DEF Types, Stacks, Embryos, WaitLocked, Loops
  <2> QED
    BY <2>1, <2>2, <2>3, <2>4, <2>5 DEF Base
<1>24. CASE UNCHANGED vars
  BY <1>24, <1>0 DEF vars, Base, Types, Loops, Data, Stacks, Embryos, Victims, WaitLocked
<1> QED
  BY <1>1, <1>2, <1>3, <1>4, <1>5, <1>6, <1>7, <1>8, <1>9, <1>10, <1>11, <1>12,
     <1>13, <1>14, <1>15, <1>16, <1>17, <1>18, <1>19, <1>20, <1>21, <1>22, <1>23, <1>24 DEF Next, Continue, ExitCall

-----------------------------------------------------------------------------
(* Every step keeps wakeups from being lost. *)

LEMMA RousesStep ==
  ASSUME Base, Rouses, NoLostWakeup, [Next]_vars
  PROVE  Rouses' /\ NoLostWakeup'
<1> USE SlotFacts, LabelFacts DEF At, Running, Goto, table, locks, thread, Asleep
<1>0. Types /\ Loops /\ Embryos /\ Victims /\ WaitLocked
  BY DEF Base
<1>00. NextKidIs /\ \A u \in Slots : idx[u] \in Int
  BY <1>0, NextKidFacts, SlotFacts DEF Loops
<1>1. ASSUME NEW c \in CPUs, SwitchOut(c)
      PROVE  Rouses' /\ NoLostWakeup'
  <2> USE <1>1 DEF SwitchOut
  <2>1. Rouses'
    BY <1>0, <1>00 DEF Rouses, Types, Loops, Embryos, Victims, WaitLocked, NextKidIs
  <2>2. NoLostWakeup'
    BY <1>0, <1>00 DEF Rouses, NoLostWakeup, Types, Loops, Embryos, Victims, WaitLocked
  <2> QED
    BY <2>1, <2>2
<1>2. ASSUME NEW c \in CPUs, NEW s \in Slots, Dispatch(c, s)
      PROVE  Rouses' /\ NoLostWakeup'
  <2> USE <1>2 DEF Dispatch
  <2>1. Rouses'
    BY <1>0, <1>00 DEF Rouses, Types, Loops, Embryos, Victims, WaitLocked, NextKidIs
  <2>2. NoLostWakeup'
    BY <1>0, <1>00 DEF Rouses, NoLostWakeup, Types, Loops, Embryos, Victims, WaitLocked
  <2> QED
    BY <2>1, <2>2
<1>3. ASSUME NEW s \in Slots, NEW t \in Slots, Fork(s, t)
      PROVE  Rouses' /\ NoLostWakeup'
  <2> USE <1>3 DEF Fork, Syscall
  <2>1. Rouses'
    BY <1>0, <1>00 DEF Rouses, Types, Loops, Embryos, Victims, WaitLocked, NextKidIs
  <2>2. NoLostWakeup'
    BY <1>0, <1>00 DEF Rouses, NoLostWakeup, Types, Loops, Embryos, Victims, WaitLocked
  <2> QED
    BY <2>1, <2>2
<1>4. ASSUME NEW s \in Slots, NEW t \in Slots, ForkFails(s, t)
      PROVE  Rouses' /\ NoLostWakeup'
  <2> USE <1>4 DEF ForkFails, Syscall, freeproc
  <2>1. Rouses'
    BY <1>0, <1>00 DEF Rouses, Types, Loops, Embryos, Victims, WaitLocked, NextKidIs
  <2>2. NoLostWakeup'
    BY <1>0, <1>00 DEF Rouses, NoLostWakeup, Types, Loops, Embryos, Victims, WaitLocked
  <2> QED
    BY <2>1, <2>2
<1>5. ASSUME NEW s \in Slots, NEW t \in Slots, KillFind(s, t)
      PROVE  Rouses' /\ NoLostWakeup'
  <2> USE <1>5 DEF KillFind, Syscall
  <2>1. Rouses'
    BY <1>0, <1>00 DEF Rouses, Types, Loops, Embryos, Victims, WaitLocked, NextKidIs
  <2>2. NoLostWakeup'
    BY <1>0, <1>00 DEF Rouses, NoLostWakeup, Types, Loops, Embryos, Victims, WaitLocked
  <2> QED
    BY <2>1, <2>2
<1>6. ASSUME NEW s \in Slots, Yield(s)
      PROVE  Rouses' /\ NoLostWakeup'
  <2> USE <1>6 DEF Yield, Preempt
  <2>1. Rouses'
    BY <1>0, <1>00 DEF Rouses, Types, Loops, Embryos, Victims, WaitLocked, NextKidIs
  <2>2. NoLostWakeup'
    BY <1>0, <1>00 DEF Rouses, NoLostWakeup, Types, Loops, Embryos, Victims, WaitLocked
  <2> QED
    BY <2>1, <2>2
<1>7. ASSUME NEW s \in Slots, Exit(s)
      PROVE  Rouses' /\ NoLostWakeup'
  <2> USE <1>7 DEF Exit
  <2>1. Rouses'
    BY <1>0, <1>00 DEF Rouses, Types, Loops, Embryos, Victims, WaitLocked, NextKidIs
  <2>2. NoLostWakeup'
    BY <1>0, <1>00 DEF Rouses, NoLostWakeup, Types, Loops, Embryos, Victims, WaitLocked
  <2> QED
    BY <2>1, <2>2
<1>8. ASSUME NEW s \in Slots, NEW status \in Statuses, ExitNum(s, status)
      PROVE  Rouses' /\ NoLostWakeup'
  <2> USE <1>8 DEF ExitNum, Syscall
  <2>1. Rouses'
    BY <1>0, <1>00 DEF Rouses, Types, Loops, Embryos, Victims, WaitLocked, NextKidIs
  <2>2. NoLostWakeup'
    BY <1>0, <1>00 DEF Rouses, NoLostWakeup, Types, Loops, Embryos, Victims, WaitLocked
  <2> QED
    BY <2>1, <2>2
<1>9. ASSUME NEW s \in Slots, WaitCall(s)
      PROVE  Rouses' /\ NoLostWakeup'
  <2> USE <1>9 DEF WaitCall, Syscall
  <2>1. Rouses'
    BY <1>0, <1>00 DEF Rouses, Types, Loops, Embryos, Victims, WaitLocked, NextKidIs
  <2>2. NoLostWakeup'
    BY <1>0, <1>00 DEF Rouses, NoLostWakeup, Types, Loops, Embryos, Victims, WaitLocked
  <2> QED
    BY <2>1, <2>2
<1>10. ASSUME NEW s \in Slots, WaitFault(s)
      PROVE  Rouses' /\ NoLostWakeup'
  <2> USE <1>10 DEF WaitFault, Return
  <2>1. Rouses'
    BY <1>0, <1>00 DEF Rouses, Types, Loops, Embryos, Victims, WaitLocked, NextKidIs
  <2>2. NoLostWakeup'
    BY <1>0, <1>00 DEF Rouses, NoLostWakeup, Types, Loops, Embryos, Victims, WaitLocked
  <2> QED
    BY <2>1, <2>2
<1>11. ASSUME NEW s \in Slots, ForkParent(s)
      PROVE  Rouses' /\ NoLostWakeup'
  <2> USE <1>11 DEF ForkParent
  <2>1. Rouses'
    BY <1>0, <1>00 DEF Rouses, Types, Loops, Embryos, Victims, WaitLocked, NextKidIs
  <2>2. NoLostWakeup'
    BY <1>0, <1>00 DEF Rouses, NoLostWakeup, Types, Loops, Embryos, Victims, WaitLocked
  <2> QED
    BY <2>1, <2>2
<1>12. ASSUME NEW s \in Slots, ForkRun(s)
      PROVE  Rouses' /\ NoLostWakeup'
  <2> USE <1>12 DEF ForkRun
  <2>1. Rouses'
    BY <1>0, <1>00 DEF Rouses, Types, Loops, Embryos, Victims, WaitLocked, NextKidIs
  <2>2. NoLostWakeup'
    BY <1>0, <1>00 DEF Rouses, NoLostWakeup, Types, Loops, Embryos, Victims, WaitLocked
  <2> QED
    BY <2>1, <2>2
<1>13. ASSUME NEW s \in Slots, ExitLock(s)
      PROVE  Rouses' /\ NoLostWakeup'
  <2> USE <1>13 DEF ExitLock
  <2>1. Rouses'
    BY <1>0, <1>00 DEF Rouses, Types, Loops, Embryos, Victims, WaitLocked, NextKidIs
  <2>2. NoLostWakeup'
    BY <1>0, <1>00 DEF Rouses, NoLostWakeup, Types, Loops, Embryos, Victims, WaitLocked
  <2> QED
    BY <2>1, <2>2
<1>14. ASSUME NEW s \in Slots, Reparent(s)
      PROVE  Rouses' /\ NoLostWakeup'
  <2> USE <1>14 DEF Reparent
  <2>1. Rouses'
    BY <1>0, <1>00 DEF Rouses, Types, Loops, Embryos, Victims, WaitLocked, NextKidIs
  <2>2. NoLostWakeup'
    BY <1>0, <1>00 DEF Rouses, NoLostWakeup, Types, Loops, Embryos, Victims, WaitLocked
  <2> QED
    BY <2>1, <2>2
<1>15. ASSUME NEW s \in Slots, WakeInit(s)
      PROVE  Rouses' /\ NoLostWakeup'
  <2> USE <1>15 DEF WakeInit, Wakeup
  <2>1. Rouses'
    BY <1>0, <1>00 DEF Rouses, Types, Loops, Embryos, Victims, WaitLocked, NextKidIs
  <2>2. NoLostWakeup'
    BY <1>0, <1>00 DEF Rouses, NoLostWakeup, Types, Loops, Embryos, Victims, WaitLocked
  <2> QED
    BY <2>1, <2>2
<1>16. ASSUME NEW s \in Slots, WakeParent(s)
      PROVE  Rouses' /\ NoLostWakeup'
  <2> USE <1>16 DEF WakeParent, Wakeup
  <2>1. Rouses'
    <3>1. CASE idx[s] = NPROC
      BY <1>0, <1>00, <3>1 DEF Rouses, Types, Loops, WaitLocked
    <3>2. CASE idx[s] # NPROC
      <4>1. /\ pc[s] = "wake_parent" /\ state[s] = "RUNNING" /\ idx[s] \in Slots
            /\ idx' = [idx EXCEPT ![s] = idx[s] + 1]
            /\ UNCHANGED <<parent, chan, pc, havekids>>
        BY <1>0, <3>2 DEF WaitLocked
      <4>2. \A u \in Slots : /\ state'[u] = "ZOMBIE" <=> state[u] = "ZOMBIE"
                             /\ Asleep(u)' => Asleep(u)
        BY <1>0, <3>2 DEF Types
      <4>3. parent[s] = idx[s] => ~Asleep(parent[s])'
        BY <1>0, <3>2, <4>1 DEF Types
      <4>4. \A p \in Slots : idx[s] <= p /\ p # idx[s] => idx[s] + 1 <= p
        BY <4>1
      <4> QED
        BY <1>0, <4>1, <4>2, <4>3, <4>4 DEF Rouses, Loops, WaitLocked
    <3> QED
      BY <3>1, <3>2
  <2>2. NoLostWakeup'
    BY <1>0, <1>00 DEF Rouses, NoLostWakeup, Types, Loops, Embryos, Victims, WaitLocked
  <2> QED
    BY <2>1, <2>2
<1>17. ASSUME NEW s \in Slots, ExitZombie(s)
      PROVE  Rouses' /\ NoLostWakeup'
  <2> USE <1>17 DEF ExitZombie
  <2>1. Rouses'
    BY <1>0, <1>00 DEF Rouses, Types, Loops, Embryos, Victims, WaitLocked, NextKidIs
  <2>2. NoLostWakeup'
    BY <1>0, <1>00 DEF Rouses, NoLostWakeup, Types, Loops, Embryos, Victims, WaitLocked
  <2> QED
    BY <2>1, <2>2
<1>18. ASSUME NEW s \in Slots, WaitLock(s)
      PROVE  Rouses' /\ NoLostWakeup'
  <2> USE <1>18 DEF WaitLock
  <2>1. Rouses'
    BY <1>0, <1>00 DEF Rouses, Types, Loops, Embryos, Victims, WaitLocked, NextKidIs
  <2>2. NoLostWakeup'
    BY <1>0, <1>00 DEF Rouses, NoLostWakeup, Types, Loops, Embryos, Victims, WaitLocked
  <2> QED
    BY <2>1, <2>2
<1>19. ASSUME NEW s \in Slots, WaitReap(s)
      PROVE  Rouses' /\ NoLostWakeup'
  <2> USE <1>19 DEF WaitReap, Return, freeproc
  <2>1. Rouses'
    BY <1>0, <1>00 DEF Rouses, Types, Loops, Embryos, Victims, WaitLocked, NextKidIs
  <2>2. NoLostWakeup'
    BY <1>0, <1>00 DEF Rouses, NoLostWakeup, Types, Loops, Embryos, Victims, WaitLocked
  <2> QED
    BY <2>1, <2>2
<1>20. ASSUME NEW s \in Slots, WaitSkip(s)
      PROVE  Rouses' /\ NoLostWakeup'
  <2> USE <1>20 DEF WaitSkip
  <2>1. Rouses'
    <3> DEFINE k == NextKid(s)
    <3>1. /\ k \in Slots /\ state[k] # "ZOMBIE"
          /\ \A u \in Slots : parent[u] = s /\ u < k => u < idx[s]
      BY <1>00 DEF NextKidIs
    <3>2. /\ idx' = [idx EXCEPT ![s] = k + 1]
          /\ havekids' = [havekids EXCEPT ![s] = TRUE]
          /\ UNCHANGED <<state, parent, chan, pc>>
      OBVIOUS
    <3>3. \A u \in Slots : u < k + 1 => u < k \/ u = k
      BY <3>1
    <3> HIDE DEF k
    <3> QED
      BY <1>0, <1>00, <3>1, <3>2, <3>3 DEF Rouses, Loops, WaitLocked
  <2>2. NoLostWakeup'
    BY <1>0, <1>00 DEF Rouses, NoLostWakeup, Types, Loops, Embryos, Victims, WaitLocked
  <2> QED
    BY <2>1, <2>2
<1>21. ASSUME NEW s \in Slots, WaitEnd(s)
      PROVE  Rouses' /\ NoLostWakeup'
  <2> USE <1>21 DEF WaitEnd, Return
  <2>1. Rouses'
    BY <1>0, <1>00 DEF Rouses, Types, Loops, Embryos, Victims, WaitLocked, NextKidIs
  <2>2. NoLostWakeup'
    BY <1>0, <1>00 DEF Rouses, NoLostWakeup, Types, Loops, Embryos, Victims, WaitLocked
  <2> QED
    BY <2>1, <2>2
<1>22. ASSUME NEW s \in Slots, WaitSleep(s)
      PROVE  Rouses' /\ NoLostWakeup'
  <2> USE <1>22 DEF WaitSleep
  <2>1. Rouses'
    BY <1>0, <1>00 DEF Rouses, Types, Loops, Embryos, Victims, WaitLocked, NextKidIs
  <2>2. NoLostWakeup'
    BY <1>0, <1>00 DEF Rouses, NoLostWakeup, Types, Loops, Embryos, Victims, WaitLocked
  <2> QED
    BY <2>1, <2>2
<1>23. ASSUME NEW s \in Slots, KillMark(s)
      PROVE  Rouses' /\ NoLostWakeup'
  <2> USE <1>23 DEF KillMark
  <2>1. Rouses'
    BY <1>0, <1>00 DEF Rouses, Types, Loops, Embryos, Victims, WaitLocked, NextKidIs
  <2>2. NoLostWakeup'
    BY <1>0, <1>00 DEF Rouses, NoLostWakeup, Types, Loops, Embryos, Victims, WaitLocked
  <2> QED
    BY <2>1, <2>2
<1>24. CASE UNCHANGED vars
  BY <1>24 DEF vars, Rouses, NoLostWakeup
<1> QED
  BY <1>1, <1>2, <1>3, <1>4, <1>5, <1>6, <1>7, <1>8, <1>9, <1>10, <1>11, <1>12,
     <1>13, <1>14, <1>15, <1>16, <1>17, <1>18, <1>19, <1>20, <1>21, <1>22, <1>23, <1>24 DEF Next, Continue, ExitCall

-----------------------------------------------------------------------------
(* Every step keeps the killed flags with the processes they name. *)

LEMMA NamedStep ==
  ASSUME Base, Named, 0 \notin KillPids, [Next]_vars
  PROVE  Named'
<1> USE SlotFacts, LabelFacts DEF At, Running, Goto, table, locks, thread
<1>0. Types /\ Loops /\ Embryos /\ Victims /\ WaitLocked
  BY DEF Base
<1>00. NextKidIs /\ \A u \in Slots : idx[u] \in Int
  BY <1>0, NextKidFacts, SlotFacts DEF Loops
<1>000. pid \in [Slots -> 0..MaxPid] /\ killed \in [Slots -> BOOLEAN]
  BY DEF Base, Data
<1>1. ASSUME NEW c \in CPUs, SwitchOut(c)
      PROVE  Named'
  BY <1>1, <1>0, <1>00, <1>000 DEF Named, Types, Loops, Embryos, Victims, WaitLocked, NextKidIs, SwitchOut
<1>2. ASSUME NEW c \in CPUs, NEW s \in Slots, Dispatch(c, s)
      PROVE  Named'
  BY <1>2, <1>0, <1>00, <1>000 DEF Named, Types, Loops, Embryos, Victims, WaitLocked, NextKidIs, Dispatch
<1>3. ASSUME NEW s \in Slots, NEW t \in Slots, Fork(s, t)
      PROVE  Named'
  BY <1>3, <1>0, <1>00, <1>000 DEF Named, Types, Loops, Embryos, Victims, WaitLocked, NextKidIs, Fork, Syscall
<1>4. ASSUME NEW s \in Slots, NEW t \in Slots, ForkFails(s, t)
      PROVE  Named'
  BY <1>4, <1>0, <1>00, <1>000 DEF Named, Types, Loops, Embryos, Victims, WaitLocked, NextKidIs, ForkFails, Syscall, freeproc
<1>5. ASSUME NEW s \in Slots, NEW t \in Slots, KillFind(s, t)
      PROVE  Named'
  BY <1>5, <1>0, <1>00, <1>000 DEF Named, Types, Loops, Embryos, Victims, WaitLocked, NextKidIs, KillFind, Syscall
<1>6. ASSUME NEW s \in Slots, Yield(s)
      PROVE  Named'
  BY <1>6, <1>0, <1>00, <1>000 DEF Named, Types, Loops, Embryos, Victims, WaitLocked, NextKidIs, Yield, Preempt
<1>7. ASSUME NEW s \in Slots, Exit(s)
      PROVE  Named'
  BY <1>7, <1>0, <1>00, <1>000 DEF Named, Types, Loops, Embryos, Victims, WaitLocked, NextKidIs, Exit
<1>8. ASSUME NEW s \in Slots, NEW status \in Statuses, ExitNum(s, status)
      PROVE  Named'
  BY <1>8, <1>0, <1>00, <1>000 DEF Named, Types, Loops, Embryos, Victims, WaitLocked, NextKidIs, ExitNum, Syscall
<1>9. ASSUME NEW s \in Slots, WaitCall(s)
      PROVE  Named'
  BY <1>9, <1>0, <1>00, <1>000 DEF Named, Types, Loops, Embryos, Victims, WaitLocked, NextKidIs, WaitCall, Syscall
<1>10. ASSUME NEW s \in Slots, WaitFault(s)
      PROVE  Named'
  BY <1>10, <1>0, <1>00, <1>000 DEF Named, Types, Loops, Embryos, Victims, WaitLocked, NextKidIs, WaitFault, Return
<1>11. ASSUME NEW s \in Slots, ForkParent(s)
      PROVE  Named'
  BY <1>11, <1>0, <1>00, <1>000 DEF Named, Types, Loops, Embryos, Victims, WaitLocked, NextKidIs, ForkParent
<1>12. ASSUME NEW s \in Slots, ForkRun(s)
      PROVE  Named'
  BY <1>12, <1>0, <1>00, <1>000 DEF Named, Types, Loops, Embryos, Victims, WaitLocked, NextKidIs, ForkRun
<1>13. ASSUME NEW s \in Slots, ExitLock(s)
      PROVE  Named'
  BY <1>13, <1>0, <1>00, <1>000 DEF Named, Types, Loops, Embryos, Victims, WaitLocked, NextKidIs, ExitLock
<1>14. ASSUME NEW s \in Slots, Reparent(s)
      PROVE  Named'
  BY <1>14, <1>0, <1>00, <1>000 DEF Named, Types, Loops, Embryos, Victims, WaitLocked, NextKidIs, Reparent
<1>15. ASSUME NEW s \in Slots, WakeInit(s)
      PROVE  Named'
  BY <1>15, <1>0, <1>00, <1>000 DEF Named, Types, Loops, Embryos, Victims, WaitLocked, NextKidIs, WakeInit, Wakeup
<1>16. ASSUME NEW s \in Slots, WakeParent(s)
      PROVE  Named'
  BY <1>16, <1>0, <1>00, <1>000 DEF Named, Types, Loops, Embryos, Victims, WaitLocked, NextKidIs, WakeParent, Wakeup
<1>17. ASSUME NEW s \in Slots, ExitZombie(s)
      PROVE  Named'
  BY <1>17, <1>0, <1>00, <1>000 DEF Named, Types, Loops, Embryos, Victims, WaitLocked, NextKidIs, ExitZombie
<1>18. ASSUME NEW s \in Slots, WaitLock(s)
      PROVE  Named'
  BY <1>18, <1>0, <1>00, <1>000 DEF Named, Types, Loops, Embryos, Victims, WaitLocked, NextKidIs, WaitLock
<1>19. ASSUME NEW s \in Slots, WaitReap(s)
      PROVE  Named'
  BY <1>19, <1>0, <1>00, <1>000 DEF Named, Types, Loops, Embryos, Victims, WaitLocked, NextKidIs, WaitReap, Return, freeproc
<1>20. ASSUME NEW s \in Slots, WaitSkip(s)
      PROVE  Named'
  BY <1>20, <1>0, <1>00, <1>000 DEF Named, Types, Loops, Embryos, Victims, WaitLocked, NextKidIs, WaitSkip
<1>21. ASSUME NEW s \in Slots, WaitEnd(s)
      PROVE  Named'
  BY <1>21, <1>0, <1>00, <1>000 DEF Named, Types, Loops, Embryos, Victims, WaitLocked, NextKidIs, WaitEnd, Return
<1>22. ASSUME NEW s \in Slots, WaitSleep(s)
      PROVE  Named'
  BY <1>22, <1>0, <1>00, <1>000 DEF Named, Types, Loops, Embryos, Victims, WaitLocked, NextKidIs, WaitSleep
<1>23. ASSUME NEW s \in Slots, KillMark(s)
      PROVE  Named'
  BY <1>23, <1>0, <1>00, <1>000 DEF Named, Types, Loops, Embryos, Victims, WaitLocked, NextKidIs, KillMark
<1>24. CASE UNCHANGED vars
  BY <1>24 DEF vars, Named
<1> QED
  BY <1>1, <1>2, <1>3, <1>4, <1>5, <1>6, <1>7, <1>8, <1>9, <1>10, <1>11, <1>12,
     <1>13, <1>14, <1>15, <1>16, <1>17, <1>18, <1>19, <1>20, <1>21, <1>22, <1>23, <1>24 DEF Next, Continue, ExitCall

-----------------------------------------------------------------------------
(* The theorems. *)

Inv == Base /\ Rouses /\ NoLostWakeup

LEMMA InitInv == Init => Inv /\ Named
<1> SUFFICES ASSUME Init PROVE Inv /\ Named
  OBVIOUS
<1> USE SlotFacts, LabelFacts, StateFacts DEF Init
<1>1. Types /\ Loops
  BY DEF Types, Loops
<1>5. Data
  BY ProcConstants DEF Data
<1>2. Stacks /\ Embryos /\ Victims /\ WaitLocked
  BY DEF Stacks, Embryos, Victims, WaitLocked
<1>3. Rouses /\ NoLostWakeup
  BY DEF Rouses, NoLostWakeup
<1>4. Named
  BY DEF Named
<1> QED
  BY <1>1, <1>2, <1>3, <1>4, <1>5 DEF Inv, Base

\* The threads of Spec are at the labels of Proc alone.
LEMMA LabelsKept == Spec => [](pc \in [Slots -> Labels])
<1>1. Init => pc \in [Slots -> Labels]
  BY StateFacts DEF Init
<1>2. pc \in [Slots -> Labels] /\ [Next]_vars => (pc \in [Slots -> Labels])'
  BY StateFacts DEF Next, Continue, ExitCall, vars, thread, Goto, Return,
     SwitchOut, Dispatch, Yield, Preempt, Fork, ForkFails, ForkParent, ForkRun,
     Exit, ExitNum, ExitLock, Reparent, Wakeup, WakeInit, WakeParent, ExitZombie,
     WaitCall, WaitFault, WaitLock, WaitReap, WaitSkip, WaitEnd, WaitSleep,
     KillFind, KillMark
<1> QED
  BY <1>1, <1>2, PTL DEF Spec

LEMMA Invariance == Spec => []Inv
<1>1. Inv /\ [Next]_vars => Inv'
  BY BaseStep, RousesStep DEF Inv
<1> QED
  BY <1>1, InitInv, PTL DEF Spec

\* Every variable of the process table, of its locks and of the threads keeps
\* its type; the loop indices of wait() and wakeup() stay within the table.
THEOREM TypesKept == Spec => []TypeOK
<1>1. Inv /\ pc \in [Slots -> Labels] => TypeOK
  BY TypeParts DEF Inv, Base
<1> QED
  BY <1>1, Invariance, LabelsKept, PTL

\* swtch() never leaves a kernel stack to two processors, and no process is
\* freed while a processor is still on its stack.
THEOREM StacksSafe == Spec => []StackSafe
<1>1. Inv => StackSafe
  BY DEF Inv, Base, Stacks, StackSafe
<1> QED
  BY <1>1, Invariance, PTL

\* exit() and wait() lose no wakeup: whoever sleeps in wait() has no dead child,
\* but init, and then reparent() is at its wakeup(initproc).
THEOREM WakeupsNotLost == Spec => []NoLostWakeup
<1>1. Inv => NoLostWakeup
  BY DEF Inv
<1> QED
  BY <1>1, Invariance, PTL

\* kill() marks the process it was given, and nobody that uses the slot before or
\* after.  It takes that nobody asks for ID 0, which is the pid of a free slot.
THEOREM KillsReachTheNamed ==
  ASSUME 0 \notin KillPids
  PROVE  Spec => []KilledWasNamed
<1>1. Inv /\ Named /\ [Next]_vars => Inv' /\ Named'
  BY BaseStep, RousesStep, NamedStep DEF Inv
<1>2. Named => KilledWasNamed
  BY DEF Named, KilledWasNamed
<1> QED
  BY <1>1, <1>2, InitInv, PTL DEF Spec

\* When wait() returns -1 the caller has no children, has been killed, or has a
\* dead child whose status could not be copied out.
THEOREM WaitIsHonest == Spec => WaitFailsHonestly
<1> DEFINE Excused(s) ==
      \/ Children(s) = {}
      \/ killed[s]
      \/ \E t \in Children(s) : state[t] = "ZOMBIE"
<1>1. ASSUME Inv, [Next]_vars, NEW s \in Slots,
             pc[s] = "wait_scan", pc'[s] = "user"
      PROVE  Excused(s)
  <2> USE <1>1, SlotFacts DEF At, Running, Goto
  <2>1. /\ state[s] = "RUNNING" /\ Types
        /\ \A u \in Slots \ {s} : pc[u] # "wait_scan"
        /\ NextKidIs
    BY NextKidFacts, LabelFacts DEF Inv, Base, WaitLocked
  <2>2. CASE WaitReap(s) \/ WaitFault(s)
    BY <2>1, <2>2 DEF WaitReap, WaitFault, NextKidIs, Children
  <2>3. CASE WaitEnd(s)
    <3>1. ~havekids[s] \/ killed[s]
      BY <2>1, <2>3 DEF WaitEnd, Types
    <3>2. \A u \in Slots : parent[u] = s => u < idx[s]
      BY <2>1, <2>3 DEF WaitEnd, NextKidIs
    <3>3. ~havekids[s] => \A u \in Slots : parent[u] # s
      BY <3>2 DEF Inv, Rouses
    <3> QED
      BY <3>1, <3>3 DEF Children
  <2> QED
    BY <2>1, <2>2, <2>3 DEF Next, Continue, ExitCall, Types, vars, thread,
       SwitchOut, Dispatch, Yield, Preempt, Fork, ForkFails, ForkParent, ForkRun,
       Syscall, Exit, ExitNum, ExitLock, Reparent, Wakeup, WakeInit, WakeParent,
       ExitZombie, WaitCall, WaitFault, WaitLock, WaitReap, WaitSkip, WaitEnd,
       WaitSleep, KillFind, KillMark, Return
<1>2. Inv /\ [Next]_vars =>
        [\A s \in Slots :
           pc[s] = "wait_scan" /\ pc'[s] = "user" /\ UNCHANGED pid => Excused(s)]_vars
  BY <1>1
<1> QED
  BY <1>2, Invariance, PTL DEF WaitFailsHonestly, Spec
-----------------------------------------------------------------------------
(***************************************************************************)
(* The process table keeps the promises of the process tree: whatever      *)
(* locks are held, whoever runs, and wherever fork(), exit() and wait()    *)
(* are in their loops, each of their steps is one of ProcTree.             *)
(***************************************************************************)

Alive(s) == state[s] \in {"SLEEPING", "RUNNABLE", "RUNNING"}

\* A process ID belongs to one slot, was handed out, and is 0 in a free slot.
Numbers ==
  /\ \A s, t \in Slots : pid[s] = pid[t] /\ pid[s] # 0 => s = t
  /\ \A s \in Slots : pid[s] < nextpid
  /\ \A s \in Slots : pid[s] = 0 <=> state[s] = "UNUSED"
  /\ pid[initproc] = 1

\* init lives, so does the parent of whoever has one, and reparent() has left no
\* child to a process that is past it; the child of a fork() gets its parent once.
Kinship ==
  /\ Alive(initproc) /\ pc[initproc] \notin Exiting \union {"exit_lock"}
  /\ \A t \in Slots : state[t] = "UNUSED" => parent[t] = 0
  /\ \A t \in Slots : parent[t] # 0 =>
       Alive(parent[t]) /\ pc[parent[t]] \notin {"wake_parent", "zombie"}
  /\ \A s \in Slots : pc[s] \in Adopting => parent[np[s]] = 0
  /\ \A s \in Slots : pc[s] \in Starting => parent[np[s]] = s

RefInv == Base /\ Numbers /\ Kinship

LEMMA ExitingFacts ==
  /\ {"reparent", "wake_init", "wake_parent", "zombie"} \subseteq Exiting
  /\ \A l \in {"user", "exit_lock", "wait_lock", "wait_scan", "wait_sleep", "kill_mark",
                "fn_alloc", "fn_kill", "wa_lock", "wa_scan", "wa_free"} \union Forking :
       l \notin Exiting
  /\ Exiting \subseteq Holding
  /\ Adopting \subseteq Forking /\ Starting \subseteq Forking
  /\ \A l \in Adopting : l \notin Starting
  /\ "fork_parent" \in Adopting /\ "fork_run" \in Starting
BY DEF Exiting, Holding, Forking, Adopting, Starting

\* What the scan of reparent() finds.
ChildIs ==
  \A s \in Slots :
     LET t == First(Children(s)) IN
     /\ t = 0 => \A u \in Slots : parent[u] # s
     /\ t # 0 => t \in Slots /\ parent[t] = s

LEMMA ChildFacts == ChildIs
<1>1. ASSUME NEW s \in Slots
      PROVE  LET t == First(Children(s)) IN
             /\ t = 0 => \A u \in Slots : parent[u] # s
             /\ t # 0 => t \in Slots /\ parent[t] = s
  <2>1. Children(s) \in SUBSET Slots
    BY DEF Children
  <2>2. /\ First(Children(s)) = 0 <=> Children(s) = {}
        /\ Children(s) # {} => First(Children(s)) \in Children(s)
    BY <2>1, FirstFacts
  <2> QED
    BY <2>2 DEF Children
<1> QED
  BY <1>1 DEF ChildIs

LEMMA KinStep ==
  ASSUME RefInv, [Next]_vars
  PROVE  Numbers' /\ Kinship'
<1> USE SlotFacts, LabelFacts, ExitingFacts DEF At, Running, Goto, table, locks, thread, Alive
<1>0. /\ Types /\ Loops /\ Embryos /\ Victims /\ WaitLocked /\ Numbers /\ Kinship
      /\ pid \in [Slots -> 0..MaxPid] /\ nextpid \in 2..(MaxPid + 1)
  BY DEF RefInv, Base, Data
<1>00. NextKidIs /\ ChildIs /\ nextpid \in Int /\ nextpid # 0 /\ \A u \in Slots : pid[u] \in Int
  BY <1>0, NextKidFacts, ChildFacts
<1>1. ASSUME NEW c \in CPUs, SwitchOut(c)
      PROVE  Numbers' /\ Kinship'
  <2> USE <1>1 DEF SwitchOut
  <2>1. Numbers'
    BY <1>0, <1>00 DEF Numbers, Types, Embryos, NextKidIs
  <2>2. Kinship'
    BY <1>0, <1>00 DEF Kinship, Numbers, Types, Loops, Embryos, WaitLocked, NextKidIs, ChildIs
  <2> QED
    BY <2>1, <2>2
<1>2. ASSUME NEW c \in CPUs, NEW s \in Slots, Dispatch(c, s)
      PROVE  Numbers' /\ Kinship'
  <2> USE <1>2 DEF Dispatch
  <2>1. Numbers'
    BY <1>0, <1>00 DEF Numbers, Types, Embryos, NextKidIs
  <2>2. Kinship'
    BY <1>0, <1>00 DEF Kinship, Numbers, Types, Loops, Embryos, WaitLocked, NextKidIs, ChildIs
  <2> QED
    BY <2>1, <2>2
<1>3. ASSUME NEW s \in Slots, NEW t \in Slots, Fork(s, t)
      PROVE  Numbers' /\ Kinship'
  <2> USE <1>3 DEF Fork, Syscall
  <2>1. Numbers'
    BY <1>0, <1>00 DEF Numbers, Types, Embryos, NextKidIs
  <2>2. Kinship'
    BY <1>0, <1>00 DEF Kinship, Numbers, Types, Loops, Embryos, WaitLocked, NextKidIs, ChildIs
  <2> QED
    BY <2>1, <2>2
<1>4. ASSUME NEW s \in Slots, NEW t \in Slots, ForkFails(s, t)
      PROVE  Numbers' /\ Kinship'
  <2> USE <1>4 DEF ForkFails, Syscall, freeproc
  <2>1. Numbers'
    BY <1>0, <1>00 DEF Numbers, Types, Embryos, NextKidIs
  <2>2. Kinship'
    BY <1>0, <1>00 DEF Kinship, Numbers, Types, Loops, Embryos, WaitLocked, NextKidIs, ChildIs
  <2> QED
    BY <2>1, <2>2
<1>5. ASSUME NEW s \in Slots, NEW t \in Slots, KillFind(s, t)
      PROVE  Numbers' /\ Kinship'
  <2> USE <1>5 DEF KillFind, Syscall
  <2>1. Numbers'
    BY <1>0, <1>00 DEF Numbers, Types, Embryos, NextKidIs
  <2>2. Kinship'
    BY <1>0, <1>00 DEF Kinship, Numbers, Types, Loops, Embryos, WaitLocked, NextKidIs, ChildIs
  <2> QED
    BY <2>1, <2>2
<1>6. ASSUME NEW s \in Slots, Yield(s)
      PROVE  Numbers' /\ Kinship'
  <2> USE <1>6 DEF Yield, Preempt
  <2>1. Numbers'
    BY <1>0, <1>00 DEF Numbers, Types, Embryos, NextKidIs
  <2>2. Kinship'
    BY <1>0, <1>00 DEF Kinship, Numbers, Types, Loops, Embryos, WaitLocked, NextKidIs, ChildIs
  <2> QED
    BY <2>1, <2>2
<1>7. ASSUME NEW s \in Slots, Exit(s)
      PROVE  Numbers' /\ Kinship'
  <2> USE <1>7 DEF Exit
  <2>1. Numbers'
    BY <1>0, <1>00 DEF Numbers, Types, Embryos, NextKidIs
  <2>2. Kinship'
    BY <1>0, <1>00 DEF Kinship, Numbers, Types, Loops, Embryos, WaitLocked, NextKidIs, ChildIs
  <2> QED
    BY <2>1, <2>2
<1>8. ASSUME NEW s \in Slots, NEW status \in Statuses, ExitNum(s, status)
      PROVE  Numbers' /\ Kinship'
  <2> USE <1>8 DEF ExitNum, Syscall
  <2>1. Numbers'
    BY <1>0, <1>00 DEF Numbers, Types, Embryos, NextKidIs
  <2>2. Kinship'
    BY <1>0, <1>00 DEF Kinship, Numbers, Types, Loops, Embryos, WaitLocked, NextKidIs, ChildIs
  <2> QED
    BY <2>1, <2>2
<1>9. ASSUME NEW s \in Slots, WaitCall(s)
      PROVE  Numbers' /\ Kinship'
  <2> USE <1>9 DEF WaitCall, Syscall
  <2>1. Numbers'
    BY <1>0, <1>00 DEF Numbers, Types, Embryos, NextKidIs
  <2>2. Kinship'
    BY <1>0, <1>00 DEF Kinship, Numbers, Types, Loops, Embryos, WaitLocked, NextKidIs, ChildIs
  <2> QED
    BY <2>1, <2>2
<1>10. ASSUME NEW s \in Slots, WaitFault(s)
      PROVE  Numbers' /\ Kinship'
  <2> USE <1>10 DEF WaitFault, Return
  <2>1. Numbers'
    BY <1>0, <1>00 DEF Numbers, Types, Embryos, NextKidIs
  <2>2. Kinship'
    BY <1>0, <1>00 DEF Kinship, Numbers, Types, Loops, Embryos, WaitLocked, NextKidIs, ChildIs
  <2> QED
    BY <2>1, <2>2
<1>11. ASSUME NEW s \in Slots, ForkParent(s)
      PROVE  Numbers' /\ Kinship'
  <2> USE <1>11 DEF ForkParent
  <2>1. Numbers'
    BY <1>0, <1>00 DEF Numbers, Types, Embryos, NextKidIs
  <2>2. Kinship'
    BY <1>0, <1>00 DEF Kinship, Numbers, Types, Loops, Embryos, WaitLocked, NextKidIs, ChildIs
  <2> QED
    BY <2>1, <2>2
<1>12. ASSUME NEW s \in Slots, ForkRun(s)
      PROVE  Numbers' /\ Kinship'
  <2> USE <1>12 DEF ForkRun
  <2>1. Numbers'
    BY <1>0, <1>00 DEF Numbers, Types, Embryos, NextKidIs
  <2>2. Kinship'
    BY <1>0, <1>00 DEF Kinship, Numbers, Types, Loops, Embryos, WaitLocked, NextKidIs, ChildIs
  <2> QED
    BY <2>1, <2>2
<1>13. ASSUME NEW s \in Slots, ExitLock(s)
      PROVE  Numbers' /\ Kinship'
  <2> USE <1>13 DEF ExitLock
  <2>1. Numbers'
    BY <1>0, <1>00 DEF Numbers, Types, Embryos, NextKidIs
  <2>2. Kinship'
    BY <1>0, <1>00 DEF Kinship, Numbers, Types, Loops, Embryos, WaitLocked, NextKidIs, ChildIs
  <2> QED
    BY <2>1, <2>2
<1>14. ASSUME NEW s \in Slots, Reparent(s)
      PROVE  Numbers' /\ Kinship'
  <2> USE <1>14 DEF Reparent
  <2>1. Numbers'
    BY <1>0, <1>00 DEF Numbers, Types, Embryos, NextKidIs
  <2>2. Kinship'
    BY <1>0, <1>00 DEF Kinship, Numbers, Types, Loops, Embryos, WaitLocked, NextKidIs, ChildIs
  <2> QED
    BY <2>1, <2>2
<1>15. ASSUME NEW s \in Slots, WakeInit(s)
      PROVE  Numbers' /\ Kinship'
  <2> USE <1>15 DEF WakeInit, Wakeup
  <2>1. Numbers'
    BY <1>0, <1>00 DEF Numbers, Types, Embryos, NextKidIs
  <2>2. Kinship'
    BY <1>0, <1>00 DEF Kinship, Numbers, Types, Loops, Embryos, WaitLocked, NextKidIs, ChildIs
  <2> QED
    BY <2>1, <2>2
<1>16. ASSUME NEW s \in Slots, WakeParent(s)
      PROVE  Numbers' /\ Kinship'
  <2> USE <1>16 DEF WakeParent, Wakeup
  <2>1. Numbers'
    BY <1>0, <1>00 DEF Numbers, Types, Embryos, NextKidIs
  <2>2. Kinship'
    BY <1>0, <1>00 DEF Kinship, Numbers, Types, Loops, Embryos, WaitLocked, NextKidIs, ChildIs
  <2> QED
    BY <2>1, <2>2
<1>17. ASSUME NEW s \in Slots, ExitZombie(s)
      PROVE  Numbers' /\ Kinship'
  <2> USE <1>17 DEF ExitZombie
  <2>1. Numbers'
    BY <1>0, <1>00 DEF Numbers, Types, Embryos, NextKidIs
  <2>2. Kinship'
    BY <1>0, <1>00 DEF Kinship, Numbers, Types, Loops, Embryos, WaitLocked, NextKidIs, ChildIs
  <2> QED
    BY <2>1, <2>2
<1>18. ASSUME NEW s \in Slots, WaitLock(s)
      PROVE  Numbers' /\ Kinship'
  <2> USE <1>18 DEF WaitLock
  <2>1. Numbers'
    BY <1>0, <1>00 DEF Numbers, Types, Embryos, NextKidIs
  <2>2. Kinship'
    BY <1>0, <1>00 DEF Kinship, Numbers, Types, Loops, Embryos, WaitLocked, NextKidIs, ChildIs
  <2> QED
    BY <2>1, <2>2
<1>19. ASSUME NEW s \in Slots, WaitReap(s)
      PROVE  Numbers' /\ Kinship'
  <2> USE <1>19 DEF WaitReap, Return, freeproc
  <2>1. Numbers'
    <3> DEFINE k == NextKid(s)
    <3>1. /\ k \in Slots /\ state[k] = "ZOMBIE" /\ k # initproc
          /\ pid' = [pid EXCEPT ![k] = 0] /\ state' = [state EXCEPT ![k] = "UNUSED"]
          /\ nextpid' = nextpid
      BY <1>0, <1>00 DEF NextKidIs, Kinship
    <3> HIDE DEF k
    <3> QED
      BY <1>0, <1>00, <3>1 DEF Numbers, Types
  <2>2. Kinship'
    BY <1>0, <1>00 DEF Kinship, Numbers, Types, Loops, Embryos, WaitLocked, NextKidIs, ChildIs
  <2> QED
    BY <2>1, <2>2
<1>20. ASSUME NEW s \in Slots, WaitSkip(s)
      PROVE  Numbers' /\ Kinship'
  <2> USE <1>20 DEF WaitSkip
  <2>1. Numbers'
    BY <1>0, <1>00 DEF Numbers, Types, Embryos, NextKidIs
  <2>2. Kinship'
    BY <1>0, <1>00 DEF Kinship, Numbers, Types, Loops, Embryos, WaitLocked, NextKidIs, ChildIs
  <2> QED
    BY <2>1, <2>2
<1>21. ASSUME NEW s \in Slots, WaitEnd(s)
      PROVE  Numbers' /\ Kinship'
  <2> USE <1>21 DEF WaitEnd, Return
  <2>1. Numbers'
    BY <1>0, <1>00 DEF Numbers, Types, Embryos, NextKidIs
  <2>2. Kinship'
    BY <1>0, <1>00 DEF Kinship, Numbers, Types, Loops, Embryos, WaitLocked, NextKidIs, ChildIs
  <2> QED
    BY <2>1, <2>2
<1>22. ASSUME NEW s \in Slots, WaitSleep(s)
      PROVE  Numbers' /\ Kinship'
  <2> USE <1>22 DEF WaitSleep
  <2>1. Numbers'
    BY <1>0, <1>00 DEF Numbers, Types, Embryos, NextKidIs
  <2>2. Kinship'
    BY <1>0, <1>00 DEF Kinship, Numbers, Types, Loops, Embryos, WaitLocked, NextKidIs, ChildIs
  <2> QED
    BY <2>1, <2>2
<1>23. ASSUME NEW s \in Slots, KillMark(s)
      PROVE  Numbers' /\ Kinship'
  <2> USE <1>23 DEF KillMark
  <2>1. Numbers'
    BY <1>0, <1>00 DEF Numbers, Types, Embryos, NextKidIs
  <2>2. Kinship'
    BY <1>0, <1>00 DEF Kinship, Numbers, Types, Loops, Embryos, WaitLocked, NextKidIs, ChildIs
  <2> QED
    BY <2>1, <2>2
<1>24. CASE UNCHANGED vars
  BY <1>24, <1>0 DEF vars, Numbers, Kinship, Alive
<1> QED
  BY <1>1, <1>2, <1>3, <1>4, <1>5, <1>6, <1>7, <1>8, <1>9, <1>10, <1>11, <1>12,
     <1>13, <1>14, <1>15, <1>16, <1>17, <1>18, <1>19, <1>20, <1>21, <1>22, <1>23, <1>24 DEF Next, Continue, ExitCall

-----------------------------------------------------------------------------
(* The tree that the slots show. *)

IDs == 1..MaxPid

\* The ID of the parent of the process in slot s.
Up(s) == LET h == HeirOf(parent[s]) IN IF h = 0 THEN 0 ELSE pid[h]

\* A process ID is what its slot says, or it has no slot (any more, or yet).
Seen ==
  /\ \A s \in Slots : pid[s] # 0 =>
       pid[s] \in IDs /\ LifeOf(pid[s]) = LifeIn(s) /\ ParentOf(pid[s]) = Up(s)
  /\ \A p \in IDs : (\A s \in Slots : pid[s] # p) =>
       LifeOf(p) = (IF p >= nextpid THEN "unborn" ELSE "gone") /\ ParentOf(p) = 0

LEMMA SeenFacts == RefInv => Seen
<1> SUFFICES ASSUME RefInv PROVE Seen
  OBVIOUS
<1>1. ASSUME NEW s \in Slots, pid[s] # 0
      PROVE  pid[s] \in IDs /\ LifeOf(pid[s]) = LifeIn(s) /\ ParentOf(pid[s]) = Up(s)
  <2>1. SlotOf(pid[s]) = {s}
    BY <1>1 DEF SlotOf, RefInv, Numbers
  <2>2. pid[s] \in 0..MaxPid /\ pid[s] < nextpid /\ nextpid \in 2..(MaxPid + 1)
    BY DEF RefInv, Numbers, Base, Data
  <2>3. pid[s] \in IDs /\ ~(pid[s] >= nextpid)
    BY <1>1, <2>2, ProcConstants DEF IDs
  <2> QED
    BY <2>1, <2>3 DEF LifeOf, ParentOf, Up
<1>2. ASSUME NEW p \in IDs, \A s \in Slots : pid[s] # p
      PROVE  LifeOf(p) = (IF p >= nextpid THEN "unborn" ELSE "gone") /\ ParentOf(p) = 0
  <2>1. SlotOf(p) = {}
    BY <1>2 DEF SlotOf
  <2> QED
    BY <2>1 DEF LifeOf, ParentOf
<1> QED
  BY <1>1, <1>2 DEF Seen

\* The life of a slot that is in use.
Lively ==
  \A s \in Slots : state[s] # "UNUSED" =>
     /\ LifeIn(s) = "embryo" <=> state[s] = "USED"
     /\ LifeIn(s) = "zombie" <=> state[s] = "ZOMBIE"
     /\ LifeIn(s) = "exiting" <=> pc[s] \in Exiting
     /\ LifeIn(s) \in {"embryo", "zombie", "exiting", "live"}

LEMMA LivelyFacts == RefInv => Lively
BY ExitingFacts DEF RefInv, Base, WaitLocked, Lively, LifeIn

LEMMA Views ==
  ASSUME RefInv, RefInv'
  PROVE  Seen /\ Lively /\ Seen' /\ Lively'
<1>1. Seen /\ Lively
  BY SeenFacts, LivelyFacts
<1>2. Seen' /\ Lively'
  BY SeenFacts, LivelyFacts, PTL
<1> QED
  BY <1>1, <1>2

life == [p \in IDs |-> LifeOf(p)]
kin == [p \in IDs |-> ParentOf(p)]

\* As long as no ID is handed out or given back, each has the same slot or none.
LEMMA SameIDs ==
  ASSUME Seen, Seen', UNCHANGED <<pid, nextpid>>, NEW p \in IDs
  PROVE  \/ \E s \in Slots : /\ pid[s] = p /\ pid[s] # 0
                             /\ LifeOf(p) = LifeIn(s) /\ LifeOf(p)' = LifeIn(s)'
                             /\ ParentOf(p) = Up(s) /\ ParentOf(p)' = Up(s)'
         \/ LifeOf(p)' = LifeOf(p) /\ ParentOf(p)' = ParentOf(p)
<1>0. p # 0
  BY DEF IDs
<1> HIDE DEF IDs
<1>1. CASE \E s \in Slots : pid[s] = p
  <2>1. PICK s \in Slots : pid[s] = p
    BY <1>1
  <2>2. LifeOf(p)' = LifeIn(s)' /\ ParentOf(p)' = Up(s)'
    BY <1>0, <2>1 DEF Seen
  <2> QED
    BY <1>0, <2>1, <2>2 DEF Seen
<1>2. CASE \A s \in Slots : pid[s] # p
  <2>1. LifeOf(p)' = (IF p >= nextpid' THEN "unborn" ELSE "gone") /\ ParentOf(p)' = 0
    BY <1>2 DEF Seen
  <2> QED
    BY <1>2, <2>1 DEF Seen
<1> QED
  BY <1>1, <1>2

\* A step that changes nothing that the tree shows.
Still ==
  /\ UNCHANGED <<pid, nextpid>>
  /\ \A u \in Slots : state[u] # "UNUSED" =>
       /\ state'[u] = "USED" <=> state[u] = "USED"
       /\ state'[u] = "ZOMBIE" <=> state[u] = "ZOMBIE"
       /\ pc'[u] \in Exiting <=> pc[u] \in Exiting
       /\ HeirOf(parent[u])' = HeirOf(parent[u])

LEMMA Quiet ==
  ASSUME RefInv, RefInv', Still
  PROVE  UNCHANGED <<life, kin>>
<1> USE DEF Still
<1>1. ASSUME NEW p \in IDs
      PROVE  LifeOf(p)' = LifeOf(p) /\ ParentOf(p)' = ParentOf(p)
  <2>1. ASSUME NEW s \in Slots, pid[s] # 0
        PROVE  LifeIn(s)' = LifeIn(s) /\ Up(s)' = Up(s)
    <3>1. state[s] # "UNUSED" /\ state'[s] # "UNUSED"
      BY <2>1 DEF RefInv, Numbers
    <3>2. LifeIn(s)' = LifeIn(s)
      BY <3>1, Views DEF Lively
    <3>3. Up(s)' = Up(s)
      BY <3>1 DEF Up
    <3> QED
      BY <3>2, <3>3
  <2> QED
    BY <2>1, SameIDs, Views
<1> QED
  BY <1>1 DEF life, kin

LEMMA QuietSteps ==
  ASSUME RefInv, RefInv', NEW s \in Slots,
         \/ (\E c \in CPUs : SwitchOut(c))
         \/ (\E c \in CPUs : Dispatch(c, s))
         \/ (\E t \in Slots : KillFind(s, t))
         \/ Yield(s)
         \/ Exit(s)
         \/ (\E status \in Statuses : ExitNum(s, status))
         \/ WaitCall(s)
         \/ WaitFault(s)
         \/ Reparent(s)
         \/ WakeInit(s)
         \/ WakeParent(s)
         \/ WaitLock(s)
         \/ WaitSkip(s)
         \/ WaitEnd(s)
         \/ WaitSleep(s)
         \/ KillMark(s)
  PROVE  UNCHANGED <<life, kin>>
<1> USE DEF Still
<1> USE SlotFacts, LabelFacts, ExitingFacts DEF At, Running, Goto, table, locks, thread, HeirOf
<1>0. /\ Types /\ Loops /\ WaitLocked /\ Kinship /\ NextKidIs /\ ChildIs
  BY NextKidFacts, ChildFacts DEF RefInv, Base
<1>1. ASSUME NEW c \in CPUs, SwitchOut(c)
      PROVE  Still
  BY <1>0, <1>1 DEF SwitchOut, Types, Loops, WaitLocked
<1>2. ASSUME NEW c \in CPUs, Dispatch(c, s)
      PROVE  Still
  BY <1>0, <1>2 DEF Dispatch, Types, Loops, WaitLocked
<1>3. ASSUME NEW t \in Slots, KillFind(s, t)
      PROVE  Still
  BY <1>0, <1>3 DEF KillFind, Syscall, Types, Loops, WaitLocked
<1>4. ASSUME Yield(s)
      PROVE  Still
  BY <1>0, <1>4 DEF Yield, Preempt, Types, Loops, WaitLocked
<1>5. ASSUME Exit(s)
      PROVE  Still
  BY <1>0, <1>5 DEF Exit, Types, Loops, WaitLocked
<1>6. ASSUME NEW status \in Statuses, ExitNum(s, status)
      PROVE  Still
  BY <1>0, <1>6 DEF ExitNum, Syscall, Types, Loops, WaitLocked
<1>7. ASSUME WaitCall(s)
      PROVE  Still
  BY <1>0, <1>7 DEF WaitCall, Syscall, Types, Loops, WaitLocked
<1>8. ASSUME WaitFault(s)
      PROVE  Still
  BY <1>0, <1>8 DEF WaitFault, Return, Types, Loops, WaitLocked
<1>9. ASSUME Reparent(s)
      PROVE  Still
  BY <1>0, <1>9 DEF Reparent, Types, Loops, WaitLocked, Kinship, ChildIs
<1>10. ASSUME WakeInit(s)
      PROVE  Still
  BY <1>0, <1>10 DEF WakeInit, Wakeup, Types, Loops, WaitLocked
<1>11. ASSUME WakeParent(s)
      PROVE  Still
  BY <1>0, <1>11 DEF WakeParent, Wakeup, Types, Loops, WaitLocked
<1>12. ASSUME WaitLock(s)
      PROVE  Still
  BY <1>0, <1>12 DEF WaitLock, Types, Loops, WaitLocked
<1>13. ASSUME WaitSkip(s)
      PROVE  Still
  BY <1>0, <1>13 DEF WaitSkip, Types, Loops, WaitLocked
<1>14. ASSUME WaitEnd(s)
      PROVE  Still
  BY <1>0, <1>14 DEF WaitEnd, Return, Types, Loops, WaitLocked
<1>15. ASSUME WaitSleep(s)
      PROVE  Still
  BY <1>0, <1>15 DEF WaitSleep, Types, Loops, WaitLocked
<1>16. ASSUME KillMark(s)
      PROVE  Still
  BY <1>0, <1>16 DEF KillMark, Types, Loops, WaitLocked
<1> QED
  BY <1>1, <1>2, <1>3, <1>4, <1>5, <1>6, <1>7, <1>8, <1>9, <1>10, <1>11, <1>12, <1>13, <1>14, <1>15, <1>16, Quiet

-----------------------------------------------------------------------------
(* fork(), exit() and wait() take the steps of the tree. *)

\* The ID that fork() will hand out next is the first that is unborn.
LEMMA NextID ==
  ASSUME RefInv, nextpid <= MaxPid
  PROVE  /\ nextpid \in IDs /\ nextpid # 0
         /\ \A u \in Slots : pid[u] # nextpid
         /\ LifeOf(nextpid) = "unborn" /\ ParentOf(nextpid) = 0
         /\ \A p \in IDs : p < nextpid => LifeOf(p) # "unborn"
<1>1. nextpid \in IDs /\ nextpid # 0 /\ nextpid >= nextpid /\ nextpid \in Int
  BY ProcConstants DEF RefInv, Base, Data, IDs
<1>2. \A u \in Slots : pid[u] # nextpid
  BY <1>1 DEF RefInv, Numbers, Base, Data
<1>3. Seen /\ Lively
  BY SeenFacts, LivelyFacts
<1>4. LifeOf(nextpid) = "unborn" /\ ParentOf(nextpid) = 0
  BY <1>1, <1>2, <1>3 DEF Seen
<1>5. ASSUME NEW p \in IDs, p < nextpid
      PROVE  LifeOf(p) # "unborn"
  <2>1. ~(p >= nextpid)
    BY <1>1, <1>5 DEF IDs
  <2>2. CASE \E s \in Slots : pid[s] = p
    <3>1. PICK s \in Slots : pid[s] = p
      BY <2>2
    <3>2. pid[s] # 0
      BY <3>1 DEF IDs
    <3> QED
      BY <1>3, <3>1, <3>2 DEF Seen, Lively, RefInv, Numbers
  <2>3. CASE \A s \in Slots : pid[s] # p
    BY <1>3, <2>1, <2>3 DEF Seen
  <2> QED
    BY <2>2, <2>3
<1> QED
  BY <1>1, <1>2, <1>4, <1>5

\* All that fork() and its failure have in common: one ID is used up.
LEMMA OneIDMore ==
  ASSUME RefInv, RefInv', NEW t \in Slots, state[t] = "UNUSED",
         nextpid <= MaxPid, nextpid' = nextpid + 1,
         \A u \in Slots \ {t} : pid'[u] = pid[u],
         \A u \in Slots : state[u] # "UNUSED" =>
            LifeIn(u)' = LifeIn(u) /\ Up(u)' = Up(u),
         pid'[t] \in {0, nextpid}
  PROVE  \A p \in IDs \ {nextpid} : LifeOf(p)' = LifeOf(p) /\ ParentOf(p)' = ParentOf(p)
<1> SUFFICES ASSUME NEW p \in IDs, p # nextpid
             PROVE  LifeOf(p)' = LifeOf(p) /\ ParentOf(p)' = ParentOf(p)
  OBVIOUS
<1>1. p # 0 /\ (p >= nextpid' <=> p >= nextpid)
  BY DEF IDs, RefInv, Base, Data
<1>2. pid[t] = 0
  BY DEF RefInv, Numbers
<1>3. CASE \E s \in Slots : pid[s] = p
  <2>1. PICK s \in Slots : pid[s] = p
    BY <1>3
  <2>2. s # t /\ pid'[s] = p /\ state[s] # "UNUSED"
    BY <1>1, <1>2, <2>1 DEF RefInv, Numbers
  <2>3. LifeOf(p) = LifeIn(s) /\ ParentOf(p) = Up(s)
    BY <1>1, <2>1, Views DEF Seen
  <2>4. LifeOf(p)' = LifeIn(s)' /\ ParentOf(p)' = Up(s)'
    BY <1>1, <2>2, Views DEF Seen
  <2> QED
    BY <2>2, <2>3, <2>4
<1>4. CASE \A s \in Slots : pid[s] # p
  <2>1. \A s \in Slots : pid'[s] # p
    BY <1>1, <1>4
  <2>2. LifeOf(p) = (IF p >= nextpid THEN "unborn" ELSE "gone") /\ ParentOf(p) = 0
    BY <1>4, Views DEF Seen
  <2>3. LifeOf(p)' = (IF p >= nextpid' THEN "unborn" ELSE "gone") /\ ParentOf(p)' = 0
    BY <2>1, Views DEF Seen
  <2> QED
    BY <1>1, <2>2, <2>3
<1> QED
  BY <1>3, <1>4

\* What a step does that takes a slot and an ID for a child, gives the child its
\* parent, starts it, or frees a zombie of s: of fork() or forkn(), of wait() or
\* waitall().
SameExits == \A u \in Slots : pc'[u] \in Exiting <=> pc[u] \in Exiting

Conceives(t) ==
  /\ state[t] = "UNUSED" /\ nextpid <= MaxPid
  /\ state' = [state EXCEPT ![t] = "USED"]
  /\ pid' = [pid EXCEPT ![t] = nextpid] /\ nextpid' = nextpid + 1
  /\ UNCHANGED parent /\ SameExits

Adopts(s) ==
  /\ state[s] = "RUNNING" /\ pc[s] \in Adopting
  /\ parent' = [parent EXCEPT ![np[s]] = s]
  /\ UNCHANGED <<pid, nextpid, state>> /\ SameExits

Starts(s) ==
  /\ state[s] = "RUNNING" /\ pc[s] \in Starting
  /\ state' = [state EXCEPT ![np[s]] = "RUNNABLE"]
  /\ UNCHANGED <<pid, nextpid, parent>> /\ SameExits

Reaps(s, t) ==
  /\ state[s] = "RUNNING" /\ pc[s] \notin Exiting
  /\ state[t] = "ZOMBIE" /\ parent[t] = s
  /\ state' = [state EXCEPT ![t] = "UNUSED"]
  /\ pid' = [pid EXCEPT ![t] = 0] /\ parent' = [parent EXCEPT ![t] = 0]
  /\ UNCHANGED nextpid /\ SameExits

LEMMA ForkStep ==
  ASSUME RefInv, RefInv', NEW t \in Slots, Conceives(t),
         NEW c \in IDs, c = nextpid
  PROVE  Tree!Conceive(c)
<1> USE DEF Conceives, SameExits
<1>0. /\ Types /\ Loops /\ WaitLocked /\ Kinship /\ Numbers /\ pid \in [Slots -> 0..MaxPid]
  BY DEF RefInv, Base, Data
<1>1. pid' = [pid EXCEPT ![t] = nextpid] /\ pid'[t] = nextpid /\ state'[t] = "USED"
  BY <1>0 DEF Types
<1>2. parent[t] = 0 /\ \A u \in Slots : parent[u] # t
  BY <1>0, SlotFacts DEF Kinship, Alive
<1>3. \A u \in Slots : pc'[u] \in Exiting <=> pc[u] \in Exiting
  OBVIOUS
<1>4. \A u \in Slots : state[u] # "UNUSED" => LifeIn(u)' = LifeIn(u)
  <2>1. \A u \in Slots : state[u] # "UNUSED" => state'[u] = state[u]
    BY <1>0 DEF Types
  <2> QED
    BY <1>3, <2>1, Views DEF Lively
<1>5. \A u \in Slots : Up(u)' = Up(u)
  <2>1. initproc # t
    BY <1>0 DEF Kinship, Alive
  <2>2. ASSUME NEW u \in Slots PROVE  Up(u)' = Up(u)
    <3>1. parent'[u] = parent[u] /\ parent[u] # t /\ parent[u] \in Slots \union {0}
      BY <1>0, <1>2 DEF Loops
    <3>2. HeirOf(parent[u])' = HeirOf(parent[u]) /\ HeirOf(parent[u]) # t
      BY <1>3, <2>1, <3>1 DEF HeirOf
    <3>3. HeirOf(parent[u]) \in Slots \union {0}
      BY <3>1, SlotFacts DEF HeirOf
    <3> QED
      BY <1>0, <1>1, <3>2, <3>3 DEF Up
  <2> QED
    BY <2>2
<1>6. nextpid <= MaxPid /\ nextpid' = nextpid + 1 /\ state[t] = "UNUSED"
      /\ \A u \in Slots \ {t} : pid'[u] = pid[u]
  BY <1>0
<1>7. \A p \in IDs \ {nextpid} : LifeOf(p)' = LifeOf(p) /\ ParentOf(p)' = ParentOf(p)
  BY <1>1, <1>4, <1>5, <1>6, OneIDMore
<1>8. LifeOf(c)' = "embryo" /\ ParentOf(c)' = 0
  <2>1. c # 0
    BY <1>6, NextID
  <2>2. LifeOf(c)' = LifeIn(t)' /\ ParentOf(c)' = Up(t)'
    BY <1>1, <2>1, Views DEF Seen
  <2>3. LifeIn(t)' = "embryo"
    BY <1>1, Views DEF Lively
  <2>4. Up(t)' = 0
    BY <1>2, <1>5 DEF Up, HeirOf
  <2> QED
    BY <2>2, <2>3, <2>4
<1>9. /\ LifeOf(c) = "unborn" /\ ParentOf(c) = 0
      /\ \A p \in IDs : p < c => LifeOf(p) # "unborn"
  BY <1>6, NextID
<1> QED
  BY <1>7, <1>8, <1>9 DEF Tree!Conceive, IDs

LEMMA ForkFailsStep ==
  ASSUME RefInv, RefInv', NEW s \in Slots, NEW t \in Slots, ForkFails(s, t),
         NEW c \in IDs, c = nextpid
  PROVE  Tree!Miscarry(c)
<1> USE DEF ForkFails, Syscall, At, Running, freeproc, thread
<1>0. /\ Types /\ Loops /\ Kinship /\ Numbers /\ pid \in [Slots -> 0..MaxPid]
      /\ nextpid \in 2..(MaxPid + 1) /\ nextpid <= MaxPid /\ state[t] = "UNUSED"
  BY DEF RefInv, Base, Data
<1>1. pid' = pid /\ parent' = parent /\ state' = state /\ pc' = pc /\ pid[t] = 0
  BY <1>0 DEF Kinship, Numbers, Types, Loops
<1>2. \A u \in Slots : LifeIn(u)' = LifeIn(u) /\ Up(u)' = Up(u)
  BY <1>1 DEF LifeIn, Up, HeirOf
<1>3. \A p \in IDs \ {nextpid} : LifeOf(p)' = LifeOf(p) /\ ParentOf(p)' = ParentOf(p)
  BY <1>0, <1>1, <1>2, OneIDMore
<1>4. LifeOf(c)' = "gone" /\ ParentOf(c)' = 0
  <2>1. \A u \in Slots : pid'[u] # c
    BY <1>0, <1>1, NextID
  <2>2. ~(c >= nextpid')
    BY <1>0
  <2> QED
    BY <2>1, <2>2, Views DEF Seen
<1>5. /\ LifeOf(c) = "unborn" /\ ParentOf(c) = 0
      /\ \A p \in IDs : p < c => LifeOf(p) # "unborn"
  BY <1>0, NextID
<1> QED
  BY <1>3, <1>4, <1>5 DEF Tree!Miscarry, IDs

\* A slot that is in use, by its ID.
LEMMA IDOf ==
  ASSUME RefInv, RefInv', UNCHANGED pid, NEW s \in Slots, state[s] # "UNUSED",
         NEW p, p = pid[s]
  PROVE  /\ p \in IDs /\ p # 0
         /\ \A u \in Slots : pid[u] = p => u = s
         /\ LifeOf(p) = LifeIn(s) /\ LifeOf(p)' = LifeIn(s)'
         /\ ParentOf(p) = Up(s) /\ ParentOf(p)' = Up(s)'
<1>1. pid[s] # 0 /\ \A u \in Slots : pid[u] = p => u = s
  BY DEF RefInv, Numbers
<1>2. p = pid'[s] /\ pid'[s] # 0
  BY <1>1
<1>3. LifeOf(p) = LifeIn(s) /\ ParentOf(p) = Up(s) /\ p \in IDs
  BY <1>1, Views DEF Seen
<1>4. LifeOf(p)' = LifeIn(s)' /\ ParentOf(p)' = Up(s)'
  BY <1>2, Views DEF Seen
<1> QED
  BY <1>1, <1>2, <1>3, <1>4

LEMMA ForkParentStep ==
  ASSUME RefInv, RefInv', NEW s \in Slots, Adopts(s),
         NEW t, t = np[s], NEW p, p = pid[s], NEW c, c = pid[t]
  PROVE  Tree!Adopt(p, c) /\ p \in IDs /\ c \in IDs
<1> USE DEF Adopts, SameExits
<1>0. /\ Types /\ Loops /\ Embryos /\ WaitLocked /\ Kinship /\ Numbers
      /\ UNCHANGED <<pid, nextpid, state>>
  BY DEF RefInv, Base
<1>1. /\ state[s] = "RUNNING" /\ t \in Slots /\ state[t] = "USED" /\ parent[t] = 0
      /\ parent' = [parent EXCEPT ![t] = s] /\ pc[s] \notin Exiting /\ t # s
  BY <1>0, ExitingFacts DEF Embryos, Kinship
<1>2. \A u \in Slots : pc'[u] \in Exiting <=> pc[u] \in Exiting
  OBVIOUS
<1>3. \A u \in Slots : state[u] # "UNUSED" => LifeIn(u)' = LifeIn(u)
  BY <1>0, <1>2, Views DEF Lively
<1>4. \A u \in Slots \ {t} : Up(u)' = Up(u)
  <2>1. ASSUME NEW u \in Slots \ {t} PROVE Up(u)' = Up(u)
    <3>1. parent'[u] = parent[u] /\ parent[u] \in Slots \union {0}
      BY <1>0, <1>1 DEF Loops
    <3> QED
      BY <1>0, <1>2, <3>1 DEF Up, HeirOf
  <2> QED
    BY <2>1
<1>5. Up(t) = 0 /\ Up(t)' = pid[s]
  <2>1. parent'[t] = s /\ s # 0 /\ pc'[s] \notin Exiting
    BY <1>0, <1>1, SlotFacts DEF Loops
  <2> QED
    BY <1>0, <1>1, <2>1 DEF Up, HeirOf
<1>6. /\ p \in IDs /\ c \in IDs
      /\ LifeOf(p) = "live" /\ LifeOf(c) = "embryo"
      /\ ParentOf(c) = 0 /\ ParentOf(c)' = p
  <2>1. LifeIn(s) = "live" /\ LifeIn(t) = "embryo"
    BY <1>0, <1>1, Views DEF Lively
  <2> QED
    BY <1>0, <1>1, <1>5, <2>1, IDOf
<1>7. ASSUME NEW q \in IDs, q # c
      PROVE  LifeOf(q)' = LifeOf(q) /\ ParentOf(q)' = ParentOf(q)
  <2>1. \A u \in Slots : pid[u] = q => u # t
    BY <1>7
  <2>2. \A u \in Slots : pid[u] # 0 => state[u] # "UNUSED"
    BY <1>0 DEF Numbers
  <2> QED
    BY <1>0, <1>3, <1>4, <2>1, <2>2, SameIDs, Views
<1>8. LifeOf(c)' = LifeOf(c)
  BY <1>0, <1>1, <1>3, IDOf
<1> QED
  BY <1>6, <1>7, <1>8 DEF Tree!Adopt, IDs

LEMMA ForkRunStep ==
  ASSUME RefInv, RefInv', NEW s \in Slots, Starts(s),
         NEW t, t = np[s], NEW c, c = pid[t]
  PROVE  Tree!Start(c) /\ c \in IDs
<1> USE DEF Starts, SameExits
<1>0. /\ Types /\ Loops /\ Embryos /\ WaitLocked /\ Kinship /\ Numbers
      /\ UNCHANGED <<pid, nextpid, parent>>
  BY DEF RefInv, Base
<1>1. /\ state[s] = "RUNNING" /\ t \in Slots /\ state[t] = "USED" /\ parent[t] = s
      /\ state' = [state EXCEPT ![t] = "RUNNABLE"] /\ pc[s] \notin Exiting /\ t # s
  BY <1>0, ExitingFacts DEF Embryos, Kinship
<1>2. \A u \in Slots : pc'[u] \in Exiting <=> pc[u] \in Exiting
  OBVIOUS
<1>3. \A u \in Slots \ {t} : state[u] # "UNUSED" => LifeIn(u)' = LifeIn(u)
  BY <1>0, <1>1, <1>2, Views DEF Lively, Types
<1>4. \A u \in Slots : Up(u)' = Up(u)
  BY <1>0, <1>2 DEF Up, HeirOf, Loops
<1>5. LifeIn(t) = "embryo" /\ LifeIn(t)' = "live"
  <2>1. state'[t] = "RUNNABLE" /\ pc'[t] \notin Exiting
    BY <1>0, <1>1, <1>2, ExitingFacts DEF Types, WaitLocked
  <2> QED
    BY <1>1, <2>1, Views DEF Lively
<1>6. Up(t) # 0
  <2>1. HeirOf(s) = s
    BY <1>1 DEF HeirOf
  <2> QED
    BY <1>0, <1>1, <2>1, SlotFacts DEF Up, Numbers
<1>7. /\ c \in IDs /\ LifeOf(c) = "embryo" /\ LifeOf(c)' = "live"
      /\ ParentOf(c) # 0 /\ ParentOf(c)' = ParentOf(c)
  BY <1>0, <1>1, <1>4, <1>5, <1>6, IDOf
<1>8. ASSUME NEW q \in IDs, q # c
      PROVE  LifeOf(q)' = LifeOf(q) /\ ParentOf(q)' = ParentOf(q)
  <2>1. \A u \in Slots : pid[u] = q => u # t
    BY <1>8
  <2>2. \A u \in Slots : pid[u] # 0 => state[u] # "UNUSED"
    BY <1>0 DEF Numbers
  <2> QED
    BY <1>0, <1>3, <1>4, <2>1, <2>2, SameIDs, Views
<1> QED
  BY <1>7, <1>8 DEF Tree!Start, IDs

LEMMA ExitLockStep ==
  ASSUME RefInv, RefInv', NEW s \in Slots, ExitLock(s), NEW p, p = pid[s]
  PROVE  Tree!Abandon(p) /\ p \in IDs
<1> USE DEF ExitLock, At, Running, Goto, table
<1>0. /\ Types /\ Loops /\ WaitLocked /\ Kinship /\ Numbers
      /\ UNCHANGED <<pid, nextpid, state, parent>>
  BY DEF RefInv, Base
<1>1. /\ state[s] = "RUNNING" /\ s # initproc /\ pc[s] = "exit_lock"
      /\ pc' = [pc EXCEPT ![s] = "reparent"]
  BY <1>0 DEF Kinship
<1>2. \A u \in Slots : pc'[u] \in Exiting <=> (u = s \/ pc[u] \in Exiting)
  BY <1>0, <1>1, ExitingFacts DEF Types
<1>3. \A u \in Slots \ {s} : state[u] # "UNUSED" => LifeIn(u)' = LifeIn(u)
  BY <1>0, <1>2, Views DEF Lively
<1>4. LifeIn(s) = "live" /\ LifeIn(s)' = "exiting"
  BY <1>0, <1>1, <1>2, ExitingFacts, Views DEF Lively
<1>5. \A u \in Slots : Up(u)' = IF Up(u) = p THEN 1 ELSE Up(u)
  <2>1. ASSUME NEW u \in Slots
        PROVE  Up(u)' = IF Up(u) = p THEN 1 ELSE Up(u)
    <3>1. initproc \in Slots /\ initproc # 0 /\ pid[initproc] = 1 /\ p # 0
      BY <1>0, <1>1, SlotFacts DEF Numbers
    <3>2. CASE parent[u] = s
      <4>1. HeirOf(parent[u]) = s /\ HeirOf(parent[u])' = initproc
        BY <1>0, <1>1, <1>2, <3>2, ExitingFacts, SlotFacts DEF HeirOf
      <4> QED
        BY <1>0, <3>1, <4>1, SlotFacts DEF Up
    <3>3. CASE parent[u] # s
      <4>1. HeirOf(parent[u])' = HeirOf(parent[u])
        BY <1>0, <1>2, <3>3 DEF HeirOf, Loops
      <4>2. HeirOf(parent[u]) # s /\ HeirOf(parent[u]) \in Slots \union {0}
        BY <1>0, <1>1, <3>1, <3>3 DEF HeirOf, Loops
      <4>3. Up(u) # p
        BY <1>0, <3>1, <4>2 DEF Up, Numbers
      <4> QED
        BY <1>0, <4>1, <4>3 DEF Up
    <3> QED
      BY <3>2, <3>3
  <2> QED
    BY <2>1
<1>6. /\ p \in IDs /\ p # 1 /\ LifeOf(p) = "live" /\ LifeOf(p)' = "exiting"
      /\ ParentOf(p)' = IF ParentOf(p) = p THEN 1 ELSE ParentOf(p)
  BY <1>0, <1>1, <1>4, <1>5, IDOf, SlotFacts DEF Numbers
<1>7. ASSUME NEW q \in IDs, q # p
      PROVE  /\ LifeOf(q)' = LifeOf(q)
             /\ ParentOf(q)' = IF ParentOf(q) = p THEN 1 ELSE ParentOf(q)
  <2>1. CASE \E u \in Slots : pid[u] = q
    <3>1. PICK u \in Slots : pid[u] = q
      BY <2>1
    <3>2. u # s /\ pid[u] # 0 /\ state[u] # "UNUSED"
      BY <1>0, <1>7, <3>1 DEF IDs, Numbers
    <3> QED
      BY <1>0, <1>3, <1>5, <3>1, <3>2, IDOf
  <2>2. CASE \A u \in Slots : pid[u] # q
    <3>1. p # 0
      BY <1>6 DEF IDs
    <3>2. LifeOf(q) = (IF q >= nextpid THEN "unborn" ELSE "gone") /\ ParentOf(q) = 0
      BY <2>2, Views DEF Seen
    <3>3. LifeOf(q)' = (IF q >= nextpid THEN "unborn" ELSE "gone") /\ ParentOf(q)' = 0
      BY <1>0, <2>2, Views DEF Seen
    <3> QED
      BY <3>1, <3>2, <3>3
  <2> QED
    BY <2>1, <2>2
<1> QED
  BY <1>6, <1>7 DEF Tree!Abandon, IDs

LEMMA ExitZombieStep ==
  ASSUME RefInv, RefInv', NEW s \in Slots, ExitZombie(s), NEW p, p = pid[s]
  PROVE  Tree!Die(p) /\ p \in IDs
<1> USE DEF ExitZombie, At, Running, Goto
<1>0. /\ Types /\ Loops /\ WaitLocked /\ Kinship /\ Numbers
      /\ UNCHANGED <<pid, nextpid, parent>>
  BY DEF RefInv, Base
<1>1. /\ state[s] = "RUNNING" /\ pc[s] = "zombie"
      /\ pc' = [pc EXCEPT ![s] = "user"] /\ state' = [state EXCEPT ![s] = "ZOMBIE"]
  OBVIOUS
<1>2. \A u \in Slots \ {s} : state[u] # "UNUSED" => LifeIn(u)' = LifeIn(u)
  BY <1>0, <1>1, Views DEF Lively, Types
<1>3. LifeIn(s) = "exiting" /\ LifeIn(s)' = "zombie"
  BY <1>0, <1>1, ExitingFacts, Views DEF Lively, Types
<1>4. \A u \in Slots : Up(u)' = Up(u)
  <2>1. \A u \in Slots : parent[u] # s
    BY <1>0, <1>1, SlotFacts DEF Kinship
  <2> QED
    BY <1>0, <1>1, <2>1 DEF Up, HeirOf, Loops, Types
<1>5. /\ p \in IDs /\ LifeOf(p) = "exiting" /\ LifeOf(p)' = "zombie"
      /\ ParentOf(p)' = ParentOf(p)
  BY <1>0, <1>1, <1>3, <1>4, IDOf
<1>6. ASSUME NEW q \in IDs, q # p
      PROVE  LifeOf(q)' = LifeOf(q) /\ ParentOf(q)' = ParentOf(q)
  <2>1. \A u \in Slots : pid[u] = q => u # s
    BY <1>6
  <2>2. \A u \in Slots : pid[u] # 0 => state[u] # "UNUSED"
    BY <1>0 DEF Numbers
  <2> QED
    BY <1>0, <1>2, <1>4, <2>1, <2>2, SameIDs, Views
<1> QED
  BY <1>5, <1>6 DEF Tree!Die, IDs

LEMMA WaitReapStep ==
  ASSUME RefInv, RefInv', NEW s \in Slots, NEW t \in Slots, Reaps(s, t),
         NEW p, p = pid[s], NEW c, c = pid[t]
  PROVE  Tree!Reap(p, c) /\ p \in IDs /\ c \in IDs
<1> USE DEF Reaps, SameExits
<1>0. /\ Types /\ Loops /\ WaitLocked /\ Kinship /\ Numbers /\ pid \in [Slots -> 0..MaxPid]
      /\ nextpid' = nextpid /\ nextpid \in 2..(MaxPid + 1)
  BY DEF RefInv, Base, Data
<1>1. /\ state[s] = "RUNNING" /\ pc[s] \notin Exiting
      /\ state[t] = "ZOMBIE" /\ parent[t] = s /\ t # s /\ t # initproc
      /\ state' = [state EXCEPT ![t] = "UNUSED"]
      /\ pid' = [pid EXCEPT ![t] = 0] /\ parent' = [parent EXCEPT ![t] = 0]
  BY <1>0 DEF Kinship, Alive
<1>2. \A u \in Slots : pc'[u] \in Exiting <=> pc[u] \in Exiting
  OBVIOUS
<1>3. \A u \in Slots \ {t} : state[u] # "UNUSED" => LifeIn(u)' = LifeIn(u)
  BY <1>0, <1>1, <1>2, Views DEF Lively, Types
<1>4. ASSUME NEW u \in Slots \ {t}
      PROVE  Up(u)' = Up(u)
  <2>1. parent'[u] = parent[u] /\ parent[u] # t
    BY <1>0, <1>1, SlotFacts DEF Kinship, Alive, Loops
  <2>2. HeirOf(parent[u])' = HeirOf(parent[u])
    BY <1>0, <1>2, <2>1 DEF HeirOf, Loops
  <2>3. HeirOf(parent[u]) # t /\ HeirOf(parent[u]) \in Slots \union {0}
    BY <1>0, <1>1, <2>1, SlotFacts DEF HeirOf, Loops
  <2> QED
    BY <1>0, <1>1, <2>2, <2>3 DEF Up
<1>5. pid[s] # 0 /\ pid[t] # 0
  BY <1>0, <1>1 DEF Numbers
<1>6. /\ p \in IDs /\ c \in IDs /\ c < nextpid
      /\ LifeOf(p) = "live" /\ LifeOf(c) = "zombie" /\ ParentOf(c) = p
  <2>1. LifeIn(s) = "live" /\ LifeIn(t) = "zombie"
    BY <1>1, Views DEF Lively
  <2>2. Up(t) = pid[s]
    BY <1>1, SlotFacts DEF Up, HeirOf
  <2> QED
    BY <1>0, <1>1, <1>5, <2>1, <2>2, Views DEF Seen, Numbers
<1>7. LifeOf(c)' = "gone" /\ ParentOf(c)' = 0
  <2>1. \A u \in Slots : pid'[u] # c
    BY <1>0, <1>1, <1>5 DEF Numbers
  <2>2. ~(c >= nextpid')
    BY <1>0, <1>6 DEF IDs
  <2> QED
    BY <1>6, <2>1, <2>2, Views DEF Seen
<1>8. ASSUME NEW q \in IDs, q # c
      PROVE  LifeOf(q)' = LifeOf(q) /\ ParentOf(q)' = ParentOf(q)
  <2>0. q # 0
    BY DEF IDs
  <2>1. CASE \E u \in Slots : pid[u] = q
    <3>1. PICK u \in Slots : pid[u] = q
      BY <2>1
    <3>2. u # t /\ pid'[u] = q /\ state[u] # "UNUSED"
      BY <1>0, <1>1, <1>8, <2>0, <3>1 DEF Numbers
    <3>3. LifeOf(q) = LifeIn(u) /\ ParentOf(q) = Up(u)
      BY <2>0, <3>1, Views DEF Seen
    <3>4. LifeOf(q)' = LifeIn(u)' /\ ParentOf(q)' = Up(u)'
      BY <2>0, <3>2, Views DEF Seen
    <3> QED
      BY <1>3, <1>4, <3>2, <3>3, <3>4
  <2>2. CASE \A u \in Slots : pid[u] # q
    <3>1. \A u \in Slots : pid'[u] # q
      BY <1>0, <1>1, <2>0, <2>2
    <3>2. LifeOf(q) = (IF q >= nextpid THEN "unborn" ELSE "gone") /\ ParentOf(q) = 0
      BY <2>2, Views DEF Seen
    <3>3. LifeOf(q)' = (IF q >= nextpid THEN "unborn" ELSE "gone") /\ ParentOf(q)' = 0
      BY <1>0, <3>1, Views DEF Seen
    <3> QED
      BY <3>2, <3>3
  <2> QED
    BY <2>1, <2>2
<1> QED
  BY <1>6, <1>7, <1>8 DEF Tree!Reap, IDs

-----------------------------------------------------------------------------
(* The theorem. *)

LEMMA RefInit == Init => RefInv /\ Tree!Init
<1> SUFFICES ASSUME Init PROVE RefInv /\ Tree!Init
  OBVIOUS
<1> USE SlotFacts, LabelFacts, ExitingFacts DEF Init
<1>1. RefInv
  <2>1. Base
    BY InitInv DEF Inv
  <2>2. Numbers /\ Kinship
    BY DEF Numbers, Kinship, Alive
  <2> QED
    BY <2>1, <2>2 DEF RefInv
<1>2. Seen /\ Lively
  BY <1>1, SeenFacts, LivelyFacts
<1>3. ASSUME NEW p \in IDs
      PROVE  LifeOf(p) = (IF p = 1 THEN "live" ELSE "unborn") /\ ParentOf(p) = 0
  <2>1. CASE p = 1
    <3>1. pid[1] = 1 /\ state[1] = "RUNNABLE" /\ pc[1] \notin Exiting
      OBVIOUS
    <3>2. LifeIn(1) = "live"
      BY <3>1, <1>2 DEF Lively
    <3>3. Up(1) = 0
      BY DEF Up, HeirOf
    <3> QED
      BY <2>1, <3>1, <3>2, <3>3, <1>2 DEF Seen
  <2>2. CASE p # 1
    <3>1. (\A s \in Slots : pid[s] # p) /\ p >= nextpid
      BY <2>2 DEF IDs
    <3> QED
      BY <2>2, <3>1, <1>2 DEF Seen
  <2> QED
    BY <2>1, <2>2
<1>4. Tree!Init
  BY <1>3 DEF Tree!Init, IDs
<1> QED
  BY <1>1, <1>4

LEMMA RefNext == RefInv /\ [Next]_vars => RefInv'
<1> SUFFICES ASSUME RefInv, [Next]_vars PROVE RefInv'
  OBVIOUS
<1>1. Base'
  BY BaseStep DEF RefInv
<1> QED
  BY <1>1, KinStep DEF RefInv

\* The steps of fork() and of wait() do what those lemmas are about.
LEMMA Deeds ==
  ASSUME RefInv, NEW s \in Slots
  PROVE  /\ \A t \in Slots : Fork(s, t) => Conceives(t)
         /\ ForkParent(s) => Adopts(s)
         /\ ForkRun(s) => Starts(s)
         /\ WaitReap(s) => \E t \in Slots : Reaps(s, t)
<1> USE SlotFacts, LabelFacts, ExitingFacts DEF At, Running, Goto, SameExits
<1>0. Types /\ WaitLocked /\ NextKidIs
  BY NextKidFacts DEF RefInv, Base
<1>1. ASSUME NEW t \in Slots, Fork(s, t) PROVE Conceives(t)
  BY <1>0, <1>1 DEF Fork, Syscall, Conceives, Types, WaitLocked
<1>2. ASSUME ForkParent(s) PROVE Adopts(s)
  BY <1>0, <1>2 DEF ForkParent, Adopts, Adopting, Types
<1>3. ASSUME ForkRun(s) PROVE Starts(s)
  BY <1>0, <1>3 DEF ForkRun, Starts, Starting, Types
<1>4. ASSUME WaitReap(s) PROVE Reaps(s, NextKid(s)) /\ NextKid(s) \in Slots
  BY <1>0, <1>4 DEF WaitReap, Return, freeproc, Reaps, Types, NextKidIs
<1> QED
  BY <1>1, <1>2, <1>3, <1>4

LEMMA DeedsAreSteps ==
  ASSUME RefInv, RefInv', NEW s \in Slots,
         Adopts(s) \/ Starts(s) \/ \E t \in Slots : Conceives(t) \/ Reaps(s, t)
  PROVE  Tree!Next
<1>1. PICK k, p, d : k = np[s] /\ p = pid[s] /\ d = pid[k]
  OBVIOUS
<1>2. CASE Adopts(s)
  <2>1. Tree!Adopt(p, d) /\ p \in IDs /\ d \in IDs
    BY <1>1, <1>2, ForkParentStep
  <2> QED
    BY <2>1 DEF Tree!Next, IDs
<1>3. CASE Starts(s)
  <2>1. Tree!Start(d) /\ d \in IDs
    BY <1>1, <1>3, ForkRunStep
  <2> QED
    BY <2>1 DEF Tree!Next, IDs
<1>4. ASSUME NEW t \in Slots, Conceives(t) PROVE Tree!Next
  <2>1. PICK c \in IDs : c = nextpid
    BY <1>4, NextID DEF Conceives
  <2>2. Tree!Conceive(c)
    BY <1>4, <2>1, ForkStep
  <2> QED
    BY <2>2 DEF Tree!Next, IDs
<1>5. ASSUME NEW t \in Slots, Reaps(s, t) PROVE Tree!Next
  <2>1. PICK c : c = pid[t]
    OBVIOUS
  <2>2. Tree!Reap(p, c) /\ p \in IDs /\ c \in IDs
    BY <1>1, <1>5, <2>1, WaitReapStep
  <2> QED
    BY <2>2 DEF Tree!Next, IDs
<1> QED
  BY <1>2, <1>3, <1>4, <1>5

LEMMA TreeStep ==
  ASSUME RefInv, RefInv', Next
  PROVE  Tree!Next \/ UNCHANGED <<life, kin>>
<1>1. ASSUME NEW s \in Slots, NEW t \in Slots, ForkFails(s, t)
      PROVE  Tree!Next
  <2>1. PICK c \in IDs : c = nextpid
    BY <1>1, NextID DEF ForkFails
  <2>2. Tree!Miscarry(c)
    BY <1>1, <2>1, ForkFailsStep
  <2> QED
    BY <2>2 DEF Tree!Next, IDs
<1>2. ASSUME NEW s \in Slots,
             \/ ForkParent(s) \/ ForkRun(s) \/ WaitReap(s)
             \/ \E t \in Slots : Fork(s, t)
      PROVE  Tree!Next
  BY <1>2, Deeds, DeedsAreSteps
<1>3. ASSUME NEW s \in Slots, ExitLock(s) \/ ExitZombie(s)
      PROVE  Tree!Next
  <2>1. PICK p : p = pid[s]
    OBVIOUS
  <2>2. p \in IDs /\ (Tree!Abandon(p) \/ Tree!Die(p))
    BY <1>3, <2>1, ExitLockStep, ExitZombieStep
  <2> QED
    BY <2>2 DEF Tree!Next, IDs
<1>4. 1 \in Slots
  BY SlotFacts
<1> QED
  BY <1>1, <1>2, <1>3, <1>4, QuietSteps DEF Next, Continue, ExitCall

\* The kernel keeps the promises of the process tree for any number of slots,
\* processors and process IDs: an ID is used once, exit() gives the children to
\* init, and a zombie is collected by its parent and by nobody else.
THEOREM KernelKeepsTheTree == Spec => ProcTreeSpec
<1>1. Spec => []RefInv
  BY RefInit, RefNext, PTL DEF Spec
<1>2. RefInv /\ RefInv' /\ [Next]_vars => [Tree!Next]_<<life, kin>>
  <2> SUFFICES ASSUME RefInv, RefInv', [Next]_vars PROVE [Tree!Next]_<<life, kin>>
    OBVIOUS
  <2>1. CASE UNCHANGED vars
    <3>1. UNCHANGED <<pid, nextpid, state, pc, parent>>
      BY <2>1 DEF vars, table, thread
    <3> QED
      BY <3>1, Quiet DEF HeirOf, Still
  <2> QED
    BY <2>1, TreeStep
<1>3. RefInv /\ RefInv' /\ [Next]_vars =>
        [Tree!Next]_<<[p \in 1..MaxPid |-> LifeOf(p)], [p \in 1..MaxPid |-> ParentOf(p)]>>
  BY <1>2 DEF life, kin, IDs
<1> QED
  BY <1>1, <1>3, RefInit, PTL DEF Spec, ProcTreeSpec, Tree!Spec
=============================================================================
